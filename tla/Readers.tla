------------------------------ MODULE Readers ------------------------------
(***************************************************************************)
(* The parser adapters side by side, as dispatch.py chooses one of them    *)
(* for a source.  The rest of the program relies on an observation in two  *)
(* ways, whatever the format: a known fact outside the tainted scopes is   *)
(* true of the source, and what the source states and the observation      *)
(* lacks is covered by a tainted scope.                                    *)
(***************************************************************************)
EXTENDS ReadGds, ReadSdc, ReadUpf, ReadCdl, ReadDef

CONSTANT MaxUndecoded  \* bound on the records of a source that is not UTF-8

Sources == GdsSources \cup SdcSources \cup UpfSources \cup CdlSources \cup DefSources

(* read_source: a file that cannot be read has no text, and one that is not *)
(* UTF-8 is read as Latin-1; neither is taken at its word.                  *)
Init ==
    \E s \in Sources, how \in {"utf-8", "latin-1", "unreadable"} :
        /\ how # "utf-8" => Len(s.records) <= MaxUndecoded
        /\ format = s.format
        /\ file = IF how = "unreadable" THEN << >> ELSE s.records
        /\ meant = s.meant
        /\ st = [s.start EXCEPT !.tainted = IF how = "utf-8" THEN {} ELSE {"*"}]
        /\ pos = 1
        /\ faults = 0
        /\ view = None

Next == GdsNext \/ SdcNext \/ UpfNext \/ CdlNext \/ DefNext \/ Lose \/ Repeat \/ Spoil \/ Cut

Spec == Init /\ [][Next]_vars

-----------------------------------------------------------------------------
States(f) == Statement(f.scope, f.kind, f.name, f.value)

(* A known fact of an observation, outside of the scopes it declares to be  *)
(* incomplete, is what the source states: no adapter turns a command it     *)
(* could not evaluate, a construct it skipped, a record that came twice or  *)
(* one that is missing into a fact the comparison may rely on.              *)
NothingInvented ==
    view # None =>
        \A f \in view.facts :
            f.known /\ ~Covered(view, f.scope) => States(f) \in meant

(* What a source states and its observation lacks lies in a tainted scope:  *)
(* whatever an adapter gives up on, its absence is never taken for the      *)
(* object's.                                                                *)
LossIsDeclared ==
    view # None =>
        \A m \in meant :
            \/ Covered(view, m.scope)
            \/ \E f \in view.facts :
                  f.scope = m.scope /\ f.kind = m.kind /\ f.name = m.name
=============================================================================
