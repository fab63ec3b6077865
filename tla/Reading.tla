------------------------------ MODULE Reading ------------------------------
(***************************************************************************)
(* What every parser adapter has in common (parsers/base.py): it takes the *)
(* records or commands of a source in order and reports an observation, a  *)
(* set of facts with a state each, the scopes whose facts it may have      *)
(* lost, and whether the whole view is complete.                           *)
(*                                                                         *)
(* A source is a sequence of abstract records.  A binary stream may reach  *)
(* the reader damaged: a record is missing, comes twice, has an unusable   *)
(* payload, or the rest of the stream is cut off.                          *)
(***************************************************************************)
EXTENDS Integers, FiniteSets, SequencesExt

CONSTANTS
    None,        \* no value, no section open, no observation yet
    Fragile,     \* the formats whose source may be damaged
    MaxFaults    \* bound on the damaged records of a source

VARIABLES
    format,  \* the adapter that reads
    file,    \* the records of the source, as the reader meets them
    meant,   \* what the source states, as its own tools read it
    pos,     \* the next record
    faults,  \* records damaged so far
    st,      \* the reader's state
    view     \* the observation, None until the source is read

vars == <<format, file, meant, pos, faults, st, view>>

(* A fact about the object `name' of the given kind. *)
Fact(scope, kind, name, value, known) ==
    [scope |-> scope, kind |-> kind, name |-> name, value |-> value,
     known |-> known]

Statement(scope, kind, name, value) ==
    [scope |-> scope, kind |-> kind, name |-> name, value |-> value]

Observed(facts, complete, tainted) ==
    [facts |-> facts, complete |-> complete, tainted |-> tainted]

(* ViewObservation.scope_is_tainted. *)
Covered(v, scope) ==
    \/ ~v.complete /\ v.tainted = {}
    \/ {scope, "*"} \cap v.tainted # {}

-----------------------------------------------------------------------------
(* Taking the next record of a source in format f *)

Pending(f) == format = f /\ view = None /\ pos <= Len(file)

Rec == file[pos]

Damaging(f) == f \in Fragile /\ faults < MaxFaults

(* The reader handles a record of type t. *)
Take(f, t) ==
    /\ Pending(f)
    /\ Rec.type = t
    /\ pos' = pos + 1
    /\ UNCHANGED <<format, file, meant, faults, view>>

(* What can happen to the stream before the reader meets the next record. *)
Repeat ==
    /\ Pending(format)
    /\ Damaging(format)
    /\ faults' = faults + 1
    /\ file' = InsertAt(file, pos, Rec)
    /\ UNCHANGED <<format, meant, pos, st, view>>

Lose ==
    /\ Pending(format)
    /\ Damaging(format)
    /\ faults' = faults + 1
    /\ pos' = pos + 1
    /\ UNCHANGED <<format, meant, file, st, view>>

Spoil ==
    /\ Pending(format)
    /\ Damaging(format)
    /\ file[pos].ok
    /\ faults' = faults + 1
    /\ file' = [file EXCEPT ![pos].ok = FALSE]
    /\ UNCHANGED <<format, meant, pos, st, view>>

Cut ==
    /\ Pending(format)
    /\ Damaging(format)
    /\ faults' = faults + 1
    /\ pos' = Len(file) + 1
    /\ UNCHANGED <<format, meant, file, st, view>>

(* The source is read: the reader reports v. *)
Report(f, v) ==
    /\ format = f
    /\ view = None
    /\ view' = v
    /\ UNCHANGED <<format, file, meant, pos, faults, st>>

=============================================================================
