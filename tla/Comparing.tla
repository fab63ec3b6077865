----------------------------- MODULE Comparing -----------------------------
(***************************************************************************)
(* What the checks of the comparison engine have in common (engine.py):    *)
(* every view reports facts with a state each, a check compares the known  *)
(* ones across the views and with the frozen contract, and the contract is *)
(* selected from the views by authority, baseline and view order.          *)
(***************************************************************************)
EXTENDS Integers, FiniteSets, SequencesExt

CONSTANTS
    None,          \* no value, a property no source states
    ViewOrder,     \* the views, in the order of their identities
    ViewKind,      \* [view -> kind of source], as _semantic_view_kind
    BaselineView,  \* contract.baseline, or None
    Authority      \* contract.authority: [topic -> views it matches]

Views == Range(ViewOrder)

ASSUME ComparingAssumption ==
    /\ Cardinality(Views) = Len(ViewOrder)
    /\ Views \subseteq DOMAIN ViewKind
    /\ BaselineView \in Views \cup {None}
    /\ \A topic \in DOMAIN Authority : Authority[topic] \subseteq Views

FactState == {"known", "unknown", "unsupported", "tainted"}

(* The name under which the frozen values take part in a comparison. *)
ContractView == "contract"

(* A finding about an object; the same rule reports an object once. *)
Finding(code, object) == [code |-> code, object |-> object]

FindingIf(condition, code, object) ==
    IF condition THEN {Finding(code, object)} ELSE {}

(* Two different values (_has_conflict). *)
Differ(values) == \E a, b \in values : a # b

(* An adapter lost an unknown part of the view: the view is incomplete     *)
(* without saying where, or every scope is in doubt.                       *)
Everything == <<"*">>

WholeTainted(view) ==
    \/ ~view.complete /\ view.tainted = {}
    \/ Everything \in view.tainted

IndexOf(v) == CHOOSE i \in DOMAIN ViewOrder : ViewOrder[i] = v

(* The place of a view when a contract is selected: the authority of the   *)
(* topic first, then the baseline, then a preference among formats, then   *)
(* the order of the views.                                                 *)
SelectionKey(v, topic, format) ==
    <<IF v \in Authority[topic] THEN 0 ELSE 1,
      IF v = BaselineView THEN 0 ELSE 1,
      format[v],
      IndexOf(v)>>

Before(a, b) ==
    \E i \in DOMAIN a : /\ a[i] < b[i]
                        /\ \A j \in 1..(i - 1) : a[j] = b[j]

PreferredView(candidates, topic, format) ==
    CHOOSE v \in candidates :
        \A w \in candidates \ {v} :
            Before(SelectionKey(v, topic, format),
                   SelectionKey(w, topic, format))

=============================================================================
