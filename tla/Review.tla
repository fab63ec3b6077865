------------------------------- MODULE Review -------------------------------
(***************************************************************************)
(* The verdict of a check and the review against a saved baseline: the     *)
(* policy's severity overrides and dated waivers (engine.py), the multiset *)
(* comparison of reports (baseline.py) and the ratchet gates (cli.py).     *)
(*                                                                         *)
(* A report is a set of occurrences: an entry with its number among the    *)
(* equal entries of the report, from 1.  The fingerprint of an entry       *)
(* identifies the issue; the whole entry is its content.                   *)
(***************************************************************************)
EXTENDS Integers, FiniteSets

CONSTANTS
    Finding,        \* what the rules may report: code, object, severity, detail
    FatalRules,     \* the codes whose rule is fatal by default
    Policies,       \* the policies a project may choose from
    LastDay,        \* bound on the calendar
    MaxFindings,    \* bound on the findings of one run
    NoBaseline      \* no report has been saved yet

ASSUME ReviewAssumption ==
    /\ \A f \in Finding :
          f.severity \in {"fatal", "error", "warning", "info"}
    /\ \A p \in Policies :
          /\ p.denyWarnings \in BOOLEAN
          /\ \A c \in DOMAIN p.overrides \cap FatalRules : p.overrides[c] = "fatal"
          /\ DOMAIN p.waivers \subseteq Nat \ {0} /\ IsFiniteSet(DOMAIN p.waivers)
          /\ \A i \in DOMAIN p.waivers : p.waivers[i].expires \in Int
    /\ LastDay \in Nat
    /\ MaxFindings \in Nat

VARIABLES
    findings,   \* what the engine's rules found, before policy: occurrences
    policy,     \* overrides, waivers and denyWarnings
    today,
    baseline,   \* the saved report, or NoBaseline
    review,     \* the last review of this state: its gate and exit status
    debt        \* the active errors of the first report that was saved

vars == <<findings, policy, today, baseline, review, debt>>

What(occurrence) == occurrence[1]

\* The equal ones are numbered from 1.
Copies(occurrences, x) == Cardinality({o \in occurrences : What(o) = x})

Gates == {"none", "new", "changed", "all"}

NoReview == [done |-> FALSE, gate |-> "none", deny |-> FALSE, exit |-> 0]

-----------------------------------------------------------------------------
(* Policy: overrides first, then waivers *)

(* As the rules report it. *)
IsFatal(f) == f.severity = "fatal" \/ f.code \in FatalRules

(* An override may make any finding fatal, but no fatal one less so. *)
Severity(f) ==
    IF IsFatal(f) THEN "fatal"
    ELSE IF f.code \in DOMAIN policy.overrides THEN policy.overrides[f.code]
    ELSE f.severity

Waivers == policy.waivers

\* Mutant: a waiver counts from its date on, and not up to it.
NotYet(w) == w.expires > today

(* A waiver without a date never expires; its date is its last day. *)
Expired(w) == w.expires < today

Matches(w, f) == f.code \in w.codes /\ f.object \in w.objects

Hiding(f) == {i \in DOMAIN Waivers : ~Expired(Waivers[i]) /\ Matches(Waivers[i], f)}

\* Mutant: whether a finding is fatal is judged before the overrides.
WaivingAsReported(f) == IF IsFatal(f) THEN {} ELSE Hiding(f)

(* The waivers that would hide a finding, by their position; the first one *)
(* of them does.  What is fatal after the overrides, those of a fatal rule *)
(* included, is never waived.                                              *)
Waiving(f) == IF Severity(f) = "fatal" THEN {} ELSE Hiding(f)

WaivedBy(f) ==
    IF Waiving(f) = {} THEN 0
    ELSE CHOOSE i \in Waiving(f) : \A j \in Waiving(f) : i <= j

(* What a finding becomes in the report. *)
Entry(f) ==
    [print |-> <<f.code, f.object>>, severity |-> Severity(f),
     detail |-> f.detail, waiver |-> WaivedBy(f)]

WaiverEntry(code, severity, i) ==
    [print |-> <<code, "waiver">>, severity |-> severity,
     detail |-> i, waiver |-> 0]

(* Said about the waivers themselves, after overrides and waivers applied. *)
WaiverEntries ==
    {WaiverEntry("OC1004", "warning", i) :
        i \in {j \in DOMAIN Waivers : Expired(Waivers[j])}}
    \cup {WaiverEntry("OC1005", "info", i) :
        i \in {j \in DOMAIN Waivers :
                 /\ ~Expired(Waivers[j])
                 /\ \A o \in findings : WaivedBy(What(o)) # j}}

EntryCopies(e) ==
    Cardinality({o \in findings : Entry(What(o)) = e}) + (IF e \in WaiverEntries THEN 1 ELSE 0)

Report ==
    UNION {{e} \X (1..EntryCopies(e)) :
              e \in {Entry(What(o)) : o \in findings} \cup WaiverEntries}

Suppressed(o) == What(o).waiver # 0

Active(report) == {o \in report : ~Suppressed(o)}

(* EngineResult.exit_code *)
CheckExit(report, deny) ==
    IF \E o \in Active(report) : What(o).severity = "fatal" THEN 2
    ELSE IF \E o \in Active(report) : \/ What(o).severity = "error"
                                      \/ deny /\ What(o).severity = "warning" THEN 1
    ELSE 0

-----------------------------------------------------------------------------
(* The comparison of two reports, fingerprint by fingerprint *)

Group(report, print) == {o \in report : What(o).print = print}

Prints(report) == {What(o).print : o \in report}

\* Mutant: one occurrence in the baseline covers them all.
SeenBefore(old, new) == {o \in new : \A p \in old : What(p) # What(o)}

(* Occurrences left over when equal contents are matched first. *)
Unmatched(old, new) == new \ old

\* Mutant: new are the fingerprints that the baseline has not.
NewPrints(old, new, print) ==
    IF print \in Prints(old) THEN 0
    ELSE Cardinality(Group(Unmatched(old, new), print))

(* Left-over occurrences pair up as changed; those beyond are new.  The    *)
(* order of the pairing is that of content digests, which is arbitrary.    *)
NewCount(old, new, print) ==
    LET left == Cardinality(Group(Unmatched(old, new), print))
        gone == Cardinality(Group(Unmatched(new, old), print))
    IN  IF left > gone THEN left - gone ELSE 0

NewOccurrences(old, new) ==
    {fresh \in SUBSET Unmatched(old, new) :
        \A print \in Prints(new) :
            Cardinality(Group(fresh, print)) = NewCount(old, new, print)}

(* The occurrences of the current report in a state the gate looks at. *)
Gated(old, new, fresh, gate) ==
    CASE gate = "none"    -> {}
      [] gate = "new"     -> fresh
      [] gate = "changed" -> Unmatched(old, new)
      [] gate = "all"     -> new

(* _diff_exit_code *)
DiffExit(old, new, fresh, gate, deny) ==
    IF \/ CheckExit(new, deny) = 2
       \/ \E o \in new : What(o).severity = "fatal" THEN 2
    ELSE IF \E o \in Gated(old, new, fresh, gate) :
              /\ ~Suppressed(o)
              /\ \/ What(o).severity \in {"fatal", "error"}
                 \/ deny /\ What(o).severity = "warning" THEN 1
    ELSE 0

-----------------------------------------------------------------------------
ActiveErrors(report) == {o \in Active(report) : What(o).severity = "error"}

Init ==
    /\ findings = {}
    /\ policy \in Policies
    /\ today = 0
    /\ baseline = NoBaseline
    /\ review = NoReview
    /\ debt = {}

(* A source gains or loses something a rule reports. *)
Introduce(f) ==
    /\ Cardinality(findings) < MaxFindings
    /\ findings' = findings \cup {<<f, Copies(findings, f) + 1>>}
    /\ review' = NoReview
    /\ UNCHANGED <<policy, today, baseline, debt>>

Fix(f) ==
    /\ Copies(findings, f) > 0
    /\ findings' = findings \ {<<f, Copies(findings, f)>>}
    /\ review' = NoReview
    /\ UNCHANGED <<policy, today, baseline, debt>>

EditPolicy ==
    /\ \E p \in Policies \ {policy} : policy' = p
    /\ review' = NoReview
    /\ UNCHANGED <<findings, today, baseline, debt>>

NextDay ==
    /\ today < LastDay
    /\ today' = today + 1
    /\ review' = NoReview
    /\ UNCHANGED <<findings, policy, baseline, debt>>

(* The first report is saved as it is; later ones after a review passed, *)
(* as the documentation asks.                                            *)
SaveBaseline ==
    /\ \/ baseline = NoBaseline /\ debt' = ActiveErrors(Report)
       \/ /\ review.done /\ review.gate = "changed" /\ review.exit = 0
          /\ UNCHANGED debt
    /\ baseline' = Report
    /\ review' = NoReview
    /\ UNCHANGED <<findings, policy, today>>

(* opencollate review --fail-on gate; --deny-warnings adds to the policy.  *)
RunReview ==
    /\ baseline # NoBaseline
    /\ LET current == Report IN
       \E fresh \in NewOccurrences(baseline, current), gate \in Gates,
          deny \in {policy.denyWarnings, TRUE} :
             review' = [done |-> TRUE, gate |-> gate, deny |-> deny,
                        exit |-> DiffExit(baseline, current, fresh, gate, deny)]
    /\ UNCHANGED <<findings, policy, today, baseline, debt>>

Next ==
    \/ \E f \in Finding : Introduce(f) \/ Fix(f)
    \/ EditPolicy
    \/ NextDay
    \/ SaveBaseline
    \/ RunReview

Spec == Init /\ [][Next]_vars

-----------------------------------------------------------------------------
(* Properties *)

(* The policy makes every finding of this rule fatal. *)
Promoted(f) ==
    f.code \in DOMAIN policy.overrides /\ policy.overrides[f.code] = "fatal"

(* While a finding stands that is fatal by itself, by its rule or because  *)
(* the policy promotes its rule, no override, no waiver and no gate gives  *)
(* another exit status than 2 ("Fatal findings cannot be downgraded or     *)
(* waived", docs/exit-codes.md:12; _apply_severity_overrides, _apply_waivers). *)
FatalSurvives ==
    (\E o \in findings : IsFatal(What(o)) \/ Promoted(What(o))) =>
        /\ CheckExit(Report, policy.denyWarnings) = 2
        /\ review.done => review.exit = 2

(* The ratchet: a project that refreshes its baseline only after a passing *)
(* review never has, in a passing review, an active error that was not in  *)
(* its first baseline, nor more occurrences of one, however the policy     *)
(* and the calendar changed in between.                                    *)
RatchetHolds ==
    review.done /\ review.gate = "changed" /\ review.exit = 0 =>
        ActiveErrors(Report) \subseteq debt

(* The gate "new" bounds the active errors of each fingerprint by the      *)
(* occurrences its baseline has, in whatever order left-overs are paired.  *)
NewGateBounds ==
    review.done /\ review.gate = "new" /\ review.exit = 0 =>
        \A print \in Prints(Report) :
            Cardinality(Group(ActiveErrors(Report), print))
                <= Cardinality(Group(baseline, print))

(* Time alone never turns a failing project into a passing one: when a day *)
(* passes waivers end and none begins to hide.                             *)
TimeNeverHelps ==
    [][today' # today =>
         CheckExit(Report, policy.denyWarnings)'
            >= CheckExit(Report, policy.denyWarnings)]_vars

=============================================================================
