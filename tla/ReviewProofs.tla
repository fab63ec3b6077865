---------------------------- MODULE ReviewProofs ----------------------------
(***************************************************************************)
(* Four results for all findings, all policies, all calendars and all      *)
(* histories of baselines: a fatal finding always ends as exit status 2,   *)
(* the days that pass never make a check pass that failed before, and what *)
(* the gates "changed" and "new" of a review promise.                      *)
(***************************************************************************)
EXTENDS Review, FiniteSetTheorems, WellFoundedInduction, TLAPS

-----------------------------------------------------------------------------
(* What is true of every state: the policy is one of the project's, and    *)
(* all counts are of finite sets.                                          *)

Ground ==
    /\ policy \in Policies
    /\ today \in Nat
    /\ IsFiniteSet(findings)

LEMMA GroundInit == Init => Ground
BY FS_EmptySet DEF Init, Ground

LEMMA GroundStep == Ground /\ [Next]_vars => Ground'
<1> SUFFICES ASSUME Ground, [Next]_vars
             PROVE  Ground'
    OBVIOUS
<1>1. CASE NextDay
    BY <1>1 DEF Ground, NextDay
<1>2. CASE EditPolicy
    BY <1>2 DEF Ground, EditPolicy
<1>3. CASE SaveBaseline
    BY <1>3 DEF Ground, SaveBaseline
<1>4. CASE UNCHANGED vars
    BY <1>4 DEF Ground, vars
<1>5. ASSUME NEW f \in Finding, Introduce(f)
      PROVE  Ground'
    BY <1>5, FS_AddElement DEF Ground, Introduce
<1>6. ASSUME NEW f \in Finding, Fix(f)
      PROVE  Ground'
    BY <1>6, FS_RemoveElement DEF Ground, Fix
<1>7. CASE RunReview
    BY <1>7 DEF Ground, RunReview
<1>8. QED
    BY <1>1, <1>2, <1>3, <1>4, <1>5, <1>6, <1>7 DEF Next

-----------------------------------------------------------------------------
(* The report.                                                             *)

Entries == {Entry(What(o)) : o \in findings} \cup WaiverEntries

LEMMA CopiesOfEntry ==
    ASSUME Ground, NEW e
    PROVE  EntryCopies(e) \in Nat /\ (e \in Entries => EntryCopies(e) >= 1)
<1> DEFINE same == {o \in findings : Entry(What(o)) = e}
<1>1. IsFiniteSet(same) /\ same \subseteq findings
    BY FS_Subset DEF Ground
<1>2. Cardinality(same) \in Nat /\ (same # {} => Cardinality(same) # 0)
    BY <1>1, FS_CardinalityType, FS_EmptySet
<1>3. e \in Entries => same # {} \/ e \in WaiverEntries
    BY DEF Entries
<1>4. EntryCopies(e) = Cardinality(same) + (IF e \in WaiverEntries THEN 1 ELSE 0)
    BY DEF EntryCopies
<1> HIDE DEF same
<1>5. QED
    BY <1>2, <1>3, <1>4

(* The entries of the findings and of the waivers, and nothing else. *)
LEMMA ReportEntries ==
    ASSUME Ground
    PROVE  /\ \A o \in Report : What(o) \in Entries
           /\ \A e \in Entries : <<e, 1>> \in Report
<1>1. Report = UNION {{e} \X (1..EntryCopies(e)) : e \in Entries}
    BY DEF Report, Entries
<1>2. \A e \in Entries : 1 \in 1..EntryCopies(e)
    BY CopiesOfEntry
<1> HIDE DEF Entries
<1>3. QED
    BY <1>1, <1>2 DEF What

(* Nothing else goes into a report. *)
LEMMA SameReport ==
    ASSUME UNCHANGED <<findings, policy, today>>
    PROVE  Report' = Report
<1>1. \A f : WaivedBy(f)' = WaivedBy(f)
    BY DEF WaivedBy, Waiving, Hiding, Severity, Waivers, Expired, Matches, IsFatal
<1>2. \A f : Severity(f)' = Severity(f)
    BY DEF Severity, IsFatal
<1>3. \A f : Entry(f)' = Entry(f)
    BY <1>1, <1>2 DEF Entry
<1>4. WaiverEntries' = WaiverEntries
    BY <1>1 DEF WaiverEntries, Waivers, Expired, What
<1>5. \A e : EntryCopies(e)' = EntryCopies(e)
    BY <1>3, <1>4 DEF EntryCopies, What
<1>6. QED
    BY <1>3, <1>4, <1>5 DEF Report, What

LEMMA ImageFinite ==
    ASSUME NEW S, IsFiniteSet(S), NEW f, DOMAIN f = S, f = [x \in S |-> f[x]]
    PROVE  IsFiniteSet({f[x] : x \in S})
<1>1. f \in Surjection(S, {f[x] : x \in S})
    BY DEF Surjection
<1>2. QED
    BY <1>1, FS_Surjection

LEMMA ReportFinite ==
    ASSUME Ground
    PROVE  IsFiniteSet(Report)
<1>1. IsFiniteSet({Entry(What(o)) : o \in findings})
    <2> DEFINE f == [o \in findings |-> Entry(What(o))]
    <2>1. IsFiniteSet({f[o] : o \in findings})
        BY ImageFinite DEF Ground
    <2>2. QED
        BY <2>1
<1>2. IsFiniteSet(WaiverEntries)
    <2> DEFINE over == {j \in DOMAIN Waivers : Expired(Waivers[j])}
               idle == {j \in DOMAIN Waivers : /\ ~Expired(Waivers[j])
                                               /\ \A o \in findings : WaivedBy(What(o)) # j}
               f == [i \in over |-> WaiverEntry("OC1004", "warning", i)]
               g == [i \in idle |-> WaiverEntry("OC1005", "info", i)]
    <2>1. IsFiniteSet(over) /\ IsFiniteSet(idle)
        <3>1. IsFiniteSet(DOMAIN Waivers)
            BY ReviewAssumption DEF Ground, Waivers
        <3>2. over \in SUBSET DOMAIN Waivers /\ idle \in SUBSET DOMAIN Waivers
            OBVIOUS
        <3> HIDE DEF over, idle
        <3>3. QED
            BY <3>1, <3>2, FS_Subset
    <2>2. /\ DOMAIN f = over /\ f = [x \in over |-> f[x]]
          /\ DOMAIN g = idle /\ g = [x \in idle |-> g[x]]
        OBVIOUS
    <2>3. WaiverEntries = {f[i] : i \in over} \cup {g[i] : i \in idle}
        BY DEF WaiverEntries
    <2> HIDE DEF over, idle, f, g
    <2>4. IsFiniteSet({f[i] : i \in over}) /\ IsFiniteSet({g[i] : i \in idle})
        BY <2>1, <2>2, ImageFinite
    <2>5. QED
        BY <2>3, <2>4, FS_Union
<1>3. IsFiniteSet(Entries)
    BY <1>1, <1>2, FS_Union DEF Entries
<1>4. \A e : IsFiniteSet({e} \X (1..EntryCopies(e)))
    <2>1. ASSUME NEW e PROVE IsFiniteSet({e} \X (1..EntryCopies(e)))
        <3>1. EntryCopies(e) \in Nat
            BY CopiesOfEntry
        <3>2. IsFiniteSet({e}) /\ IsFiniteSet(1..EntryCopies(e))
            <4>1. EntryCopies(e) \in Int /\ 1 \in Int
                BY <3>1
            <4>2. QED
                BY <4>1, FS_Singleton, FS_Interval
        <3>3. QED
            BY <3>2, FS_Product
    <2>2. QED
        BY <2>1
<1> DEFINE part == [e \in Entries |-> {e} \X (1..EntryCopies(e))]
<1>5. DOMAIN part = Entries /\ part = [e \in Entries |-> part[e]]
    OBVIOUS
<1>6. \A T \in {part[e] : e \in Entries} : IsFiniteSet(T)
    BY <1>4
<1>7. Report = UNION {part[e] : e \in Entries}
    BY DEF Report, Entries
<1> HIDE DEF part
<1>8. IsFiniteSet({part[e] : e \in Entries})
    BY <1>3, <1>5, ImageFinite
<1>9. QED
    BY <1>6, <1>7, <1>8, FS_UNION

-----------------------------------------------------------------------------
(* Fatal findings.                                                         *)

(* Fatal by itself, by its rule or by the policy. *)
IsOrBecomesFatal(f) == IsFatal(f) \/ Promoted(f)

(* Such a finding stands in the report as an active fatal entry, whatever  *)
(* the overrides and waivers of the policy are.                            *)
LEMMA FatalEntry ==
    ASSUME Ground, NEW o \in findings, IsOrBecomesFatal(What(o))
    PROVE  \E r \in Active(Report) : What(r).severity = "fatal"
<1> DEFINE e == Entry(What(o))
<1>1. e.severity = "fatal" /\ e.waiver = 0
    BY DEF IsOrBecomesFatal, Promoted, Entry, Severity, WaivedBy, Waiving
<1>2. e \in Entries
    BY DEF Entries
<1> HIDE DEF e
<1>3. <<e, 1>> \in Report /\ What(<<e, 1>>) = e
    BY <1>2, ReportEntries DEF What
<1>4. QED
    BY <1>1, <1>3 DEF Active, Suppressed

(* The verdict of a check with a fatal finding, whatever --deny-warnings is. *)
LEMMA FatalCheck ==
    ASSUME Ground, NEW o \in findings, IsOrBecomesFatal(What(o)), NEW deny
    PROVE  CheckExit(Report, deny) = 2
BY FatalEntry DEF CheckExit

(* The same for a review against any baseline and with any gate. *)
LEMMA FatalReview ==
    ASSUME Ground, NEW o \in findings, IsOrBecomesFatal(What(o)),
           NEW old, NEW fresh, NEW gate, NEW deny
    PROVE  DiffExit(old, Report, fresh, gate, deny) = 2
BY FatalCheck DEF DiffExit

-----------------------------------------------------------------------------
(* Reviews.                                                                *)

IsActiveError(o) == ~Suppressed(o) /\ What(o).severity = "error"

(* What a review leaves behind: its exit status is about this state, and   *)
(* every gate has looked at the active errors of its states.               *)
Standing == \E o \in findings : IsOrBecomesFatal(What(o))

Judged ==
    \E fresh \in NewOccurrences(baseline, Report) :
        review.exit = 0 =>
            \A o \in Gated(baseline, Report, fresh, review.gate) : ~IsActiveError(o)

Reviewed ==
    review.done =>
        /\ Standing => review.exit = 2
        /\ baseline # NoBaseline
        /\ review.gate \in Gates
        /\ Judged

(* What the baseline owes to the first one. *)
Ratchet ==
    baseline # NoBaseline => /\ IsFiniteSet(baseline)
                             /\ ActiveErrors(baseline) \subseteq debt

IInv == Ground /\ Reviewed /\ Ratchet

LEMMA GatePasses ==
    ASSUME NEW old, NEW new, NEW fresh, NEW gate, NEW deny,
           DiffExit(old, new, fresh, gate, deny) = 0
    PROVE  \A o \in Gated(old, new, fresh, gate) : ~IsActiveError(o)
BY DEF DiffExit, IsActiveError

LEMMA ChangedGate ==
    ASSUME NEW old, NEW new, NEW fresh,
           \A o \in Gated(old, new, fresh, "changed") : ~IsActiveError(o)
    PROVE  ActiveErrors(new) \subseteq ActiveErrors(old)
<1>1. \A o \in new \ old : ~IsActiveError(o)
    BY DEF Gated, Unmatched
<1>2. QED
    BY <1>1 DEF IsActiveError, ActiveErrors, Active

LEMMA InvInit == Init => IInv
BY GroundInit DEF Init, NoReview, IInv, Reviewed, Ratchet

LEMMA ReviewInv ==
    ASSUME IInv, RunReview
    PROVE  Reviewed' /\ Ratchet'
<1>1. PICK fresh \in NewOccurrences(baseline, Report), gate \in Gates,
           deny \in {policy.denyWarnings, TRUE} :
         review' = [done |-> TRUE, gate |-> gate, deny |-> deny,
                    exit |-> DiffExit(baseline, Report, fresh, gate, deny)]
    BY DEF RunReview
<1>2. baseline # NoBaseline /\ UNCHANGED <<findings, policy, today, baseline, debt>>
    BY DEF RunReview
<1>3. Report' = Report
    BY <1>2, SameReport
<1>4. Standing => review'.exit = 2
    BY <1>1, FatalReview DEF Standing, IInv
<1>5. Standing' => Standing
    BY <1>2 DEF Standing, IsOrBecomesFatal, Promoted, IsFatal
<1>6. review'.exit = 0 => \A o \in Gated(baseline, Report, fresh, gate) : ~IsActiveError(o)
    BY <1>1, GatePasses
<1>7. Judged'
    BY <1>1, <1>2, <1>3, <1>6 DEF Judged
<1>8. QED
    BY <1>1, <1>2, <1>4, <1>5, <1>7 DEF Reviewed, Ratchet, IInv

LEMMA SaveInv ==
    ASSUME IInv, SaveBaseline
    PROVE  Reviewed' /\ Ratchet'
<1>1. baseline' = Report /\ review' = NoReview
    BY DEF SaveBaseline
<1>2. IsFiniteSet(Report)
    BY ReportFinite DEF IInv
<1>3. ActiveErrors(Report) \subseteq debt'
    <2>1. CASE debt' = ActiveErrors(Report)
        BY <2>1
    <2>2. CASE review.done /\ review.gate = "changed" /\ review.exit = 0 /\ debt' = debt
        <3>1. Judged /\ baseline # NoBaseline
            BY <2>2 DEF IInv, Reviewed
        <3>2. ActiveErrors(Report) \subseteq ActiveErrors(baseline)
            BY <2>2, <3>1, ChangedGate DEF Judged
        <3>3. QED
            BY <2>2, <3>1, <3>2 DEF IInv, Ratchet
    <2>3. QED
        BY <2>1, <2>2 DEF SaveBaseline
<1>4. ActiveErrors(baseline)' = ActiveErrors(Report)
    BY <1>1 DEF ActiveErrors, Active, Suppressed, What
<1>5. Reviewed'
    BY <1>1 DEF NoReview, Reviewed
<1>6. QED
    BY <1>1, <1>2, <1>3, <1>4, <1>5 DEF Ratchet

(* A step either forgets the review, or runs one, or leaves all as it was. *)
LEMMA InvStep == IInv /\ [Next]_vars => IInv'
<1> SUFFICES ASSUME IInv, [Next]_vars
             PROVE  IInv'
    OBVIOUS
<1> SUFFICES Reviewed' /\ Ratchet'
    BY GroundStep DEF IInv
<1>1. ASSUME review' = NoReview, UNCHANGED <<baseline, debt>>
      PROVE  Reviewed' /\ Ratchet'
    BY <1>1 DEF NoReview, Reviewed, Ratchet, IInv, ActiveErrors, Active, Suppressed, What
<1>2. ASSUME NEW f \in Finding, Introduce(f) \/ Fix(f)
      PROVE  Reviewed' /\ Ratchet'
    BY <1>1, <1>2 DEF Introduce, Fix
<1>3. CASE EditPolicy \/ NextDay
    BY <1>1, <1>3 DEF EditPolicy, NextDay
<1>4. CASE SaveBaseline
    BY <1>4, SaveInv
<1>5. CASE RunReview
    BY <1>5, ReviewInv
<1>6. CASE UNCHANGED vars
    <2>1. UNCHANGED <<findings, policy, today, baseline, review, debt>>
        BY <1>6 DEF vars
    <2>2. Report' = Report
        BY <2>1, SameReport
    <2>3. Judged => Judged'
        BY <2>1, <2>2 DEF Judged
    <2>4. Standing' => Standing
        BY <2>1 DEF Standing, IsOrBecomesFatal, Promoted, IsFatal
    <2>5. QED
        BY <2>1, <2>3, <2>4 DEF Reviewed, Ratchet, IInv
<1>7. QED
    BY <1>2, <1>3, <1>4, <1>5, <1>6 DEF Next

(* While a finding stands that is fatal by itself, by its rule or because  *)
(* the policy promotes its rule, no policy and no gate gives another exit  *)
(* status than 2.                                                          *)
THEOREM FatalAlwaysFails == Spec => []FatalSurvives
<1>1. IInv => FatalSurvives
    BY FatalCheck DEF IInv, Reviewed, Standing, IsOrBecomesFatal, FatalSurvives
<1>2. QED
    BY <1>1, InvInit, InvStep, PTL DEF Spec

(* The ratchet: after any number of refreshed baselines, a review that     *)
(* passes has no active error that the first baseline had not.             *)
THEOREM DebtNeverGrows == Spec => []RatchetHolds
<1>1. ASSUME IInv, review.done, review.gate = "changed", review.exit = 0
      PROVE  ActiveErrors(Report) \subseteq debt
    <2>1. Judged /\ ActiveErrors(baseline) \subseteq debt
        BY <1>1 DEF IInv, Reviewed, Ratchet
    <2>2. ActiveErrors(Report) \subseteq ActiveErrors(baseline)
        BY <1>1, <2>1, ChangedGate DEF Judged
    <2>3. QED
        BY <2>1, <2>2
<1>2. IInv => RatchetHolds
    BY <1>1 DEF RatchetHolds
<1>3. QED
    BY <1>2, InvInit, InvStep, PTL DEF Spec

-----------------------------------------------------------------------------
(* The gate "new".                                                         *)

(* What is not new was matched, or is paired with an occurrence that has   *)
(* gone: there are no more of either than the baseline has.                *)
LEMMA NotNewIsBounded ==
    ASSUME NEW old, NEW new, IsFiniteSet(old), IsFiniteSet(new),
           NEW fresh \in NewOccurrences(old, new), NEW print \in Prints(new)
    PROVE  Cardinality(Group(new, print) \ Group(fresh, print))
              <= Cardinality(Group(old, print))
<1> DEFINE n == Group(new, print)
           o == Group(old, print)
           f == Group(fresh, print)
           left == Group(Unmatched(old, new), print)
           gone == Group(Unmatched(new, old), print)
<1>1. left = n \ o /\ gone = o \ n /\ f \subseteq n
    BY DEF NewOccurrences, Group, Unmatched
<1>2. IsFiniteSet(n) /\ IsFiniteSet(o)
    <2>1. n \in SUBSET new /\ o \in SUBSET old
        BY DEF Group
    <2>2. QED
        BY <2>1, FS_Subset
<1>3. Cardinality(f) = IF Cardinality(left) > Cardinality(gone)
                       THEN Cardinality(left) - Cardinality(gone) ELSE 0
    BY DEF NewOccurrences, NewCount
<1> HIDE DEF n, o, f, left, gone
<1>4. IsFiniteSet(f) /\ IsFiniteSet(n \cap o) /\ IsFiniteSet(left) /\ IsFiniteSet(gone)
    BY <1>1, <1>2, FS_Subset, FS_Difference, FS_Intersection
<1>5. /\ Cardinality(n) \in Nat /\ Cardinality(o) \in Nat /\ Cardinality(n \cap o) \in Nat
      /\ Cardinality(left) \in Nat /\ Cardinality(gone) \in Nat /\ Cardinality(f) \in Nat
    BY <1>2, <1>4, FS_CardinalityType
<1>6. Cardinality(left) = Cardinality(n) - Cardinality(n \cap o)
    BY <1>1, <1>2, FS_Difference
<1>7. Cardinality(gone) = Cardinality(o) - Cardinality(n \cap o)
    <2>1. o \cap n = n \cap o
        OBVIOUS
    <2>2. Cardinality(o \ n) = Cardinality(o) - Cardinality(o \cap n)
        BY <1>2, FS_Difference
    <2>3. QED
        BY <1>1, <2>1, <2>2
<1>8. Cardinality(n \ f) = Cardinality(n) - Cardinality(f)
    <2>1. n \cap f = f
        BY <1>1
    <2>2. QED
        BY <1>2, <2>1, FS_Difference
<1>9. Cardinality(n \ f) <= Cardinality(o)
    BY <1>3, <1>5, <1>6, <1>7, <1>8
<1>10. QED
    BY <1>9 DEF n, f, o

(* A review with the gate "new" that passes bounds the active errors of    *)
(* each fingerprint by the occurrences its baseline has of it.             *)
THEOREM NewGateIsBounded == Spec => []NewGateBounds
<1>1. ASSUME IInv, review.done, review.gate = "new", review.exit = 0,
             NEW print \in Prints(Report)
      PROVE  Cardinality(Group(ActiveErrors(Report), print))
                <= Cardinality(Group(baseline, print))
    <2>1. Judged /\ IsFiniteSet(baseline)
        BY <1>1 DEF IInv, Reviewed, Ratchet
    <2>2. PICK fresh \in NewOccurrences(baseline, Report) :
             \A o \in Gated(baseline, Report, fresh, "new") : ~IsActiveError(o)
        BY <1>1, <2>1 DEF Judged
    <2> DEFINE a == Group(ActiveErrors(Report), print)
               b == Group(Report, print) \ Group(fresh, print)
               c == Group(baseline, print)
    <2>3. a \in SUBSET b
        BY <2>2 DEF Gated, IsActiveError, ActiveErrors, Active, Group
    <2>4. IsFiniteSet(Report)
        BY <1>1, ReportFinite DEF IInv
    <2>5. IsFiniteSet(b) /\ IsFiniteSet(c)
        <3>1. b \in SUBSET Report /\ c \in SUBSET baseline
            BY DEF Group
        <3>2. QED
            BY <2>1, <2>4, <3>1, FS_Subset
    <2>6. Cardinality(b) <= Cardinality(c)
        BY <2>1, <2>4, NotNewIsBounded
    <2> HIDE DEF a, b, c
    <2>7. IsFiniteSet(a) /\ Cardinality(a) <= Cardinality(b)
        BY <2>3, <2>5, FS_Subset
    <2>8. Cardinality(a) \in Nat /\ Cardinality(b) \in Nat /\ Cardinality(c) \in Nat
        BY <2>5, <2>7, FS_CardinalityType
    <2>9. Cardinality(a) <= Cardinality(c)
        BY <2>6, <2>7, <2>8
    <2>10. QED
        BY <2>9 DEF a, c
<1>2. IInv => NewGateBounds
    BY <1>1 DEF NewGateBounds
<1>3. QED
    BY <1>2, InvInit, InvStep, PTL DEF Spec

-----------------------------------------------------------------------------
(* The calendar *)

(* A finding is waived exactly when a waiver would hide it. *)
LEMMA WaivedByWaiving ==
    ASSUME Ground, NEW f
    PROVE  WaivedBy(f) = 0 <=> Waiving(f) = {}
<1>1. Waiving(f) \subseteq Nat \ {0}
    BY ReviewAssumption DEF Ground, Waiving, Hiding, Waivers
<1>2. CASE Waiving(f) = {}
    BY <1>2 DEF WaivedBy
<1>3. CASE Waiving(f) # {}
    <2>1. \E i \in Waiving(f) : \A j \in Waiving(f) : i <= j
        <3>1. \E i \in Waiving(f) : \A j \in Waiving(f) :
                 ~ (<<j, i>> \in OpToRel(<, Nat))
            BY <1>1, <1>3, NatLessThanWellFounded, WFMin
        <3>2. \A i, j \in Nat : j < i => <<j, i>> \in OpToRel(<, Nat)
            BY DEF OpToRel
        <3>3. \A i, j \in Nat : ~(j < i) => i <= j
            OBVIOUS
        <3>4. QED
            BY <1>1, <3>1, <3>2, <3>3
    <2>2. WaivedBy(f) \in Waiving(f)
        BY <1>3, <2>1 DEF WaivedBy
    <2>3. QED
        BY <1>1, <1>3, <2>2
<1>4. QED
    BY <1>2, <1>3

(* What a day changes: waivers end, and none begins to hide. *)
LEMMA DayWaiving ==
    ASSUME Ground, NextDay, NEW f
    PROVE  Waiving(f)' \subseteq Waiving(f)
<1>1. ASSUME NEW i \in DOMAIN Waivers, Expired(Waivers[i])
      PROVE  Expired(Waivers[i])'
    BY <1>1, ReviewAssumption DEF Ground, NextDay, Expired, Waivers
<1>2. QED
    BY <1>1 DEF NextDay, Waiving, Hiding, Severity, Waivers, Matches, IsFatal

(* What stands in a report, today and tomorrow. *)
Stands(e) == \E r \in Report : What(r) = e

LEMMA StandsToday == Ground => \A e : e \in Entries <=> Stands(e)
<1> SUFFICES ASSUME Ground, NEW e PROVE e \in Entries <=> Stands(e)
    OBVIOUS
<1>1. What(<<e, 1>>) = e
    BY DEF What
<1>2. QED
    BY <1>1, ReportEntries DEF Stands

LEMMA StandsTomorrow == Ground' => (\A e : e \in Entries <=> Stands(e))'
BY StandsToday, PTL

(* An entry that is active stays in the report, and stays active. *)
LEMMA DayEntry ==
    ASSUME Ground, Ground', NextDay, NEW r \in Active(Report), What(r).severity # "info"
    PROVE  \E q \in Active(Report)' : What(q) = What(r)
<1> DEFINE e == What(r)
<1>1. e \in Entries /\ e.waiver = 0
    BY ReportEntries DEF Active, Suppressed
<1>2. e \in Entries'
    <2>1. CASE e \in {Entry(What(o)) : o \in findings}
        <3>1. PICK o \in findings : e = Entry(What(o))
            BY <2>1
        <3> DEFINE f == What(o)
        <3>2. Waiving(f) = {}
            BY <1>1, <3>1, WaivedByWaiving DEF Entry
        <3>3. WaivedBy(f)' = 0
            <4>1. Waiving(f)' = {}
                BY <3>2, DayWaiving
            <4>2. QED
                BY <4>1 DEF WaivedBy
        <3>4. WaivedBy(f) = 0
            BY <3>2 DEF WaivedBy
        <3>5. Severity(f)' = Severity(f)
            BY DEF Severity, IsFatal, NextDay, What
        <3>6. e = Entry(f)'
            BY <3>1, <3>3, <3>4, <3>5 DEF Entry, What
        <3>7. findings' = findings
            BY DEF NextDay
        <3>8. QED
            BY <3>6, <3>7 DEF Entries
    <2>2. CASE e \in WaiverEntries
        <3>1. PICK i \in DOMAIN Waivers :
                 Expired(Waivers[i]) /\ e = WaiverEntry("OC1004", "warning", i)
            BY <2>2 DEF WaiverEntries, WaiverEntry
        <3>2. Expired(Waivers[i])' /\ i \in DOMAIN Waivers'
            BY <3>1, ReviewAssumption DEF Ground, NextDay, Expired, Waivers
        <3>3. e \in WaiverEntries'
            BY <3>1, <3>2 DEF WaiverEntries, WaiverEntry
        <3>4. QED
            BY <3>3 DEF Entries
    <2>3. QED
        BY <1>1, <2>1, <2>2 DEF Entries
<1>3. PICK q \in Report' : What(q) = e
    BY <1>2, StandsTomorrow DEF Stands, What
<1>4. q \in Active(Report)'
    BY <1>1, <1>3 DEF Active, Suppressed, What
<1>5. QED
    BY <1>3, <1>4

(* Time alone never turns a failing project into a passing one. *)
THEOREM DaysNeverHelp == Spec => TimeNeverHelps
<1>1. ASSUME Ground, Ground', [Next]_vars, today' # today
      PROVE  CheckExit(Report, policy.denyWarnings)'
                >= CheckExit(Report, policy.denyWarnings)
    <2>1. NextDay
        BY <1>1 DEF Next, vars, Introduce, Fix, EditPolicy, SaveBaseline, RunReview
    <2>2. \A r \in Active(Report) :
             What(r).severity # "info" => \E q \in Active(Report)' : What(q) = What(r)
        BY <1>1, <2>1, DayEntry
    <2>3. policy' = policy
        BY <2>1 DEF NextDay
    <2>4. QED
        BY <2>2, <2>3 DEF CheckExit
<1>2. Ground /\ Ground' /\ [Next]_vars =>
        [today' # today => CheckExit(Report, policy.denyWarnings)'
                             >= CheckExit(Report, policy.denyWarnings)]_vars
    BY <1>1
<1>3. QED
    BY <1>2, GroundInit, GroundStep, PTL DEF Spec, TimeNeverHelps
=============================================================================
