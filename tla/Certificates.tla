----------------------------- MODULE Certificates -----------------------------
(***************************************************************************)
(* sequential_certificate.py: certify loads the sources, refutes one base    *)
(* and one induction obligation per property and saves a certificate;         *)
(* verify_certificate makes the obligations again from the sources of that    *)
(* moment and accepts the certificate without a solver.  Between commands     *)
(* the sources, the request and the certificate itself may be edited.         *)
(*                                                                         *)
(* A digest stands for what it digests, and a refutation for the obligation   *)
(* it refutes: the proof kernel (RupKernel) accepts none unless the           *)
(* obligation has no model, and the producer may fail to find one.  Running   *)
(* out of any limit is Exhaust.                                               *)
(***************************************************************************)
EXTENDS BitBlast, SmtLowering, PropertyCone

CONSTANTS
    Projects,   \* designs with their requests: what the files may hold
    Edits,      \* the projects that an edit leads from and to
    MaxEdits,   \* bound: edits of the files and of the certificate
    Beyond,     \* bound: cycles that Sound looks beyond the depth
    None

ASSUME ProjectsAssumption ==
    /\ Edits \subseteq Projects
    /\ \A p \in Projects : p.request.properties # <<>> /\ p.request.depth \in Nat \ {0}
ASSUME BoundsAssumption == MaxEdits \in Nat /\ Beyond \in Nat

VARIABLES
    files,     \* the sources and the request on disk
    edits,     \* how often something was edited
    pc,        \* where the command is
    circuit,   \* what _load returned
    spec,
    claims,    \* the claims that are established
    k,         \* the induction depth under way
    work,      \* the obligation and the witness of the property under way
    document,  \* the certificate on disk
    outcome,   \* of the last command
    fresh      \* the certificate was issued for these files and nothing was edited

loaded == <<circuit, spec>>
proof == <<claims, k, work>>
vars == <<files, edits, pc, loaded, proof, document, outcome, fresh>>

NoWork == [u |-> None, base |-> None, cover |-> None, witness |-> <<>>]
Prop == spec.properties[Len(claims) + 1]
Binding(p, c) == [request |-> p.request, sources |-> p.design, ir |-> c]

-----------------------------------------------------------------------------
(* What both commands compute.                                              *)

ResetCycles(s) == s.reset.cycles

\* Mutant: the base case may end before the hypotheses.
DeclaredK(s, p) == s.induction

\* _max_k: the base case has to cover the reset and the hypotheses of a step.
MaxK(s, p) ==
    Min({s.induction, s.depth - Max({p.start, ResetCycles(s) + History(p)})})

\* _cover: the frames of a model up to the first cycle that meets the guard.
Witness(u, m, p) ==
    LET frames == [t \in DOMAIN u.frames |-> DecodedFrame(m, u.frames[t])]
        met == {t \in p.start..(Len(frames) - 1) : Enabled(p, frames, t)}
    IN  SubSeq(frames, 1, Min(met) + 1)

\* _check_cover: a run from the real reset that ends with the guard met.
CoverStands(c, s, p, trace) ==
    /\ Len(trace) \in 1..(s.depth + 1) /\ Len(trace) - 1 >= p.start
    /\ \A t \in DOMAIN trace : LET f == trace[t] IN
        /\ DOMAIN f = Driven(c)
        /\ \A n \in DOMAIN f : f[n] \in 0..(2^c.signals[n].width - 1)
        /\ \A n \in DOMAIN Fixed(s, t - 1, FALSE) : f[n] = Fixed(s, t - 1, FALSE)[n]
        /\ t > 1 => Restrict(f, DOMAIN c.next) = Updated(c, trace[t - 1])
        /\ Observed(c, Restrict(f, c.inputs \cup DOMAIN c.next)) = f
    /\ Enabled(p, trace, Len(trace) - 1)

\* verify_rup on an obligation and the refutation of another.
Refutes(evidence, problem) == evidence = problem /\ ModelsOf(problem) = {}

BaseOf(c, s, p) == BaseProblem(c, s, Unrolled(c, s, s.depth + 1, FALSE), p)

-----------------------------------------------------------------------------

Init ==
    /\ files \in Projects
    /\ edits = 0 /\ pc = "idle" /\ circuit = None /\ spec = None
    /\ claims = <<>> /\ k = 0 /\ work = NoWork
    /\ document = None /\ outcome = "none" /\ fresh = FALSE

End(result) ==
    /\ pc' = "idle" /\ outcome' = result /\ circuit' = None /\ spec' = None
    /\ claims' = <<>> /\ k' = 0 /\ work' = NoWork

\* Every failure is reported as not-certified; an earlier certificate stays.
Fail == End("not-certified") /\ UNCHANGED <<files, edits, document, fresh>>

Enter(c, next) ==
    \/ /\ c.ok /\ FitsCircuit(c, files.request)
       /\ circuit' = c /\ spec' = files.request /\ pc' = next /\ outcome' = "none"
       /\ UNCHANGED <<files, edits, proof, document, fresh>>
    \/ ~(c.ok /\ FitsCircuit(c, files.request)) /\ Fail

\* _load: the sources are read once, lowered and checked against the request.
Load(next) == Enter(LoadCircuit(files.design), next)

Certify == pc = "idle" /\ Load("property")

Pending == Len(claims) < Len(spec.properties)

\* Both base obligations, unless no induction depth is allowed.
Oblige ==
    /\ pc = "property" /\ Pending
    /\ \/ MaxK(spec, Prop) < 1 /\ Fail
       \/ /\ MaxK(spec, Prop) >= 1
          /\ work' = BaseOf(circuit, spec, Prop) @@ [witness |-> <<>>]
          /\ pc' = "cover"
          /\ UNCHANGED <<files, edits, loaded, claims, k, document, outcome, fresh>>

Keep(trace) ==
    IF CoverStands(circuit, spec, Prop, trace)
    THEN /\ work' = [work EXCEPT !.witness = trace] /\ pc' = "base"
         /\ UNCHANGED <<files, edits, loaded, claims, k, document, outcome, fresh>>
    ELSE Fail

\* The producer's model becomes a witness, which is then checked.
Cover ==
    /\ pc = "cover"
    /\ \/ ModelsOf(work.cover) = {} /\ Fail
       \/ \E m \in ModelsOf(work.cover) : Keep(Witness(work.u, m, Prop))

\* A base counterexample ends the command.
Base ==
    /\ pc = "base"
    /\ \/ ModelsOf(work.base) # {} /\ Fail
       \/ /\ ModelsOf(work.base) = {}
          /\ pc' = "step" /\ k' = 1
          /\ UNCHANGED <<files, edits, loaded, claims, work, document, outcome, fresh>>

\* Mutant: the other base obligation is recorded.
ClaimOfCover(step) ==
    [id |-> Prop.id, k |-> k, cover |-> work.witness, base |-> work.cover, step |-> step]

Claim(step) ==
    [id |-> Prop.id, k |-> k, cover |-> work.witness, base |-> work.base, step |-> step]

Try(step) ==
    \/ /\ ModelsOf(step) = {}
       /\ claims' = Append(claims, Claim(step)) /\ k' = 0 /\ work' = NoWork
       /\ pc' = "property"
       /\ UNCHANGED <<files, edits, loaded, document, outcome, fresh>>
    \/ /\ ModelsOf(step) # {} /\ k < MaxK(spec, Prop)
       /\ k' = k + 1
       /\ UNCHANGED <<files, edits, pc, loaded, claims, work, document, outcome, fresh>>
    \/ ModelsOf(step) # {} /\ k = MaxK(spec, Prop) /\ Fail

\* The induction depths are tried one after the other.
Step == pc = "step" /\ Try(StepProblem(circuit, spec, Prop, k).step)

Issue ==
    /\ pc = "property" /\ ~Pending
    /\ document' = [binding |-> Binding(files, circuit), claims |-> claims]
    /\ fresh' = TRUE
    /\ End("certified")
    /\ UNCHANGED <<files, edits>>

-----------------------------------------------------------------------------
(* verify_certificate                                                       *)

Verify == pc = "idle" /\ document # None /\ Load("binding")

Rejects(why) == End(why) /\ UNCHANGED <<files, edits, document, fresh>>

\* The certificate belongs to these sources, and to every property once.
CheckBinding ==
    /\ pc = "binding"
    /\ IF /\ document.binding = Binding(files, circuit)
          /\ Len(document.claims) = Len(spec.properties)
       THEN /\ pc' = "claim"
            /\ UNCHANGED <<files, edits, loaded, proof, document, outcome, fresh>>
       ELSE Rejects("rejected")

ClaimStands(c, s, p, row) ==
    /\ row.id = p.id
    /\ row.k \in 1..MaxK(s, p)
    /\ CoverStands(c, s, p, row.cover)
    /\ Refutes(row.base, BaseOf(c, s, p).base)
    /\ Refutes(row.step, StepProblem(c, s, p, row.k).step)

CheckClaim ==
    /\ pc = "claim" /\ Pending
    /\ LET row == document.claims[Len(claims) + 1] IN
       IF ClaimStands(circuit, spec, Prop, row)
       THEN /\ claims' = Append(claims, row)
            /\ UNCHANGED <<files, edits, pc, loaded, k, work, document, outcome, fresh>>
       ELSE Rejects("rejected")

Accept ==
    /\ pc = "claim" /\ ~Pending
    /\ End("verified")
    /\ UNCHANGED <<files, edits, document, fresh>>

\* A limit or the deadline runs out, or the producer gives up.
Exhaust == pc # "idle" /\ Fail

-----------------------------------------------------------------------------
(* Between commands.                                                        *)

Edited == pc = "idle" /\ edits < MaxEdits /\ edits' = edits + 1 /\ outcome' = "none"

EditFiles ==
    /\ Edited /\ files \in Edits
    /\ files' \in Edits \ {files}
    /\ fresh' = FALSE
    /\ UNCHANGED <<pc, loaded, proof, document>>

\* Certificates put together by hand, with the digests made again.
Altered(d, f) ==
    LET c == LoadCircuit(f.design)
        rows == d.claims
        first == rows[1]
        Row(r) == [d EXCEPT !.claims[1] = r]
    IN  {[d EXCEPT !.claims = Tail(rows)], [d EXCEPT !.claims = Reverse(rows)],
         [d EXCEPT !.claims = [i \in DOMAIN rows |-> first]],
         [d EXCEPT !.binding = Binding(f, c)],
         Row([first EXCEPT !.k = @ + 1]), Row([first EXCEPT !.step = first.base]),
         Row([first EXCEPT !.base = first.step]), Row([first EXCEPT !.cover = Tail(@)])}
        \ {d}

EditDocument ==
    /\ Edited /\ document # None /\ document.claims # <<>>
    /\ document' \in Altered(document, files)
    /\ fresh' = FALSE
    /\ UNCHANGED <<files, pc, loaded, proof>>

Next ==
    \/ Certify \/ Oblige \/ Cover \/ Base \/ Step \/ Issue
    \/ Verify \/ CheckBinding \/ CheckClaim \/ Accept
    \/ Exhaust \/ EditFiles \/ EditDocument

Spec == Init /\ [][Next]_vars
-----------------------------------------------------------------------------
(* What it is all for.                                                      *)

JustLoaded == pc = "property" /\ claims = <<>>

RunOf(u, m) == [t \in DOMAIN u.frames |-> DecodedFrame(m, u.frames[t])]

\* Bit blasting loses and adds nothing: the models of an unrolling, decoded, are
\* the runs that the integer interpreter allows, and no two are the same run.
\* Dropped gate clauses, a wrong carry, sign or shift stage, a stale gate or a
\* register taken from the wrong cycle would show (sequential_cnf.py).
Exact(u, models, runs) ==
    /\ {RunOf(u, m) : m \in models} = runs
    /\ Cardinality(models) = Cardinality(runs)

ExactUnrolling(u) ==
    Exact(u, ModelsOf(Problem(u.cnf, 1)), Runs(circuit, spec, Len(u.frames), FALSE))

LoweringExact == JustLoaded => ExactUnrolling(Unrolled(circuit, spec, spec.depth + 1, FALSE))

\* The obligations ask what the certificate claims: a base obligation is about the
\* runs from reset that fail, or meet the guard, in a checked cycle, and a step
\* obligation about the windows after reset where k cycles hold and the next fails.
Asserted(m, problem) == Satisfies(m, Last(problem.clauses))

BaseExact(p, b) ==
    \A m \in ModelsOf(Problem(b.u.cnf, 1)) :
        /\ Asserted(m, b.base) <=> \E t \in p.start..spec.depth : ~Holds(p, RunOf(b.u, m), t)
        /\ Asserted(m, b.cover) <=> \E t \in p.start..spec.depth : Enabled(p, RunOf(b.u, m), t)

FirstFails(p, r, n) ==
    /\ \A t \in History(p)..(History(p) + n - 1) : Holds(p, r, t)
    /\ ~Holds(p, r, History(p) + n)

StepExact(p, n, s) ==
    {RunOf(s.u, m) : m \in ModelsOf(s.step)} =
        {r \in Runs(circuit, spec, History(p) + n + 1, TRUE) : FirstFails(p, r, n)}

ObligationsExact ==
    JustLoaded => \A p \in ToSet(spec.properties) :
        /\ BaseExact(p, BaseOf(circuit, spec, p))
        /\ \A n \in 1..MaxK(spec, p) : StepExact(p, n, StepProblem(circuit, spec, p, n))

\* What the SAT solver is asked is the question of the certificate: the unrolling
\* has the runs of the design, and the obligations its failures.
EncodingExact == LoweringExact /\ ObligationsExact

\* The equations given to Z3 have in every cycle exactly the solutions that the
\* interpreter computes, and each term has the width of its node, so that the two
\* verifiers and the replay of counterexamples speak of the same design
\* (sequential_smt.py: lower, append).
SmtAgrees ==
    JustLoaded =>
        /\ {f \in Valuations(circuit.signals, Driven(circuit)) :
                SmtFrame(circuit, spec, f, 0, FALSE)} = {r[1] : r \in Runs(circuit, spec, 1, FALSE)}
        /\ \A r \in Runs(circuit, spec, 1, FALSE) :
                SmtTyped(circuit, r[1]) /\ SmtStep(circuit, r[1], Updated(circuit, r[1]))

\* Reducing a design to the cone of a property changes no verdict: the runs of the
\* cone are those of the design, seen through its signals, and each one expands to a
\* run of the whole design (sequential_cone.py).
Seen(run, cone) == [t \in DOMAIN run |-> Restrict(run[t], Driven(cone))]

SameRuns(cone, full, reduced) ==
    /\ reduced = {Seen(run, cone) : run \in full}
    /\ \A run \in reduced :
        ExpandTrace(circuit, run) \in full /\ Seen(ExpandTrace(circuit, run), cone) = run

ExactCone(p, cone) ==
    /\ cone.ok /\ Required(p) \subseteq Driven(cone)
    /\ SameRuns(cone, Runs(circuit, spec, spec.depth + 1, FALSE),
                Runs(cone, spec, spec.depth + 1, FALSE))

ConeExact ==
    JustLoaded => \A p \in ToSet(spec.properties) : ExactCone(p, ConeCircuit(circuit, p))

\* A certificate that was issued or accepted for the files as they are is true: each
\* property holds on every run, beyond the depth too, and its guard is met on some
\* run, whatever was edited before and whoever put the certificate together.
True(s, runs) ==
    \A p \in ToSet(s.properties) :
        /\ \A r \in runs : \A t \in p.start..(s.depth + Beyond) : Holds(p, r, t)
        /\ \E r \in runs : \E t \in p.start..s.depth : Enabled(p, r, t)

CertificateSound ==
    outcome \in {"certified", "verified"} =>
        True(files.request, Runs(LoadCircuit(files.design), files.request,
                                 files.request.depth + 1 + Beyond, FALSE))

\* A certificate that nobody touched is never refused while the files are those it was
\* issued for: what certify records is what verify_certificate computes again.
FreshVerifies == fresh => outcome # "rejected"
=============================================================================
