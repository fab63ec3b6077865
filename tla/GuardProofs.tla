----------------------------- MODULE GuardProofs -----------------------------
(***************************************************************************)
(* What the watchdog answers, what it leaves alive and what it overwrites, *)
(* for every deadline, every limit, every report and every number of       *)
(* chunks that descendants write.                                          *)
(***************************************************************************)
EXTENDS Guard, TLAPS

USE DeadlineAssumption, OutputAssumption, FilesAssumption

Typed ==
    /\ report \in Nat /\ written \in Nat /\ noise \in Nat /\ clock \in Nat
    /\ status \in Statuses
    /\ normal \in BOOLEAN
    /\ record \in {Absent, Partial} \cup Records

(* The record is written after the report, and says what was written.      *)
Recorded ==
    /\ record # Absent => worker \in {"half recorded", "exiting", "exited"}
    /\ record \in Records => worker \in {"exiting", "exited"}
    /\ worker \in {"recording", "half recorded"}
         => code \in ExitCodes /\ (normal /\ code \in {0, 1} => written = report)
    /\ record \in Records /\ record.normal
         => normal /\ (record.exit \in {0, 1} => written = report)

(* From its judgement on the worker is gone, and what is accepted was      *)
(* attested and in time.                                                   *)
Judged ==
    /\ sup \in {"judge", "accept", "publish"} => worker = "exited"
    /\ sup \in {"accept", "publish"} /\ status = "completed" => judged < Deadline
    /\ sup = "publish" /\ status = "completed" => Attested

Unstarted == sup = "prepare" => worker = "none" /\ child = "none"

IInv ==
    /\ Typed
    /\ Recorded
    /\ Judged
    /\ Unstarted
    /\ NothingSurvives
    /\ OnlyCompleteResults

LEMMA InitInv == Init => IInv
<1> SUFFICES ASSUME Init PROVE IInv
    OBVIOUS
<1>1. Typed
    <2>1. report \in Nat
        BY DEF Init
    <2>2. status \in Statuses /\ normal \in BOOLEAN
        BY DEF Init, Statuses
    <2>3. QED
        BY <2>1, <2>2 DEF Init, Typed
<1>2. Absent \notin Records
    OBVIOUS
<1>3. Recorded
    BY <1>2 DEF Init, Recorded
<1>4. Judged /\ Unstarted
    BY DEF Init, Judged, Unstarted
<1>5. NothingSurvives /\ OnlyCompleteResults
    BY DEF Init, NothingSurvives, OnlyCompleteResults, StatusMatches
<1>6. QED
    BY <1>1, <1>3, <1>4, <1>5 DEF IInv

(* A step of the worker keeps what its record says true of its report.     *)
LEMMA WorkerRecords ==
    ASSUME Typed, Recorded, Worker
    PROVE  Typed' /\ Recorded'
<1>0. Absent \notin Records /\ Partial \notin Records
    OBVIOUS
<1> USE <1>0 DEF Typed, Recorded, workerVars, platform
<1>1. CASE WorkerRefuses
    BY <1>1 DEF WorkerRefuses
<1>2. CASE WorkerBoots
    BY <1>2 DEF WorkerBoots
<1>3. CASE SpawnChild
    BY <1>3 DEF SpawnChild
<1>4. CASE WriteReport
    BY <1>4 DEF WriteReport
<1>5. CASE AnalysisReturns
    BY <1>5 DEF AnalysisReturns, ExitCodes
<1>6. CASE AnalysisRaises
    BY <1>6 DEF AnalysisRaises, ExitCodes
<1>7. CASE WorkerVanishes
    BY <1>7 DEF WorkerVanishes
<1>8. CASE StartRecord
    BY <1>8 DEF StartRecord
<1>9. CASE FinishRecord
    <2>1. record' \in Records
        BY <1>9 DEF FinishRecord, Records
    <2>2. record'.exit = code /\ record'.normal = normal
        BY <1>9 DEF FinishRecord
    <2>3. QED
        BY <1>9, <2>1, <2>2 DEF FinishRecord
<1>10. CASE RecordFails
    BY <1>10 DEF RecordFails
<1>11. CASE WorkerExits
    BY <1>11 DEF WorkerExits
<1>12. QED
    BY <1>1, <1>2, <1>3, <1>4, <1>5, <1>6, <1>7, <1>8, <1>9, <1>10, <1>11 DEF Worker

(* The worker leaves the answer alone, and what it changes is over before  *)
(* the result is judged.                                                   *)
LEMMA WorkerStep == IInv /\ sup \notin Answered /\ Worker => IInv'
<1> SUFFICES ASSUME IInv, sup \notin Answered, Worker PROVE IInv'
    OBVIOUS
<1>1. /\ UNCHANGED <<platform, clock, sup, status, judged, noise, target, outcome>>
      /\ worker \in {"booting", "analysing", "recording", "half recorded", "exiting"}
    BY DEF Worker, WorkerRefuses, WorkerBoots, SpawnChild, WriteReport,
           AnalysisReturns, AnalysisRaises, WorkerVanishes, StartRecord,
           FinishRecord, RecordFails, WorkerExits, workerVars
<1>2. sup \notin {"prepare", "judge", "accept", "publish"}
    BY <1>1 DEF IInv, Judged, Unstarted
<1>3. Judged' /\ Unstarted' /\ OnlyCompleteResults'
    BY <1>1, <1>2 DEF Judged, Unstarted, OnlyCompleteResults, StatusMatches, Answered
<1>4. NothingSurvives'
    BY <1>1, <1>2 DEF IInv, NothingSurvives, Answered, platform
<1>5. Typed' /\ Recorded'
    BY WorkerRecords DEF IInv
<1>6. QED
    BY <1>3, <1>4, <1>5 DEF IInv

(* Until the command ends there is no result to be wrong about.            *)
LEMMA NotEnded == sup # "ended" => OnlyCompleteResults
BY DEF OnlyCompleteResults, StatusMatches

(* Descendants, the clock and other programs.                              *)
LEMMA ElsewhereStep ==
    ASSUME IInv, sup \notin Answered, ChildWrites \/ ChildExits \/ Tick \/ PathTaken
    PROVE  IInv'
<1> USE DEF IInv, Answered, workerVars, platform
<1>1. UNCHANGED <<platform, sup, status, judged, workerVars, outcome>>
    BY DEF ChildWrites, ChildExits, Tick, PathTaken
<1>2. Typed'
    BY <1>1 DEF Typed, ChildWrites, ChildExits, Tick, PathTaken
<1>3. Recorded' /\ Judged'
    BY <1>1 DEF Recorded, Judged, Attested
<1>4. Unstarted' /\ NothingSurvives'
    BY <1>1 DEF Unstarted, NothingSurvives, ChildWrites, ChildExits, Tick, PathTaken
<1>5. OnlyCompleteResults'
    BY <1>1 DEF OnlyCompleteResults, StatusMatches
<1>6. QED
    BY <1>2, <1>3, <1>4, <1>5

(* Killing the group changes what runs, and no file.                       *)
LEMMA KillKeeps ==
    ASSUME Typed, Recorded, KillGroup, sup' # "publish",
           UNCHANGED <<platform, clock, status, normal, written, noise, record>>
    PROVE  Typed' /\ Recorded' /\ worker' = "exited" /\ (posix' => child' # "running")
BY DEF Typed, Recorded, KillGroup, platform

(* The steps of the supervisor that decide nothing yet.                    *)
LEMMA WatchStep ==
    ASSUME IInv, sup \notin Answered,
           Watch \/ Poll \/ Inspect \/ Stop \/ Reap \/ InterruptWatch \/ InterruptElsewhere
    PROVE  IInv'
<1> USE DEF IInv, Answered
<1>1. CASE Watch \/ Poll \/ Inspect
    <2>1. /\ UNCHANGED <<platform, clock, judged, workerVars, noise, child, target, outcome>>
          /\ sup' \in {"poll", "reap", "inspect", "stop"}
          /\ status' \in Statuses
        BY <1>1 DEF Watch, Poll, Inspect, Statuses, Typed
    <2>2. Typed' /\ Recorded'
        BY <2>1 DEF Typed, Recorded, workerVars, platform
    <2>3. Judged' /\ Unstarted' /\ NothingSurvives'
        BY <2>1 DEF Judged, Unstarted, NothingSurvives
    <2>4. QED
        BY <2>1, <2>2, <2>3 DEF OnlyCompleteResults, StatusMatches
<1>2. CASE Stop \/ Reap \/ InterruptWatch
    <2>1. /\ KillGroup
          /\ UNCHANGED <<platform, clock, status, judged, normal, written, noise, record, target,
                         outcome>>
          /\ sup' \in {"reap", "judge", "interrupted"}
        BY <1>2 DEF Stop, Reap, InterruptWatch
    <2>2. Typed' /\ Recorded' /\ worker' = "exited" /\ (posix' => child' # "running")
        BY <2>1, KillKeeps
    <2>3. Judged' /\ Unstarted' /\ NothingSurvives'
        BY <2>1, <2>2 DEF Judged, Unstarted, NothingSurvives
    <2>4. QED
        BY <2>1, <2>2, <2>3 DEF OnlyCompleteResults, StatusMatches
<1>3. CASE InterruptElsewhere
    <2>1. /\ UNCHANGED <<platform, clock, status, judged, workerVars, noise, child, target,
                         outcome>>
          /\ sup' = "raised"
        BY <1>3 DEF InterruptElsewhere
    <2>2. Typed' /\ Recorded'
        BY <2>1 DEF Typed, Recorded, workerVars, platform
    <2>3. QED
        BY <2>1, <2>2 DEF Judged, Unstarted, NothingSurvives, OnlyCompleteResults, StatusMatches
<1>4. QED
    BY <1>1, <1>2, <1>3

LEMMA PrepareStep ==
    ASSUME IInv, Prepare
    PROVE  IInv'
<1> USE DEF IInv, Prepare, platform
<1>1. Typed' /\ Judged' /\ Unstarted'
    BY DEF Typed, Judged, Unstarted, End
<1>2. Recorded'
    <2>1. record = Absent /\ record \notin Records
        BY DEF Unstarted, Recorded
    <2>2. worker' \in {worker, "booting"} /\ worker = "none"
        BY DEF Unstarted, End
    <2>3. QED
        BY <2>1, <2>2 DEF Recorded
<1>3. NothingSurvives'
    BY DEF Unstarted, NothingSurvives, End
<1>4. OnlyCompleteResults'
    BY DEF OnlyCompleteResults, StatusMatches, End
<1>5. QED
    BY <1>1, <1>2, <1>3, <1>4

(* The clock is read after the worker is gone, so an accepted analysis was *)
(* over in time.                                                           *)
LEMMA JudgeStep ==
    ASSUME IInv, Judge \/ Accept
    PROVE  IInv'
<1> USE DEF IInv
<1>1. /\ UNCHANGED <<platform, clock, workerVars, noise, child, target, outcome>>
      /\ status' \in Statuses
      /\ sup \in {"judge", "accept"} /\ sup' \in {"accept", "publish"}
    BY DEF Judge, Accept, Statuses, Typed
<1>2. Typed' /\ Recorded'
    BY <1>1 DEF Typed, Recorded, workerVars, platform
<1>3. Judged'
    <2>1. CASE Judge
        BY <1>1, <2>1 DEF Judge, Judged, Typed, workerVars
    <2>2. CASE Accept
        <3>1. worker' = "exited" /\ UNCHANGED <<record, code>>
            BY <1>1, <2>2 DEF Judged, Accept, workerVars
        <3>2. status' = "completed" => status = "completed" /\ Attested
            BY <2>2 DEF Accept
        <3>3. QED
            BY <2>2, <3>1, <3>2 DEF Judged, Accept, Attested
    <2>3. QED
        BY <2>1, <2>2
<1>4. Unstarted' /\ NothingSurvives' /\ OnlyCompleteResults'
    BY <1>1 DEF Unstarted, NothingSurvives, OnlyCompleteResults, StatusMatches,
                workerVars, platform
<1>5. QED
    BY <1>2, <1>3, <1>4

(* An accepted result is attested, so it is the exit code of a worker that *)
(* returned normally, and a verdict has its whole report.                  *)
LEMMA AcceptedComplete ==
    ASSUME IInv, sup = "publish", Accepted
    PROVE  /\ normal /\ code \in ExitCodes /\ judged < Deadline
           /\ code \in {0, 1} => written = report
<1>1. Attested /\ judged < Deadline
    BY DEF IInv, Judged, Accepted
<1>2. record \in Records
    BY <1>1 DEF IInv, Typed, Attested
<1>3. QED
    BY <1>1, <1>2 DEF IInv, Recorded, Attested

LEMMA PublishStep ==
    ASSUME IInv, Publish
    PROVE  IInv'
<1> USE DEF IInv
<1>1. /\ UNCHANGED <<platform, clock, status, judged, workerVars, noise, child>>
      /\ sup = "publish" /\ sup' = "ended"
    BY DEF Publish, End
<1>2. Typed' /\ Recorded'
    BY <1>1 DEF Typed, Recorded, workerVars, platform
<1>3. Judged' /\ Unstarted' /\ NothingSurvives'
    BY <1>1 DEF Judged, Unstarted, NothingSurvives, workerVars, platform
<1>4. OnlyCompleteResults'
    <2>1. CASE outcome' = [exit |-> 2, stdout |-> 0]
        BY <1>1, <2>1 DEF OnlyCompleteResults, StatusMatches
    <2>2. CASE outcome' = [exit |-> GuardExit, stdout |-> Forwarded] /\ Accepted
        <3>1. outcome'.exit = code
            BY <2>2 DEF GuardExit
        <3>2. /\ normal' /\ code' = outcome'.exit /\ judged' < Deadline
              /\ outcome'.exit \in {0, 1} => written' = report'
            BY <1>1, <2>2, <3>1, AcceptedComplete DEF workerVars, platform
        <3>3. CASE ~requested
            BY <1>1, <3>2, <3>3 DEF OnlyCompleteResults, StatusMatches, platform
        <3>4. CASE target' = [status |-> status, exit |-> GuardExit]
            <4>1. target' \in Published
                BY <2>2, <3>4, AcceptedComplete, <1>1
                DEF Published, Typed, GuardExit
            <4>2. target' \notin {Absent, Foreign}
                BY <4>1
            <4>3. target'.status = "completed" /\ target'.exit = outcome'.exit
                BY <2>2, <3>4 DEF Accepted
            <4>4. QED
                BY <3>2, <4>2, <4>3 DEF OnlyCompleteResults, StatusMatches
        <3>5. CASE requested /\ UNCHANGED target /\ outcome' = [exit |-> 2, stdout |-> 0]
            BY <2>1, <3>5
        <3>6. QED
            BY <2>1, <3>3, <3>4, <3>5 DEF Publish, End
    <2>3. CASE outcome' = [exit |-> GuardExit, stdout |-> Forwarded] /\ ~Accepted
        BY <2>1, <2>3 DEF GuardExit, Forwarded
    <2>4. QED
        BY <2>1, <2>2, <2>3 DEF Publish, End
<1>5. QED
    BY <1>2, <1>3, <1>4

LEMMA StepInv == IInv /\ [Next]_vars => IInv'
<1> SUFFICES ASSUME IInv, [Next]_vars PROVE IInv'
    OBVIOUS
<1>1. CASE UNCHANGED vars
    <2> USE <1>1 DEF vars, workerVars, platform, IInv
    <2>1. Typed' /\ Recorded'
        BY DEF Typed, Recorded
    <2>2. Judged' /\ Unstarted'
        BY DEF Judged, Attested, Unstarted
    <2>3. NothingSurvives' /\ OnlyCompleteResults'
        BY DEF NothingSurvives, OnlyCompleteResults, StatusMatches
    <2>4. QED
        BY <2>1, <2>2, <2>3
<1>2. CASE sup \notin Answered /\ Worker
    BY <1>2, WorkerStep
<1>3. CASE sup \notin Answered /\ (ChildWrites \/ ChildExits \/ Tick \/ PathTaken)
    BY <1>3, ElsewhereStep
<1>4. CASE sup \notin Answered /\ (Supervisor \/ InterruptWatch \/ InterruptElsewhere)
    BY <1>4, WatchStep, PrepareStep, JudgeStep, PublishStep DEF Supervisor
<1>5. QED
    BY <1>1, <1>2, <1>3, <1>4 DEF Next, Done

LEMMA Invariance == Spec => []IInv
BY InitInv, StepInv, PTL DEF Spec

(* A verdict is reported and published only for an analysis that wrote its *)
(* whole report, attested it, and was over before the deadline.            *)
THEOREM CompleteResults == Spec => []OnlyCompleteResults
<1>1. IInv => OnlyCompleteResults
    BY DEF IInv
<1>2. QED
    BY <1>1, Invariance, PTL

(* On POSIX no process of a judged or interrupted analysis is alive.       *)
THEOREM NoSurvivors == Spec => []NothingSurvives
<1>1. IInv => NothingSurvives
    BY DEF IInv
<1>2. QED
    BY <1>1, Invariance, PTL

(* The file at the status path, whoever wrote it, is never replaced.       *)
THEOREM StatusKept == Spec => NeverClobbers
<1>1. [Next]_vars => [target # Absent => target' = target]_vars
    BY DEF Next, Done, Supervisor, Worker, WorkerRefuses, WorkerBoots, SpawnChild, WriteReport,
           AnalysisReturns, AnalysisRaises, WorkerVanishes, StartRecord, FinishRecord,
           RecordFails, WorkerExits, ChildWrites, ChildExits, Prepare, Watch, Poll, Inspect,
           Stop, Reap, Judge, Accept, Publish, Linkable, InterruptWatch, InterruptElsewhere,
           Tick, PathTaken, vars
<1>2. QED
    BY <1>1, PTL DEF Spec, NeverClobbers
=============================================================================
