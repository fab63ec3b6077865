--------------------------------- MODULE Guard ---------------------------------
(***************************************************************************)
(* The external watchdog: run_guarded of guard.py watches a worker process  *)
(* (guard_worker.py) and whatever the worker started, judges the result,    *)
(* and _command_guard of cli.py publishes a status file (guard_status.py,   *)
(* atomic_output.py) before it forwards the report.                         *)
(*                                                                         *)
(* The worker may stop for good between any two of its steps: only the      *)
(* supervisor, the clock and the operating system keep going.  Output is    *)
(* counted in chunks.                                                       *)
(***************************************************************************)
EXTENDS Integers

CONSTANTS
    Deadline,     \* GuardLimits.wall_seconds, in ticks
    OutputLimit,  \* GuardLimits.output_bytes, in chunks
    MaxReport,    \* bound: chunks of a complete report
    MaxNoise      \* bound: chunks a descendant writes to the same stream

ASSUME DeadlineAssumption == Deadline \in Nat \ {0}
ASSUME OutputAssumption ==
    OutputLimit \in Nat \ {0} /\ MaxReport \in Nat /\ MaxNoise \in Nat

CONSTANTS
    None,     \* nothing yet
    Killed,   \* the exit status of a process ended by a signal
    Absent,   \* no file
    Partial,  \* a file that is still being written
    Foreign   \* a file of somebody else

ExitCodes == {0, 1, 2, 130}

Statuses == {"completed", "timeout", "output-limit", "worker-failed",
             "invalid-output"}

Records == [exit : ExitCodes, normal : BOOLEAN]

Published == [status : Statuses, exit : ExitCodes]

\* What is complete is told from what is not.
ASSUME FilesAssumption ==
    /\ {Absent, Partial} \cap Records = {}
    /\ {Absent, Foreign} \cap Published = {}

VARIABLES
    posix,      \* the platform has process groups and file size limits
    requested,  \* --status-output was given
    report,     \* the chunks of the complete report of this analysis
    clock,      \* ticks since the start
    sup,        \* where run_guarded or _command_guard is
    status,     \* local of run_guarded
    judged,     \* elapsed, as read after the worker is gone
    worker,     \* where the worker process is
    code,       \* the exit code it is about to return or has returned
    normal,     \* local of the worker: cli_main returned a known code
    written,    \* the chunks of the report in the stdout file
    noise,      \* the chunks of descendants in the same file
    record,     \* completion.json
    child,      \* a descendant in the worker's process group
    target,     \* the file at the status path
    outcome     \* exit code and stdout of the guard command, once it ends

platform == <<posix, requested, report>>
workerVars == <<worker, code, normal, written, record>>
vars == <<platform, clock, sup, status, judged, workerVars, noise, child, target, outcome>>

Output == written + noise
Answered == {"ended", "interrupted", "raised"}

Init ==
    /\ posix \in BOOLEAN
    /\ requested \in BOOLEAN
    /\ report \in 0..MaxReport
    /\ clock = 0
    /\ sup = "prepare"
    /\ status = "completed"
    /\ judged = None
    /\ worker = "none"
    /\ code = None
    /\ normal = FALSE
    /\ written = 0
    /\ noise = 0
    /\ record = Absent
    /\ child = "none"
    /\ target \in {Absent, Foreign}
    /\ outcome = None

-----------------------------------------------------------------------------
(* The worker.                                                              *)

\* A request it cannot read or limits it cannot set: status 2 and no record.
WorkerRefuses ==
    /\ worker = "booting"
    /\ worker' = "exiting"
    /\ code' = 2
    /\ UNCHANGED <<platform, clock, sup, status, judged, normal, written, noise, record,
                   child, target, outcome>>

WorkerBoots ==
    /\ worker = "booting"
    /\ worker' = "analysing"
    /\ UNCHANGED <<platform, clock, sup, status, judged, code, normal, written, noise, record,
                   child, target, outcome>>

\* The analysis starts a subprocess of its own.
SpawnChild ==
    /\ worker = "analysing" /\ child = "none"
    /\ child' = "running"
    /\ UNCHANGED <<platform, clock, sup, status, judged, workerVars, noise, target, outcome>>

\* On POSIX no file grows beyond the limit: the write fails instead.
WriteReport ==
    /\ worker = "analysing"
    /\ written < report
    /\ posix => Output < OutputLimit
    /\ written' = written + 1
    /\ UNCHANGED <<platform, clock, sup, status, judged, worker, code, normal, noise, record,
                   child, target, outcome>>

\* cli_main returns a verdict after it wrote the whole report.  It also returns
\* normally, with 2 or 130, when it caught an error of its own or an interrupt,
\* however much it wrote by then.
AnalysisReturns ==
    /\ worker = "analysing"
    /\ code' \in IF written = report THEN ExitCodes ELSE {2, 130}
    /\ normal' = TRUE
    /\ worker' = "recording"
    /\ UNCHANGED <<platform, clock, sup, status, judged, written, noise, record, child, target,
                   outcome>>

\* An exception, a failed write or an interrupt, at any point of the report.
AnalysisRaises ==
    /\ worker = "analysing"
    /\ code' \in {2, 130}
    /\ worker' = "recording"
    /\ UNCHANGED <<platform, clock, sup, status, judged, normal, written, noise, record, child,
                   target, outcome>>

\* os._exit, a signal or a resource limit: no record is written.
WorkerVanishes ==
    /\ worker \in {"booting", "analysing", "recording", "half recorded", "exiting"}
    /\ worker' = "exited"
    /\ code' \in ExitCodes \cup {Killed}
    /\ UNCHANGED <<platform, clock, sup, status, judged, normal, written, noise, record, child,
                   target, outcome>>

\* write_text: the file exists before its contents are complete.
StartRecord ==
    /\ worker = "recording"
    /\ record' = Partial
    /\ worker' = "half recorded"
    /\ UNCHANGED <<platform, clock, sup, status, judged, code, normal, written, noise, child,
                   target, outcome>>

FinishRecord ==
    /\ worker = "half recorded"
    /\ record' = [exit |-> code, normal |-> normal]
    /\ worker' = "exiting"
    /\ UNCHANGED <<platform, clock, sup, status, judged, code, normal, written, noise, child,
                   target, outcome>>

RecordFails ==
    /\ worker \in {"recording", "half recorded"}
    /\ code' = 2
    /\ worker' = "exiting"
    /\ UNCHANGED <<platform, clock, sup, status, judged, normal, written, noise, record, child,
                   target, outcome>>

WorkerExits ==
    /\ worker = "exiting"
    /\ worker' = "exited"
    /\ UNCHANGED <<platform, clock, sup, status, judged, code, normal, written, noise, record,
                   child, target, outcome>>

Worker ==
    \/ WorkerRefuses \/ WorkerBoots \/ SpawnChild \/ WriteReport
    \/ AnalysisReturns \/ AnalysisRaises \/ WorkerVanishes
    \/ StartRecord \/ FinishRecord \/ RecordFails \/ WorkerExits

\* A descendant outlives its parent, and shares its standard output.
ChildWrites ==
    /\ child = "running"
    /\ noise < MaxNoise
    /\ posix => Output < OutputLimit
    /\ noise' = noise + 1
    /\ UNCHANGED <<platform, clock, sup, status, judged, workerVars, child, target, outcome>>

ChildExits ==
    /\ child = "running"
    /\ child' = "gone"
    /\ UNCHANGED <<platform, clock, sup, status, judged, workerVars, noise, target, outcome>>

-----------------------------------------------------------------------------
(* run_guarded.                                                             *)

End(exit, forwarded) ==
    /\ sup' = "ended"
    /\ outcome' = [exit |-> exit, stdout |-> forwarded]

\* prepare_status_output refuses a path where there is anything already.
Prepare ==
    /\ sup = "prepare"
    /\ IF requested /\ target # Absent
       THEN End(2, 0) /\ UNCHANGED worker
       ELSE sup' = "launched" /\ worker' = "booting" /\ UNCHANGED outcome
    /\ UNCHANGED <<platform, clock, status, judged, code, normal, written, noise, record, child,
                   target>>

\* Between Popen and the try there is nothing yet that stops the worker.
Watch ==
    /\ sup = "launched"
    /\ sup' = "poll"
    /\ UNCHANGED <<platform, clock, status, judged, workerVars, noise, child, target, outcome>>

\* Mutant: wait for the worker, without a look at the clock.
WaitForWorker ==
    /\ sup = "poll" /\ worker = "exited"
    /\ sup' = "reap"
    /\ UNCHANGED <<platform, clock, status, judged, workerVars, noise, child, target, outcome>>

Poll ==
    /\ sup = "poll"
    /\ sup' = IF worker = "exited" THEN "reap" ELSE "inspect"
    /\ UNCHANGED <<platform, clock, status, judged, workerVars, noise, child, target, outcome>>

Inspect ==
    /\ sup = "inspect"
    /\ \/ clock >= Deadline /\ status' = "timeout" /\ sup' = "stop"
       \/ clock < Deadline /\ Output > OutputLimit /\ status' = "output-limit" /\ sup' = "stop"
       \/ clock < Deadline /\ Output <= OutputLimit /\ sup' = "poll" /\ UNCHANGED status
    /\ UNCHANGED <<platform, clock, judged, workerVars, noise, child, target, outcome>>

\* Mutant: the process group is left alone.
KillWorker ==
    /\ worker' = "exited"
    /\ code' = IF worker = "exited" THEN code ELSE Killed
    /\ UNCHANGED child

\* _stop: SIGKILL to the group, or to the worker alone, and wait for the worker.
KillGroup ==
    /\ worker' = "exited"
    /\ code' = IF worker = "exited" THEN code ELSE Killed
    /\ child' = IF posix /\ child = "running" THEN "gone" ELSE child

Stop ==
    /\ sup = "stop"
    /\ KillGroup
    /\ sup' = "reap"
    /\ UNCHANGED <<platform, clock, status, judged, normal, written, noise, record, target,
                   outcome>>

\* The second _stop, for descendants of a worker that returned by itself.
Reap ==
    /\ sup = "reap"
    /\ KillGroup
    /\ sup' = "judge"
    /\ UNCHANGED <<platform, clock, status, judged, normal, written, noise, record, target,
                   outcome>>

\* The clock and the sizes are read again once nothing runs.
Judge ==
    /\ sup = "judge"
    /\ judged' = clock
    /\ status' = IF Output > OutputLimit THEN "output-limit"
                 ELSE IF status = "completed" /\ clock >= Deadline THEN "timeout" ELSE status
    /\ sup' = "accept"
    /\ UNCHANGED <<platform, clock, workerVars, noise, child, target, outcome>>

\* Mutant: the record of an exception will do.
AttestedExit ==
    /\ record \notin {Absent, Partial}
    /\ record.exit \in ExitCodes
    /\ record.exit = code

\* A record that says what the operating system says.
Attested ==
    /\ record \notin {Absent, Partial}
    /\ record.normal
    /\ record.exit \in ExitCodes
    /\ record.exit = code

\* What is attested is accepted if it is UTF-8.
Accept ==
    /\ sup = "accept"
    /\ status' \in IF status # "completed" THEN {status}
                  ELSE IF Attested THEN {status, "invalid-output"}
                  ELSE {"worker-failed"}
    /\ sup' = "publish"
    /\ UNCHANGED <<platform, clock, judged, workerVars, noise, child, target, outcome>>

-----------------------------------------------------------------------------
(* _command_guard.                                                          *)

Accepted == status = "completed"

GuardExit == IF Accepted THEN code ELSE 2

Forwarded == IF Accepted THEN IF Output < OutputLimit THEN Output ELSE OutputLimit ELSE 0

\* Mutant: os.replace.
Replaceable == TRUE

Linkable == target = Absent

\* os.link of a complete temporary file: it fails when the path is taken, and
\* then the result is not reported at all.
Publish ==
    /\ sup = "publish"
    /\ IF ~requested
       THEN End(GuardExit, Forwarded) /\ UNCHANGED target
       ELSE \/ /\ Linkable
               /\ target' = [status |-> status, exit |-> GuardExit]
               /\ End(GuardExit, Forwarded)
            \/ End(2, 0) /\ UNCHANGED target
    /\ UNCHANGED <<platform, clock, status, judged, workerVars, noise, child>>

\* Ctrl-C while the loop watches: except BaseException stops the worker first.
InterruptWatch ==
    /\ sup \in {"poll", "inspect", "stop"}
    /\ KillGroup
    /\ sup' = "interrupted"
    /\ UNCHANGED <<platform, clock, status, judged, normal, written, noise, record, target,
                   outcome>>

\* Ctrl-C outside the loop: the exception goes up as it is.
InterruptElsewhere ==
    /\ sup \in {"prepare", "launched", "reap", "judge", "accept", "publish"}
    /\ sup' = "raised"
    /\ UNCHANGED <<platform, clock, status, judged, workerVars, noise, child, target, outcome>>

Supervisor == Prepare \/ Watch \/ Poll \/ Inspect \/ Stop \/ Reap \/ Judge \/ Accept \/ Publish

Tick ==
    /\ clock < Deadline + 1
    /\ clock' = clock + 1
    /\ UNCHANGED <<platform, sup, status, judged, workerVars, noise, child, target, outcome>>

\* Somebody else creates the file while the worker runs.
PathTaken ==
    /\ target = Absent
    /\ target' = Foreign
    /\ UNCHANGED <<platform, clock, sup, status, judged, workerVars, noise, child, outcome>>

Done ==
    /\ sup \in Answered
    /\ UNCHANGED vars

\* Bound: once the guard has answered, what is still alive is not followed.
Next ==
    \/ /\ sup \notin Answered
       /\ \/ Supervisor \/ InterruptWatch \/ InterruptElsewhere
          \/ Worker \/ ChildWrites \/ ChildExits
          \/ Tick \/ PathTaken
    \/ Done

Spec == Init /\ [][Next]_vars /\ WF_vars(Supervisor) /\ WF_vars(Tick)

-----------------------------------------------------------------------------
(* Properties.                                                              *)

\* What is published is the result that is reported, and a requested status
\* that cannot be published is a failure of the command.
StatusMatches ==
    sup = "ended" /\ requested =>
        \/ outcome = [exit |-> 2, stdout |-> 0]
        \/ /\ target \notin {Absent, Foreign}
           /\ target.status = "completed" /\ target.exit = outcome.exit

\* A verdict, exit status 0 or 1, is given only for an analysis whose report is
\* complete, and anything at all is forwarded only for a worker that returned
\* normally and in time: "Never emit a half-written machine report as a result
\* of a killed worker".  The published status says the same.
OnlyCompleteResults ==
    /\ sup = "ended" /\ (outcome.exit # 2 \/ outcome.stdout > 0) =>
        /\ normal /\ code = outcome.exit
        /\ outcome.exit \in {0, 1} => written = report
        /\ judged < Deadline
    /\ StatusMatches

\* On POSIX nothing that the worker started is alive once its result is judged,
\* whatever the answer is, nor after an interrupt of the watch loop.
NothingSurvives ==
    posix /\ sup \in {"judge", "accept", "publish", "ended", "interrupted"} =>
        worker \in {"none", "exited"} /\ child # "running"

\* A file that is at the status path before the guard publishes stays there.
NeverClobbers == [][target # Absent => target' = target]_vars

\* The guard answers by itself even when the worker hangs for ever.
GuardEnds == <>(sup \in Answered)
=============================================================================
