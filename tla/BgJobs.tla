------------------------------- MODULE BgJobs -------------------------------
(***************************************************************************)
(* Background tool jobs: a detached runner executes one tool call, leaves  *)
(* its end on the job's row of bg_jobs.db, and queues the event that wakes *)
(* the session.                                                            *)
(*                                                                         *)
(*   src/src/background/store.ts    the table                              *)
(*   src/src/background/spawn.ts    spawnBgJob, fireFailureWakeUp          *)
(*   src/src/background/reaper.ts   reapStuckBgJobs                        *)
(*   src/scripts/bg-runner.ts       the runner, fireWakeUp                 *)
(*                                                                         *)
(* Runner, parent (the MCP server that spawned it) and daemon each settle  *)
(* and tell in separate statements, and none of the statements asks what   *)
(* the row holds.  A teller is a process on its way through finish, create *)
(* and markWakeFired for a job.                                            *)
(***************************************************************************)
EXTENDS Naturals, Sequences

CONSTANTS
    Job,
    MaxFaults    \* bound: processes that die, statements that throw, outages

ASSUME FaultsAssumption == MaxFaults \in Nat

Ends    == {"done", "failed"}
Tellers == {"runner", "parent", "daemon"}

VARIABLES
    row,      \* status in the table, "none" before create
    stamped,  \* wake_fired_at is set
    age,      \* of a finished row: "new", "due" for recovery, "old" beyond it
    late,     \* an unfinished row is past its limit when the reaper looks
    runner,   \* "none", "starting", "executing", "telling", "gone", "dead"
    step,     \* of each teller of a job: "none", "finish", "create", "mark"
    says,     \* the status the teller reports
    reap,     \* jobs the reaper has listed: [job, why, status]
    told,     \* history: the statuses reported to the session, in order
    reaped,   \* history: how often the reaper settled the job
    cut,      \* history: tellers cut off between create and markWakeFired
    missed,   \* history: the hour passed before the session was told
    faults

vars == <<row, stamped, age, late, runner, step, says, reap, told, reaped, cut, missed, faults>>
table   == <<row, stamped, age, late>>
telling == <<step, says>>
history == <<told, reaped, cut, missed>>

TypeOK ==
    /\ row \in [Job -> {"none", "pending", "running"} \cup Ends]
    /\ stamped \in [Job -> BOOLEAN]
    /\ age \in [Job -> {"new", "due", "old"}]
    /\ late \in [Job -> BOOLEAN]
    /\ runner \in [Job -> {"none", "starting", "executing", "telling", "gone", "dead"}]
    /\ step \in [Job -> [Tellers -> {"none", "finish", "create", "mark"}]]
    /\ says \in [Job -> [Tellers -> Ends]]
    /\ reap \subseteq [job : Job, why : {"stuck", "missing"}, status : Ends]
    /\ told \in [Job -> Seq(Ends)]
    /\ reaped \in [Job -> Nat] /\ cut \in [Job -> Nat]
    /\ missed \in [Job -> BOOLEAN]
    /\ faults \in 0..MaxFaults

Init ==
    /\ row     = [j \in Job |-> "none"]
    /\ stamped = [j \in Job |-> FALSE]
    /\ age     = [j \in Job |-> "new"]
    /\ late    = [j \in Job |-> FALSE]
    /\ runner  = [j \in Job |-> "none"]
    /\ step    = [j \in Job |-> [p \in Tellers |-> "none"]]
    /\ says    = [j \in Job |-> [p \in Tellers |-> "failed"]]
    /\ reap    = {}
    /\ told    = [j \in Job |-> <<>>]
    /\ reaped  = [j \in Job |-> 0]
    /\ cut     = [j \in Job |-> 0]
    /\ missed  = [j \in Job |-> FALSE]
    /\ faults  = 0

-----------------------------------------------------------------------------
(* Settling a job and telling its session.                                 *)

Unfinished(j) == row[j] \in {"pending", "running"}

Tell(j, p, at, status) ==
    /\ step' = [step EXCEPT ![j][p] = at]
    /\ says' = [says EXCEPT ![j][p] = status]

\* Mutant of Finish: the stamp is written before the wake-up.
FinishStampsFirst(j, p) ==
    /\ step[j][p] = "finish"
    /\ row'  = [row EXCEPT ![j] = says[j][p]]
    /\ age'  = [age EXCEPT ![j] = "new"]
    /\ late' = [late EXCEPT ![j] = FALSE]
    /\ step' = [step EXCEPT ![j][p] = "mark"]
    /\ reaped' = [reaped EXCEPT ![j] = IF p = "daemon" THEN @ + 1 ELSE @]
    /\ UNCHANGED <<stamped, runner, says, reap, told, cut, missed, faults>>

\* finish: whatever the row holds.
Finish(j, p) ==
    /\ step[j][p] = "finish"
    /\ row'  = [row EXCEPT ![j] = says[j][p]]
    /\ age'  = [age EXCEPT ![j] = "new"]
    /\ late' = [late EXCEPT ![j] = FALSE]
    /\ step' = [step EXCEPT ![j][p] = "create"]
    /\ reaped' = [reaped EXCEPT ![j] = IF p = "daemon" THEN @ + 1 ELSE @]
    /\ UNCHANGED <<stamped, runner, says, reap, told, cut, missed, faults>>

\* crons.create
QueueWake(j, p) ==
    /\ step[j][p] = "create"
    /\ told' = [told EXCEPT ![j] = Append(@, says[j][p])]
    /\ step' = [step EXCEPT ![j][p] = "mark"]
    /\ UNCHANGED <<table, runner, says, reap, reaped, cut, missed, faults>>

\* markWakeFired, after the wake-up is durable; the runner then exits.
Mark(j, p) ==
    /\ step[j][p] = "mark"
    /\ stamped' = [stamped EXCEPT ![j] = TRUE]
    /\ Tell(j, p, "none", "failed")
    /\ runner'  = [runner EXCEPT ![j] = IF p = "runner" THEN "gone" ELSE @]
    /\ UNCHANGED <<row, age, late, reap, history, faults>>

-----------------------------------------------------------------------------
(* The parent and the runner.                                              *)

SpawnBgJob(j) ==
    /\ row[j] = "none"
    /\ row'    = [row EXCEPT ![j] = "pending"]
    /\ runner' = [runner EXCEPT ![j] = "starting"]
    /\ UNCHANGED <<stamped, age, late, telling, reap, history, faults>>

\* setRunning: whatever the row holds.
SetRunning(j) ==
    /\ runner[j] = "starting"
    /\ row'    = [row EXCEPT ![j] = "running"]
    /\ late'   = [late EXCEPT ![j] = FALSE]
    /\ runner' = [runner EXCEPT ![j] = "executing"]
    /\ UNCHANGED <<stamped, age, telling, reap, history, faults>>

\* The tool call returns or throws, and the runner finishes the row.
Executed(j) ==
    /\ runner[j] = "executing"
    /\ runner' = [runner EXCEPT ![j] = "telling"]
    /\ \E status \in Ends : Tell(j, "runner", "finish", status)
    /\ UNCHANGED <<table, reap, history, faults>>

\* Mutant of ParentSees: the row is not read again.
ParentSeesUnread(j) ==
    /\ runner[j] = "dead" /\ step[j]["parent"] = "none" /\ row[j] # "failed"
    /\ Tell(j, "parent", "finish", "failed")
    /\ UNCHANGED <<table, runner, reap, history, faults>>

\* The child is gone and the parent still listens: it reads the row, and a
\* row that is not finished it fails.
ParentSees(j) ==
    /\ runner[j] = "dead" /\ Unfinished(j) /\ step[j]["parent"] = "none"
    /\ Tell(j, "parent", "finish", "failed")
    /\ UNCHANGED <<table, runner, reap, history, faults>>

-----------------------------------------------------------------------------
(* The daemon's reaper: a list of stuck jobs, then one of finished jobs    *)
(* without a stamp, and one job at a time.                                 *)

DaemonFree == \A j \in Job : step[j]["daemon"] = "none"

\* Mutant of Waiting: rows finished a moment ago count.
WaitingAnyAge(j) == row[j] \in Ends /\ ~stamped[j] /\ age[j] \in {"new", "due"}

\* listFinishedMissingWake.
Waiting(j) == row[j] \in Ends /\ ~stamped[j] /\ age[j] = "due"

\* Mutant of ReapStart: wake-ups that were lost are not looked for.
ReapStartStuckOnly ==
    /\ reap = {} /\ DaemonFree
    /\ \E j \in Job : late[j]
    /\ reap' = {[job |-> j, why |-> "stuck", status |-> "failed"] : j \in {k \in Job : late[k]}}
    /\ UNCHANGED <<table, runner, telling, history, faults>>

ReapStart ==
    /\ reap = {} /\ DaemonFree
    /\ \/ /\ \E j \in Job : late[j]
          /\ reap' = {[job |-> j, why |-> "stuck", status |-> "failed"] : j \in {k \in Job : late[k]}}
       \/ /\ \E j \in Job : Waiting(j)
          /\ reap' = {[job |-> j, why |-> "missing", status |-> row[j]] : j \in {k \in Job : Waiting(k)}}
    /\ UNCHANGED <<table, runner, telling, history, faults>>

ReapNext ==
    /\ DaemonFree
    /\ \E l \in reap :
          /\ reap' = reap \ {l}
          /\ Tell(l.job, "daemon", IF l.why = "stuck" THEN "finish" ELSE "create", l.status)
    /\ UNCHANGED <<table, runner, history, faults>>

-----------------------------------------------------------------------------
(* Time.  From finish to the stamp a process that lives takes less than    *)
(* the minute that makes a row due.                                        *)

Overdue(j) ==
    /\ Unfinished(j) /\ ~late[j]
    /\ late' = [late EXCEPT ![j] = TRUE]
    /\ UNCHANGED <<row, stamped, age, runner, telling, reap, history, faults>>

Due(j) ==
    /\ row[j] \in Ends /\ age[j] = "new"
    /\ \A p \in Tellers : step[j][p] \in {"none", "finish"}
    /\ age' = [age EXCEPT ![j] = "due"]
    /\ UNCHANGED <<row, stamped, late, runner, telling, reap, history, faults>>

-----------------------------------------------------------------------------
(* Faults.                                                                 *)

\* The teller p of j stops where it is: its process died, or a statement threw.
Stops(j, p) ==
    /\ Tell(j, p, "none", "failed")
    /\ cut'  = [cut EXCEPT ![j] = IF step[j][p] = "mark" THEN @ + 1 ELSE @]

RunnerDies(j) ==
    /\ faults < MaxFaults /\ faults' = faults + 1
    /\ runner[j] \in {"starting", "executing", "telling"}
    /\ runner' = [runner EXCEPT ![j] = "dead"]
    /\ Stops(j, "runner")
    /\ UNCHANGED <<table, reap, told, reaped, missed>>

\* A statement of p throws: nobody goes on but a runner whose finish threw.
Throws(j, p) ==
    /\ faults < MaxFaults /\ faults' = faults + 1
    /\ step[j][p] # "none" /\ ~(p = "runner" /\ step[j][p] = "finish")
    /\ Stops(j, p)
    /\ runner' = [runner EXCEPT ![j] = IF p = "runner" THEN "gone" ELSE @]
    /\ UNCHANGED <<table, reap, told, reaped, missed>>

\* The runner's catch finishes the row as failed; when that throws too, the
\* handler of the uncaught exception tells the session whatever the row holds.
FinishThrows(j) ==
    /\ faults < MaxFaults /\ faults' = faults + 1
    /\ step[j]["runner"] = "finish"
    /\ Tell(j, "runner", IF says[j]["runner"] = "done" THEN "finish" ELSE "create", "failed")
    /\ UNCHANGED <<table, runner, reap, history>>

\* The machine sleeps, or the daemon is away, for more than the hour after
\* which a wake-up is noise.
LongGap ==
    /\ faults < MaxFaults /\ faults' = faults + 1
    /\ age'    = [j \in Job |-> IF row[j] \in Ends THEN "old" ELSE age[j]]
    /\ missed' = [j \in Job |-> missed[j] \/ (row[j] \in Ends /\ told[j] = <<>>)]
    /\ UNCHANGED <<row, stamped, late, runner, telling, reap, told, reaped, cut>>

\* The daemon starts again: suppressOldMissedWakes.
Restart ==
    /\ faults < MaxFaults /\ faults' = faults + 1
    /\ reap' = {}
    /\ step' = [j \in Job |-> [step[j] EXCEPT !["daemon"] = "none"]]
    /\ says' = [j \in Job |-> [says[j] EXCEPT !["daemon"] = "failed"]]
    /\ cut'  = [j \in Job |-> IF step[j]["daemon"] = "mark" THEN cut[j] + 1 ELSE cut[j]]
    /\ stamped' = [j \in Job |-> stamped[j] \/ (row[j] \in Ends /\ age[j] = "old")]
    /\ UNCHANGED <<row, age, late, runner, told, reaped, missed>>

-----------------------------------------------------------------------------

Next ==
    \/ ReapStart \/ ReapNext \/ LongGap \/ Restart
    \/ \E j \in Job :
          \/ SpawnBgJob(j) \/ SetRunning(j) \/ Executed(j) \/ ParentSees(j)
          \/ Overdue(j) \/ Due(j) \/ RunnerDies(j) \/ FinishThrows(j)
          \/ \E p \in Tellers : Finish(j, p) \/ QueueWake(j, p) \/ Mark(j, p) \/ Throws(j, p)

Spec == Init /\ [][Next]_vars

\* Processes that run go on, minutes pass, the reaper's interval fires.  A tool
\* call may hang and a runner never start: neither is fair.
Goes ==
    \/ ReapStart \/ ReapNext
    \/ \E j \in Job : \/ Overdue(j) \/ Due(j)
                      \/ \E p \in Tellers : Finish(j, p) \/ QueueWake(j, p) \/ Mark(j, p)

\* A behaviour takes finitely many steps, so fairness of the disjunction is
\* fairness of each process.
FairSpec == Spec /\ WF_vars(Goes)

-----------------------------------------------------------------------------
(* Properties.                                                             *)

\* A row is stamped only when its session was told, or when the hour for
\* telling it had passed: the stamp is what keeps the reaper from recovering a
\* wake-up that was lost (store.ts markWakeFired, suppressOldMissedWakes).
StampMeansTold == \A j \in Job : stamped[j] => told[j] # <<>> \/ missed[j]

\* A session hears of a job once, but for each time the reaper gave up on a
\* runner that went on, and each teller that queued the event and was cut off
\* before the stamp; the recovery of lost wake-ups adds none of its own.
ToldOnce == \A j \in Job : Len(told[j]) <= 1 + reaped[j] + cut[j]

\* What the session hears is what the row says once it is finished, as long as
\* the reaper has not overruled a runner.
ToldTheTruth ==
    \A j \in Job : reaped[j] = 0 /\ row[j] \in Ends =>
        \A i \in DOMAIN told[j] : told[j][i] = row[j]

\* The session of every job is told how it ended, whoever dies, unless the
\* hour in which that makes sense passed first.
EveryJobTold == \A j \in Job : row[j] = "pending" ~> told[j] # <<>> \/ missed[j]

=============================================================================
