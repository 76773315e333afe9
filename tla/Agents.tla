------------------------------- MODULE Agents -------------------------------
(***************************************************************************)
(* Sub-agents: a row of agents.db and a detached runner process each, and  *)
(* the one wake-up their parent session gets.                              *)
(*                                                                         *)
(*   src/src/agents/store.ts         the table                             *)
(*   src/src/agents/spawn.ts         spawnAgent, spawnTeam, notifyParent,  *)
(*                                   cancelAgent                           *)
(*   src/src/agents/reaper.ts        reapStuckAgents                       *)
(*   src/src/agents/follow-on.ts     the marker of a team's last stage     *)
(*   src/scripts/agent-runner.ts     the runner                            *)
(*                                                                         *)
(* Runner, daemon and parent (an MCP server) are processes of their own:   *)
(* a step is one statement or transaction on the table, and any process    *)
(* may be between two of its steps.  Every path that settles a row goes    *)
(* through finishIfActive; the process that wins reports the agent, and    *)
(* note says how far it has come.  The self-pokes that queueing a wake-up  *)
(* cancels, and builds of ideation pages, are left out.                    *)
(***************************************************************************)
EXTENDS Naturals, Sequences, FiniteSets

CONSTANTS
    Solo,         \* agents spawned alone
    Teams,
    Members,      \* of each team, in the order spawnTeam creates them
    FollowOn,     \* the agent a team's marker asks for, or None
    NoModel,      \* agents whose configured model the CLI may not have
    None,
    MaxWork,      \* bound: agents and teams the parent starts
    MaxCancels,   \* bound: agents the parent cancels
    MaxFaults     \* bound: processes that die or are shut down, reports that throw

Range(s) == {s[i] : i \in DOMAIN s}
Team(t)  == Range(Members[t]) \cup ({FollowOn[t]} \ {None})
Agent    == Solo \cup UNION {Team(t) : t \in Teams}
Work     == Solo \cup Teams                      \* what is reported once
WorkOf(a) == IF a \in Solo THEN a ELSE CHOOSE t \in Teams : a \in Team(t)

\* createAgent makes an id for every agent, and a follow-on is none of the
\* members before it.
ASSUME TeamAssumption ==
    /\ Solo \cap Teams = {} /\ None \notin Agent
    /\ \A t \in Teams : Members[t] \in Seq(Agent)
    /\ \A t \in Teams : \A i, j \in 1..Len(Members[t]) : Members[t][i] = Members[t][j] => i = j
    /\ \A t \in Teams : FollowOn[t] \notin Range(Members[t])
    /\ \A t \in Teams : Team(t) \cap Solo = {}
    /\ \A t, u \in Teams : Team(t) \cap Team(u) # {} => t = u
ASSUME BoundsAssumption == MaxCancels \in Nat /\ MaxFaults \in Nat

Active  == {"pending", "running"}
Settled == {"done", "failed", "canceled"}

VARIABLES
    row,      \* status in the table, "none" before create
    stopped,  \* stop_reason is set
    late,     \* an active row the reaper's next look finds past its limit
    proc,     \* runner: "none", "starting", "working", "exiting", "stopping", "gone", "dead"
    killed,   \* SIGTERM is on its way to the runner's group
    file,     \* result file: "none", the "full" text, "partial" (with the note why it
              \* stopped), or "unavailable" (saying that the CLI has no such model)
    note,     \* notifyParent: "none", "owed", "launch", "wake", "over", "lost"
    by,       \* who settled the row and reports it
    marker,   \* .follow-on.json is there
    done,     \* the rows of team_done
    loop,     \* members spawnTeam has created
    reap,     \* the reaper's list: agents with the status they were judged in
    told,     \* history: wake-ups queued for each piece of work
    cancels, faults

vars == <<row, stopped, late, proc, killed, file, note, by, marker, done, loop, reap, told,
          cancels, faults>>
table   == <<row, stopped, late>>
process == <<proc, killed, file>>
report  == <<note, by>>
team    == <<marker, done, loop>>
bounds  == <<cancels, faults>>

TypeOK ==
    /\ row \in [Agent -> {"none"} \cup Active \cup Settled]
    /\ stopped \in [Agent -> BOOLEAN]
    /\ late \in [Agent -> BOOLEAN]
    /\ proc \in [Agent -> {"none", "starting", "working", "exiting", "stopping", "gone", "dead"}]
    /\ killed \in [Agent -> BOOLEAN]
    /\ file \in [Agent -> {"none", "full", "partial", "unavailable"}]
    /\ note \in [Agent -> {"none", "owed", "launch", "wake", "over", "lost"}]
    /\ by \in [Agent -> {"none", "runner", "daemon", "parent"}]
    /\ marker \in [Teams -> BOOLEAN]
    /\ done \subseteq Teams
    /\ loop \in [Teams -> Nat]
    /\ reap \subseteq [agent : Agent, status : Active]
    /\ told \in [Work -> Nat]
    /\ cancels \in 0..MaxCancels
    /\ faults \in 0..MaxFaults

\* No agent yet; deep_research writes a team's marker before it spawns it.
Init ==
    /\ row     = [a \in Agent |-> "none"]
    /\ stopped = [a \in Agent |-> FALSE]
    /\ late    = [a \in Agent |-> FALSE]
    /\ proc    = [a \in Agent |-> "none"]
    /\ killed  = [a \in Agent |-> FALSE]
    /\ file    = [a \in Agent |-> "none"]
    /\ note    = [a \in Agent |-> "none"]
    /\ by      = [a \in Agent |-> "none"]
    /\ marker  = [t \in Teams |-> FollowOn[t] # None]
    /\ done    = {}
    /\ loop    = [t \in Teams |-> 0]
    /\ reap    = {}
    /\ told    = [w \in Work |-> 0]
    /\ cancels = 0
    /\ faults  = 0

-----------------------------------------------------------------------------
(* The table.                                                              *)

\* spawnTeam's loop has no await, so its process handles nothing in between,
\* and a runner takes longer to start than the loop to insert its rows.
SpawnedAll(a) == a \notin Solo => loop[WorkOf(a)] = Len(Members[WorkOf(a)])

Alive(a) == proc[a] \in {"working", "exiting", "stopping"}

\* finishIfActive wins: the row is settled, the pid found on it is signalled
\* if the caller wants the process stopped, and the winner owes the report.
Settle(a, status, why, signal, who) ==
    /\ row[a] \in Active
    /\ row'     = [row EXCEPT ![a] = status]
    /\ stopped' = [stopped EXCEPT ![a] = @ \/ why]
    /\ late'    = [late EXCEPT ![a] = FALSE]
    /\ killed'  = [killed EXCEPT ![a] = @ \/ (signal /\ row[a] = "running" /\ proc[a] = "working")]
    /\ note'    = [note EXCEPT ![a] = IF status = "canceled" THEN "over" ELSE "owed"]
    /\ by'      = [by EXCEPT ![a] = who]

\* Past its limit: 60 s pending, 15 minutes without output, or 90 minutes.  An
\* agent heard again before the reaper looks was never late.
Overdue(a) ==
    /\ row[a] \in Active /\ ~late[a] /\ SpawnedAll(a)
    /\ late' = [late EXCEPT ![a] = TRUE]
    /\ UNCHANGED <<row, stopped, process, report, team, reap, told, bounds>>

-----------------------------------------------------------------------------
(* The parent session, in its MCP server.                                  *)

Begun(w)  == IF w \in Solo THEN row[w] # "none" ELSE loop[w] > 0
MayBegin  == Cardinality({w \in Work : Begun(w)}) < MaxWork
Launch(a) == proc' = [proc EXCEPT ![a] = "starting"]

SpawnAgent(a) ==
    /\ a \in Solo /\ row[a] = "none" /\ MayBegin
    /\ row' = [row EXCEPT ![a] = "pending"]
    /\ Launch(a)
    /\ UNCHANGED <<stopped, late, killed, file, report, team, reap, told, bounds>>

\* The next turn of spawnTeam's loop.
SpawnMember(t) ==
    /\ loop[t] < Len(Members[t]) /\ (Begun(t) \/ MayBegin)
    /\ LET a == Members[t][loop[t] + 1]
       IN row' = [row EXCEPT ![a] = "pending"] /\ Launch(a)
    /\ loop' = [loop EXCEPT ![t] = @ + 1]
    /\ UNCHANGED <<stopped, late, killed, file, report, marker, done, reap, told, bounds>>

\* The child is gone before it claimed its row, and the parent still listens:
\* the "error" event, or "exit" by a signal.
ParentNotices(a) ==
    /\ proc[a] = "dead" /\ row[a] = "pending" /\ SpawnedAll(a)
    /\ Settle(a, "failed", TRUE, FALSE, "parent")
    /\ UNCHANGED <<proc, file, team, reap, told, bounds>>

CancelAgent(a) ==
    /\ cancels < MaxCancels /\ SpawnedAll(a)
    /\ Settle(a, "canceled", TRUE, TRUE, "parent")
    /\ cancels' = cancels + 1
    /\ UNCHANGED <<proc, file, team, reap, told, faults>>

-----------------------------------------------------------------------------
(* The runner.                                                             *)

\* Mutant of Claim: the runner works on a row it could not claim.
ClaimUnchecked(a) ==
    /\ proc[a] = "starting" /\ SpawnedAll(a)
    /\ row'  = [row EXCEPT ![a] = IF @ = "pending" THEN "running" ELSE @]
    /\ late' = [late EXCEPT ![a] = FALSE]
    /\ proc' = [proc EXCEPT ![a] = "working"]
    /\ UNCHANGED <<stopped, killed, file, report, team, reap, told, bounds>>

\* claimRunning; without a row to claim the runner exits.
Claim(a) ==
    /\ proc[a] = "starting" /\ SpawnedAll(a)
    /\ \/ /\ row[a] = "pending"
          /\ row'  = [row EXCEPT ![a] = "running"]
          /\ late' = [late EXCEPT ![a] = FALSE]
          /\ proc' = [proc EXCEPT ![a] = "working"]
       \/ /\ row[a] # "pending"
          /\ proc' = [proc EXCEPT ![a] = "gone"]
          /\ UNCHANGED <<row, late>>
    /\ UNCHANGED <<stopped, killed, file, report, team, reap, told, bounds>>

\* The CLI exits: its last text, or what it said in place of one when the model is
\* unavailable, is written out before the row is settled.
CliExit(a) ==
    /\ proc[a] = "working"
    /\ \/ file' = [file EXCEPT ![a] = "full"]
       \/ a \in NoModel /\ file' = [file EXCEPT ![a] = "unavailable"]
    /\ proc' = [proc EXCEPT ![a] = "exiting"]
    /\ killed' = [killed EXCEPT ![a] = FALSE]
    /\ UNCHANGED <<table, report, team, reap, told, bounds>>

\* The rest of the exit handler, which gives a stop_reason too when the model was
\* unavailable, whatever the exit code.  When another process settled the row the
\* result is rewritten to say so; else the runner reports, and exits after.
ExitSettle(a) ==
    /\ proc[a] = "exiting"
    /\ \E status \in {"done", "failed"} :
          Settle(a, status, file[a] = "unavailable", FALSE, "runner")
    /\ UNCHANGED <<proc, file, team, reap, told, bounds>>

\* Mutant of ExitSettled: the result is left as it was written.
ExitSettledAsIs(a) ==
    /\ proc[a] = "exiting" /\ row[a] \in Settled /\ by[a] # "runner"
    /\ proc' = [proc EXCEPT ![a] = "gone"]
    /\ UNCHANGED <<table, killed, file, report, team, reap, told, bounds>>

ExitSettled(a) ==
    /\ proc[a] = "exiting" /\ row[a] \in Settled /\ by[a] # "runner"
    /\ file' = [file EXCEPT ![a] = IF stopped[a] THEN "partial" ELSE @]
    /\ proc' = [proc EXCEPT ![a] = "gone"]
    /\ UNCHANGED <<table, killed, report, team, reap, told, bounds>>

\* SIGTERM: the partial result and why it stopped.
OnTerm(a) ==
    /\ proc[a] = "working" /\ killed[a]
    /\ file' = [file EXCEPT ![a] = "partial"]
    /\ proc' = [proc EXCEPT ![a] = "stopping"]
    /\ killed' = [killed EXCEPT ![a] = FALSE]
    /\ UNCHANGED <<table, report, team, reap, told, bounds>>

\* A signal from somewhere else than the reaper or a cancel settles here.
TermSettle(a) ==
    /\ proc[a] = "stopping"
    /\ Settle(a, "failed", TRUE, FALSE, "runner")
    /\ UNCHANGED <<proc, file, team, reap, told, bounds>>

\* The handler is through: lost the row, or reported it.
RunnerExit(a) ==
    /\ \/ proc[a] = "stopping" /\ row[a] \in Settled /\ by[a] # "runner"
       \/ Alive(a) /\ by[a] = "runner" /\ note[a] \in {"over", "lost"}
    /\ proc' = [proc EXCEPT ![a] = "gone"]
    /\ UNCHANGED <<table, killed, file, report, team, reap, told, bounds>>

Shutdown(a) ==
    /\ faults < MaxFaults
    /\ proc[a] = "working" /\ ~killed[a]
    /\ killed' = [killed EXCEPT ![a] = TRUE]
    /\ faults' = faults + 1
    /\ UNCHANGED <<table, proc, file, report, team, reap, told, cancels>>

-----------------------------------------------------------------------------
(* notifyParent, by whoever settled the row.                               *)

\* A solo agent: the wake-up is queued.
NotifySolo(a) ==
    /\ note[a] = "owed" /\ a \in Solo
    /\ told' = [told EXCEPT ![a] = @ + 1]
    /\ note' = [note EXCEPT ![a] = "over"]
    /\ UNCHANGED <<table, process, by, team, reap, bounds>>

\* failStalePending, as the rows it leaves.
AfterStale(t) ==
    [a \in Agent |-> IF a \in Team(t) /\ row[a] = "pending" /\ late[a]
                     THEN "failed" ELSE row[a]]

\* Mutant of FullySettled: members that have not started do not count.
FullySettledBarPending(t, r) ==
    LET counted == {a \in Team(t) : r[a] \notin {"none", "canceled", "pending"}}
    IN counted # {} /\ \A a \in counted : r[a] \in {"done", "failed"}

\* teamFullySettled: some member counts, and each that counts has ended.
FullySettled(t, r) ==
    LET counted == {a \in Team(t) : r[a] \notin {"none", "canceled"}}
    IN counted # {} /\ \A a \in counted : r[a] \in {"done", "failed"}

\* Mutant of ClaimTeamDone: whether the row was inserted is not looked at.
ClaimTeamDoneUnchecked(t) == TRUE

\* claimTeamDone: the first insert wins.
ClaimTeamDone(t) == t \notin done

\* The team's decision, in one IMMEDIATE transaction.
DecideTeam(a) ==
    LET t == WorkOf(a)
        r == AfterStale(t)
        Report == /\ row'  = r
                  /\ done' = done \cup {t}
                  /\ note' = [note EXCEPT ![a] = IF ClaimTeamDone(t) THEN "wake" ELSE "over"]
    IN /\ note[a] = "owed" /\ a \notin Solo
       /\ stopped' = [m \in Agent |-> stopped[m] \/ AfterStale(t)[m] # row[m]]
       /\ late'    = [m \in Agent |-> late[m] /\ AfterStale(t)[m] = row[m]]
       /\ \/ /\ ~FullySettled(t, r)
             /\ row'  = r
             /\ note' = [note EXCEPT ![a] = "over"]
             /\ UNCHANGED <<marker, done>>
          \/ /\ FullySettled(t, r) /\ marker[t]
             /\ marker' = [marker EXCEPT ![t] = FALSE]
             /\ \/ /\ row'  = [r EXCEPT ![FollowOn[t]] = "pending"]
                   /\ note' = [note EXCEPT ![a] = "launch"]
                   /\ UNCHANGED done
                \/ Report  \* the follow-on could not be reserved
          \/ /\ FullySettled(t, r) /\ ~marker[t]
             /\ Report
             /\ UNCHANGED marker
       /\ UNCHANGED <<process, by, loop, reap, told, bounds>>

LaunchFollowOn(a) ==
    /\ note[a] = "launch"
    /\ Launch(FollowOn[WorkOf(a)])
    /\ note' = [note EXCEPT ![a] = "over"]
    /\ UNCHANGED <<table, killed, file, by, team, reap, told, bounds>>

WakeTeam(a) ==
    /\ note[a] = "wake"
    /\ told' = [told EXCEPT ![WorkOf(a)] = @ + 1]
    /\ note' = [note EXCEPT ![a] = "over"]
    /\ UNCHANGED <<table, process, by, team, reap, bounds>>

-----------------------------------------------------------------------------
(* The daemon's reaper, every minute; it reports one agent before it looks *)
(* at the next.                                                            *)

ReaperFree == \A a \in Agent : by[a] = "daemon" => note[a] \in {"over", "lost"}

\* Mutant of ReapStart: only agents that never started are listed.
ReapStartPending ==
    /\ reap = {} /\ ReaperFree
    /\ \E a \in Agent : late[a] /\ row[a] = "pending"
    /\ reap' = {[agent |-> a, status |-> row[a]] : a \in {b \in Agent : late[b] /\ row[b] = "pending"}}
    /\ UNCHANGED <<table, process, report, team, told, bounds>>

ReapStart ==
    /\ reap = {} /\ ReaperFree
    /\ \E a \in Agent : late[a]
    /\ reap' = {[agent |-> a, status |-> row[a]] : a \in {b \in Agent : late[b]}}
    /\ UNCHANGED <<table, process, report, team, told, bounds>>

\* Settled only from the status it was judged in.
ReapNext ==
    /\ ReaperFree
    /\ \E s \in reap :
          /\ reap' = reap \ {s}
          /\ IF row[s.agent] = s.status
             THEN Settle(s.agent, "failed", TRUE, TRUE, "daemon")
             ELSE UNCHANGED <<table, killed, report>>
    /\ UNCHANGED <<proc, file, team, told, bounds>>

-----------------------------------------------------------------------------
(* Faults.                                                                 *)

Reporting(a) == note[a] \in {"owed", "launch", "wake"}

\* The process dies where it stands, and what it had still to report with it.
RunnerDies(a) ==
    /\ faults < MaxFaults
    /\ proc[a] = "starting" \/ Alive(a)
    /\ proc' = [proc EXCEPT ![a] = "dead"]
    /\ note' = [note EXCEPT ![a] = IF by[a] = "runner" /\ Reporting(a) THEN "lost" ELSE @]
    /\ faults' = faults + 1
    /\ UNCHANGED <<table, killed, file, by, team, reap, told, cancels>>

DaemonDies ==
    /\ faults < MaxFaults
    /\ reap # {} \/ ~ReaperFree
    /\ reap' = {}
    /\ note' = [a \in Agent |-> IF by[a] = "daemon" /\ Reporting(a) THEN "lost" ELSE note[a]]
    /\ faults' = faults + 1
    /\ UNCHANGED <<table, process, by, team, told, cancels>>

\* A busy database, or a spawn that throws: notifyParent logs it and is over.
NotifyThrows(a) ==
    /\ faults < MaxFaults
    /\ Reporting(a)
    /\ note' = [note EXCEPT ![a] = "lost"]
    /\ faults' = faults + 1
    /\ UNCHANGED <<table, process, by, team, reap, told, cancels>>

-----------------------------------------------------------------------------

Runner(a) == Claim(a) \/ CliExit(a) \/ ExitSettle(a) \/ ExitSettled(a) \/ OnTerm(a)
             \/ TermSettle(a) \/ RunnerExit(a)
Notify(a) == NotifySolo(a) \/ DecideTeam(a) \/ LaunchFollowOn(a) \/ WakeTeam(a)

Next ==
    \/ \E t \in Teams : SpawnMember(t)
    \/ ReapStart \/ ReapNext \/ DaemonDies
    \/ \E a \in Agent :
          \/ SpawnAgent(a) \/ ParentNotices(a) \/ CancelAgent(a)
          \/ Overdue(a) \/ Runner(a) \/ Notify(a)
          \/ Shutdown(a) \/ RunnerDies(a) \/ NotifyThrows(a)

Spec == Init /\ [][Next]_vars

\* Processes that run go on, the reaper's interval fires, and time passes for
\* an agent that does not end.  A CLI may hang for ever: CliExit is not fair.
Due ==
    \/ ReapStart \/ ReapNext
    \/ \E t \in Teams : SpawnMember(t)
    \/ \E a \in Agent : \/ Claim(a) \/ ExitSettle(a) \/ ExitSettled(a) \/ OnTerm(a)
                        \/ TermSettle(a) \/ RunnerExit(a) \/ Notify(a) \/ Overdue(a)

\* No step is ever undone, so a behaviour takes finitely many, and fairness of
\* the disjunction is fairness of each process.
Fairness == WF_vars(Due)

FairSpec == Spec /\ Fairness

-----------------------------------------------------------------------------
(* Properties.                                                             *)

\* Each solo agent and each team is reported once, though the runner's exit,
\* its SIGTERM handler, the reaper, a spawn failure and members that settle
\* together all get to the report (store.ts finishIfActive, claimTeamDone).
OneWakeUp == \A w \in Work : told[w] <= 1

\* The team-done event covers everything: once a team was claimed as done no
\* member is pending or running and the marker asks for no further stage
\* (spawn.ts, the decision in one transaction).
TeamReportIsFinal ==
    \A t \in Teams : t \in done => ~marker[t] /\ \A a \in Team(t) : row[a] \notin Active

\* No model keeps running for a settled row unless its process group was sent
\* SIGTERM (spawn.ts cancelAgent, reaper.ts; claimRunning in a late runner).
NoOrphan ==
    \A a \in Agent : proc[a] = "working" /\ row[a] \in Settled => killed[a]

\* The file the parent reads fits the row: it is the agent's full text exactly
\* when the row gives no stop_reason, and an agent that another process settled
\* left a file that says it was stopped, also when the CLI's exit came before the
\* runner's own SIGTERM (agent-runner.ts:283-337).
ResultFits ==
    \A a \in Agent : proc[a] = "gone" /\ file[a] # "none" =>
        /\ file[a] = "full" <=> ~stopped[a]
        /\ by[a] # "runner" => file[a] = "partial"

\* Every solo agent that was spawned is reported, and every team: a marker, a
\* follow-on that never starts and members that hang only delay it. Excused are
\* an agent that was cancelled and a report whose process died or threw.
EveryoneReported ==
    /\ \A a \in Solo : row[a] = "pending" ~> told[a] = 1 \/ row[a] = "canceled" \/ note[a] = "lost"
    /\ \A t \in Teams : loop[t] = Len(Members[t]) ~>
           told[t] = 1 \/ \E a \in Team(t) : row[a] = "canceled" \/ note[a] = "lost"
=============================================================================
