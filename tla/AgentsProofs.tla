---------------------------- MODULE AgentsProofs ----------------------------
(***************************************************************************)
(* Safety of Agents for any agents, teams, cancels and faults.             *)
(*                                                                         *)
(* What is settled stays settled, and only what is settled is reported     *)
(* (Unsettled), so a solo agent is told by the one who settled it.  A team *)
(* is told by the one who claimed it (Reports), which happens when no      *)
(* member is active, no stage is to come (Stages) and every member was     *)
(* created (Created): nothing can become active again (Finals).            *)
(*                                                                         *)
(* The last part says where the report of a piece of work is until it is   *)
(* told (ReportInHand).                                                    *)
(***************************************************************************)
EXTENDS Agents, TLAPS

\* Nobody reports or has stopped what is not settled, and who stopped it says so.
Unsettled(a) ==
    /\ row[a] \notin Settled => note[a] = "none" /\ by[a] = "none" /\ ~stopped[a]
    /\ row[a] \in Settled /\ by[a] # "runner" => stopped[a]
    /\ late[a] => row[a] \in Active

\* Nobody acts on a member before its team is there.
Created(a) ==
    row[a] \in Settled \/ late[a] \/ proc[a] \in {"working", "exiting", "stopping", "gone"}
        => SpawnedAll(a)

\* What the runner has come to, by its row.
Runs(a) ==
    /\ row[a] = "none" => proc[a] = "none"
    /\ proc[a] = "none" => row[a] # "running"
    /\ proc[a] = "starting" => row[a] \notin {"none", "running"}
    /\ proc[a] \in {"working", "exiting", "stopping"} => row[a] \notin {"none", "pending"}
    /\ proc[a] = "gone" => row[a] \in Settled
    /\ proc[a] = "working" /\ row[a] \in Settled => killed[a]

\* What the result file says, by what the runner has come to.
Fits(a) ==
    /\ file[a] = "full" <=> ~stopped[a]
    /\ file[a] # "none"
    /\ by[a] # "runner" => file[a] = "partial"
Files(a) ==
    /\ proc[a] \in {"none", "starting", "working"} => file[a] = "none" /\ by[a] # "runner"
    /\ proc[a] = "exiting" => file[a] \in {"full", "unavailable"}
    /\ proc[a] = "stopping" => file[a] = "partial"
    /\ by[a] = "runner" => Fits(a)
    /\ proc[a] = "gone" /\ file[a] # "none" => Fits(a)

Local(a) == Unsettled(a) /\ Created(a) /\ Runs(a) /\ Files(a)

\* A piece of work is told once, by the one who has still to tell it.
Reports ==
    /\ \A a \in Solo : /\ told[a] <= 1
                       /\ note[a] \in {"none", "owed"} => told[a] = 0
                       /\ note[a] \notin {"launch", "wake"}
    /\ \A t \in Teams :
           /\ told[t] <= 1
           /\ told[t] # 0 => t \in done
           /\ \A a \in Team(t) : note[a] = "wake" => t \in done /\ told[t] = 0
           /\ \A a, b \in Team(t) : note[a] = "wake" /\ note[b] = "wake" => a = b

\* The last stage of a team starts once, and only while its marker is there.
Stages == \A t \in Teams :
    /\ marker[t] => /\ FollowOn[t] # None /\ row[FollowOn[t]] = "none"
                    /\ \A a \in Team(t) : note[a] # "launch"
    /\ \A a \in Team(t) : note[a] = "launch" =>
           /\ FollowOn[t] # None
           /\ row[FollowOn[t]] # "none" /\ proc[FollowOn[t]] = "none"
    /\ \A a, b \in Team(t) : note[a] = "launch" /\ note[b] = "launch" => a = b
    /\ \A i \in 1..Len(Members[t]) : loop[t] < i => row[Members[t][i]] = "none"
    /\ loop[t] <= Len(Members[t])

\* A team that was claimed is over.
Finals == \A t \in Teams : t \in done =>
    /\ ~marker[t]
    /\ loop[t] = Len(Members[t])
    /\ \A a \in Team(t) : row[a] \notin Active

\* What the reaper has listed was there.
ListedThere == \A s \in reap : SpawnedAll(s.agent)

IInv == /\ TypeOK
        /\ \A a \in Agent : Local(a)
        /\ Reports /\ Stages /\ Finals /\ ListedThere

-----------------------------------------------------------------------------

\* Whose work an agent is.
LEMMA WorkFacts ==
    /\ \A t \in Teams : \A a \in Team(t) : a \in Agent /\ a \notin Solo /\ WorkOf(a) = t
    /\ \A a \in Agent : a \notin Solo => WorkOf(a) \in Teams /\ a \in Team(WorkOf(a))
    /\ \A a \in Solo : a \in Agent /\ WorkOf(a) = a /\ a \notin Teams
    /\ \A t \in Teams : FollowOn[t] # None => FollowOn[t] \in Team(t)
    /\ \A t \in Teams : \A i \in 1..Len(Members[t]) :
           Members[t][i] \in Team(t) /\ Members[t][i] # FollowOn[t]
<1>1. ASSUME NEW t \in Teams, NEW a \in Team(t)
      PROVE  a \in Agent /\ a \notin Solo /\ WorkOf(a) = t
  <2>1. a \in Agent /\ a \notin Solo
    BY <1>1, TeamAssumption DEF Agent
  <2>2. \A u \in Teams : a \in Team(u) => u = t
    BY <1>1, TeamAssumption
  <2> QED BY <1>1, <2>1, <2>2 DEF WorkOf
<1>2. ASSUME NEW a \in Agent, a \notin Solo
      PROVE  WorkOf(a) \in Teams /\ a \in Team(WorkOf(a))
  <2>1. \E t \in Teams : a \in Team(t)
    BY <1>2 DEF Agent
  <2> QED BY <1>1, <2>1
<1>3. \A a \in Solo : a \in Agent /\ WorkOf(a) = a /\ a \notin Teams
  BY TeamAssumption DEF Agent, WorkOf
<1>4. \A t \in Teams : FollowOn[t] # None => FollowOn[t] \in Team(t)
  BY DEF Team
<1>5. ASSUME NEW t \in Teams, NEW i \in 1..Len(Members[t])
      PROVE  Members[t][i] \in Team(t) /\ Members[t][i] # FollowOn[t]
  <2>1. Members[t] \in Seq(Agent)
    BY TeamAssumption
  <2>2. Members[t][i] \in Range(Members[t])
    BY <2>1 DEF Range
  <2> QED BY <2>2, TeamAssumption DEF Team
<1> QED BY <1>1, <1>2, <1>3, <1>4, <1>5

\* Of the agents only x is touched, and no member is created.
Only(x) == \A b \in Agent : b # x =>
    /\ row'[b] = row[b] /\ stopped'[b] = stopped[b] /\ late'[b] = late[b]
    /\ proc'[b] = proc[b] /\ killed'[b] = killed[b] /\ file'[b] = file[b]
    /\ note'[b] = note[b] /\ by'[b] = by[b]

\* What most steps do to teams: settle, at the most, who was active, and report
\* what was settled.
Mild ==
    /\ UNCHANGED <<marker, done, loop, told>>
    /\ \A b \in Agent :
           /\ row'[b] = "none" <=> row[b] = "none"
           /\ row'[b] \in Active => row[b] \in Active
           /\ proc[b] = "none" => proc'[b] = "none"
           /\ note'[b] # note[b] => note'[b] \in {"owed", "over", "lost"}
           /\ note'[b] = "owed" => note[b] \in {"none", "owed"}

\* Who is not touched keeps what holds of it.
LEMMA Untouched ==
    ASSUME NEW b \in Agent, Local(b), SpawnedAll(b) => SpawnedAll(b)',
           row'[b] = row[b], stopped'[b] = stopped[b], late'[b] = late[b],
           proc'[b] = proc[b], killed'[b] = killed[b], file'[b] = file[b],
           note'[b] = note[b], by'[b] = by[b]
    PROVE  Local(b)'
<1>1. Unsettled(b)'
  BY DEF Local, Unsettled
<1>2. Created(b)'
  BY DEF Local, Created
<1>3. Runs(b)'
  BY DEF Local, Runs
<1>4. Files(b)'
  BY DEF Local, Files, Fits
<1> QED BY <1>1, <1>2, <1>3, <1>4 DEF Local

LEMMA OnlyLocal ==
    ASSUME \A a \in Agent : Local(a), NEW x \in Agent, Only(x), loop' = loop, Local(x)'
    PROVE  \A a \in Agent : Local(a)'
<1> SUFFICES ASSUME NEW b \in Agent, b # x PROVE Local(b)'
  OBVIOUS
<1>1. SpawnedAll(b) => SpawnedAll(b)'
  BY DEF SpawnedAll
<1> QED BY <1>1, Untouched DEF Only

LEMMA MildTeams ==
    ASSUME Reports, Stages, Finals, Mild
    PROVE  Reports' /\ Stages' /\ Finals'
<1>1. Reports'
  BY WorkFacts DEF Reports, Mild
<1>2. Stages'
  <2> SUFFICES ASSUME NEW t \in Teams
               PROVE  /\ marker[t]' => /\ FollowOn[t] # None /\ row'[FollowOn[t]] = "none"
                                       /\ \A a \in Team(t) : note'[a] # "launch"
                      /\ \A a \in Team(t) : note'[a] = "launch" =>
                             /\ FollowOn[t] # None
                             /\ row'[FollowOn[t]] # "none" /\ proc'[FollowOn[t]] = "none"
                      /\ \A a, b \in Team(t) : note'[a] = "launch" /\ note'[b] = "launch" => a = b
                      /\ \A i \in 1..Len(Members[t]) : loop'[t] < i => row'[Members[t][i]] = "none"
                      /\ loop'[t] <= Len(Members[t])
    BY DEF Stages
  <2>1. \A a \in Team(t) : a \in Agent
    BY WorkFacts
  <2>2. \A a \in Team(t) : note'[a] = "launch" => note[a] = "launch"
    BY <2>1 DEF Mild
  <2>3. FollowOn[t] # None => FollowOn[t] \in Agent
    BY WorkFacts
  <2>4. \A i \in 1..Len(Members[t]) : Members[t][i] \in Agent
    BY WorkFacts
  <2> QED BY <2>2, <2>3, <2>4 DEF Stages, Mild
<1>3. Finals'
  <2>1. \A t \in Teams : \A a \in Team(t) : a \in Agent
    BY WorkFacts
  <2> QED BY <2>1 DEF Finals, Mild
<1> QED BY <1>1, <1>2, <1>3

\* A settled row: finishIfActive, from the runner's exit or its handler, or from
\* elsewhere, with a reason and, if it may be working, with a signal.
LEMMA SettleStep ==
    ASSUME TypeOK, \A b \in Agent : Local(b),
           NEW a \in Agent, NEW status \in Settled, NEW why \in BOOLEAN, NEW signal \in BOOLEAN,
           NEW who \in {"runner", "daemon", "parent"},
           Settle(a, status, why, signal, who), SpawnedAll(a),
           UNCHANGED <<proc, file, team, told>>,
           who # "runner" => why,
           who = "runner" => \/ proc[a] = "exiting" /\ why = (file[a] = "unavailable")
                             \/ proc[a] = "stopping" /\ why,
           proc[a] = "working" => signal
    PROVE  /\ Mild /\ \A b \in Agent : Local(b)'
           /\ row' \in [Agent -> {"none"} \cup Active \cup Settled]
           /\ stopped' \in [Agent -> BOOLEAN] /\ late' \in [Agent -> BOOLEAN]
           /\ killed' \in [Agent -> BOOLEAN]
           /\ note' \in [Agent -> {"none", "owed", "launch", "wake", "over", "lost"}]
           /\ by' \in [Agent -> {"none", "runner", "daemon", "parent"}]
<1> USE DEF Active, Settled
<1>1. /\ row' \in [Agent -> {"none"} \cup Active \cup Settled]
      /\ stopped' \in [Agent -> BOOLEAN] /\ late' \in [Agent -> BOOLEAN]
      /\ killed' \in [Agent -> BOOLEAN]
      /\ note' \in [Agent -> {"none", "owed", "launch", "wake", "over", "lost"}]
      /\ by' \in [Agent -> {"none", "runner", "daemon", "parent"}]
  BY DEF TypeOK, Settle
<1>2. Only(a)
  BY DEF TypeOK, Settle, Only
<1>3. /\ row[a] \in Active /\ row'[a] = status /\ stopped'[a] = (stopped[a] \/ why)
      /\ late'[a] = FALSE /\ by'[a] = who /\ note'[a] \in {"over", "owed"}
      /\ killed'[a] = (killed[a] \/ (signal /\ row[a] = "running" /\ proc[a] = "working"))
      /\ proc'[a] = proc[a] /\ file'[a] = file[a]
  BY DEF TypeOK, Settle
<1>4. Local(a) /\ ~stopped[a] /\ note[a] = "none"
  BY <1>3 DEF Local, Unsettled
<1>5. Unsettled(a)'
  BY <1>3 DEF Unsettled
<1>6. Created(a)'
  BY DEF Created, SpawnedAll, team
<1>7. Runs(a)'
  BY <1>3, <1>4 DEF Local, Runs
<1>8. Files(a)'
  <2>1. proc[a] # "gone"
    BY <1>3, <1>4 DEF Local, Runs
  <2>2. stopped'[a] = why
    BY <1>3, <1>4
  <2> QED BY <1>3, <1>4, <2>1, <2>2 DEF Local, Files, Fits
<1>9. \A b \in Agent : Local(b)'
  BY <1>2, <1>5, <1>6, <1>7, <1>8, OnlyLocal DEF Local, team
<1>10. Mild
  BY <1>2, <1>3, <1>4 DEF Mild, Only, team
<1> QED BY <1>1, <1>9, <1>10

-----------------------------------------------------------------------------
(* The runner *)

\* What every step must give: the types, the agents, the teams.
Kept == /\ TypeOK' /\ \A b \in Agent : Local(b)'
        /\ Reports' /\ Stages' /\ Finals' /\ ListedThere'

\* Steps that are mild and list nothing new keep the invariant.
LEMMA MildKeeps ==
    ASSUME IInv, TypeOK', \A b \in Agent : Local(b)', Mild,
           reap' \subseteq reap \/ \A s \in reap' : SpawnedAll(s.agent)
    PROVE  Kept
<1>1. Reports' /\ Stages' /\ Finals'
  BY MildTeams DEF IInv
<1>2. ListedThere'
  BY DEF IInv, ListedThere, SpawnedAll, Mild
<1> QED BY <1>1, <1>2 DEF Kept

\* A step of one agent's process, its row and its file.
LEMMA OneKeeps ==
    ASSUME IInv, TypeOK', NEW a \in Agent, Only(a), Local(a)', UNCHANGED <<team, reap, told>>,
           row'[a] = "none" <=> row[a] = "none",
           row'[a] \in Active => row[a] \in Active,
           proc[a] = "none" => proc'[a] = "none",
           note'[a] # note[a] => note'[a] \in {"over", "lost"}
    PROVE  Kept
<1>1. \A b \in Agent : Local(b)'
  BY OnlyLocal DEF IInv, team
<1>2. Mild
  BY DEF Mild, Only, team
<1> QED BY <1>1, <1>2, MildKeeps

LEMMA ClaimKeeps ==
    ASSUME IInv, NEW a \in Agent, Claim(a)
    PROVE  Kept
<1> USE DEF Active, Settled
<1>1. TypeOK'
  BY DEF IInv, TypeOK, Claim, report, team, bounds
<1>2. Only(a)
  BY DEF IInv, TypeOK, Claim, Only, report
<1>3. Local(a)
  BY DEF IInv
<1>4. /\ proc[a] = "starting" /\ SpawnedAll(a) /\ loop' = loop
      /\ \/ row[a] = "pending" /\ row'[a] = "running" /\ ~late'[a] /\ proc'[a] = "working"
         \/ /\ row[a] # "pending" /\ proc'[a] = "gone"
            /\ row'[a] = row[a] /\ late'[a] = late[a]
      /\ stopped'[a] = stopped[a] /\ killed'[a] = killed[a] /\ file'[a] = file[a]
      /\ note'[a] = note[a] /\ by'[a] = by[a]
  BY DEF IInv, TypeOK, Claim, report, team
<1>5. row[a] \in {"none"} \cup Active \cup Settled
  BY DEF IInv, TypeOK
<1>6. Unsettled(a)'
  BY <1>3, <1>4, <1>5 DEF Local, Unsettled
<1>7. Created(a)'
  BY <1>4 DEF Created, SpawnedAll
<1>8. Runs(a)'
  BY <1>3, <1>4, <1>5 DEF Local, Runs
<1>9. Files(a)'
  BY <1>3, <1>4 DEF Local, Files
<1>10. Local(a)'
  BY <1>6, <1>7, <1>8, <1>9 DEF Local
<1>11. /\ row'[a] = "none" <=> row[a] = "none"
       /\ row'[a] \in Active => row[a] \in Active
       /\ proc[a] = "none" => proc'[a] = "none"
  BY <1>4
<1>12. UNCHANGED <<team, reap, told>>
  BY DEF Claim
<1> QED BY <1>1, <1>2, <1>4, <1>10, <1>11, <1>12, OneKeeps

\* The CLI ends, the handler of SIGTERM runs, either is through, a signal comes:
\* the row stays.
LEMMA ProcessKeeps ==
    ASSUME IInv, NEW a \in Agent,
           CliExit(a) \/ ExitSettled(a) \/ OnTerm(a) \/ RunnerExit(a) \/ Shutdown(a)
    PROVE  Kept
<1> USE DEF Active, Settled
<1>1. TypeOK'
  <2> USE DEF IInv, TypeOK, table, report, team, bounds
  <2>1. CASE CliExit(a)
    BY <2>1 DEF CliExit
  <2>2. CASE ExitSettled(a)
    BY <2>2 DEF ExitSettled
  <2>3. CASE OnTerm(a)
    BY <2>3 DEF OnTerm
  <2>4. CASE RunnerExit(a)
    BY <2>4 DEF RunnerExit
  <2>5. CASE Shutdown(a)
    BY <2>5, BoundsAssumption DEF Shutdown
  <2> QED BY <2>1, <2>2, <2>3, <2>4, <2>5
<1>2. Only(a) /\ UNCHANGED <<table, report, team, reap, told>>
  BY DEF IInv, TypeOK, Only, table, report, CliExit, ExitSettled, OnTerm, RunnerExit, Shutdown
<1>3. Local(a) /\ row[a] \in {"none"} \cup Active \cup Settled
      /\ file[a] \in {"none", "full", "partial", "unavailable"}
  BY DEF IInv, TypeOK
<1>4. /\ row'[a] = row[a] /\ stopped'[a] = stopped[a] /\ late'[a] = late[a] /\ loop' = loop
      /\ note'[a] = note[a] /\ by'[a] = by[a]
  BY <1>2 DEF table, report, team
<1>5. \/ proc[a] = "working" /\ proc'[a] = "exiting" /\ file'[a] \in {"full", "unavailable"}
      \/ /\ proc[a] = "exiting" /\ row[a] \in Settled /\ by[a] # "runner" /\ proc'[a] = "gone"
         /\ file'[a] = IF stopped[a] THEN "partial" ELSE file[a]
      \/ proc[a] = "working" /\ proc'[a] = "stopping" /\ file'[a] = "partial"
      \/ /\ proc[a] = "stopping" /\ row[a] \in Settled /\ by[a] # "runner" /\ proc'[a] = "gone"
         /\ file'[a] = file[a]
      \/ /\ proc[a] \in {"working", "exiting", "stopping"} /\ by[a] = "runner"
         /\ note[a] \in {"over", "lost"} /\ proc'[a] = "gone" /\ file'[a] = file[a]
      \/ proc[a] = "working" /\ proc'[a] = "working" /\ killed'[a] = TRUE /\ file'[a] = file[a]
  BY DEF IInv, TypeOK, CliExit, ExitSettled, OnTerm, RunnerExit, Shutdown, Alive
<1>6. Unsettled(a)'
  BY <1>3, <1>4 DEF Local, Unsettled
<1>7. Created(a)'
  BY <1>3, <1>4, <1>5 DEF Local, Created, SpawnedAll
<1>8. Runs(a)'
  BY <1>3, <1>4, <1>5 DEF Local, Runs, Unsettled
<1>9. Files(a)'
  BY <1>3, <1>4, <1>5 DEF Local, Files, Fits, Unsettled
<1>10. Local(a)'
  BY <1>6, <1>7, <1>8, <1>9 DEF Local
<1> QED BY <1>1, <1>2, <1>4, <1>5, <1>10, OneKeeps

\* Whoever settles the row: the spawn that failed, a cancel, the CLI's exit, the
\* handler of SIGTERM.
LEMMA SettleKeeps ==
    ASSUME IInv, NEW a \in Agent,
           ParentNotices(a) \/ CancelAgent(a) \/ ExitSettle(a) \/ TermSettle(a)
    PROVE  Kept
<1>1. TypeOK /\ (\A b \in Agent : Local(b)) /\ Local(a)
  BY DEF IInv
<1>2. UNCHANGED <<proc, file, team, told>> /\ reap' = reap
  BY DEF ParentNotices, CancelAgent, ExitSettle, TermSettle
<1>3. SpawnedAll(a)
  BY <1>1 DEF ParentNotices, CancelAgent, ExitSettle, TermSettle, Local, Created
<1>4. /\ Mild /\ \A b \in Agent : Local(b)'
      /\ row' \in [Agent -> {"none"} \cup Active \cup Settled]
      /\ stopped' \in [Agent -> BOOLEAN] /\ late' \in [Agent -> BOOLEAN]
      /\ killed' \in [Agent -> BOOLEAN]
      /\ note' \in [Agent -> {"none", "owed", "launch", "wake", "over", "lost"}]
      /\ by' \in [Agent -> {"none", "runner", "daemon", "parent"}]
  <2>1. CASE ParentNotices(a)
    <3>1. Settle(a, "failed", TRUE, FALSE, "parent") /\ proc[a] = "dead"
      BY <2>1 DEF ParentNotices
    <3> QED BY <1>1, <1>2, <1>3, <3>1, SettleStep DEF Settled
  <2>2. CASE CancelAgent(a)
    <3>1. Settle(a, "canceled", TRUE, TRUE, "parent")
      BY <2>2 DEF CancelAgent
    <3> QED BY <1>1, <1>2, <1>3, <3>1, SettleStep DEF Settled
  <2>3. CASE ExitSettle(a)
    <3>1. PICK status \in {"done", "failed"} :
              Settle(a, status, file[a] = "unavailable", FALSE, "runner")
      BY <2>3 DEF ExitSettle
    <3>2. proc[a] = "exiting"
      BY <2>3 DEF ExitSettle
    <3> QED BY <1>1, <1>2, <1>3, <3>1, <3>2, SettleStep DEF Settled
  <2>4. CASE TermSettle(a)
    <3>1. Settle(a, "failed", TRUE, FALSE, "runner") /\ proc[a] = "stopping"
      BY <2>4 DEF TermSettle
    <3> QED BY <1>1, <1>2, <1>3, <3>1, SettleStep DEF Settled
  <2> QED BY <2>1, <2>2, <2>3, <2>4
<1>5. cancels' \in 0..MaxCancels /\ faults' = faults
  <2>1. (cancels' = cancels /\ faults' = faults) \/ CancelAgent(a)
    BY DEF ParentNotices, ExitSettle, TermSettle, bounds
  <2>2. CancelAgent(a) => cancels' = cancels + 1 /\ cancels < MaxCancels /\ faults' = faults
    BY DEF CancelAgent
  <2> QED BY <1>1, <2>1, <2>2, BoundsAssumption DEF TypeOK
<1>6. TypeOK'
  BY <1>1, <1>2, <1>4, <1>5 DEF TypeOK, team
<1> QED BY <1>2, <1>4, <1>6, MildKeeps

-----------------------------------------------------------------------------
(* The reaper, time and faults *)

LEMMA OverdueKeeps ==
    ASSUME IInv, NEW a \in Agent, Overdue(a)
    PROVE  Kept
<1> USE DEF Active, Settled
<1>1. TypeOK'
  BY DEF IInv, TypeOK, Overdue, process, report, team, bounds
<1>2. Only(a)
  BY DEF IInv, TypeOK, Overdue, Only, process, report
<1>3. /\ row'[a] = row[a] /\ stopped'[a] = stopped[a] /\ late'[a] = TRUE /\ loop' = loop
      /\ proc'[a] = proc[a] /\ killed'[a] = killed[a] /\ file'[a] = file[a]
      /\ note'[a] = note[a] /\ by'[a] = by[a]
      /\ row[a] \in Active /\ SpawnedAll(a) /\ Local(a)
  BY DEF IInv, TypeOK, Overdue, process, report, team
<1>4. Local(a)'
  <2>1. Unsettled(a)'
    BY <1>3 DEF Local, Unsettled
  <2>2. Created(a)'
    BY <1>3 DEF Created, SpawnedAll
  <2>3. Runs(a)'
    BY <1>3 DEF Local, Runs
  <2>4. Files(a)'
    BY <1>3 DEF Local, Files, Fits
  <2> QED BY <2>1, <2>2, <2>3, <2>4 DEF Local
<1>5. UNCHANGED <<team, reap, told>>
  BY DEF Overdue
<1> QED BY <1>1, <1>2, <1>3, <1>4, <1>5, OneKeeps

LEMMA ReapStartKeeps ==
    ASSUME IInv, ReapStart
    PROVE  Kept
<1>1. UNCHANGED <<table, process, report, team, told, bounds>>
      /\ reap' = {[agent |-> a, status |-> row[a]] : a \in {b \in Agent : late[b]}}
  BY DEF ReapStart
<1>2. \A a \in Agent : late[a] => row[a] \in Active /\ SpawnedAll(a)
  BY DEF IInv, Local, Unsettled, Created
<1>3. TypeOK'
  BY <1>1, <1>2 DEF IInv, TypeOK, table, process, report, team, bounds
<1>4. \A b \in Agent : Local(b)'
  <2> SUFFICES ASSUME NEW b \in Agent PROVE Local(b)'
    OBVIOUS
  <2>1. SpawnedAll(b) => SpawnedAll(b)'
    BY <1>1 DEF SpawnedAll, team
  <2> QED BY <1>1, <2>1, Untouched DEF IInv, table, process, report
<1>5. Mild
  BY <1>1 DEF Mild, table, process, report, team
<1>6. \A s \in reap' : SpawnedAll(s.agent)
  BY <1>1, <1>2
<1> QED BY <1>3, <1>4, <1>5, <1>6, MildKeeps

LEMMA ReapNextKeeps ==
    ASSUME IInv, ReapNext
    PROVE  Kept
<1>1. PICK s \in reap :
          /\ reap' = reap \ {s}
          /\ IF row[s.agent] = s.status
             THEN Settle(s.agent, "failed", TRUE, TRUE, "daemon")
             ELSE UNCHANGED <<table, killed, report>>
  BY DEF ReapNext
<1>2. UNCHANGED <<proc, file, team, told, bounds>>
  BY DEF ReapNext
<1>3. s.agent \in Agent /\ SpawnedAll(s.agent)
  BY DEF IInv, TypeOK, ListedThere
<1>4. TypeOK /\ \A b \in Agent : Local(b)
  BY DEF IInv
<1>5. CASE row[s.agent] = s.status
  <2>1. Settle(s.agent, "failed", TRUE, TRUE, "daemon")
    BY <1>1, <1>5
  <2>2. /\ Mild /\ \A b \in Agent : Local(b)'
        /\ row' \in [Agent -> {"none"} \cup Active \cup Settled]
        /\ stopped' \in [Agent -> BOOLEAN] /\ late' \in [Agent -> BOOLEAN]
        /\ killed' \in [Agent -> BOOLEAN]
        /\ note' \in [Agent -> {"none", "owed", "launch", "wake", "over", "lost"}]
        /\ by' \in [Agent -> {"none", "runner", "daemon", "parent"}]
    BY <1>2, <1>3, <1>4, <2>1, SettleStep DEF Settled
  <2>3. TypeOK'
    BY <1>1, <1>2, <1>4, <2>2 DEF TypeOK, team, bounds
  <2> QED BY <1>1, <2>2, <2>3, MildKeeps
<1>6. CASE row[s.agent] # s.status
  <2>1. UNCHANGED <<table, killed, report>>
    BY <1>1, <1>6
  <2>2. TypeOK'
    BY <1>1, <1>2, <1>4, <2>1 DEF TypeOK, table, report, team, bounds
  <2>3. \A b \in Agent : Local(b)'
    <3> SUFFICES ASSUME NEW b \in Agent PROVE Local(b)'
      OBVIOUS
    <3>1. SpawnedAll(b) => SpawnedAll(b)'
      BY <1>2 DEF SpawnedAll, team
    <3> QED BY <1>2, <1>4, <2>1, <3>1, Untouched DEF table, report
  <2>4. Mild
    BY <1>2, <2>1 DEF Mild, table, report, team
  <2> QED BY <1>1, <2>2, <2>3, <2>4, MildKeeps
<1> QED BY <1>5, <1>6

LEMMA RunnerDiesKeeps ==
    ASSUME IInv, NEW a \in Agent, RunnerDies(a)
    PROVE  Kept
<1> USE DEF Active, Settled
<1>1. TypeOK'
  BY BoundsAssumption DEF IInv, TypeOK, RunnerDies, table, team
<1>2. Only(a) /\ UNCHANGED <<team, reap, told>>
  BY DEF IInv, TypeOK, RunnerDies, Only, table
<1>3. /\ row'[a] = row[a] /\ stopped'[a] = stopped[a] /\ late'[a] = late[a] /\ loop' = loop
      /\ proc'[a] = "dead" /\ killed'[a] = killed[a] /\ file'[a] = file[a] /\ by'[a] = by[a]
      /\ proc[a] # "none" /\ Local(a)
      /\ note'[a] = IF by[a] = "runner" /\ Reporting(a) THEN "lost" ELSE note[a]
  BY DEF IInv, TypeOK, RunnerDies, Alive, table, team
<1>4. Local(a)'
  <2>1. Unsettled(a)'
    BY <1>3 DEF Local, Unsettled
  <2>2. Created(a)'
    BY <1>3 DEF Local, Created, SpawnedAll
  <2>3. Runs(a)'
    BY <1>3 DEF Local, Runs
  <2>4. Files(a)'
    BY <1>3 DEF Local, Files, Fits
  <2> QED BY <2>1, <2>2, <2>3, <2>4 DEF Local
<1> QED BY <1>1, <1>2, <1>3, <1>4, OneKeeps

LEMMA DaemonDiesKeeps ==
    ASSUME IInv, DaemonDies
    PROVE  Kept
<1> USE DEF Active, Settled
<1>1. TypeOK'
  BY BoundsAssumption DEF IInv, TypeOK, DaemonDies, table, process, team
<1>2. UNCHANGED <<table, process, by, team, told>> /\ reap' = {}
      /\ note' = [a \in Agent |-> IF by[a] = "daemon" /\ Reporting(a) THEN "lost" ELSE note[a]]
  BY DEF DaemonDies
<1>3. \A b \in Agent : Local(b)'
  <2> SUFFICES ASSUME NEW b \in Agent PROVE Local(b)'
    OBVIOUS
  <2>1. Local(b)
    BY DEF IInv
  <2>2. Unsettled(b)'
    BY <1>2, <2>1 DEF Local, Unsettled, table, Reporting
  <2>3. Created(b)'
    BY <1>2, <2>1 DEF Local, Created, SpawnedAll, table, process, team
  <2>4. Runs(b)'
    BY <1>2, <2>1 DEF Local, Runs, table, process
  <2>5. Files(b)'
    BY <1>2, <2>1 DEF Local, Files, Fits, table, process
  <2> QED BY <2>2, <2>3, <2>4, <2>5 DEF Local
<1>4. Mild
  BY <1>2 DEF Mild, table, process, team
<1> QED BY <1>1, <1>2, <1>3, <1>4, MildKeeps

LEMMA NotifyThrowsKeeps ==
    ASSUME IInv, NEW a \in Agent, NotifyThrows(a)
    PROVE  Kept
<1> USE DEF Active, Settled
<1>1. TypeOK'
  BY BoundsAssumption DEF IInv, TypeOK, NotifyThrows, table, process, team
<1>2. Only(a) /\ UNCHANGED <<team, reap, told>>
  BY DEF IInv, TypeOK, NotifyThrows, Only, table, process
<1>3. /\ row'[a] = row[a] /\ stopped'[a] = stopped[a] /\ late'[a] = late[a] /\ loop' = loop
      /\ proc'[a] = proc[a] /\ killed'[a] = killed[a] /\ file'[a] = file[a] /\ by'[a] = by[a]
      /\ note[a] # "none" /\ note'[a] = "lost" /\ Local(a)
  BY DEF IInv, TypeOK, NotifyThrows, Reporting, table, process, team
<1>4. Local(a)'
  <2>1. Unsettled(a)'
    BY <1>3 DEF Local, Unsettled
  <2>2. Created(a)'
    BY <1>3 DEF Local, Created, SpawnedAll
  <2>3. Runs(a)'
    BY <1>3 DEF Local, Runs
  <2>4. Files(a)'
    BY <1>3 DEF Local, Files, Fits
  <2> QED BY <2>1, <2>2, <2>3, <2>4 DEF Local
<1> QED BY <1>1, <1>2, <1>3, <1>4, OneKeeps

-----------------------------------------------------------------------------
(* The parent *)

LEMMA SpawnAgentKeeps ==
    ASSUME IInv, NEW a \in Agent, SpawnAgent(a)
    PROVE  Kept
<1> USE DEF Active, Settled
<1>1. TypeOK'
  BY DEF IInv, TypeOK, SpawnAgent, Launch, report, team, bounds
<1>2. Only(a)
  BY DEF IInv, TypeOK, SpawnAgent, Launch, Only, report
<1>3. /\ row[a] = "none" /\ row'[a] = "pending" /\ proc'[a] = "starting" /\ a \in Solo
      /\ stopped'[a] = stopped[a] /\ late'[a] = late[a] /\ loop' = loop
      /\ killed'[a] = killed[a] /\ file'[a] = file[a]
      /\ note'[a] = note[a] /\ by'[a] = by[a] /\ Local(a)
  BY DEF IInv, TypeOK, SpawnAgent, Launch, report, team
<1>4. Local(a)'
  <2>1. Unsettled(a)'
    BY <1>3 DEF Local, Unsettled
  <2>2. Created(a)'
    BY <1>3 DEF Created, SpawnedAll
  <2>3. Runs(a)'
    BY <1>3 DEF Runs
  <2>4. Files(a)'
    BY <1>3 DEF Local, Runs, Files, Fits
  <2> QED BY <2>1, <2>2, <2>3, <2>4 DEF Local
<1>5. \A b \in Agent : Local(b)'
  BY <1>2, <1>3, <1>4, OnlyLocal DEF IInv
<1>6. UNCHANGED <<report, team, reap, told>>
  BY DEF SpawnAgent
<1>7. Reports'
  BY <1>6 DEF IInv, Reports, report, team
<1>8. \A t \in Teams : \A b \in Team(t) : row'[b] = row[b] /\ proc'[b] = proc[b]
  BY <1>2, <1>3, WorkFacts DEF Only
<1>9. Stages' /\ Finals'
  BY <1>6, <1>8, WorkFacts DEF IInv, Stages, Finals, report, team
<1>10. ListedThere'
  BY <1>6 DEF IInv, ListedThere, SpawnedAll, team
<1> QED BY <1>1, <1>5, <1>7, <1>9, <1>10 DEF Kept

LEMMA SpawnMemberKeeps ==
    ASSUME IInv, NEW t \in Teams, SpawnMember(t)
    PROVE  Kept
<1> USE DEF Active, Settled
<1>0. PICK a : a = Members[t][loop[t] + 1]
  OBVIOUS
<1>1. loop[t] \in Nat /\ loop[t] < Len(Members[t]) /\ Len(Members[t]) \in Nat
  BY TeamAssumption DEF IInv, TypeOK, SpawnMember
<1>2. a \in Team(t) /\ a \in Agent /\ a \notin Solo /\ a # FollowOn[t] /\ row[a] = "none"
  BY <1>0, <1>1, WorkFacts DEF IInv, Stages
<1>3. /\ row' = [row EXCEPT ![a] = "pending"] /\ proc' = [proc EXCEPT ![a] = "starting"]
      /\ loop' = [loop EXCEPT ![t] = @ + 1]
      /\ UNCHANGED <<stopped, late, killed, file, report, marker, done, reap, told, bounds>>
  BY <1>0 DEF SpawnMember, Launch
<1>4. TypeOK'
  BY <1>1, <1>2, <1>3 DEF IInv, TypeOK, report, bounds
<1>5. \A b \in Agent : SpawnedAll(b) => SpawnedAll(b)'
  BY <1>1, <1>3, WorkFacts DEF IInv, TypeOK, SpawnedAll
<1>6. ASSUME NEW b \in Agent, b # a PROVE Local(b)'
  <2>1. row'[b] = row[b] /\ proc'[b] = proc[b]
    BY <1>3, <1>6 DEF IInv, TypeOK
  <2> QED BY <1>3, <1>5, <2>1, Untouched DEF IInv, report
<1>7. Local(a)'
  <2>1. row'[a] = "pending" /\ proc'[a] = "starting" /\ Local(a)
    BY <1>2, <1>3 DEF IInv, TypeOK
  <2>2. Unsettled(a)'
    BY <1>2, <1>3, <2>1 DEF Local, Unsettled, report
  <2>3. Created(a)'
    BY <1>2, <1>3, <2>1 DEF Local, Unsettled, Created
  <2>4. Runs(a)'
    BY <2>1 DEF Runs
  <2>5. Files(a)'
    BY <1>2, <1>3, <2>1 DEF Local, Runs, Files, Fits, report
  <2> QED BY <2>2, <2>3, <2>4, <2>5 DEF Local
<1>8. Reports'
  BY <1>3 DEF IInv, Reports, report
<1>9. \A u \in Teams : \A b \in Team(u) :
          b \in Agent /\ (b # a => row'[b] = row[b] /\ proc'[b] = proc[b])
  BY <1>3, WorkFacts DEF IInv, TypeOK
<1>10. \A u \in Teams : a # FollowOn[u]
  BY <1>2, WorkFacts, TeamAssumption
<1>11. Stages'
  <2> SUFFICES ASSUME NEW u \in Teams
               PROVE  /\ marker[u] => /\ FollowOn[u] # None /\ row'[FollowOn[u]] = "none"
                                      /\ \A b \in Team(u) : note[b] # "launch"
                      /\ \A b \in Team(u) : note[b] = "launch" =>
                             /\ FollowOn[u] # None
                             /\ row'[FollowOn[u]] # "none" /\ proc'[FollowOn[u]] = "none"
                      /\ \A b, c \in Team(u) : note[b] = "launch" /\ note[c] = "launch" => b = c
                      /\ \A i \in 1..Len(Members[u]) : loop'[u] < i => row'[Members[u][i]] = "none"
                      /\ loop'[u] <= Len(Members[u])
    BY <1>3 DEF Stages, report
  <2>1. FollowOn[u] # None => /\ row'[FollowOn[u]] = row[FollowOn[u]]
                              /\ proc'[FollowOn[u]] = proc[FollowOn[u]]
    BY <1>9, <1>10, WorkFacts
  <2>2. ASSUME NEW i \in 1..Len(Members[u]), loop'[u] < i PROVE row'[Members[u][i]] = "none"
    <3>1. /\ loop[u] \in Nat /\ loop'[u] \in Nat /\ loop[u] <= loop'[u]
          /\ u = t => loop'[u] = loop[t] + 1
      BY <1>1, <1>3 DEF IInv, TypeOK
    <3>2. Len(Members[u]) \in Nat
      BY TeamAssumption
    <3>3. row[Members[u][i]] = "none"
      BY <2>2, <3>1, <3>2 DEF IInv, Stages
    <3>4. Members[u][i] # a
      <4>1. CASE u = t
        <5>1. loop[t] + 1 \in 1..Len(Members[t]) /\ i # loop[t] + 1
          BY <1>1, <2>2, <3>1, <4>1
        <5> QED BY <1>0, <4>1, <5>1, TeamAssumption
      <4>2. CASE u # t
        BY <1>2, <4>2, WorkFacts
      <4> QED BY <4>1, <4>2
    <3> QED BY <1>9, <3>3, <3>4, WorkFacts
  <2>3. loop'[u] <= Len(Members[u])
    BY <1>1, <1>3 DEF IInv, TypeOK, Stages
  <2> QED BY <2>1, <2>2, <2>3 DEF IInv, Stages
<1>12. Finals'
  <2>1. t \notin done
    BY <1>1 DEF IInv, Finals
  <2>2. \A u \in done : u \in Teams /\ u # t /\ loop'[u] = loop[u]
    BY <1>3, <2>1 DEF IInv, TypeOK
  <2>3. \A u \in done : \A b \in Team(u) : b # a
    BY <1>2, <2>2, WorkFacts
  <2> QED BY <1>3, <1>9, <2>2, <2>3 DEF IInv, Finals
<1>13. ListedThere'
  BY <1>3, <1>5 DEF IInv, TypeOK, ListedThere
<1> QED BY <1>4, <1>6, <1>7, <1>8, <1>11, <1>12, <1>13 DEF Kept

-----------------------------------------------------------------------------
(* The report *)

\* A step that only reports: note of one agent and what was told.
LEMMA NoteLocal ==
    ASSUME IInv, NEW a \in Agent, note[a] # "none", NEW n, note' = [note EXCEPT ![a] = n],
           UNCHANGED <<table, process, by, loop>>
    PROVE  \A b \in Agent : Local(b)'
<1> SUFFICES ASSUME NEW b \in Agent PROVE Local(b)'
  OBVIOUS
<1>1. Local(b) /\ (b # a => note'[b] = note[b])
  BY DEF IInv, TypeOK
<1>2. Unsettled(b)'
  BY <1>1 DEF Local, Unsettled, table
<1>3. Created(b)'
  BY <1>1 DEF Local, Created, SpawnedAll, table, process
<1>4. Runs(b)'
  BY <1>1 DEF Local, Runs, table, process
<1>5. Files(b)'
  BY <1>1 DEF Local, Files, Fits, table, process
<1> QED BY <1>2, <1>3, <1>4, <1>5 DEF Local

LEMMA NotifySoloKeeps ==
    ASSUME IInv, NEW a \in Agent, NotifySolo(a)
    PROVE  Kept
<1>1. TypeOK'
  BY DEF IInv, TypeOK, NotifySolo, Work, table, process, team, bounds
<1>2. /\ note[a] = "owed" /\ a \in Solo
      /\ told' = [told EXCEPT ![a] = @ + 1] /\ note' = [note EXCEPT ![a] = "over"]
      /\ UNCHANGED <<table, process, by, team, reap>>
  BY DEF NotifySolo
<1>3. \A b \in Agent : Local(b)'
  BY <1>2, NoteLocal DEF team
<1>4. Reports'
  <2>1. told[a] = 0 /\ told'[a] = 1 /\ note'[a] = "over"
    BY <1>2 DEF IInv, TypeOK, Reports, Work
  <2>2. \A b \in Agent : b # a => note'[b] = note[b]
    BY <1>2 DEF IInv, TypeOK
  <2>3. \A w \in Work : w # a => told'[w] = told[w]
    BY <1>2 DEF IInv, TypeOK
  <2>4. \A t \in Teams : t \in Work /\ t # a /\ \A b \in Team(t) : b \in Agent /\ b # a
    BY <1>2, WorkFacts DEF Work
  <2>5. \A b \in Solo : b \in Work /\ b \in Agent
    BY WorkFacts DEF Work
  <2>6. done' = done
    BY <1>2 DEF team
  <2> QED BY <2>1, <2>2, <2>3, <2>4, <2>5, <2>6 DEF IInv, Reports
<1>5. \A t \in Teams : \A b \in Team(t) : note'[b] = note[b]
  BY <1>2, WorkFacts DEF IInv, TypeOK
<1>6. Stages' /\ Finals' /\ ListedThere'
  BY <1>2, <1>5 DEF IInv, Stages, Finals, ListedThere, SpawnedAll, table, process, team
<1> QED BY <1>1, <1>3, <1>4, <1>6 DEF Kept

LEMMA WakeTeamKeeps ==
    ASSUME IInv, NEW a \in Agent, WakeTeam(a)
    PROVE  Kept
<1> DEFINE t == WorkOf(a)
<1>1. /\ note[a] = "wake"
      /\ told' = [told EXCEPT ![t] = @ + 1] /\ note' = [note EXCEPT ![a] = "over"]
      /\ UNCHANGED <<table, process, by, team, reap, bounds>>
  BY DEF WakeTeam
<1>2. a \notin Solo /\ t \in Teams /\ a \in Team(t)
  BY <1>1, WorkFacts DEF IInv, Reports
<1> HIDE DEF t
<1>3. TypeOK'
  BY <1>1, <1>2 DEF IInv, TypeOK, Work, table, process, team, bounds
<1>4. \A b \in Agent : Local(b)'
  BY <1>1, NoteLocal DEF team
<1>5. \A b \in Agent : b # a => note'[b] = note[b]
  BY <1>1 DEF IInv, TypeOK
<1>6. note'[a] = "over"
  BY <1>1 DEF IInv, TypeOK
<1>7. Reports'
  <2>1. t \in done /\ told[t] = 0 /\ told'[t] = 1
    BY <1>1, <1>2 DEF IInv, TypeOK, Reports, Work
  <2>2. \A w \in Work : w # t => told'[w] = told[w]
    BY <1>1 DEF IInv, TypeOK
  <2>3. \A b \in Team(t) : b # a => note'[b] # "wake"
    BY <1>1, <1>2, <1>5, WorkFacts DEF IInv, Reports
  <2>4. \A u \in Teams : u \in Work /\ \A b \in Team(u) : b \in Agent /\ (b = a => u = t)
    BY <1>2, WorkFacts DEF Work
  <2>5. \A b \in Solo : b \in Work /\ b \in Agent /\ b # a /\ b # t
    BY <1>2, WorkFacts DEF Work
  <2>6. done' = done
    BY <1>1 DEF team
  <2>7. \A b \in Solo : told'[b] = told[b] /\ note'[b] = note[b]
    BY <1>5, <2>2, <2>5
  <2>8. ASSUME NEW u \in Teams, u # t
        PROVE  told'[u] = told[u] /\ \A b \in Team(u) : note'[b] = note[b]
    BY <1>5, <2>2, <2>4, <2>8
  <2>9. \A b \in Team(t) : note'[b] # "wake"
    BY <1>6, <2>3
  <2> QED BY <2>1, <2>6, <2>7, <2>8, <2>9 DEF IInv, Reports
<1>8. \A u \in Teams : \A b \in Team(u) : note'[b] = "launch" => note[b] = "launch"
  BY <1>5, <1>6, WorkFacts
<1>9. Stages' /\ Finals' /\ ListedThere'
  BY <1>1, <1>8 DEF IInv, Stages, Finals, ListedThere, SpawnedAll, table, process, team
<1> QED BY <1>3, <1>4, <1>7, <1>9 DEF Kept

LEMMA LaunchFollowOnKeeps ==
    ASSUME IInv, NEW a \in Agent, LaunchFollowOn(a)
    PROVE  Kept
<1> USE DEF Active, Settled
<1> DEFINE t == WorkOf(a)
           f == FollowOn[t]
<1>1. /\ note[a] = "launch"
      /\ proc' = [proc EXCEPT ![f] = "starting"] /\ note' = [note EXCEPT ![a] = "over"]
      /\ UNCHANGED <<table, killed, file, by, team, reap, told, bounds>>
  BY DEF LaunchFollowOn, Launch
<1>2. a \notin Solo /\ t \in Teams /\ a \in Team(t)
  BY <1>1, WorkFacts DEF IInv, Reports
<1>3. f # None /\ f \in Team(t) /\ f \in Agent /\ row[f] # "none" /\ proc[f] = "none"
  BY <1>1, <1>2, WorkFacts DEF IInv, Stages
<1>4. \A u \in Teams : u # t => FollowOn[u] # f
  BY <1>3, <1>2, WorkFacts, TeamAssumption
<1>5. ~marker[t]
  BY <1>1, <1>2 DEF IInv, Stages
<1> HIDE DEF f, t
<1>6. TypeOK'
  BY <1>1, <1>3 DEF IInv, TypeOK, table, team, bounds
<1>7. \A b \in Agent : Local(b)'
  <2> SUFFICES ASSUME NEW b \in Agent PROVE Local(b)'
    OBVIOUS
  <2>1. /\ Local(b) /\ note[a] # "none"
        /\ IF b = f THEN proc[b] = "none" /\ row[b] # "none" /\ proc'[b] = "starting"
                    ELSE proc'[b] = proc[b]
        /\ b # a => note'[b] = note[b]
    BY <1>1, <1>3 DEF IInv, TypeOK
  <2>2. row'[b] = row[b] /\ stopped'[b] = stopped[b] /\ late'[b] = late[b] /\ by'[b] = by[b]
        /\ killed'[b] = killed[b] /\ file'[b] = file[b] /\ loop' = loop
    BY <1>1 DEF table, team
  <2>3. Unsettled(b)'
    BY <2>1, <2>2 DEF Local, Unsettled
  <2>4. Created(b)'
    BY <2>1, <2>2 DEF Local, Created, SpawnedAll
  <2>5. Runs(b)'
    BY <2>1, <2>2 DEF Local, Runs
  <2>6. Files(b)'
    BY <2>1, <2>2 DEF Local, Files, Fits
  <2> QED BY <2>3, <2>4, <2>5, <2>6 DEF Local
<1>8. \A b \in Agent : b # a => note'[b] = note[b]
  BY <1>1 DEF IInv, TypeOK
<1>9. note'[a] = "over"
  BY <1>1 DEF IInv, TypeOK
<1>10. Reports'
  <2>1. \A u \in Teams : \A b \in Team(u) : note'[b] = "wake" => note[b] = "wake"
    BY <1>8, <1>9, WorkFacts
  <2>2. \A b \in Solo : note'[b] = note[b]
    BY <1>2, <1>8, WorkFacts
  <2> QED BY <1>1, <2>1, <2>2 DEF IInv, Reports, team
<1>11. Stages'
  <2> SUFFICES ASSUME NEW u \in Teams
               PROVE  /\ marker[u] => /\ FollowOn[u] # None /\ row[FollowOn[u]] = "none"
                                      /\ \A b \in Team(u) : note'[b] # "launch"
                      /\ \A b \in Team(u) : note'[b] = "launch" =>
                             /\ FollowOn[u] # None
                             /\ row[FollowOn[u]] # "none" /\ proc'[FollowOn[u]] = "none"
                      /\ \A b, c \in Team(u) : note'[b] = "launch" /\ note'[c] = "launch" => b = c
    BY <1>1 DEF IInv, Stages, table, team
  <2>1. \A b \in Team(u) : note'[b] = "launch" => note[b] = "launch"
    BY <1>8, <1>9, WorkFacts
  <2>2. CASE u = t
    <3>1. \A b \in Team(t) : note'[b] # "launch"
      BY <1>1, <1>2, <1>9, <2>1, <2>2 DEF IInv, Stages
    <3> QED BY <1>5, <2>2, <3>1
  <2>3. CASE u # t
    <3>1. proc'[FollowOn[u]] = proc[FollowOn[u]]
      BY <1>1, <1>4, <2>3 DEF IInv, TypeOK
    <3> QED BY <2>1, <3>1 DEF IInv, Stages
  <2> QED BY <2>2, <2>3
<1>12. Finals' /\ ListedThere'
  BY <1>1 DEF IInv, Finals, ListedThere, SpawnedAll, table, team
<1> QED BY <1>6, <1>7, <1>10, <1>11, <1>12 DEF Kept

\* The decision: a member that never started is given up on, and the team goes
\* on waiting, starts its last stage, or is claimed.
LEMMA DecideTeamKeeps ==
    ASSUME IInv, NEW a \in Agent, DecideTeam(a)
    PROVE  Kept
<1> USE DEF Active, Settled
<1> DEFINE t == WorkOf(a)
           f == FollowOn[t]
           Stale(b) == b \in Team(t) /\ row[b] = "pending" /\ late[b]
<1>1. note[a] = "owed" /\ a \notin Solo /\ t \in Teams /\ a \in Team(t)
  BY WorkFacts DEF DecideTeam
<1>2. PICK r : r = AfterStale(t)
  OBVIOUS
<1>3. /\ r \in [Agent -> {"none"} \cup Active \cup Settled]
      /\ \A b \in Agent : r[b] = IF Stale(b) THEN "failed" ELSE row[b]
  BY <1>2 DEF AfterStale, IInv, TypeOK
<1>4. /\ stopped' = [m \in Agent |-> stopped[m] \/ r[m] # row[m]]
      /\ late' = [m \in Agent |-> late[m] /\ r[m] = row[m]]
      /\ UNCHANGED <<process, by, loop, reap, told, bounds>>
  BY <1>2 DEF DecideTeam
<1>5. \/ /\ row' = r /\ note' = [note EXCEPT ![a] = "over"] /\ UNCHANGED <<marker, done>>
      \/ /\ marker[t] /\ marker' = [marker EXCEPT ![t] = FALSE] /\ FullySettled(t, r)
         /\ row' = [r EXCEPT ![f] = "pending"] /\ note' = [note EXCEPT ![a] = "launch"]
         /\ done' = done
      \/ /\ FullySettled(t, r) /\ row' = r /\ done' = done \cup {t}
         /\ note' = [note EXCEPT ![a] = IF t \notin done THEN "wake" ELSE "over"]
         /\ \/ marker[t] /\ marker' = [marker EXCEPT ![t] = FALSE]
            \/ ~marker[t] /\ marker' = marker
  BY <1>2 DEF DecideTeam, ClaimTeamDone
<1>6. \A b \in Team(t) : b \in Agent
  BY <1>1, WorkFacts
<1>7. marker[t] => f # None /\ f \in Team(t) /\ f \in Agent /\ row[f] = "none" /\ r[f] = "none"
  BY <1>1, <1>3, WorkFacts DEF IInv, Stages
<1>8. \A u \in Teams : u # t => \A b \in Team(u) : b \notin Team(t) /\ b # a /\ b \in Agent
  BY <1>1, WorkFacts
<1>9. row[a] \in {"done", "failed", "canceled"} /\ SpawnedAll(a)
  BY <1>1 DEF IInv, TypeOK, Local, Unsettled, Created
<1>10. loop[t] = Len(Members[t])
  BY <1>1, <1>9 DEF SpawnedAll
<1> HIDE DEF t, f
<1>11. row' \in [Agent -> {"none"} \cup Active \cup Settled]
       /\ note' \in [Agent -> {"none", "owed", "launch", "wake", "over", "lost"}]
       /\ marker' \in [Teams -> BOOLEAN] /\ done' \subseteq Teams
  <2>1. /\ row \in [Agent -> {"none"} \cup Active \cup Settled]
        /\ note \in [Agent -> {"none", "owed", "launch", "wake", "over", "lost"}]
        /\ marker \in [Teams -> BOOLEAN] /\ done \subseteq Teams
    BY DEF IInv, TypeOK
  <2>2. [r EXCEPT ![f] = "pending"] \in [Agent -> {"none"} \cup Active \cup Settled]
    BY <1>3
  <2> QED BY <1>1, <1>3, <1>5, <2>1, <2>2
<1>12. TypeOK'
  BY <1>4, <1>11 DEF IInv, TypeOK, process, bounds
<1>13. \A b \in Agent : b # a => note'[b] = note[b]
  BY <1>5 DEF IInv, TypeOK
<1>14. \A b \in Agent : \/ row'[b] = r[b]
                        \/ /\ b = f /\ marker[t] /\ marker' = [marker EXCEPT ![t] = FALSE]
                           /\ row[b] = "none" /\ r[b] = "none" /\ row'[b] = "pending"
  BY <1>3, <1>5, <1>7
<1>15. \A b \in Agent : Local(b)'
  <2> SUFFICES ASSUME NEW b \in Agent PROVE Local(b)'
    OBVIOUS
  <2>1. Local(b) /\ (b # a => note'[b] = note[b]) /\ row[a] \in Settled
    BY <1>9, <1>13 DEF IInv
  <2>2. /\ proc'[b] = proc[b] /\ killed'[b] = killed[b] /\ file'[b] = file[b] /\ by'[b] = by[b]
        /\ loop' = loop
    BY <1>4 DEF process
  <2>3. stopped'[b] = (stopped[b] \/ r[b] # row[b]) /\ late'[b] = (late[b] /\ r[b] = row[b])
    BY <1>4
  <2>4. \/ /\ row'[b] = row[b] /\ stopped'[b] = stopped[b] /\ late'[b] = late[b]
        \/ /\ row[b] = "pending" /\ late[b] /\ row'[b] = "failed" /\ stopped'[b] /\ ~late'[b]
        \/ /\ row[b] = "none" /\ row'[b] = "pending"
           /\ stopped'[b] = stopped[b] /\ late'[b] = late[b]
    <3>1. /\ stopped[b] \in BOOLEAN /\ late[b] \in BOOLEAN
          /\ stopped'[b] \in BOOLEAN /\ late'[b] \in BOOLEAN
      BY <1>4 DEF IInv, TypeOK
    <3>2. CASE Stale(b)
      <4>1. r[b] = "failed" /\ row[b] = "pending" /\ late[b]
        BY <1>3, <3>2
      <4>2. row'[b] = "failed"
        BY <1>14, <4>1
      <4> QED BY <2>3, <3>1, <4>1, <4>2
    <3>3. CASE ~Stale(b)
      <4>1. r[b] = row[b]
        BY <1>3, <3>3
      <4>2. stopped'[b] = stopped[b] /\ late'[b] = late[b]
        BY <2>3, <3>1, <4>1
      <4> QED BY <1>14, <4>1, <4>2
    <3> QED BY <3>2, <3>3
  <2>5. b # a \/ row'[b] = row[b]
    BY <1>9, <2>4
  <2>6. Unsettled(b)'
    BY <2>1, <2>2, <2>4, <2>5 DEF Local, Unsettled
  <2>7. Created(b)'
    BY <2>1, <2>2, <2>4 DEF Local, Created, Unsettled, SpawnedAll
  <2>8. Runs(b)'
    BY <2>1, <2>2, <2>4 DEF Local, Runs
  <2>9. Files(b)'
    BY <2>1, <2>2, <2>4 DEF Local, Files, Fits, Runs, Unsettled
  <2> QED BY <2>6, <2>7, <2>8, <2>9 DEF Local
<1>16. Reports'
  <2>1. \A b \in Solo : note'[b] = note[b] /\ told'[b] = told[b]
    BY <1>1, <1>4, <1>13, WorkFacts
  <2>2. ASSUME NEW u \in Teams, u # t
        PROVE  (u \in done' <=> u \in done) /\ \A b \in Team(u) : note'[b] = note[b]
    BY <1>5, <1>8, <1>13, <2>2
  <2>3. \/ done' = done /\ note'[a] # "wake"
        \/ t \notin done /\ done' = done \cup {t} /\ note'[a] = "wake"
    <3>1. \A n : note' = [note EXCEPT ![a] = n] => note'[a] = n
      BY DEF IInv, TypeOK
    <3>2. t \in done => done \cup {t} = done
      OBVIOUS
    <3> QED BY <1>5, <3>1, <3>2
  <2>4. \A b \in Team(t) : note'[b] = "wake" => b = a \/ note[b] = "wake"
    BY <1>6, <1>13
  <2>5. /\ told[t] <= 1 /\ told[t] # 0 => t \in done'
        /\ \A b \in Team(t) : note'[b] = "wake" => t \in done' /\ told[t] = 0
        /\ \A b, c \in Team(t) : note'[b] = "wake" /\ note'[c] = "wake" => b = c
    BY <1>1, <2>3, <2>4 DEF IInv, Reports
  <2>6. told[t] <= 1
    BY <1>1 DEF IInv, Reports
  <2>7. told[t] # 0 => t \in done'
    BY <1>1, <2>3 DEF IInv, Reports
  <2> QED BY <1>4, <2>1, <2>2, <2>5, <2>6, <2>7 DEF IInv, Reports
<1>17. ASSUME NEW u \in Teams, u # t
       PROVE  /\ marker'[u] = marker[u] /\ (u \in done' <=> u \in done)
              /\ \A b \in Team(u) : row'[b] = row[b] /\ note'[b] = note[b] /\ proc'[b] = proc[b]
  <2>1. marker'[u] = marker[u] /\ (u \in done' <=> u \in done)
    BY <1>1, <1>5, <1>17 DEF IInv, TypeOK
  <2>2. \A b \in Team(u) : b # f /\ ~Stale(b) /\ b \in Agent
    BY <1>1, <1>7, <1>8, <1>17, WorkFacts, TeamAssumption DEF f
  <2> QED BY <1>3, <1>4, <1>8, <1>13, <1>14, <1>17, <2>1, <2>2 DEF process
<1>18. Stages'
  <2> SUFFICES ASSUME NEW u \in Teams
               PROVE  /\ marker'[u] => /\ FollowOn[u] # None /\ row'[FollowOn[u]] = "none"
                                       /\ \A b \in Team(u) : note'[b] # "launch"
                      /\ \A b \in Team(u) : note'[b] = "launch" =>
                             /\ FollowOn[u] # None
                             /\ row'[FollowOn[u]] # "none" /\ proc'[FollowOn[u]] = "none"
                      /\ \A b, c \in Team(u) : note'[b] = "launch" /\ note'[c] = "launch" => b = c
                      /\ \A i \in 1..Len(Members[u]) : loop[u] < i => row'[Members[u][i]] = "none"
                      /\ loop[u] <= Len(Members[u])
    BY <1>4 DEF Stages
  <2>1. CASE u # t
    BY <1>17, <2>1, WorkFacts DEF IInv, Stages
  <2>2. CASE u = t
    <3>1. loop[t] = Len(Members[t]) /\ Len(Members[t]) \in Nat
      BY <1>1, <1>10, TeamAssumption
    <3>2. \A i \in 1..Len(Members[t]) : ~(loop[t] < i)
      BY <3>1
    <3>3. CASE note'[a] = "launch"
      <4>1. marker[t] /\ ~marker'[t] /\ row'[f] = "pending"
        BY <1>1, <1>3, <1>5, <1>7, <3>3 DEF IInv, TypeOK
      <4>2. f # None /\ proc'[f] = "none"
        BY <1>4, <1>7, <4>1 DEF IInv, Local, Runs, process
      <4>3. \A b \in Team(t) : note'[b] = "launch" => b = a
        BY <1>1, <1>6, <1>13, <4>1 DEF IInv, Stages
      <4> QED BY <2>2, <3>1, <3>2, <4>1, <4>2, <4>3 DEF f
    <3>4. CASE note'[a] # "launch"
      <4>1. row' = r /\ (marker'[t] => marker[t])
        BY <1>1, <1>5, <3>4 DEF IInv, TypeOK
      <4>2. \A b \in Team(t) : note'[b] = "launch" => note[b] = "launch"
        BY <1>6, <1>13, <3>4
      <4>3. \A b \in Agent : row'[b] = "none" <=> row[b] = "none"
        BY <1>3, <4>1
      <4>4. f # None => f \in Agent
        BY <1>1, WorkFacts DEF f
      <4>5. proc' = proc
        BY <1>4 DEF process
      <4> QED BY <1>1, <2>2, <3>1, <3>2, <4>1, <4>2, <4>3, <4>4, <4>5 DEF IInv, Stages, f
    <3> QED BY <3>3, <3>4
  <2> QED BY <2>1, <2>2
<1>19. Finals'
  <2> SUFFICES ASSUME NEW u \in Teams, u \in done'
               PROVE  /\ ~marker'[u] /\ loop[u] = Len(Members[u])
                      /\ \A b \in Team(u) : row'[b] \notin Active
    BY <1>4 DEF Finals
  <2>1. CASE u # t
    BY <1>17, <2>1 DEF IInv, Finals
  <2>2. CASE u = t /\ t \in done
    <3>1. ~marker[t] /\ \A b \in Team(t) : row[b] \notin Active
      BY <1>1, <2>2 DEF IInv, Finals
    <3>2. ~marker'[t]
      BY <1>1, <1>5, <3>1 DEF IInv, TypeOK
    <3>3. \A b \in Team(t) : row'[b] = row[b]
      BY <1>3, <1>6, <1>14, <3>1
    <3> QED BY <1>10, <2>2, <3>1, <3>2, <3>3
  <2>3. CASE u = t /\ t \notin done
    <3>1. FullySettled(t, r) /\ row' = r /\ ~marker'[t]
      BY <1>1, <1>5, <2>2, <2>3 DEF IInv, TypeOK
    <3>2. \A b \in Team(t) : r[b] \notin Active
      BY <3>1 DEF FullySettled
    <3> QED BY <1>10, <2>3, <3>1, <3>2
  <2> QED BY <2>1, <2>2, <2>3
<1>20. ListedThere'
  BY <1>4 DEF IInv, ListedThere, SpawnedAll
<1> QED BY <1>12, <1>15, <1>16, <1>18, <1>19, <1>20 DEF Kept

-----------------------------------------------------------------------------
(* The theorems *)

LEMMA InitIInv == Init => IInv
<1> SUFFICES ASSUME Init PROVE IInv
  OBVIOUS
<1>1. TypeOK
  BY BoundsAssumption DEF Init, TypeOK
<1>2. \A b \in Agent : Local(b)
  BY DEF Init, Local, Unsettled, Created, Runs, Files, Fits, Settled, Active
<1>3. Reports
  BY WorkFacts DEF Init, Reports, Work
<1>4. Stages
  <2>1. \A t \in Teams : FollowOn[t] # None => FollowOn[t] \in Agent
    BY WorkFacts
  <2>2. \A t \in Teams : Len(Members[t]) \in Nat
    BY TeamAssumption
  <2>3. \A t \in Teams : \A i \in 1..Len(Members[t]) : Members[t][i] \in Agent
    BY WorkFacts
  <2>4. \A t \in Teams : \A b \in Team(t) : b \in Agent
    BY WorkFacts
  <2>5. \A b \in Agent : row[b] = "none" /\ note[b] = "none"
    BY DEF Init
  <2>6. \A t \in Teams : loop[t] = 0 /\ (marker[t] => FollowOn[t] # None)
    BY DEF Init
  <2> QED BY <2>1, <2>2, <2>3, <2>4, <2>5, <2>6 DEF Stages
<1>5. Finals /\ ListedThere
  BY DEF Init, Finals, ListedThere
<1> QED BY <1>1, <1>2, <1>3, <1>4, <1>5 DEF IInv

LEMMA NextIInv == IInv /\ [Next]_vars => IInv'
<1> SUFFICES ASSUME IInv, [Next]_vars PROVE IInv'
  OBVIOUS
<1>1. SUFFICES ASSUME Next PROVE Kept
  <2>1. CASE UNCHANGED vars
    <3>1. UNCHANGED <<table, process, report, team, reap, told, bounds>>
      BY <2>1 DEF vars, table, process, report, team, bounds
    <3>2. TypeOK'
      BY <3>1 DEF IInv, TypeOK, table, process, report, team, bounds
    <3>3. \A b \in Agent : Local(b)'
      <4> SUFFICES ASSUME NEW b \in Agent PROVE Local(b)'
        OBVIOUS
      <4>1. SpawnedAll(b) => SpawnedAll(b)'
        BY <3>1 DEF SpawnedAll, team
      <4> QED BY <3>1, <4>1, Untouched DEF IInv, table, process, report
    <3>4. Mild
      BY <3>1 DEF Mild, table, process, report, team
    <3> QED BY <3>1, <3>2, <3>3, <3>4, MildKeeps DEF Kept, IInv
  <2>2. CASE Kept
    BY <2>2 DEF Kept, IInv
  <2> QED BY <1>1, <2>1, <2>2
<1>2. CASE \E t \in Teams : SpawnMember(t)
  BY <1>2, SpawnMemberKeeps
<1>3. CASE ReapStart \/ ReapNext \/ DaemonDies
  BY <1>3, ReapStartKeeps, ReapNextKeeps, DaemonDiesKeeps
<1>4. ASSUME NEW a \in Agent,
             \/ SpawnAgent(a) \/ ParentNotices(a) \/ CancelAgent(a)
             \/ Overdue(a) \/ Runner(a) \/ Notify(a)
             \/ Shutdown(a) \/ RunnerDies(a) \/ NotifyThrows(a)
      PROVE  Kept
  <2>1. CASE SpawnAgent(a) \/ Overdue(a) \/ RunnerDies(a) \/ NotifyThrows(a)
    BY <2>1, SpawnAgentKeeps, OverdueKeeps, RunnerDiesKeeps, NotifyThrowsKeeps
  <2>2. CASE ParentNotices(a) \/ CancelAgent(a) \/ ExitSettle(a) \/ TermSettle(a)
    BY <2>2, SettleKeeps
  <2>3. CASE Claim(a)
    BY <2>3, ClaimKeeps
  <2>4. CASE CliExit(a) \/ ExitSettled(a) \/ OnTerm(a) \/ RunnerExit(a) \/ Shutdown(a)
    BY <2>4, ProcessKeeps
  <2>5. CASE Notify(a)
    BY <2>5, NotifySoloKeeps, DecideTeamKeeps, LaunchFollowOnKeeps, WakeTeamKeeps DEF Notify
  <2> QED BY <1>4, <2>1, <2>2, <2>3, <2>4, <2>5 DEF Runner
<1> QED BY <1>1, <1>2, <1>3, <1>4 DEF Next

LEMMA Invariance == Spec => []IInv
<1> QED BY InitIInv, NextIInv, PTL DEF Spec

\* Every variable of Agents keeps its type.
THEOREM Typing == Spec => []TypeOK
<1>1. IInv => TypeOK
  BY DEF IInv
<1> QED BY <1>1, Invariance, PTL

\* A solo agent and a team are reported once at the most, whichever of runner,
\* parent, daemon and members that end together come to the report.
THEOREM ToldOnce == Spec => []OneWakeUp
<1>1. IInv => OneWakeUp
  BY DEF IInv, Reports, OneWakeUp, Work
<1> QED BY <1>1, Invariance, PTL

\* When a team is claimed as done, none of its members is active or will be.
THEOREM ReportsAreFinal == Spec => []TeamReportIsFinal
<1>1. IInv => TeamReportIsFinal
  BY DEF IInv, TypeOK, Finals, TeamReportIsFinal
<1> QED BY <1>1, Invariance, PTL

\* No CLI works on for a settled row without a signal on its way.
THEOREM NoneOrphaned == Spec => []NoOrphan
<1>1. IInv => NoOrphan
  BY DEF IInv, Local, Runs, NoOrphan
<1> QED BY <1>1, Invariance, PTL

\* The result file is the agent's full text exactly when the row gives no reason
\* why it stopped, and says so when another process stopped it.
THEOREM FilesFit == Spec => []ResultFits
<1>1. IInv => ResultFits
  BY DEF IInv, Local, Files, Fits, ResultFits
<1> QED BY <1>1, Invariance, PTL

-----------------------------------------------------------------------------
(* No report is forgotten *)

\* Whatever has been started is told, or somebody still works on it, or owes the
\* report, unless it was cancelled or its report was lost.
ReportInHand ==
    /\ \A a \in Solo : row[a] \in {"done", "failed"} => told[a] = 1 \/ note[a] \in {"owed", "lost"}
    /\ \A t \in Teams : loop[t] > 0 =>
           \/ told[t] = 1
           \/ \E a \in Team(t) : row[a] \in Active \cup {"canceled"}
                                 \/ note[a] \in {"owed", "wake", "lost"}

\* A team is told by the one who claimed it as done.
ClaimInHand ==
    \A t \in Teams : t \in done =>
        told[t] = 1 \/ \E a \in Team(t) : row[a] = "canceled" \/ note[a] \in {"wake", "lost"}

\* What a step does to an agent that leaves its report in hand: an active row
\* stays so, is cancelled, or somebody owes the report.
Onward(b) ==
    /\ row[b] = "canceled" => row'[b] = "canceled"
    /\ note[b] = "lost" => note'[b] = "lost"
    /\ row[b] \in Active => row'[b] \in Active \cup {"canceled"} \/ note'[b] \in {"owed", "lost"}
    /\ note[b] = "owed" => note'[b] \in {"owed", "lost"}
    /\ note[b] = "wake" => note'[b] \in {"wake", "lost"}
    /\ row'[b] \in {"done", "failed"} => row[b] \in Active \cup {"done", "failed"}

\* A team whose members go onward.
LEMMA TeamOnward ==
    ASSUME ReportInHand, ClaimInHand, NEW t \in Teams, \A b \in Team(t) : Onward(b),
           told'[t] = told[t], t \in done' => t \in done
    PROVE  /\ loop[t] > 0 => \/ told'[t] = 1
                             \/ \E a \in Team(t) : row'[a] \in Active \cup {"canceled"}
                                                   \/ note'[a] \in {"owed", "wake", "lost"}
           /\ t \in done' =>
                told'[t] = 1 \/ \E a \in Team(t) : row'[a] = "canceled" \/ note'[a] \in {"wake", "lost"}
<1>1. ASSUME loop[t] > 0, told[t] # 1
      PROVE  \E a \in Team(t) : row'[a] \in Active \cup {"canceled"}
                                \/ note'[a] \in {"owed", "wake", "lost"}
  <2>1. PICK a \in Team(t) : row[a] \in Active \cup {"canceled"} \/ note[a] \in {"owed", "wake", "lost"}
    BY <1>1 DEF ReportInHand
  <2> QED BY <2>1 DEF Onward
<1>2. ASSUME t \in done, told[t] # 1
      PROVE  \E a \in Team(t) : row'[a] = "canceled" \/ note'[a] \in {"wake", "lost"}
  <2>1. PICK a \in Team(t) : row[a] = "canceled" \/ note[a] \in {"wake", "lost"}
    BY <1>2 DEF ClaimInHand
  <2> QED BY <2>1 DEF Onward
<1> QED BY <1>1, <1>2

\* Agents that go onward.
LEMMA AllOnward ==
    ASSUME ReportInHand, ClaimInHand, \A b \in Agent : Onward(b), UNCHANGED <<told, loop, done>>
    PROVE  ReportInHand' /\ ClaimInHand'
<1>1. \A t \in Teams : \A b \in Team(t) : Onward(b)
  BY WorkFacts
<1>2. ASSUME NEW a \in Solo, row'[a] \in {"done", "failed"}
      PROVE  told'[a] = 1 \/ note'[a] \in {"owed", "lost"}
  <2>1. Onward(a)
    BY WorkFacts
  <2>2. CASE row[a] \in Active
    BY <1>2, <2>1, <2>2 DEF Onward, Active
  <2>3. CASE row[a] \in {"done", "failed"}
    BY <2>1, <2>3 DEF Onward, ReportInHand
  <2> QED BY <1>2, <2>1, <2>2, <2>3 DEF Onward
<1>3. ReportInHand'
  BY <1>1, <1>2, TeamOnward DEF ReportInHand
<1>4. ClaimInHand'
  BY <1>1, TeamOnward DEF ClaimInHand
<1> QED BY <1>3, <1>4

\* Who settles a row owes the report, or cancelled the agent.
LEMMA SettleOnward ==
    ASSUME IInv, NEW a \in Agent, NEW status \in Settled, NEW why, NEW signal, NEW who,
           Settle(a, status, why, signal, who)
    PROVE  \A b \in Agent : Onward(b)
<1>1. row[a] \in Active /\ note[a] = "none"
  BY DEF Settle, IInv, Local, Unsettled, Active, Settled
<1>2. row'[a] = status /\ note'[a] = IF status = "canceled" THEN "over" ELSE "owed"
  BY DEF Settle, IInv, TypeOK
<1>3. \A b \in Agent : b # a => row'[b] = row[b] /\ note'[b] = note[b]
  BY DEF Settle, IInv, TypeOK
<1>4. Onward(a)
  BY <1>1, <1>2 DEF Onward, Active
<1>5. \A b \in Agent : b # a => Onward(b)
  BY <1>3 DEF Onward
<1> QED BY <1>4, <1>5

\* Steps that settle nobody, or one agent, and do not touch the teams.
LEMMA MostOnward ==
    ASSUME IInv, NEW a \in Agent,
           \/ SpawnAgent(a) \/ ParentNotices(a) \/ CancelAgent(a) \/ Overdue(a) \/ Runner(a)
           \/ LaunchFollowOn(a) \/ Shutdown(a) \/ RunnerDies(a) \/ NotifyThrows(a)
    PROVE  (\A b \in Agent : Onward(b)) /\ UNCHANGED <<told, loop, done>>
<1> USE DEF team
<1>1. CASE SpawnAgent(a)
  BY <1>1 DEF SpawnAgent, IInv, TypeOK, Onward, report, Active
<1>2. CASE ParentNotices(a)
  BY <1>2, SettleOnward DEF ParentNotices, Settled
<1>3. CASE CancelAgent(a)
  BY <1>3, SettleOnward DEF CancelAgent, Settled
<1>4. CASE Overdue(a) \/ Shutdown(a)
  BY <1>4 DEF Overdue, Shutdown, Onward, report, table
<1>5. CASE Claim(a)
  BY <1>5 DEF Claim, IInv, TypeOK, Onward, report, Active
<1>6. CASE ExitSettle(a)
  BY <1>6, SettleOnward DEF ExitSettle, Settled
<1>7. CASE TermSettle(a)
  BY <1>7, SettleOnward DEF TermSettle, Settled
<1>8. CASE CliExit(a) \/ ExitSettled(a) \/ OnTerm(a) \/ RunnerExit(a)
  BY <1>8 DEF CliExit, ExitSettled, OnTerm, RunnerExit, Onward, report, table
<1>9. CASE LaunchFollowOn(a) \/ RunnerDies(a) \/ NotifyThrows(a)
  BY <1>9 DEF LaunchFollowOn, RunnerDies, NotifyThrows, Reporting, IInv, TypeOK, Onward, table
<1> QED BY <1>1, <1>2, <1>3, <1>4, <1>5, <1>6, <1>7, <1>8, <1>9 DEF Runner

\* The reaper settles whom it finds as it listed them; its death loses reports.
LEMMA ReaperOnward ==
    ASSUME IInv, ReapStart \/ ReapNext \/ DaemonDies
    PROVE  (\A b \in Agent : Onward(b)) /\ UNCHANGED <<told, loop, done>>
<1> USE DEF team
<1>1. CASE ReapStart
  BY <1>1 DEF ReapStart, Onward, table, report
<1>2. CASE ReapNext
  <2>1. PICK s \in reap : IF row[s.agent] = s.status
                          THEN Settle(s.agent, "failed", TRUE, TRUE, "daemon")
                          ELSE UNCHANGED <<table, killed, report>>
    BY <1>2 DEF ReapNext
  <2>2. s.agent \in Agent
    BY DEF IInv, TypeOK
  <2>3. CASE Settle(s.agent, "failed", TRUE, TRUE, "daemon")
    BY <1>2, <2>2, <2>3, SettleOnward DEF ReapNext, Settled
  <2>4. CASE UNCHANGED <<table, killed, report>>
    BY <1>2, <2>4 DEF ReapNext, Onward, table, report
  <2> QED BY <2>1, <2>3, <2>4
<1>3. CASE DaemonDies
  BY <1>3 DEF DaemonDies, Reporting, IInv, TypeOK, Onward, table
<1> QED BY <1>1, <1>2, <1>3

\* A new member is active.
LEMMA SpawnMemberOnward ==
    ASSUME IInv, ReportInHand, ClaimInHand, NEW t \in Teams, SpawnMember(t)
    PROVE  ReportInHand' /\ ClaimInHand'
<1> DEFINE a == Members[t][loop[t] + 1]
<1>1. loop[t] \in Nat /\ loop[t] + 1 \in 1..Len(Members[t])
  BY TeamAssumption DEF SpawnMember, IInv, TypeOK
<1>2. a \in Team(t) /\ a \in Agent /\ row[a] = "none"
  <2>1. a \in Team(t)
    BY <1>1, WorkFacts
  <2>2. row[a] = "none"
    BY <1>1 DEF IInv, Stages
  <2> QED BY <2>1, <2>2, WorkFacts
<1> HIDE DEF a
<1>3. /\ row' = [row EXCEPT ![a] = "pending"] /\ loop' = [loop EXCEPT ![t] = @ + 1]
      /\ UNCHANGED <<note, told, done>>
  BY DEF SpawnMember, a, report
<1>4. row'[a] = "pending" /\ \A b \in Agent : Onward(b)
  BY <1>2, <1>3 DEF IInv, TypeOK, Onward, Active
<1>5. \A u \in Teams : u # t => loop'[u] = loop[u]
  BY <1>3 DEF IInv, TypeOK
<1>6. \A u \in Teams : \A b \in Team(u) : Onward(b)
  BY <1>4, WorkFacts
<1>7. \A b \in Solo : row'[b] \in {"done", "failed"} => row'[b] = row[b]
  BY <1>2, <1>3, WorkFacts DEF IInv, TypeOK
<1>8. ReportInHand'
  BY <1>2, <1>3, <1>4, <1>5, <1>6, <1>7, TeamOnward DEF ReportInHand, Active
<1>9. ClaimInHand'
  BY <1>3, <1>6, TeamOnward DEF ClaimInHand
<1> QED BY <1>8, <1>9

\* What is told is not owed any more.
LEMMA ToldInHand ==
    ASSUME IInv, ReportInHand, ClaimInHand, NEW a \in Agent, NotifySolo(a) \/ WakeTeam(a)
    PROVE  ReportInHand' /\ ClaimInHand'
<1> DEFINE w == WorkOf(a)
<1>1. /\ note' = [note EXCEPT ![a] = "over"] /\ told' = [told EXCEPT ![w] = @ + 1]
      /\ UNCHANGED <<row, loop, done>>
  BY WorkFacts DEF NotifySolo, WakeTeam, table, team
<1>2. w \in Work /\ told[w] = 0 /\ (w \in Teams => a \in Team(w)) /\ (w \in Solo => w = a)
  <2>1. CASE a \in Solo
    <3>1. note[a] = "owed"
      BY <2>1 DEF NotifySolo, WakeTeam, IInv, Reports
    <3> QED BY <2>1, <3>1, WorkFacts DEF IInv, Reports, Work
  <2>2. CASE a \notin Solo
    <3>1. note[a] = "wake" /\ w \in Teams /\ a \in Team(w)
      BY <2>2, WorkFacts DEF NotifySolo, WakeTeam
    <3> QED BY <3>1, TeamAssumption DEF IInv, Reports, Work
  <2> QED BY <2>1, <2>2
<1> HIDE DEF w
<1>3. told'[w] = 1 /\ \A x \in Work : x # w => told'[x] = told[x]
  BY <1>1, <1>2 DEF IInv, TypeOK
<1>4. \A b \in Agent : b # a => note'[b] = note[b] /\ Onward(b)
  BY <1>1 DEF IInv, TypeOK, Onward
<1>5. ASSUME NEW t \in Teams, t # w
      PROVE  told'[t] = told[t] /\ \A b \in Team(t) : Onward(b)
  <2>1. \A b \in Team(t) : b \in Agent /\ b # a
    BY <1>5, WorkFacts DEF w
  <2> QED BY <1>3, <1>4, <1>5, <2>1 DEF Work
<1>6. \A b \in Solo : b # w => told'[b] = told[b] /\ note'[b] = note[b]
  BY <1>3, <1>4, WorkFacts DEF Work, w
<1>7. ReportInHand'
  BY <1>1, <1>3, <1>5, <1>6, TeamOnward DEF ReportInHand
<1>8. ClaimInHand'
  BY <1>1, <1>3, <1>5, TeamOnward DEF ClaimInHand
<1> QED BY <1>7, <1>8

\* Who decides for a team finds a member that works on, starts the last stage, or
\* claims the team, which nobody else has.
LEMMA DecideInHand ==
    ASSUME IInv, ReportInHand, ClaimInHand, NEW a \in Agent, DecideTeam(a)
    PROVE  ReportInHand' /\ ClaimInHand'
<1> USE DEF Active
<1> DEFINE t == WorkOf(a)
           f == FollowOn[t]
<1>1. note[a] = "owed" /\ a \notin Solo /\ t \in Teams /\ a \in Team(t)
  BY WorkFacts DEF DecideTeam
<1>2. PICK r : r = AfterStale(t)
  OBVIOUS
<1>3. \A b \in Agent : r[b] = IF b \in Team(t) /\ row[b] = "pending" /\ late[b] THEN "failed" ELSE row[b]
  BY <1>2 DEF AfterStale
<1>4. \/ ~FullySettled(t, r) /\ row' = r /\ note' = [note EXCEPT ![a] = "over"] /\ done' = done
      \/ /\ marker[t]
         /\ row' = [r EXCEPT ![f] = "pending"] /\ note' = [note EXCEPT ![a] = "launch"]
         /\ done' = done
      \/ /\ row' = r /\ done' = done \cup {t}
         /\ note' = [note EXCEPT ![a] = IF t \notin done THEN "wake" ELSE "over"]
  BY <1>2 DEF DecideTeam, ClaimTeamDone
<1>5. UNCHANGED <<told, loop>>
  BY DEF DecideTeam
<1>6. \A b \in Team(t) : b \in Agent
  BY <1>1, WorkFacts
<1>7. marker[t] => f \in Team(t) /\ f \in Agent /\ row[f] = "none" /\ r[f] = "none"
  BY <1>1, <1>3, WorkFacts DEF IInv, Stages
<1>8. \A b \in Agent : b \notin Team(t) => b # a /\ r[b] = row[b]
  BY <1>1, <1>3
<1>9. row[a] \in Settled
  BY <1>1 DEF IInv, TypeOK, Local, Unsettled
<1>10. r = [b \in Agent |-> r[b]] /\ DOMAIN r = Agent
  BY <1>2 DEF AfterStale
<1> HIDE DEF t, f
<1>11. \A b \in Agent : b # a => note'[b] = note[b]
  BY <1>4 DEF IInv, TypeOK
<1>12. \A b \in Agent : row'[b] = r[b] \/ (marker[t] /\ b = f /\ row'[b] = "pending")
  BY <1>4, <1>10
<1>13. \A b \in Agent : b \notin Team(t) => row'[b] = row[b] /\ note'[b] = note[b] /\ Onward(b)
  BY <1>7, <1>8, <1>11, <1>12 DEF Onward
<1>14. \A b \in Team(t) : row[b] = "canceled" => row'[b] = "canceled"
  BY <1>3, <1>6, <1>7, <1>12
<1>15. \A b \in Team(t) : note[b] \in {"wake", "lost"} => note'[b] = note[b]
  BY <1>1, <1>6, <1>11
<1>16. ASSUME NEW u \in Teams, u # t
       PROVE  (\A b \in Team(u) : Onward(b)) /\ told'[u] = told[u] /\ (u \in done' => u \in done)
  <2>1. \A b \in Team(u) : b \in Agent /\ b \notin Team(t)
    BY <1>1, <1>16, WorkFacts
  <2> QED BY <1>4, <1>5, <1>13, <1>16, <2>1
<1>17. t \in done' =>
         told'[t] = 1 \/ \E b \in Team(t) : row'[b] = "canceled" \/ note'[b] \in {"wake", "lost"}
  <2>1. CASE t \in done
    BY <1>1, <1>5, <1>14, <1>15, <2>1 DEF ClaimInHand
  <2>2. CASE t \notin done /\ t \in done'
    <3>1. note'[a] = "wake"
      BY <1>4, <2>2 DEF IInv, TypeOK
    <3> QED BY <1>1, <3>1
  <2> QED BY <2>1, <2>2
<1>18. \/ told'[t] = 1
       \/ \E b \in Team(t) : row'[b] \in Active \cup {"canceled"}
                             \/ note'[b] \in {"owed", "wake", "lost"}
  <2>1. CASE ~FullySettled(t, r) /\ row' = r
    <3>1. CASE row[a] = "canceled"
      BY <1>1, <1>14, <3>1
    <3>2. CASE row[a] # "canceled"
      <4>1. r[a] \in {"done", "failed"}
        BY <1>3, <1>9, <3>2 DEF Settled
      <4>2. PICK b \in Team(t) : r[b] \notin {"none", "canceled", "done", "failed"}
        BY <1>1, <2>1, <4>1 DEF FullySettled
      <4>3. r[b] \in Active
        BY <1>3, <1>6, <4>2 DEF IInv, TypeOK, Settled
      <4> QED BY <2>1, <4>3
    <3> QED BY <3>1, <3>2
  <2>2. CASE marker[t] /\ row' = [r EXCEPT ![f] = "pending"]
    <3>1. row'[f] = "pending" /\ f \in Team(t)
      BY <1>7, <1>10, <2>2
    <3> QED BY <3>1
  <2>3. CASE done' = done \cup {t}
    BY <1>17, <2>3
  <2> QED BY <1>4, <2>1, <2>2, <2>3
<1>19. \A b \in Solo : row'[b] = row[b] /\ note'[b] = note[b]
  BY <1>1, <1>13, WorkFacts
<1>20. ReportInHand'
  BY <1>5, <1>16, <1>18, <1>19, TeamOnward DEF ReportInHand
<1>21. ClaimInHand'
  BY <1>16, <1>17, TeamOnward DEF ClaimInHand
<1> QED BY <1>20, <1>21

\* No piece of work is forgotten: what was started and not cancelled is told, is
\* worked on, or has somebody who owes the report, unless that report was lost.
\* What is left to time and fairness is that they go on (EveryoneReported).
THEOREM NoneForgotten == Spec => []ReportInHand
<1>1. Init => ReportInHand /\ ClaimInHand
  BY DEF Init, ReportInHand, ClaimInHand, Agent
<1>2. IInv /\ ReportInHand /\ ClaimInHand /\ [Next]_vars => ReportInHand' /\ ClaimInHand'
  <2> SUFFICES ASSUME IInv, ReportInHand, ClaimInHand, [Next]_vars
               PROVE  ReportInHand' /\ ClaimInHand'
    OBVIOUS
  <2>1. CASE UNCHANGED vars
    BY <2>1 DEF vars, ReportInHand, ClaimInHand
  <2>2. CASE \E t \in Teams : SpawnMember(t)
    BY <2>2, SpawnMemberOnward
  <2>3. CASE ReapStart \/ ReapNext \/ DaemonDies
    BY <2>3, ReaperOnward, AllOnward
  <2>4. ASSUME NEW a \in Agent,
               \/ SpawnAgent(a) \/ ParentNotices(a) \/ CancelAgent(a)
               \/ Overdue(a) \/ Runner(a) \/ Notify(a)
               \/ Shutdown(a) \/ RunnerDies(a) \/ NotifyThrows(a)
        PROVE  ReportInHand' /\ ClaimInHand'
    <3>1. CASE NotifySolo(a) \/ WakeTeam(a)
      BY <3>1, ToldInHand
    <3>2. CASE DecideTeam(a)
      BY <3>2, DecideInHand
    <3>3. CASE ~(NotifySolo(a) \/ WakeTeam(a) \/ DecideTeam(a))
      BY <2>4, <3>3, MostOnward, AllOnward DEF Notify
    <3> QED BY <3>1, <3>2, <3>3
  <2> QED BY <2>1, <2>2, <2>3, <2>4 DEF Next
<1> QED BY <1>1, <1>2, Invariance, PTL DEF Spec
=============================================================================
