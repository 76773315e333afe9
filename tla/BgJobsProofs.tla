---------------------------- MODULE BgJobsProofs ----------------------------
(***************************************************************************)
(* Safety of BgJobs for any number of jobs and faults.                     *)
(*                                                                         *)
(* The three invariants are about what the session was told, and tellers   *)
(* are on their way for many steps.  Agreed says what they carry as long   *)
(* as the reaper overruled nobody; Paid counts what may still be told.     *)
(***************************************************************************)
EXTENDS BgJobs, TLAPS

\* A teller stamps after it told; the runner tells while it is telling, and the
\* parent when the runner is dead.
Order(j) ==
    /\ \A p \in Tellers : step[j][p] = "mark" => told[j] # <<>>
    /\ stamped[j] => told[j] # <<>> \/ missed[j]
    /\ row[j] \in Ends /\ age[j] = "old" => told[j] # <<>> \/ missed[j]
    /\ runner[j] = "telling" <=> step[j]["runner"] # "none"
    /\ step[j]["parent"] # "none" => runner[j] = "dead"
    /\ row[j] = "none" <=> runner[j] = "none"
    /\ step[j]["daemon"] # "none" \/ late[j] \/ (\E l \in reap : l.job = j) => row[j] # "none"
    /\ step[j]["parent"] \in {"create", "mark"} => row[j] \in Ends

\* The chain of the job: its runner, or the parent after it, has yet to tell.
Alive(j) ==
    \/ runner[j] \in {"none", "starting", "executing"}
    \/ step[j]["runner"] \in {"finish", "create"}
    \/ runner[j] = "dead" /\ (Unfinished(j) \/ step[j]["parent"] \in {"finish", "create"})

Missing(j) == \E l \in reap : l.job = j /\ l.why = "missing"

\* While the reaper has not overruled anybody: who finishes the row is alone,
\* the row is finished once, and everything told or to be told agrees with it.
Agreed(j) ==
    reaped[j] = 0 =>
        /\ row[j] \in Ends => /\ runner[j] \in {"telling", "gone", "dead"}
                              /\ step[j]["runner"] # "finish" /\ step[j]["parent"] # "finish"
                              /\ \A i \in DOMAIN told[j] : told[j][i] = row[j]
        /\ row[j] \notin Ends => /\ \A i \in DOMAIN told[j] : told[j][i] = "failed"
                                 /\ step[j]["daemon"] \in {"none", "finish"}
        /\ runner[j] \in {"none", "starting", "executing"} \/ step[j]["runner"] = "finish"
               => told[j] = <<>>
        /\ step[j]["parent"] = "finish" => says[j]["parent"] = "failed"
        /\ \A p \in Tellers : step[j][p] = "create" =>
               IF row[j] \in Ends THEN says[j][p] = row[j]
                                  ELSE p = "runner" /\ says[j][p] = "failed"
        /\ \A l \in reap : l.job = j /\ l.why = "missing" => row[j] \in Ends /\ l.status = row[j]
        /\ row[j] \in Ends /\ age[j] = "due" =>
               step[j]["runner"] = "none" /\ step[j]["parent"] = "none"

\* Every telling is paid for: the first, those of the reaper, and those cut off.
Chain(j)  == IF Alive(j) THEN 1 ELSE 0
Owed(j)   == IF step[j]["daemon"] = "create" THEN 1 ELSE 0
Listed(j) == IF Missing(j) THEN 1 ELSE 0
Paid(j)   == Len(told[j]) + Chain(j) + Owed(j) + Listed(j) <= 1 + reaped[j] + cut[j]

One(b) == IF b THEN 1 ELSE 0

\* Without a stamp, what was told was cut off, or its teller is about to stamp.
Bare(j) == ~stamped[j] => Len(told[j]) <= cut[j] + One(step[j]["runner"] = "mark")
                                                 + One(step[j]["parent"] = "mark")
                                                 + One(step[j]["daemon"] = "mark")

\* The reaper comes to a job it lists before it tells of it.
Ahead(j) == Missing(j) => step[j]["daemon"] = "none"

\* The reaper lists a job once.
Once == \A l, m \in reap : l.job = m.job => l = m

IInv == TypeOK /\ Once /\ \A j \in Job : Order(j) /\ Agreed(j) /\ Ahead(j) /\ Bare(j) /\ Paid(j)

-----------------------------------------------------------------------------

\* Every step keeps the types of the variables.
LEMMA TypeStep == TypeOK /\ [Next]_vars => TypeOK'
  <1> SUFFICES ASSUME TypeOK, [Next]_vars
               PROVE  TypeOK'
    OBVIOUS
  <1> USE FaultsAssumption DEF TypeOK, Ends, table, telling, history
  <1>1. CASE ReapStart
    BY <1>1 DEF ReapStart, DaemonFree, Waiting
  <1>2. CASE ReapNext
    <2>1. PICK l \in reap : /\ reap' = reap \ {l}
                            /\ Tell(l.job, "daemon", IF l.why = "stuck" THEN "finish" ELSE "create", l.status)
      BY <1>2 DEF ReapNext
    <2>2. l.job \in Job /\ l.status \in Ends /\ "daemon" \in Tellers
      BY DEF Tellers
    <2> QED
      BY <1>2, <2>1, <2>2 DEF ReapNext, Tell
  <1>3. CASE LongGap
    BY <1>3 DEF LongGap
  <1>4. CASE Restart
    <2>1. step' \in [Job -> [Tellers -> {"none", "finish", "create", "mark"}]]
      BY <1>4 DEF Restart
    <2>2. says' \in [Job -> [Tellers -> Ends]]
      BY <1>4 DEF Restart
    <2>3. stamped' \in [Job -> BOOLEAN] /\ cut' \in [Job -> Nat] /\ reap' = {} /\ faults' \in 0..MaxFaults
      BY <1>4 DEF Restart
    <2> QED
      BY <1>4, <2>1, <2>2, <2>3 DEF Restart
  <1>5. ASSUME NEW j \in Job, SpawnBgJob(j) PROVE TypeOK'
    BY <1>5 DEF SpawnBgJob, Tellers
  <1>6. ASSUME NEW j \in Job, SetRunning(j) PROVE TypeOK'
    BY <1>6 DEF SetRunning, Tellers
  <1>7. ASSUME NEW j \in Job, Executed(j) PROVE TypeOK'
    BY <1>7 DEF Executed, Tell, Tellers
  <1>8. ASSUME NEW j \in Job, ParentSees(j) PROVE TypeOK'
    BY <1>8 DEF ParentSees, Tell, Unfinished, Tellers
  <1>9. ASSUME NEW j \in Job, Overdue(j) PROVE TypeOK'
    BY <1>9 DEF Overdue, Unfinished, Tellers
  <1>10. ASSUME NEW j \in Job, Due(j) PROVE TypeOK'
    BY <1>10 DEF Due, Tellers
  <1>11. ASSUME NEW j \in Job, RunnerDies(j) PROVE TypeOK'
    BY <1>11 DEF RunnerDies, Stops, Tell, Tellers
  <1>12. ASSUME NEW j \in Job, FinishThrows(j) PROVE TypeOK'
    BY <1>12 DEF FinishThrows, Tell, Tellers
  <1>13. ASSUME NEW j \in Job, NEW p \in Tellers, Finish(j, p) PROVE TypeOK'
    BY <1>13 DEF Finish
  <1>14. ASSUME NEW j \in Job, NEW p \in Tellers, QueueWake(j, p) PROVE TypeOK'
    BY <1>14 DEF QueueWake
  <1>15. ASSUME NEW j \in Job, NEW p \in Tellers, Mark(j, p) PROVE TypeOK'
    BY <1>15 DEF Mark, Tell
  <1>16. ASSUME NEW j \in Job, NEW p \in Tellers, Throws(j, p) PROVE TypeOK'
    BY <1>16 DEF Throws, Stops, Tell
  <1>17. CASE UNCHANGED vars
    BY <1>17 DEF vars
  <1> QED
    BY <1>1, <1>2, <1>3, <1>4, <1>5, <1>6, <1>7, <1>8, <1>9, <1>10, <1>11, <1>12,
       <1>13, <1>14, <1>15, <1>16, <1>17
       DEF Next

\* Who was told heard something.
LEMMA ToldSome ==
    ASSUME NEW s \in Seq({"done", "failed"}), NEW x \in {"done", "failed"}
    PROVE  Append(s, x) # <<>>
  OBVIOUS

\* The order of settling, telling and stamping.
LEMMA OrderStep == IInv /\ [Next]_vars => \A j \in Job : Order(j)'
  <1> SUFFICES ASSUME IInv, [Next]_vars, NEW j \in Job
               PROVE  Order(j)'
    BY DEF IInv
  <1>0. TypeOK /\ Once /\ Order(j)
    BY DEF IInv
  <1> USE <1>0 DEF TypeOK, Ends, Tellers, table, telling, history, Order
  <1>1. CASE ReapStart
    <2>1. UNCHANGED <<row, stamped, age, late, runner, step, told, missed>>
      BY <1>1 DEF ReapStart
    <2>2. \A l \in reap' : late[l.job] \/ Waiting(l.job)
      BY <1>1 DEF ReapStart
    <2>3. \A l \in reap' : l.job = j => row[j] # "none"
      BY <2>2 DEF Waiting
    <2> QED
      BY <2>1, <2>3
  <1>2. CASE ReapNext
    BY <1>2 DEF ReapNext, DaemonFree, Tell
  <1>3. CASE LongGap
    BY <1>3 DEF LongGap
  <1>4. CASE Restart
    BY <1>4 DEF Restart
  <1>5. ASSUME NEW k \in Job, SpawnBgJob(k) PROVE Order(j)'
    <2>1. CASE j # k
      BY <1>5, <2>1 DEF SpawnBgJob
    <2>2. CASE j = k
      BY <1>5, <2>2 DEF SpawnBgJob
    <2> QED
      BY <2>1, <2>2
  <1>6. ASSUME NEW k \in Job, SetRunning(k) PROVE Order(j)'
    <2>1. CASE j # k
      BY <1>6, <2>1 DEF SetRunning
    <2>2. CASE j = k
      BY <1>6, <2>2 DEF SetRunning
    <2> QED
      BY <2>1, <2>2
  <1>7. ASSUME NEW k \in Job, Executed(k) PROVE Order(j)'
    <2>1. CASE j # k
      BY <1>7, <2>1 DEF Executed, Tell
    <2>2. CASE j = k
      BY <1>7, <2>2 DEF Executed, Tell
    <2> QED
      BY <2>1, <2>2
  <1>8. ASSUME NEW k \in Job, ParentSees(k) PROVE Order(j)'
    <2>1. CASE j # k
      BY <1>8, <2>1 DEF ParentSees, Tell, Unfinished
    <2>2. CASE j = k
      BY <1>8, <2>2 DEF ParentSees, Tell, Unfinished
    <2> QED
      BY <2>1, <2>2
  <1>9. ASSUME NEW k \in Job, Overdue(k) PROVE Order(j)'
    <2>1. CASE j # k
      BY <1>9, <2>1 DEF Overdue, Unfinished
    <2>2. CASE j = k
      BY <1>9, <2>2 DEF Overdue, Unfinished
    <2> QED
      BY <2>1, <2>2
  <1>10. ASSUME NEW k \in Job, Due(k) PROVE Order(j)'
    <2>1. CASE j # k
      BY <1>10, <2>1 DEF Due
    <2>2. CASE j = k
      BY <1>10, <2>2 DEF Due
    <2> QED
      BY <2>1, <2>2
  <1>11. ASSUME NEW k \in Job, RunnerDies(k) PROVE Order(j)'
    <2>1. CASE j # k
      BY <1>11, <2>1 DEF RunnerDies, Stops, Tell
    <2>2. CASE j = k
      BY <1>11, <2>2 DEF RunnerDies, Stops, Tell
    <2> QED
      BY <2>1, <2>2
  <1>12. ASSUME NEW k \in Job, FinishThrows(k) PROVE Order(j)'
    <2>1. CASE j # k
      BY <1>12, <2>1 DEF FinishThrows, Tell
    <2>2. CASE j = k
      BY <1>12, <2>2 DEF FinishThrows, Tell
    <2> QED
      BY <2>1, <2>2
  <1>13. ASSUME NEW k \in Job, NEW p \in Tellers, Finish(k, p) PROVE Order(j)'
    <2>1. CASE j # k
      BY <1>13, <2>1 DEF Finish
    <2>2. CASE j = k
      <3>1. CASE p = "runner"
        <4>1. row'[j] = says[j][p] /\ row'[j] \in {"done", "failed"} /\ age'[j] = "new" /\ says' = says /\ told' = told /\ runner' = runner /\ reap' = reap
          BY <1>13, <2>2 DEF Finish
        <4>2. step'[j][p] = "create" /\ \A q \in Tellers \ {p} : step'[j][q] = step[j][q]
          BY <1>13, <2>2 DEF Finish
        <4>3. step[j][p] = "finish" /\ late'[j] = FALSE /\ stamped' = stamped /\ missed' = missed
          BY <1>13, <2>2 DEF Finish
        <4> QED
          BY <3>1, <4>1, <4>2, <4>3
      <3>2. CASE p = "parent"
        <4>1. row'[j] = says[j][p] /\ row'[j] \in {"done", "failed"} /\ age'[j] = "new" /\ says' = says /\ told' = told /\ runner' = runner /\ reap' = reap
          BY <1>13, <2>2 DEF Finish
        <4>2. step'[j][p] = "create" /\ \A q \in Tellers \ {p} : step'[j][q] = step[j][q]
          BY <1>13, <2>2 DEF Finish
        <4>3. step[j][p] = "finish" /\ late'[j] = FALSE /\ stamped' = stamped /\ missed' = missed
          BY <1>13, <2>2 DEF Finish
        <4> QED
          BY <3>2, <4>1, <4>2, <4>3
      <3>3. CASE p = "daemon"
        <4>1. row'[j] = says[j][p] /\ row'[j] \in {"done", "failed"} /\ age'[j] = "new" /\ says' = says /\ told' = told /\ runner' = runner /\ reap' = reap
          BY <1>13, <2>2 DEF Finish
        <4>2. step'[j][p] = "create" /\ \A q \in Tellers \ {p} : step'[j][q] = step[j][q]
          BY <1>13, <2>2 DEF Finish
        <4>3. step[j][p] = "finish" /\ late'[j] = FALSE /\ stamped' = stamped /\ missed' = missed
          BY <1>13, <2>2 DEF Finish
        <4>4. step'[j]["parent"] = step[j]["parent"] /\ step'[j]["runner"] = step[j]["runner"]
          BY <3>3, <4>2
        <4>5. \A q \in Tellers : step'[j][q] = "mark" => step[j][q] = "mark"
          BY <4>2
        <4> QED
          BY <3>3, <4>1, <4>2, <4>3, <4>4, <4>5
      <3> QED
        BY <3>1, <3>2, <3>3
    <2> QED
      BY <2>1, <2>2
  <1>14. ASSUME NEW k \in Job, NEW p \in Tellers, QueueWake(k, p) PROVE Order(j)'
    <2>1. CASE j # k
      BY <1>14, <2>1 DEF QueueWake
    <2>2. CASE j = k
      <3>1. CASE p = "runner"
        BY <1>14, <2>2, <3>1 DEF QueueWake
      <3>2. CASE p = "parent"
        BY <1>14, <2>2, <3>2 DEF QueueWake
      <3>3. CASE p = "daemon"
        <4>1. UNCHANGED <<row, stamped, age, late, runner, missed, reap>> /\ told'[j] # <<>>
          <5>1. UNCHANGED <<row, stamped, age, late, runner, missed, reap>>
            BY <1>14 DEF QueueWake
          <5>2. told'[j] = Append(told[j], says[j]["daemon"])
            BY <1>14, <2>2, <3>3 DEF QueueWake
          <5>3. told[j] \in Seq({"done", "failed"}) /\ says[j]["daemon"] \in {"done", "failed"}
            OBVIOUS
          <5>4. Append(told[j], says[j]["daemon"]) # <<>>
            BY <5>3, ToldSome
          <5> QED
            BY <5>1, <5>2, <5>4
        <4>2. step[j]["daemon"] = "create" /\ \A q \in Tellers \ {"daemon"} : step'[j][q] = step[j][q]
          BY <1>14, <2>2, <3>3 DEF QueueWake
        <4>3. step'[j]["runner"] = step[j]["runner"] /\ step'[j]["parent"] = step[j]["parent"]
          BY <4>2
        <4> QED
          BY <4>1, <4>2, <4>3
      <3> QED
        BY <3>1, <3>2, <3>3
    <2> QED
      BY <2>1, <2>2
  <1>15. ASSUME NEW k \in Job, NEW p \in Tellers, Mark(k, p) PROVE Order(j)'
    <2>1. CASE j # k
      BY <1>15, <2>1 DEF Mark, Tell
    <2>2. CASE j = k
      <3>1. CASE p = "runner"
        BY <1>15, <2>2, <3>1 DEF Mark, Tell
      <3>2. CASE p = "parent"
        BY <1>15, <2>2, <3>2 DEF Mark, Tell
      <3>3. CASE p = "daemon"
        BY <1>15, <2>2, <3>3 DEF Mark, Tell
      <3> QED
        BY <3>1, <3>2, <3>3
    <2> QED
      BY <2>1, <2>2
  <1>16. ASSUME NEW k \in Job, NEW p \in Tellers, Throws(k, p) PROVE Order(j)'
    <2>1. CASE j # k
      BY <1>16, <2>1 DEF Throws, Stops, Tell
    <2>2. CASE j = k
      <3>1. CASE p = "runner"
        BY <1>16, <2>2, <3>1 DEF Throws, Stops, Tell
      <3>2. CASE p = "parent"
        BY <1>16, <2>2, <3>2 DEF Throws, Stops, Tell
      <3>3. CASE p = "daemon"
        BY <1>16, <2>2, <3>3 DEF Throws, Stops, Tell
      <3> QED
        BY <3>1, <3>2, <3>3
    <2> QED
      BY <2>1, <2>2
  <1>17. CASE UNCHANGED vars
    BY <1>17 DEF vars
  <1> QED
    BY <1>1, <1>2, <1>3, <1>4, <1>5, <1>6, <1>7, <1>8, <1>9, <1>10, <1>11, <1>12,
       <1>13, <1>14, <1>15, <1>16, <1>17
       DEF Next

\* Nobody settles or tells anything else while the reaper overruled nobody.
LEMMA AgreedStep == IInv /\ [Next]_vars => \A j \in Job : Agreed(j)'
  <1> SUFFICES ASSUME IInv, [Next]_vars, NEW j \in Job
               PROVE  Agreed(j)'
    BY DEF IInv
  <1>0. TypeOK /\ Once /\ Order(j) /\ Agreed(j)
    BY DEF IInv
  <1> USE <1>0 DEF TypeOK, Ends, Tellers, table, telling, history, Order, Agreed
  <1>1. CASE ReapStart
    BY <1>1 DEF ReapStart, DaemonFree, Waiting
  <1>2. CASE ReapNext
    BY <1>2 DEF ReapNext, DaemonFree, Tell
  <1>3. CASE LongGap
    BY <1>3 DEF LongGap
  <1>4. CASE Restart
    BY <1>4 DEF Restart
  <1>5. ASSUME NEW k \in Job, SpawnBgJob(k) PROVE Agreed(j)'
    <2>1. CASE j # k
      BY <1>5, <2>1 DEF SpawnBgJob
    <2>2. CASE j = k
      BY <1>5, <2>2 DEF SpawnBgJob
    <2> QED
      BY <2>1, <2>2
  <1>6. ASSUME NEW k \in Job, SetRunning(k) PROVE Agreed(j)'
    <2>1. CASE j # k
      BY <1>6, <2>1 DEF SetRunning
    <2>2. CASE j = k
      BY <1>6, <2>2 DEF SetRunning
    <2> QED
      BY <2>1, <2>2
  <1>7. ASSUME NEW k \in Job, Executed(k) PROVE Agreed(j)'
    <2>1. CASE j # k
      BY <1>7, <2>1 DEF Executed, Tell
    <2>2. CASE j = k
      BY <1>7, <2>2 DEF Executed, Tell
    <2> QED
      BY <2>1, <2>2
  <1>8. ASSUME NEW k \in Job, ParentSees(k) PROVE Agreed(j)'
    <2>1. CASE j # k
      BY <1>8, <2>1 DEF ParentSees, Tell, Unfinished
    <2>2. CASE j = k
      BY <1>8, <2>2 DEF ParentSees, Tell, Unfinished
    <2> QED
      BY <2>1, <2>2
  <1>9. ASSUME NEW k \in Job, Overdue(k) PROVE Agreed(j)'
    <2>1. CASE j # k
      BY <1>9, <2>1 DEF Overdue, Unfinished
    <2>2. CASE j = k
      BY <1>9, <2>2 DEF Overdue, Unfinished
    <2> QED
      BY <2>1, <2>2
  <1>10. ASSUME NEW k \in Job, Due(k) PROVE Agreed(j)'
    <2>1. CASE j # k
      BY <1>10, <2>1 DEF Due
    <2>2. CASE j = k
      BY <1>10, <2>2 DEF Due
    <2> QED
      BY <2>1, <2>2
  <1>11. ASSUME NEW k \in Job, RunnerDies(k) PROVE Agreed(j)'
    <2>1. CASE j # k
      BY <1>11, <2>1 DEF RunnerDies, Stops, Tell
    <2>2. CASE j = k
      BY <1>11, <2>2 DEF RunnerDies, Stops, Tell
    <2> QED
      BY <2>1, <2>2
  <1>12. ASSUME NEW k \in Job, FinishThrows(k) PROVE Agreed(j)'
    <2>1. CASE j # k
      BY <1>12, <2>1 DEF FinishThrows, Tell
    <2>2. CASE j = k
      BY <1>12, <2>2 DEF FinishThrows, Tell
    <2> QED
      BY <2>1, <2>2
  <1>13. ASSUME NEW k \in Job, NEW p \in Tellers, Finish(k, p) PROVE Agreed(j)'
    <2>1. CASE j # k
      BY <1>13, <2>1 DEF Finish
    <2>2. CASE j = k
      <3>1. CASE p = "runner"
        <4>1. row'[j] = says[j][p] /\ row'[j] \in {"done", "failed"} /\ age'[j] = "new" /\ says' = says /\ told' = told /\ runner' = runner /\ reap' = reap
          BY <1>13, <2>2 DEF Finish
        <4>2. step'[j][p] = "create" /\ \A q \in Tellers \ {p} : step'[j][q] = step[j][q]
          BY <1>13, <2>2 DEF Finish
        <4>3. reaped'[j] = reaped[j] /\ step[j][p] = "finish"
          BY <1>13, <2>2, <3>1 DEF Finish
        <4>4. runner[j] = "telling" /\ step[j]["parent"] = "none"
          BY <3>1, <4>3
        <4>5. CASE reaped[j] = 0
          <5>1. told[j] = <<>> /\ row[j] \notin {"done", "failed"}
            BY <3>1, <4>3, <4>5
          <5>2. step'[j]["daemon"] \in {"none", "finish"} /\ step'[j]["parent"] = "none"
            BY <3>1, <4>2, <4>4, <4>5, <5>1
          <5>3. \A l \in reap : ~(l.job = j /\ l.why = "missing")
            BY <4>5, <5>1
          <5> QED
            BY <3>1, <4>1, <4>2, <4>3, <4>4, <5>1, <5>2, <5>3
        <4>6. CASE reaped[j] # 0
          BY <4>3, <4>6
        <4> QED
          BY <4>5, <4>6
      <3>2. CASE p = "parent"
        <4>1. row'[j] = says[j][p] /\ row'[j] \in {"done", "failed"} /\ age'[j] = "new" /\ says' = says /\ told' = told /\ runner' = runner /\ reap' = reap
          BY <1>13, <2>2 DEF Finish
        <4>2. step'[j][p] = "create" /\ \A q \in Tellers \ {p} : step'[j][q] = step[j][q]
          BY <1>13, <2>2 DEF Finish
        <4>3. reaped'[j] = reaped[j] /\ step[j][p] = "finish"
          BY <1>13, <2>2, <3>2 DEF Finish
        <4>4. runner[j] = "dead" /\ step[j]["runner"] = "none"
          BY <3>2, <4>3
        <4>5. CASE reaped[j] = 0
          <5>1. says[j][p] = "failed" /\ row[j] \notin {"done", "failed"}
            BY <3>2, <4>3, <4>5
          <5>2. \A i \in DOMAIN told[j] : told[j][i] = "failed"
            BY <4>5, <5>1
          <5>3. step'[j]["daemon"] \in {"none", "finish"} /\ step'[j]["runner"] = "none"
            BY <3>2, <4>2, <4>4, <4>5, <5>1
          <5>4. \A l \in reap : ~(l.job = j /\ l.why = "missing")
            BY <4>5, <5>1
          <5> QED
            BY <3>2, <4>1, <4>2, <4>3, <4>4, <5>1, <5>2, <5>3, <5>4
        <4>6. CASE reaped[j] # 0
          BY <4>3, <4>6
        <4> QED
          BY <4>5, <4>6
      <3>3. CASE p = "daemon"
        <4>1. reaped'[j] = reaped[j] + 1 /\ reaped[j] \in Nat
          BY <1>13, <2>2, <3>3 DEF Finish
        <4>2. reaped'[j] # 0
          BY <4>1
        <4> QED
          BY <4>2
      <3> QED
        BY <3>1, <3>2, <3>3
    <2> QED
      BY <2>1, <2>2
  <1>14. ASSUME NEW k \in Job, NEW p \in Tellers, QueueWake(k, p) PROVE Agreed(j)'
    <2>1. CASE j # k
      BY <1>14, <2>1 DEF QueueWake
    <2>2. CASE j = k
      <3>1. CASE p = "runner"
        BY <1>14, <2>2, <3>1 DEF QueueWake
      <3>2. CASE p = "parent"
        BY <1>14, <2>2, <3>2 DEF QueueWake
      <3>3. CASE p = "daemon"
        BY <1>14, <2>2, <3>3 DEF QueueWake
      <3> QED
        BY <3>1, <3>2, <3>3
    <2> QED
      BY <2>1, <2>2
  <1>15. ASSUME NEW k \in Job, NEW p \in Tellers, Mark(k, p) PROVE Agreed(j)'
    <2>1. CASE j # k
      BY <1>15, <2>1 DEF Mark, Tell
    <2>2. CASE j = k
      <3>1. CASE p = "runner"
        BY <1>15, <2>2, <3>1 DEF Mark, Tell
      <3>2. CASE p = "parent"
        BY <1>15, <2>2, <3>2 DEF Mark, Tell
      <3>3. CASE p = "daemon"
        BY <1>15, <2>2, <3>3 DEF Mark, Tell
      <3> QED
        BY <3>1, <3>2, <3>3
    <2> QED
      BY <2>1, <2>2
  <1>16. ASSUME NEW k \in Job, NEW p \in Tellers, Throws(k, p) PROVE Agreed(j)'
    <2>1. CASE j # k
      BY <1>16, <2>1 DEF Throws, Stops, Tell
    <2>2. CASE j = k
      <3>1. CASE p = "runner"
        BY <1>16, <2>2, <3>1 DEF Throws, Stops, Tell
      <3>2. CASE p = "parent"
        BY <1>16, <2>2, <3>2 DEF Throws, Stops, Tell
      <3>3. CASE p = "daemon"
        BY <1>16, <2>2, <3>3 DEF Throws, Stops, Tell
      <3> QED
        BY <3>1, <3>2, <3>3
    <2> QED
      BY <2>1, <2>2
  <1>17. CASE UNCHANGED vars
    BY <1>17 DEF vars
  <1> QED
    BY <1>1, <1>2, <1>3, <1>4, <1>5, <1>6, <1>7, <1>8, <1>9, <1>10, <1>11, <1>12,
       <1>13, <1>14, <1>15, <1>16, <1>17
       DEF Next

\* A list of the reaper names a job once.
LEMMA OnceStep == TypeOK /\ Once /\ [Next]_vars => Once'
  <1> SUFFICES ASSUME TypeOK, Once, [Next]_vars
               PROVE  Once'
    OBVIOUS
  <1>1. CASE ReapStart
    BY <1>1 DEF ReapStart, Once
  <1>2. CASE ReapNext
    BY <1>2 DEF ReapNext, Once
  <1>3. CASE LongGap \/ Restart
    BY <1>3 DEF LongGap, Restart, Once
  <1>4. CASE reap' = reap
    BY <1>4 DEF Once
  <1> QED
    BY <1>1, <1>2, <1>3, <1>4
       DEF Next, SpawnBgJob, SetRunning, Executed, ParentSees, Overdue, Due, RunnerDies,
           FinishThrows, Finish, QueueWake, Mark, Throws, vars

\* A listed job is not told of yet.
LEMMA AheadStep == IInv /\ [Next]_vars => \A j \in Job : Ahead(j)'
  <1> SUFFICES ASSUME IInv, [Next]_vars, NEW j \in Job
               PROVE  Ahead(j)'
    BY DEF IInv
  <1>0. TypeOK /\ Once /\ Order(j) /\ Ahead(j)
    BY DEF IInv
  <1> USE <1>0 DEF TypeOK, Ends, Tellers, table, telling, history, Ahead, Missing, Once
  <1>1. CASE ReapStart
    BY <1>1 DEF ReapStart, DaemonFree, Waiting
  <1>2. CASE ReapNext
    BY <1>2 DEF ReapNext, DaemonFree, Tell
  <1>3. CASE LongGap
    BY <1>3 DEF LongGap
  <1>4. CASE Restart
    BY <1>4 DEF Restart
  <1>5. ASSUME NEW k \in Job, SpawnBgJob(k) PROVE Ahead(j)'
    <2>1. CASE j # k
      BY <1>5, <2>1 DEF SpawnBgJob
    <2>2. CASE j = k
      BY <1>5, <2>2 DEF SpawnBgJob
    <2> QED
      BY <2>1, <2>2
  <1>6. ASSUME NEW k \in Job, SetRunning(k) PROVE Ahead(j)'
    <2>1. CASE j # k
      BY <1>6, <2>1 DEF SetRunning
    <2>2. CASE j = k
      BY <1>6, <2>2 DEF SetRunning
    <2> QED
      BY <2>1, <2>2
  <1>7. ASSUME NEW k \in Job, Executed(k) PROVE Ahead(j)'
    <2>1. CASE j # k
      BY <1>7, <2>1 DEF Executed, Tell
    <2>2. CASE j = k
      BY <1>7, <2>2 DEF Executed, Tell
    <2> QED
      BY <2>1, <2>2
  <1>8. ASSUME NEW k \in Job, ParentSees(k) PROVE Ahead(j)'
    <2>1. CASE j # k
      BY <1>8, <2>1 DEF ParentSees, Tell, Unfinished
    <2>2. CASE j = k
      BY <1>8, <2>2 DEF ParentSees, Tell, Unfinished
    <2> QED
      BY <2>1, <2>2
  <1>9. ASSUME NEW k \in Job, Overdue(k) PROVE Ahead(j)'
    <2>1. CASE j # k
      BY <1>9, <2>1 DEF Overdue, Unfinished
    <2>2. CASE j = k
      BY <1>9, <2>2 DEF Overdue, Unfinished
    <2> QED
      BY <2>1, <2>2
  <1>10. ASSUME NEW k \in Job, Due(k) PROVE Ahead(j)'
    <2>1. CASE j # k
      BY <1>10, <2>1 DEF Due
    <2>2. CASE j = k
      BY <1>10, <2>2 DEF Due
    <2> QED
      BY <2>1, <2>2
  <1>11. ASSUME NEW k \in Job, RunnerDies(k) PROVE Ahead(j)'
    <2>1. CASE j # k
      BY <1>11, <2>1 DEF RunnerDies, Stops, Tell
    <2>2. CASE j = k
      BY <1>11, <2>2 DEF RunnerDies, Stops, Tell
    <2> QED
      BY <2>1, <2>2
  <1>12. ASSUME NEW k \in Job, FinishThrows(k) PROVE Ahead(j)'
    <2>1. CASE j # k
      BY <1>12, <2>1 DEF FinishThrows, Tell
    <2>2. CASE j = k
      BY <1>12, <2>2 DEF FinishThrows, Tell
    <2> QED
      BY <2>1, <2>2
  <1>13. ASSUME NEW k \in Job, NEW p \in Tellers, Finish(k, p) PROVE Ahead(j)'
    <2>1. CASE j # k
      BY <1>13, <2>1 DEF Finish
    <2>2. CASE j = k
      <3>1. CASE p = "runner"
        BY <1>13, <2>2, <3>1 DEF Finish
      <3>2. CASE p = "parent"
        BY <1>13, <2>2, <3>2 DEF Finish
      <3>3. CASE p = "daemon"
        BY <1>13, <2>2, <3>3 DEF Finish
      <3> QED
        BY <3>1, <3>2, <3>3
    <2> QED
      BY <2>1, <2>2
  <1>14. ASSUME NEW k \in Job, NEW p \in Tellers, QueueWake(k, p) PROVE Ahead(j)'
    <2>1. CASE j # k
      BY <1>14, <2>1 DEF QueueWake
    <2>2. CASE j = k
      <3>1. CASE p = "runner"
        BY <1>14, <2>2, <3>1 DEF QueueWake
      <3>2. CASE p = "parent"
        BY <1>14, <2>2, <3>2 DEF QueueWake
      <3>3. CASE p = "daemon"
        BY <1>14, <2>2, <3>3 DEF QueueWake
      <3> QED
        BY <3>1, <3>2, <3>3
    <2> QED
      BY <2>1, <2>2
  <1>15. ASSUME NEW k \in Job, NEW p \in Tellers, Mark(k, p) PROVE Ahead(j)'
    <2>1. CASE j # k
      BY <1>15, <2>1 DEF Mark, Tell
    <2>2. CASE j = k
      <3>1. CASE p = "runner"
        BY <1>15, <2>2, <3>1 DEF Mark, Tell
      <3>2. CASE p = "parent"
        BY <1>15, <2>2, <3>2 DEF Mark, Tell
      <3>3. CASE p = "daemon"
        BY <1>15, <2>2, <3>3 DEF Mark, Tell
      <3> QED
        BY <3>1, <3>2, <3>3
    <2> QED
      BY <2>1, <2>2
  <1>16. ASSUME NEW k \in Job, NEW p \in Tellers, Throws(k, p) PROVE Ahead(j)'
    <2>1. CASE j # k
      BY <1>16, <2>1 DEF Throws, Stops, Tell
    <2>2. CASE j = k
      <3>1. CASE p = "runner"
        BY <1>16, <2>2, <3>1 DEF Throws, Stops, Tell
      <3>2. CASE p = "parent"
        BY <1>16, <2>2, <3>2 DEF Throws, Stops, Tell
      <3>3. CASE p = "daemon"
        BY <1>16, <2>2, <3>3 DEF Throws, Stops, Tell
      <3> QED
        BY <3>1, <3>2, <3>3
    <2> QED
      BY <2>1, <2>2
  <1>17. CASE UNCHANGED vars
    BY <1>17 DEF vars
  <1> QED
    BY <1>1, <1>2, <1>3, <1>4, <1>5, <1>6, <1>7, <1>8, <1>9, <1>10, <1>11, <1>12,
       <1>13, <1>14, <1>15, <1>16, <1>17
       DEF Next

\* What is told without a stamp is told by somebody about to stamp.
LEMMA BareStep == IInv /\ [Next]_vars => \A j \in Job : Bare(j)'
  <1> SUFFICES ASSUME IInv, [Next]_vars, NEW j \in Job
               PROVE  Bare(j)'
    BY DEF IInv
  <1>0. TypeOK /\ Once /\ Order(j) /\ Bare(j)
    BY DEF IInv
  <1> USE <1>0 DEF TypeOK, Ends, Tellers, table, telling, history, Bare, One, Order
  <1>1. CASE ReapStart
    BY <1>1 DEF ReapStart, DaemonFree, Waiting
  <1>2. CASE ReapNext
    BY <1>2 DEF ReapNext, DaemonFree, Tell
  <1>3. CASE LongGap
    BY <1>3 DEF LongGap
  <1>4. CASE Restart
    BY <1>4 DEF Restart
  <1>5. ASSUME NEW k \in Job, SpawnBgJob(k) PROVE Bare(j)'
    <2>1. CASE j # k
      BY <1>5, <2>1 DEF SpawnBgJob
    <2>2. CASE j = k
      BY <1>5, <2>2 DEF SpawnBgJob
    <2> QED
      BY <2>1, <2>2
  <1>6. ASSUME NEW k \in Job, SetRunning(k) PROVE Bare(j)'
    <2>1. CASE j # k
      BY <1>6, <2>1 DEF SetRunning
    <2>2. CASE j = k
      BY <1>6, <2>2 DEF SetRunning
    <2> QED
      BY <2>1, <2>2
  <1>7. ASSUME NEW k \in Job, Executed(k) PROVE Bare(j)'
    <2>1. CASE j # k
      BY <1>7, <2>1 DEF Executed, Tell
    <2>2. CASE j = k
      BY <1>7, <2>2 DEF Executed, Tell
    <2> QED
      BY <2>1, <2>2
  <1>8. ASSUME NEW k \in Job, ParentSees(k) PROVE Bare(j)'
    <2>1. CASE j # k
      BY <1>8, <2>1 DEF ParentSees, Tell, Unfinished
    <2>2. CASE j = k
      BY <1>8, <2>2 DEF ParentSees, Tell, Unfinished
    <2> QED
      BY <2>1, <2>2
  <1>9. ASSUME NEW k \in Job, Overdue(k) PROVE Bare(j)'
    <2>1. CASE j # k
      BY <1>9, <2>1 DEF Overdue, Unfinished
    <2>2. CASE j = k
      BY <1>9, <2>2 DEF Overdue, Unfinished
    <2> QED
      BY <2>1, <2>2
  <1>10. ASSUME NEW k \in Job, Due(k) PROVE Bare(j)'
    <2>1. CASE j # k
      BY <1>10, <2>1 DEF Due
    <2>2. CASE j = k
      BY <1>10, <2>2 DEF Due
    <2> QED
      BY <2>1, <2>2
  <1>11. ASSUME NEW k \in Job, RunnerDies(k) PROVE Bare(j)'
    <2>1. CASE j # k
      BY <1>11, <2>1 DEF RunnerDies, Stops, Tell
    <2>2. CASE j = k
      BY <1>11, <2>2 DEF RunnerDies, Stops, Tell
    <2> QED
      BY <2>1, <2>2
  <1>12. ASSUME NEW k \in Job, FinishThrows(k) PROVE Bare(j)'
    <2>1. CASE j # k
      BY <1>12, <2>1 DEF FinishThrows, Tell
    <2>2. CASE j = k
      BY <1>12, <2>2 DEF FinishThrows, Tell
    <2> QED
      BY <2>1, <2>2
  <1>13. ASSUME NEW k \in Job, NEW p \in Tellers, Finish(k, p) PROVE Bare(j)'
    <2>1. CASE j # k
      BY <1>13, <2>1 DEF Finish
    <2>2. CASE j = k
      <3>1. CASE p = "runner"
        BY <1>13, <2>2, <3>1 DEF Finish
      <3>2. CASE p = "parent"
        BY <1>13, <2>2, <3>2 DEF Finish
      <3>3. CASE p = "daemon"
        BY <1>13, <2>2, <3>3 DEF Finish
      <3> QED
        BY <3>1, <3>2, <3>3
    <2> QED
      BY <2>1, <2>2
  <1>14. ASSUME NEW k \in Job, NEW p \in Tellers, QueueWake(k, p) PROVE Bare(j)'
    <2>1. CASE j # k
      BY <1>14, <2>1 DEF QueueWake
    <2>2. CASE j = k
      <3>1. CASE p = "runner"
        BY <1>14, <2>2, <3>1 DEF QueueWake
      <3>2. CASE p = "parent"
        BY <1>14, <2>2, <3>2 DEF QueueWake
      <3>3. CASE p = "daemon"
        BY <1>14, <2>2, <3>3 DEF QueueWake
      <3> QED
        BY <3>1, <3>2, <3>3
    <2> QED
      BY <2>1, <2>2
  <1>15. ASSUME NEW k \in Job, NEW p \in Tellers, Mark(k, p) PROVE Bare(j)'
    <2>1. CASE j # k
      BY <1>15, <2>1 DEF Mark, Tell
    <2>2. CASE j = k
      <3>1. CASE p = "runner"
        BY <1>15, <2>2, <3>1 DEF Mark, Tell
      <3>2. CASE p = "parent"
        BY <1>15, <2>2, <3>2 DEF Mark, Tell
      <3>3. CASE p = "daemon"
        BY <1>15, <2>2, <3>3 DEF Mark, Tell
      <3> QED
        BY <3>1, <3>2, <3>3
    <2> QED
      BY <2>1, <2>2
  <1>16. ASSUME NEW k \in Job, NEW p \in Tellers, Throws(k, p) PROVE Bare(j)'
    <2>1. CASE j # k
      BY <1>16, <2>1 DEF Throws, Stops, Tell
    <2>2. CASE j = k
      <3>1. CASE p = "runner"
        BY <1>16, <2>2, <3>1 DEF Throws, Stops, Tell
      <3>2. CASE p = "parent"
        BY <1>16, <2>2, <3>2 DEF Throws, Stops, Tell
      <3>3. CASE p = "daemon"
        BY <1>16, <2>2, <3>3 DEF Throws, Stops, Tell
      <3> QED
        BY <3>1, <3>2, <3>3
    <2> QED
      BY <2>1, <2>2
  <1>17. CASE UNCHANGED vars
    BY <1>17 DEF vars
  <1> QED
    BY <1>1, <1>2, <1>3, <1>4, <1>5, <1>6, <1>7, <1>8, <1>9, <1>10, <1>11, <1>12,
       <1>13, <1>14, <1>15, <1>16, <1>17
       DEF Next

\* No step tells what is not paid for.
LEMMA PaidStep == IInv /\ [Next]_vars => \A j \in Job : Paid(j)'
  <1> SUFFICES ASSUME IInv, [Next]_vars, NEW j \in Job
               PROVE  Paid(j)'
    BY DEF IInv
  <1>0. TypeOK /\ Once /\ Order(j) /\ Agreed(j) /\ Ahead(j) /\ Bare(j) /\ Paid(j)
    BY DEF IInv
  <1>a. Len(told[j]) \in Nat /\ reaped[j] \in Nat /\ cut[j] \in Nat
    BY <1>0 DEF TypeOK
  <1>b. /\ Chain(j) \in {0, 1} /\ Owed(j) \in {0, 1} /\ Listed(j) \in {0, 1}
        /\ Chain(j)' \in {0, 1} /\ Owed(j)' \in {0, 1} /\ Listed(j)' \in {0, 1}
    BY DEF Chain, Owed, Listed
  <1> USE <1>0 DEF TypeOK, Ends, Tellers, table, telling, history
  <1>1. CASE ReapStart
    <2>1. UNCHANGED <<told, reaped, cut, step, row, runner>> /\ DaemonFree
      BY <1>1 DEF ReapStart
    <2>2. Chain(j)' = Chain(j) /\ Owed(j)' = 0
      BY <2>1 DEF Alive, Unfinished, DaemonFree, Chain, Owed
    <2>3. CASE ~Missing(j)'
      <3>1. Listed(j)' = 0
        BY <2>3 DEF Listed
      <3> QED
        BY <1>a, <1>b, <2>1, <2>2, <3>1 DEF Paid
    <2>4. CASE Missing(j)'
      <3>1. Waiting(j)
        BY <1>1, <2>4 DEF ReapStart, Missing
      <3>2. step[j]["daemon"] = "none"
        BY <2>1 DEF DaemonFree
      <3>3. Len(told[j]) + Chain(j) <= 1 + cut[j]
        <4>1. Len(told[j]) <= cut[j] \/ (Len(told[j]) <= cut[j] + 1 /\ ~Alive(j))
          BY <1>a, <3>1, <3>2 DEF Bare, Waiting, Alive, Unfinished, Order, One
        <4>2. Len(told[j]) <= cut[j] \/ (Len(told[j]) <= cut[j] + 1 /\ Chain(j) = 0)
          BY <4>1 DEF Chain
        <4> QED
          BY <1>a, <1>b, <4>2
      <3>4. CASE reaped[j] > 0
        BY <1>a, <1>b, <2>1, <2>2, <3>3, <3>4 DEF Paid
      <3>5. CASE reaped[j] = 0
        <4>1. ~Alive(j) /\ step[j]["runner"] = "none" /\ step[j]["parent"] = "none"
          BY <3>1, <3>5 DEF Waiting, Alive, Unfinished, Agreed
        <4>2. Chain(j) = 0
          BY <4>1 DEF Chain
        <4>3. Len(told[j]) <= cut[j]
          BY <1>a, <3>1, <3>2, <4>1 DEF Bare, Waiting, One
        <4> QED
          BY <1>a, <1>b, <2>1, <2>2, <3>5, <4>2, <4>3 DEF Paid
      <3> QED
        BY <1>a, <3>4, <3>5
    <2> QED
      BY <2>3, <2>4
  <1>2. CASE ReapNext
    <2>1. UNCHANGED <<told, reaped, cut, row, runner>> /\ step[j]["daemon"] = "none"
      BY <1>2 DEF ReapNext, DaemonFree
    <2>2. PICK l \in reap : /\ reap' = reap \ {l}
                            /\ Tell(l.job, "daemon", IF l.why = "stuck" THEN "finish" ELSE "create", l.status)
      BY <1>2 DEF ReapNext
    <2>3. Chain(j)' = Chain(j)
      BY <2>1, <2>2 DEF Alive, Unfinished, Tell, Chain
    <2>4. step'[j]["daemon"] = "create" => Missing(j)
      BY <2>1, <2>2 DEF Tell, Missing
    <2>5. step'[j]["daemon"] = "create" => ~Missing(j)'
      BY <2>1, <2>2 DEF Tell, Missing, Once
    <2>6. Missing(j)' => Missing(j)
      BY <2>2 DEF Missing
    <2>7. Owed(j)' = 1 => Listed(j) = 1 /\ Listed(j)' = 0
      BY <2>4, <2>5 DEF Owed, Listed
    <2>8. Listed(j)' \in {0, Listed(j)}
      BY <2>6 DEF Listed
    <2> QED
      BY <1>a, <1>b, <2>1, <2>3, <2>7, <2>8 DEF Paid
  <1>3. CASE LongGap
    <2>1. UNCHANGED <<told, reaped, cut, step, row, runner, reap>>
      BY <1>3 DEF LongGap
    <2> QED
      BY <2>1 DEF Paid, Chain, Owed, Listed, Alive, Missing, Unfinished
  <1>4. CASE Restart
    <2>1. Chain(j)' = Chain(j)
      BY <1>4 DEF Restart, Alive, Unfinished, Chain
    <2>2. Listed(j)' = 0 /\ Owed(j)' = 0
      BY <1>4 DEF Restart, Missing, Listed, Owed
    <2>3. cut'[j] \in {cut[j], cut[j] + 1} /\ told' = told /\ reaped' = reaped
      BY <1>4 DEF Restart
    <2> QED
      BY <1>a, <1>b, <2>1, <2>2, <2>3 DEF Paid
  <1>5. ASSUME NEW k \in Job, SpawnBgJob(k) PROVE Paid(j)'
    <2>1. CASE j # k
      BY <1>5, <2>1 DEF SpawnBgJob, Paid, Chain, Owed, Listed, Alive, Missing, Unfinished
    <2>2. CASE j = k
      <3>1. Chain(j)' \in {0, Chain(j)}
        <4>1. Alive(j)' => Alive(j)
          BY <1>5, <2>2 DEF SpawnBgJob, Unfinished, Alive, Order
        <4> QED
          BY <4>1 DEF Chain
      <3>2. Owed(j)' \in {0, Owed(j)}
        BY <1>5, <2>2 DEF SpawnBgJob, Owed
      <3>3. Listed(j)' = Listed(j)
        BY <1>5 DEF SpawnBgJob, Missing, Listed
      <3>4. Len(told'[j]) = Len(told[j])
        BY <1>5, <2>2 DEF SpawnBgJob
      <3>5. reaped'[j] = reaped[j] /\ cut'[j] = cut[j]
        BY <1>5, <2>2 DEF SpawnBgJob
      <3> QED
        BY <3>1, <3>2, <3>3, <3>4, <3>5, <1>a, <1>b DEF Paid
    <2> QED
      BY <2>1, <2>2
  <1>6. ASSUME NEW k \in Job, SetRunning(k) PROVE Paid(j)'
    <2>1. CASE j # k
      BY <1>6, <2>1 DEF SetRunning, Paid, Chain, Owed, Listed, Alive, Missing, Unfinished
    <2>2. CASE j = k
      <3>1. Chain(j)' \in {0, Chain(j)}
        <4>1. Alive(j)' => Alive(j)
          BY <1>6, <2>2 DEF SetRunning, Unfinished, Alive, Order
        <4> QED
          BY <4>1 DEF Chain
      <3>2. Owed(j)' \in {0, Owed(j)}
        BY <1>6, <2>2 DEF SetRunning, Owed
      <3>3. Listed(j)' = Listed(j)
        BY <1>6 DEF SetRunning, Missing, Listed
      <3>4. Len(told'[j]) = Len(told[j])
        BY <1>6, <2>2 DEF SetRunning
      <3>5. reaped'[j] = reaped[j] /\ cut'[j] = cut[j]
        BY <1>6, <2>2 DEF SetRunning
      <3> QED
        BY <3>1, <3>2, <3>3, <3>4, <3>5, <1>a, <1>b DEF Paid
    <2> QED
      BY <2>1, <2>2
  <1>7. ASSUME NEW k \in Job, Executed(k) PROVE Paid(j)'
    <2>1. CASE j # k
      BY <1>7, <2>1 DEF Executed, Tell, Paid, Chain, Owed, Listed, Alive, Missing, Unfinished
    <2>2. CASE j = k
      <3>1. Chain(j)' \in {0, Chain(j)}
        <4>1. Alive(j)' => Alive(j)
          BY <1>7, <2>2 DEF Executed, Tell, Unfinished, Alive, Order
        <4> QED
          BY <4>1 DEF Chain
      <3>2. Owed(j)' \in {0, Owed(j)}
        BY <1>7, <2>2 DEF Executed, Tell, Owed
      <3>3. Listed(j)' = Listed(j)
        BY <1>7 DEF Executed, Missing, Listed
      <3>4. Len(told'[j]) = Len(told[j])
        BY <1>7, <2>2 DEF Executed, Tell
      <3>5. reaped'[j] = reaped[j] /\ cut'[j] = cut[j]
        BY <1>7, <2>2 DEF Executed, Tell
      <3> QED
        BY <3>1, <3>2, <3>3, <3>4, <3>5, <1>a, <1>b DEF Paid
    <2> QED
      BY <2>1, <2>2
  <1>8. ASSUME NEW k \in Job, ParentSees(k) PROVE Paid(j)'
    <2>1. CASE j # k
      BY <1>8, <2>1 DEF ParentSees, Tell, Unfinished, Paid, Chain, Owed, Listed, Alive, Missing
    <2>2. CASE j = k
      <3>1. Chain(j)' \in {0, Chain(j)}
        <4>1. Alive(j)' => Alive(j)
          BY <1>8, <2>2 DEF ParentSees, Tell, Unfinished, Alive, Order
        <4> QED
          BY <4>1 DEF Chain
      <3>2. Owed(j)' \in {0, Owed(j)}
        BY <1>8, <2>2 DEF ParentSees, Tell, Unfinished, Owed
      <3>3. Listed(j)' = Listed(j)
        BY <1>8 DEF ParentSees, Missing, Listed
      <3>4. Len(told'[j]) = Len(told[j])
        BY <1>8, <2>2 DEF ParentSees, Tell, Unfinished
      <3>5. reaped'[j] = reaped[j] /\ cut'[j] = cut[j]
        BY <1>8, <2>2 DEF ParentSees, Tell, Unfinished
      <3> QED
        BY <3>1, <3>2, <3>3, <3>4, <3>5, <1>a, <1>b DEF Paid
    <2> QED
      BY <2>1, <2>2
  <1>9. ASSUME NEW k \in Job, Overdue(k) PROVE Paid(j)'
    <2>1. CASE j # k
      BY <1>9, <2>1 DEF Overdue, Unfinished, Paid, Chain, Owed, Listed, Alive, Missing
    <2>2. CASE j = k
      <3>1. Chain(j)' \in {0, Chain(j)}
        <4>1. Alive(j)' => Alive(j)
          BY <1>9, <2>2 DEF Overdue, Unfinished, Alive, Order
        <4> QED
          BY <4>1 DEF Chain
      <3>2. Owed(j)' \in {0, Owed(j)}
        BY <1>9, <2>2 DEF Overdue, Unfinished, Owed
      <3>3. Listed(j)' = Listed(j)
        BY <1>9 DEF Overdue, Missing, Listed
      <3>4. Len(told'[j]) = Len(told[j])
        BY <1>9, <2>2 DEF Overdue, Unfinished
      <3>5. reaped'[j] = reaped[j] /\ cut'[j] = cut[j]
        BY <1>9, <2>2 DEF Overdue, Unfinished
      <3> QED
        BY <3>1, <3>2, <3>3, <3>4, <3>5, <1>a, <1>b DEF Paid
    <2> QED
      BY <2>1, <2>2
  <1>10. ASSUME NEW k \in Job, Due(k) PROVE Paid(j)'
    <2>1. CASE j # k
      BY <1>10, <2>1 DEF Due, Paid, Chain, Owed, Listed, Alive, Missing, Unfinished
    <2>2. CASE j = k
      <3>1. Chain(j)' \in {0, Chain(j)}
        <4>1. Alive(j)' => Alive(j)
          BY <1>10, <2>2 DEF Due, Unfinished, Alive, Order
        <4> QED
          BY <4>1 DEF Chain
      <3>2. Owed(j)' \in {0, Owed(j)}
        BY <1>10, <2>2 DEF Due, Owed
      <3>3. Listed(j)' = Listed(j)
        BY <1>10 DEF Due, Missing, Listed
      <3>4. Len(told'[j]) = Len(told[j])
        BY <1>10, <2>2 DEF Due
      <3>5. reaped'[j] = reaped[j] /\ cut'[j] = cut[j]
        BY <1>10, <2>2 DEF Due
      <3> QED
        BY <3>1, <3>2, <3>3, <3>4, <3>5, <1>a, <1>b DEF Paid
    <2> QED
      BY <2>1, <2>2
  <1>11. ASSUME NEW k \in Job, RunnerDies(k) PROVE Paid(j)'
    <2>1. CASE j # k
      BY <1>11, <2>1
         DEF RunnerDies, Stops, Tell, Paid, Chain, Owed, Listed, Alive, Missing, Unfinished
    <2>2. CASE j = k
      <3>1. Chain(j)' \in {0, Chain(j)} \/ cut'[j] = cut[j] + 1
        <4>1. Alive(j)' => Alive(j) \/ cut'[j] = cut[j] + 1
          BY <1>11, <2>2 DEF RunnerDies, Stops, Tell, Unfinished, Alive, Order
        <4> QED
          BY <4>1 DEF Chain
      <3>2. Owed(j)' \in {0, Owed(j)}
        BY <1>11, <2>2 DEF RunnerDies, Stops, Tell, Owed
      <3>3. Listed(j)' = Listed(j)
        BY <1>11 DEF RunnerDies, Missing, Listed
      <3>4. Len(told'[j]) = Len(told[j])
        BY <1>11, <2>2 DEF RunnerDies, Stops, Tell
      <3>5. reaped'[j] = reaped[j] /\ (cut'[j] = cut[j] \/ cut'[j] = cut[j] + 1)
        BY <1>11, <2>2 DEF RunnerDies, Stops, Tell
      <3> QED
        BY <3>1, <3>2, <3>3, <3>4, <3>5, <1>a, <1>b DEF Paid
    <2> QED
      BY <2>1, <2>2
  <1>12. ASSUME NEW k \in Job, FinishThrows(k) PROVE Paid(j)'
    <2>1. CASE j # k
      BY <1>12, <2>1 DEF FinishThrows, Tell, Paid, Chain, Owed, Listed, Alive, Missing, Unfinished
    <2>2. CASE j = k
      <3>1. Chain(j)' \in {0, Chain(j)}
        <4>1. Alive(j)' => Alive(j)
          BY <1>12, <2>2 DEF FinishThrows, Tell, Unfinished, Alive, Order
        <4> QED
          BY <4>1 DEF Chain
      <3>2. Owed(j)' \in {0, Owed(j)}
        BY <1>12, <2>2 DEF FinishThrows, Tell, Owed
      <3>3. Listed(j)' = Listed(j)
        BY <1>12 DEF FinishThrows, Missing, Listed
      <3>4. Len(told'[j]) = Len(told[j])
        BY <1>12, <2>2 DEF FinishThrows, Tell
      <3>5. reaped'[j] = reaped[j] /\ cut'[j] = cut[j]
        BY <1>12, <2>2 DEF FinishThrows, Tell
      <3> QED
        BY <3>1, <3>2, <3>3, <3>4, <3>5, <1>a, <1>b DEF Paid
    <2> QED
      BY <2>1, <2>2
  <1>13. ASSUME NEW k \in Job, NEW p \in Tellers, Finish(k, p) PROVE Paid(j)'
    <2>1. CASE j # k
      BY <1>13, <2>1 DEF Finish, Paid, Chain, Owed, Listed, Alive, Missing, Unfinished
    <2>2. CASE j = k
      <3>1. CASE p = "runner"
        <4>1. Chain(j)' \in {0, Chain(j)}
          <5>1. Alive(j)' => Alive(j)
            BY <1>13, <2>2, <3>1 DEF Finish, Unfinished, Alive, Order
          <5> QED
            BY <5>1 DEF Chain
        <4>2. Owed(j)' \in {0, Owed(j)}
          BY <1>13, <2>2, <3>1 DEF Finish, Owed
        <4>3. Listed(j)' = Listed(j)
          BY <1>13 DEF Finish, Missing, Listed
        <4>4. Len(told'[j]) = Len(told[j])
          BY <1>13, <2>2, <3>1 DEF Finish
        <4>5. reaped'[j] = reaped[j] /\ cut'[j] = cut[j]
          BY <1>13, <2>2, <3>1 DEF Finish
        <4> QED
          BY <4>1, <4>2, <4>3, <4>4, <4>5, <1>a, <1>b DEF Paid
      <3>2. CASE p = "parent"
        <4>1. Chain(j)' \in {0, Chain(j)}
          <5>1. Alive(j)' => Alive(j)
            BY <1>13, <2>2, <3>2 DEF Finish, Unfinished, Alive, Order
          <5> QED
            BY <5>1 DEF Chain
        <4>2. Owed(j)' \in {0, Owed(j)}
          BY <1>13, <2>2, <3>2 DEF Finish, Owed
        <4>3. Listed(j)' = Listed(j)
          BY <1>13 DEF Finish, Missing, Listed
        <4>4. Len(told'[j]) = Len(told[j])
          BY <1>13, <2>2, <3>2 DEF Finish
        <4>5. reaped'[j] = reaped[j] /\ cut'[j] = cut[j]
          BY <1>13, <2>2, <3>2 DEF Finish
        <4> QED
          BY <4>1, <4>2, <4>3, <4>4, <4>5, <1>a, <1>b DEF Paid
      <3>3. CASE p = "daemon"
        <4>1. Chain(j)' \in {0, Chain(j)}
          <5>1. Alive(j)' => Alive(j)
            BY <1>13, <2>2, <3>3 DEF Finish, Unfinished, Alive, Order
          <5> QED
            BY <5>1 DEF Chain
        <4>2. Owed(j) = 0
          BY <1>13, <2>2, <3>3 DEF Finish, Owed
        <4>3. Listed(j)' = Listed(j)
          BY <1>13 DEF Finish, Missing, Listed
        <4>4. Len(told'[j]) = Len(told[j])
          BY <1>13, <2>2, <3>3 DEF Finish
        <4>5. reaped'[j] = reaped[j] + 1 /\ cut'[j] = cut[j]
          BY <1>13, <2>2, <3>3 DEF Finish
        <4> QED
          BY <4>1, <4>2, <4>3, <4>4, <4>5, <1>a, <1>b DEF Paid
      <3> QED
        BY <3>1, <3>2, <3>3
    <2> QED
      BY <2>1, <2>2
  <1>14. ASSUME NEW k \in Job, NEW p \in Tellers, QueueWake(k, p) PROVE Paid(j)'
    <2>1. CASE j # k
      BY <1>14, <2>1 DEF QueueWake, Paid, Chain, Owed, Listed, Alive, Missing, Unfinished
    <2>2. CASE j = k
      <3>1. CASE p = "runner"
        <4>1. Chain(j) = 1 /\ Chain(j)' = 0
          <5>1. Alive(j) /\ ~Alive(j)'
            BY <1>14, <2>2, <3>1 DEF QueueWake, Unfinished, Alive, Order
          <5> QED
            BY <5>1 DEF Chain
        <4>2. Owed(j)' \in {0, Owed(j)}
          BY <1>14, <2>2, <3>1 DEF QueueWake, Owed
        <4>3. Listed(j)' = Listed(j)
          BY <1>14 DEF QueueWake, Missing, Listed
        <4>4. Len(told'[j]) = Len(told[j]) + 1
          BY <1>14, <2>2, <3>1 DEF QueueWake
        <4>5. reaped'[j] = reaped[j] /\ cut'[j] = cut[j]
          BY <1>14, <2>2, <3>1 DEF QueueWake
        <4> QED
          BY <4>1, <4>2, <4>3, <4>4, <4>5, <1>a, <1>b DEF Paid
      <3>2. CASE p = "parent"
        <4>1. Chain(j) = 1 /\ Chain(j)' = 0
          <5>1. Alive(j) /\ ~Alive(j)'
            BY <1>14, <2>2, <3>2 DEF QueueWake, Unfinished, Alive, Order
          <5> QED
            BY <5>1 DEF Chain
        <4>2. Owed(j)' \in {0, Owed(j)}
          BY <1>14, <2>2, <3>2 DEF QueueWake, Owed
        <4>3. Listed(j)' = Listed(j)
          BY <1>14 DEF QueueWake, Missing, Listed
        <4>4. Len(told'[j]) = Len(told[j]) + 1
          BY <1>14, <2>2, <3>2 DEF QueueWake
        <4>5. reaped'[j] = reaped[j] /\ cut'[j] = cut[j]
          BY <1>14, <2>2, <3>2 DEF QueueWake
        <4> QED
          BY <4>1, <4>2, <4>3, <4>4, <4>5, <1>a, <1>b DEF Paid
      <3>3. CASE p = "daemon"
        <4>1. Chain(j)' \in {0, Chain(j)}
          <5>1. Alive(j)' => Alive(j)
            BY <1>14, <2>2, <3>3 DEF QueueWake, Unfinished, Alive, Order
          <5> QED
            BY <5>1 DEF Chain
        <4>2. Owed(j) = 1 /\ Owed(j)' = 0
          BY <1>14, <2>2, <3>3 DEF QueueWake, Owed
        <4>3. Listed(j)' = Listed(j)
          BY <1>14 DEF QueueWake, Missing, Listed
        <4>4. Len(told'[j]) = Len(told[j]) + 1
          BY <1>14, <2>2, <3>3 DEF QueueWake
        <4>5. reaped'[j] = reaped[j] /\ cut'[j] = cut[j]
          BY <1>14, <2>2, <3>3 DEF QueueWake
        <4> QED
          BY <4>1, <4>2, <4>3, <4>4, <4>5, <1>a, <1>b DEF Paid
      <3> QED
        BY <3>1, <3>2, <3>3
    <2> QED
      BY <2>1, <2>2
  <1>15. ASSUME NEW k \in Job, NEW p \in Tellers, Mark(k, p) PROVE Paid(j)'
    <2>1. CASE j # k
      BY <1>15, <2>1 DEF Mark, Tell, Paid, Chain, Owed, Listed, Alive, Missing, Unfinished
    <2>2. CASE j = k
      <3>1. CASE p = "runner"
        <4>1. Chain(j)' \in {0, Chain(j)}
          <5>1. Alive(j)' => Alive(j)
            BY <1>15, <2>2, <3>1 DEF Mark, Tell, Unfinished, Alive, Order
          <5> QED
            BY <5>1 DEF Chain
        <4>2. Owed(j)' \in {0, Owed(j)}
          BY <1>15, <2>2, <3>1 DEF Mark, Tell, Owed
        <4>3. Listed(j)' = Listed(j)
          BY <1>15 DEF Mark, Missing, Listed
        <4>4. Len(told'[j]) = Len(told[j])
          BY <1>15, <2>2, <3>1 DEF Mark, Tell
        <4>5. reaped'[j] = reaped[j] /\ cut'[j] = cut[j]
          BY <1>15, <2>2, <3>1 DEF Mark, Tell
        <4> QED
          BY <4>1, <4>2, <4>3, <4>4, <4>5, <1>a, <1>b DEF Paid
      <3>2. CASE p = "parent"
        <4>1. Chain(j)' \in {0, Chain(j)}
          <5>1. Alive(j)' => Alive(j)
            BY <1>15, <2>2, <3>2 DEF Mark, Tell, Unfinished, Alive, Order
          <5> QED
            BY <5>1 DEF Chain
        <4>2. Owed(j)' \in {0, Owed(j)}
          BY <1>15, <2>2, <3>2 DEF Mark, Tell, Owed
        <4>3. Listed(j)' = Listed(j)
          BY <1>15 DEF Mark, Missing, Listed
        <4>4. Len(told'[j]) = Len(told[j])
          BY <1>15, <2>2, <3>2 DEF Mark, Tell
        <4>5. reaped'[j] = reaped[j] /\ cut'[j] = cut[j]
          BY <1>15, <2>2, <3>2 DEF Mark, Tell
        <4> QED
          BY <4>1, <4>2, <4>3, <4>4, <4>5, <1>a, <1>b DEF Paid
      <3>3. CASE p = "daemon"
        <4>1. Chain(j)' \in {0, Chain(j)}
          <5>1. Alive(j)' => Alive(j)
            BY <1>15, <2>2, <3>3 DEF Mark, Tell, Unfinished, Alive, Order
          <5> QED
            BY <5>1 DEF Chain
        <4>2. Owed(j)' \in {0, Owed(j)}
          BY <1>15, <2>2, <3>3 DEF Mark, Tell, Owed
        <4>3. Listed(j)' = Listed(j)
          BY <1>15 DEF Mark, Missing, Listed
        <4>4. Len(told'[j]) = Len(told[j])
          BY <1>15, <2>2, <3>3 DEF Mark, Tell
        <4>5. reaped'[j] = reaped[j] /\ cut'[j] = cut[j]
          BY <1>15, <2>2, <3>3 DEF Mark, Tell
        <4> QED
          BY <4>1, <4>2, <4>3, <4>4, <4>5, <1>a, <1>b DEF Paid
      <3> QED
        BY <3>1, <3>2, <3>3
    <2> QED
      BY <2>1, <2>2
  <1>16. ASSUME NEW k \in Job, NEW p \in Tellers, Throws(k, p) PROVE Paid(j)'
    <2>1. CASE j # k
      BY <1>16, <2>1
         DEF Throws, Stops, Tell, Paid, Chain, Owed, Listed, Alive, Missing, Unfinished
    <2>2. CASE j = k
      <3>1. CASE p = "runner"
        <4>1. Chain(j)' \in {0, Chain(j)}
          <5>1. Alive(j)' => Alive(j)
            BY <1>16, <2>2, <3>1 DEF Throws, Stops, Tell, Unfinished, Alive, Order
          <5> QED
            BY <5>1 DEF Chain
        <4>2. Owed(j)' \in {0, Owed(j)}
          BY <1>16, <2>2, <3>1 DEF Throws, Stops, Tell, Owed
        <4>3. Listed(j)' = Listed(j)
          BY <1>16 DEF Throws, Missing, Listed
        <4>4. Len(told'[j]) = Len(told[j])
          BY <1>16, <2>2, <3>1 DEF Throws, Stops, Tell
        <4>5. reaped'[j] = reaped[j] /\ (cut'[j] = cut[j] \/ cut'[j] = cut[j] + 1)
          BY <1>16, <2>2, <3>1 DEF Throws, Stops, Tell
        <4>6. CASE cut'[j] = cut[j]
          BY <4>1, <4>2, <4>3, <4>4, <4>5, <4>6, <1>a, <1>b DEF Paid
        <4>7. CASE cut'[j] = cut[j] + 1
          BY <4>1, <4>2, <4>3, <4>4, <4>5, <4>7, <1>a, <1>b DEF Paid
        <4> QED
          BY <4>5, <4>6, <4>7
      <3>2. CASE p = "parent"
        <4>1. Chain(j)' \in {0, Chain(j)}
          <5>1. Alive(j)' => Alive(j)
            BY <1>16, <2>2, <3>2 DEF Throws, Stops, Tell, Unfinished, Alive, Order
          <5> QED
            BY <5>1 DEF Chain
        <4>2. Owed(j)' \in {0, Owed(j)}
          BY <1>16, <2>2, <3>2 DEF Throws, Stops, Tell, Owed
        <4>3. Listed(j)' = Listed(j)
          BY <1>16 DEF Throws, Missing, Listed
        <4>4. Len(told'[j]) = Len(told[j])
          BY <1>16, <2>2, <3>2 DEF Throws, Stops, Tell
        <4>5. reaped'[j] = reaped[j] /\ (cut'[j] = cut[j] \/ cut'[j] = cut[j] + 1)
          BY <1>16, <2>2, <3>2 DEF Throws, Stops, Tell
        <4>6. CASE cut'[j] = cut[j]
          BY <4>1, <4>2, <4>3, <4>4, <4>5, <4>6, <1>a, <1>b DEF Paid
        <4>7. CASE cut'[j] = cut[j] + 1
          BY <4>1, <4>2, <4>3, <4>4, <4>5, <4>7, <1>a, <1>b DEF Paid
        <4> QED
          BY <4>5, <4>6, <4>7
      <3>3. CASE p = "daemon"
        <4>1. Chain(j)' \in {0, Chain(j)}
          <5>1. Alive(j)' => Alive(j)
            BY <1>16, <2>2, <3>3 DEF Throws, Stops, Tell, Unfinished, Alive, Order
          <5> QED
            BY <5>1 DEF Chain
        <4>2. Owed(j)' \in {0, Owed(j)}
          BY <1>16, <2>2, <3>3 DEF Throws, Stops, Tell, Owed
        <4>3. Listed(j)' = Listed(j)
          BY <1>16 DEF Throws, Missing, Listed
        <4>4. Len(told'[j]) = Len(told[j])
          BY <1>16, <2>2, <3>3 DEF Throws, Stops, Tell
        <4>5. reaped'[j] = reaped[j] /\ (cut'[j] = cut[j] \/ cut'[j] = cut[j] + 1)
          BY <1>16, <2>2, <3>3 DEF Throws, Stops, Tell
        <4>6. CASE cut'[j] = cut[j]
          BY <4>1, <4>2, <4>3, <4>4, <4>5, <4>6, <1>a, <1>b DEF Paid
        <4>7. CASE cut'[j] = cut[j] + 1
          BY <4>1, <4>2, <4>3, <4>4, <4>5, <4>7, <1>a, <1>b DEF Paid
        <4> QED
          BY <4>5, <4>6, <4>7
      <3> QED
        BY <3>1, <3>2, <3>3
    <2> QED
      BY <2>1, <2>2
  <1>17. CASE UNCHANGED vars
    BY <1>17 DEF vars, Paid, Chain, Owed, Listed, Alive, Missing, Unfinished
  <1> QED
    BY <1>1, <1>2, <1>3, <1>4, <1>5, <1>6, <1>7, <1>8, <1>9, <1>10, <1>11, <1>12,
       <1>13, <1>14, <1>15, <1>16, <1>17
       DEF Next

-----------------------------------------------------------------------------

\* It all holds when nobody asked for a job.
LEMMA Initially == Init => IInv
  <1> SUFFICES ASSUME Init
               PROVE  IInv
    OBVIOUS
  <1>1. TypeOK
    BY FaultsAssumption DEF Init, TypeOK, Ends, Tellers
  <1>2. \A j \in Job : Order(j) /\ Ahead(j)
    BY DEF Init, Order, Ahead, Missing, Ends, Tellers
  <1>3. \A j \in Job : Agreed(j)
    BY DEF Init, Agreed, Ends, Tellers
  <1>4. ASSUME NEW j \in Job
        PROVE  Bare(j) /\ Paid(j)
    <2>1. Len(told[j]) = 0 /\ reaped[j] = 0 /\ cut[j] = 0
      BY DEF Init
    <2>2. Chain(j) \in {0, 1} /\ Owed(j) = 0 /\ Listed(j) = 0
      BY DEF Init, Chain, Owed, Listed, Missing, Tellers
    <2>3. \A p \in Tellers : step[j][p] = "none"
      BY DEF Init
    <2> QED
      BY <2>1, <2>2, <2>3 DEF Bare, Paid, One, Tellers
  <1> QED
    BY <1>1, <1>2, <1>3, <1>4 DEF IInv, Once, Init

\* So it holds in every state.
LEMMA Inductive == Spec => []IInv
  <1>1. Init => IInv
    BY Initially
  <1>2. IInv /\ [Next]_vars => IInv'
    BY TypeStep, OnceStep, OrderStep, AgreedStep, AheadStep, BareStep, PaidStep DEF IInv
  <1> QED
    BY <1>1, <1>2, PTL DEF Spec

\* The table and the tellers keep their types, for any jobs and faults.
THEOREM Typing == Spec => []TypeOK
  <1>1. IInv => TypeOK
    BY DEF IInv
  <1> QED
    BY <1>1, Inductive, PTL

\* A stamp never hides a lost wake-up from the reaper (store.ts markWakeFired,
\* suppressOldMissedWakes).
THEOREM StampsAreTrue == Spec => []StampMeansTold
  <1>1. IInv => StampMeansTold
    BY DEF IInv, Order, StampMeansTold
  <1> QED
    BY <1>1, Inductive, PTL

\* The session hears the status of the row, unless the reaper overruled a
\* runner (store.ts finish, reaper.ts, bg-runner.ts fireWakeUp).
THEOREM Truth == Spec => []ToldTheTruth
  <1>1. IInv => ToldTheTruth
    BY DEF IInv, Agreed, ToldTheTruth
  <1> QED
    BY <1>1, Inductive, PTL

\* The session hears of a job once, and once more for each time the reaper
\* overruled a runner and each teller that was cut off before its stamp.
THEOREM NoRepeats == Spec => []ToldOnce
  <1>1. IInv => ToldOnce
    <2> SUFFICES ASSUME IInv, NEW j \in Job
                 PROVE  Len(told[j]) <= 1 + reaped[j] + cut[j]
      BY DEF ToldOnce
    <2>1. Len(told[j]) \in Nat /\ reaped[j] \in Nat /\ cut[j] \in Nat
      BY DEF IInv, TypeOK
    <2>2. Chain(j) \in {0, 1} /\ Owed(j) \in {0, 1} /\ Listed(j) \in {0, 1}
      BY DEF Chain, Owed, Listed
    <2> QED
      BY <2>1, <2>2 DEF IInv, Paid
  <1> QED
    BY <1>1, Inductive, PTL

\* A job whose session was not told, and whose hour did not pass.
Untold(j) == row[j] # "none" /\ told[j] = <<>> /\ ~missed[j]

\* The reaper finds it, late or without a stamp, whoever died on the way and
\* whatever was cut off: it is unfinished, or finished less than an hour ago and
\* not stamped.
InReach == \A j \in Job : Untold(j) => Unfinished(j) \/ (~stamped[j] /\ age[j] \in {"new", "due"})

\* No job falls through: what was not told is always in one of the two lists of
\* the reaper, or will be with time (listStuck, listFinishedMissingWake).  What is
\* left to fairness is that the reaper runs (EveryJobTold).
THEOREM NoneOverlooked == Spec => []InReach
  <1>1. IInv => InReach
    <2> SUFFICES ASSUME IInv, NEW j \in Job, Untold(j), ~Unfinished(j)
                 PROVE  ~stamped[j] /\ age[j] \in {"new", "due"}
      BY DEF InReach
    <2>1. row[j] \in Ends /\ age[j] \in {"new", "due", "old"} /\ stamped[j] \in BOOLEAN
      BY DEF IInv, TypeOK, Untold, Unfinished
    <2>2. Order(j)
      BY DEF IInv
    <2> QED
      BY <2>1, <2>2 DEF Order, Untold
  <1> QED
    BY <1>1, Inductive, PTL

=============================================================================
