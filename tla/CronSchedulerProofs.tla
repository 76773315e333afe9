------------------------ MODULE CronSchedulerProofs ------------------------
(***************************************************************************)
(* Safety of CronScheduler for any jobs, sessions, period and bounds.      *)
(*                                                                         *)
(* Why a job does not fire twice for one due time, and why the fires of a  *)
(* session are in due order, is one argument: the drain takes the earliest *)
(* due time, whatever others schedule meanwhile is due now or later, and   *)
(* nothing is launched before its time.                                    *)
(***************************************************************************)
EXTENDS CronScheduler, SequenceTheorems, TLAPS

\* An active row is due after everything it fired for since it was scheduled.
Ahead == \A j \in Jobs : row[j].st = "active" => \A d \in fired[j] : d < row[j].due

\* What fired was due by then, and was a row.
Past == \A j \in Jobs : /\ \A d \in fired[j] : d <= clock
                        /\ row[j].st = "absent" => fired[j] = {}

\* The job the drain has read is the earliest, and has not fired for that time.
Read == picked # None =>
    /\ row[picked.job].st # "absent"
    /\ picked.due <= drainNow
    /\ \A d \in fired[picked.job] : d < picked.due
    /\ \A j \in ActiveIn(row) : picked.due <= row[j].due
    /\ \A s \in Sessions : \A n \in 1..Len(chain[s]) : chain[s][n].due <= picked.due

\* Whatever was launched was due by then, and no later than what is still to come.
Launched == \A s \in Sessions : \A n \in 1..Len(chain[s]) :
    /\ chain[s][n].due <= clock
    /\ \A j \in ActiveIn(row) : chain[s][n].due <= row[j].due

\* A fire that waits or runs is the first of its session's chain.
Stages == \A s \in Sessions : stage[s] # "next" => chain[s] # <<>>

Table == Ahead /\ Past /\ Read /\ Launched /\ drainNow <= clock
IInv  == TypeOK /\ Table /\ Stages /\ DueOrder

-----------------------------------------------------------------------------
(* Times *)

\* The next multiple of the period lies ahead, and within one period.
LEMMA NextMultiple ==
    ASSUME NEW t \in Nat
    PROVE  /\ (t \div Period + 1) * Period \in Nat
           /\ t < (t \div Period + 1) * Period
           /\ (t \div Period + 1) * Period <= t + Period
<1> DEFINE q == t \div Period
           r == t % Period
<1>0. Period \in Nat \ {0}
  BY TimeAssumption
<1>1. q \in Nat /\ r \in Nat /\ r < Period /\ t = q * Period + r
  BY <1>0
<1> HIDE DEF q, r
<1>2. (q + 1) * Period = q * Period + Period
  BY <1>0, <1>1
<1>3. q * Period \in Nat
  BY <1>0, <1>1
<1>4. (q + 1) * Period \in Nat /\ t < (q + 1) * Period /\ (q + 1) * Period <= t + Period
  BY <1>0, <1>1, <1>2, <1>3
<1> QED BY <1>4 DEF q

\* A recurring job is due again after now, whatever its expression was before.
LEMMA RecurringDue ==
    ASSUME NEW j \in Jobs, KindOf[j] = "cron", NEW at, NEW t \in Time
    PROVE  NextFire(j, at, t) \in Dues /\ t < NextFire(j, at, t)
<1>1. t \in Nat /\ t <= MaxTime
  BY TimeAssumption DEF Time
<1>2. PICK due \in Nat : due = (t \div Period + 1) * Period /\ t < due /\ due <= t + Period
  BY <1>1, NextMultiple
<1>3. NextFire(j, at, t) = due
  BY <1>2 DEF NextFire
<1> QED BY <1>1, <1>2, <1>3, TimeAssumption DEF Dues

\* A job is scheduled for now or later.
LEMMA ScheduledDue ==
    ASSUME NEW j \in Jobs, NEW at \in 0..(MaxTime + 1), NEW t \in Time
    PROVE  NextFire(j, at, t) \in Dues /\ t <= NextFire(j, at, t)
<1>1. CASE KindOf[j] = "cron"
  BY <1>1, RecurringDue, TimeAssumption DEF Time, Dues
<1>2. CASE KindOf[j] # "cron"
  BY <1>2, TimeAssumption DEF NextFire, Time, Dues, Later
<1> QED BY <1>1, <1>2

-----------------------------------------------------------------------------
(* Helpers *)

\* The fires that are left are some of those there were.
Sub == \A s \in Sessions : \A n \in 1..Len(chain'[s]) :
           \E m \in 1..Len(chain[s]) : chain'[s][n] = chain[s][m]

\* A fire that is over leaves the rest in order.
LEMMA TailKeeps ==
    ASSUME TypeOK, DueOrder, NEW s \in Sessions, chain[s] # <<>>,
           chain' = [chain EXCEPT ![s] = Tail(@)]
    PROVE  /\ chain' \in [Sessions -> Seq(Fires)]
           /\ Sub /\ DueOrder'
           /\ \A z \in Sessions : z # s => chain'[z] = chain[z]
<1>1. chain \in [Sessions -> Seq(Fires)] /\ chain[s] \in Seq(Fires)
  BY DEF TypeOK
<1>2. /\ chain'[s] \in Seq(Fires) /\ Len(chain'[s]) = Len(chain[s]) - 1
      /\ \A n \in 1..Len(chain'[s]) : chain'[s][n] = chain[s][n + 1]
  BY <1>1
<1>3. \A z \in Sessions : z # s => chain'[z] = chain[z]
  BY <1>1
<1>4. chain' \in [Sessions -> Seq(Fires)]
  BY <1>1, <1>2
<1>5. Len(chain[s]) \in Nat /\ \A n \in 1..Len(chain'[s]) : n + 1 \in 1..Len(chain[s])
  BY <1>1, <1>2
<1>6. Sub
  BY <1>2, <1>3, <1>5 DEF Sub
<1>7. DueOrder'
  <2> SUFFICES ASSUME NEW z \in Sessions, NEW m \in 1..Len(chain'[z]),
                      NEW n \in 1..Len(chain'[z]), m < n
               PROVE  chain'[z][m].due <= chain'[z][n].due
    BY DEF DueOrder
  <2>1. CASE z = s
    <3>1. m + 1 \in 1..Len(chain[s]) /\ n + 1 \in 1..Len(chain[s]) /\ m + 1 < n + 1
      BY <2>1, <1>5
    <3> QED BY <2>1, <3>1, <1>2 DEF DueOrder
  <2>2. CASE z # s
    BY <2>2, <1>3 DEF DueOrder
  <2> QED BY <2>1, <2>2
<1> QED BY <1>3, <1>4, <1>6, <1>7

\* What any step but the drain's own keeps of the table: rows appear, and are
\* scheduled anew for now or later.
LEMMA TableKeeps ==
    ASSUME IInv, TypeOK', UNCHANGED clock, Sub,
           picked' = None \/ (picked' = picked /\ drainNow' = drainNow),
           drainNow' <= clock,
           \A j \in Jobs : row'[j].st = "absent" => row[j].st = "absent",
           \A j \in Jobs : fired'[j] = {} \/ fired'[j] = fired[j],
           \A j \in Jobs : row'[j].st = "active" =>
               \/ row[j].st = "active" /\ row'[j].due = row[j].due
               \/ clock <= row'[j].due /\ fired'[j] = {}
    PROVE  Table'
<1> USE DEF IInv, Table
<1>0. /\ clock \in Nat /\ drainNow \in Nat
      /\ \A j \in Jobs : row[j].due \in Nat /\ row'[j].due \in Nat
      /\ \A s \in Sessions : \A n \in 1..Len(chain[s]) : chain[s][n].due \in Nat
      /\ picked # None => picked.due \in Nat /\ picked.job \in Jobs
  <2>1. clock \in Nat /\ drainNow \in Nat
    BY TimeAssumption DEF TypeOK, Time
  <2>2. \A j \in Jobs : row[j].due \in Nat /\ row'[j].due \in Nat
    BY TimeAssumption DEF TypeOK, Rows, Dues
  <2>3. \A s \in Sessions : \A n \in 1..Len(chain[s]) : chain[s][n].due \in Nat
    <3> SUFFICES ASSUME NEW s \in Sessions, NEW n \in 1..Len(chain[s]) PROVE chain[s][n].due \in Nat
      OBVIOUS
    <3>1. chain[s][n] \in Fires
      BY DEF TypeOK
    <3> QED BY <3>1, TimeAssumption DEF Fires, Dues
  <2>4. picked # None => picked.due \in Nat /\ picked.job \in Jobs
    BY TimeAssumption DEF TypeOK, Fires, Dues
  <2> QED BY <2>1, <2>2, <2>3, <2>4
<1>1. Ahead'
  <2> SUFFICES ASSUME NEW j \in Jobs, row'[j].st = "active", NEW d \in fired'[j]
               PROVE  d < row'[j].due
    BY DEF Ahead
  <2>1. fired'[j] = fired[j] /\ row[j].st = "active" /\ row'[j].due = row[j].due
    OBVIOUS
  <2> QED BY <2>1 DEF Ahead
<1>2. Past'
  BY DEF Past
<1>3. Launched'
  <2> SUFFICES ASSUME NEW s \in Sessions, NEW n \in 1..Len(chain'[s])
               PROVE  /\ chain'[s][n].due <= clock
                      /\ \A j \in ActiveIn(row') : chain'[s][n].due <= row'[j].due
    BY DEF Launched, ActiveIn
  <2>1. PICK m \in 1..Len(chain[s]) : chain'[s][n] = chain[s][m]
    BY DEF Sub
  <2>2. chain[s][m].due <= clock /\ \A j \in ActiveIn(row) : chain[s][m].due <= row[j].due
    BY DEF Launched
  <2>3. ASSUME NEW j \in ActiveIn(row') PROVE chain[s][m].due <= row'[j].due
    <3>1. j \in Jobs /\ row'[j].st = "active"
      BY DEF ActiveIn
    <3>2. CASE row[j].st = "active" /\ row'[j].due = row[j].due
      BY <2>2, <3>1, <3>2 DEF ActiveIn
    <3>3. CASE clock <= row'[j].due
      BY <1>0, <2>2, <3>1, <3>3
    <3> QED BY <3>1, <3>2, <3>3
  <2> QED BY <2>1, <2>2, <2>3
<1>4. Read'
  <2> SUFFICES ASSUME picked' # None
               PROVE  /\ row'[picked.job].st # "absent"
                      /\ picked.due <= drainNow
                      /\ \A d \in fired'[picked.job] : d < picked.due
                      /\ \A j \in ActiveIn(row') : picked.due <= row'[j].due
                      /\ \A s \in Sessions : \A n \in 1..Len(chain'[s]) :
                             chain'[s][n].due <= picked.due
    BY DEF Read, ActiveIn
  <2>0. picked # None /\ picked' = picked /\ picked.job \in Jobs /\ picked.due \in Nat
    BY <1>0
  <2>1. /\ row[picked.job].st # "absent" /\ picked.due <= drainNow
        /\ \A d \in fired[picked.job] : d < picked.due
        /\ \A j \in ActiveIn(row) : picked.due <= row[j].due
        /\ \A s \in Sessions : \A n \in 1..Len(chain[s]) : chain[s][n].due <= picked.due
    BY <2>0 DEF Read
  <2>2. \A d \in fired'[picked.job] : d < picked.due
    BY <2>0, <2>1
  <2>3. ASSUME NEW j \in ActiveIn(row') PROVE picked.due <= row'[j].due
    <3>1. j \in Jobs /\ row'[j].st = "active"
      BY DEF ActiveIn
    <3>2. CASE row[j].st = "active" /\ row'[j].due = row[j].due
      BY <2>1, <3>1, <3>2 DEF ActiveIn
    <3>3. CASE clock <= row'[j].due
      BY <1>0, <2>0, <2>1, <3>1, <3>3
    <3> QED BY <3>1, <3>2, <3>3
  <2>4. \A s \in Sessions : \A n \in 1..Len(chain'[s]) : chain'[s][n].due <= picked.due
    BY <2>1 DEF Sub
  <2> QED BY <2>0, <2>1, <2>2, <2>3, <2>4
<1> QED BY <1>1, <1>2, <1>3, <1>4

\* A step that leaves the fires alone.
LEMMA SubStays ==
    ASSUME UNCHANGED chain PROVE Sub
  BY DEF Sub

\* A step of the table that changes the row of one job.
LEMMA RowKeeps ==
    ASSUME IInv, NEW j \in Jobs, NEW r \in Rows,
           row' = [row EXCEPT ![j] = r], r.st # "absent",
           \/ r.st # "active" /\ UNCHANGED fired
           \/ r.st = "active" /\ clock <= r.due /\ Scheduled(j)
           \/ r.st = "active" /\ clock <= r.due /\ row[j].st = "absent" /\ UNCHANGED fired,
           TypeOK', UNCHANGED clock, Sub,
           picked' = None \/ (picked' = picked /\ drainNow' = drainNow),
           drainNow' <= clock
    PROVE  Table'
<1> USE DEF IInv, Table
<1>1. row \in [Jobs -> Rows] /\ fired \in [Jobs -> SUBSET Dues]
  BY DEF TypeOK
<1>2. row'[j] = r /\ \A i \in Jobs : i # j => row'[i] = row[i]
  BY <1>1
<1>3. \A i \in Jobs : fired'[i] = {} \/ fired'[i] = fired[i]
  BY <1>1 DEF Scheduled
<1>4. \A i \in Jobs : i # j => fired'[i] = fired[i]
  BY <1>1 DEF Scheduled
<1>5. r.st = "active" => clock <= r.due /\ fired'[j] = {}
  BY <1>1 DEF Scheduled, Past
<1>6. \A i \in Jobs : row'[i].st = "absent" => row[i].st = "absent"
  BY <1>2
<1>7. \A i \in Jobs : row'[i].st = "active" =>
          \/ row[i].st = "active" /\ row'[i].due = row[i].due
          \/ clock <= row'[i].due /\ fired'[i] = {}
  BY <1>2, <1>5
<1> QED BY <1>3, <1>6, <1>7, TableKeeps

LEMMA InitIInv == Init => IInv
<1> SUFFICES ASSUME Init PROVE IInv
  OBVIOUS
<1>1. TypeOK
  BY TimeAssumption, NoneAssumption, BoundAssumption
     DEF Init, TypeOK, Time, Dues, Rows, Statuses
<1>2. Table
  BY DEF Init, Table, Ahead, Past, Read, Launched
<1>3. Stages /\ DueOrder
  BY DEF Init, Stages, DueOrder
<1> QED BY <1>1, <1>2, <1>3 DEF IInv

\* A step that leaves the fires where they are.
LEMMA FiresStay ==
    ASSUME IInv, UNCHANGED chain,
           \A s \in Sessions : stage'[s] # "next" => stage[s] # "next"
    PROVE  Sub /\ Stages' /\ DueOrder'
  BY DEF IInv, Sub, Stages, DueOrder

\* The timer is armed for the due time of a row, if at all.
LEMMA RearmType ==
    ASSUME NEW table \in [Jobs -> Rows], Rearm(table)
    PROVE  armed' \in Dues \cup {None}
  BY DEF Rearm, FirstDue, ActiveIn, Rows

\* A time in the near future is one of the model's times.
LEMMA TimesAreDues ==
    ASSUME TypeOK
    PROVE  /\ Time \subseteq Dues /\ 0..(MaxTime + 1) \subseteq Dues
           /\ clock \in Time /\ clock \in Nat /\ clock + 1 \in 0..(MaxTime + 1)
           /\ clock <= clock + 1 /\ clock..MaxTime \subseteq Time
  BY TimeAssumption DEF TypeOK, Time, Dues

\* What a job is scheduled for.
LEMMA SchedulesType ==
    ASSUME TypeOK, NEW j \in Jobs, NEW at \in Schedules(j)
    PROVE  at \in 0..(MaxTime + 1)
  BY TimeAssumption DEF Schedules, TypeOK, Time

\* A new row is due now or later.
LEMMA InsertRow ==
    ASSUME TypeOK, NEW j \in Jobs, NEW at \in 0..(MaxTime + 1), Insert(j, at)
    PROVE  \E r \in Rows : /\ row' = [row EXCEPT ![j] = r]
                           /\ row[j].st = "absent" /\ r.st = "active" /\ clock <= r.due
<1> DEFINE r == [st |-> "active", at |-> at, due |-> NextFire(j, at, clock), made |-> CreatedAt(j)]
<1>1. NextFire(j, at, clock) \in Dues /\ clock <= NextFire(j, at, clock)
  BY ScheduledDue, TimesAreDues
<1>2. CreatedAt(j) \in Time
  BY TimesAreDues, TimeAssumption DEF CreatedAt, Time
<1>3. r \in Rows
  BY <1>1, <1>2, TimesAreDues DEF Rows, Statuses
<1>4. row' = [row EXCEPT ![j] = r] /\ row[j].st = "absent"
  BY DEF Insert
<1>5. r.st = "active" /\ r.due = NextFire(j, at, clock)
  OBVIOUS
<1> QED BY <1>1, <1>3, <1>4, <1>5

-----------------------------------------------------------------------------
(* Steps of others *)

\* create.
LEMMA CreateKeeps ==
    ASSUME IInv, NEW j \in Jobs, NEW at \in Schedules(j), Create(j, at)
    PROVE  IInv'
<1> USE DEF IInv
<1>1. PICK r \in Rows : /\ row' = [row EXCEPT ![j] = r] /\ r.st # "absent"
                         /\ r.st = "active" /\ clock <= r.due /\ row[j].st = "absent" /\ UNCHANGED fired
  BY SchedulesType, InsertRow DEF Create
<1>2. UNCHANGED <<clock, pc, armed, drainNow, picked, chain, stage, lock, lastIn, lastOut>>
  BY DEF Create, EditByOther, fireVars, daemonVars, chatVars, boundVars, tableVars
<1>3. edits' \in 0..MaxEdits /\ crashes' \in 0..MaxCrashes
  BY BoundAssumption DEF Create, EditByOther, boundVars, TypeOK
<1>4. fired' \in [Jobs -> SUBSET Dues]
  BY DEF Create, Scheduled, TypeOK
<1>5. TypeOK'
  BY <1>1, <1>2, <1>3, <1>4 DEF TypeOK
<1>6. Sub /\ Stages' /\ DueOrder'
  BY <1>2, FiresStay
<1>7. Table'
  BY <1>1, <1>2, <1>5, <1>6, RowKeeps DEF Table
<1> QED BY <1>5, <1>6, <1>7

\* cancel.
LEMMA CancelKeeps ==
    ASSUME IInv, NEW j \in Jobs, Cancel(j)
    PROVE  IInv'
<1> USE DEF IInv
<1>1. PICK r \in Rows : /\ row' = [row EXCEPT ![j] = r] /\ r.st # "absent"
                         /\ r.st # "active" /\ UNCHANGED fired
  <2> DEFINE r == [row[j] EXCEPT !.st = "canceled"]
  <2>1. row[j] \in Rows
    BY DEF TypeOK
  <2>2. r \in Rows /\ r.st = "canceled"
    BY <2>1 DEF Rows, Statuses
  <2>3. row' = [row EXCEPT ![j] = r] /\ UNCHANGED fired
    BY DEF Cancel
  <2> HIDE DEF r
  <2> QED BY <2>2, <2>3
<1>2. UNCHANGED <<clock, pc, armed, drainNow, picked, chain, stage, lock, lastIn, lastOut>>
  BY DEF Cancel, EditByOther, fireVars, daemonVars, chatVars, boundVars, tableVars
<1>3. edits' \in 0..MaxEdits /\ crashes' \in 0..MaxCrashes
  BY BoundAssumption DEF Cancel, EditByOther, boundVars, TypeOK
<1>4. fired' \in [Jobs -> SUBSET Dues]
  BY DEF Cancel, Scheduled, TypeOK
<1>5. TypeOK'
  BY <1>1, <1>2, <1>3, <1>4 DEF TypeOK
<1>6. Sub /\ Stages' /\ DueOrder'
  BY <1>2, FiresStay
<1>7. Table'
  BY <1>1, <1>2, <1>5, <1>6, RowKeeps DEF Table
<1> QED BY <1>5, <1>6, <1>7

\* pause.
LEMMA PauseKeeps ==
    ASSUME IInv, NEW j \in Jobs, Pause(j)
    PROVE  IInv'
<1> USE DEF IInv
<1>1. PICK r \in Rows : /\ row' = [row EXCEPT ![j] = r] /\ r.st # "absent"
                         /\ r.st # "active" /\ UNCHANGED fired
  <2> DEFINE r == [row[j] EXCEPT !.st = "paused"]
  <2>1. row[j] \in Rows
    BY DEF TypeOK
  <2>2. r \in Rows /\ r.st = "paused"
    BY <2>1 DEF Rows, Statuses
  <2>3. row' = [row EXCEPT ![j] = r] /\ UNCHANGED fired
    BY DEF Pause
  <2> HIDE DEF r
  <2> QED BY <2>2, <2>3
<1>2. UNCHANGED <<clock, pc, armed, drainNow, picked, chain, stage, lock, lastIn, lastOut>>
  BY DEF Pause, EditByOther, fireVars, daemonVars, chatVars, boundVars, tableVars
<1>3. edits' \in 0..MaxEdits /\ crashes' \in 0..MaxCrashes
  BY BoundAssumption DEF Pause, EditByOther, boundVars, TypeOK
<1>4. fired' \in [Jobs -> SUBSET Dues]
  BY DEF Pause, Scheduled, TypeOK
<1>5. TypeOK'
  BY <1>1, <1>2, <1>3, <1>4 DEF TypeOK
<1>6. Sub /\ Stages' /\ DueOrder'
  BY <1>2, FiresStay
<1>7. Table'
  BY <1>1, <1>2, <1>5, <1>6, RowKeeps DEF Table
<1> QED BY <1>5, <1>6, <1>7

\* resume: the job is due in the future.
LEMMA ResumeKeeps ==
    ASSUME IInv, NEW j \in Jobs, Resume(j)
    PROVE  IInv'
<1> USE DEF IInv
<1>1. PICK r \in Rows : /\ row' = [row EXCEPT ![j] = r] /\ r.st # "absent"
                         /\ r.st = "active" /\ clock <= r.due /\ Scheduled(j)
  <2> DEFINE due == IF KindOf[j] = "cron" THEN NextFire(j, 0, clock)
                    ELSE Later(row[j].at, clock + 1)
             r == [row[j] EXCEPT !.st = "active", !.due = due]
  <2>0. row[j] \in Rows
    BY DEF TypeOK
  <2>1. due \in Dues /\ clock <= due
    <3>1. CASE KindOf[j] = "cron"
      BY <3>1, RecurringDue, TimesAreDues, TimeAssumption DEF Dues
    <3>2. CASE KindOf[j] # "cron"
      BY <3>2, <2>0, TimesAreDues, TimeAssumption DEF Later, Rows, Dues
    <3> QED BY <3>1, <3>2
  <2>2. row' = [row EXCEPT ![j] = r] /\ Scheduled(j)
    BY DEF Resume
  <2> HIDE DEF due
  <2>3. r \in Rows /\ r.st = "active" /\ r.due = due
    BY <2>0, <2>1 DEF Rows, Statuses
  <2> QED BY <2>1, <2>2, <2>3
<1>2. UNCHANGED <<clock, pc, armed, drainNow, picked, chain, stage, lock, lastIn, lastOut>>
  BY DEF Resume, EditByOther, fireVars, daemonVars, chatVars, boundVars, tableVars
<1>3. edits' \in 0..MaxEdits /\ crashes' \in 0..MaxCrashes
  BY BoundAssumption DEF Resume, EditByOther, boundVars, TypeOK
<1>4. fired' \in [Jobs -> SUBSET Dues]
  BY DEF Resume, Scheduled, TypeOK
<1>5. TypeOK'
  BY <1>1, <1>2, <1>3, <1>4 DEF TypeOK
<1>6. Sub /\ Stages' /\ DueOrder'
  BY <1>2, FiresStay
<1>7. Table'
  BY <1>1, <1>2, <1>5, <1>6, RowKeeps DEF Table
<1> QED BY <1>5, <1>6, <1>7

\* update: the row is due now or later.
LEMMA UpdateKeeps ==
    ASSUME IInv, NEW j \in Jobs, NEW at \in Schedules(j), Update(j, at)
    PROVE  IInv'
<1> USE DEF IInv
<1>1. PICK r \in Rows : /\ row' = [row EXCEPT ![j] = r] /\ r.st # "absent"
                         /\ r.st = "active" /\ clock <= r.due /\ Scheduled(j)
  <2> DEFINE due == NextFire(j, at, clock)
             r == [row[j] EXCEPT !.at = at, !.due = due]
  <2>0. row[j] \in Rows /\ row[j].st = "active"
    BY DEF TypeOK, Update
  <2>1. due \in Dues /\ clock <= due /\ at \in Dues
    BY SchedulesType, ScheduledDue, TimesAreDues
  <2>2. row' = [row EXCEPT ![j] = r] /\ Scheduled(j)
    BY DEF Update
  <2> HIDE DEF due
  <2>3. r \in Rows /\ r.st = "active" /\ r.due = due
    BY <2>0, <2>1 DEF Rows
  <2> QED BY <2>1, <2>2, <2>3
<1>2. UNCHANGED <<clock, pc, armed, drainNow, picked, chain, stage, lock, lastIn, lastOut>>
  BY DEF Update, EditByOther, fireVars, daemonVars, chatVars, boundVars, tableVars
<1>3. edits' \in 0..MaxEdits /\ crashes' \in 0..MaxCrashes
  BY BoundAssumption DEF Update, EditByOther, boundVars, TypeOK
<1>4. fired' \in [Jobs -> SUBSET Dues]
  BY DEF Update, Scheduled, TypeOK
<1>5. TypeOK'
  BY <1>1, <1>2, <1>3, <1>4 DEF TypeOK
<1>6. Sub /\ Stages' /\ DueOrder'
  BY <1>2, FiresStay
<1>7. Table'
  BY <1>1, <1>2, <1>5, <1>6, RowKeeps DEF Table
<1> QED BY <1>5, <1>6, <1>7

\* expediteWakeUps: the row is due now.
LEMMA ExpediteKeeps ==
    ASSUME IInv, NEW j \in Jobs, Expedite(j)
    PROVE  IInv'
<1> USE DEF IInv
<1>1. PICK r \in Rows : /\ row' = [row EXCEPT ![j] = r] /\ r.st # "absent"
                         /\ r.st = "active" /\ clock <= r.due /\ Scheduled(j)
  <2> DEFINE r == [row[j] EXCEPT !.at = clock, !.due = clock]
  <2>0. row[j] \in Rows /\ row[j].st = "active"
    BY DEF TypeOK, Expedite
  <2>1. clock \in Dues /\ clock <= clock
    BY TimesAreDues
  <2>2. row' = [row EXCEPT ![j] = r] /\ Scheduled(j)
    BY DEF Expedite
  <2>3. r \in Rows /\ r.st = "active" /\ r.due = clock
    BY <2>0, <2>1 DEF Rows
  <2> QED BY <2>1, <2>2, <2>3
<1>2. UNCHANGED <<clock, pc, drainNow, picked, chain, stage, lock, lastIn, lastOut>>
      /\ armed' \in Dues \cup {None}
  <2>1. row' \in [Jobs -> Rows]
    BY <1>1 DEF TypeOK
  <2> QED BY <2>1, RearmType DEF Expedite, fireVars, daemonVars, chatVars, boundVars, tableVars
<1>3. edits' \in 0..MaxEdits /\ crashes' \in 0..MaxCrashes
  BY BoundAssumption DEF Expedite, EditByOther, boundVars, TypeOK
<1>4. fired' \in [Jobs -> SUBSET Dues]
  BY DEF Expedite, Scheduled, TypeOK
<1>5. TypeOK'
  BY <1>1, <1>2, <1>3, <1>4 DEF TypeOK
<1>6. Sub /\ Stages' /\ DueOrder'
  BY <1>2, FiresStay
<1>7. Table'
  BY <1>1, <1>2, <1>5, <1>6, RowKeeps DEF Table
<1> QED BY <1>5, <1>6, <1>7

-----------------------------------------------------------------------------
(* The scheduler *)

\* A step that leaves the table, the fires and the read job alone.
LEMMA TableStays ==
    ASSUME IInv, TypeOK', UNCHANGED <<clock, row, fired>>, Sub,
           picked' = None \/ (picked' = picked /\ drainNow' = drainNow),
           drainNow' <= clock
    PROVE  Table'
  BY TableKeeps

\* poke.
LEMMA PokeKeeps ==
    ASSUME IInv, Poke
    PROVE  IInv'
<1> USE DEF IInv
<1>1. UNCHANGED <<clock, row, fired, pc, drainNow, picked, chain, stage, lock, lastIn, lastOut,
                  edits, crashes>>
  BY DEF Poke, daemonVars, fireVars, chatVars, boundVars, tableVars
<1>2. armed' \in Dues \cup {None}
  BY RearmType DEF Poke, TypeOK
<1>3. TypeOK'
  BY <1>1, <1>2 DEF TypeOK
<1>4. Sub /\ Stages' /\ DueOrder'
  BY <1>1, FiresStay
<1>5. Table'
  BY <1>1, <1>3, <1>4, TableStays DEF Table
<1> QED BY <1>3, <1>4, <1>5

\* The timer fires.
LEMMA TimerFiresKeeps ==
    ASSUME IInv, TimerFires
    PROVE  IInv'
<1> USE DEF IInv
<1>1. /\ UNCHANGED <<clock, row, fired, picked, chain, stage, lock, lastIn, lastOut, edits, crashes>>
      /\ pc = "idle" /\ pc' = "drain" /\ armed' = None /\ drainNow' = clock
  BY DEF TimerFires, fireVars, chatVars, boundVars, tableVars
<1>2. TypeOK' /\ picked = None
  BY <1>1 DEF TypeOK
<1>3. Sub /\ Stages' /\ DueOrder'
  BY <1>1, FiresStay
<1>4. Table'
  <2>1. drainNow' <= clock
    BY <1>1, TimesAreDues
  <2> QED BY <1>1, <1>2, <1>3, <2>1, TableStays
<1> QED BY <1>2, <1>3, <1>4

\* The loop reads the earliest job, which nothing launched is due after.
LEMMA ReadDueKeeps ==
    ASSUME IInv, NEW j \in Jobs, ReadDue(j)
    PROVE  IInv'
<1> USE DEF IInv
<1> DEFINE f == [job |-> j, at |-> row[j].at, due |-> row[j].due, made |-> row[j].made]
<1>1. /\ UNCHANGED <<clock, row, fired, armed, drainNow, chain, stage, lock, lastIn, lastOut,
                     edits, crashes>>
      /\ pc' = "mark" /\ picked' = f /\ FirstDue(row, j) /\ row[j].due <= drainNow
  BY DEF ReadDue, fireVars, chatVars, boundVars, tableVars
<1>2. f \in Fires /\ f # None
  <2>1. row[j] \in Rows
    BY DEF TypeOK
  <2> QED BY <2>1, NoneAssumption DEF Fires, Rows
<1>3. TypeOK'
  BY <1>1, <1>2 DEF TypeOK
<1>4. Sub /\ Stages' /\ DueOrder'
  BY <1>1, FiresStay
<1>5. Read'
  <2>1. row[j].st = "active" /\ j \in ActiveIn(row) /\ \A i \in ActiveIn(row) : row[j].due <= row[i].due
    BY <1>1 DEF FirstDue, ActiveIn
  <2>2. \A d \in fired[j] : d < row[j].due
    BY <2>1 DEF Table, Ahead
  <2>3. \A s \in Sessions : \A n \in 1..Len(chain[s]) : chain[s][n].due <= row[j].due
    BY <2>1 DEF Table, Launched
  <2>4. f.job = j /\ f.due = row[j].due
    OBVIOUS
  <2> HIDE DEF f
  <2> QED BY <1>1, <2>1, <2>2, <2>3, <2>4 DEF Read, ActiveIn
<1>6. Table'
  BY <1>1, <1>5 DEF Table, Ahead, Past, Launched, ActiveIn
<1> QED BY <1>3, <1>4, <1>6

\* The loop ends.
LEMMA DrainEndsKeeps ==
    ASSUME IInv, DrainEnds
    PROVE  IInv'
<1> USE DEF IInv
<1>1. /\ UNCHANGED <<clock, row, fired, picked, chain, stage, lock, lastIn, lastOut, edits, crashes>>
      /\ pc = "drain" /\ pc' = "idle" /\ drainNow' = 0
  BY DEF DrainEnds, fireVars, chatVars, boundVars, tableVars
<1>2. armed' \in Dues \cup {None}
  BY RearmType DEF DrainEnds, TypeOK
<1>3. TypeOK' /\ picked = None
  BY <1>1, <1>2, TimeAssumption DEF TypeOK, Time
<1>4. Sub /\ Stages' /\ DueOrder'
  BY <1>1, FiresStay
<1>5. Table'
  BY <1>1, <1>3, <1>4, TableStays, TimesAreDues
<1> QED BY <1>3, <1>4, <1>5

\* markFired and launch: the fire joins the end of its session's chain, where
\* all are due no later; its row is due after now, or done.
LEMMA MarkFiredKeeps ==
    ASSUME IInv, MarkFired
    PROVE  IInv'
<1> USE DEF IInv
<1> DEFINE j == picked.job
           s == SessionOf[picked.job]
           r == IF KindOf[j] = "cron"
                THEN [row[j] EXCEPT !.st = "active", !.due = NextFire(j, picked.at, clock)]
                ELSE [row[j] EXCEPT !.st = "done"]
<1>1. /\ pc = "mark" /\ pc' = "drain" /\ picked' = None
      /\ row' = [row EXCEPT ![j] = r]
      /\ chain' = [chain EXCEPT ![s] = Append(@, picked)]
      /\ fired' = [fired EXCEPT ![j] = @ \cup {picked.due}]
      /\ UNCHANGED <<clock, armed, drainNow, stage, lock, lastIn, lastOut, edits, crashes>>
  BY DEF MarkFired, chatVars, boundVars
<1>2. picked # None /\ picked \in Fires /\ j \in Jobs /\ s \in Sessions
      /\ picked.due \in Dues /\ picked.due \in Nat
  <2>1. picked # None /\ picked \in Fires
    BY <1>1 DEF TypeOK
  <2>2. picked.job \in Jobs /\ picked.due \in Dues
    BY <2>1 DEF Fires
  <2>3. SessionOf[picked.job] \in Sessions
    BY <2>2, JobAssumption
  <2>4. picked.due \in Nat
    BY <2>2, TimeAssumption DEF Dues
  <2> QED BY <2>1, <2>2, <2>3, <2>4
<1>3. row[j] \in Rows /\ clock \in Nat /\ clock \in Time /\ drainNow \in Nat
  BY <1>2, TimeAssumption DEF TypeOK, Time
<1>4. KindOf[j] = "cron" => NextFire(j, picked.at, clock) \in Dues
                            /\ clock < NextFire(j, picked.at, clock)
  BY <1>2, <1>3, RecurringDue
<1>5. r \in Rows /\ r.st # "absent" /\ (r.st = "active" => clock < r.due)
  <2>1. CASE KindOf[j] = "cron"
    <3>1. r = [row[j] EXCEPT !.st = "active", !.due = NextFire(j, picked.at, clock)]
      BY <2>1
    <3> HIDE DEF r, j
    <3> QED BY <1>3, <1>4, <2>1, <3>1 DEF Rows, Statuses
  <2>2. CASE KindOf[j] # "cron"
    <3>1. r = [row[j] EXCEPT !.st = "done"]
      BY <2>2
    <3> HIDE DEF r, j
    <3> QED BY <1>3, <2>2, <3>1 DEF Rows, Statuses
  <2> QED BY <2>1, <2>2
<1> HIDE DEF r, j, s
<1>6. /\ row \in [Jobs -> Rows] /\ fired \in [Jobs -> SUBSET Dues]
      /\ chain \in [Sessions -> Seq(Fires)]
  BY DEF TypeOK
<1>7. /\ row'[j] = r /\ fired'[j] = fired[j] \cup {picked.due}
      /\ \A i \in Jobs : i # j => row'[i] = row[i] /\ fired'[i] = fired[i]
  BY <1>1, <1>2, <1>6
<1>8. /\ chain'[s] = Append(chain[s], picked) /\ chain[s] \in Seq(Fires)
      /\ \A z \in Sessions : z # s => chain'[z] = chain[z]
  BY <1>1, <1>2, <1>6
<1>9. /\ Len(chain'[s]) = Len(chain[s]) + 1 /\ Len(chain[s]) \in Nat
      /\ chain'[s][Len(chain[s]) + 1] = picked
      /\ chain'[s] # <<>>
      /\ \A n \in 1..Len(chain[s]) : chain'[s][n] = chain[s][n]
  BY <1>2, <1>8
<1>10. TypeOK'
  <2>1. row' \in [Jobs -> Rows] /\ fired' \in [Jobs -> SUBSET Dues]
    BY <1>1, <1>2, <1>5, <1>6
  <2>2. chain' \in [Sessions -> Seq(Fires)]
    BY <1>1, <1>2, <1>6, <1>8
  <2> QED BY <1>1, <2>1, <2>2 DEF TypeOK
<1>11. Stages'
  BY <1>1, <1>8, <1>9 DEF Stages
<1>12. /\ picked.due <= drainNow /\ drainNow <= clock /\ picked.due <= clock
       /\ \A i \in ActiveIn(row) : picked.due <= row[i].due
       /\ \A z \in Sessions : \A n \in 1..Len(chain[z]) : chain[z][n].due <= picked.due
  BY <1>2, <1>3 DEF Table, Read
<1>13. DueOrder'
  <2> SUFFICES ASSUME NEW z \in Sessions, NEW m \in 1..Len(chain'[z]),
                      NEW n \in 1..Len(chain'[z]), m < n
               PROVE  chain'[z][m].due <= chain'[z][n].due
    BY DEF DueOrder
  <2>1. CASE z # s
    BY <2>1, <1>8 DEF DueOrder
  <2>2. CASE z = s
    <3>1. m \in 1..Len(chain[s]) /\ chain'[s][m] = chain[s][m]
      BY <2>2, <1>9
    <3>2. CASE n \in 1..Len(chain[s])
      BY <2>2, <3>1, <3>2, <1>2, <1>9 DEF DueOrder
    <3>3. CASE n = Len(chain[s]) + 1
      BY <2>2, <3>1, <3>3, <1>2, <1>9, <1>12
    <3> QED BY <2>2, <3>2, <3>3, <1>9
  <2> QED BY <2>1, <2>2
<1>14. Ahead'
  <2> SUFFICES ASSUME NEW i \in Jobs, row'[i].st = "active", NEW d \in fired'[i]
               PROVE  d < row'[i].due
    BY DEF Ahead
  <2>1. CASE i # j
    BY <2>1, <1>7 DEF Table, Ahead
  <2>2. CASE i = j
    <3>1. d \in Nat /\ d <= clock
      BY <2>2, <1>2, <1>6, <1>7, <1>12, TimeAssumption DEF Table, Past, Dues
    <3>2. row'[i].due \in Nat /\ clock < row'[i].due
      BY <2>2, <1>5, <1>7, TimeAssumption DEF Rows, Dues
    <3> QED BY <3>1, <3>2, <1>3
  <2> QED BY <2>1, <2>2
<1>15. Past'
  BY <1>1, <1>2, <1>5, <1>7, <1>12 DEF Table, Past
<1>16. Launched'
  <2> SUFFICES ASSUME NEW z \in Sessions, NEW n \in 1..Len(chain'[z])
               PROVE  /\ chain'[z][n].due <= clock
                      /\ \A i \in ActiveIn(row') : chain'[z][n].due <= row'[i].due
    BY <1>1 DEF Launched, ActiveIn
  <2>1. /\ chain'[z][n].due \in Nat
        /\ chain'[z][n].due <= clock
        /\ \A i \in ActiveIn(row) : chain'[z][n].due <= row[i].due
    <3>1. CASE z \in Sessions /\ n \in 1..Len(chain[z]) /\ chain'[z][n] = chain[z][n]
      <4>1. chain[z][n] \in Fires
        BY <3>1, <1>6
      <4> QED BY <3>1, <4>1, TimeAssumption DEF Table, Launched, Fires, Dues
    <3>2. CASE chain'[z][n] = picked
      BY <3>2, <1>2, <1>12
    <3> QED BY <3>1, <3>2, <1>8, <1>9
  <2>2. ASSUME NEW i \in ActiveIn(row') PROVE chain'[z][n].due <= row'[i].due
    <3>1. i \in Jobs /\ row'[i].st = "active"
      BY DEF ActiveIn
    <3>2. CASE i # j
      BY <3>1, <3>2, <1>7, <2>1 DEF ActiveIn
    <3>3. CASE i = j
      <4>1. row'[i].due \in Nat /\ clock < row'[i].due
        BY <3>1, <3>3, <1>5, <1>7, TimeAssumption DEF Rows, Dues
      <4> QED BY <4>1, <2>1, <1>3
    <3> QED BY <3>2, <3>3
  <2> QED BY <2>1, <2>2
<1>17. Read'
  BY <1>1 DEF Read
<1>18. Table'
  BY <1>1, <1>12, <1>14, <1>15, <1>16, <1>17 DEF Table
<1> QED BY <1>10, <1>11, <1>13, <1>18

-----------------------------------------------------------------------------
(* The fires and the turns; the scheduler's loop does not run meanwhile *)

\* Nothing has been read while the daemon is idle.
LEMMA IdleReadsNothing ==
    ASSUME TypeOK, pc = "idle"
    PROVE  picked = None
  BY DEF TypeOK

\* The next fire is skipped, or waits for the lock.
LEMMA FireStartsKeeps ==
    ASSUME IInv, NEW s \in Sessions, pc = "idle", FireStarts(s)
    PROVE  IInv'
<1> USE DEF IInv
<1>1. /\ UNCHANGED <<clock, row, fired, pc, armed, drainNow, picked, lock, lastIn, lastOut,
                     edits, crashes>>
      /\ chain[s] # <<>> /\ stage[s] = "next"
  BY DEF FireStarts, daemonVars, chatVars, boundVars, tableVars
<1>2. CASE chain' = [chain EXCEPT ![s] = Tail(@)] /\ UNCHANGED stage
  <2>1. /\ chain' \in [Sessions -> Seq(Fires)] /\ Sub /\ DueOrder'
        /\ \A z \in Sessions : z # s => chain'[z] = chain[z]
    BY <1>1, <1>2, TailKeeps
  <2>2. TypeOK'
    BY <1>1, <1>2, <2>1 DEF TypeOK
  <2>3. Stages'
    BY <1>1, <1>2, <2>1 DEF Stages
  <2>4. Table'
    BY <1>1, <2>1, <2>2, TableStays DEF Table
  <2> QED BY <2>1, <2>2, <2>3, <2>4
<1>3. CASE UNCHANGED chain /\ stage' = [stage EXCEPT ![s] = "waiting"]
  <2>1. TypeOK'
    BY <1>1, <1>3 DEF TypeOK
  <2>2. Stages' /\ Sub /\ DueOrder'
    BY <1>1, <1>3 DEF Stages, Sub, DueOrder, TypeOK
  <2>3. Table'
    BY <1>1, <2>1, <2>2, TableStays DEF Table
  <2> QED BY <2>1, <2>2, <2>3
<1> QED BY <1>2, <1>3 DEF FireStarts

\* The fire is granted the lock.
LEMMA FireRunsKeeps ==
    ASSUME IInv, NEW s \in Sessions, FireRuns(s)
    PROVE  IInv'
<1> USE DEF IInv
<1>1. /\ UNCHANGED <<clock, row, fired, pc, armed, drainNow, picked, chain, lastIn, lastOut,
                     edits, crashes>>
      /\ stage[s] = "waiting" /\ stage' = [stage EXCEPT ![s] = "running"]
      /\ lock' = [lock EXCEPT ![s] = "fire"]
  BY DEF FireRuns, daemonVars, boundVars, tableVars
<1>2. TypeOK'
  BY <1>1 DEF TypeOK
<1>3. \A z \in Sessions : stage'[z] # "next" => stage[z] # "next"
  BY <1>1 DEF TypeOK
<1>4. Sub /\ Stages' /\ DueOrder'
  BY <1>1, <1>3, FiresStay
<1>5. Table'
  BY <1>1, <1>2, <1>4, TableStays DEF Table
<1> QED BY <1>2, <1>4, <1>5

\* The fire is over; its job may be put off, or a retry inserted.
LEMMA FireEndsKeeps ==
    ASSUME IInv, NEW s \in Sessions, pc = "idle", FireEnds(s)
    PROVE  IInv'
<1> USE DEF IInv
<1> DEFINE j == Head(chain[s]).job
<1>1. /\ UNCHANGED <<clock, pc, armed, drainNow, picked, lastIn, lastOut, edits, crashes>>
      /\ stage[s] = "running" /\ stage' = [stage EXCEPT ![s] = "next"]
      /\ lock' = [lock EXCEPT ![s] = "free"]
      /\ chain' = [chain EXCEPT ![s] = Tail(@)]
      /\ UNCHANGED tableVars \/ DeferMidFire(j) \/ ScheduleRetry(j)
  BY DEF FireEnds, daemonVars, boundVars
<1>2. chain[s] # <<>> /\ chain[s] \in Seq(Fires)
  BY <1>1 DEF Stages, TypeOK
<1>3. j \in Jobs
  <2>1. Head(chain[s]) \in Fires
    BY <1>2
  <2> QED BY <2>1 DEF Fires
<1> HIDE DEF j
<1>4. /\ chain' \in [Sessions -> Seq(Fires)] /\ Sub /\ DueOrder'
      /\ \A z \in Sessions : z # s => chain'[z] = chain[z]
  BY <1>1, <1>2, TailKeeps
<1>5. Stages'
  BY <1>1, <1>4 DEF Stages, TypeOK
<1>6. ASSUME row' \in [Jobs -> Rows], fired' \in [Jobs -> SUBSET Dues] PROVE TypeOK'
  BY <1>1, <1>4, <1>6 DEF TypeOK
<1>7. drainNow' <= clock
  BY <1>1 DEF Table
<1>8. CASE UNCHANGED tableVars
  <2>1. UNCHANGED <<row, fired>> /\ TypeOK'
    BY <1>6, <1>8 DEF tableVars, TypeOK
  <2>2. Table'
    BY <1>1, <1>4, <1>7, <2>1, TableStays
  <2> QED BY <1>4, <1>5, <2>1, <2>2
<1>9. CASE DeferMidFire(j)
  <2> DEFINE r == [row[j] EXCEPT !.st = "active", !.due = clock + 1]
  <2>1. row[j] \in Rows
    BY <1>3 DEF TypeOK
  <2>2. r \in Rows /\ r.st = "active" /\ r.due = clock + 1
    BY <2>1, TimesAreDues DEF Rows, Statuses
  <2>3. row' = [row EXCEPT ![j] = r] /\ Scheduled(j)
    BY <1>9 DEF DeferMidFire
  <2> HIDE DEF r
  <2>4. TypeOK'
    BY <1>3, <1>6, <2>2, <2>3 DEF Scheduled, TypeOK
  <2>5. clock <= r.due
    BY <2>2, TimesAreDues
  <2>6. Table'
    BY <1>1, <1>3, <1>4, <1>7, <2>2, <2>3, <2>4, <2>5, RowKeeps
  <2> QED BY <1>4, <1>5, <2>4, <2>6
<1>10. CASE ScheduleRetry(j)
  <2>1. PICK i \in Jobs : Insert(i, clock + 1) /\ UNCHANGED fired
    BY <1>10 DEF ScheduleRetry
  <2>2. PICK r \in Rows : /\ row' = [row EXCEPT ![i] = r]
                          /\ row[i].st = "absent" /\ r.st = "active" /\ clock <= r.due
    BY <2>1, TimesAreDues, InsertRow
  <2>3. TypeOK'
    BY <1>6, <2>1, <2>2 DEF TypeOK
  <2>4. Table'
    BY <1>1, <1>4, <1>7, <2>1, <2>2, <2>3, RowKeeps
  <2> QED BY <1>4, <1>5, <2>3, <2>4
<1> QED BY <1>1, <1>8, <1>9, <1>10

\* A turn gets the lock.
LEMMA TurnStartsKeeps ==
    ASSUME IInv, NEW s \in Sessions, TurnStarts(s)
    PROVE  IInv'
<1> USE DEF IInv
<1>1. /\ UNCHANGED <<clock, row, fired, pc, armed, drainNow, picked, chain, stage, lastOut,
                     edits, crashes>>
      /\ lock' = [lock EXCEPT ![s] = "turn"] /\ lastIn' = [lastIn EXCEPT ![s] = clock]
  BY DEF TurnStarts, daemonVars, fireVars, boundVars, tableVars
<1>2. TypeOK'
  BY <1>1 DEF TypeOK
<1>3. Sub /\ Stages' /\ DueOrder'
  BY <1>1, FiresStay
<1>4. Table'
  BY <1>1, <1>2, <1>3, TableStays DEF Table
<1> QED BY <1>2, <1>3, <1>4

\* A turn answers, and cancels retries.
LEMMA TurnAnswersKeeps ==
    ASSUME IInv, NEW s \in Sessions, TurnAnswers(s)
    PROVE  IInv'
<1> USE DEF IInv
<1>1. /\ UNCHANGED <<clock, fired, pc, armed, drainNow, picked, chain, stage, lastIn, edits, crashes>>
      /\ lock' = [lock EXCEPT ![s] = "free"] /\ lastOut' = [lastOut EXCEPT ![s] = clock]
      /\ row' = [j \in Jobs |->
                  IF SessionOf[j] = s /\ KindOf[j] = "inbound" /\ row[j].st = "active"
                  THEN [row[j] EXCEPT !.st = "canceled"] ELSE row[j]]
  BY DEF TurnAnswers, daemonVars, fireVars, boundVars
<1>2. \A j \in Jobs : row'[j] \in Rows
          /\ (row'[j] = row[j] \/ (row[j].st = "active" /\ row'[j].st = "canceled"))
  <2> SUFFICES ASSUME NEW j \in Jobs
               PROVE  row'[j] \in Rows
                      /\ (row'[j] = row[j] \/ (row[j].st = "active" /\ row'[j].st = "canceled"))
    OBVIOUS
  <2>1. row[j] \in Rows
    BY DEF TypeOK
  <2>2. [row[j] EXCEPT !.st = "canceled"] \in Rows
        /\ [row[j] EXCEPT !.st = "canceled"].st = "canceled"
    BY <2>1 DEF Rows, Statuses
  <2> QED BY <1>1, <2>1, <2>2
<1>3. row' \in [Jobs -> Rows]
  BY <1>1, <1>2
<1>4. TypeOK'
  BY <1>1, <1>3 DEF TypeOK
<1>5. Sub /\ Stages' /\ DueOrder'
  BY <1>1, FiresStay
<1>6. drainNow' <= clock
  BY <1>1 DEF Table
<1>7. /\ \A j \in Jobs : row'[j].st = "absent" => row[j].st = "absent"
      /\ \A j \in Jobs : row'[j].st = "active" => row[j].st = "active" /\ row'[j].due = row[j].due
  BY <1>2
<1>8. Table'
  BY <1>1, <1>4, <1>5, <1>6, <1>7, TableKeeps
<1> QED BY <1>4, <1>5, <1>8

\* A turn fails, and leaves a retry.
LEMMA TurnFailsKeeps ==
    ASSUME IInv, NEW s \in Sessions, TurnFails(s)
    PROVE  IInv'
<1> USE DEF IInv
<1>1. /\ UNCHANGED <<clock, fired, pc, armed, drainNow, picked, chain, stage, lastIn, lastOut,
                     edits, crashes>>
      /\ lock' = [lock EXCEPT ![s] = "free"]
  BY DEF TurnFails, daemonVars, fireVars, boundVars
<1>2. PICK j \in Jobs : Insert(j, clock + 1)
  BY DEF TurnFails
<1>3. PICK r \in Rows : /\ row' = [row EXCEPT ![j] = r]
                        /\ row[j].st = "absent" /\ r.st = "active" /\ clock <= r.due
  BY <1>2, TimesAreDues, InsertRow
<1>4. TypeOK'
  BY <1>1, <1>3 DEF TypeOK
<1>5. Sub /\ Stages' /\ DueOrder'
  BY <1>1, FiresStay
<1>6. Table'
  BY <1>1, <1>3, <1>4, <1>5, RowKeeps DEF Table
<1> QED BY <1>4, <1>5, <1>6

\* A crash drops the fires and what was read.
LEMMA CrashKeeps ==
    ASSUME IInv, Crash
    PROVE  IInv'
<1> USE DEF IInv
<1>1. /\ UNCHANGED <<clock, row, fired, lastIn, lastOut, edits>>
      /\ pc' = "down" /\ armed' = None /\ drainNow' = 0 /\ picked' = None
      /\ chain' = [s \in Sessions |-> <<>>] /\ stage' = [s \in Sessions |-> "next"]
      /\ lock' = [s \in Sessions |-> "free"]
      /\ crashes < MaxCrashes /\ crashes' = crashes + 1
  BY DEF Crash, tableVars
<1>2. crashes' \in 0..MaxCrashes
  BY <1>1, BoundAssumption DEF TypeOK
<1>3. TypeOK'
  BY <1>1, <1>2, TimeAssumption DEF TypeOK, Time
<1>4. Sub /\ Stages' /\ DueOrder'
  BY <1>1 DEF Sub, Stages, DueOrder
<1>5. Table'
  BY <1>1, <1>3, <1>4, TimesAreDues, TableStays
<1> QED BY <1>3, <1>4, <1>5

\* start.
LEMMA BootKeeps ==
    ASSUME IInv, Boot
    PROVE  IInv'
<1> USE DEF IInv
<1>1. /\ UNCHANGED <<clock, row, fired, drainNow, picked, chain, stage, lock, lastIn, lastOut,
                     edits, crashes>>
      /\ pc = "down" /\ pc' = "idle"
  BY DEF Boot, fireVars, chatVars, boundVars, tableVars
<1>2. armed' \in Dues \cup {None}
  BY RearmType DEF Boot, TypeOK
<1>3. TypeOK'
  BY <1>1, <1>2 DEF TypeOK
<1>4. Sub /\ Stages' /\ DueOrder'
  BY <1>1, FiresStay
<1>5. Table'
  BY <1>1, <1>3, <1>4, TableStays DEF Table
<1> QED BY <1>3, <1>4, <1>5

\* What is past stays past.
LEMMA TickKeeps ==
    ASSUME IInv, Tick
    PROVE  IInv'
<1> USE DEF IInv
<1>1. /\ UNCHANGED <<row, fired, pc, armed, drainNow, picked, chain, stage, lock, lastIn, lastOut,
                     edits, crashes>>
      /\ clock < MaxTime /\ clock' = clock + 1
  BY DEF Tick, daemonVars, fireVars, chatVars, boundVars, tableVars
<1>2. clock \in Nat /\ clock' \in Time /\ drainNow \in Nat
  BY <1>1, TimeAssumption DEF TypeOK, Time
<1>3. TypeOK'
  BY <1>1, <1>2 DEF TypeOK
<1>4. Stages' /\ DueOrder'
  BY <1>1, FiresStay
<1>5. Past'
  <2> SUFFICES ASSUME NEW j \in Jobs, NEW d \in fired[j] PROVE d <= clock + 1
    BY <1>1 DEF Past, Table
  <2>1. d \in Nat /\ d <= clock
    BY TimeAssumption DEF TypeOK, Dues, Table, Past
  <2> QED BY <1>2, <2>1
<1>6. Launched'
  <2> SUFFICES ASSUME NEW s \in Sessions, NEW n \in 1..Len(chain[s])
               PROVE  chain[s][n].due <= clock + 1
    BY <1>1 DEF Launched, ActiveIn, Table
  <2>1. chain[s][n] \in Fires /\ chain[s][n].due <= clock
    BY DEF TypeOK, Table, Launched
  <2>2. chain[s][n].due \in Nat
    BY <2>1, TimeAssumption DEF Fires, Dues
  <2> QED BY <1>2, <2>1, <2>2
<1>7. Table'
  BY <1>1, <1>2, <1>5, <1>6 DEF Table, Ahead, Read, ActiveIn
<1> QED BY <1>3, <1>4, <1>7

-----------------------------------------------------------------------------

\* Every step keeps the invariant.
LEMMA NextKeeps == IInv /\ [Next]_vars => IInv'
<1> SUFFICES ASSUME IInv, [Next]_vars PROVE IInv'
  OBVIOUS
<1>1. ASSUME Outside PROVE IInv'
  BY <1>1, CreateKeeps, UpdateKeeps, CancelKeeps, PauseKeeps, ResumeKeeps DEF Outside
<1>2. ASSUME Poke \/ TimerFires \/ Drain PROVE IInv'
  BY <1>2, PokeKeeps, TimerFiresKeeps, ReadDueKeeps, DrainEndsKeeps, MarkFiredKeeps DEF Drain
<1>3. ASSUME NEW j \in Jobs, Expedite(j) PROVE IInv'
  BY <1>3, ExpediteKeeps
<1>4. ASSUME NEW s \in Sessions, Session(s) PROVE IInv'
  BY <1>4, FireStartsKeeps, FireRunsKeeps, FireEndsKeeps, TurnStartsKeeps, TurnAnswersKeeps,
     TurnFailsKeeps DEF Session
<1>5. ASSUME Crash \/ Boot \/ Tick PROVE IInv'
  BY <1>5, CrashKeeps, BootKeeps, TickKeeps
<1>6. ASSUME UNCHANGED vars PROVE IInv'
  BY <1>6 DEF vars, tableVars, daemonVars, fireVars, chatVars, boundVars, IInv, TypeOK, Table,
              Ahead, Past, Read, Launched, ActiveIn, Stages, DueOrder
<1> QED BY <1>1, <1>2, <1>3, <1>4, <1>5, <1>6 DEF Next

\* The invariant of the scheduler.
THEOREM Invariance == Spec => []IInv
<1>1. Init => IInv
  BY InitIInv
<1>2. IInv /\ [Next]_vars => IInv'
  BY NextKeeps
<1> QED BY <1>1, <1>2, PTL DEF Spec

\* Every variable of the scheduler keeps its type.
THEOREM Typing == Spec => []TypeOK
<1>1. IInv => TypeOK
  BY DEF IInv
<1> QED BY <1>1, Invariance, PTL

\* The fires of a session wait in the order of their due times.
THEOREM InDueOrder == Spec => []DueOrder
<1>1. IInv => DueOrder
  BY DEF IInv
<1> QED BY <1>1, Invariance, PTL

\* No job is marked twice for one due time, whoever changes its row and wherever
\* the daemon crashes.
THEOREM NeverTwice == Spec => AtMostOnce
<1>1. IInv => (pc = "mark" /\ pc' = "drain" => picked.due \notin fired[picked.job])
  <2> SUFFICES ASSUME IInv, pc = "mark", picked.due \in fired[picked.job] PROVE FALSE
    OBVIOUS
  <2>1. picked # None /\ picked \in Fires
    BY DEF IInv, TypeOK
  <2>2. picked.due < picked.due
    BY <2>1 DEF IInv, Table, Read
  <2>3. picked.due \in Nat
    BY <2>1, TimeAssumption DEF Fires, Dues
  <2> QED BY <2>2, <2>3
<1> QED BY <1>1, Invariance, PTL DEF AtMostOnce

\* A row that is written for one job leaves the others.
LEMMA OneRow ==
    ASSUME TypeOK, NEW i \in Jobs, NEW r, row' = [row EXCEPT ![i] = r],
           row[i].st # "canceled" \/ r.st = "canceled",
           NEW j \in Jobs, row[j].st = "canceled"
    PROVE  row'[j].st = "canceled"
  BY DEF TypeOK

\* A canceled row is written by nobody but a drain that had read it before.
LEMMA CanceledStays ==
    ASSUME TypeOK, Next, NEW j \in Jobs, row[j].st = "canceled", row'[j].st # "canceled"
    PROVE  pc = "mark" /\ picked.job = j
<1>1. CASE UNCHANGED row
  BY <1>1
<1>2. CASE MarkFired
  <2>1. PICK r : row' = [row EXCEPT ![picked.job] = r]
    BY <1>2 DEF MarkFired
  <2>2. pc = "mark"
    BY <1>2 DEF MarkFired
  <2> QED BY <2>1, <2>2 DEF TypeOK
<1>3. ASSUME NEW i \in Jobs, NEW r, row' = [row EXCEPT ![i] = r], row[i].st # "canceled" PROVE FALSE
  BY <1>3, OneRow
<1>4. CASE Outside
  <2>1. PICK i \in Jobs : \/ \E at \in Schedules(i) : Create(i, at) \/ Update(i, at)
                          \/ Cancel(i) \/ Pause(i) \/ Resume(i)
    BY <1>4 DEF Outside
  <2>2. ASSUME NEW at, Create(i, at) PROVE FALSE
    BY <1>3, <2>2 DEF Create, Insert
  <2>3. ASSUME NEW at, Update(i, at) PROVE FALSE
    BY <1>3, <2>3 DEF Update
  <2>4. CASE Cancel(i) \/ Pause(i)
    BY <1>3, <2>4 DEF Cancel, Pause
  <2>5. CASE Resume(i)
    BY <1>3, <2>5 DEF Resume
  <2> QED BY <2>1, <2>2, <2>3, <2>4, <2>5
<1>5. ASSUME NEW i \in Jobs, Expedite(i) PROVE FALSE
  BY <1>3, <1>5 DEF Expedite
<1>6. ASSUME NEW s \in Sessions, Session(s) PROVE FALSE
  <2>1. CASE FireStarts(s) \/ FireRuns(s) \/ TurnStarts(s)
    BY <2>1 DEF FireStarts, FireRuns, TurnStarts, tableVars
  <2>2. CASE FireEnds(s)
    <3>1. CASE UNCHANGED tableVars
      BY <3>1 DEF tableVars
    <3>2. CASE DeferMidFire(Head(chain[s]).job)
      <4>1. PICK i : row[i].st # "canceled" /\ \E r : row' = [row EXCEPT ![i] = r]
                     /\ i = Head(chain[s]).job
        BY <3>2 DEF DeferMidFire
      <4>2. CASE i \in Jobs
        BY <1>3, <4>1, <4>2
      <4>3. CASE i \notin Jobs
        BY <4>1, <4>3 DEF TypeOK
      <4> QED BY <4>2, <4>3
    <3>3. CASE ScheduleRetry(Head(chain[s]).job)
      BY <1>3, <3>3 DEF ScheduleRetry, Insert
    <3> QED BY <2>2, <3>1, <3>2, <3>3 DEF FireEnds
  <2>3. CASE TurnAnswers(s)
    BY <2>3 DEF TurnAnswers
  <2>4. CASE TurnFails(s)
    BY <1>3, <2>4 DEF TurnFails, Insert
  <2> QED BY <1>6, <2>1, <2>2, <2>3, <2>4 DEF Session
<1>7. CASE Poke \/ TimerFires \/ DrainEnds \/ (\E i \in Jobs : ReadDue(i)) \/ Crash \/ Boot \/ Tick
  BY <1>7 DEF Poke, TimerFires, DrainEnds, ReadDue, Crash, Boot, Tick, tableVars
<1> QED BY <1>1, <1>2, <1>4, <1>5, <1>6, <1>7 DEF Next, Drain

\* "Canceled rows stay untouchable", but for a drain that read the row just before.
THEOREM CancelHolds == Spec => CanceledIsFinal
<1>1. TypeOK /\ [Next]_vars => [\A j \in Jobs : row[j].st = "canceled" /\ row'[j].st # "canceled"
                                    => pc = "mark" /\ picked.job = j]_vars
  BY CanceledStays
<1> QED BY <1>1, Typing, PTL DEF Spec, CanceledIsFinal

-----------------------------------------------------------------------------
(* The end of a drain *)

\* What the drain still has to fire.
DueRows == {j \in ActiveIn(row) : row[j].due <= drainNow}

\* The mark is the one step from a job that was read back to the loop.
LEMMA OnlyMarkReturns ==
    ASSUME Next, pc = "mark", pc' = "drain"
    PROVE  MarkFired
  BY DEF Next, Outside, Create, Update, Cancel, Pause, Resume, Poke, TimerFires, Drain, ReadDue,
         DrainEnds, Expedite, Session, Crash, Boot, Tick, daemonVars

\* A job that was marked is not due in this drain any more, and no other becomes
\* due by it: a recurring job is next due after now, also when a cancel or a pause
\* of its row was overwritten.
LEMMA MarkTakesOne ==
    ASSUME IInv, MarkFired
    PROVE  DueRows' = DueRows \ {picked.job}
<1> DEFINE j == picked.job
<1>1. /\ picked \in Fires /\ j \in Jobs /\ clock \in Time /\ drainNow \in Time
      /\ drainNow <= clock /\ row \in [Jobs -> Rows] /\ UNCHANGED drainNow
  BY DEF IInv, TypeOK, Table, MarkFired, Fires
<1>2. ASSUME NEW i \in Jobs, i # j PROVE row'[i] = row[i]
  BY <1>1, <1>2 DEF MarkFired
<1>3. j \notin DueRows'
  <2>1. CASE KindOf[j] = "cron"
    <3>1. clock < NextFire(j, picked.at, clock) /\ NextFire(j, picked.at, clock) \in Dues
      BY <1>1, <2>1, RecurringDue
    <3>2. row'[j].due = NextFire(j, picked.at, clock)
      BY <1>1, <2>1 DEF MarkFired, Rows
    <3>3. ~(row'[j].due <= drainNow)
      BY <1>1, <3>1, <3>2, TimeAssumption DEF Time, Dues
    <3> QED BY <1>1, <3>3 DEF DueRows
  <2>2. CASE KindOf[j] # "cron"
    <3>1. row'[j].st = "done"
      BY <1>1, <2>2 DEF MarkFired, Rows
    <3> QED BY <3>1 DEF DueRows, ActiveIn
  <2> QED BY <2>1, <2>2
<1>4. ASSUME NEW i \in Jobs, i # j PROVE i \in DueRows' <=> i \in DueRows
  BY <1>1, <1>2, <1>4 DEF DueRows, ActiveIn
<1> QED BY <1>3, <1>4 DEF DueRows, ActiveIn

\* Each job that the drain marks leaves fewer to fire, so that a drain ends unless
\* other processes go on scheduling (scheduler.ts fireDue, store.ts markFired): the
\* loop never comes back to a job for the same time, nor to a recurring job that
\* it put ahead.
THEOREM TheDrainGoesOn ==
    Spec => [][pc = "mark" /\ pc' = "drain" => DueRows' = DueRows \ {picked.job}]_vars
<1>1. IInv /\ [Next]_vars => [pc = "mark" /\ pc' = "drain" => DueRows' = DueRows \ {picked.job}]_vars
  BY OnlyMarkReturns, MarkTakesOne
<1> QED BY <1>1, Invariance, PTL DEF Spec
=============================================================================
