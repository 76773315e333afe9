------------------------------- MODULE Worker -------------------------------
(***************************************************************************)
(* One warm CLI process and the turns it is given.                         *)
(*                                                                         *)
(*   src/src/claude/worker.ts     Worker: turn, inject, compact, shutdown, *)
(*                                die, handleEvent                         *)
(*   src/src/claude/mid-turn.ts   recordSeenMidTurn                        *)
(*                                                                         *)
(* The CLI is a process of its own: it reads lines from its stdin, and     *)
(* what it writes waits in a pipe until the daemon's data handler takes    *)
(* it.  Its part (Cli...) is external, modelled as worker.ts,              *)
(* mid-turn.ts and src/tests/fixtures/fake-claude-midturn.ts describe it:  *)
(* a line is echoed when it is read; the lines there at the end of a tool  *)
(* step may join the turn; one that does not runs as a turn of its own;    *)
(* a resumed CLI may first end a turn nobody asked for.  Typing, activity, *)
(* usage figures and session ids (but for a change of id) are left out.    *)
(***************************************************************************)
EXTENDS Naturals, Sequences, FiniteSets

CONSTANTS
    MaxTurns,   \* bound: calls of turn()
    Compacts,   \* the turns that are /compact
    Notes,      \* messages shown mid-turn, all with a caller that waits
    Nothing,
    MaxFaults   \* bound: CLI deaths, error results, changed ids, aborts

ASSUME WorkerAssumption ==
    /\ MaxTurns \in Nat
    /\ Compacts \subseteq 1..MaxTurns
    /\ MaxFaults \in Nat

Turns == 1..MaxTurns
Line  == Turns \cup Notes

ASSUME LineAssumption == Turns \cap Notes = {} /\ Nothing \notin Line

VARIABLES
    deadReason,  \* whether it is set
    pending,     \* the turn in flight, or Nothing
    eof,         \* stdin.end() was called
    proc,        \* "up", "termed" (SIGTERM sent) or "gone"
    stdin, stdout,
    cli,         \* what the process does: [run, tool, steps, fresh]
    outcome,     \* what turn() returned: "none", "waiting", "ok" or "failed"
    told,        \* what inject's caller learnt: "none", "waiting", "yes" or "no"
    seen,        \* recordSeenMidTurn
    took,        \* history: the result a turn was ended by
    into,        \* history: the turn a note was written to
    joined,      \* history: the turn whose conversation a note joined
    faults

workerVars == <<deadReason, pending, eof, proc, stdin, stdout, cli, outcome, told, seen, took,
                into, joined, faults>>
pipes      == <<stdin, stdout>>
answer     == <<outcome, told, seen, took>>

Event == [type : {"echo"}, line : Line] \cup [type : {"tool", "back", "changed"}]
         \cup [type : {"result"}, line : Line \cup {Nothing}, says : {"reply", "refused", "error"},
               worked : BOOLEAN]
Pending == [turn : Turns, wrote : BOOLEAN, echoed : BOOLEAN, tools : BOOLEAN,
            injected : SUBSET Notes, joined : SUBSET Notes, waiters : SUBSET Notes]

ASSUME PendingAssumption == Nothing \notin Pending

WorkerTypeOK ==
    /\ deadReason \in BOOLEAN
    /\ pending \in Pending \cup {Nothing}
    /\ eof \in BOOLEAN
    /\ proc \in {"up", "termed", "gone"}
    /\ stdin \in Seq(Line)
    /\ stdout \in Seq(Event)
    /\ cli \in [run : Line \cup {Nothing}, tool : BOOLEAN, steps : Nat, fresh : BOOLEAN]
    /\ outcome \in [Turns -> {"none", "waiting", "ok", "failed"}]
    /\ told \in [Notes -> {"none", "waiting", "yes", "no"}]
    /\ seen \subseteq Notes
    /\ took \in [Turns -> Event \cup {Nothing}]
    /\ into \in [Notes -> Turns \cup {Nothing}]
    /\ joined \in [Notes -> Line \cup {Nothing}]
    /\ faults \in 0..MaxFaults
    /\ pending # Nothing => pending.joined \subseteq pending.injected /\ ~deadReason

Resting == [run |-> Nothing, tool |-> FALSE, steps |-> 1, fresh |-> FALSE]

WorkerInit ==
    /\ deadReason = FALSE
    /\ pending = Nothing
    /\ eof = FALSE
    /\ proc = "up"
    /\ stdin = <<>>
    /\ stdout = <<>>
    /\ \E resumed \in BOOLEAN : cli = [Resting EXCEPT !.fresh = resumed]
    /\ outcome = [t \in Turns |-> "none"]
    /\ told = [n \in Notes |-> "none"]
    /\ seen = {}
    /\ took = [t \in Turns |-> Nothing]
    /\ into = [n \in Notes |-> Nothing]
    /\ joined = [n \in Notes |-> Nothing]
    /\ faults = 0

Fault == faults < MaxFaults /\ faults' = faults + 1
Began(t) == outcome[t] # "none"
Write(line) == stdin' = IF proc = "gone" \/ eof THEN stdin ELSE Append(stdin, line)

(***************************************************************************)
(* The end of a turn.                                                      *)
(***************************************************************************)

\* The callers still waiting for a note, told that it did not join.
SettleJoinWaiters ==
    [n \in Notes |-> IF pending # Nothing /\ n \in pending.waiters THEN "no" ELSE told[n]]

\* finish: only a turn in flight is settled.
Settled(how) ==
    [t \in Turns |-> IF pending # Nothing /\ t = pending.turn THEN how ELSE outcome[t]]

Signal == IF proc = "up" THEN "termed" ELSE proc

\* Mutant of Die: pending is dropped before it is settled, as an older
\* version did.
DieForgetsTurn ==
    /\ deadReason' = TRUE
    /\ proc' = IF deadReason THEN proc ELSE Signal
    /\ told' = SettleJoinWaiters
    /\ pending' = Nothing
    /\ UNCHANGED outcome

\* die, which does nothing on a dead worker.
Die ==
    /\ deadReason' = TRUE
    /\ proc' = IF deadReason THEN proc ELSE Signal
    /\ told' = SettleJoinWaiters
    /\ outcome' = Settled("failed")
    /\ pending' = Nothing

(***************************************************************************)
(* The CLI.                                                                *)
(***************************************************************************)
Emit(events) == stdout' = stdout \o events
Echo(line) == [type |-> "echo", line |-> line]
Runs == proc # "gone"

\* A resumed CLI reports a task it stopped, as a turn of its own.
CliOwnTurn ==
    /\ Runs /\ cli.fresh
    /\ Emit(<<[type |-> "result", line |-> Nothing, says |-> "reply", worked |-> FALSE]>>)
    /\ cli' = [cli EXCEPT !.fresh = FALSE]
    /\ UNCHANGED <<deadReason, pending, eof, proc, stdin, answer, into, joined, faults>>

CliReads ==
    /\ Runs /\ cli.run = Nothing /\ stdin # <<>>
    /\ cli' = [Resting EXCEPT !.run = Head(stdin)]
    /\ stdin' = Tail(stdin)
    /\ Emit(<<Echo(Head(stdin))>>)
    /\ UNCHANGED <<deadReason, pending, eof, proc, answer, into, joined, faults>>

CliTool ==
    /\ Runs /\ cli.run \notin Compacts \cup {Nothing} /\ ~cli.tool /\ cli.steps > 0
    /\ cli' = [cli EXCEPT !.tool = TRUE, !.steps = @ - 1]
    /\ Emit(<<[type |-> "tool"]>>)
    /\ UNCHANGED <<deadReason, pending, eof, proc, stdin, answer, into, joined, faults>>

\* The lines read by the end of the step join the turn.
CliToolBack ==
    /\ Runs /\ cli.tool
    /\ cli' = [cli EXCEPT !.tool = FALSE]
    /\ \E k \in 0..Len(stdin) :
        LET lines == SubSeq(stdin, 1, k)
        IN  /\ Emit(<<[type |-> "back"]>> \o [i \in 1..k |-> Echo(lines[i])])
            /\ stdin' = SubSeq(stdin, k + 1, Len(stdin))
            /\ joined' = [n \in Notes |->
                              IF \E i \in 1..k : lines[i] = n THEN cli.run ELSE joined[n]]
    /\ UNCHANGED <<deadReason, pending, eof, proc, answer, into, faults>>

\* A refused compaction is a success whose text says otherwise.
CliResult ==
    /\ Runs /\ cli.run # Nothing /\ ~cli.tool
    /\ \E says \in {"reply", "error"} \cup (IF cli.run \in Compacts THEN {"refused"} ELSE {}) :
        /\ IF says = "reply" THEN UNCHANGED faults ELSE Fault
        /\ Emit(<<[type |-> "result", line |-> cli.run, says |-> says,
                   worked |-> cli.run \notin Compacts]>>)
    /\ cli' = Resting
    /\ UNCHANGED <<deadReason, pending, eof, proc, stdin, answer, into, joined>>

CliChangesSession ==
    /\ Runs /\ Fault
    /\ Emit(<<[type |-> "changed"]>>)
    /\ UNCHANGED <<deadReason, pending, eof, proc, stdin, cli, answer, into, joined>>

CliExits ==
    /\ Runs
    /\ IF eof \/ proc = "termed" THEN UNCHANGED faults ELSE Fault
    /\ proc' = "gone"
    /\ stdin' = <<>>
    /\ UNCHANGED <<deadReason, pending, eof, stdout, cli, answer, into, joined>>

(***************************************************************************)
(* The daemon.                                                             *)
(***************************************************************************)

\* turn(): one that finds the worker dead or busy fails at once, and so
\* does one whose signal was aborted before (an abort right after is the
\* same but for the dead worker).
TurnRefused(t) ==
    /\ deadReason \/ pending # Nothing
    /\ outcome' = [outcome EXCEPT ![t] = "failed"]
    /\ UNCHANGED <<deadReason, pending, eof, proc, pipes, cli, told, seen, took, into, joined, faults>>

TurnStarts(t) ==
    /\ ~deadReason /\ pending = Nothing
    /\ pending' = [turn |-> t, wrote |-> proc # "gone" /\ ~eof, echoed |-> FALSE,
                   tools |-> FALSE, injected |-> {}, joined |-> {}, waiters |-> {}]
    /\ Write(t)
    /\ outcome' = [outcome EXCEPT ![t] = "waiting"]
    /\ UNCHANGED <<deadReason, eof, proc, stdout, cli, told, seen, took, into, joined, faults>>

Turn(t) ==
    /\ ~Began(t) /\ \A s \in 1..(t - 1) : Began(s)
    /\ TurnRefused(t) \/ TurnStarts(t)

\* The callback of the write: the turn ends and the worker does not die.
WriteFails ==
    /\ pending # Nothing /\ ~pending.wrote
    /\ outcome' = Settled("failed")
    /\ pending' = Nothing
    /\ UNCHANGED <<deadReason, eof, proc, pipes, cli, told, seen, took, into, joined, faults>>

\* inject(): only while a tool step is in flight.
Inject(n) ==
    /\ told[n] = "none"
    /\ IF deadReason \/ pending = Nothing \/ (pending # Nothing /\ ~pending.tools)
       THEN /\ told' = [told EXCEPT ![n] = "no"]
            /\ UNCHANGED <<pending, stdin, into>>
       ELSE /\ told' = [told EXCEPT ![n] = "waiting"]
            /\ pending' = [pending EXCEPT !.injected = @ \cup {n}, !.waiters = @ \cup {n}]
            /\ Write(n)
            /\ into' = [into EXCEPT ![n] = pending.turn]
    /\ UNCHANGED <<deadReason, eof, proc, stdout, cli, outcome, seen, took, joined, faults>>

\* Mutant of IdleTimeout: the worker is kept for the next turn.
IdleTimeoutKeepsWorker ==
    /\ pending # Nothing
    /\ outcome' = Settled("failed")
    /\ pending' = Nothing
    /\ UNCHANGED <<deadReason, eof, proc, pipes, cli, told, seen, took, into, joined, faults>>

\* The timer of the turn: finish, then die, which finds nothing pending.
IdleTimeout ==
    /\ pending # Nothing
    /\ outcome' = Settled("failed")
    /\ pending' = Nothing
    /\ deadReason' = TRUE
    /\ proc' = Signal
    /\ UNCHANGED <<eof, pipes, cli, told, seen, took, into, joined, faults>>

Abort ==
    /\ pending # Nothing /\ Fault
    /\ Die
    /\ UNCHANGED <<eof, pipes, cli, seen, took, into, joined>>

\* shutdown(): stdin ends, and two seconds later comes SIGTERM.
Shutdown ==
    /\ ~deadReason /\ ~eof
    /\ eof' = TRUE
    /\ UNCHANGED <<deadReason, pending, proc, pipes, cli, answer, into, joined, faults>>

ShutdownTerm ==
    /\ eof /\ proc = "up"
    /\ proc' = "termed"
    /\ UNCHANGED <<deadReason, pending, eof, pipes, cli, answer, into, joined, faults>>

\* The exit event, which may come before the last output is handled.
ExitSeen ==
    /\ proc = "gone" /\ ~deadReason
    /\ Die
    /\ UNCHANGED <<eof, pipes, cli, seen, took, into, joined, faults>>

(***************************************************************************)
(* handleEvent.  Without a turn in flight nothing but a changed session id *)
(* has an effect.                                                          *)
(***************************************************************************)
Mine(e) == pending # Nothing /\ e.type \in {"echo", "tool", "back", "result"}

Ignore(e) ==
    /\ pending = Nothing /\ e.type # "changed"
    /\ UNCHANGED <<deadReason, pending, proc, answer>>

Changed(e) ==
    /\ e.type = "changed"
    /\ Die
    /\ UNCHANGED <<seen, took>>

TakeEcho(e) ==
    /\ Mine(e) /\ e.type = "echo"
    /\ LET note == e.line \in pending.injected
       IN  /\ pending' = [pending EXCEPT
                            !.echoed = @ \/ e.line = pending.turn,
                            !.joined = @ \cup (IF note THEN {e.line} ELSE {}),
                            !.waiters = @ \ {e.line}]
           /\ told' = [n \in Notes |->
                           IF n = e.line /\ n \in pending.waiters THEN "yes" ELSE told[n]]
    /\ UNCHANGED <<deadReason, proc, outcome, seen, took>>

TakeTool(e) ==
    /\ Mine(e) /\ e.type \in {"tool", "back"}
    /\ pending' = [pending EXCEPT !.tools = (e.type = "tool")]
    /\ UNCHANGED <<deadReason, proc, answer>>

\* Mutant of Unsolicited: the first result is the turn's.
UnsolicitedNever(e) == FALSE

\* A result before the echo that did no work ends a turn of the CLI's own.
Unsolicited(e) == ~pending.echoed /\ e.says # "error" /\ ~e.worked

SkipResult(e) ==
    /\ Mine(e) /\ e.type = "result" /\ Unsolicited(e)
    /\ UNCHANGED <<deadReason, pending, proc, answer>>

\* Mutant of Missed: the worker is kept.
MissedNever == FALSE

\* A note that was not echoed retires the worker, in a microtask that runs
\* before turn's caller goes on.
Missed == pending.injected # pending.joined

\* Mutants of TakeResult: every message written counts as seen; the waiters
\* are told that they joined.
TakeResultAllSeen(e) ==
    /\ Mine(e) /\ e.type = "result" /\ ~Unsolicited(e)
    /\ told' = SettleJoinWaiters
    /\ outcome' = Settled(IF e.says = "reply" THEN "ok" ELSE "failed")
    /\ took' = [took EXCEPT ![pending.turn] = e]
    /\ seen' = seen \cup pending.injected
    /\ pending' = Nothing
    /\ deadReason' = (deadReason \/ Missed)
    /\ proc' = IF Missed THEN Signal ELSE proc

TakeResultAllTold(e) ==
    /\ Mine(e) /\ e.type = "result" /\ ~Unsolicited(e)
    /\ told' = [n \in Notes |-> IF n \in pending.waiters THEN "yes" ELSE told[n]]
    /\ outcome' = Settled(IF e.says = "reply" THEN "ok" ELSE "failed")
    /\ took' = [took EXCEPT ![pending.turn] = e]
    /\ seen' = IF e.says = "error" THEN seen ELSE seen \cup pending.joined
    /\ pending' = Nothing
    /\ deadReason' = (deadReason \/ Missed)
    /\ proc' = IF Missed THEN Signal ELSE proc

TakeResult(e) ==
    /\ Mine(e) /\ e.type = "result" /\ ~Unsolicited(e)
    /\ told' = SettleJoinWaiters
    /\ outcome' = Settled(IF e.says = "reply" THEN "ok" ELSE "failed")
    /\ took' = [took EXCEPT ![pending.turn] = e]
    /\ seen' = IF e.says = "error" THEN seen ELSE seen \cup pending.joined
    /\ pending' = Nothing
    /\ deadReason' = (deadReason \/ Missed)
    /\ proc' = IF Missed THEN Signal ELSE proc

HandleEvent ==
    /\ stdout # <<>>
    /\ LET e == Head(stdout)
       IN  \/ Ignore(e)
           \/ Changed(e)
           \/ TakeEcho(e)
           \/ TakeTool(e)
           \/ SkipResult(e)
           \/ TakeResult(e)
    /\ stdout' = Tail(stdout)
    /\ UNCHANGED <<eof, stdin, cli, into, joined, faults>>

Cli == CliOwnTurn \/ CliReads \/ CliTool \/ CliToolBack \/ CliResult

WorkerNext ==
    \/ Cli \/ CliChangesSession \/ CliExits
    \/ \E t \in Turns : Turn(t)
    \/ \E n \in Notes : Inject(n)
    \/ HandleEvent \/ WriteFails \/ IdleTimeout \/ Abort
    \/ Shutdown \/ ShutdownTerm \/ ExitSeen

WorkerSpec == WorkerInit /\ [][WorkerNext]_workerVars

\* Pipes are read, timers fire, and a process that was told to exit does.
\* The CLI itself may hang.
WorkerFairness ==
    /\ WF_workerVars(HandleEvent)
    /\ WF_workerVars(IdleTimeout)
    /\ WF_workerVars(ShutdownTerm)
    /\ WF_workerVars(ExitSeen)
    /\ WF_workerVars(CliExits /\ (eof \/ proc = "termed"))

FairWorkerSpec == WorkerSpec /\ WorkerFairness

(***************************************************************************)
(* Properties.                                                             *)
(***************************************************************************)

\* A turn that is reported to have worked was ended by the CLI's result for
\* its own line: neither by a turn of the CLI's own, nor by that of a
\* message that missed the turn before, nor by a refused compaction
\* (isUnsolicitedResult, retireAfterMissedMidTurn, compact).
OwnResult ==
    \A t \in Turns : outcome[t] = "ok" => took[t].line = t /\ took[t].says = "reply"

\* The daemon drops the parked messages it is told were seen, and no others
\* (takeSeenMidTurn): a message is recorded as seen exactly when it joined
\* a turn that ended well.
SeenIsAnswered ==
    \A n \in Notes : n \in seen <=> joined[n] \in Turns /\ outcome[joined[n]] = "ok"

\* inject's caller is told that its message joined only if it joined the
\* turn it was written to, and is not told the contrary by a turn that
\* ended well with it.
ToldTheTruth ==
    \A n \in Notes :
        /\ told[n] = "yes" => into[n] # Nothing /\ joined[n] = into[n]
        /\ told[n] = "no" /\ into[n] # Nothing /\ outcome[into[n]] = "ok" => joined[n] # into[n]

\* turn() always returns: "Fail an in-flight turn so the caller doesn't wait
\* forever" (die); and what a worker shut down or dead leaves behind is no
\* running process.
EverythingEnds ==
    /\ \A t \in Turns : outcome[t] = "waiting" ~> outcome[t] \in {"ok", "failed"}
    /\ eof \/ deadReason ~> proc = "gone"
=============================================================================
