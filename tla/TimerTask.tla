----------------------------- MODULE TimerTask ------------------------------
(***************************************************************************)
(* tx_main/ROOT/task/timer_task/timer_task.c: the software timers of the   *)
(* validator.  A table of MAX_TIMER slots counts down by the ticks that    *)
(* the system timer interrupt added to ex_timer_task_tick since the last   *)
(* pass; a slot that reaches zero is freed and its owner gets a TIMES_UP   *)
(* message.  The interrupt runs between any two steps of the task, and the *)
(* clients' requests queue in the task's mailbox.                          *)
(***************************************************************************)
EXTENDS Integers, Sequences, FiniteSets

CONSTANTS MainTask,     \* ID_MAIN_TASK: its requests come from its own pool
          SubTasks,     \* ID_CLINE_TASK, ID_DLINE_TASK
          SetReq,       \* <<task, id>> pairs that some code arms
          CancelReq,    \* <<task, id>> pairs that some code cancels
          Durations,    \* arg2 of the set requests, in ticks
          MAX_TIMER,    \* slots of the table
          TickMod,      \* ex_timer_task_tick counts 0 .. TickMod-1 (0x10000)
          SubPool,      \* blocks of ID_MBX_MPF
          Burst,        \* bound: requests that wait in the task's mailbox
          MaxDelay      \* bound: ticks during one pass of the task's loop

Clients == {MainTask} \cup SubTasks

\* The pool that TIMES_UP messages come from outlasts the waiting requests.
ASSUME PoolAssumption == Burst \in Nat \ {0} /\ SubPool \in Nat /\ Burst < SubPool

ASSUME TickAssumption == TickMod \in Nat \ {0} /\ MaxDelay \in Nat \ {0}

ASSUME RequestAssumption ==
  /\ Durations \subseteq Nat \ {0}
  /\ SetReq \subseteq Clients \X (Nat \ {0})
  /\ CancelReq \subseteq Clients \X (Nat \ {0})

\* common.h numbers the timers 1..MAX_TIMER at most, and every pair a task
\* arms has room for a slot of its own.
ASSUME SizeAssumption ==
  /\ MAX_TIMER \in Nat \ {0}
  /\ IsFiniteSet(SetReq)
  /\ Cardinality(SetReq) =< MAX_TIMER

\* Every id that some task cancels is armed by that task only: the ids
\* the tasks share (TIMER_ID_DIPSW_READ) are never cancelled.
ASSUME CancelAssumption ==
  \A c \in CancelReq, s \in SetReq : c[2] = s[2] => c[1] = s[1]

Slots == 1 .. MAX_TIMER

VARIABLES
  timer_id,            \* slot -> timer id, 0 when the slot is free
  timer_set_task,      \* slot -> the task that set it; stale in a free slot
  timer_cnt,           \* slot -> ticks left
  timer_tick_backup,   \* tick counter at the end of the last pass
  timer_elapse_time,   \* ticks the next pass charges to every running slot
  ex_timer_task_tick,  \* incremented by the system timer interrupt
  timer_mbx,           \* ID_TIMER_MBX
  inbox,               \* TIMES_UP ids in the clients' mailboxes
  pc, ii               \* where the task is in its loop; slot of _timer_idle_proc

VARIABLES              \* history, read by the properties only
  since,               \* real ticks since timer_tick_backup was last written
  due                  \* slot -> real ticks that must still pass, counted from
                       \*         the start of the pass that read the request

table == <<timer_id, timer_set_task, timer_cnt>>
ticks == <<timer_tick_backup, timer_elapse_time, ex_timer_task_tick>>
hist  == <<since, due>>
vars  == <<table, ticks, timer_mbx, inbox, pc, ii, hist>>

NoTask == 0

Init ==
  /\ timer_id = [i \in Slots |-> 0]
  /\ timer_set_task = [i \in Slots |-> NoTask]
  /\ timer_cnt = [i \in Slots |-> 0]
  /\ ex_timer_task_tick \in 0 .. TickMod - 1
  /\ timer_tick_backup = ex_timer_task_tick
  /\ timer_elapse_time = 0
  /\ timer_mbx = << >>
  /\ inbox = [c \in Clients |-> << >>]
  /\ pc = "idle" /\ ii = 1
  /\ since = 0
  /\ due = [i \in Slots |-> 0]

------------------------------------------------------------------------------
\* Blocks of ID_MBX_MPF that messages of this module occupy: the requests of
\* the sub tasks, and every TIMES_UP.
SubBlocks ==
  Cardinality({k \in DOMAIN timer_mbx : timer_mbx[k].sender # MainTask})
  + Cardinality({r \in Clients \X (1 .. SubPool) : r[2] =< Len(inbox[r[1]])})

\* A client sends TMSG_TIMER_SET_TIMER or TMSG_TIMER_CANCEL_TIMER; get_mpf
\* makes a sub task wait while the pool is empty.
MaySend(c) == /\ Len(timer_mbx) < Burst
              /\ c # MainTask => SubBlocks < SubPool

RequestSet(c, id, d) ==
  /\ MaySend(c)
  /\ timer_mbx' = Append(timer_mbx, [code |-> "SET", sender |-> c, id |-> id, cnt |-> d])
  /\ UNCHANGED <<table, ticks, inbox, pc, ii, hist>>

RequestCancel(c, id) ==
  /\ MaySend(c)
  /\ timer_mbx' = Append(timer_mbx, [code |-> "CANCEL", sender |-> c, id |-> id, cnt |-> 0])
  /\ UNCHANGED <<table, ticks, inbox, pc, ii, hist>>

\* A client takes a TIMES_UP message from its mailbox and frees the block.
ReadTimesUp(c) ==
  /\ inbox[c] # << >>
  /\ inbox' = [inbox EXCEPT ![c] = Tail(@)]
  /\ UNCHANGED <<table, ticks, timer_mbx, pc, ii, hist>>

------------------------------------------------------------------------------
\* _timer_idle_proc, one slot of its loop at a time.
Running(i) == timer_id[i] # 0 /\ timer_cnt[i] > 0

IdleSkip ==
  /\ pc = "idle" /\ ii \in Slots
  /\ ~Running(ii)
  /\ ii' = ii + 1
  /\ UNCHANGED <<table, ticks, timer_mbx, inbox, pc, hist>>

\* Mutant: the comparison with the elapsed time is not strict.
IdleChargeNotStrict ==
  /\ pc = "idle" /\ ii \in Slots
  /\ Running(ii)
  /\ timer_cnt[ii] >= timer_elapse_time
  /\ timer_cnt' = [timer_cnt EXCEPT ![ii] = @ - timer_elapse_time]
  /\ ii' = ii + 1
  /\ UNCHANGED <<timer_id, timer_set_task, ticks, timer_mbx, inbox, pc, hist>>

IdleCharge ==
  /\ pc = "idle" /\ ii \in Slots
  /\ Running(ii)
  /\ timer_cnt[ii] > timer_elapse_time
  /\ timer_cnt' = [timer_cnt EXCEPT ![ii] = @ - timer_elapse_time]
  /\ ii' = ii + 1
  /\ UNCHANGED <<timer_id, timer_set_task, ticks, timer_mbx, inbox, pc, hist>>

\* The slot has run out: TIMES_UP goes to its owner, in a block that get_mpf
\* waits for, and timer_id is cleared; timer_set_task keeps its value.
IdleTimesUp ==
  /\ pc = "idle" /\ ii \in Slots
  /\ Running(ii)
  /\ timer_cnt[ii] =< timer_elapse_time
  /\ SubBlocks < SubPool
  /\ inbox' = [inbox EXCEPT ![timer_set_task[ii]] = Append(@, timer_id[ii])]
  /\ timer_cnt' = [timer_cnt EXCEPT ![ii] = 0]
  /\ timer_id' = [timer_id EXCEPT ![ii] = 0]
  /\ due' = [due EXCEPT ![ii] = 0]
  /\ ii' = ii + 1
  /\ UNCHANGED <<timer_set_task, ticks, timer_mbx, pc, since>>

IdleDone ==
  /\ pc = "idle" /\ ii = MAX_TIMER + 1
  /\ pc' = "recv"
  /\ UNCHANGED <<table, ticks, timer_mbx, inbox, ii, hist>>

------------------------------------------------------------------------------
\* First(S, i): i is where a loop that scans the slots upwards finds S.
First(S, i) == i \in S /\ \A j \in S : i =< j

\* History: the code will charge the whole pass to the new timer, so that the
\* ticks of this pass before the request was read count as waiting.
Still(cnt) == IF cnt > since THEN cnt - since ELSE 0

Owned(m) == {i \in Slots : timer_id[i] = m.id /\ timer_set_task[i] = m.sender}
Free     == {i \in Slots : timer_id[i] = 0}

\* Mutant: no search for the slot the task already holds.
SetWithoutSearch(m) ==
  \/ \E i \in Slots :
       /\ First(Free, i)
       /\ timer_id' = [timer_id EXCEPT ![i] = m.id]
       /\ timer_set_task' = [timer_set_task EXCEPT ![i] = m.sender]
       /\ timer_cnt' = [timer_cnt EXCEPT ![i] = m.cnt]
       /\ due' = [due EXCEPT ![i] = Still(m.cnt)]
  \/ Free = {} /\ UNCHANGED <<table, due>>

\* _timer_set: the slot the task already holds under this id is restarted,
\* else the first free slot is taken; with neither the request is dropped.
_timer_set(m) ==
  \/ \E i \in Slots :
       /\ First(Owned(m), i)
       /\ timer_cnt' = [timer_cnt EXCEPT ![i] = m.cnt]
       /\ due' = [due EXCEPT ![i] = Still(m.cnt)]
       /\ UNCHANGED <<timer_id, timer_set_task>>
  \/ \E i \in Slots :
       /\ Owned(m) = {}
       /\ First(Free, i)
       /\ timer_id' = [timer_id EXCEPT ![i] = m.id]
       /\ timer_set_task' = [timer_set_task EXCEPT ![i] = m.sender]
       /\ timer_cnt' = [timer_cnt EXCEPT ![i] = m.cnt]
       /\ due' = [due EXCEPT ![i] = Still(m.cnt)]
  \/ /\ Owned(m) = {} /\ Free = {}
     /\ UNCHANGED <<table, due>>

\* _timer_cancel: the first slot with this id, whoever set it.
WithId(m) == {i \in Slots : timer_id[i] = m.id}

\* Mutant: the slot is looked up by its owner instead of its id.
CancelByTask(m) ==
  \E i \in Slots :
    /\ First({j \in Slots : timer_set_task[j] = m.sender}, i)
    /\ timer_id' = [timer_id EXCEPT ![i] = 0]
    /\ timer_set_task' = [timer_set_task EXCEPT ![i] = NoTask]
    /\ timer_cnt' = [timer_cnt EXCEPT ![i] = 0]
    /\ due' = [due EXCEPT ![i] = 0]

_timer_cancel(m) ==
  \/ \E i \in Slots :
       /\ First(WithId(m), i)
       /\ timer_id' = [timer_id EXCEPT ![i] = 0]
       /\ timer_set_task' = [timer_set_task EXCEPT ![i] = NoTask]
       /\ timer_cnt' = [timer_cnt EXCEPT ![i] = 0]
       /\ due' = [due EXCEPT ![i] = 0]
  \/ /\ WithId(m) = {}
     /\ UNCHANGED <<table, due>>

\* trcv_mbx returns a message: it is copied, its block freed, and handled.
ReceiveSet ==
  /\ pc = "recv" /\ timer_mbx # << >>
  /\ Head(timer_mbx).code = "SET"
  /\ _timer_set(Head(timer_mbx))
  /\ timer_mbx' = Tail(timer_mbx)
  /\ pc' = "count"
  /\ UNCHANGED <<ticks, inbox, ii, since>>

ReceiveCancel ==
  /\ pc = "recv" /\ timer_mbx # << >>
  /\ Head(timer_mbx).code = "CANCEL"
  /\ _timer_cancel(Head(timer_mbx))
  /\ timer_mbx' = Tail(timer_mbx)
  /\ pc' = "count"
  /\ UNCHANGED <<ticks, inbox, ii, since>>

\* trcv_mbx times out after TASK_WAIT_TIME_TIMER.
ReceiveTimeout ==
  /\ pc = "recv" /\ timer_mbx = << >>
  /\ pc' = "count"
  /\ UNCHANGED <<table, ticks, timer_mbx, inbox, ii, hist>>

------------------------------------------------------------------------------
\* _timer_elapse_time_counter reads the tick counter twice, once for the
\* difference and once for the backup; the interrupt may come in between.
Elapsed == IF ex_timer_task_tick < timer_tick_backup
           THEN TickMod - timer_tick_backup + ex_timer_task_tick
           ELSE ex_timer_task_tick - timer_tick_backup

CountElapse ==
  /\ pc = "count"
  /\ timer_elapse_time' = Elapsed
  /\ pc' = "save"
  /\ UNCHANGED <<table, timer_tick_backup, ex_timer_task_tick, timer_mbx, inbox, ii, hist>>

\* Mutant: the backup is not brought up to date.
BackupNotSaved ==
  /\ pc = "save"
  /\ since' = 0
  /\ pc' = "idle" /\ ii' = 1
  /\ UNCHANGED <<table, ticks, timer_mbx, inbox, due>>

SaveBackup ==
  /\ pc = "save"
  /\ timer_tick_backup' = ex_timer_task_tick
  /\ since' = 0
  /\ pc' = "idle" /\ ii' = 1
  /\ UNCHANGED <<table, timer_elapse_time, ex_timer_task_tick, timer_mbx, inbox, due>>

\* The system timer interrupt; MaxDelay bounds how long one pass lasts.
\* Mutant: the counter wraps one tick late.
NextTickLate == IF ex_timer_task_tick > TickMod - 1 THEN 0 ELSE ex_timer_task_tick + 1

NextTick == IF ex_timer_task_tick >= TickMod - 1 THEN 0 ELSE ex_timer_task_tick + 1

Tick ==
  /\ since < MaxDelay
  /\ ex_timer_task_tick' = NextTick
  /\ since' = since + 1
  /\ due' = [i \in Slots |-> IF due[i] > 0 THEN due[i] - 1 ELSE 0]
  /\ UNCHANGED <<table, timer_tick_backup, timer_elapse_time, timer_mbx, inbox, pc, ii>>

------------------------------------------------------------------------------
Task == \/ IdleSkip \/ IdleCharge \/ IdleTimesUp \/ IdleDone
        \/ ReceiveSet \/ ReceiveCancel \/ ReceiveTimeout
        \/ CountElapse \/ SaveBackup

Client == \/ \E r \in SetReq, d \in Durations : RequestSet(r[1], r[2], d)
          \/ \E r \in CancelReq : RequestCancel(r[1], r[2])

Next == Task \/ Client \/ Tick \/ \E c \in Clients : ReadTimesUp(c)

Spec == Init /\ [][Next]_vars

\* The timer task is scheduled and every client keeps reading its mailbox;
\* nobody is obliged to use a timer.  A tick between the two reads of the
\* counter is lost, but that window is a few instructions of a pass that
\* waits in trcv_mbx for a whole tick period (TASK_WAIT_TIME_TIMER), so that
\* the interrupt also keeps coming while the task waits.
Fairness == /\ WF_vars(Task)
            /\ SF_vars(Tick /\ pc = "recv")
            /\ \A c \in Clients : WF_vars(ReadTimesUp(c))

FairSpec == Spec /\ Fairness
------------------------------------------------------------------------------
Armed == {<<timer_set_task[i], timer_id[i]>> : i \in {j \in Slots : timer_id[j] # 0}}

MailboxOK == timer_mbx \in Seq([code : {"SET", "CANCEL"}, sender : Clients, id : Nat, cnt : Nat])

\* Values of the variables, the reach of the loop index, and what the history
\* variables hold in a free slot.
TypeOK ==
  /\ timer_id \in [Slots -> Nat]
  /\ timer_set_task \in [Slots -> Clients \cup {NoTask}]
  /\ timer_cnt \in [Slots -> Nat]
  /\ timer_tick_backup \in 0 .. TickMod - 1
  /\ ex_timer_task_tick \in 0 .. TickMod - 1
  /\ timer_elapse_time \in Nat
  /\ MailboxOK
  /\ inbox \in [Clients -> Seq(Nat)]
  /\ pc \in {"idle", "recv", "count", "save"}
  /\ ii \in 1 .. MAX_TIMER + 1
  /\ since \in Nat
  /\ due \in [Slots -> Nat]

\* A set request the task is about to handle finds a slot: _timer_set never
\* falls through its second loop, which would lose the request silently.
NeverDropped ==
  pc = "recv" /\ timer_mbx # << >> /\ Head(timer_mbx).code = "SET"
    => Owned(Head(timer_mbx)) \cup Free # {}

\* A TIMES_UP is sent only after as many real ticks as the owner asked for,
\* counted from the pass that read the request, whatever the wraparound of
\* the tick counter and whenever the interrupt comes.
NotEarly ==
  [][\A i \in Slots : IdleTimesUp /\ ii = i => due[i] = 0]_vars

\* The slot table behaves as the timers of TimerService: a request reaches
\* its own task's timer only, and every arming expires at most once.
Service == INSTANCE TimerService
             WITH Clients <- Clients, Timers <- SetReq, Cancels <- CancelReq,
                  armed <- Armed, inbox <- inbox

Implements == Service!Spec

\* A timer nobody re-arms any more does not stay armed: its slot counts down
\* to zero (_timer_idle_proc) and is freed.
Expires ==
  \A r \in SetReq :
    <>[](\A k \in DOMAIN timer_mbx : <<timer_mbx[k].sender, timer_mbx[k].id>> # r)
      => <>[](r \notin Armed)
=============================================================================
