-------------------------- MODULE TimerTaskProofs ---------------------------
(***************************************************************************)
(* Theorems about TimerTask for every number of slots, clients, durations, *)
(* pool size and counter width: type correctness, no set request is lost,  *)
(* no timer is early, and the slot table implements TimerService.          *)
(***************************************************************************)
EXTENDS TimerTask, FiniteSetTheorems, SequenceTheorems, TLAPS

Key(m) == <<m.sender, m.id>>

\* No two slots hold the same timer: the first loop of _timer_set sees to it.
Unique ==
  \A i, j \in Slots :
    timer_id[i] # 0 /\ timer_id[i] = timer_id[j] /\ timer_set_task[i] = timer_set_task[j]
      => i = j

\* A slot in use holds a timer some code arms, and has not run out.
InUse ==
  \A i \in Slots : timer_id[i] # 0 =>
    /\ timer_set_task[i] \in Clients
    /\ <<timer_set_task[i], timer_id[i]>> \in SetReq
    /\ timer_cnt[i] > 0

\* What waits in the mailbox is a request some code makes.
Msg == [code : {"SET", "CANCEL"}, sender : Clients, id : Nat, cnt : Nat]

Legal(m) == \/ m.code = "SET" /\ Key(m) \in SetReq /\ m.cnt \in Durations
            \/ m.code = "CANCEL" /\ Key(m) \in CancelReq

LegalMsg == {m \in Msg : Legal(m)}

Queued == timer_mbx \in Seq(LegalMsg)

\* The distance of the tick counter from its backup, read modulo TickMod,
\* never exceeds the real ticks since the backup.
Distance ==
  /\ Elapsed =< since
  /\ pc = "save" => timer_elapse_time =< since

\* The count of a slot covers the ticks its timer still has to wait, the
\* real ticks not yet charged, and the charge the current pass is about to
\* make.
Charge(i) == IF pc = "idle" /\ i >= ii THEN timer_elapse_time ELSE 0

Covered ==
  \A i \in Slots : due[i] = 0 \/ due[i] + since + Charge(i) =< timer_cnt[i]

IInv == TypeOK /\ Unique /\ InUse /\ Queued /\ Distance /\ Covered

USE PoolAssumption, TickAssumption, RequestAssumption, CancelAssumption

------------------------------------------------------------------------------
LEMMA SlotsType == MAX_TIMER \in Nat \ {0}
BY SizeAssumption

LEMMA QueuedType == Queued => MailboxOK
<1>1. LegalMsg \subseteq Msg
  BY DEF LegalMsg
<1> QED
  BY <1>1, SeqMonotonic DEF Queued, MailboxOK, Msg

LEMMA QueuedTypeNext == Queued' => MailboxOK'
<1>1. LegalMsg \subseteq Msg
  BY DEF LegalMsg
<1> QED
  BY <1>1, SeqMonotonic DEF Queued, MailboxOK, Msg

LEMMA InitInv == Init => IInv
<1> SUFFICES ASSUME Init PROVE IInv
  OBVIOUS
<1>1. Queued
  BY DEF Init, Queued
<1>2. TypeOK
  BY <1>1, SlotsType, QueuedType DEF Init, TypeOK, Slots
<1>3. Unique /\ InUse /\ Covered
  BY DEF Init, Unique, InUse, Covered, Slots
<1>4. Distance
  BY DEF Init, Distance, Elapsed
<1> QED
  BY <1>1, <1>2, <1>3, <1>4 DEF IInv

------------------------------------------------------------------------------
\* The clients.
LEMMA ClientStep ==
  ASSUME IInv, Client PROVE IInv'
<1> DEFINE Sent(m) == /\ timer_mbx' = Append(timer_mbx, m)
                      /\ UNCHANGED <<table, ticks, inbox, pc, ii, hist>>
<1>1. PICK m \in LegalMsg : Sent(m)
  <2>1. ASSUME NEW r \in SetReq, NEW d \in Durations, RequestSet(r[1], r[2], d)
        PROVE  \E m \in LegalMsg : Sent(m)
    <3> DEFINE m == [code |-> "SET", sender |-> r[1], id |-> r[2], cnt |-> d]
    <3>1. m \in LegalMsg
      BY DEF LegalMsg, Msg, Legal, Key
    <3> QED
      BY <2>1, <3>1 DEF RequestSet
  <2>2. ASSUME NEW r \in CancelReq, RequestCancel(r[1], r[2])
        PROVE  \E m \in LegalMsg : Sent(m)
    <3> DEFINE m == [code |-> "CANCEL", sender |-> r[1], id |-> r[2], cnt |-> 0]
    <3>1. m \in LegalMsg
      BY DEF LegalMsg, Msg, Legal, Key
    <3> QED
      BY <2>2, <3>1 DEF RequestCancel
  <2> QED
    BY <2>1, <2>2 DEF Client
<1>2. Queued'
  BY <1>1, AppendProperties DEF IInv, Queued
<1>3. TypeOK'
  BY <1>1, <1>2, QueuedTypeNext DEF IInv, TypeOK, table, ticks, hist
<1>4. Unique' /\ InUse' /\ Distance' /\ Covered'
  BY <1>1 DEF IInv, Unique, InUse, Distance, Elapsed, Covered, Charge, table, ticks, hist
<1> QED
  BY <1>2, <1>3, <1>4 DEF IInv

LEMMA ReadStep ==
  ASSUME IInv, NEW c \in Clients, ReadTimesUp(c) PROVE IInv'
<1>1. Queued'
  BY DEF IInv, ReadTimesUp, Queued
<1>2. inbox' \in [Clients -> Seq(Nat)]
  <2>1. Tail(inbox[c]) \in Seq(Nat)
    BY HeadTailProperties DEF IInv, TypeOK, ReadTimesUp
  <2> QED
    BY <2>1 DEF IInv, TypeOK, ReadTimesUp
<1>3. TypeOK'
  BY <1>1, <1>2, QueuedTypeNext DEF IInv, TypeOK, ReadTimesUp, table, ticks, hist
<1>4. Unique' /\ InUse' /\ Distance' /\ Covered'
  BY DEF IInv, ReadTimesUp, Unique, InUse, Distance, Elapsed, Covered, Charge, table, ticks, hist
<1> QED
  BY <1>1, <1>3, <1>4 DEF IInv

------------------------------------------------------------------------------
\* The interrupt and the two reads of its counter.
LEMMA TickStep ==
  ASSUME IInv, Tick PROVE IInv'
<1>1. Queued'
  BY DEF IInv, Tick, Queued
<1>2. TypeOK'
  BY <1>1, QueuedTypeNext DEF IInv, TypeOK, Tick, NextTick, table
<1>3. Unique' /\ InUse'
  BY DEF IInv, Tick, Unique, InUse, table
<1>4. Distance'
  BY DEF IInv, TypeOK, Tick, NextTick, Distance, Elapsed
<1>5. Covered'
  <2> SUFFICES ASSUME NEW i \in Slots
               PROVE  due'[i] = 0 \/ due'[i] + since' + Charge(i)' =< timer_cnt'[i]
    BY DEF Covered
  <2>1. due[i] \in Nat /\ since \in Nat /\ timer_elapse_time \in Nat /\ timer_cnt[i] \in Nat
    BY DEF IInv, TypeOK
  <2>2. due[i] = 0 \/ due[i] + since + Charge(i) =< timer_cnt[i]
    BY DEF IInv, Covered
  <2>3. /\ since' = since + 1 /\ timer_cnt' = timer_cnt /\ Charge(i)' = Charge(i)
        /\ due'[i] = IF due[i] > 0 THEN due[i] - 1 ELSE 0
    BY DEF Tick, Charge, table
  <2>4. Charge(i) \in Nat
    BY <2>1 DEF Charge
  <2> QED
    BY <2>1, <2>2, <2>3, <2>4
<1> QED
  BY <1>1, <1>2, <1>3, <1>4, <1>5 DEF IInv

LEMMA CounterStep ==
  ASSUME IInv, CountElapse \/ SaveBackup PROVE IInv'
<1>1. Queued'
  BY DEF IInv, CountElapse, SaveBackup, Queued
<1>2. TypeOK'
  BY <1>1, QueuedTypeNext, SlotsType DEF IInv, TypeOK, CountElapse, SaveBackup, Elapsed, table, hist
<1>3. Unique' /\ InUse'
  BY DEF IInv, CountElapse, SaveBackup, Unique, InUse, table
<1>4. Distance'
  BY DEF IInv, TypeOK, CountElapse, SaveBackup, Distance, Elapsed, hist
<1>5. Covered'
  <2> SUFFICES ASSUME NEW i \in Slots
               PROVE  due'[i] = 0 \/ due'[i] + since' + Charge(i)' =< timer_cnt'[i]
    BY DEF Covered
  <2>1. due[i] = 0 \/ due[i] + since + Charge(i) =< timer_cnt[i]
    BY DEF IInv, Covered
  <2> QED
    BY <2>1 DEF IInv, TypeOK, CountElapse, SaveBackup, Charge, Distance, table, hist
<1> QED
  BY <1>1, <1>2, <1>3, <1>4, <1>5 DEF IInv

------------------------------------------------------------------------------
\* The pass over the slots: moving on changes the charge of the slot just
\* passed only.
LEMMA ChargeType ==
  ASSUME TypeOK, NEW i \in Slots PROVE Charge(i) \in Nat
BY DEF TypeOK, Charge

LEMMA ChargeMoves ==
  ASSUME TypeOK, NEW i \in Slots, ii \in Slots, ii' = ii + 1,
         UNCHANGED <<pc, timer_elapse_time>>
  PROVE  /\ Charge(i)' = IF i = ii THEN 0 ELSE Charge(i)
         /\ pc = "idle" => Charge(ii) = timer_elapse_time
<1>1. i \in Int /\ ii \in Int
  BY SlotsType DEF Slots
<1>2. (i >= ii')  <=> (i >= ii /\ i # ii)
  BY <1>1
<1> QED
  BY <1>1, <1>2 DEF Charge

LEMMA SkipStep ==
  ASSUME IInv, IdleSkip \/ IdleDone \/ ReceiveTimeout PROVE IInv'
<1>1. Queued'
  BY DEF IInv, IdleSkip, IdleDone, ReceiveTimeout, Queued
<1>2. ii' \in 1 .. MAX_TIMER + 1
  BY SlotsType DEF IInv, TypeOK, IdleSkip, IdleDone, ReceiveTimeout, Slots
<1>3. TypeOK'
  BY <1>1, <1>2, QueuedTypeNext
     DEF IInv, TypeOK, IdleSkip, IdleDone, ReceiveTimeout, table, ticks, hist
<1>4. Unique' /\ InUse' /\ Distance'
  BY DEF IInv, IdleSkip, IdleDone, ReceiveTimeout, Unique, InUse, Distance, Elapsed,
         table, ticks, hist
<1>5. Covered'
  <2> SUFFICES ASSUME NEW i \in Slots
               PROVE  due'[i] = 0 \/ due'[i] + since' + Charge(i)' =< timer_cnt'[i]
    BY DEF Covered
  <2>1. due[i] = 0 \/ due[i] + since + Charge(i) =< timer_cnt[i]
    BY DEF IInv, Covered
  <2>2. Charge(i)' \in {0, Charge(i)}
    <3>1. CASE IdleSkip
      BY <3>1, ChargeMoves DEF IInv, IdleSkip, ticks
    <3>2. CASE IdleDone \/ ReceiveTimeout
      BY <3>2 DEF IdleDone, ReceiveTimeout, Charge
    <3> QED
      BY <3>1, <3>2
  <2>3. UNCHANGED <<due, since, timer_cnt>>
    BY DEF IdleSkip, IdleDone, ReceiveTimeout, table, hist
  <2>4. due[i] \in Nat /\ since \in Nat /\ timer_cnt[i] \in Nat /\ Charge(i) \in Nat
    BY ChargeType DEF IInv, TypeOK
  <2> QED
    BY <2>1, <2>2, <2>3, <2>4
<1> QED
  BY <1>1, <1>3, <1>4, <1>5 DEF IInv

LEMMA ChargeStep ==
  ASSUME IInv, IdleCharge PROVE IInv'
<1> USE SlotsType
<1>1. Queued'
  BY DEF IInv, IdleCharge, Queued
<1>2. /\ timer_cnt[ii] \in Nat /\ timer_elapse_time \in Nat
      /\ timer_cnt[ii] > timer_elapse_time
      /\ ii' = ii + 1 /\ ii \in Slots /\ ii' \in 1 .. MAX_TIMER + 1
  BY DEF IInv, TypeOK, IdleCharge, Slots
<1>3. timer_cnt' = [timer_cnt EXCEPT ![ii] = timer_cnt[ii] - timer_elapse_time]
  BY DEF IdleCharge
<1>4. timer_cnt' \in [Slots -> Nat]
  BY <1>2, <1>3 DEF IInv, TypeOK
<1>5. TypeOK'
  BY <1>1, <1>2, <1>4, QueuedTypeNext DEF IInv, TypeOK, IdleCharge, ticks, hist
<1>6. Unique' /\ Distance'
  BY DEF IInv, IdleCharge, Unique, Distance, Elapsed, ticks, hist
<1>7. InUse'
  BY <1>2, <1>3 DEF IInv, TypeOK, IdleCharge, InUse
<1>8. Covered'
  <2> SUFFICES ASSUME NEW i \in Slots
               PROVE  due'[i] = 0 \/ due'[i] + since' + Charge(i)' =< timer_cnt'[i]
    BY DEF Covered
  <2>1. due[i] = 0 \/ due[i] + since + Charge(i) =< timer_cnt[i]
    BY DEF IInv, Covered
  <2>2. UNCHANGED <<due, since, timer_elapse_time, pc>> /\ pc = "idle"
    BY DEF IdleCharge, ticks, hist
  <2>3. /\ due[i] \in Nat /\ since \in Nat /\ timer_cnt[i] \in Nat
        /\ Charge(i) \in Nat
    BY ChargeType DEF IInv, TypeOK
  <2>4. /\ Charge(i)' = IF i = ii THEN 0 ELSE Charge(i)
        /\ Charge(ii) = timer_elapse_time
    BY <1>2, <2>2, ChargeMoves DEF IInv
  <2>5. timer_cnt'[i] = IF i = ii THEN timer_cnt[ii] - timer_elapse_time ELSE timer_cnt[i]
    BY <1>3 DEF IInv, TypeOK
  <2> QED
    BY <1>2, <2>1, <2>2, <2>3, <2>4, <2>5
<1> QED
  BY <1>1, <1>5, <1>6, <1>7, <1>8 DEF IInv

LEMMA TimesUpStep ==
  ASSUME IInv, IdleTimesUp PROVE IInv'
<1> USE SlotsType
<1>1. Queued'
  BY DEF IInv, IdleTimesUp, Queued
<1>2. inbox' \in [Clients -> Seq(Nat)]
  <2>1. timer_set_task[ii] \in Clients /\ timer_id[ii] \in Nat
    BY DEF IInv, TypeOK, InUse, IdleTimesUp, Running
  <2>2. Append(inbox[timer_set_task[ii]], timer_id[ii]) \in Seq(Nat)
    BY <2>1, AppendProperties DEF IInv, TypeOK
  <2> QED
    BY <2>2 DEF IInv, TypeOK, IdleTimesUp
<1>3. ii \in Slots /\ ii' = ii + 1 /\ ii' \in 1 .. MAX_TIMER + 1
  BY DEF IInv, TypeOK, IdleTimesUp, Slots
<1>4. TypeOK'
  BY <1>1, <1>2, <1>3, QueuedTypeNext DEF IInv, TypeOK, IdleTimesUp, ticks
<1>5. Unique' /\ InUse' /\ Distance'
  BY DEF IInv, TypeOK, IdleTimesUp, Unique, InUse, Distance, Elapsed, ticks
<1>6. Covered'
  <2> SUFFICES ASSUME NEW i \in Slots
               PROVE  due'[i] = 0 \/ due'[i] + since' + Charge(i)' =< timer_cnt'[i]
    BY DEF Covered
  <2>1. due[i] = 0 \/ due[i] + since + Charge(i) =< timer_cnt[i]
    BY DEF IInv, Covered
  <2>2. UNCHANGED <<since, timer_elapse_time, pc>> /\ pc = "idle"
    BY DEF IdleTimesUp, ticks
  <2>3. CASE i = ii
    BY <2>3 DEF IInv, TypeOK, IdleTimesUp
  <2>4. CASE i # ii
    <3>1. Charge(i)' = Charge(i)
      BY <1>3, <2>2, <2>4, ChargeMoves DEF IInv
    <3>2. due'[i] = due[i] /\ timer_cnt'[i] = timer_cnt[i]
      BY <2>4 DEF IInv, TypeOK, IdleTimesUp
    <3> QED
      BY <2>1, <2>2, <3>1, <3>2
  <2> QED
    BY <2>3, <2>4
<1> QED
  BY <1>1, <1>4, <1>5, <1>6 DEF IInv

------------------------------------------------------------------------------
\* The requests.
LEMMA HeadIsLegal ==
  ASSUME IInv, timer_mbx # << >>
  PROVE  /\ Head(timer_mbx) \in Msg
         /\ Legal(Head(timer_mbx))
         /\ Tail(timer_mbx) \in Seq(LegalMsg)
BY HeadTailProperties DEF IInv, Queued, LegalMsg

\* A slot is given to timer m: restarted if it holds m, or taken if it is free
\* and no slot holds m.
LEMMA ArmStep ==
  ASSUME IInv, Queued', pc = "recv", pc' = "count", UNCHANGED <<ticks, inbox, ii, since>>,
         NEW m, NEW i \in Slots,
         m.sender \in Clients, m.id \in Nat \ {0}, m.cnt \in Nat \ {0}, Key(m) \in SetReq,
         i \in Owned(m) \/ (i \in Free /\ Owned(m) = {}),
         timer_id' = [timer_id EXCEPT ![i] = m.id],
         timer_set_task' = [timer_set_task EXCEPT ![i] = m.sender],
         timer_cnt' = [timer_cnt EXCEPT ![i] = m.cnt],
         due' = [due EXCEPT ![i] = Still(m.cnt)]
  PROVE  IInv'
<1>1. since \in Nat /\ Still(m.cnt) \in Nat
  BY DEF IInv, TypeOK, Still
<1>2. TypeOK'
  BY <1>1, QueuedTypeNext DEF IInv, TypeOK, ticks
<1>3. Unique' /\ InUse'
  <2>1. \A j \in Slots : /\ timer_id'[j] = IF j = i THEN m.id ELSE timer_id[j]
                         /\ timer_set_task'[j] = IF j = i THEN m.sender ELSE timer_set_task[j]
                         /\ timer_cnt'[j] = IF j = i THEN m.cnt ELSE timer_cnt[j]
    BY DEF IInv, TypeOK
  <2>2. \A j \in Slots \ {i} : ~(timer_id[j] = m.id /\ timer_set_task[j] = m.sender)
    BY DEF IInv, Unique, Owned
  <2>3. Unique'
    BY <2>1, <2>2 DEF IInv, Unique
  <2>4. InUse'
    BY <2>1 DEF IInv, InUse, Key
  <2> QED
    BY <2>3, <2>4
<1>4. Distance'
  BY DEF IInv, Distance, Elapsed, ticks
<1>5. Covered'
  <2> SUFFICES ASSUME NEW j \in Slots
               PROVE  due'[j] = 0 \/ due'[j] + since' + Charge(j)' =< timer_cnt'[j]
    BY DEF Covered
  <2>1. due[j] = 0 \/ due[j] + since + Charge(j) =< timer_cnt[j]
    BY DEF IInv, Covered
  <2>2. Charge(j) = 0 /\ Charge(j)' = 0 /\ since' = since
    BY DEF Charge
  <2>3. CASE j = i
    <3>1. due'[j] = Still(m.cnt) /\ timer_cnt'[j] = m.cnt
      BY <2>3 DEF IInv, TypeOK
    <3> QED
      BY <1>1, <2>2, <3>1 DEF Still
  <2>4. CASE j # i
    BY <2>1, <2>2, <2>4 DEF IInv, TypeOK
  <2> QED
    BY <2>3, <2>4
<1> QED
  BY <1>2, <1>3, <1>4, <1>5 DEF IInv

LEMMA DisarmStep ==
  ASSUME IInv, Queued', pc = "recv", pc' = "count", UNCHANGED <<ticks, inbox, ii, since>>,
         NEW i \in Slots,
         timer_id' = [timer_id EXCEPT ![i] = 0],
         timer_set_task' = [timer_set_task EXCEPT ![i] = NoTask],
         timer_cnt' = [timer_cnt EXCEPT ![i] = 0],
         due' = [due EXCEPT ![i] = 0]
  PROVE  IInv'
<1>1. TypeOK'
  BY QueuedTypeNext DEF IInv, TypeOK, ticks
<1>2. Unique' /\ InUse'
  BY DEF IInv, TypeOK, Unique, InUse
<1>3. Distance'
  BY DEF IInv, Distance, Elapsed, ticks
<1>4. Covered'
  BY DEF IInv, TypeOK, Covered, Charge
<1> QED
  BY <1>1, <1>2, <1>3, <1>4 DEF IInv

LEMMA IgnoreStep ==
  ASSUME IInv, Queued', pc = "recv", pc' = "count", UNCHANGED <<ticks, inbox, ii, since>>,
         UNCHANGED <<table, due>>
  PROVE  IInv'
<1>1. TypeOK'
  BY QueuedTypeNext DEF IInv, TypeOK, ticks, table
<1>2. Unique' /\ InUse' /\ Distance' /\ Covered'
  BY DEF IInv, Unique, InUse, Distance, Elapsed, Covered, Charge, ticks, table
<1> QED
  BY <1>1, <1>2 DEF IInv

LEMMA ReceiveSetStep ==
  ASSUME IInv, ReceiveSet PROVE IInv'
<1> DEFINE m == Head(timer_mbx)
<1>1. /\ m.sender \in Clients /\ m.id \in Nat \ {0} /\ m.cnt \in Nat \ {0}
      /\ Key(m) \in SetReq /\ Queued'
  BY HeadIsLegal DEF ReceiveSet, Msg, Legal, Key, Queued
<1>2. /\ _timer_set(m) /\ pc = "recv" /\ pc' = "count"
      /\ UNCHANGED <<ticks, inbox, ii, since>>
  BY DEF ReceiveSet
<1> HIDE DEF m
<1>3. ASSUME NEW i \in Slots, First(Owned(m), i),
             timer_cnt' = [timer_cnt EXCEPT ![i] = m.cnt],
             due' = [due EXCEPT ![i] = Still(m.cnt)],
             UNCHANGED <<timer_id, timer_set_task>>
      PROVE  IInv'
  <2>1. i \in Owned(m)
    BY <1>3 DEF First
  <2>2. timer_id' = [timer_id EXCEPT ![i] = m.id]
    BY <1>3, <2>1 DEF Owned, IInv, TypeOK
  <2>3. timer_set_task' = [timer_set_task EXCEPT ![i] = m.sender]
    BY <1>3, <2>1 DEF Owned, IInv, TypeOK
  <2> QED
    BY <1>1, <1>2, <1>3, <2>1, <2>2, <2>3, ArmStep
<1>4. ASSUME NEW i \in Slots, Owned(m) = {}, First(Free, i),
             timer_id' = [timer_id EXCEPT ![i] = m.id],
             timer_set_task' = [timer_set_task EXCEPT ![i] = m.sender],
             timer_cnt' = [timer_cnt EXCEPT ![i] = m.cnt],
             due' = [due EXCEPT ![i] = Still(m.cnt)]
      PROVE  IInv'
  <2>1. i \in Free
    BY <1>4 DEF First
  <2> QED
    BY <1>1, <1>2, <1>4, <2>1, ArmStep
<1>5. CASE UNCHANGED <<table, due>>
  BY <1>1, <1>2, <1>5, IgnoreStep
<1> QED
  BY <1>2, <1>3, <1>4, <1>5 DEF _timer_set

LEMMA ReceiveCancelStep ==
  ASSUME IInv, ReceiveCancel PROVE IInv'
<1> DEFINE m == Head(timer_mbx)
<1>1. Queued'
  BY HeadIsLegal DEF ReceiveCancel, Queued
<1>2. /\ _timer_cancel(m) /\ pc = "recv" /\ pc' = "count"
      /\ UNCHANGED <<ticks, inbox, ii, since>>
  BY DEF ReceiveCancel
<1> HIDE DEF m
<1> QED
  BY <1>1, <1>2, DisarmStep, IgnoreStep DEF _timer_cancel

LEMMA StepInv == IInv /\ [Next]_vars => IInv'
<1> SUFFICES ASSUME IInv, [Next]_vars PROVE IInv'
  OBVIOUS
<1>1. CASE UNCHANGED vars
  <2>1. TypeOK' /\ Unique' /\ InUse' /\ Queued'
    BY <1>1 DEF IInv, TypeOK, MailboxOK, Unique, InUse, Queued, vars, table, ticks, hist
  <2>2. Distance' /\ Covered'
    BY <1>1 DEF IInv, Distance, Elapsed, Covered, Charge, vars, table, ticks, hist
  <2> QED
    BY <2>1, <2>2 DEF IInv
<1>2. CASE Task
  BY <1>2, SkipStep, ChargeStep, TimesUpStep, CounterStep, ReceiveSetStep, ReceiveCancelStep
     DEF Task
<1>3. CASE Client
  BY <1>3, ClientStep
<1>4. CASE Tick
  BY <1>4, TickStep
<1>5. CASE \E c \in Clients : ReadTimesUp(c)
  BY <1>5, ReadStep
<1> QED
  BY <1>1, <1>2, <1>3, <1>4, <1>5 DEF Next

THEOREM Invariance == Spec => []IInv
BY InitInv, StepInv, PTL DEF Spec

\* The tables, counters and mailboxes keep their types: in particular every
\* count stays a natural number and the loop index stays within the table.
THEOREM TypeCorrect == Spec => []TypeOK
BY Invariance, PTL DEF IInv

------------------------------------------------------------------------------
\* Pigeonhole: if the table were full without a slot of m, it would hold
\* MAX_TIMER different timers other than m's.
LEMMA RoomForSet ==
  ASSUME IInv, NEW m, Key(m) \in SetReq
  PROVE  Owned(m) \cup Free # {}
<1> SUFFICES ASSUME Owned(m) = {}, Free = {} PROVE FALSE
  OBVIOUS
<1> DEFINE S == SetReq \ {Key(m)}
           f == [i \in Slots |-> <<timer_set_task[i], timer_id[i]>>]
<1>1. IsFiniteSet(S) /\ Cardinality(S) = Cardinality(SetReq) - 1
  BY FS_RemoveElement, SizeAssumption
<1>2. IsFiniteSet(Slots) /\ Cardinality(Slots) = MAX_TIMER
  BY FS_Interval, SizeAssumption DEF Slots
<1>3. Cardinality(SetReq) \in Nat
  BY FS_CardinalityType, SizeAssumption
<1>4. \A i \in Slots : timer_id[i] # 0
  BY DEF Free
<1>5. f \in [Slots -> S]
  BY <1>4 DEF IInv, InUse, Owned, Key
<1>6. PICK i, j \in Slots : i # j /\ f[i] = f[j]
  <2>1. Cardinality(S) < Cardinality(Slots)
    BY <1>1, <1>2, <1>3, SizeAssumption
  <2> HIDE DEF S, f
  <2> QED
    BY <1>1, <1>2, <1>5, <2>1, FS_PigeonHole
<1> QED
  BY <1>4, <1>6 DEF IInv, Unique

\* A set request always finds a slot, whatever the requests before it: the
\* table has one for every timer of the program, and never two for one.
THEOREM SetIsNeverLost == Spec => []NeverDropped
<1>1. IInv => NeverDropped
  <2> SUFFICES ASSUME IInv, timer_mbx # << >>, Head(timer_mbx).code = "SET"
               PROVE  Owned(Head(timer_mbx)) \cup Free # {}
    BY DEF NeverDropped
  <2>1. Key(Head(timer_mbx)) \in SetReq
    BY HeadIsLegal DEF Legal
  <2> QED
    BY <2>1, RoomForSet
<1> QED
  BY <1>1, Invariance, PTL

\* No TIMES_UP before its time, for every counter width: a wraparound or an
\* interrupt between the two reads of the counter can only delay a timer.
THEOREM NeverEarly == Spec => NotEarly
<1>1. IInv => (\A i \in Slots : IdleTimesUp /\ ii = i => due[i] = 0)
  <2> SUFFICES ASSUME IInv, NEW i \in Slots, IdleTimesUp, ii = i PROVE due[i] = 0
    OBVIOUS
  <2>1. due[i] = 0 \/ due[i] + since + timer_elapse_time =< timer_cnt[i]
    BY SlotsType DEF IInv, Covered, Charge, IdleTimesUp, Slots
  <2>2. timer_cnt[i] =< timer_elapse_time
    BY DEF IdleTimesUp
  <2> QED
    BY <2>1, <2>2 DEF IInv, TypeOK
<1> QED
  BY <1>1, Invariance, PTL DEF NotEarly

------------------------------------------------------------------------------
\* Refinement: what happens to Armed when one slot is filled or cleared.
Timer(i) == <<timer_set_task[i], timer_id[i]>>

LEMMA FillSlot ==
  ASSUME IInv, NEW m, NEW i \in Slots, m.id \in Nat \ {0},
         i \in Owned(m) \/ i \in Free,
         timer_id' = [timer_id EXCEPT ![i] = m.id],
         timer_set_task' = [timer_set_task EXCEPT ![i] = m.sender]
  PROVE  Armed' = Armed \cup {Key(m)}
<1>1. \A j \in Slots : /\ timer_id'[j] = IF j = i THEN m.id ELSE timer_id[j]
                       /\ timer_set_task'[j] = IF j = i THEN m.sender ELSE timer_set_task[j]
  BY DEF IInv, TypeOK
<1>2. i \in Owned(m) => Timer(i) = Key(m)
  BY DEF Owned, Key, Timer
<1>3. i \in Free => timer_id[i] = 0
  BY DEF Free
<1> QED
  BY <1>1, <1>2, <1>3 DEF Armed, Key, Timer

LEMMA ClearSlot ==
  ASSUME IInv, NEW i \in Slots, timer_id[i] # 0,
         timer_id' = [timer_id EXCEPT ![i] = 0],
         \A j \in Slots \ {i} : timer_set_task'[j] = timer_set_task[j]
  PROVE  Armed' = Armed \ {Timer(i)}
<1>1. \A j \in Slots : timer_id'[j] = IF j = i THEN 0 ELSE timer_id[j]
  BY DEF IInv, TypeOK
<1>2. \A j \in Slots \ {i} : timer_id[j] # 0 => Timer(j) # Timer(i)
  BY DEF IInv, Unique, Timer
<1> QED
  BY <1>1, <1>2 DEF Armed, Timer

\* A cancel request clears its sender's own timer: the id identifies it.
LEMMA CancelsOwn ==
  ASSUME IInv, NEW m, Key(m) \in CancelReq, NEW i \in Slots, i \in WithId(m), m.id # 0
  PROVE  Timer(i) = Key(m)
<1>1. timer_id[i] = m.id /\ Timer(i) \in SetReq
  BY DEF IInv, InUse, WithId, Timer
<1>2. Key(m)[2] = Timer(i)[2]
  BY <1>1 DEF Key, Timer
<1>3. Key(m)[1] = Timer(i)[1]
  BY <1>1, <1>2
<1> QED
  BY <1>1, <1>3 DEF Key, Timer

LEMMA SetRefines ==
  ASSUME IInv, ReceiveSet PROVE \E t \in SetReq : Service!Arm(t)
<1> DEFINE m == Head(timer_mbx)
<1>1. m.id \in Nat \ {0} /\ Key(m) \in SetReq
  BY HeadIsLegal DEF ReceiveSet, Msg, Legal, Key
<1>2. _timer_set(m) /\ UNCHANGED inbox
  BY DEF ReceiveSet
<1> HIDE DEF m
<1>3. ASSUME NEW i \in Slots, First(Owned(m), i), UNCHANGED <<timer_id, timer_set_task>>
      PROVE  Armed' = Armed \cup {Key(m)}
  <2>1. i \in Owned(m) /\ timer_id[i] = m.id /\ timer_set_task[i] = m.sender
    BY <1>3 DEF First, Owned
  <2>2. /\ timer_id' = [timer_id EXCEPT ![i] = m.id]
        /\ timer_set_task' = [timer_set_task EXCEPT ![i] = m.sender]
    BY <1>3, <2>1 DEF IInv, TypeOK
  <2> QED
    BY <1>1, <2>1, <2>2, FillSlot
<1>4. ASSUME NEW i \in Slots, First(Free, i),
             timer_id' = [timer_id EXCEPT ![i] = m.id],
             timer_set_task' = [timer_set_task EXCEPT ![i] = m.sender]
      PROVE  Armed' = Armed \cup {Key(m)}
  <2>1. i \in Free
    BY <1>4 DEF First
  <2> QED
    BY <1>1, <1>4, <2>1, FillSlot
<1>5. ~(Owned(m) = {} /\ Free = {})
  BY <1>1, RoomForSet
<1>6. Armed' = Armed \cup {Key(m)}
  BY <1>2, <1>3, <1>4, <1>5 DEF _timer_set
<1> QED
  BY <1>1, <1>2, <1>6 DEF Service!Arm

LEMMA CancelRefines ==
  ASSUME IInv, ReceiveCancel PROVE \E t \in CancelReq : Service!Disarm(t)
<1> DEFINE m == Head(timer_mbx)
<1>1. m.id \in Nat \ {0} /\ Key(m) \in CancelReq
  BY HeadIsLegal DEF ReceiveCancel, Msg, Legal, Key
<1>2. _timer_cancel(m) /\ UNCHANGED inbox
  BY DEF ReceiveCancel
<1> HIDE DEF m
<1>3. ASSUME NEW i \in Slots, First(WithId(m), i),
             timer_id' = [timer_id EXCEPT ![i] = 0],
             timer_set_task' = [timer_set_task EXCEPT ![i] = NoTask]
      PROVE  Armed' = Armed \ {Key(m)}
  <2>1. i \in WithId(m)
    BY <1>3 DEF First
  <2>2. timer_id[i] # 0
    BY <1>1, <2>1 DEF WithId
  <2>3. \A j \in Slots \ {i} : timer_set_task'[j] = timer_set_task[j]
    BY <1>3 DEF IInv, TypeOK
  <2>4. Armed' = Armed \ {Timer(i)}
    BY <1>3, <2>2, <2>3, ClearSlot
  <2> QED
    BY <1>1, <2>1, <2>4, CancelsOwn
<1>4. ASSUME WithId(m) = {}, UNCHANGED <<table, due>>
      PROVE  Armed' = Armed \ {Key(m)}
  <2>1. Armed' = Armed
    BY <1>4 DEF Armed, table
  <2>2. Key(m) \notin Armed
    BY <1>4 DEF Armed, WithId, Key
  <2> QED
    BY <2>1, <2>2
<1>5. Armed' = Armed \ {Key(m)}
  BY <1>2, <1>3, <1>4 DEF _timer_cancel
<1> QED
  BY <1>1, <1>2, <1>5 DEF Service!Disarm

LEMMA TimesUpRefines ==
  ASSUME IInv, IdleTimesUp PROVE \E t \in SetReq : Service!Expire(t)
<1>1. ii \in Slots /\ timer_id[ii] # 0 /\ Timer(ii) \in SetReq
  BY DEF IInv, InUse, IdleTimesUp, Running, Timer
<1>2. Timer(ii) \in Armed
  BY <1>1 DEF Armed, Timer
<1>3. Armed' = Armed \ {Timer(ii)}
  BY <1>1, ClearSlot DEF IdleTimesUp
<1>4. inbox' = [inbox EXCEPT ![Timer(ii)[1]] = Append(@, Timer(ii)[2])]
  BY DEF IdleTimesUp, Timer
<1> QED
  BY <1>1, <1>2, <1>3, <1>4 DEF Service!Expire

LEMMA StepRefines == IInv /\ [Next]_vars => [Service!Next]_<<Armed, inbox>>
<1> SUFFICES ASSUME IInv, [Next]_vars PROVE [Service!Next]_<<Armed, inbox>>
  OBVIOUS
<1>1. CASE ReceiveSet
  BY <1>1, SetRefines DEF Service!Next
<1>2. CASE ReceiveCancel
  BY <1>2, CancelRefines DEF Service!Next
<1>3. CASE IdleTimesUp
  BY <1>3, TimesUpRefines DEF Service!Next
<1>4. CASE \E c \in Clients : ReadTimesUp(c)
  <2>1. PICK c \in Clients : ReadTimesUp(c)
    BY <1>4
  <2>2. Armed' = Armed
    BY <2>1 DEF ReadTimesUp, Armed, table
  <2>3. Service!Read(c)
    BY <2>1, <2>2 DEF ReadTimesUp, Service!Read
  <2> QED
    BY <2>3 DEF Service!Next
<1>5. CASE IdleSkip \/ IdleCharge \/ IdleDone \/ ReceiveTimeout \/ CountElapse \/ SaveBackup
  BY <1>5 DEF IdleSkip, IdleCharge, IdleDone, ReceiveTimeout, CountElapse, SaveBackup,
              Armed, table
<1>6. CASE Client \/ Tick \/ UNCHANGED vars
  BY <1>6 DEF Client, RequestSet, RequestCancel, Tick, Armed, table, vars
<1> QED
  BY <1>1, <1>2, <1>3, <1>4, <1>5, <1>6 DEF Next, Task

\* The slot table, its loops and its counter implement the timers a client
\* relies on: each request acts on its own timer and each arming expires once.
THEOREM ImplementsService == Spec => Implements
<1>1. Init => Service!Init
  BY DEF Init, Service!Init, Armed
<1> QED
  BY <1>1, StepRefines, Invariance, PTL DEF Spec, Implements, Service!Spec
=============================================================================
