-------------------------- MODULE AcceptModeProofs --------------------------
(***************************************************************************)
(* Theorems about AcceptMode for every set of denominations and every pool *)
(* size: type correctness, and that a second note is never identified or   *)
(* offered before the host has acknowledged the credit of the first one.   *)
(***************************************************************************)
EXTENDS AcceptMode, SequenceTheorems, TLAPS

Denominations == Denomis \cup {NoDenomi}

Messages ==
  [code : Requests \cup {"SENSOR_ACTIVE", "SENSOR", "STATUS", "RESET", "STACK",
                         "REJECT", "1ST_NOTE_DONE"},
   sub : {"SUCCESS", "REJECT", "ALARM", "START", "INFO", "REQ"},
   arg : Denominations]

ToldArgs == Accepted \cup {NoDenomi, "STACKER_HOME"}

LineMessages ==
  [code : {"ACCEPT", "STACK", "RESET"},
   sub : {"SUCCESS", "REJECT", "ALARM", "VEND"}, arg : ToldArgs]

Jobs == [busy : SUBSET Tasks, alarm : SUBSET Tasks, reject : SUBSET Tasks,
         denomi : Accepted \cup {NoDenomi}]

\* Why the second note waits: 1ST_NOTE_DONE is in the mailbox only after the
\* acknowledgement, ex_2nd_note_uba is 2 only after that message, and no step
\* leads to the identification while it is 1.
AckedBefore ==
  /\ mode \in {"DISCRIMINATION", "WAIT_REQ"} => second # 1
  /\ second = 2 => vend = "acked"
  /\ \A i \in 1 .. Len(main_mbx) :
       main_mbx[i].code = "1ST_NOTE_DONE" => vend = "acked"

\* Why the acknowledgement is final: there is one credit, and it moves from
\* the stacker's request over its answer and the VEND to the line task.
Pulling == work["STACKER"] = <<"STACKER_PULL">>
Pulled  == \E i \in 1 .. Len(main_mbx) : main_mbx[i].code = "STACKER_PULL"
Vended  == \E i \in 1 .. Len(line_mbx) : line_mbx[i].sub = "VEND"

OneCredit ==
  /\ work["STACKER"] \in {<< >>, <<"STACKER_PULL">>, <<"STACKER_HOME">>}
  /\ \A i, j \in 1 .. Len(main_mbx) :
       main_mbx[i].code = "STACKER_PULL" /\ main_mbx[j].code = "STACKER_PULL" => i = j
  /\ \A i, j \in 1 .. Len(line_mbx) :
       line_mbx[i].sub = "VEND" /\ line_mbx[j].sub = "VEND" => i = j
  /\ Pulling => ~Pulled /\ ~Vended /\ vend = "none"
  /\ Pulled => ~Vended /\ vend = "none"
  /\ Vended => vend = "none"

IInv == TypeOK /\ AckedBefore /\ OneCredit

\* What a handler does to the requests and to the line task: it asks the
\* stacker for nothing but to go home, and VEND is what follows a pull.
WorkKept ==
  /\ DOMAIN work' = Tasks /\ \A t \in Tasks : work'[t] \in Seq(Asked[t])
  /\ work'["STACKER"] \in {work["STACKER"], <<"STACKER_HOME">>}

Added ==
  \E more \in Seq(LineMessages) :
    /\ line_mbx' = line_mbx \o more
    /\ \A i \in 1 .. Len(more) :
         more[i].sub = "VEND" => i = 1 /\ m.code = "STACKER_PULL"

\* What a handler leaves behind, apart from the mailbox it read from.
Effect ==
  /\ mode' \in AcceptModes \cup {"INIT", "ALARM", "REJECT", "STACK"}
  /\ job' \in Jobs /\ reset' \in BOOLEAN /\ second' \in 0 .. 2
  /\ Added /\ WorkKept
  /\ mode' \in {"DISCRIMINATION", "WAIT_REQ"} => second' # 1
  /\ second' = 2 => vend = "acked"

Reading == IInv /\ main_mbx # << >>

ReqsOK(reqs) ==
  /\ DOMAIN reqs \subseteq Tasks /\ \A t \in DOMAIN reqs : reqs[t] \in Asked[t]
  /\ "STACKER" \in DOMAIN reqs => reqs["STACKER"] = "STACKER_HOME"

USE DenomiAssumption, PoolAssumption

------------------------------------------------------------------------------
(* Types of what the handlers work with.                                      *)

LEMMA ReadType == Reading => /\ m \in Messages
                             /\ m.code = "1ST_NOTE_DONE" => vend = "acked"
<1> SUFFICES ASSUME Reading PROVE m \in Messages /\ (m.code = "1ST_NOTE_DONE" => vend = "acked")
  OBVIOUS
<1>1. main_mbx \in Seq(Messages) /\ main_mbx # << >>
  BY DEF Reading, IInv, TypeOK, MailOK, Messages, Denominations
<1>2. m = main_mbx[1] /\ 1 \in 1 .. Len(main_mbx)
  BY <1>1, EmptySeq DEF m
<1> QED
  BY <1>1, <1>2, HeadTailProperties DEF m, Reading, IInv, AckedBefore

LEMMA JobTypes ==
  ASSUME job \in Jobs
  PROVE  /\ \A t \in Tasks : Done(t) \in Jobs /\ Failed(t) \in Jobs /\ Refused(t) \in Jobs
         /\ NoJob \in Jobs
BY DEF Jobs, Done, Failed, Refused, NoJob

LEMMA TaskNames ==
  {"CIS_INIT", "CENTERING", "APB", "FEED", "STACKER", "SHUTTER", "MGU",
   "DISCRIMINATION", "ICB"} \subseteq Tasks
BY DEF Tasks

LEMMA RequestTypes ==
  /\ ReqsOK([FEED |-> "FEED_CENTERING"]) /\ ReqsOK([FEED |-> "FEED_ESCROW"])
  /\ ReqsOK([FEED |-> "FEED_APB"]) /\ ReqsOK([FEED |-> "FEED_REJECT"])
  /\ ReqsOK([APB |-> "APB_HOME"]) /\ ReqsOK([ICB |-> "ICB_REJECT"])
  /\ ReqsOK([CENTERING |-> "CENTERING_HOME"])
  /\ ReqsOK([CENTERING |-> "CENTERING_EXEC"])
  /\ ReqsOK([STACKER |-> "STACKER_HOME"])
  /\ ReqsOK([MGU |-> "MGU_READ", DISCRIMINATION |-> "VALIDATION",
             SHUTTER |-> "SHUTTER_CLOSE"])
  /\ ReqsOK(<< >>)
  /\ \A h \in SUBSET {"CENTERING", "SHUTTER"} : ReqsOK(OpenWay(h))
BY DEF ReqsOK, Tasks, Asked, OpenWay

------------------------------------------------------------------------------
(* The ways in which a handler ends.                                          *)

LEMMA OneRequest ==
  ASSUME NEW S, NEW x \in S PROVE << x >> \in Seq(S)
OBVIOUS

LEMMA AskKeeps ==
  ASSUME Reading, NEW reqs, ReqsOK(reqs), Ask(reqs)
  PROVE  WorkKept
<1>1. DOMAIN work' = Tasks
  BY DEF Ask
<1>2. ASSUME NEW t \in Tasks PROVE work'[t] \in Seq(Asked[t])
  <2>1. work[t] \in Seq(Asked[t])
    BY DEF Reading, IInv, TypeOK, WorkOK
  <2>2. CASE t \notin DOMAIN reqs
    BY <2>1, <2>2 DEF Ask
  <2>3. CASE t \in DOMAIN reqs
    <3>1. reqs[t] \in Asked[t]
      BY <2>3 DEF ReqsOK
    <3>2. Append(work[t], reqs[t]) \in Seq(Asked[t])
      BY <2>1, <3>1, AppendProperties
    <3>3. << reqs[t] >> \in Seq(Asked[t])
      BY <3>1, OneRequest
    <3>4. work'[t] \in {<< reqs[t] >>, work[t], Append(work[t], reqs[t])}
      BY <2>3 DEF Ask
    <3> QED
      BY <2>1, <3>2, <3>3, <3>4
  <2> QED
    BY <2>2, <2>3
<1>3. work'["STACKER"] \in {work["STACKER"], <<"STACKER_HOME">>}
  <2>1. Append(<< >>, "STACKER_HOME") = <<"STACKER_HOME">>
    OBVIOUS
  <2> QED
    BY <2>1, TaskNames DEF Ask, ReqsOK, Motors
<1> QED
  BY <1>1, <1>2, <1>3 DEF WorkKept

LEMMA SameWork ==
  ASSUME Reading, work' = work PROVE WorkKept
BY DEF Reading, IInv, TypeOK, WorkOK, WorkKept

\* What main tells besides VEND.
Tales == {<< >>} \cup {<<x>> : x \in {y \in LineMessages : y.sub # "VEND"}}

LEMMA ToldTypes ==
  /\ << >> \in Tales
  /\ \A a \in ToldArgs : /\ <<Msg("ACCEPT", "REJECT", a)>> \in Tales
                         /\ <<Msg("ACCEPT", "ALARM", a)>> \in Tales
                         /\ <<Msg("ACCEPT", "SUCCESS", a)>> \in Tales
                         /\ <<Msg("RESET", "ALARM", a)>> \in Tales
BY DEF LineMessages, Msg, Tales

LEMMA TellType ==
  ASSUME Reading, NEW told \in Tales, Tell(told)
  PROVE  Added
<1> DEFINE more == Credit \o told
<1>1. line_mbx \in Seq(LineMessages)
  BY DEF Reading, IInv, TypeOK, MailOK, LineMessages, ToldArgs
<1>2. /\ Credit = << >> \/ Credit = <<Msg("STACK", "VEND", NoDenomi)>>
      /\ Credit # << >> => m.code = "STACKER_PULL"
  BY DEF Credit
<1>3. << >> \in Seq(LineMessages) /\ <<Msg("STACK", "VEND", NoDenomi)>> \in Seq(LineMessages)
  BY DEF LineMessages, ToldArgs, Msg
<1>4. /\ Credit \in Seq(LineMessages) /\ Len(Credit) \in {0, 1}
      /\ Len(Credit) # 0 => m.code = "STACKER_PULL"
  BY <1>2, <1>3
<1>5. /\ told \in Seq(LineMessages) /\ Len(told) \in {0, 1}
      /\ \A i \in 1 .. Len(told) : told[i].sub # "VEND"
  <2>1. CASE told = << >>
    BY <2>1
  <2>2. CASE \E x \in LineMessages : x.sub # "VEND" /\ told = <<x>>
    <3> PICK x \in LineMessages : x.sub # "VEND" /\ told = <<x>>
      BY <2>2
    <3>1. <<x>> \in Seq(LineMessages) /\ Len(<<x>>) = 1 /\ <<x>>[1] = x
      OBVIOUS
    <3> QED
      BY <3>1
  <2> QED
    BY <2>1, <2>2 DEF Tales
<1>6. /\ more \in Seq(LineMessages) /\ Len(more) = Len(Credit) + Len(told)
      /\ \A i \in 1 .. Len(more) :
           more[i] = IF i =< Len(Credit) THEN Credit[i] ELSE told[i - Len(Credit)]
  BY <1>4, <1>5, ConcatProperties
<1>7. line_mbx' = line_mbx \o more
  <2>1. (line_mbx \o Credit) \o told = line_mbx \o (Credit \o told)
    BY <1>1, <1>4, <1>5, ConcatAssociative
  <2> QED
    BY <2>1 DEF Tell
<1> HIDE DEF more
<1>8. ASSUME NEW i \in 1 .. Len(more), more[i].sub = "VEND"
      PROVE  i = 1 /\ m.code = "STACKER_PULL"
  <2>1. i \in 1 .. Len(more) /\ Len(more) = Len(Credit) + Len(told)
    BY <1>6
  <2>2. i =< Len(Credit)
    BY <1>4, <1>5, <1>6, <1>8
  <2>3. i = 1 /\ Len(Credit) # 0
    BY <1>4, <1>5, <2>1, <2>2
  <2> QED
    BY <1>4, <2>3
<1> QED
  BY <1>6, <1>7, <1>8 DEF Added

LEMMA SecondType ==
  ASSUME Reading
  PROVE  /\ NextSecond \in 0 .. 2 /\ second \in 0 .. 2
         /\ NextSecond = 2 => vend = "acked"
         /\ second = 2 => vend = "acked"
         /\ second # 1 => NextSecond # 1
         /\ mode \in {"DISCRIMINATION", "WAIT_REQ"} => NextSecond # 1 /\ second # 1
BY ReadType DEF Reading, IInv, TypeOK, MainOK, AckedBefore, NextSecond

LEMMA Same ==
  ASSUME Reading
  PROVE  /\ mode \in AcceptModes \cup {"INIT", "ALARM", "REJECT", "STACK"}
         /\ job \in Jobs /\ reset \in BOOLEAN
         /\ DOMAIN work = Tasks /\ \A t \in Tasks : work[t] \in Seq(Asked[t])
BY DEF Reading, IInv, TypeOK, MainOK, WorkOK, Jobs

LEMMA StayEffect ==
  ASSUME Reading, NEW j \in Jobs, Stay(j) PROVE Effect
BY Same, SameWork, SecondType, TellType, ToldTypes DEF Stay, Effect

LEMMA FlagEffect ==
  ASSUME Reading, Flag PROVE Effect
<1>1. line_mbx \in Seq(LineMessages)
  BY DEF Reading, IInv, TypeOK, MailOK, LineMessages, ToldArgs
<1> DEFINE nothing == << >>
<1>2. line_mbx \o nothing = line_mbx /\ nothing \in Seq(LineMessages) /\ Len(nothing) = 0
  BY <1>1
<1>3. Added
  <2> HIDE DEF nothing
  <2> QED
    <3>1. line_mbx' = line_mbx \o nothing
      BY <1>2 DEF Flag
    <3>2. \A i \in 1 .. Len(nothing) : FALSE
      BY <1>2
    <3> QED
      BY <1>2, <3>1, <3>2 DEF Added
<1> QED
  BY <1>3, Same, SameWork, SecondType DEF Flag, Effect

LEMMA ProceedEffect ==
  ASSUME Reading, NEW j \in Jobs, NEW next \in AcceptModes, NEW reqs, ReqsOK(reqs),
         next \in {"DISCRIMINATION", "WAIT_REQ"} => second # 1,
         Proceed(next, j, reqs)
  PROVE  Effect
<1>1. job' \in Jobs
  BY DEF Proceed, Jobs, ReqsOK
<1>2. WorkKept
  BY AskKeeps DEF Proceed
<1>3. Added
  BY TellType, ToldTypes DEF Proceed
<1> QED
  BY <1>1, <1>2, <1>3, Same, SecondType DEF Proceed, Effect

LEMMA AlarmEffect ==
  ASSUME Reading, NEW j \in Jobs, AlarmSub(j) PROVE Effect
<1>1. Added
  BY TellType, ToldTypes DEF AlarmSub, ToldArgs
<1> QED
  BY <1>1, Same, SameWork DEF AlarmSub, Effect

LEMMA InitEffect ==
  ASSUME Reading, SetInit PROVE Effect
<1>1. Added
  BY TellType, ToldTypes DEF SetInit, ToldArgs
<1>2. /\ mode' \in {"INIT", "ALARM"} /\ second' \in {0, second}
      /\ reset' = FALSE /\ job' = NoJob /\ work' = work
  BY DEF SetInit
<1>3. job' \in Jobs
  BY <1>2, Same, JobTypes
<1>4. second' \in 0 .. 2 /\ (second' = 2 => vend = "acked")
  BY <1>2, SecondType
<1> QED
  BY <1>1, <1>2, <1>3, <1>4, SameWork DEF Effect

LEMMA RejectEffect ==
  ASSUME Reading, NEW next \in {"WAIT_REJECT_REQ", "STACK"}, NEW code \in ToldArgs,
         RejectSub(next, code)
  PROVE  Effect
<1>1. Added
  BY TellType, ToldTypes DEF RejectSub
<1> QED
  BY <1>1, Same, SameWork, JobTypes DEF RejectSub, Effect, AcceptModes

LEMMA OfferEffect ==
  ASSUME Reading, mode = "DISCRIMINATION", NEW j \in Jobs,
         NEW denomi \in Accepted \cup {NoDenomi}, Offer(j, denomi)
  PROVE  Effect
<1>1. Added
  BY TellType, ToldTypes DEF Offer, ToldArgs
<1> QED
  BY <1>1, Same, SameWork, SecondType DEF Offer, Effect, AcceptModes

------------------------------------------------------------------------------
(* The joins: each branch ends in one of these ways.                          *)

LEMMA WaitRejectEffect ==
  ASSUME Reading, WaitReject \/ StackerNotHome PROVE Effect
BY RejectEffect DEF WaitReject, StackerNotHome, ToldArgs

LEMMA StatusEffect ==
  ASSUME Reading, StatusAlarm \/ StatusOrInit PROVE Effect
BY Same, AlarmEffect, InitEffect DEF StatusAlarm, StatusOrInit

LEMMA DefaultEffect ==
  ASSUME Reading, NEW cases, Default(cases) PROVE Effect
BY Same, StayEffect DEF Default

LEMMA StartCheckEffect ==
  ASSUME Reading, NEW j \in Jobs, start_check(j) PROVE Effect
<1>1. CASE Proceed("WAIT_FEED_START", j, [FEED |-> "FEED_CENTERING"])
  BY <1>1, ProceedEffect, RequestTypes DEF AcceptModes
<1>2. CASE Proceed("WAIT_PB_START", j, [APB |-> "APB_HOME"])
  BY <1>2, ProceedEffect, RequestTypes DEF AcceptModes
<1>3. CASE WaitReject \/ AlarmSub(j)
  BY <1>3, WaitRejectEffect, AlarmEffect
<1> QED
  BY <1>1, <1>2, <1>3 DEF start_check

LEMMA StackEffect ==
  ASSUME Reading, NEW run \in {0, 1}, uba_stack(run) PROVE Effect
<1>0. Done("STACKER") \in Jobs /\ Failed("STACKER") \in Jobs
  BY Same, JobTypes, TaskNames
<1>1. CASE Proceed("FEED_ESCROW", Done("STACKER"), [FEED |-> "FEED_ESCROW"])
  BY <1>0, <1>1, ProceedEffect, RequestTypes DEF AcceptModes
<1>2. CASE Stay(Done("STACKER")) \/ Stay(Failed("STACKER"))
  BY <1>0, <1>2, StayEffect
<1>3. CASE SetInit \/ WaitReject \/ StackerNotHome
  BY <1>3, InitEffect, WaitRejectEffect
<1>4. CASE AlarmSub(Done("STACKER")) \/ AlarmSub(Failed("STACKER"))
  BY <1>0, <1>4, AlarmEffect
<1> QED
  BY <1>1, <1>2, <1>3, <1>4 DEF uba_stack, IfLast, AlarmFirst

\* A task's answer is recorded, and main waits on or gives the note up.
LEMMA JoinEffect ==
  ASSUME Reading, NEW t \in Tasks
  PROVE  /\ Stay(job) \/ Stay(Done(t)) \/ Stay(Failed(t)) \/ Stay(Refused(t)) => Effect
         /\ AlarmSub(job) \/ AlarmSub(Done(t)) \/ AlarmSub(Failed(t)) => Effect
         /\ SetInit \/ WaitReject \/ StackerNotHome => Effect
<1>1. job \in Jobs /\ Done(t) \in Jobs /\ Failed(t) \in Jobs /\ Refused(t) \in Jobs
  BY Same, JobTypes
<1>2. SetInit \/ WaitReject \/ StackerNotHome => Effect
  BY InitEffect, WaitRejectEffect
<1>3. Stay(job) \/ Stay(Done(t)) \/ Stay(Failed(t)) \/ Stay(Refused(t)) => Effect
  BY <1>1, StayEffect
<1>4. AlarmSub(job) \/ AlarmSub(Done(t)) \/ AlarmSub(Failed(t)) => Effect
  BY <1>1, AlarmEffect
<1> QED
  BY <1>2, <1>3, <1>4

------------------------------------------------------------------------------
(* The handlers, one lemma each.                                              *)

LEMMA SensorActiveEffect ==
  ASSUME Reading, mode = "SENSOR_ACTIVE", accept_sensor_active PROVE Effect
<1> DEFINE j == IF m.code = "CIS_INITIALIZE" THEN Done("CIS_INIT") ELSE job
<1>1. j \in Jobs /\ job \in Jobs
  BY Same, JobTypes, TaskNames
<1>2. CASE Proceed("PB_CENTERING_HOME", j, [CENTERING |-> "CENTERING_HOME"])
  BY <1>1, <1>2, ProceedEffect, RequestTypes DEF AcceptModes
<1>3. CASE start_check(j) \/ Stay(j)
  BY <1>1, <1>3, StartCheckEffect, StayEffect
<1>4. CASE Stay([Done("CIS_INIT") EXCEPT !.alarm = IF @ = {} THEN {"CIS_INIT"} ELSE @])
  <2>1. [Done("CIS_INIT") EXCEPT !.alarm = IF @ = {} THEN {"CIS_INIT"} ELSE @] \in Jobs
    BY Same, TaskNames DEF Jobs, Done
  <2> QED
    BY <1>4, <2>1, StayEffect
<1>5. CASE SetInit \/ uba_stack(0) \/ StatusAlarm
           \/ Default({"RESET", "SENSOR_ACTIVE", "CIS_INITIALIZE", "STACKER_PULL"})
  BY <1>5, InitEffect, StackEffect, StatusEffect, DefaultEffect
<1> HIDE DEF j
<1> QED
  BY <1>2, <1>3, <1>4, <1>5 DEF accept_sensor_active, j

LEMMA PbCenteringHomeEffect ==
  ASSUME Reading, mode = "PB_CENTERING_HOME", pb_centering_home PROVE Effect
<1>1. CASE Flag \/ uba_stack(0) \/ StatusOrInit
           \/ Default({"RESET", "CENTERING_HOME", "STACKER_PULL"})
  BY <1>1, FlagEffect, StackEffect, StatusEffect, DefaultEffect
<1>2. CASE start_check(Done("CENTERING"))
  BY <1>2, Same, JobTypes, TaskNames, StartCheckEffect
<1>3. CASE \/ Stay(Done("CENTERING")) \/ AlarmSub(Done("CENTERING"))
           \/ Stay(Failed("CENTERING")) \/ AlarmSub(Failed("CENTERING")) \/ SetInit
  BY <1>3, JoinEffect, TaskNames
<1> QED
  BY <1>1, <1>2, <1>3 DEF pb_centering_home, IfLast

LEMMA WaitPbStartEffect ==
  ASSUME Reading, mode = "WAIT_PB_START", wait_pb_start PROVE Effect
<1>0. Done("APB") \in Jobs /\ job \in Jobs
  BY Same, JobTypes, TaskNames
<1>1. CASE Flag \/ uba_stack(0) \/ StatusOrInit
           \/ Default({"RESET", "APB_HOME", "STACKER_PULL"})
  BY <1>1, FlagEffect, StackEffect, StatusEffect, DefaultEffect
<1>2. CASE \/ Proceed("WAIT_FEED_START", Done("APB"), [FEED |-> "FEED_CENTERING"])
           \/ Proceed("WAIT_FEED_START", job, [FEED |-> "FEED_CENTERING"])
  BY <1>0, <1>2, ProceedEffect, RequestTypes DEF AcceptModes
<1>3. CASE \/ Stay(Done("APB")) \/ AlarmSub(Done("APB"))
           \/ Stay(Failed("APB")) \/ AlarmSub(Failed("APB")) \/ SetInit
  BY <1>3, JoinEffect, TaskNames
<1> QED
  BY <1>1, <1>2, <1>3 DEF wait_pb_start, IfLast

LEMMA FeedFailedEffect ==
  ASSUME Reading, feed_failed PROVE Effect
BY JoinEffect, TaskNames DEF feed_failed, IfLast, StackerFirst

LEMMA ApbFailedEffect ==
  ASSUME Reading, apb_failed PROVE Effect
BY JoinEffect, TaskNames DEF apb_failed, IfLast

LEMMA WaitFeedStartEffect ==
  ASSUME Reading, mode = "WAIT_FEED_START", wait_feed_start PROVE Effect
<1>1. CASE Flag \/ uba_stack(0) \/ StatusOrInit
           \/ Default({"RESET", "FEED_CENTERING", "APB_HOME", "STACKER_PULL"})
  BY <1>1, FlagEffect, StackEffect, StatusEffect, DefaultEffect
<1>2. CASE feed_failed \/ apb_failed
  BY <1>2, FeedFailedEffect, ApbFailedEffect
<1>3. CASE Stay(job) \/ Stay(Done("APB")) \/ SetInit
  BY <1>3, JoinEffect, TaskNames
<1>4. CASE /\ mode' = "FEED_CENTERING" /\ Tell(<< >>)
           /\ UNCHANGED <<job, reset, second, work>>
  <2>1. Added
    BY <1>4, TellType, ToldTypes
  <2> QED
    BY <1>4, <2>1, Same, SameWork, SecondType DEF Effect, AcceptModes
<1> QED
  BY <1>1, <1>2, <1>3, <1>4 DEF wait_feed_start

LEMMA FeedCenteringEffect ==
  ASSUME Reading, mode = "FEED_CENTERING", feed_centering PROVE Effect
<1>0. Done("FEED") \in Jobs /\ Done("APB") \in Jobs
  BY Same, JobTypes, TaskNames
<1>1. CASE Flag \/ uba_stack(0) \/ StatusOrInit
           \/ Default({"RESET", "FEED_CENTERING", "APB_HOME", "STACKER_PULL"})
  BY <1>1, FlagEffect, StackEffect, StatusEffect, DefaultEffect
<1>2. CASE feed_failed \/ apb_failed
  BY <1>2, FeedFailedEffect, ApbFailedEffect
<1>3. CASE \/ Stay(job) \/ Stay(Done("APB")) \/ Stay(Done("FEED"))
           \/ SetInit \/ WaitReject \/ StackerNotHome
  BY <1>3, JoinEffect, TaskNames
<1>4. CASE to_centering(Done("FEED")) \/ to_centering(Done("APB"))
  BY <1>0, <1>4, ProceedEffect, RequestTypes DEF AcceptModes, to_centering
<1> QED
  BY <1>1, <1>2, <1>3, <1>4 DEF feed_centering

LEMMA CenteringExecEffect ==
  ASSUME Reading, mode = "CENTERING", centering_exec PROVE Effect
<1>0. Done("CENTERING") \in Jobs /\ job \in Jobs
  BY Same, JobTypes, TaskNames
<1>1. CASE Flag \/ uba_stack(1) \/ StatusOrInit
           \/ Default({"RESET", "CENTERING_EXEC", "STACKER_PULL", "STACKER_HOME"})
  BY <1>1, FlagEffect, StackEffect, StatusEffect, DefaultEffect
<1>2. CASE \/ Stay(Done("CENTERING")) \/ Stay(Refused("CENTERING"))
           \/ AlarmSub(Done("CENTERING"))
           \/ SetInit \/ WaitReject \/ StackerNotHome
  BY <1>2, JoinEffect, TaskNames
<1>3. CASE \/ Proceed(mode, job, [STACKER |-> "STACKER_HOME"])
           \/ Proceed("FEED_ESCROW", Done("CENTERING"), [FEED |-> "FEED_ESCROW"])
  BY <1>0, <1>3, ProceedEffect, RequestTypes DEF AcceptModes
<1> QED
  BY <1>1, <1>2, <1>3 DEF centering_exec, IfLast, StackerFirst, AlarmFirst

\* The identification starts only with second # 1.
LEMMA EscrowReachedEffect ==
  ASSUME Reading, NEW j \in Jobs, EscrowReached(j) PROVE Effect
<1>1. CASE second # 1 /\ Identify(j)
  BY <1>1, ProceedEffect, RequestTypes DEF AcceptModes, Identify
<1>2. CASE Proceed("WAIT_ACCEPT_REQ", j, << >>)
  BY <1>2, ProceedEffect, RequestTypes DEF AcceptModes
<1> QED
  BY <1>1, <1>2 DEF EscrowReached

LEMMA FeedEscrowEffect ==
  ASSUME Reading, mode = "FEED_ESCROW", feed_escrow PROVE Effect
<1> DEFINE j == [Done("FEED") EXCEPT !.alarm = IF @ = {} THEN {"FEED"} ELSE @]
<1>0. Done("FEED") \in Jobs /\ j \in Jobs
  BY Same, TaskNames DEF Jobs, Done
<1>1. CASE Flag \/ StatusOrInit \/ Default({"RESET", "FEED_ESCROW"})
  BY <1>1, FlagEffect, StatusEffect, DefaultEffect
<1>2. CASE \/ Stay(Done("FEED")) \/ Stay(Refused("FEED")) \/ AlarmSub(Done("FEED"))
           \/ SetInit \/ WaitReject
  BY <1>2, JoinEffect, TaskNames
<1>3. CASE EscrowReached(Done("FEED"))
  BY <1>0, <1>3, EscrowReachedEffect
<1>4. CASE Stay(j)
  BY <1>0, <1>4, StayEffect
<1> HIDE DEF j
<1> QED
  BY <1>1, <1>2, <1>3, <1>4 DEF feed_escrow, IfLast, AlarmFirst, j

\* The second note goes on when 1ST_NOTE_DONE is read: vend is "acked" then.
LEMMA WaitAcceptReqEffect ==
  ASSUME Reading, mode = "WAIT_ACCEPT_REQ", accept_wait_accept_req PROVE Effect
<1>1. CASE SetInit \/ StatusAlarm \/ Default({"RESET", "1ST_NOTE_DONE"})
  BY <1>1, InitEffect, StatusEffect, DefaultEffect
<1>2. CASE /\ m.code = "1ST_NOTE_DONE"
           /\ mode' = "DISCRIMINATION" /\ second' = NextSecond
           /\ job' = [job EXCEPT !.busy = @ \cup {"MGU", "DISCRIMINATION", "SHUTTER"}]
           /\ work' = [work EXCEPT !["MGU"] = @ \o <<"MGU_READ", "MGU_READ">>,
                                   !["DISCRIMINATION"] = Append(@, "VALIDATION"),
                                   !["SHUTTER"] = <<"SHUTTER_CLOSE">>]
           /\ Tell(<< >>) /\ UNCHANGED reset
  <2>1. Added
    BY <1>2, TellType, ToldTypes
  <2>2. job' \in Jobs
    BY <1>2, Same, TaskNames DEF Jobs
  <2>3. WorkKept
    <3>1. work["MGU"] \o <<"MGU_READ", "MGU_READ">> \in Seq(Asked["MGU"])
      <4>1. <<"MGU_READ", "MGU_READ">> \in Seq(Asked["MGU"]) /\ work["MGU"] \in Seq(Asked["MGU"])
        BY Same, TaskNames DEF Asked
      <4> QED
        BY <4>1, ConcatProperties
    <3>2. Append(work["DISCRIMINATION"], "VALIDATION") \in Seq(Asked["DISCRIMINATION"])
      <4>1. /\ "VALIDATION" \in Asked["DISCRIMINATION"]
            /\ work["DISCRIMINATION"] \in Seq(Asked["DISCRIMINATION"])
        BY Same, TaskNames DEF Asked
      <4> QED
        BY <4>1, AppendProperties
    <3>3. <<"SHUTTER_CLOSE">> \in Seq(Asked["SHUTTER"])
      BY DEF Asked, Tasks
    <3> QED
      BY <1>2, <3>1, <3>2, <3>3, Same, TaskNames DEF WorkKept
  <2>4. NextSecond # 1
    BY <1>2, Same, SecondType DEF NextSecond
  <2> QED
    BY <1>2, <2>1, <2>2, <2>3, <2>4, Same, SecondType DEF Effect, AcceptModes
<1> QED
  BY <1>1, <1>2 DEF accept_wait_accept_req

LEMMA ValidatedEffect ==
  ASSUME Reading, mode = "DISCRIMINATION", validated PROVE Effect
<1> DEFINE j == Done("DISCRIMINATION")
           kept == [j EXCEPT !.denomi = m.arg]
           dropped == [j EXCEPT !.reject = {"DISCRIMINATION"}]
<1>1. j \in Jobs /\ dropped \in Jobs /\ (m.arg \in Accepted => kept \in Jobs)
  BY Same, TaskNames DEF Jobs, Done
<1>2. CASE SetInit \/ WaitReject \/ AlarmSub(j)
  BY <1>2, JoinEffect, TaskNames
<1>3. CASE m.arg \in Accepted /\ Offer(j, m.arg)
  BY <1>1, <1>3, OfferEffect
<1>4. CASE m.arg \in Accepted /\ Stay(kept)
  BY <1>1, <1>4, StayEffect
<1>5. CASE Stay(dropped)
  BY <1>1, <1>5, StayEffect
<1> HIDE DEF j, kept, dropped
<1> QED
  BY <1>2, <1>3, <1>4, <1>5 DEF validated, RejectFirst, j, kept, dropped

LEMMA DiscriminationEffect ==
  ASSUME Reading, mode = "DISCRIMINATION", discrimination PROVE Effect
<1> DEFINE late == [Done("MGU") EXCEPT !.alarm = IF @ = {} THEN {"MGU"} ELSE @]
           dropped == [Done("DISCRIMINATION") EXCEPT !.reject = {"DISCRIMINATION"}]
<1>1. /\ late \in Jobs /\ dropped \in Jobs
      /\ Done("SHUTTER") \in Jobs /\ Done("SHUTTER").denomi \in Accepted \cup {NoDenomi}
      /\ Done("MGU") \in Jobs /\ Done("MGU").denomi \in Accepted \cup {NoDenomi}
  BY Same, TaskNames DEF Jobs, Done
<1>2. CASE \/ Flag \/ StatusOrInit \/ validated
           \/ Default({"RESET", "SHUTTER_CLOSE", "MGU_READ", "VALIDATION"})
  BY <1>2, FlagEffect, StatusEffect, ValidatedEffect, DefaultEffect
<1>3. CASE \/ Stay(Done("SHUTTER")) \/ AlarmSub(Done("SHUTTER")) \/ AlarmSub(Failed("SHUTTER"))
           \/ SetInit \/ WaitReject
  BY <1>3, JoinEffect, TaskNames
<1>4. CASE Stay(Done("MGU")) \/ AlarmSub(Done("MGU"))
  BY <1>4, JoinEffect, TaskNames
<1>5. CASE Offer(Done("SHUTTER"), Done("SHUTTER").denomi) \/ Offer(Done("MGU"), Done("MGU").denomi)
  BY <1>1, <1>5, OfferEffect
<1>6. CASE Stay(late) \/ Stay(dropped)
  BY <1>1, <1>6, StayEffect
<1> HIDE DEF late, dropped
<1> QED
  BY <1>2, <1>3, <1>4, <1>5, <1>6
     DEF discrimination, IfLast, AlarmFirst, RejectFirst, late, dropped

LEMMA GiveBackEffect ==
  ASSUME Reading, NEW j \in Jobs, GiveBack(j) PROVE Effect
<1>1. WorkKept
  BY AskKeeps, RequestTypes DEF GiveBack
<1>2. CASE job' = NoJob /\ second' = 0 /\ Tell(<<Msg("ACCEPT", "REJECT", NoDenomi)>>)
  <2>1. Added
    BY <1>2, TellType, ToldTypes DEF ToldArgs
  <2> QED
    BY <1>1, <1>2, <2>1, Same, JobTypes DEF GiveBack, Effect
<1>3. CASE /\ job' = [j EXCEPT !.busy = @ \cup {"FEED"}] /\ second' = NextSecond
           /\ Tell(<< >>)
  <2>1. Added
    BY <1>3, TellType, ToldTypes
  <2>2. job' \in Jobs
    BY <1>3, TaskNames DEF Jobs
  <2> QED
    BY <1>1, <1>3, <2>1, <2>2, Same, SecondType DEF GiveBack, Effect
<1> QED
  BY <1>2, <1>3 DEF GiveBack

LEMMA ReturnEffect ==
  ASSUME Reading, mode \in {"WAIT_REQ", "WAIT_REJECT_REQ"}, NEW j \in Jobs, Return(j)
  PROVE  Effect
<1>1. CASE \E h \in SUBSET {"CENTERING", "SHUTTER"} :
             h # {} /\ Proceed(mode, [j EXCEPT !.busy = {}], OpenWay(h))
  <2>1. [j EXCEPT !.busy = {}] \in Jobs
    BY DEF Jobs
  <2>2. mode \in AcceptModes /\ (mode = "WAIT_REQ" => second # 1)
    BY SecondType DEF AcceptModes
  <2> QED
    BY <1>1, <2>1, <2>2, ProceedEffect, RequestTypes
<1> QED
  BY <1>1, GiveBackEffect DEF Return

LEMMA ReturningEffect ==
  ASSUME Reading, mode \in {"WAIT_REQ", "WAIT_REJECT_REQ"}, returning PROVE Effect
<1>1. /\ job \in Jobs /\ Done("ICB") \in Jobs /\ Done("SHUTTER") \in Jobs
      /\ Done("CENTERING") \in Jobs
  BY Same, JobTypes, TaskNames
<1>2. CASE Return(job) \/ Return(Done("ICB"))
  BY <1>1, <1>2, ReturnEffect
<1>3. CASE Proceed(mode, job, [ICB |-> "ICB_REJECT"])
  <2>1. mode \in AcceptModes /\ (mode = "WAIT_REQ" => second # 1)
    BY SecondType DEF AcceptModes
  <2> QED
    BY <1>1, <1>3, <2>1, ProceedEffect, RequestTypes
<1>4. CASE GiveBack(Done("SHUTTER")) \/ GiveBack(Done("CENTERING"))
  BY <1>1, <1>4, GiveBackEffect
<1>5. CASE SetInit \/ WaitReject \/ StackerNotHome
  BY <1>5, InitEffect, WaitRejectEffect
<1>6. CASE Stay(Done("ICB")) \/ AlarmSub(Done("ICB"))
  BY <1>6, JoinEffect, TaskNames
<1>7. CASE \/ Stay(Done("SHUTTER")) \/ Stay(Failed("SHUTTER"))
           \/ AlarmSub(Done("SHUTTER")) \/ AlarmSub(Failed("SHUTTER"))
  BY <1>7, JoinEffect, TaskNames
<1>8. CASE \/ Stay(Done("CENTERING")) \/ Stay(Failed("CENTERING"))
           \/ AlarmSub(Done("CENTERING")) \/ AlarmSub(Failed("CENTERING"))
  BY <1>8, JoinEffect, TaskNames
<1> QED
  BY <1>2, <1>3, <1>4, <1>5, <1>6, <1>7, <1>8
     DEF returning, IfLast, AlarmFirst, StackerFirst

LEMMA WaitReqEffect ==
  ASSUME Reading, mode = "WAIT_REQ", accept_wait_req PROVE Effect
<1>1. CASE SetInit \/ StatusAlarm \/ Default({"RESET", "STACK", "SENSOR"} \cup ReturnCases)
  BY <1>1, InitEffect, StatusEffect, DefaultEffect
<1>2. CASE RejectSub("STACK", NoDenomi)
  BY <1>2, RejectEffect DEF ToldArgs
<1>3. CASE /\ mode' = "STACK" /\ second' = 0
           /\ job' = [job EXCEPT !.busy = @ \cup {"FEED"}]
           /\ Ask([FEED |-> "FEED_APB"]) /\ Tell(<< >>) /\ UNCHANGED reset
  <2>1. Added
    BY <1>3, TellType, ToldTypes
  <2>2. job' \in Jobs
    BY <1>3, Same, TaskNames DEF Jobs
  <2>3. WorkKept
    BY <1>3, AskKeeps, RequestTypes
  <2> QED
    BY <1>3, <2>1, <2>2, <2>3, Same DEF Effect
<1>4. CASE returning
  BY <1>4, ReturningEffect
<1>5. CASE UNCHANGED <<mvars, work>> /\ Tell(<<Msg("ACCEPT", "REJECT", NoDenomi)>>)
  <2>1. Added
    BY <1>5, TellType, ToldTypes DEF ToldArgs
  <2> QED
    BY <1>5, <2>1, Same, SameWork, SecondType DEF Effect, mvars
<1> QED
  BY <1>1, <1>2, <1>3, <1>4, <1>5 DEF accept_wait_req

LEMMA WaitRejectReqEffect ==
  ASSUME Reading, mode = "WAIT_REJECT_REQ", accept_wait_reject_req PROVE Effect
BY InitEffect, ReturningEffect, StatusEffect, DefaultEffect DEF accept_wait_reject_req

------------------------------------------------------------------------------
(* Every action keeps the invariant.                                          *)

LEMMA HandlerEffect ==
  ASSUME IInv, accept_msg_proc PROVE Effect
BY SensorActiveEffect, PbCenteringHomeEffect, WaitPbStartEffect, WaitFeedStartEffect,
   FeedCenteringEffect, CenteringExecEffect, FeedEscrowEffect, WaitAcceptReqEffect,
   DiscriminationEffect, WaitReqEffect, WaitRejectReqEffect
   DEF accept_msg_proc, Reading

\* What is left in the mailbox was in it.
LEMMA TailIsOld ==
  ASSUME NEW S, NEW q \in Seq(S), q # << >>
  PROVE  /\ Tail(q) \in Seq(S) /\ Len(Tail(q)) =< Len(q)
         /\ \A i \in 1 .. Len(Tail(q)) : i + 1 \in 1 .. Len(q) /\ Tail(q)[i] = q[i + 1]
BY HeadTailProperties

LEMMA BoxTypes ==
  ASSUME IInv
  PROVE  /\ main_mbx \in Seq(Messages) /\ Len(main_mbx) \in Nat
         /\ Len(main_mbx) =< MailBlocks
         /\ line_mbx \in Seq(LineMessages) /\ Len(line_mbx) \in Nat
<1>1. main_mbx \in Seq(Messages) /\ Len(main_mbx) =< MailBlocks /\ line_mbx \in Seq(LineMessages)
  BY DEF IInv, TypeOK, MailOK, Messages, Denominations, LineMessages, ToldArgs
<1> QED
  BY <1>1, LenProperties

\* The credit moves on when the pull is read, and only then.
LEMMA HandlerCredit ==
  ASSUME IInv, accept_msg_proc PROVE OneCredit' /\ line_mbx' \in Seq(LineMessages)
<1>1. Effect /\ m = main_mbx[1]
  <2>1. main_mbx \in Seq(Messages) /\ main_mbx # << >>
    BY BoxTypes DEF accept_msg_proc
  <2> QED
    BY <2>1, HandlerEffect DEF m
<1>2. /\ vend' = vend /\ Len(main_mbx') \in Nat /\ 1 \in 1 .. Len(main_mbx)
      /\ \A i \in 1 .. Len(main_mbx') :
           i + 1 \in 1 .. Len(main_mbx) /\ main_mbx'[i] = main_mbx[i + 1]
  <2>1. main_mbx \in Seq(Messages) /\ main_mbx # << >> /\ main_mbx' = Tail(main_mbx)
    BY BoxTypes DEF accept_msg_proc
  <2>2. main_mbx' \in Seq(Messages) /\ Len(main_mbx) \in Nat /\ Len(main_mbx) # 0
    BY <2>1, TailIsOld, EmptySeq
  <2> QED
    BY <2>1, <2>2, TailIsOld, LenProperties DEF accept_msg_proc, lvars
<1>3. PICK more \in Seq(LineMessages) :
        /\ line_mbx' = line_mbx \o more
        /\ \A i \in 1 .. Len(more) : more[i].sub = "VEND" => i = 1 /\ m.code = "STACKER_PULL"
  BY <1>1 DEF Effect, Added
<1>4. /\ line_mbx' \in Seq(LineMessages) /\ Len(line_mbx') = Len(line_mbx) + Len(more)
      /\ Len(line_mbx) \in Nat /\ Len(more) \in Nat
      /\ \A i \in 1 .. Len(line_mbx') :
           line_mbx'[i] = IF i =< Len(line_mbx) THEN line_mbx[i] ELSE more[i - Len(line_mbx)]
  BY <1>3, BoxTypes, ConcatProperties, LenProperties
<1>5. Pulled' => Pulled /\ m.code # "STACKER_PULL"
  BY <1>1, <1>2 DEF Pulled, IInv, OneCredit
<1>6. Vended' => Vended \/ m.code = "STACKER_PULL"
  BY <1>3, <1>4 DEF Vended
<1>7. m.code = "STACKER_PULL" => Pulled /\ ~Vended /\ vend = "none"
  BY <1>1, <1>2 DEF Pulled, IInv, OneCredit
<1>8. ASSUME NEW i \in 1 .. Len(line_mbx'), NEW k \in 1 .. Len(line_mbx'),
             line_mbx'[i].sub = "VEND", line_mbx'[k].sub = "VEND"
      PROVE  i = k
  <2>1. CASE m.code # "STACKER_PULL"
    <3>1. i \in 1 .. Len(line_mbx) /\ k \in 1 .. Len(line_mbx)
      BY <1>3, <1>4, <1>8, <2>1
    <3> QED
      BY <1>4, <1>8, <3>1 DEF IInv, OneCredit
  <2>2. CASE m.code = "STACKER_PULL"
    <3>1. i \notin 1 .. Len(line_mbx) /\ k \notin 1 .. Len(line_mbx)
      BY <1>4, <1>7, <1>8, <2>2 DEF Vended
    <3> QED
      BY <1>3, <1>4, <1>8, <3>1
  <2> QED
    BY <2>1, <2>2
<1>9. ASSUME NEW i \in 1 .. Len(main_mbx'), NEW k \in 1 .. Len(main_mbx'),
             main_mbx'[i].code = "STACKER_PULL", main_mbx'[k].code = "STACKER_PULL"
      PROVE  i = k
  <2>1. i + 1 = k + 1
    BY <1>2, <1>9 DEF IInv, OneCredit
  <2> QED
    BY <1>2, <2>1
<1>10. work'["STACKER"] \in {work["STACKER"], <<"STACKER_HOME">>}
  BY <1>1 DEF Effect, WorkKept
<1>11. Pulling' => Pulling
  BY <1>10 DEF Pulling
<1> QED
  BY <1>2, <1>4, <1>5, <1>6, <1>7, <1>8, <1>9, <1>10, <1>11 DEF IInv, OneCredit

LEMMA HandlerInv ==
  ASSUME IInv, accept_msg_proc PROVE IInv'
<1>1. Effect
  BY HandlerEffect
<1>2. main_mbx # << >> /\ main_mbx' = Tail(main_mbx) /\ UNCHANGED lvars
  BY DEF accept_msg_proc
<1>3. /\ main_mbx' \in Seq(Messages) /\ Len(main_mbx') =< MailBlocks
      /\ \A i \in 1 .. Len(main_mbx') :
           i + 1 \in 1 .. Len(main_mbx) /\ main_mbx'[i] = main_mbx[i + 1]
  BY <1>2, BoxTypes, TailIsOld, LenProperties
<1>4. OneCredit' /\ line_mbx' \in Seq(LineMessages)
  BY HandlerCredit
<1>5. MainOK'
  BY <1>1 DEF Effect, MainOK, Jobs
<1>6. MailOK'
  BY <1>3, <1>4 DEF MailOK, Messages, Denominations, LineMessages, ToldArgs
<1>7. WorkOK' /\ LineOK'
  <2>1. stage' \in [Tasks -> {"new", "early", "moving"}]
    BY DEF accept_msg_proc, IInv, TypeOK, WorkOK
  <2> QED
    BY <1>1, <1>2, <2>1 DEF Effect, WorkKept, IInv, TypeOK, WorkOK, LineOK, lvars
<1>8. AckedBefore'
  BY <1>1, <1>2, <1>3 DEF Effect, IInv, AckedBefore, lvars
<1> QED
  BY <1>4, <1>5, <1>6, <1>7, <1>8 DEF IInv, TypeOK

\* A message joins the mailbox: the types hold, and what it says of the
\* acknowledgement must be true.
LEMMA SendKeeps ==
  ASSUME IInv, NEW msg \in Messages, Send(msg),
         msg.code = "1ST_NOTE_DONE" => vend' = "acked",
         vend = "acked" => vend' = "acked"
  PROVE  /\ main_mbx' \in Seq(Messages) /\ Len(main_mbx') =< MailBlocks
         /\ \A i \in 1 .. Len(main_mbx') :
              main_mbx'[i].code = "1ST_NOTE_DONE" => vend' = "acked"
<1>1. main_mbx \in Seq(Messages) /\ Len(main_mbx) \in Nat /\ Len(main_mbx) < MailBlocks
  BY LenProperties DEF IInv, TypeOK, MailOK, Messages, Denominations, Send
<1>2. /\ main_mbx' \in Seq(Messages) /\ Len(main_mbx') = Len(main_mbx) + 1
      /\ \A i \in 1 .. Len(main_mbx) : main_mbx'[i] = main_mbx[i]
      /\ main_mbx'[Len(main_mbx) + 1] = msg
  BY <1>1, AppendProperties DEF Send
<1>3. ASSUME NEW i \in 1 .. Len(main_mbx'), main_mbx'[i].code = "1ST_NOTE_DONE"
      PROVE  vend' = "acked"
  <2>1. CASE i \in 1 .. Len(main_mbx)
    BY <1>2, <1>3, <2>1 DEF IInv, AckedBefore
  <2>2. CASE i = Len(main_mbx) + 1
    BY <1>2, <1>3, <2>2
  <2> QED
    BY <1>1, <1>2, <2>1, <2>2
<1> QED
  BY <1>1, <1>2, <1>3

LEMMA SendType ==
  ASSUME IInv, NEW msg \in Messages, Send(msg), msg.code # "1ST_NOTE_DONE",
         vend' = vend
  PROVE  /\ main_mbx' \in Seq(Messages) /\ Len(main_mbx') =< MailBlocks
         /\ \A i \in 1 .. Len(main_mbx') :
              main_mbx'[i].code = "1ST_NOTE_DONE" => vend' = "acked"
BY SendKeeps

LEMMA AnswerTypes ==
  ASSUME NEW t \in Tasks, NEW r \in Asked[t]
  PROVE  /\ r \in Requests /\ r # "1ST_NOTE_DONE"
         /\ r \in DOMAIN Unstarted =>
              Unstarted[r] \subseteq {"SUCCESS", "REJECT", "ALARM"}
         /\ Results(r) \subseteq {"SUCCESS", "REJECT", "ALARM"}
<1>1. r \in Requests
  BY DEF Requests
<1>2. r # "1ST_NOTE_DONE"
  BY DEF Tasks, Asked
<1>3. r \in DOMAIN Unstarted => Unstarted[r] \subseteq {"SUCCESS", "REJECT", "ALARM"}
  BY DEF Unstarted
<1>4. Results(r) \subseteq {"SUCCESS", "REJECT", "ALARM"}
  BY DEF Results
<1> QED
  BY <1>1, <1>2, <1>3, <1>4

LEMMA HeadOfWork ==
  ASSUME IInv, NEW t \in Tasks, Busy(t)
  PROVE  Head(work[t]) \in Asked[t] /\ Tail(work[t]) \in Seq(Asked[t])
<1>1. work[t] \in Seq(Asked[t]) /\ work[t] # << >>
  BY DEF IInv, TypeOK, WorkOK, Busy
<1> QED
  BY <1>1, HeadTailProperties

\* What anyone but main sends leaves the credit where it is; the answer of
\* the stacker takes it along.
LEMMA SendCredit ==
  ASSUME IInv, NEW msg \in Messages, Send(msg),
         UNCHANGED <<line_mbx, vend>>,
         work'["STACKER"] \in {work["STACKER"], << >>},
         msg.code = "STACKER_PULL" => Pulling /\ work'["STACKER"] = << >>
  PROVE  OneCredit'
<1>1. /\ Len(main_mbx) \in Nat /\ Len(main_mbx') = Len(main_mbx) + 1
      /\ \A i \in 1 .. Len(main_mbx) : main_mbx'[i] = main_mbx[i]
      /\ main_mbx'[Len(main_mbx) + 1] = msg
  BY BoxTypes, AppendProperties DEF Send
<1>2. \A i \in 1 .. Len(main_mbx') : i \in 1 .. Len(main_mbx) \/ i = Len(main_mbx) + 1
  BY <1>1
<1>3. Pulling' => Pulling
  BY DEF Pulling
<1>4. CASE msg.code # "STACKER_PULL"
  <2>1. Pulled' => Pulled
    BY <1>1, <1>2, <1>4 DEF Pulled
  <2>2. \A i, j \in 1 .. Len(main_mbx') :
          main_mbx'[i].code = "STACKER_PULL" /\ main_mbx'[j].code = "STACKER_PULL" => i = j
    BY <1>1, <1>2, <1>4 DEF IInv, OneCredit
  <2> QED
    BY <1>3, <2>1, <2>2 DEF IInv, OneCredit, Vended
<1>5. CASE msg.code = "STACKER_PULL"
  <2>1. ~Pulled /\ ~Vended /\ vend = "none"
    BY <1>5 DEF IInv, OneCredit
  <2>2. \A i \in 1 .. Len(main_mbx') :
          main_mbx'[i].code = "STACKER_PULL" => i = Len(main_mbx) + 1
    BY <1>1, <1>2, <2>1 DEF Pulled
  <2>3. ~Pulling' /\ ~Vended' /\ vend' = "none"
    BY <1>5, <2>1 DEF Pulling, Vended
  <2> QED
    BY <1>5, <2>2, <2>3 DEF IInv, OneCredit
<1> QED
  BY <1>4, <1>5

LEMMA DeviceInv ==
  ASSUME IInv, (\E t \in Tasks : Start(t) \/ Finish(t)) \/ HomeAlready
  PROVE  IInv'
<1>1. CASE \E t \in Tasks : Start(t)
  <2> PICK t \in Tasks : Start(t)
    BY <1>1
  <2> DEFINE msg == Msg(Head(work[t]), "START", NoDenomi)
  <2>1. Busy(t) /\ Head(work[t]) \in DOMAIN Unstarted
        /\ Send(msg) /\ work' = work /\ UNCHANGED <<mvars, line_mbx, lvars>>
    BY DEF Start
  <2>2. msg \in Messages /\ msg.code # "1ST_NOTE_DONE" /\ msg.code # "STACKER_PULL"
    BY <2>1, HeadOfWork, AnswerTypes DEF Msg, Messages, Denominations, Unstarted
  <2> HIDE DEF msg
  <2>3. /\ main_mbx' \in Seq(Messages) /\ Len(main_mbx') =< MailBlocks
        /\ \A i \in 1 .. Len(main_mbx') :
              main_mbx'[i].code = "1ST_NOTE_DONE" => vend' = "acked"
    BY <2>1, <2>2, SendType DEF lvars
  <2>4. OneCredit'
    BY <2>1, <2>2, SendCredit DEF lvars
  <2>5. stage' \in [Tasks -> {"new", "early", "moving"}]
    BY DEF Start, IInv, TypeOK, WorkOK
  <2> QED
    BY <2>1, <2>3, <2>4, <2>5 DEF IInv, TypeOK, MainOK, MailOK, WorkOK, LineOK, AckedBefore,
       mvars, lvars, Messages, Denominations
<1>2. CASE \E t \in Tasks : Finish(t)
  <2> PICK t \in Tasks : Finish(t)
    BY <1>2
  <2>1. /\ Head(work[t]) \in Asked[t] /\ Tail(work[t]) \in Seq(Asked[t])
        /\ work' = [work EXCEPT ![t] = Tail(@)]
    BY HeadOfWork DEF Finish
  <2>2. PICK sub \in {"SUCCESS", "REJECT", "ALARM"}, arg \in Denominations :
          Send(Msg(Head(work[t]), sub, arg))
    BY <2>1, AnswerTypes DEF Finish, Denominations
  <2> DEFINE msg == Msg(Head(work[t]), sub, arg)
  <2>3. msg \in Messages /\ msg.code # "1ST_NOTE_DONE" /\ msg.code = Head(work[t])
    BY <2>1, AnswerTypes DEF Msg, Messages
  <2>4. Send(msg) /\ UNCHANGED <<line_mbx, vend>>
    BY <2>2 DEF Finish, lvars
  <2>5. /\ work'["STACKER"] \in {work["STACKER"], << >>}
        /\ msg.code = "STACKER_PULL" => Pulling /\ work'["STACKER"] = << >>
    <3>1. CASE t = "STACKER"
      <4>1. work["STACKER"] \in {<<"STACKER_PULL">>, <<"STACKER_HOME">>}
        BY <3>1 DEF Finish, Busy, IInv, OneCredit
      <4>2. work'["STACKER"] = Tail(work["STACKER"])
        BY <2>1, <3>1, TaskNames DEF IInv, TypeOK, WorkOK
      <4>3. Tail(<<"STACKER_PULL">>) = << >> /\ Tail(<<"STACKER_HOME">>) = << >>
        OBVIOUS
      <4>4. Head(<<"STACKER_HOME">>) # "STACKER_PULL"
        OBVIOUS
      <4> QED
        BY <2>3, <3>1, <4>1, <4>2, <4>3, <4>4 DEF Pulling
    <3>2. CASE t # "STACKER"
      <4>1. Head(work[t]) # "STACKER_PULL"
        BY <2>1, <3>2 DEF Tasks, Asked
      <4>2. work'["STACKER"] = work["STACKER"]
        BY <2>1, <3>2, TaskNames DEF IInv, TypeOK, WorkOK
      <4> QED
        BY <2>3, <4>1, <4>2
    <3> QED
      BY <3>1, <3>2
  <2> HIDE DEF msg
  <2>6. /\ main_mbx' \in Seq(Messages) /\ Len(main_mbx') =< MailBlocks
        /\ \A i \in 1 .. Len(main_mbx') :
              main_mbx'[i].code = "1ST_NOTE_DONE" => vend' = "acked"
    BY <2>3, <2>4, SendType
  <2>7. OneCredit'
    BY <2>3, <2>4, <2>5, SendCredit
  <2>8. WorkOK'
    BY <2>1 DEF Finish, IInv, TypeOK, WorkOK
  <2> QED
    BY <2>6, <2>7, <2>8 DEF Finish, IInv, TypeOK, MainOK, MailOK, LineOK, AckedBefore,
       mvars, lvars, Messages, Denominations
<1>3. CASE HomeAlready
  <2> DEFINE msg == Msg("APB_HOME", "SUCCESS", NoDenomi)
  <2>1. msg \in Messages /\ msg.code = "APB_HOME"
    BY AnswerTypes, TaskNames DEF Asked, Msg, Messages, Denominations
  <2>2. Send(msg) /\ work' = work /\ UNCHANGED <<mvars, line_mbx, lvars>>
    BY <1>3 DEF HomeAlready
  <2> HIDE DEF msg
  <2>3. /\ main_mbx' \in Seq(Messages) /\ Len(main_mbx') =< MailBlocks
        /\ \A i \in 1 .. Len(main_mbx') :
              main_mbx'[i].code = "1ST_NOTE_DONE" => vend' = "acked"
    BY <2>1, <2>2, SendType DEF lvars
  <2>4. OneCredit'
    BY <2>1, <2>2, SendCredit DEF lvars
  <2>5. stage' \in [Tasks -> {"new", "early", "moving"}]
    BY <1>3 DEF HomeAlready, IInv, TypeOK, WorkOK
  <2> QED
    BY <2>2, <2>3, <2>4, <2>5 DEF IInv, TypeOK, MainOK, MailOK, WorkOK, LineOK,
       AckedBefore, mvars, lvars, Messages, Denominations
<1> QED
  BY <1>1, <1>2, <1>3

LEMMA ClearsBusyInv ==
  ASSUME IInv, ClearsBusy PROVE IInv'
<1>1. job' \in Jobs
  BY JobTypes, TaskNames DEF ClearsBusy, IInv, TypeOK, MainOK, Jobs
<1>2. UNCHANGED <<mode, reset, second, main_mbx, work, stage, line_mbx, line, vend>>
  BY DEF ClearsBusy, dvars, lvars
<1>3. TypeOK'
  BY <1>1, <1>2 DEF IInv, TypeOK, MainOK, MailOK, WorkOK, LineOK, Jobs
<1>4. AckedBefore' /\ OneCredit'
  BY <1>2 DEF IInv, AckedBefore, OneCredit, Pulling, Pulled, Vended
<1> QED
  BY <1>3, <1>4 DEF IInv

LEMMA FaultInv ==
  ASSUME IInv, Fault \/ PaperMoved PROVE IInv'
<1>1. PICK msg \in {Msg("STATUS", "ALARM", NoDenomi), Msg("SENSOR", "INFO", NoDenomi)} :
        Send(msg) /\ UNCHANGED <<mvars, dvars, line_mbx, lvars>>
  BY DEF Fault, PaperMoved
<1>2. msg \in Messages /\ msg.code # "1ST_NOTE_DONE" /\ msg.code # "STACKER_PULL"
  BY DEF Msg, Messages, Denominations
<1>3. /\ main_mbx' \in Seq(Messages) /\ Len(main_mbx') =< MailBlocks
      /\ \A i \in 1 .. Len(main_mbx') :
            main_mbx'[i].code = "1ST_NOTE_DONE" => vend' = "acked"
  BY <1>1, <1>2, SendType DEF lvars
<1>4. OneCredit'
  BY <1>1, <1>2, SendCredit DEF lvars, dvars
<1> QED
  BY <1>1, <1>3, <1>4 DEF IInv, TypeOK, MainOK, MailOK, WorkOK, LineOK, AckedBefore,
     mvars, dvars, lvars, Messages, Denominations

\* The line task takes the VEND out of its mailbox, and there was only one.
LEMMA LineReadsInv ==
  ASSUME IInv, LineReads PROVE IInv'
<1> DEFINE msg == Msg("REJECT", "REQ", NoDenomi)
<1>1. /\ line_mbx' \in Seq(LineMessages) /\ Len(line_mbx') \in Nat
      /\ 1 \in 1 .. Len(line_mbx) /\ Head(line_mbx) = line_mbx[1]
      /\ \A i \in 1 .. Len(line_mbx') :
           i + 1 \in 1 .. Len(line_mbx) /\ line_mbx'[i] = line_mbx[i + 1]
  <2>1. line_mbx \in Seq(LineMessages) /\ line_mbx # << >> /\ line_mbx' = Tail(line_mbx)
    BY BoxTypes DEF LineReads
  <2>2. line_mbx' \in Seq(LineMessages) /\ Len(line_mbx) \in Nat /\ Len(line_mbx) # 0
    BY <2>1, TailIsOld, EmptySeq
  <2> QED
    BY <2>1, <2>2, TailIsOld, LenProperties
<1>2. UNCHANGED <<mvars, dvars>> /\ (UNCHANGED main_mbx \/ (Send(msg) /\ vend' = vend))
  BY DEF LineReads, lvars
<1>3. msg \in Messages /\ msg.code # "1ST_NOTE_DONE" /\ msg.code # "STACKER_PULL"
  BY DEF Msg, Messages, Denominations
<1> HIDE DEF msg
<1>4. CASE Head(line_mbx).sub = "VEND"
  <2>1. Vended /\ ~Pulling /\ ~Pulled /\ vend = "none"
    BY <1>1, <1>4 DEF Vended, IInv, OneCredit
  <2>2. ~Vended'
    BY <1>1, <1>4 DEF Vended, IInv, OneCredit
  <2>3. UNCHANGED main_mbx /\ vend' \in {"none", "sent"} /\ line' = line
    BY <1>4, <2>1 DEF LineReads, lvars
  <2>4. ~Pulling' /\ ~Pulled'
    BY <1>2, <2>1, <2>3 DEF Pulling, Pulled, dvars
  <2>5. OneCredit'
    BY <1>2, <2>2, <2>3, <2>4 DEF IInv, OneCredit, Vended, dvars
  <2>6. AckedBefore'
    BY <1>2, <2>1, <2>3 DEF IInv, AckedBefore, mvars
  <2> QED
    BY <1>1, <1>2, <2>3, <2>5, <2>6 DEF IInv, TypeOK, MainOK, MailOK, WorkOK, LineOK,
       mvars, dvars, LineMessages, ToldArgs
<1>5. CASE Head(line_mbx).sub # "VEND"
  <2>1. /\ vend' = vend
        /\ line' \in {"accept", "second", "refused", "escrow", "stack", "reject", "initial"}
    BY <1>5 DEF LineReads, lvars, IInv, TypeOK, LineOK
  <2>2. /\ main_mbx' \in Seq(Messages) /\ Len(main_mbx') =< MailBlocks
        /\ \A i \in 1 .. Len(main_mbx') :
              main_mbx'[i].code = "1ST_NOTE_DONE" => vend' = "acked"
    BY <1>2, <1>3, <2>1, SendType, BoxTypes DEF IInv, AckedBefore
  <2>3. /\ Vended' => Vended
        /\ \A i, j \in 1 .. Len(line_mbx') :
             line_mbx'[i].sub = "VEND" /\ line_mbx'[j].sub = "VEND" => i = j
    <3>1. Vended' => Vended
      BY <1>1 DEF Vended
    <3>2. ASSUME NEW i \in 1 .. Len(line_mbx'), NEW k \in 1 .. Len(line_mbx'),
                 line_mbx'[i].sub = "VEND", line_mbx'[k].sub = "VEND"
          PROVE  i = k
      <4>1. i + 1 = k + 1
        BY <1>1, <3>2 DEF IInv, OneCredit
      <4> QED
        BY <1>1, <4>1
    <3> QED
      BY <3>1, <3>2
  <2>4. /\ Pulled' => Pulled
        /\ \A i, j \in 1 .. Len(main_mbx') :
             main_mbx'[i].code = "STACKER_PULL" /\ main_mbx'[j].code = "STACKER_PULL" => i = j
    <3>1. CASE UNCHANGED main_mbx
      BY <3>1 DEF IInv, OneCredit, Pulled
    <3>2. CASE Send(msg)
      <4>1. /\ Len(main_mbx) \in Nat /\ Len(main_mbx') = Len(main_mbx) + 1
            /\ \A i \in 1 .. Len(main_mbx) : main_mbx'[i] = main_mbx[i]
            /\ main_mbx'[Len(main_mbx) + 1] = msg
        BY <1>3, <3>2, BoxTypes, AppendProperties DEF Send
      <4> QED
        BY <1>3, <4>1 DEF IInv, OneCredit, Pulled
    <3> QED
      BY <1>2, <3>1, <3>2
  <2>5. OneCredit'
    BY <1>2, <2>1, <2>3, <2>4 DEF IInv, OneCredit, Pulling, dvars
  <2> QED
    BY <1>1, <1>2, <2>1, <2>2, <2>5 DEF IInv, TypeOK, MainOK, MailOK, WorkOK, LineOK,
       AckedBefore, mvars, dvars, LineMessages, ToldArgs, Messages, Denominations
<1> QED
  BY <1>4, <1>5

LEMMA HostInv ==
  ASSUME IInv, HostPolls \/ HostDecides \/ HostResets PROVE IInv'
<1>1. PICK msg \in {Msg("REJECT", "REQ", NoDenomi), Msg("STACK", "REQ", NoDenomi),
                    Msg("RESET", "REQ", NoDenomi)} :
        Send(msg) /\ UNCHANGED <<mvars, dvars, line_mbx, vend>>
  BY DEF HostPolls, HostDecides, HostResets
<1>2. msg \in Messages /\ msg.code # "1ST_NOTE_DONE" /\ msg.code # "STACKER_PULL"
  BY DEF Msg, Messages, Denominations
<1>3. /\ main_mbx' \in Seq(Messages) /\ Len(main_mbx') =< MailBlocks
      /\ \A i \in 1 .. Len(main_mbx') :
            main_mbx'[i].code = "1ST_NOTE_DONE" => vend' = "acked"
  BY <1>1, <1>2, SendType
<1>4. OneCredit'
  BY <1>1, <1>2, SendCredit DEF dvars
<1>5. line' \in {"stack", "reject", "initial"}
  BY DEF HostPolls, HostDecides, HostResets
<1> QED
  BY <1>1, <1>3, <1>4, <1>5 DEF IInv, TypeOK, MainOK, MailOK, WorkOK, LineOK, AckedBefore,
     mvars, dvars, Messages, Denominations

\* The acknowledgement makes 1ST_NOTE_DONE true.
LEMMA HostAcksInv ==
  ASSUME IInv, HostAcks PROVE IInv'
<1> DEFINE msg == Msg("1ST_NOTE_DONE", "REQ", NoDenomi)
<1>1. /\ Send(msg) /\ UNCHANGED <<mvars, dvars, line_mbx, line>>
      /\ vend = "sent" /\ vend' = "acked"
  BY DEF HostAcks
<1>2. msg \in Messages /\ msg.code # "STACKER_PULL"
  BY DEF Msg, Messages, Denominations
<1> HIDE DEF msg
<1>3. /\ main_mbx' \in Seq(Messages) /\ Len(main_mbx') =< MailBlocks
      /\ \A i \in 1 .. Len(main_mbx') :
            main_mbx'[i].code = "1ST_NOTE_DONE" => vend' = "acked"
  BY <1>1, <1>2, SendKeeps
<1>4. ~Pulling /\ ~Pulled /\ ~Vended
  BY <1>1 DEF IInv, OneCredit
<1>5. /\ Len(main_mbx) \in Nat /\ Len(main_mbx') = Len(main_mbx) + 1
      /\ \A i \in 1 .. Len(main_mbx) : main_mbx'[i] = main_mbx[i]
      /\ main_mbx'[Len(main_mbx) + 1] = msg
  BY <1>1, <1>2, BoxTypes, AppendProperties DEF Send
<1>6. ~Pulling' /\ ~Pulled' /\ ~Vended'
  BY <1>1, <1>2, <1>4, <1>5 DEF Pulling, Pulled, Vended, dvars
<1>7. OneCredit'
  BY <1>1, <1>6 DEF IInv, OneCredit, Pulled, Vended, dvars
<1> QED
  BY <1>1, <1>3, <1>7 DEF IInv, TypeOK, MainOK, MailOK, WorkOK, LineOK, AckedBefore,
     mvars, dvars, Messages, Denominations

------------------------------------------------------------------------------
(* The theorems.                                                              *)

LEMMA InitInv == Init => IInv
<1> SUFFICES ASSUME Init PROVE IInv
  OBVIOUS
<1>1. /\ main_mbx = <<Msg("SENSOR_ACTIVE", "SUCCESS", NoDenomi)>>
      /\ Msg("SENSOR_ACTIVE", "SUCCESS", NoDenomi) \in Messages
  BY DEF Init, Msg, Messages, Denominations
<1>2. /\ main_mbx \in Seq(Messages) /\ Len(main_mbx) = 1
      /\ main_mbx[1].code = "SENSOR_ACTIVE"
  BY <1>1 DEF Msg
<1> PICK n \in {"first", "pulling", "pulled"} :
      /\ second = IF n = "first" THEN 0 ELSE 1
      /\ line = IF n = "first" THEN "accept" ELSE "second"
      /\ job = [NoJob EXCEPT !.busy =
                  {"CIS_INIT"} \cup IF n = "pulling" THEN {"STACKER"} ELSE {}]
      /\ line_mbx = IF n = "pulled" THEN <<Msg("STACK", "VEND", NoDenomi)>> ELSE << >>
      /\ work = [t \in Tasks |->
                   CASE t = "CIS_INIT" -> <<"CIS_INITIALIZE">>
                     [] t = "STACKER" /\ n = "pulling" -> <<"STACKER_PULL">>
                     [] OTHER -> << >>]
  BY DEF Init
<1>3. MainOK
  <2>1. job.busy \subseteq Tasks /\ job = [NoJob EXCEPT !.busy = job.busy]
    BY TaskNames DEF NoJob
  <2>2. job \in Jobs
    BY <2>1 DEF NoJob, Jobs
  <2>3. second \in 0 .. 2
    OBVIOUS
  <2>4. mode \in AcceptModes /\ reset \in BOOLEAN
    BY DEF Init, AcceptModes
  <2> QED
    BY <2>2, <2>3, <2>4 DEF MainOK, Jobs
<1>4. /\ line_mbx \in Seq(LineMessages) /\ (Vended => n = "pulled")
      /\ Len(line_mbx) \in {0, 1}
  <2>1. Msg("STACK", "VEND", NoDenomi) \in LineMessages
    BY DEF Msg, LineMessages, ToldArgs
  <2>2. CASE n = "pulled"
    BY <2>1, <2>2
  <2>3. CASE n # "pulled"
    BY <2>3 DEF Vended
  <2> QED
    BY <2>2, <2>3
<1>5. MailOK
  BY <1>2, <1>4 DEF MailOK, Messages, Denominations, LineMessages, ToldArgs
<1>6. WorkOK
  <2>1. ASSUME NEW t \in Tasks PROVE work[t] \in Seq(Asked[t])
    <3>1. <<"CIS_INITIALIZE">> \in Seq(Asked["CIS_INIT"])
          /\ <<"STACKER_PULL">> \in Seq(Asked["STACKER"]) /\ << >> \in Seq(Asked[t])
      BY TaskNames DEF Asked
    <3> QED
      BY <3>1
  <2> QED
    BY <2>1 DEF Init, WorkOK
<1>7. LineOK
  BY DEF Init, LineOK
<1>8. AckedBefore
  BY <1>2 DEF Init, AckedBefore
<1>9. OneCredit
  <2>1. work["STACKER"] = IF n = "pulling" THEN <<"STACKER_PULL">> ELSE << >>
    BY TaskNames
  <2>2. ~Pulled /\ vend = "none" /\ (Pulling => n = "pulling")
    BY <1>2, <2>1 DEF Init, Pulled, Pulling
  <2> QED
    BY <1>2, <1>4, <2>1, <2>2 DEF OneCredit
<1> QED
  BY <1>3, <1>5, <1>6, <1>7, <1>8, <1>9 DEF IInv, TypeOK

LEMMA StepInv == IInv /\ [Next]_vars => IInv'
<1> SUFFICES ASSUME IInv, [Next]_vars PROVE IInv'
  OBVIOUS
<1>1. CASE Next
  BY <1>1, HandlerInv, DeviceInv, ClearsBusyInv, FaultInv, LineReadsInv, HostInv,
     HostAcksInv DEF Next
<1>2. CASE UNCHANGED vars
  <2>1. UNCHANGED <<mode, job, reset, second, main_mbx, work, stage, line_mbx, line, vend>>
    BY <1>2 DEF vars, mvars, dvars, lvars
  <2>2. TypeOK'
    BY <2>1 DEF IInv, TypeOK, MainOK, MailOK, WorkOK, LineOK
  <2>3. AckedBefore' /\ OneCredit'
    BY <2>1 DEF IInv, AckedBefore, OneCredit, Pulling, Pulled, Vended
  <2> QED
    BY <2>2, <2>3 DEF IInv
<1> QED
  BY <1>1, <1>2

THEOREM Invariance == Safety => []IInv
<1> QED
  BY InitInv, StepInv, PTL DEF Safety

\* Every variable of the accept mode keeps its type, whatever the set of
\* denominations and the size of the pool: only an accepted denomination is
\* ever recorded and told, and no task is asked what it cannot answer.
THEOREM TypeCorrect == Safety => []TypeOK
<1>1. IInv => TypeOK
  BY DEF IInv
<1> QED
  BY <1>1, Invariance, PTL

\* A second note is identified and offered only after the host acknowledged
\* the credit of the first one.
THEOREM SecondNoteWaits == Safety => []FirstNoteSettled
<1>1. IInv => FirstNoteSettled
  BY DEF IInv, TypeOK, MainOK, AckedBefore, FirstNoteSettled
<1> QED
  BY <1>1, Invariance, PTL

=============================================================================
