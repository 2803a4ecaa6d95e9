------------------------------ MODULE StackMain ------------------------------
(***************************************************************************)
(* main_task/operation/mode_stack_uba.c: the main task puts a note that    *)
(* the host accepted into the cash box and reports the credit.  It drives  *)
(* feed, APB, shutter, stacker and ICB through messages, joins them on     *)
(* ex_multi_job.busy, and keeps in ex_recovery_info.step how far the note  *)
(* came: what is read at power up to decide whether it is credited.        *)
(*                                                                         *)
(* The module has the handlers of MODE1_STACK, one operator each; the      *)
(* devices and the line task that run beside them are in StackMode.        *)
(***************************************************************************)
EXTENDS Naturals, Sequences, FiniteSets, Recovery

CONSTANTS Ways,       \* how notes are stacked, see way
          Icb,        \* whether is_icb_enable() may hold
          MailBlocks  \* blocks of ID_MBX_MPF a message to main may use,
                      \*   16 in the code, other messages take them too

ASSUME WayAssumption == Ways \subseteq {"parallel", "single", "security"}

ASSUME IcbAssumption == Icb \subseteq BOOLEAN

ASSUME PoolAssumption == MailBlocks \in Nat \ {0}

VARIABLES
  way,        \* "parallel": the next note is taken in meanwhile; "single":
              \*   is_uba_mode() or the CIS is hot; "security": is_security_mode()
  icb,        \* is_icb_enable()
  mode,       \* ex_main_task_mode2 in MODE1_STACK, else the next mode1
  job,        \* ex_multi_job
  reset,      \* ex_main_reset_flag
  pause,      \* ex_main_pause_flag
  second,     \* ex_2nd_note_uba
  step,       \* ex_recovery_info.step, kept in FRAM
  main_mbx,   \* ID_MAIN_MBX
  work,       \* device task -> the request it works on
  line_mbx    \* what main told the ID003 line task

options == <<way, icb>>
mvars   == <<mode, job, reset, pause, second>>

Devices == {"FEED", "APB", "SHUTTER", "STACKER", "ICB"}

\* What each device is asked, besides nothing.
Asked == [FEED    |-> {"FEED_APB", "FEED_REV"},
          APB     |-> {"APB_CLOSE", "APB_EXEC"},
          SHUTTER |-> {"SHUTTER_OPEN"},
          STACKER |-> {"STACKER_EXEC", "STACKER_NG_PULL", "STACKER_EXEC_RE",
                       "STACKER_PULL", "STACKER_PULL_HALF"},
          ICB     |-> {"ICB_ACCEPT"}]

FeedModes  == {"FEED_STACK", "FEED_STACK_LOW"}
StackModes == FeedModes \cup
  {"WAIT_STACK_START", "WAIT_STACK_TOP", "STACK_HOME", "WAIT_REQ_FIRST",
   "STACK_RETRY", "FEED_REV_REQ", "WAIT_REQ", "WAIT_REJECT_REQ",
   "WAIT_REJECT_SHUTTER_OPEN"}

Stacking == mode \in StackModes

NoJob == [busy |-> {}, alarm |-> {}, reject |-> {}]

\* The codes of an alarm are told apart as far as the line task does.
Alarms == {"BOX", "FULL", "OTHER"}

Msg(c, s, a) == [code |-> c, sub |-> s, arg |-> a]

-----------------------------------------------------------------------------
(* accept_wait_req, STACK_REQ: the note lies in escrow, the feed is asked   *)
(* to take it through the APB.                                              *)

MainInit ==
  /\ way \in Ways /\ icb \in Icb
  /\ mode = IF way = "parallel" THEN "FEED_STACK" ELSE "FEED_STACK_LOW"
  /\ job = [NoJob EXCEPT !.busy = {"FEED"}]
  /\ reset = FALSE /\ pause = FALSE /\ second = 0 /\ step = "ESCROW"
  /\ main_mbx = << >> /\ line_mbx = << >>
  /\ work = [d \in Devices |-> IF d = "FEED" THEN "FEED_APB" ELSE "none"]

-----------------------------------------------------------------------------
(* What a handler does with the message it read, m == Head(main_mbx).       *)

m == Head(main_mbx)

is(c, s) == m.code = c /\ m.sub = s

Tell(told) == line_mbx' = line_mbx \o told

Stay(j) ==
  /\ job' = j
  /\ UNCHANGED <<mode, reset, second, step, work, line_mbx>>

\* _main_set_mode and one request, whose device becomes busy.
Proceed(next, j, d, r, s) ==
  /\ mode' = next /\ step' = s
  /\ job' = [j EXCEPT !.busy = @ \cup {d}]
  /\ work' = [work EXCEPT ![d] = r]
  /\ UNCHANGED <<reset, second, line_mbx>>

Flag == reset' = TRUE /\ UNCHANGED <<mode, job, second, step, work, line_mbx>>

\* _main_set_init after step s was set and told was sent: without a box the
\* reset ends in an alarm of its own.
SetInitAfter(s, told) ==
  /\ reset' = FALSE /\ job' = NoJob /\ step' = s
  /\ \/ mode' = "INIT" /\ UNCHANGED second /\ Tell(told)
     \/ mode' = "ALARM" /\ second' = 0
        /\ Tell(Append(told, Msg("RESET", "ALARM", "BOX")))
  /\ UNCHANGED work

SetInit == SetInitAfter(step, << >>)

\* _main_alarm_sub: ex_multi_job and the reset flag keep what they hold.  An
\* ICB is informed first and the line task told after its answer; the line
\* task reads at its own time, so this is not told apart.
AlarmAfter(j, conn, code, s, told) ==
  /\ mode' = "ALARM" /\ job' = j /\ second' = 0 /\ step' = s
  /\ Tell(Append(told, Msg(conn, "ALARM", code)))
  /\ UNCHANGED <<reset, work>>

AlarmSub(j, code) == AlarmAfter(j, "STACK", code, step, << >>)

InitOrAlarm(j, code) == IF reset THEN SetInit ELSE AlarmSub(j, code)

\* _main_reject_sub
RejectSub ==
  /\ mode' = "WAIT_REJECT_REQ" /\ job' = NoJob /\ second' = 0
  /\ Tell(<<Msg("STACK", "REJECT", "OTHER")>>)
  /\ UNCHANGED <<reset, step, work>>

Done(d)      == [job EXCEPT !.busy = @ \ {d}]
Failed(d)    == [Done(d) EXCEPT !.alarm = @ \cup {d}]
IfLast(j, A) == IF j.busy = {} THEN A ELSE Stay(j)

\* A device fails: the last to answer ends the note, with the alarm that was
\* recorded first.  (ex_main_pause_flag is 0 where the code asks for it.)
DeviceAlarm(d) ==
  m.sub = "ALARM" /\ IF Done(d).busy = {} THEN InitOrAlarm(Done(d), m.arg)
                     ELSE Stay(Failed(d))

\* *_STATUS_INFO with ALARM, in the default branch of the handlers.
StatusAlarm  == m.code = "STATUS" /\ AlarmSub(job, m.arg)
StatusOrInit == m.code = "STATUS" /\ InitOrAlarm(job, m.arg)

\* Messages without a case are logged or ignored.
Default(cases) == m.code \notin cases \cup {"STATUS"} /\ Stay(job)

\* Mutant: the credit is told without asking for the reset flag.
CreditForgetsReset(j, next) ==
  LET vend == <<Msg("STACK", "VEND", "OTHER")>> IN
  \/ AlarmAfter(j, "STACK", "BOX", "VEND", vend)                              \* box?
  \/ /\ mode' = next /\ job' = j /\ step' = "VEND"
     /\ Tell(Append(vend, Msg("STACK", "SUCCESS", "OTHER")))
     /\ UNCHANGED <<reset, second, work>>

\* The note is in the box: RECOVERY_STEP_VEND, TMSG_SUB_VEND, and only then
\* the reset flag and the box.
Credit(j, next) ==
  LET vend == <<Msg("STACK", "VEND", "OTHER")>> IN
  IF reset THEN SetInitAfter("VEND", vend)
  ELSE \/ AlarmAfter(j, "STACK", "BOX", "VEND", vend)                         \* box?
       \/ /\ mode' = next /\ job' = j /\ step' = "VEND"
          /\ Tell(Append(vend, Msg("STACK", "SUCCESS", "OTHER")))
          /\ UNCHANGED <<reset, second, work>>

\* In security mode the feed runs backwards before the credit, to find out
\* whether a note hangs on a string.
Boxed(j) == IF way = "security" THEN Proceed("FEED_REV_REQ", j, "FEED", "FEED_REV", step)
            ELSE Credit(j, "WAIT_REQ")

ToIcb(j) == Proceed(mode, j, "ICB", "ICB_ACCEPT", "ICB_ACCEPT")

Retry(j, r) == Proceed("STACK_RETRY", j, "STACKER", r, step)

-----------------------------------------------------------------------------
(* One operator per handler of mode2.                                       *)

\* FEED_APB_RSP but SUCCESS, in both feed modes; NextPause is pause'.
feeding ==
  \/ m.sub \in {"PAUSE", "RESUME"}
     /\ IF reset THEN SetInit
        ELSE /\ Tell(<<Msg("STACK", m.sub, "OTHER")>>)
             /\ UNCHANGED <<mode, job, reset, second, step, work>>
  \/ m.sub = "REJECT" /\ IF reset THEN SetInit ELSE RejectSub
  \/ m.sub = "ALARM" /\ InitOrAlarm(Done("FEED"), m.arg)

NextPause == IF mode \in FeedModes /\ m.code = "FEED_APB"
             THEN m.sub = "PAUSE" /\ (pause \/ ~reset) ELSE pause

feed_reset == m.code = "RESET" /\ IF pause THEN SetInit ELSE Flag

feed_stack_low ==
  \/ feed_reset
  \/ /\ is("FEED_APB", "SUCCESS")
     /\ IF reset THEN SetInit
        ELSE Proceed(mode, Done("FEED"), "APB", "APB_CLOSE", step)
  \/ m.code = "FEED_APB" /\ feeding
  \/ is("APB_CLOSE", "SUCCESS")
     /\ Proceed(mode, Done("APB"), "SHUTTER", "SHUTTER_OPEN", step)
  \/ m.code = "APB_CLOSE" /\ DeviceAlarm("APB")
  \/ is("SHUTTER_OPEN", "SUCCESS")
     /\ Proceed("WAIT_STACK_TOP", Done("SHUTTER"), "STACKER", "STACKER_EXEC", "STACKING")
  \/ m.code = "SHUTTER_OPEN" /\ DeviceAlarm("SHUTTER")
  \/ StatusOrInit
  \/ Default({"RESET", "FEED_APB", "APB_CLOSE", "SHUTTER_OPEN"})

\* FEED_APB_RSP SUCCESS: _main_set_init when a reset is pending, and then, for
\* want of an else, on to the stacker all the same.
feed_stack ==
  \/ feed_reset
  \/ /\ is("FEED_APB", "SUCCESS")
     /\ mode' = "WAIT_STACK_START" /\ step' = "STACKING" /\ reset' = FALSE
     /\ job' = [NoJob EXCEPT !.busy = {"STACKER"}]
     /\ work' = [work EXCEPT !["STACKER"] = "STACKER_EXEC"]
     /\ \/ UNCHANGED <<second, line_mbx>>
        \/ reset /\ second' = 0 /\ Tell(<<Msg("RESET", "ALARM", "BOX")>>)      \* box?
  \/ m.code = "FEED_APB" /\ feeding
  \/ StatusOrInit
  \/ Default({"RESET", "FEED_APB"})

wait_stack_start ==
  \/ m.code = "RESET" /\ Flag
  \/ is("STACKER_EXEC", "START")
     /\ Proceed("WAIT_STACK_TOP", job, "SHUTTER", "SHUTTER_OPEN", step)
  \/ is("STACKER_EXEC", "ALARM") /\ InitOrAlarm(Done("STACKER"), m.arg)
  \/ StatusOrInit
  \/ Default({"RESET", "STACKER_EXEC"})

\* Mutants of finish_stacker_pb_icb: it forgets to ask for the reset flag, or
\* for the alarms that were recorded, or it does not ask the stacker.
Pull(j) == Proceed("STACK_HOME", j, "STACKER",
             IF way = "parallel" /\ second = 1 THEN "STACKER_PULL"
             ELSE "STACKER_PULL_HALF", step)

RetryRejected(j) == Retry([j EXCEPT !.reject = @ \ {"STACKER"}], "STACKER_NG_PULL")

FinishForgetsReset(j) ==
  IF j.alarm # {} THEN AlarmSub(j, "OTHER")
  ELSE IF j.reject # {} THEN RetryRejected(j)
  ELSE AlarmSub(j, "BOX") \/ Pull(j)                                          \* box?

FinishForgetsAlarm(j) ==
  IF reset THEN SetInit
  ELSE IF j.reject # {} THEN RetryRejected(j)
  ELSE AlarmSub(j, "BOX") \/ Pull(j)                                          \* box?

FinishWithoutRequest(j) ==
  IF reset THEN SetInit
  ELSE IF j.alarm # {} THEN AlarmSub(j, "OTHER")
  ELSE IF j.reject # {} THEN RetryRejected(j)
  ELSE \/ AlarmSub(j, "BOX")                                                  \* box?
       \/ /\ mode' = "STACK_HOME" /\ job' = [j EXCEPT !.busy = {"STACKER"}]
          /\ UNCHANGED <<reset, second, step, work, line_mbx>>

\* Nothing is busy any more; j is ex_multi_job.
finish_stacker_pb_icb(j) ==
  IF reset THEN SetInit
  ELSE IF j.alarm # {} THEN AlarmSub(j, "OTHER")
  ELSE IF j.reject # {} THEN RetryRejected(j)
  ELSE AlarmSub(j, "BOX") \/ Pull(j)                                          \* box?

Finish(j) == IfLast(j, finish_stacker_pb_icb(j))

\* The stacker could not push the note in; j.busy = {}.
PullBack(j) ==
  IF reset THEN SetInit
  ELSE IF j.alarm # {} THEN AlarmSub(j, "OTHER")
  ELSE AlarmSub(j, "BOX") \/ Retry(j, "STACKER_NG_PULL")                      \* box?

stack_wait_stack_top ==
  \/ m.code = "RESET" /\ Flag
  \/ /\ is("STACKER_EXEC", "SUCCESS")
     /\ IF icb THEN ToIcb(Done("STACKER")) ELSE Finish(Done("STACKER"))
  \/ /\ is("STACKER_EXEC", "REJECT")
     /\ IF Done("STACKER").busy = {} THEN PullBack(Done("STACKER"))
        ELSE Stay([Done("STACKER") EXCEPT !.reject = {"STACKER"}])
  \/ m.code = "STACKER_EXEC" /\ DeviceAlarm("STACKER")
  \/ is("STACKER_EXEC", "START") /\ Stay(job)
  \* A note waits at the entrance, or not.
  \/ /\ is("SHUTTER_OPEN", "SUCCESS")
     /\ second' \in {0, 1}
     /\ job' = [Done("SHUTTER") EXCEPT !.busy = @ \cup {"APB"}]
     /\ work' = [work EXCEPT !["APB"] = "APB_EXEC"]
     /\ UNCHANGED <<mode, reset, step, line_mbx>>
  \/ m.code = "SHUTTER_OPEN" /\ DeviceAlarm("SHUTTER")
  \/ is("APB_EXEC", "SUCCESS") /\ Finish(Done("APB"))
  \/ m.code = "APB_EXEC" /\ DeviceAlarm("APB")
  \/ is("ICB_ACCEPT", "SUCCESS") /\ Finish(Done("ICB"))
  \/ m.code = "ICB_ACCEPT" /\ DeviceAlarm("ICB")
  \/ StatusOrInit
  \/ Default({"RESET", "STACKER_EXEC", "SHUTTER_OPEN", "APB_EXEC", "ICB_ACCEPT"})

\* STACKER_PULL_HALF is answered with the code of STACKER_PULL.
stack_wait_stack_home ==
  \/ m.code = "RESET" /\ Flag
  \/ /\ is("STACKER_PULL", "ENABLE_NEXT")
     /\ IF second # 1 THEN Stay(job)
        ELSE /\ mode' = "WAIT_REQ_FIRST"
             /\ Tell(<<Msg("STACK", "ENTRY_ON", "OTHER")>>)
             /\ UNCHANGED <<job, reset, second, step, work>>
  \/ is("STACKER_PULL", "SUCCESS") /\ Boxed(Done("STACKER"))
  \/ is("STACKER_PULL", "ALARM") /\ InitOrAlarm(Done("STACKER"), m.arg)
  \/ StatusOrInit
  \/ Default({"RESET", "STACKER_PULL"})

\* _main_set_accept, with ex_2nd_note_uba = 1 before it
set_accept ==
  \/ /\ mode' = "ACCEPT" /\ second' = 1
     /\ UNCHANGED <<job, reset, step, work, line_mbx>>
  \/ AlarmAfter(job, "ACCEPT", "BOX", step, << >>)                            \* box?

stack_wait_req_first ==
  \/ m.code = "RESET" /\ SetInit
  \/ m.code = "ACCEPT_REQ" /\ set_accept
  \/ m.code = "SENSOR" /\ (AlarmSub(job, "BOX") \/ Stay(job))                 \* box?
  \/ is("STACKER_PULL", "SUCCESS") /\ Credit(Done("STACKER"), mode)
  \/ /\ is("STACKER_PULL", "ALARM")
     /\ IF reset THEN SetInit ELSE AlarmSub(Failed("STACKER"), m.arg)
  \/ is("STACKER_PULL", "ENABLE_NEXT") /\ Stay(job)
  \/ StatusAlarm
  \/ Default({"RESET", "ACCEPT_REQ", "SENSOR", "STACKER_PULL"})

\* Mutant: an alarm of the second try reports the credit whatever its code.
FullForAll(j) ==
  IF icb THEN ToIcb([j EXCEPT !.alarm = {"STACKER"}])
  ELSE IF reset THEN SetInitAfter("VEND", << >>)
  ELSE AlarmAfter(j, "STACK", "FULL", "VEND", << >>)

\* STACKER_FULL: the note is in the box, but the plate does not come up again.
\* The credit is due, and the alarm carries it to the line task.
StackerFull(j) ==
  IF m.arg # "FULL" THEN InitOrAlarm(j, m.arg)
  ELSE LET f == [j EXCEPT !.alarm = @ \cup {"STACKER"}]
       IN IF icb THEN ToIcb(f)
          ELSE IF reset THEN SetInitAfter("VEND", << >>)
          ELSE AlarmAfter(f, "STACK", "FULL", "VEND", << >>)

\* ICB_ACCEPT_RSP SUCCESS in stack_exec_retry
RetryInformed(j) ==
  IF j.alarm = {} THEN Boxed(j)
  ELSE IF reset THEN SetInitAfter("VEND", << >>)
  ELSE AlarmAfter(j, "STACK", "FULL", "VEND", << >>)

\* The START of STACKER_EXEC_RE comes with the code of STACKER_EXEC, which has
\* no case here.
stack_exec_retry ==
  \/ m.code = "RESET" /\ Flag
  \/ /\ is("STACKER_NG_PULL", "SUCCESS")
     /\ IF reset THEN SetInit
        ELSE \/ AlarmSub(Done("STACKER"), "BOX")                              \* box?
             \/ Retry(Done("STACKER"), "STACKER_EXEC_RE")
  \/ is("STACKER_NG_PULL", "ALARM") /\ InitOrAlarm(Done("STACKER"), m.arg)
  \/ /\ is("STACKER_EXEC_RE", "SUCCESS")
     /\ IF icb THEN ToIcb(Done("STACKER")) ELSE Boxed(Done("STACKER"))
  \/ is("STACKER_EXEC_RE", "ALARM") /\ StackerFull(Done("STACKER"))
  \/ is("ICB_ACCEPT", "SUCCESS") /\ RetryInformed(Done("ICB"))
  \/ is("ICB_ACCEPT", "ALARM") /\ InitOrAlarm(Done("ICB"), m.arg)
  \/ StatusOrInit
  \/ Default({"RESET", "STACKER_NG_PULL", "STACKER_EXEC_RE", "ICB_ACCEPT"})

stack_feed_rev_req ==
  \/ m.code = "RESET" /\ Flag
  \/ is("FEED_REV", "SUCCESS") /\ Credit(Done("FEED"), "WAIT_REQ")
  \/ is("FEED_REV", "ALARM") /\ InitOrAlarm(Done("FEED"), m.arg)
  \/ StatusOrInit
  \/ Default({"RESET", "FEED_REV"})

\* ENABLE_REQ and DISABLE_REQ: the note is done.  With a hot CIS the alarm is
\* told with TMSG_CONN_ENABLE.
stack_wait_req ==
  \/ m.code = "RESET" /\ SetInit
  \/ /\ m.code = "ENABLE"
     /\ \/ mode' = "IDLE" /\ UNCHANGED <<job, reset, second, step, work, line_mbx>>
        \/ way = "single" /\ AlarmAfter(job, "ENABLE", "OTHER", step, << >>)
  \/ StatusAlarm
  \/ Default({"RESET", "ENABLE"})

stack_wait_reject_req ==
  \/ m.code = "RESET" /\ SetInit
  \/ m.code = "REJECT_REQ"
     /\ Proceed("WAIT_REJECT_SHUTTER_OPEN", job, "SHUTTER", "SHUTTER_OPEN", step)
  \/ StatusAlarm
  \/ Default({"RESET", "REJECT_REQ"})

stack_wait_reject_shutter_open ==
  \/ m.code = "RESET" /\ Flag
  \/ /\ is("SHUTTER_OPEN", "SUCCESS")
     /\ IF reset THEN SetInit
        ELSE /\ mode' = "REJECT" /\ job' = Done("SHUTTER")
             /\ UNCHANGED <<reset, second, step, work, line_mbx>>
  \/ is("SHUTTER_OPEN", "ALARM") /\ InitOrAlarm(Failed("SHUTTER"), m.arg)
  \/ StatusAlarm
  \/ Default({"RESET", "SHUTTER_OPEN"})

-----------------------------------------------------------------------------
\* The main task, the lowest of all, runs when the line task has read what it
\* was told, or waits for a block of the pool.
stack_msg_proc ==
  /\ Stacking /\ main_mbx # << >>
  /\ line_mbx = << >> \/ Len(main_mbx) = MailBlocks
  /\ main_mbx' = Tail(main_mbx)
  /\ pause' = NextPause
  /\ UNCHANGED options
  /\ \/ mode = "FEED_STACK" /\ feed_stack
     \/ mode = "FEED_STACK_LOW" /\ feed_stack_low
     \/ mode = "WAIT_STACK_START" /\ wait_stack_start
     \/ mode = "WAIT_STACK_TOP" /\ stack_wait_stack_top
     \/ mode = "STACK_HOME" /\ stack_wait_stack_home
     \/ mode = "WAIT_REQ_FIRST" /\ stack_wait_req_first
     \/ mode = "STACK_RETRY" /\ stack_exec_retry
     \/ mode = "FEED_REV_REQ" /\ stack_feed_rev_req
     \/ mode = "WAIT_REQ" /\ stack_wait_req
     \/ mode = "WAIT_REJECT_REQ" /\ stack_wait_reject_req
     \/ mode = "WAIT_REJECT_SHUTTER_OPEN" /\ stack_wait_reject_shutter_open

=============================================================================
