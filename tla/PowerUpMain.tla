----------------------------- MODULE PowerUpMain -----------------------------
(***************************************************************************)
(* main_task/operation/mode_powerup.c and mode_initialize_uba.c: after the *)
(* power came back the main task tells the line task where it finds a      *)
(* note, searches for it when asked, and, when the host sends a reset,     *)
(* brings every device home and moves what it finds into the box or out of *)
(* the entrance.                                                           *)
(*                                                                         *)
(* One operator per handler.  The devices, the line task, the host and the *)
(* hands at the entrance are in PowerUp.                                   *)
(***************************************************************************)
EXTENDS Naturals, Sequences, FiniteSets, Recovery

CONSTANTS Icb,          \* whether is_icb_enable() may hold
          MailBlocks,   \* blocks a message to main may use, 16 in the code
          ForceStacks   \* limit of ex_force_stack_retry, 3 in the code

ASSUME IcbAssumption == Icb \subseteq BOOLEAN

ASSUME LimitAssumption == MailBlocks \in Nat \ {0} /\ ForceStacks \in Nat

VARIABLES
  icb,        \* is_icb_enable()
  mode,       \* ex_main_task_mode2, "ALARM", "DONE" or "REJECT"
  reset,      \* ex_main_reset_flag
  pause,      \* ex_main_pause_flag
  tries,      \* ex_force_stack_retry
  step,       \* ex_recovery_info.step, kept in FRAM
  main_mbx,   \* ID_MAIN_MBX
  work,       \* what the devices were asked and did not answer yet
  line_mbx,   \* what main told the ID003 line task
  note,       \* "escrow", "exit", "chamber", "past", "box", "mouth", "gone"
  paper,      \* something else lies in the acceptor
  box,        \* is_box_set()
  off,        \* what is not at its position
  home        \* SENSOR_STACKER_HOME

Positions == {"SHUTTER_OPEN", "CENTERING_HOME", "APB_HOME"}

\* The requests, by the task that works on them, one at a time.
Tasks ==
  {{"SENSOR"}, {"SENSOR_ACTIVE"}, {"CIS"}, {"TIMER"},
   {"SHUTTER_OPEN", "SHUTTER_INITIAL"}, {"CENTERING_HOME", "CENTERING_EXEC"},
   {"APB_HOME", "APB_INITIAL", "APB_CLOSE"}, {"ICB_INITIAL", "ICB_ACCEPT"},
   {"FEED_SEARCH", "FEED_INITIAL", "FEED_FORCE", "FEED_PAUSED", "FEED_REJECT"},
   {"STACKER_HOME", "STACKER_EXEC", "STACKER_PULL", "STACKER_NG_PULL", "STACKER_EXEC_RE"}}

Requests == UNION Tasks

PowerUpModes == {"SENSOR_INIT", "WAIT_REQ", "SENSOR_ACTIVE", "STACKER_HOME", "SEARCH_BILL",
                 "ALARM_BOX", "CONFIRM_BOX", "RESET_GLI"}
InitModes ==
  {"INIT_SENSOR_ACTIVE", "INIT_CIS", "INIT_POSITION", "INIT_SELECT", "INIT_STACKER",
   "INIT_FEED", "INIT_APB", "INIT_SHUTTER", "INIT_CENTERING", "INIT_ICB", "INIT_ICB_BOX",
   "INIT_WAIT_REQ", "INIT_WAIT_REMAIN", "INIT_FORCE_FEED", "INIT_FORCE_STACK",
   "INIT_REJECT_HOME", "INIT_FEED_REJECT", "INIT_NOTE_STAY", "INIT_WAIT_RESET"}

\* _main_bill_remain, of a note at n
bill_remain(n) ==
  IF n = "escrow" \/ paper THEN "ACCEPTOR" ELSE IF n = "exit" THEN "STACKER"
  ELSE IF n = "mouth" THEN "ENTRANCE" ELSE "NON"

bill == bill_remain(note)

Msg(c, s, a) == [code |-> c, sub |-> s, arg |-> a]

m == Head(main_mbx)

is(c, s) == m.code = c /\ m.sub = s

-----------------------------------------------------------------------------
(* What a handler does with the message it read.                            *)

Tell(conn, sub, arg) == line_mbx' = Append(line_mbx, Msg(conn, sub, arg))

Stay == UNCHANGED <<mode, reset, tries, step, work, line_mbx>>

Enter(next) == mode' = next /\ UNCHANGED <<reset, tries, step, work, line_mbx>>

\* A device that is asked drops what it worked on.
Asked(r) == {q \in work : ~\E t \in Tasks : {q, r} \subseteq t} \cup {r}

Ask(next, r) ==
  /\ mode' = next /\ work' = Asked(r) /\ UNCHANGED <<reset, tries, step, line_mbx>>

TellIn(next, conn, sub, arg) ==
  /\ mode' = next /\ Tell(conn, sub, arg) /\ UNCHANGED <<reset, tries, step, work>>

Flag == reset' = TRUE /\ UNCHANGED <<mode, tries, step, work, line_mbx>>

\* _main_alarm_sub: the reset flag is kept.
AlarmSub(conn, code) ==
  /\ mode' = "ALARM" /\ tries' = 0 /\ Tell(conn, "ALARM", code)
  /\ UNCHANGED <<reset, step, work>>

\* _main_set_init
SetInit ==
  /\ reset' = FALSE /\ UNCHANGED step
  /\ \/ /\ box /\ mode' = "INIT_SENSOR_ACTIVE" /\ work' = Asked("SENSOR_ACTIVE")
        /\ UNCHANGED <<tries, line_mbx>>
     \/ /\ ~box /\ mode' = "ALARM" /\ tries' = 0 /\ Tell("RESET", "ALARM", "OTHER")
        /\ UNCHANGED work

IfReset(A)       == IF reset THEN SetInit ELSE A
IfBox(A)         == IF box THEN A ELSE AlarmSub("RESET", "OTHER")
InitOrAlarm(arg) == IfReset(AlarmSub("RESET", arg))

Default(cases) == m.code \notin cases /\ Stay

-----------------------------------------------------------------------------
(* mode_powerup.c: the handlers before the first reset.                     *)

StatusAlarm(conn) == m.code = "STATUS" /\ AlarmSub(conn, m.arg)

powerup_sensor_init ==
  \/ /\ m.code = "SENSOR_INIT"
     /\ IF box THEN TellIn("WAIT_REQ", "INITIAL", "SUCCESS", bill)
        ELSE TellIn("ALARM_BOX", "INITIAL", "ALARM", "OTHER")
  \/ StatusAlarm("INITIAL")
  \/ Default({"SENSOR_INIT", "STATUS"})

\* The box is gone: the sensor task is asked to report it when it is back.
BoxGone ==
  /\ mode' = "ALARM_BOX" /\ work' = Asked("SENSOR") /\ Tell("STATUS", "ALARM", "OTHER")
  /\ UNCHANGED <<reset, tries, step>>

powerup_wait_req ==
  \/ m.code = "RESET" /\ SetInit
  \/ m.code = "SEARCH" /\ Ask("SENSOR_ACTIVE", "SENSOR_ACTIVE")
  \/ m.code = "LOST_BILL" /\ Enter("RESET_GLI")
  \/ m.code = "SENSOR" /\ IF box THEN TellIn(mode, "STATUS", "SUCCESS", bill) ELSE BoxGone
  \/ StatusAlarm("STATUS")
  \/ Default({"RESET", "SEARCH", "LOST_BILL", "SENSOR", "STATUS"})

\* The search: a change of the sensors is not looked at.
powerup_sensor_active ==
  \/ m.code = "SENSOR_ACTIVE"
     /\ IF box THEN Ask("STACKER_HOME", "STACKER_HOME") ELSE AlarmSub("SEARCH", "OTHER")
  \/ StatusAlarm("STATUS")
  \/ Default({"SENSOR_ACTIVE", "STATUS"})

powerup_stacker_home ==
  \/ is("STACKER_HOME", "SUCCESS")
     /\ IF box THEN Ask("SEARCH_BILL", "FEED_SEARCH")
        ELSE TellIn("ALARM_BOX", "SEARCH", "ALARM", "OTHER")
  \/ is("STACKER_HOME", "ALARM") /\ AlarmSub("SEARCH", m.arg)
  \/ StatusAlarm("STATUS")
  \/ Default({"STACKER_HOME", "STATUS"})

\* FEED_SEARCH_RSP, whatever it says.
powerup_search_bill ==
  \/ /\ m.code = "FEED_SEARCH"
     /\ IF box THEN TellIn("WAIT_REQ", "SEARCH", "SUCCESS", bill)
        ELSE TellIn("ALARM_BOX", "SEARCH", "ALARM", "OTHER")
  \/ StatusAlarm("STATUS")
  \/ Default({"FEED_SEARCH", "STATUS"})

powerup_alarm_box ==
  \/ m.code = "RESET" /\ SetInit
  \/ m.code = "SENSOR" /\ IF box THEN Ask("CONFIRM_BOX", "TIMER") ELSE Stay
  \/ StatusAlarm("STATUS")
  \/ Default({"RESET", "SENSOR", "STATUS"})

powerup_alarm_confirm_box ==
  \/ m.code = "RESET" /\ SetInit
  \/ /\ m.code = "SENSOR" /\ ~box
     /\ mode' = "ALARM_BOX" /\ work' = work \ {"TIMER"}
     /\ UNCHANGED <<reset, tries, step, line_mbx>>
  \/ m.code = "SENSOR" /\ box /\ Stay
  \/ m.code = "TIMER" /\ IF box THEN TellIn("WAIT_REQ", "STATUS", "SUCCESS", bill)
                         ELSE Enter("ALARM_BOX")
  \/ StatusAlarm("STATUS")
  \/ Default({"RESET", "SENSOR", "TIMER", "STATUS"})

\* The note is lost: the reset of the host is waited for.
powerup_alarm_receive_reset_gli ==
  \/ m.code = "RESET" /\ SetInit
  \/ m.code = "SENSOR" /\ IF box THEN Stay ELSE BoxGone
  \/ StatusAlarm("STATUS")
  \/ Default({"RESET", "SENSOR", "STATUS"})

-----------------------------------------------------------------------------
(* mode_initialize_uba.c.  Most of its handlers ask one device, flag a      *)
(* reset until it has answered, and let the reset go first.                 *)

Flags(cases) ==
  \/ m.code = "RESET" /\ Flag
  \/ Default(cases \cup {"RESET", "STATUS"})

\* SUCCESS of r leads to A, its alarm and that of a sensor to SetInit or ALARM.
Awaits(r, A) ==
  \/ is(r, "SUCCESS") /\ IfReset(A)
  \/ (is(r, "ALARM") \/ m.code = "STATUS") /\ InitOrAlarm(m.arg)
  \/ Flags({r})

init_sensor_active ==
  \/ m.code = "RESET" /\ SetInit
  \/ m.code = "SENSOR_ACTIVE" /\ Ask("INIT_CIS", "CIS")
  \/ StatusAlarm("RESET")
  \/ Default({"RESET", "SENSOR_ACTIVE", "STATUS"})

\* A note that covers the APB keeps it from being brought home.
ApbCovered == off = {"APB_HOME"} /\ bill = "ACCEPTOR"

\* Shutter and centering are brought to their positions before the APB.
FirstOff(r) ==
  /\ r \in off /\ (r = "APB_HOME" => off = {r})
  /\ r = "CENTERING_HOME" => "SHUTTER_OPEN" \notin off

\* initial_position_uba, and init_sub_select_mode when nothing is left to do
initial_position_uba ==
  \/ \E r \in Positions : FirstOff(r) /\ Ask("INIT_POSITION", r)
  \/ (off = {} \/ ApbCovered) /\ ~home /\ Ask("INIT_POSITION", "STACKER_HOME")
  \/ (off = {} \/ ApbCovered) /\ home /\ Enter("INIT_SELECT")

init_cis_init ==
  \/ is("CIS", "SUCCESS") /\ IfReset(IfBox(initial_position_uba))
  \/ is("CIS", "ALARM") /\ InitOrAlarm(m.arg)
  \/ StatusAlarm("RESET")
  \/ Flags({"CIS"})

init_initial_position ==
  \/ m.code \in {"CENTERING_HOME", "STACKER_HOME"}
     /\ m.sub = "SUCCESS" /\ IfReset(IfBox(initial_position_uba))
  \/ m.code \in {"APB_HOME", "SHUTTER_OPEN"}
     /\ m.sub = "SUCCESS" /\ IfReset(initial_position_uba)
  \/ m.sub = "ALARM" /\ m.code \in {"STATUS", "STACKER_HOME"} \cup Positions
     /\ InitOrAlarm(m.arg)
  \/ Flags({"STACKER_HOME"} \cup Positions)

\* init_sub_select_mode, done at once by main itself: when no sensor sees a
\* note, it turns the feed backwards until one does.
init_sub_select_mode ==
  /\ mode = "INIT_SELECT"
  /\ note' \in IF bill = "NON" /\ note = "chamber" THEN {"chamber", "exit"} ELSE {note}
  /\ IF bill_remain(note') = "NON" THEN Ask("INIT_STACKER", "STACKER_EXEC")
     ELSE TellIn("INIT_WAIT_REMAIN", "RESET", "REMAIN", bill_remain(note'))

Strokes == {"STACKER_EXEC", "STACKER_PULL", "STACKER_NG_PULL", "STACKER_EXEC_RE"}

\* A stroke with argument 0, which the stacker does not record, in case a note
\* lies before the plate.
init_stacker ==
  \/ is("STACKER_EXEC", "SUCCESS") /\ IfReset(IfBox(Ask(mode, "STACKER_PULL")))
  \/ is("STACKER_EXEC", "REJECT") /\ IfReset(IfBox(Ask(mode, "STACKER_NG_PULL")))
  \/ is("STACKER_NG_PULL", "SUCCESS") /\ IfReset(IfBox(Ask(mode, "STACKER_EXEC_RE")))
  \/ m.code \in {"STACKER_PULL", "STACKER_EXEC_RE"}
     /\ m.sub = "SUCCESS" /\ IfReset(IfBox(Ask("INIT_FEED", "FEED_INITIAL")))
  \/ m.code \in Strokes \cup {"STATUS"} /\ m.sub = "ALARM" /\ InitOrAlarm(m.arg)
  \/ Flags(Strokes)

\* Mutant: the reset that came while the feed worked is not looked at.
InitFeedGoesOn ==
  \/ is("FEED_INITIAL", "SUCCESS") /\ Ask("INIT_APB", "APB_INITIAL")
  \/ is("FEED_INITIAL", "REJECT")
     /\ IfReset(TellIn("INIT_WAIT_REMAIN", "RESET", "INIT_REJECT_REQUEST", "OTHER"))
  \/ is("FEED_INITIAL", "ALARM") /\ InitOrAlarm(m.arg)
  \/ StatusAlarm("RESET")
  \/ Flags({"FEED_INITIAL"})

init_feed ==
  \/ is("FEED_INITIAL", "SUCCESS") /\ IfReset(Ask("INIT_APB", "APB_INITIAL"))
  \/ is("FEED_INITIAL", "REJECT")
     /\ IfReset(TellIn("INIT_WAIT_REMAIN", "RESET", "INIT_REJECT_REQUEST", "OTHER"))
  \/ is("FEED_INITIAL", "ALARM") /\ InitOrAlarm(m.arg)
  \/ StatusAlarm("RESET")
  \/ Flags({"FEED_INITIAL"})

init_apb ==
  \/ is("APB_INITIAL", "SUCCESS") /\ IfReset(Ask(mode, "APB_CLOSE"))
  \/ is("APB_CLOSE", "SUCCESS") /\ IfReset(Ask("INIT_SHUTTER", "SHUTTER_INITIAL"))
  \/ m.code \in {"APB_INITIAL", "APB_CLOSE", "STATUS"} /\ m.sub = "ALARM" /\ InitOrAlarm(m.arg)
  \/ Flags({"APB_INITIAL", "APB_CLOSE"})

init_shutter == Awaits("SHUTTER_INITIAL", Ask("INIT_CENTERING", "CENTERING_EXEC"))

init_centering == Awaits("CENTERING_EXEC", IfBox(Ask("INIT_ICB", "ICB_INITIAL")))

InitDone == TellIn("INIT_WAIT_REQ", "RESET", "SUCCESS", "NON")

\* is_icb_recovery_info_stack
icb_recovery == icb /\ step \in Steps \ {"NON", "ICB_ACCEPT", "VEND"}

\* Mutant: the step is written after the answer of the ICB and not before.
IcbAcceptUnrecorded ==
  IF icb_recovery THEN Ask(mode, "ICB_ACCEPT") ELSE InitDone

\* The note of the recovery is counted, which is recorded first.
IcbAccept ==
  IF ~icb_recovery THEN InitDone
  ELSE /\ step' = "ICB_ACCEPT" /\ work' = Asked("ICB_ACCEPT")
       /\ UNCHANGED <<mode, reset, tries, line_mbx>>

\* A box that is missing once is an alarm when the ICB has answered.
IfNoAlarm(A) == IfReset(IfBox(IF mode = "INIT_ICB" THEN A ELSE AlarmSub("RESET", "OTHER")))

init_icb ==
  \/ is("ICB_INITIAL", "SUCCESS") /\ IfNoAlarm(IcbAccept)
  \/ is("ICB_INITIAL", "ALARM")
     /\ IfReset((~icb /\ InitDone) \/ AlarmSub("RESET", m.arg))
  \/ is("ICB_ACCEPT", "SUCCESS") /\ IfNoAlarm(InitDone)
  \/ is("ICB_ACCEPT", "ALARM") /\ InitOrAlarm(m.arg)
  \/ m.code = "STATUS" /\ InitOrAlarm(m.arg)
  \/ m.code = "SENSOR" /\ IF box THEN Stay ELSE Enter("INIT_ICB_BOX")
  \/ Flags({"ICB_INITIAL", "ICB_ACCEPT", "SENSOR"})

-----------------------------------------------------------------------------
(* The modes that wait for the line task, and what it asks in them.         *)

init_wait_req ==
  \/ m.code = "RESET" /\ SetInit
  \/ /\ m.code = "ENABLE" /\ mode' = "DONE" /\ tries' = 0
     /\ UNCHANGED <<reset, step, work, line_mbx>>
  \/ StatusAlarm("RESET")
  \/ Default({"RESET", "ENABLE", "STATUS"})

\* Mutant: the forced stackings are not limited.
ForceFeedForever ==
  /\ mode' = "INIT_FORCE_FEED" /\ tries' = tries + 1 /\ work' = Asked("FEED_FORCE")
  /\ UNCHANGED <<reset, step, line_mbx>>

ForceFeed ==
  IF tries = ForceStacks THEN AlarmSub("RESET", "OTHER")
  ELSE /\ mode' = "INIT_FORCE_FEED" /\ tries' = tries + 1 /\ work' = Asked("FEED_FORCE")
       /\ UNCHANGED <<reset, step, line_mbx>>

\* TMSG_SUB_INIT_REJECT_HANGING, and the sensors are asked
Hanging ==
  /\ mode' = "INIT_NOTE_STAY" /\ work' = Asked("SENSOR")
  /\ Tell("RESET", "INIT_REJECT_HANGING", "OTHER") /\ UNCHANGED <<reset, tries, step>>

Reject ==
  \/ bill \in {"NON", "ENTRANCE"} /\ Hanging
  \/ bill \notin {"NON", "ENTRANCE"} /\ off # {} /\ Ask("INIT_REJECT_HOME", "APB_HOME")
  \/ bill \notin {"NON", "ENTRANCE"} /\ Ask("INIT_FEED_REJECT", "FEED_REJECT")

init_wait_remain_req ==
  \/ m.code = "RESET" /\ SetInit
  \/ m.code = "STACK_REQ" /\ IfBox(ForceFeed)
  \/ m.code = "REJECT_REQ" /\ IfBox(Reject)
  \/ StatusAlarm("RESET")
  \/ Default({"RESET", "STACK_REQ", "REJECT_REQ", "STATUS"})

init_force_feed_stack ==
  \/ m.code = "RESET" /\ IF pause THEN SetInit ELSE Flag
  \/ is("FEED_FORCE", "SUCCESS") /\ IfReset(Ask("INIT_FORCE_STACK", "STACKER_EXEC"))
  \/ m.code = "FEED_FORCE" /\ m.sub \in {"PAUSE", "RESUME"}
     /\ IfReset(TellIn(mode, "RESET", m.sub, "OTHER"))
  \/ (is("FEED_FORCE", "ALARM") \/ m.code = "STATUS") /\ InitOrAlarm(m.arg)
  \/ Default({"RESET", "FEED_FORCE", "STATUS"})

NextPause ==
  IF mode = "INIT_FORCE_FEED" /\ m.code = "FEED_FORCE"
  THEN m.sub = "PAUSE" /\ (pause \/ ~reset)
  ELSE pause /\ ~(mode = "INIT_WAIT_REMAIN" /\ m.code = "STACK_REQ" /\ box)

\* Mutant: the line task is not told that the note was stacked.
EndInitStackSilent == Enter("INIT_WAIT_RESET")

EndInitStack == TellIn("INIT_WAIT_RESET", "RESET", "END_INIT_STACK", "OTHER")

\* Two answers do not ask for the reset flag: EXEC REJECT, and EXEC_RE.
init_force_stack ==
  \/ is("STACKER_EXEC", "SUCCESS") /\ IfReset(IfBox(EndInitStack))
  \/ is("STACKER_EXEC", "REJECT") /\ Ask(mode, "STACKER_NG_PULL")
  \/ is("STACKER_NG_PULL", "SUCCESS") /\ IfReset(IfBox(Ask(mode, "STACKER_EXEC_RE")))
  \/ is("STACKER_EXEC_RE", "SUCCESS") /\ EndInitStack
  \/ is("STACKER_EXEC_RE", "ALARM") /\ AlarmSub("RESET", m.arg)
  \/ m.code \in {"STACKER_EXEC", "STACKER_NG_PULL", "STATUS"} /\ m.sub = "ALARM"
     /\ InitOrAlarm(m.arg)
  \/ Flags(Strokes)

\* On to MODE1_REJECT.
init_reject_apb_home == Awaits("APB_HOME", Enter("REJECT"))

init_feed_reject ==
  \/ is("FEED_REJECT", "SUCCESS") /\ IfReset(Hanging)
  \/ is("FEED_REJECT", "INTERIM") /\ Ask(mode, "CENTERING_HOME")
  \/ is("CENTERING_HOME", "SUCCESS") /\ IfReset(IfBox(Ask(mode, "FEED_REJECT")))
  \/ m.code \in {"FEED_REJECT", "CENTERING_HOME", "STATUS"} /\ m.sub = "ALARM"
     /\ InitOrAlarm(m.arg)
  \/ Flags({"FEED_REJECT", "CENTERING_HOME"})

init_note_stay ==
  \/ m.code = "RESET" /\ SetInit
  \/ m.code = "SENSOR"
     /\ \/ bill = "ACCEPTOR"
           /\ TellIn("INIT_WAIT_REMAIN", "RESET", "INIT_REJECT_REQUEST", "OTHER")
        \/ bill = "STACKER" /\ AlarmSub("RESET", "OTHER")
        \/ bill = "NON" /\ TellIn("INIT_WAIT_RESET", "RESET", "INIT_REJECT_REMOVE", "OTHER")
        \/ bill = "ENTRANCE" /\ Stay
  \/ StatusAlarm("RESET")
  \/ Default({"RESET", "SENSOR", "STATUS"})

init_wait_reset_req ==
  \/ m.code = "RESET" /\ SetInit
  \/ StatusAlarm("RESET")
  \/ Default({"RESET", "STATUS"})

\* mode_alarm_uba.c, external to this module: a reset initialises; another
\* request of the line task, or a change of the sensors, is an alarm again or
\* nothing, by the code of the alarm.
alarm_msg ==
  \/ m.code = "RESET" /\ SetInit
  \/ m.code # "RESET" /\ Stay
  \/ m.code \in {"SEARCH", "ENABLE", "STACK_REQ", "REJECT_REQ", "SENSOR"}
     /\ AlarmSub("STATUS", "OTHER")

Running == mode \notin {"DONE", "REJECT"}

power_msg_proc ==
  /\ Running /\ mode # "INIT_SELECT" /\ main_mbx # << >>
  /\ main_mbx' = Tail(main_mbx) /\ pause' = NextPause /\ UNCHANGED note
  /\ \/ mode = "SENSOR_INIT" /\ powerup_sensor_init
     \/ mode = "WAIT_REQ" /\ powerup_wait_req
     \/ mode = "SENSOR_ACTIVE" /\ powerup_sensor_active
     \/ mode = "STACKER_HOME" /\ powerup_stacker_home
     \/ mode = "SEARCH_BILL" /\ powerup_search_bill
     \/ mode = "ALARM_BOX" /\ powerup_alarm_box
     \/ mode = "CONFIRM_BOX" /\ powerup_alarm_confirm_box
     \/ mode = "RESET_GLI" /\ powerup_alarm_receive_reset_gli
     \/ mode = "INIT_SENSOR_ACTIVE" /\ init_sensor_active
     \/ mode = "INIT_CIS" /\ init_cis_init
     \/ mode = "INIT_POSITION" /\ init_initial_position
     \/ mode = "INIT_STACKER" /\ init_stacker
     \/ mode = "INIT_FEED" /\ init_feed
     \/ mode = "INIT_APB" /\ init_apb
     \/ mode = "INIT_SHUTTER" /\ init_shutter
     \/ mode = "INIT_CENTERING" /\ init_centering
     \/ mode \in {"INIT_ICB", "INIT_ICB_BOX"} /\ init_icb
     \/ mode = "INIT_WAIT_REQ" /\ init_wait_req
     \/ mode = "INIT_WAIT_REMAIN" /\ init_wait_remain_req
     \/ mode = "INIT_FORCE_FEED" /\ init_force_feed_stack
     \/ mode = "INIT_FORCE_STACK" /\ init_force_stack
     \/ mode = "INIT_REJECT_HOME" /\ init_reject_apb_home
     \/ mode = "INIT_FEED_REJECT" /\ init_feed_reject
     \/ mode = "INIT_NOTE_STAY" /\ init_note_stay
     \/ mode = "INIT_WAIT_RESET" /\ init_wait_reset_req
     \/ mode = "ALARM" /\ alarm_msg

\* The main task runs when the line task has read what it was told, or waits
\* for a block of the pool.
main_task ==
  /\ line_mbx = << >> \/ Len(main_mbx) = MailBlocks
  /\ \/ power_msg_proc
     \/ init_sub_select_mode /\ UNCHANGED <<main_mbx, pause>>

=============================================================================
