----------------------------- MODULE StandbyMain -----------------------------
(***************************************************************************)
(* What the main task does while no note is worked on: it waits in         *)
(* MODE1_ENABLE or MODE1_DISABLE for a note or a command, brings back what *)
(* left its position (mode_active_enable.c, mode_active_disable.c), adjusts*)
(* the sensors (mode_adjust.c), pushes out what is in the acceptor         *)
(* (mode_reject_uba.c, mode_reject_standby.c), and waits in an alarm for   *)
(* the box, a hand or the host (mode_alarm_uba.c).                         *)
(*                                                                         *)
(* One operator per handler.  The devices, the line task, the host and the *)
(* hands at the entrance are in Standby.                                   *)
(***************************************************************************)
EXTENDS Naturals, Sequences

CONSTANTS MailBlocks    \* blocks a message to main may use, 16 in the code

ASSUME BlocksAssumption == MailBlocks \in Nat \ {0}

VARIABLES
  mode1,      \* ex_main_task_mode1, "INIT" and "ACCEPT" where this ends
  mode2,      \* ex_main_task_mode2
  back,       \* ex_main_task_mode2_alarm_back
  reset,      \* ex_main_reset_flag
  enabling,   \* ex_recive_enable_cmd_003
  job,        \* the alarm that ex_multi_job holds: "NON" or "BOX"
  backup,     \* the one of ex_multi_job_alarm_backup
  main_mbx,   \* ID_MAIN_MBX
  work,       \* the devices that were asked to move, the timers that run
  line_mbx,   \* what main told the ID003 line task
  option,     \* _cline_check_opt_func()
  paper,      \* the innermost sensor that sees paper
  box,        \* is_box_set()
  off         \* the moves that a position sensor calls for

\* The moves of MODE1_ACTIVE_*, in the order in which they are looked for, and
\* what the sensor says: not home, not open, the pusher up, the plate home.
Before   == <<"CENTERING_HOME", "SHUTTER_OPEN", "PB_CLOSE">>
Homing   == {"CENTERING_HOME", "SHUTTER_OPEN", "PB_CLOSE", "STACKER_HALF"}
Moves    == Homing \cup {"FORCE_REV", "FEED_REJECT", "CENTERING_EXEC", "OUT_RETRY", "ADJUST"}
Timers   == {"TEMP_ADJ", "NOTE_STAY", "RECOVER", "LINE_WAIT"}

Rejects  == {"SENSOR_ACTIVE", "FEED_REJECT", "STACKER_HALF_PB_CLOSE", "NOTE_REMOVED", "WAIT_WID",
             "WAIT_REQ"}
Standbys == {"NOTE_STAY", "CONFIRM_NOTE_STAY", "WAIT_REJECT_REQ"}
\* FAIL: STACKER_JAM, STACKER_FAIL, FEED_FAIL, APB_FAIL, CENTERING_FAIL and
\* SHUTTER_FAIL, whose handlers are alike.
Alarms   == {"BOX", "CONFIRM_BOX", "ACCEPTOR_JAM", "CONFIRM_AT_JAM", "FAIL", "WAIT_REQ",
             "WAIT_SENSOR_ACTIVE"}

\* _main_bill_in and _main_stay_bill_check differ where a note sticks out.
bill_in ==
  IF paper \in {"CENTERING", "ACCEPTOR"} THEN "ACCEPTOR"
  ELSE IF paper \in {"STACKER", "ENTRANCE"} THEN paper ELSE "NON"

stay_bill_check == IF paper = "CENTERING" THEN "ENTRANCE" ELSE bill_in

Msg(c, s) == [code |-> c, sub |-> s]

m == Head(main_mbx)

is(c, s) == m.code = c /\ m.sub = s

In(a, b) == mode1 = a /\ mode2 = b

-----------------------------------------------------------------------------
(* What a handler does with the message it read.                            *)

SetMode(a, b) == mode1' = a /\ mode2' = b

Tell(conn, sub) == line_mbx' = Append(line_mbx, Msg(conn, sub))

Read == main_mbx' = Tail(main_mbx)

\* The sensor task is of a higher priority: it answers before main goes on.
ReadAndAsk(rsp) == main_mbx' = Append(Tail(main_mbx), Msg(rsp, "SUCCESS"))

Start(r)  == work' = work \cup {r}
Cancel(t) == work' = work \ {t}

Jobs == <<reset, job, backup>>

Stay == Read /\ UNCHANGED <<mode1, mode2, back, Jobs, work, line_mbx>>

Enter(a, b) == SetMode(a, b) /\ Read /\ UNCHANGED <<back, Jobs, work, line_mbx>>

EnterAndStart(a, b, r) == SetMode(a, b) /\ Start(r) /\ Read /\ UNCHANGED <<back, Jobs, line_mbx>>

\* TIMER_ID_TEMP_ADJ comes too early.
Rearm == Start("TEMP_ADJ") /\ Read /\ UNCHANGED <<mode1, mode2, back, Jobs, line_mbx>>

Flag == reset' = TRUE /\ Read /\ UNCHANGED <<mode1, mode2, back, job, backup, work, line_mbx>>

Record ==
  /\ job' = IF box THEN job ELSE "BOX"
  /\ Read /\ UNCHANGED <<mode1, mode2, back, reset, backup, work, line_mbx>>

Alarmed(conn, b) ==
  /\ back' = b /\ backup' = "NON" /\ Tell(conn, "ALARM")
  /\ ReadAndAsk("SENSOR") /\ Cancel("TEMP_ADJ")

\* _main_alarm_sub, with the mode that the code of the alarm leads to.
AlarmSub(conn, b) ==
  SetMode("ALARM", "WAIT_SENSOR_ACTIVE") /\ Alarmed(conn, b) /\ UNCHANGED <<reset, job>>

\* _main_set_init
SetInit ==
  /\ reset' = FALSE /\ job' = "NON"
  /\ \/ /\ box /\ SetMode("INIT", "SENSOR_ACTIVE") /\ backup' = "NON"
        /\ Read /\ Cancel("TEMP_ADJ") /\ UNCHANGED <<back, line_mbx>>
     \/ ~box /\ SetMode("ALARM", "WAIT_SENSOR_ACTIVE") /\ Alarmed("RESET", "CONFIRM_BOX")

\* Mutant: the sensors are not asked once more.
IdleUnasked(a, b) ==
  /\ SetMode(a, b) /\ job' = "NON" /\ Read /\ Start("TEMP_ADJ")
  /\ UNCHANGED <<back, reset, backup, line_mbx>>

\* _main_set_enable and _main_set_disable, b the mode that is set afterwards.
Idle(a, b) ==
  /\ SetMode(a, b) /\ job' = "NON" /\ ReadAndAsk("SENSOR") /\ Start("TEMP_ADJ")
  /\ UNCHANGED <<back, reset, backup, line_mbx>>

SetEnable  == IF box THEN Idle("ENABLE", "WAIT_BILL_IN") ELSE AlarmSub("ENABLE", "BOX")
SetDisable == IF box THEN Idle("DISABLE", "WAIT_REQ") ELSE AlarmSub("DISABLE", "BOX")

\* The same, and then the mode is set whether the box was there or not.
WaitReject(a) ==
  \/ box /\ Idle(a, "WAIT_REJECT_REQ")
  \/ ~box /\ SetMode(a, "WAIT_REJECT_REQ") /\ Alarmed(a, "BOX") /\ UNCHANGED <<reset, job>>

\* _main_set_accept
SetAccept ==
  \/ /\ box /\ SetMode("ACCEPT", "SENSOR_ACTIVE") /\ Read /\ Cancel("TEMP_ADJ")
     /\ UNCHANGED <<back, Jobs, line_mbx>>
  \/ ~box /\ AlarmSub("ACCEPT", "BOX")

\* _main_set_active_enable_uba, _main_set_active_disable_uba
SetActive(a, r) ==
  /\ SetMode(a, r) /\ ReadAndAsk("SENSOR_ACTIVE")
  /\ work' = (work \ {"TEMP_ADJ"}) \cup {r} /\ UNCHANGED <<back, Jobs, line_mbx>>

\* _main_set_adjustment
SetAdjustment ==
  /\ SetMode("ADJUST", mode1) /\ work' = (work \ {"TEMP_ADJ"}) \cup {"ADJUST"}
  /\ Read /\ UNCHANGED <<back, Jobs, line_mbx>>

\* _main_reject_sub: what was recorded waits for the end of the reject.
RejectSub(a, conn) ==
  /\ SetMode(a, "WAIT_REJECT_REQ") /\ backup' = job /\ job' = "NON" /\ Tell(conn, "REJECT")
  /\ Cancel("TEMP_ADJ") /\ Read /\ UNCHANGED <<back, reset>>

\* _main_reject_req
RejectReq ==
  /\ SetMode("REJECT", "SENSOR_ACTIVE") /\ ReadAndAsk("SENSOR_ACTIVE")
  /\ UNCHANGED <<back, Jobs, work, line_mbx>>

TellIn(a, b, conn, sub) ==
  SetMode(a, b) /\ Tell(conn, sub) /\ Read /\ UNCHANGED <<back, Jobs, work>>

\* _main_set_reject_standby_note_stay, and the sensor task is asked.
NoteStay ==
  /\ SetMode("REJECT_STANDBY", "NOTE_STAY") /\ ReadAndAsk("SENSOR") /\ Cancel("TEMP_ADJ")
  /\ UNCHANGED <<back, Jobs, line_mbx>>

\* _main_set_reject_note_removed_wait_sensor_active
NoteRemoved ==
  /\ SetMode("REJECT", "NOTE_REMOVED") /\ ReadAndAsk("SENSOR_ACTIVE") /\ Cancel("TEMP_ADJ")
  /\ UNCHANGED <<back, Jobs, line_mbx>>

IfReset(A)      == IF reset THEN SetInit ELSE A
IfJob(conn, A)  == IF job # "NON" THEN AlarmSub(conn, job) ELSE A
IfBox(conn, A)  == IF box THEN A ELSE AlarmSub(conn, "BOX")

\* Where a device could not do it: feed and stacker say whether the box is out.
failed(r) == m.code = r /\ m.sub \in {"ALARM", "BOX"}

Failure(conn)    == AlarmSub(conn, IF m.sub = "BOX" THEN "BOX" ELSE "FAIL")
InitOrFail(conn) == IfReset(Failure(conn))

Default(cases) == m.code \notin cases /\ Stay

-----------------------------------------------------------------------------
(* mode_enable.c and mode_disable.c: a note or a command is waited for.     *)

StatusAlarm(conn) == m.code = "STATUS" /\ AlarmSub(conn, "FAIL")

\* TIMES_UP, of TIMER_ID_TEMP_ADJ or of a timer that is not looked at.
TimesUp(A) == m.code = "TIMER" /\ IF m.sub = "TEMP_ADJ" THEN A ELSE Stay

\* The first position that is lost is restored.
Restore(a) ==
  \E i \in 1 .. Len(Before) :
    /\ Before[i] \in off /\ \A j \in 1 .. i - 1 : Before[j] \notin off
    /\ SetActive(a, Before[i])

InPlace == \A i \in 1 .. Len(Before) : Before[i] \notin off

\* The plate leaves its home, so that the next note can be stacked.
HalfOut(a) == IF "STACKER_HALF" \in off THEN SetActive(a, "STACKER_HALF") ELSE Stay

enable_sensor ==
  \/ ~InPlace /\ Restore("ACTIVE_ENABLE")
  \/ /\ InPlace
     /\ \/ bill_in = "ENTRANCE" /\ TellIn("ENABLE", "WAIT_REQ", "ENABLE", "ACCEPT")
        \/ bill_in = "ACCEPTOR" /\ RejectSub("ENABLE", "ENABLE")
        \/ bill_in = "STACKER" /\ AlarmSub("ENABLE", "FAIL")
        \/ bill_in = "NON" /\ HalfOut("ACTIVE_ENABLE")

enable_wait_bill_in ==
  \/ m.code = "RESET" /\ SetInit
  \/ m.code = "DISABLE" /\ SetDisable
  \/ m.code = "SENSOR" /\ IfBox("ENABLE", enable_sensor)
  \/ TimesUp(IF bill_in = "NON" THEN SetAdjustment ELSE Rearm)
  \/ StatusAlarm("ENABLE")
  \/ Default({"RESET", "DISABLE", "SENSOR", "TIMER", "STATUS"})

\* ENABLE_REQ is not looked at.
enable_wait_req ==
  \/ m.code = "RESET" /\ SetInit
  \/ m.code = "DISABLE" /\ SetDisable
  \/ m.code = "ACCEPT" /\ SetAccept
  \/ TimesUp(Rearm)
  \/ StatusAlarm("ENABLE")
  \/ Default({"RESET", "DISABLE", "ACCEPT", "TIMER", "STATUS"})

enable_wait_reject_req ==
  \/ m.code = "RESET" /\ SetInit
  \/ m.code = "DISABLE" /\ WaitReject("DISABLE")
  \/ m.code = "REJECT" /\ RejectReq
  \/ TimesUp(Rearm)
  \/ StatusAlarm("ENABLE")
  \/ Default({"RESET", "DISABLE", "REJECT", "TIMER", "STATUS"})

\* With the option of the ID003, a note at the entrance is pushed out.
disable_sensor ==
  \/ ~InPlace /\ Restore("ACTIVE_DISABLE")
  \/ /\ InPlace
     /\ \/ bill_in = "ENTRANCE" /\ option /\ SetActive("ACTIVE_DISABLE", "FORCE_REV")
        \/ bill_in = "ENTRANCE" /\ ~option /\ Stay
        \/ bill_in = "ACCEPTOR" /\ RejectSub("DISABLE", "DISABLE")
        \/ bill_in = "STACKER" /\ AlarmSub("DISABLE", "FAIL")
        \/ bill_in = "NON" /\ HalfOut("ACTIVE_DISABLE")

disable_wait_req ==
  \/ m.code = "RESET" /\ SetInit
  \/ m.code = "ENABLE" /\ SetEnable
  \/ m.code = "DISABLE" /\ SetDisable
  \/ m.code = "SENSOR" /\ IfBox("DISABLE", disable_sensor)
  \/ TimesUp(IF bill_in \in {"NON", "ENTRANCE"} THEN SetAdjustment ELSE Rearm)
  \/ StatusAlarm("DISABLE")
  \/ Default({"RESET", "ENABLE", "DISABLE", "SENSOR", "TIMER", "STATUS"})

disable_wait_reject_req ==
  \/ m.code = "RESET" /\ SetInit
  \/ m.code = "ENABLE" /\ WaitReject("ENABLE")
  \/ m.code = "REJECT" /\ RejectReq
  \/ TimesUp(Rearm)
  \/ StatusAlarm("DISABLE")
  \/ Default({"RESET", "ENABLE", "REJECT", "TIMER", "STATUS"})

-----------------------------------------------------------------------------
(* mode_active_enable.c and mode_active_disable.c: a device moves.  A reset *)
(* is flagged; a change of the command changes the mode that the move ends  *)
(* in; the feed is stopped first.                                           *)

active_enable_wait_req ==
  \/ m.code = "RESET" /\ SetInit
  \/ m.code = "DISABLE" /\ SetDisable
  \/ m.code = "ACCEPT" /\ IfReset(IfJob("ENABLE", SetAccept))
  \/ m.code \in {"SENSOR", "SENSOR_ACTIVE"} /\ Record
  \/ StatusAlarm("ENABLE")
  \/ Default({"RESET", "DISABLE", "ACCEPT", "SENSOR", "SENSOR_ACTIVE", "STATUS"})

active_enable_wait_reject_req ==
  \/ m.code = "RESET" /\ SetInit
  \/ m.code = "DISABLE" /\ Enter("ACTIVE_DISABLE", mode2)
  \/ m.code = "REJECT" /\ IfReset(IfJob("ENABLE", RejectReq))
  \/ m.code = "SENSOR" /\ Record
  \/ StatusAlarm("ENABLE")
  \/ Default({"RESET", "DISABLE", "REJECT", "SENSOR", "STATUS"})

active_disable_wait_reject_req ==
  \/ m.code = "RESET" /\ SetInit
  \/ m.code = "ENABLE" /\ Enter("ACTIVE_ENABLE", mode2)
  \/ m.code = "REJECT" /\ IfReset(IfJob("DISABLE", RejectReq))
  \/ m.code = "SENSOR" /\ Record
  \/ TimesUp(Rearm)
  \/ StatusAlarm("DISABLE")
  \/ Default({"RESET", "ENABLE", "REJECT", "SENSOR", "TIMER", "STATUS"})

\* What lies in the acceptor when the position is reached.
active_enable_bill ==
  \/ bill_in = "NON" /\ SetEnable
  \/ bill_in = "ENTRANCE" /\ TellIn("ACTIVE_ENABLE", "WAIT_REQ", "ENABLE", "ACCEPT")
  \/ bill_in = "ACCEPTOR" /\ RejectSub("ACTIVE_ENABLE", "ENABLE")
  \/ bill_in = "STACKER" /\ AlarmSub("ENABLE", "FAIL")

\* The plate looks for the box, the other moves do not.
WhileMoving == IF mode2 = "STACKER_HALF" THEN Record ELSE Stay

\* active_enable_stacker_half, _centering_home, _shutter_open, _pb_close; an
\* alarm that was recorded first is the one that is told.
active_enable_move ==
  \/ m.code = "RESET" /\ Flag
  \/ m.code = "DISABLE" /\ Enter("ACTIVE_DISABLE", mode2)
  \/ is(mode2, "SUCCESS") /\ IfReset(IfJob("ENABLE", active_enable_bill))
  \/ failed(mode2) /\ IfReset(IfJob("ENABLE", Failure("ENABLE")))
  \/ m.code = "SENSOR" /\ WhileMoving
  \/ TimesUp(Rearm)
  \/ StatusAlarm("ENABLE")
  \/ Default({"RESET", "DISABLE", mode2, "SENSOR", "TIMER", "STATUS"})

\* active_disable_stacker_half, _centering_home, _shutter_open, _pb_close
active_disable_move ==
  \/ m.code = "RESET" /\ Flag
  \/ m.code = "ENABLE" /\ Enter("ACTIVE_ENABLE", mode2)
  \/ is(mode2, "SUCCESS") /\ IfReset(IfJob("DISABLE", SetDisable))
  \/ failed(mode2) /\ IfReset(IfJob("DISABLE", Failure("DISABLE")))
  \/ m.code = "SENSOR" /\ WhileMoving
  \/ TimesUp(Rearm)
  \/ StatusAlarm("DISABLE")
  \/ Default({"RESET", "ENABLE", mode2, "SENSOR", "TIMER", "STATUS"})

\* The feed takes the request to stop for a new one when it has stopped.
active_disable_feed_reject ==
  \/ m.code = "RESET" /\ Flag /\ UNCHANGED enabling
  \/ /\ m.code = "ENABLE" /\ enabling' = TRUE
     /\ IF enabling THEN Stay ELSE EnterAndStart(mode1, mode2, "FORCE_REV")
  \/ m.code = "DISABLE" /\ enabling' = FALSE /\ Stay
  \/ /\ is("FORCE_REV", "SUCCESS")
     /\ enabling' = (reset /\ enabling) /\ IfReset(IF enabling THEN SetEnable ELSE SetDisable)
  \/ failed("FORCE_REV") /\ enabling' = FALSE /\ InitOrFail("DISABLE")
  \/ TimesUp(Rearm) /\ UNCHANGED enabling
  \/ StatusAlarm("DISABLE") /\ UNCHANGED enabling
  \/ Default({"RESET", "ENABLE", "DISABLE", "FORCE_REV", "TIMER", "STATUS"}) /\ UNCHANGED enabling

\* mode_adjust.c; mode2 is what the line task asked for last.  The timer that is
\* set on the way into an alarm or an initialisation is not looked at there.
adjust_temp_adj ==
  \/ m.code = "RESET" /\ Flag
  \/ m.code \in {"DISABLE", "ENABLE"} /\ Enter("ADJUST", m.code)
  \/ /\ m.code = "ADJUST"
     /\ IfReset(IF mode2 = "ENABLE" THEN SetEnable ELSE SetDisable)
  \/ StatusAlarm(mode2)
  \/ Default({"RESET", "DISABLE", "ENABLE", "ADJUST", "STATUS"})

-----------------------------------------------------------------------------
(* mode_reject_uba.c: the note is pushed out, plate and pusher are made     *)
(* ready for the next one, and the note is waited for to be taken.          *)

reject_sensor_active ==
  \/ m.code = "RESET" /\ SetInit
  \/ m.code = "SENSOR_ACTIVE" /\ IfBox("REJECT", EnterAndStart("REJECT", "FEED_REJECT", "FEED_REJECT"))
  \/ StatusAlarm("REJECT")
  \/ Default({"RESET", "SENSOR_ACTIVE", "STATUS"})

\* An alarm that was recorded before the reject is told now.
Restored == job' = backup /\ UNCHANGED reset
            /\ SetMode("ALARM", "WAIT_SENSOR_ACTIVE") /\ Alarmed("REJECT", backup)

AfterReject == "STACKER_HALF_PB_CLOSE"

\* Mutant: plate and pusher move together.
rejected_both ==
  \/ backup # "NON" /\ Restored
  \/ /\ backup = "NON" /\ {"STACKER_HALF", "PB_CLOSE"} \cap off # {}
     /\ SetMode("REJECT", AfterReject) /\ work' = work \cup ({"STACKER_HALF", "PB_CLOSE"} \cap off)
     /\ Read /\ UNCHANGED <<back, Jobs, line_mbx>>
  \/ backup = "NON" /\ {"STACKER_HALF", "PB_CLOSE"} \cap off = {} /\ NoteStay

rejected ==
  \/ backup # "NON" /\ Restored
  \/ backup = "NON" /\ "STACKER_HALF" \in off /\ EnterAndStart("REJECT", AfterReject, "STACKER_HALF")
  \/ /\ backup = "NON" /\ "STACKER_HALF" \notin off /\ "PB_CLOSE" \in off
     /\ EnterAndStart("REJECT", AfterReject, "PB_CLOSE")
  \/ backup = "NON" /\ {"STACKER_HALF", "PB_CLOSE"} \cap off = {} /\ NoteStay

\* RETRY and INTERIM: the centering makes way, and the feed tries again.
feed_reject ==
  \/ m.code = "RESET" /\ Flag
  \/ is("FEED_REJECT", "SUCCESS") /\ IfReset(rejected)
  \/ is("FEED_REJECT", "RETRY") /\ \E r \in {"CENTERING_EXEC", "OUT_RETRY"} : EnterAndStart(mode1, mode2, r)
  \/ is("FEED_REJECT", "INTERIM") /\ EnterAndStart(mode1, mode2, "CENTERING_EXEC")
  \/ /\ m.code = "CENTERING_EXEC" \/ is("OUT_RETRY", "SUCCESS")
     /\ EnterAndStart(mode1, mode2, "FEED_REJECT")
  \/ is("OUT_RETRY", "ALARM") /\ AlarmSub("REJECT", "FAIL")
  \/ failed("FEED_REJECT") /\ InitOrFail("REJECT")
  \/ m.code = "STATUS" /\ InitOrFail("REJECT")
  \/ Default({"RESET", "FEED_REJECT", "CENTERING_EXEC", "OUT_RETRY", "STATUS"})

\* The pusher is down, but a reset that was flagged is not looked at.
pb_closed ==
  IF "STACKER_HALF" \in off THEN EnterAndStart(mode1, mode2, "STACKER_HALF") ELSE NoteStay

half_out ==
  IF "PB_CLOSE" \in off THEN EnterAndStart(mode1, mode2, "PB_CLOSE") ELSE NoteStay

stacker_half_pb_close ==
  \/ m.code = "RESET" /\ Flag
  \/ is("STACKER_HALF", "SUCCESS") /\ IfReset(IfBox("REJECT", half_out))
  \/ is("PB_CLOSE", "SUCCESS") /\ pb_closed
  \/ (failed("STACKER_HALF") \/ failed("PB_CLOSE")) /\ InitOrFail("REJECT")
  \/ m.code = "STATUS" /\ InitOrFail("REJECT")
  \/ Default({"RESET", "STACKER_HALF", "PB_CLOSE", "STATUS"})

\* Mutant: the reset that was flagged is not looked at.
reject_note_removed_late ==
  \/ m.code = "RESET" /\ Flag
  \/ m.code = "SENSOR_ACTIVE"
     /\ IF "CENTERING_HOME" \in off THEN EnterAndStart("REJECT", "WAIT_WID", "CENTERING_EXEC")
        ELSE TellIn("REJECT", "WAIT_REQ", "REJECT", "SUCCESS")
  \/ StatusAlarm("REJECT")
  \/ Default({"RESET", "SENSOR_ACTIVE", "STATUS"})

reject_note_removed ==
  \/ m.code = "RESET" /\ Flag
  \/ m.code = "SENSOR_ACTIVE"
     /\ IfReset(IF "CENTERING_HOME" \in off THEN EnterAndStart("REJECT", "WAIT_WID", "CENTERING_EXEC")
                ELSE TellIn("REJECT", "WAIT_REQ", "REJECT", "SUCCESS"))
  \/ StatusAlarm("REJECT")
  \/ Default({"RESET", "SENSOR_ACTIVE", "STATUS"})

reject_wait_wid ==
  \/ m.code = "RESET" /\ Flag
  \/ is("CENTERING_EXEC", "SUCCESS") /\ IfReset(TellIn("REJECT", "WAIT_REQ", "REJECT", "SUCCESS"))
  \/ is("CENTERING_EXEC", "ALARM") /\ InitOrFail("REJECT")
  \/ StatusAlarm("REJECT")
  \/ Default({"RESET", "CENTERING_EXEC", "STATUS"})

reject_wait_req ==
  \/ m.code = "RESET" /\ SetInit
  \/ m.code = "ENABLE" /\ SetEnable
  \/ m.code = "DISABLE" /\ SetDisable
  \/ StatusAlarm("REJECT")
  \/ Default({"RESET", "ENABLE", "DISABLE", "STATUS"})

-----------------------------------------------------------------------------
(* mode_reject_standby.c: the note sticks out of the entrance.              *)

\* What the sensors say of it, where it is not gone yet.
StayPaper ==
  \/ stay_bill_check = "ACCEPTOR" /\ RejectSub("REJECT_STANDBY", "REJECT")
  \/ stay_bill_check = "STACKER" /\ AlarmSub("REJECT", "FAIL")

NoteSeen == stay_bill_check \in {"ACCEPTOR", "STACKER"}

note_stay_check ==
  \/ NoteSeen /\ StayPaper
  \/ stay_bill_check = "NON" /\ EnterAndStart("REJECT_STANDBY", "CONFIRM_NOTE_STAY", "NOTE_STAY")
  \/ stay_bill_check = "ENTRANCE" /\ Stay

reject_standby_note_stay ==
  \/ m.code = "RESET" /\ SetInit
  \/ m.code = "SENSOR" /\ IfBox("REJECT", note_stay_check)
  \/ StatusAlarm("REJECT")
  \/ Default({"RESET", "SENSOR", "STATUS"})

\* Mutant: the timer is set once more when the note is gone.
confirm_note_stay_again ==
  \/ m.code = "RESET" /\ SetInit
  \/ m.code = "TIMER" /\ EnterAndStart(mode1, mode2, "NOTE_STAY")
  \/ m.code = "SENSOR"
     /\ \/ NoteSeen /\ StayPaper
        \/ stay_bill_check = "ENTRANCE" /\ Enter("REJECT_STANDBY", "NOTE_STAY")
        \/ stay_bill_check = "NON" /\ Stay
  \/ StatusAlarm("REJECT")
  \/ Default({"RESET", "TIMER", "SENSOR", "STATUS"})

\* The box is not looked at when a sensor changes.
reject_standby_confirm_note_stay ==
  \/ m.code = "RESET" /\ SetInit
  \/ is("TIMER", "NOTE_STAY")
     /\ IfBox("REJECT", IF NoteSeen THEN StayPaper
                        ELSE IF stay_bill_check = "NON" THEN NoteRemoved ELSE Stay)
  \/ m.code = "TIMER" /\ m.sub # "NOTE_STAY" /\ Stay
  \/ m.code = "SENSOR"
     /\ \/ NoteSeen /\ StayPaper
        \/ stay_bill_check = "ENTRANCE" /\ Enter("REJECT_STANDBY", "NOTE_STAY")
        \/ stay_bill_check = "NON" /\ Stay
  \/ StatusAlarm("REJECT")
  \/ Default({"RESET", "TIMER", "SENSOR", "STATUS"})

reject_standby_wait_reject_req ==
  \/ m.code = "RESET" /\ SetInit
  \/ m.code = "REJECT" /\ RejectReq
  \/ TimesUp(Rearm)
  \/ StatusAlarm("REJECT")
  \/ Default({"RESET", "REJECT", "TIMER", "STATUS"})

-----------------------------------------------------------------------------
(* mode_alarm_uba.c: a hand, the box or the host ends the alarm.            *)

\* The codes that have all the bits of TMSG_TCODE_CLINE: the requests of the
\* line task, and with them those of the sensor, shutter and pusher tasks.
Clines == {"ENABLE", "DISABLE", "ACCEPT", "REJECT", "SET_STATUS", "SENSOR_ACTIVE", "SHUTTER_OPEN",
           "PB_CLOSE", "ADJUST"}

\* A request is answered with the alarm, once more; cases has a branch.
Repeat(cases) ==
  \/ m.code \in Clines \ cases /\ TellIn(mode1, mode2, "STATUS", "ALARM")
  \/ m.code \notin Clines \cup cases /\ Stay

\* Something lies where it must not.
Jams ==
  \/ bill_in = "ACCEPTOR" /\ AlarmSub("STATUS", "ACCEPTOR_JAM")
  \/ bill_in = "STACKER" /\ AlarmSub("STATUS", "FAIL")

Clear == bill_in \in {"NON", "ENTRANCE"}

\* The line task may ask to be told later that the alarm is over.
alarm_wait_req ==
  \/ m.code = "RESET" /\ SetInit
  \/ m.code = "SENSOR" /\ IF Clear THEN Stay ELSE Jams
  \/ m.code = "SET_STATUS" /\ EnterAndStart(mode1, mode2, "LINE_WAIT")
  \/ is("TIMER", "LINE_WAIT") /\ TellIn(mode1, mode2, "STATUS", "SUCCESS")
  \/ m.code = "TIMER" /\ m.sub # "LINE_WAIT" /\ Stay
  \/ Default({"RESET", "SENSOR", "SET_STATUS", "TIMER"})

\* alarm_stacker_jam, alarm_feed_fail and the others: until the host resets.
alarm_fail ==
  \/ m.code = "RESET" /\ SetInit
  \/ m.code = "SENSOR" /\ IF box THEN Stay ELSE AlarmSub("STATUS", "BOX")
  \/ Repeat({"RESET", "SENSOR"})

alarm_acceptor_jam ==
  \/ m.code = "RESET" /\ SetInit
  \/ m.code = "SENSOR"
     /\ \/ ~box /\ AlarmSub("STATUS", "BOX")
        \/ box /\ bill_in = "NON" /\ EnterAndStart("ALARM", "CONFIRM_AT_JAM", "RECOVER")
        \/ box /\ bill_in = "STACKER" /\ Jams
        \/ box /\ bill_in \in {"ENTRANCE", "ACCEPTOR"} /\ Stay
  \/ Repeat({"RESET", "SENSOR"})

Recovered == TellIn("ALARM", "WAIT_REQ", "STATUS", "SUCCESS")

alarm_confirm_at_jam ==
  \/ m.code = "RESET" /\ SetInit
  \/ m.code = "SENSOR"
     /\ \/ ~box /\ AlarmSub("STATUS", "BOX")
        \/ /\ box /\ bill_in \in {"ENTRANCE", "ACCEPTOR"}
           /\ SetMode("ALARM", "ACCEPTOR_JAM") /\ Cancel("RECOVER") /\ ReadAndAsk("SENSOR")
           /\ UNCHANGED <<back, Jobs, line_mbx>>
        \/ box /\ bill_in = "STACKER" /\ Jams
        \/ box /\ bill_in = "NON" /\ Stay
  \/ is("TIMER", "RECOVER") /\ Recovered
  \/ Repeat({"RESET", "SENSOR"}) /\ ~is("TIMER", "RECOVER")

\* Mutant: the box is back, and no timer waits for it to stay.
alarm_box_untimed ==
  \/ m.code = "RESET" /\ SetInit
  \/ m.code = "SENSOR" /\ IF box THEN Enter("ALARM", "CONFIRM_BOX") ELSE Stay
  \/ m.code = "SET_STATUS" /\ Stay
  \/ Repeat({"RESET", "SENSOR", "SET_STATUS"})

alarm_box ==
  \/ m.code = "RESET" /\ SetInit
  \/ m.code = "SENSOR" /\ IF box THEN EnterAndStart("ALARM", "CONFIRM_BOX", "RECOVER") ELSE Stay
  \/ m.code = "SET_STATUS" /\ Stay
  \/ Repeat({"RESET", "SENSOR", "SET_STATUS"})

\* The box is not looked at when the timer is up.
alarm_confirm_box ==
  \/ m.code = "RESET" /\ SetInit
  \/ m.code = "SENSOR"
     /\ \/ box /\ Stay
        \/ /\ ~box /\ SetMode("ALARM", "BOX") /\ Cancel("RECOVER") /\ Read
           /\ UNCHANGED <<back, Jobs, line_mbx>>
  \/ m.code = "SET_STATUS" /\ Stay
  \/ is("TIMER", "RECOVER") /\ IF Clear THEN Recovered ELSE Jams
  \/ Repeat({"RESET", "SENSOR", "SET_STATUS"}) /\ ~is("TIMER", "RECOVER")

alarm_wait_sensor_active ==
  \/ m.code = "RESET" /\ SetInit
  \/ /\ m.code \in {"SENSOR", "SENSOR_ACTIVE"}
     /\ SetMode("ALARM", back) /\ ReadAndAsk("SENSOR") /\ UNCHANGED <<back, Jobs, work, line_mbx>>
  \/ m.code = "SET_STATUS" /\ Stay
  \/ Repeat({"RESET", "SENSOR", "SENSOR_ACTIVE", "SET_STATUS"})

-----------------------------------------------------------------------------

Running == mode1 \notin {"INIT", "ACCEPT"}

\* What main does in the mode it is in with the first message.
handler ==
  \/ In("ENABLE", "WAIT_BILL_IN") /\ enable_wait_bill_in
  \/ In("ENABLE", "WAIT_REQ") /\ enable_wait_req
  \/ In("ENABLE", "WAIT_REJECT_REQ") /\ enable_wait_reject_req
  \/ In("DISABLE", "WAIT_REQ") /\ disable_wait_req
  \/ In("DISABLE", "WAIT_REJECT_REQ") /\ disable_wait_reject_req
  \/ In("ACTIVE_ENABLE", "WAIT_REQ") /\ active_enable_wait_req
  \/ In("ACTIVE_ENABLE", "WAIT_REJECT_REQ") /\ active_enable_wait_reject_req
  \/ In("ACTIVE_DISABLE", "WAIT_REJECT_REQ") /\ active_disable_wait_reject_req
  \/ mode1 = "ACTIVE_ENABLE" /\ mode2 \in Homing /\ active_enable_move
  \/ mode1 = "ACTIVE_DISABLE" /\ mode2 \in Homing /\ active_disable_move
  \/ mode1 = "ADJUST" /\ adjust_temp_adj
  \/ In("REJECT", "SENSOR_ACTIVE") /\ reject_sensor_active
  \/ In("REJECT", "FEED_REJECT") /\ feed_reject
  \/ In("REJECT", AfterReject) /\ stacker_half_pb_close
  \/ In("REJECT", "NOTE_REMOVED") /\ reject_note_removed
  \/ In("REJECT", "WAIT_WID") /\ reject_wait_wid
  \/ In("REJECT", "WAIT_REQ") /\ reject_wait_req
  \/ In("REJECT_STANDBY", "NOTE_STAY") /\ reject_standby_note_stay
  \/ In("REJECT_STANDBY", "CONFIRM_NOTE_STAY") /\ reject_standby_confirm_note_stay
  \/ In("REJECT_STANDBY", "WAIT_REJECT_REQ") /\ reject_standby_wait_reject_req
  \/ In("ALARM", "WAIT_REQ") /\ alarm_wait_req
  \/ In("ALARM", "FAIL") /\ alarm_fail
  \/ In("ALARM", "ACCEPTOR_JAM") /\ alarm_acceptor_jam
  \/ In("ALARM", "CONFIRM_AT_JAM") /\ alarm_confirm_at_jam
  \/ In("ALARM", "BOX") /\ alarm_box
  \/ In("ALARM", "CONFIRM_BOX") /\ alarm_confirm_box
  \/ In("ALARM", "WAIT_SENSOR_ACTIVE") /\ alarm_wait_sensor_active

\* main_task: the line task is of a higher priority and reads first, unless it
\* waits for a block.
main_task ==
  /\ Running /\ main_mbx # << >> /\ (line_mbx = << >> \/ Len(main_mbx) = MailBlocks)
  /\ UNCHANGED option
  /\ \/ In("ACTIVE_DISABLE", "FORCE_REV") /\ active_disable_feed_reject
     \/ ~In("ACTIVE_DISABLE", "FORCE_REV") /\ handler /\ UNCHANGED enabling

=============================================================================
