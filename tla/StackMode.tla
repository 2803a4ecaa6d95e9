------------------------------ MODULE StackMode ------------------------------
(***************************************************************************)
(* The stacking of one note: the main task of StackMain with the feed and  *)
(* the stacker, which move the note and write the recovery step beside it, *)
(* the ID003 line task, which owns the credit, and the host.  The module   *)
(* ends where the main task leaves MODE1_STACK.                            *)
(*                                                                         *)
(* The power may fail in any state.  PowerUp is what the validator then    *)
(* concludes from the FRAM, the sensors and the place of the note.         *)
(***************************************************************************)
EXTENDS StackMain

CONSTANTS PushRetries,   \* STACKER_EXEC_RETRY_PUSH_COUNT, 2 in the code
          HomeRetries,   \* STACKER_EXEC_RETRY_HOME_COUNT, 2 in the code
          MaxPauses      \* bound: how often the feed pauses

ASSUME RetryAssumption == {PushRetries, HomeRetries, MaxPauses} \subseteq Nat

VARIABLES
  note,      \* "escrow", "exit", "chamber", "past": pushed STACKER_FULL_DA
             \*   pulses or more, "box": pushed as far and recorded so
  behind,    \* the next note is in the acceptor
  home,      \* SENSOR_STACKER_HOME
  stacker,   \* ex_stacker_task_seq and the counters of its retries
  pauses,    \* how often the feed paused
  paused,    \* the feed waits in 0x0470
  line,      \* line_task_mode, whether error_code is set, s_id003_2nd_note
  acked      \* the host acknowledged VEND_VALID

env  == <<note, behind, home>>
fvars == <<pauses, paused>>
lvars == <<line, acked>>
vars == <<options, mvars, step, main_mbx, work, line_mbx, env, stacker, fvars, lvars>>

NewStacker == [seq |-> "new", tries |-> 0, homes |-> 0, cause |-> "OTHER"]

Init ==
  /\ MainInit
  /\ note = "escrow" /\ behind = FALSE /\ home \in BOOLEAN
  /\ stacker = NewStacker
  /\ pauses = 0 /\ paused = FALSE
  /\ line = [mode |-> "stack", error |-> FALSE, second |-> FALSE] /\ acked = FALSE

main == stack_msg_proc /\ UNCHANGED <<env, stacker, fvars, lvars>>

-----------------------------------------------------------------------------
(* The devices.                                                             *)

Send(msg) == Len(main_mbx) < MailBlocks /\ main_mbx' = Append(main_mbx, msg)

\* The request that device d works on, while the main task listens.
Works(d, reqs) == Stacking /\ work[d] \in reqs

\* d sends its last answer.  A STACKER_PULL_REQ with SS_PULL_HALF is answered
\* like one without it.
Answer(d, sub, arg) ==
  /\ Send(Msg(IF work[d] = "STACKER_PULL_HALF" THEN "STACKER_PULL" ELSE work[d], sub, arg))
  /\ work' = [work EXCEPT ![d] = "none"]

\* The APB, the shutter, the ICB, and the feed when it runs backwards.
DeviceAnswers(d) ==
  /\ Works(d, Asked[d] \ {"FEED_APB"})
  /\ \E sub \in {"SUCCESS", "ALARM"} : Answer(d, sub, "OTHER")
  /\ UNCHANGED <<options, mvars, step, line_mbx, env, stacker, fvars, lvars>>

others == <<options, mvars, line_mbx, behind, lvars>>

Feeds == Works("FEED", {"FEED_APB"}) /\ UNCHANGED <<others, home, stacker>>

\* The note leaves the APB.
FeedLeaves ==
  /\ Feeds /\ ~paused /\ note = "escrow"
  /\ note' = "exit" /\ step' = "APB_OUT"
  /\ UNCHANGED <<main_mbx, work, fvars>>

FeedArrives ==
  /\ Feeds /\ ~paused /\ note = "exit" /\ note' = "chamber"
  /\ UNCHANGED <<step, main_mbx, work, fvars>>

FeedEnds ==
  /\ Feeds /\ paused' = FALSE
  /\ \/ note = "chamber" /\ ~paused /\ Answer("FEED", "SUCCESS", "OTHER")
     \/ \E sub \in {"REJECT", "ALARM"} : Answer("FEED", sub, "OTHER")
  /\ UNCHANGED <<step, note, pauses>>

\* Something follows the note into the acceptor; once more while it waits for
\* it to be taken away.
FeedPauses ==
  /\ Feeds /\ note \in {"escrow", "exit"} /\ pauses < MaxPauses
  /\ Send(Msg("FEED_APB", "PAUSE", "OTHER"))
  /\ paused' = TRUE /\ pauses' = pauses + 1
  /\ UNCHANGED <<step, note, work>>

FeedResumes ==
  /\ Feeds /\ paused /\ paused' = FALSE
  /\ Send(Msg("FEED_APB", "RESUME", "OTHER"))
  /\ UNCHANGED step \/ (note = "exit" /\ step' = "APB_OUT")
  /\ UNCHANGED <<note, work, pauses>>

-----------------------------------------------------------------------------
(* The stacker: 0x12.. EXEC, 0x14.. PULL, 0x15.. EXEC_RE, 0x16.. NG_PULL.   *)

Pushes == {"STACKER_EXEC", "STACKER_EXEC_RE"}
Pulls  == {"STACKER_PULL", "STACKER_PULL_HALF"}

StackerIn(reqs, seq) ==
  Works("STACKER", reqs) /\ stacker.seq = seq /\ UNCHANGED <<others, fvars>>

Turn(seq) == stacker' = [stacker EXCEPT !.seq = seq] /\ UNCHANGED <<main_mbx, work>>

\* The counters are cleared when the next request comes.
Ends(sub, arg) == Answer("STACKER", sub, arg) /\ stacker' = NewStacker

\* Mutant: one try to come home too many.
HomeCountLate(seq) ==
  IF stacker.homes > HomeRetries THEN Ends("ALARM", "OTHER")
  ELSE /\ stacker' = [stacker EXCEPT !.seq = seq, !.homes = @ + 1, !.cause = "OTHER"]
       /\ UNCHANGED <<main_mbx, work>>

\* _stacker_check_to_home_count: the plate does not come home, try again.
HomeCount(seq) ==
  IF stacker.homes + 1 > HomeRetries THEN Ends("ALARM", "OTHER")
  ELSE /\ stacker' = [stacker EXCEPT !.seq = seq, !.homes = @ + 1, !.cause = "OTHER"]
       /\ UNCHANGED <<main_mbx, work>>

\* The plate cannot push: the first stroke is given up, _stacker_set_retry_
\* request, the second is tried again, _stacker_check_to_push_count.
PushFails(cause) ==
  IF work["STACKER"] = "STACKER_EXEC" THEN Ends("REJECT", "OTHER")
  ELSE /\ stacker' = [stacker EXCEPT !.seq = "again", !.tries = @ + 1, !.cause = cause]
       /\ UNCHANGED <<main_mbx, work>>

\* 0x1200, 0x1500.  The START of both strokes has the code of the first.
StackerStarts ==
  /\ StackerIn(Pushes, "new")
  /\ IF home THEN /\ Send(Msg("STACKER_EXEC", "START", "OTHER"))
                  /\ stacker' = [stacker EXCEPT !.seq = "leaving"] /\ UNCHANGED work
     ELSE Turn(IF work["STACKER"] = "STACKER_EXEC" THEN "back" ELSE "again")
  /\ UNCHANGED <<step, note, home>>

\* 0x1204, 0x1504
StackerLeaves ==
  /\ StackerIn(Pushes, "leaving")
  /\ \/ PushFails("OTHER") /\ UNCHANGED home
     \/ Turn("pushing") /\ home' = FALSE
  /\ UNCHANGED <<step, note>>

\* 0x1206, 0x1506: the plate stops short, or late enough for STACKER_FULL.
StackerSticks ==
  /\ StackerIn(Pushes, "pushing")
  /\ \/ PushFails("OTHER") /\ home' \in BOOLEAN /\ UNCHANGED <<step, note>>
     \/ /\ PushFails("FULL") /\ UNCHANGED home
        /\ \/ note' = "box" /\ step' = "BILL_IN_BOX"    \* pulse 523 of 523 .. 796
           \/ note' = (IF note = "box" THEN "box" ELSE "past") /\ UNCHANGED step

\* Mutant: the plate is at the top and the recovery step is not set.
TopUnrecorded ==
  /\ StackerIn(Pushes, "pushing") /\ Turn("top") /\ note' = "box"
  /\ UNCHANGED <<home, step>>

\* STACKER_TOP_PULSE
StackerTops ==
  /\ StackerIn(Pushes, "pushing") /\ Turn("top")
  /\ note' = "box" /\ step' = "BILL_IN_BOX" /\ UNCHANGED home

\* 0x1208, 0x1508: the motor stops; the second stroke comes home on its own.
StackerStops ==
  /\ StackerIn(Pushes, "top")
  /\ \/ home' \in BOOLEAN /\ \E cause \in {"OTHER", "FULL"} : PushFails(cause)
     \/ /\ UNCHANGED home
        /\ IF work["STACKER"] = "STACKER_EXEC" THEN Ends("SUCCESS", "OTHER")
           ELSE Turn("returning")
  /\ UNCHANGED <<step, note>>

\* 0x1210 .. 0x1214: before the first stroke the plate is brought home, which
\* counts as a failure whether it gets there or not.
StackerBacks ==
  /\ StackerIn({"STACKER_EXEC"}, "back")
  /\ HomeCount("new") /\ home' \in BOOLEAN
  /\ UNCHANGED <<step, note>>

\* 0x150A .. 0x150E, 0x1600 .. 0x160C and 0x140A .. 0x140E: the plate comes
\* home and the request is done, or tries once more.
StackerReturns ==
  /\ \/ StackerIn({"STACKER_EXEC_RE"}, "returning")
     \/ StackerIn({"STACKER_NG_PULL"}, "new")
     \/ StackerIn({"STACKER_PULL"}, "pulling")
     \/ StackerIn(Pulls, "again")
  /\ \/ Ends("SUCCESS", "OTHER") /\ home' = TRUE
     \/ HomeCount(IF work["STACKER"] = "STACKER_NG_PULL" THEN "new" ELSE "again")
        /\ home' \in BOOLEAN
  /\ UNCHANGED <<step, note>>

\* 0x1520 .. 0x1526: home again, and the next try of the second stroke.
StackerRetries ==
  /\ StackerIn({"STACKER_EXEC_RE"}, "again")
  /\ \/ HomeCount("again") /\ home' \in BOOLEAN
     \/ /\ home' = TRUE
        /\ IF stacker.tries > PushRetries \/ stacker.homes > HomeRetries
           THEN Ends("ALARM", stacker.cause) ELSE Turn("new")
  /\ UNCHANGED <<step, note>>

\* 0x1400, 0x1409, 0x1430: on its way home the plate allows the next note, or
\* it stops half way.  A plate that slipped home, or does not move, tries again.
StackerPulls ==
  /\ StackerIn(Pulls, "new")
  /\ \/ HomeCount("again")
        /\ home' \in IF work["STACKER"] = "STACKER_PULL" THEN BOOLEAN ELSE {TRUE}
     \/ /\ work["STACKER"] = "STACKER_PULL" /\ UNCHANGED home
        /\ Send(Msg("STACKER_PULL", "ENABLE_NEXT", "OTHER"))
        /\ stacker' = [stacker EXCEPT !.seq = "pulling"] /\ UNCHANGED work
     \/ /\ work["STACKER"] = "STACKER_PULL_HALF" /\ UNCHANGED home
        /\ Ends("SUCCESS", "OTHER")
  /\ UNCHANGED <<step, note>>

\* No box, something pulled at the note, a motor that does not stop.  The line
\* task tells the codes apart only after VEND, when no device works any more.
StackerAlarms ==
  /\ Works("STACKER", Asked["STACKER"]) /\ UNCHANGED <<others, fvars>>
  /\ Ends("ALARM", "OTHER")
  /\ UNCHANGED <<step, note, home>>

Stacker ==
  \/ StackerStarts \/ StackerLeaves \/ StackerSticks \/ StackerTops \/ StackerStops
  \/ StackerBacks \/ StackerReturns \/ StackerRetries \/ StackerPulls \/ StackerAlarms

-----------------------------------------------------------------------------
(* The ID003 line task, the highest of all.  The WAIT command of the host,   *)
(* which holds the status back for a while, is left out.                    *)

LineIn(modes) == line.mode \in modes

Goes(next) == line' = [line EXCEPT !.mode = next]

\* _set_id003_alarm clears the recovery step.
ToError == line' = [mode |-> "error", error |-> TRUE, second |-> FALSE] /\ step' = "NON"

told == Head(line_mbx)

\* _id003_stack_rsp_mode_stack; another sub is a system error.
stack_rsp_mode_stack ==
  \/ told.sub = "VEND" /\ Goes("vend") /\ UNCHANGED <<step, main_mbx>>
  \/ /\ told.sub = "PAUSE" /\ UNCHANGED <<step, main_mbx>>
     /\ IF LineIn({"stack"}) THEN Goes("wait_pause") ELSE UNCHANGED line
  \/ /\ told.sub = "RESUME" /\ UNCHANGED <<step, main_mbx>>
     /\ IF LineIn({"pause"}) THEN Goes("stack") ELSE UNCHANGED line
  \/ told.sub = "REJECT" /\ Goes("reject") /\ step' = "NON"
     /\ Send(Msg("REJECT_REQ", "none", "OTHER"))
  \/ /\ told.sub = "ALARM"
     /\ IF told.arg # "FULL" THEN ToError
        ELSE line' = [line EXCEPT !.mode = "vend_full", !.error = TRUE] /\ UNCHANGED step
     /\ UNCHANGED main_mbx
  \/ told.sub = "ENTRY_ON" /\ line' = [line EXCEPT !.second = TRUE]
     /\ Send(Msg("ACCEPT_REQ", "none", "OTHER")) /\ UNCHANGED step

\* _id003_stack_rsp_mode_vend, _mode_stacked, _id003_status_info_mode_vend
stack_rsp_credited ==
  /\ UNCHANGED main_mbx
  /\ IF told.sub # "ALARM" THEN UNCHANGED <<line, step>>
     ELSE IF told.arg = "BOX" /\ ~LineIn({"stacked"}) THEN ToError
     ELSE line' = [line EXCEPT !.error = TRUE] /\ UNCHANGED step

Stacks   == {"stack", "wait_pause", "pause"}
Credited == {"vend", "wait_ack", "stacked", "vend_full", "wait_ack_full", "stacked_full"}

LineReads ==
  /\ line_mbx # << >> /\ line_mbx' = Tail(line_mbx)
  /\ \/ told.code = "STACK" /\ LineIn(Stacks) /\ stack_rsp_mode_stack
     \/ told.code = "STACK" /\ LineIn(Credited) /\ stack_rsp_credited
     \/ /\ \/ told.code = "ACCEPT" /\ LineIn({"stack", "vend", "wait_ack", "stacked", "done"})
           \/ told.code = "ENABLE" /\ LineIn({"done"})
           \/ told.code = "RESET" /\ LineIn({"initial"})
        /\ ToError /\ UNCHANGED main_mbx
     \/ /\ \/ told.code = "STACK" /\ ~LineIn(Stacks \cup Credited)
           \/ told.code = "ACCEPT" /\ ~LineIn({"stack", "vend", "wait_ack", "stacked", "done"})
           \/ told.code = "ENABLE" /\ ~LineIn({"done"})
           \/ told.code = "RESET" /\ ~LineIn({"initial"})
        /\ UNCHANGED <<line, step, main_mbx>>
  /\ UNCHANGED <<options, mvars, work, env, stacker, fvars, acked>>

hostvars == <<options, mvars, work, line_mbx, env, stacker, fvars>>

\* _id003_stsreq_*: a status request of the host, answered by the mode.  The
\* second note keeps the main task, else it goes on with ENABLE or DISABLE.
HostPolls ==
  /\ line_mbx = << >>
  /\ \/ LineIn({"wait_pause"}) /\ Goes("pause") /\ UNCHANGED <<step, main_mbx>>
     \/ LineIn({"vend"}) /\ Goes("wait_ack") /\ UNCHANGED <<step, main_mbx>>
     \/ LineIn({"vend_full"}) /\ Goes("wait_ack_full") /\ UNCHANGED <<step, main_mbx>>
     \/ LineIn({"stacked"}) /\ line.error /\ ToError /\ UNCHANGED main_mbx
     \/ LineIn({"stacked"}) /\ ~line.error /\ Goes("done") /\ UNCHANGED step
        /\ IF line.second THEN UNCHANGED main_mbx ELSE Send(Msg("ENABLE", "none", "OTHER"))
     \/ LineIn({"stacked_full"}) /\ ToError /\ UNCHANGED main_mbx
  /\ UNCHANGED <<hostvars, acked>>

\* _id003_ack_cmd_proc
HostAcks ==
  /\ line_mbx = << >> /\ acked' = TRUE /\ step' = "NON"
  /\ \/ LineIn({"wait_ack"}) /\ Goes("stacked") /\ Send(Msg("1ST_NOTE_DONE", "none", "OTHER"))
     \/ LineIn({"wait_ack_full"}) /\ Goes("stacked_full") /\ UNCHANGED main_mbx
  /\ UNCHANGED hostvars

\* _id003_reset_cmd_proc
HostResets ==
  /\ line_mbx = << >> /\ ~LineIn({"initial"})
  /\ line' = [mode |-> "initial", error |-> FALSE, second |-> FALSE] /\ step' = "NON"
  /\ Send(Msg("RESET", "none", "OTHER"))
  /\ UNCHANGED <<hostvars, acked>>

-----------------------------------------------------------------------------
\* A sensor task or the box reports a fault, or, while the next note is waited
\* for, a change of the sensors.
Faults ==
  /\ Stacking /\ main_mbx = << >> /\ line_mbx = << >>
  /\ \/ \E code \in {"BOX", "OTHER"} : Send(Msg("STATUS", "ALARM", code))
     \/ mode = "WAIT_REQ_FIRST" /\ Send(Msg("SENSOR", "INFO", "OTHER"))
  /\ UNCHANGED <<options, mvars, step, work, line_mbx, env, stacker, fvars, lvars>>

\* MODE1_ACCEPT feeds the next note into the acceptor.
NextNoteEnters ==
  /\ mode = "ACCEPT" /\ ~behind /\ behind' = TRUE
  /\ UNCHANGED <<options, mvars, step, main_mbx, work, line_mbx, note, home, stacker,
                 fvars, lvars>>

Feed == FeedLeaves \/ FeedArrives \/ FeedEnds \/ FeedResumes

Next ==
  \/ main \/ (\E d \in Devices \ {"STACKER"} : DeviceAnswers(d)) \/ Feed \/ FeedPauses \/ Stacker
  \/ LineReads \/ HostPolls \/ HostAcks \/ HostResets \/ Faults \/ NextNoteEnters

\* Every request is answered: the devices have a timeout in every sequence.
\* The host polls and acknowledges.
Fairness ==
  /\ WF_vars(main) /\ WF_vars(Feed) /\ WF_vars(Stacker)
  /\ \A d \in Devices \ {"STACKER"} : WF_vars(DeviceAnswers(d))
  /\ WF_vars(LineReads) /\ WF_vars(HostPolls) /\ WF_vars(HostAcks)

Safety == Init /\ [][Next]_vars

Spec == Safety /\ Fairness

-----------------------------------------------------------------------------
(* Power up: id003_main_power_init with power_recover_003.                  *)

PowerUp ==
  IF behind \/ note = "escrow" THEN {"REJECT"}
  ELSE IF note = "exit" THEN {IF step = "NON" THEN "FEED_STACK" ELSE "RECOVER_FEED_STACK"}
  ELSE IF Stroked(step, home) THEN {"RECOVER_STACK"}
  ELSE IF step = "NON" THEN {"NORMAL"}
  ELSE IF note = "chamber" THEN {"RECOVER_FEED_STACK", "REJECT"}
  ELSE {"LOST_BILL"}

-----------------------------------------------------------------------------
(* Properties.                                                              *)

\* Type invariant: modes, jobs, requests and messages stay in their ranges, and
\* the counters of the stacker's retries in their limits.
TypeOK ==
  /\ way \in Ways /\ icb \in Icb
  /\ mode \in StackModes \cup {"INIT", "ALARM", "ACCEPT", "IDLE", "REJECT"}
  /\ job.busy \subseteq Devices /\ job.alarm \subseteq Devices
  /\ job.reject \subseteq {"STACKER"}
  /\ {reset, pause, behind, home, paused, acked} \subseteq BOOLEAN
  /\ second \in {0, 1} /\ step \in Steps
  /\ Len(main_mbx) <= MailBlocks
  /\ \A d \in Devices : work[d] \in Asked[d] \cup {"none"}
  /\ note \in {"escrow", "exit", "chamber", "past", "box"}
  /\ stacker.seq \in {"new", "leaving", "pushing", "top", "back", "returning",
                      "pulling", "again"}
  /\ stacker.homes <= HomeRetries /\ stacker.tries <= PushRetries + 1
  /\ stacker.cause \in Alarms
  /\ pauses <= MaxPauses
  /\ line.mode \in Stacks \cup Credited \cup {"done", "reject", "error", "initial"}

\* A note whose stroke was recorded as done is credited exactly once across a
\* power failure: before the host acknowledged the credit, power up resumes
\* the stacking, afterwards it does not.  (mode_stack_uba.c, stacker_task_
\* uba.c and id003.c all write ex_recovery_info.step, which decides.)  An
\* alarm, a reject or a reset of the host gives the credit up.
Recoverable ==
  /\ note = "box" /\ ~acked /\ ~behind /\ ~LineIn({"error", "reject", "initial"})
       => PowerUp = {"RECOVER_STACK"}
  /\ acked => step = "NON"

\* Main, the feed, the stacker and the line task write one step without a lock:
\* at every moment the power may fail it fits the place of the note, so that
\* the power up starts from one of the states of Left.  After a reset or an
\* alarm cleared it, main and the devices may still write it.
\* (mode_stack_uba.c:1957, feed_task_uba.c:2784)
LeavesRecovery == ~behind => step \in Left[note]

\* MODE1_ACCEPT takes the next note in only after every device of this one has
\* answered without an alarm, with at most the stacker still on its way home,
\* and, when it is home, with the credit told to the line task.
HandsOver ==
  mode = "ACCEPT" =>
    /\ second = 1 /\ ~reset /\ job.alarm = {} /\ job.reject = {}
    /\ note = "box"
    /\ job.busy = {"STACKER"} \/ (job.busy = {} /\ (step = "VEND" \/ acked
                                    \/ LineIn({"error", "initial"})))

\* A reset of the host that waits for a device is honoured: the main task does
\* not leave MODE1_STACK with the flag still set, and it drops the flag only
\* to initialise.  Two places of the code do otherwise: feed_stack drops it,
\* see StackReset, and two handlers let the alarm of a sensor go first.
ResetForgotten ==
  \/ mode = "FEED_STACK" /\ is("FEED_APB", "SUCCESS")
  \/ mode \in {"WAIT_REQ_FIRST", "WAIT_REJECT_SHUTTER_OPEN"} /\ m.code \in {"STATUS", "SENSOR"}

ResetEndsNote ==
  [][reset /\ (~reset' \/ mode' \notin StackModes) /\ ~ResetForgotten
     => ~reset' /\ mode' \in {"INIT", "ALARM"} /\ job' = NoJob]_<<mode, reset, job>>

\* finish_stacker_pb_icb: the plate is pulled out of the box only when the note
\* is in it, no reset waits and no device failed or still works, so that APB,
\* shutter and ICB are at rest behind the note.
PulledClean ==
  [][mode # "STACK_HOME" /\ mode' = "STACK_HOME" =>
       /\ note \in {"past", "box"} /\ ~reset /\ job.alarm = {}
       /\ \A d \in Devices \ {"STACKER"} : work[d] = "none"]_<<mode, note, reset, job, work>>

\* The credit as NoteCredit sees it.
boxed == note \in {"past", "box"}

tells(sub, arg) ==
  \E i \in 1 .. Len(line_mbx) :
    line_mbx[i].code = "STACK" /\ line_mbx[i].sub = sub /\ line_mbx[i].arg = arg

credit ==
  IF acked THEN "given"
  ELSE IF LineIn({"initial", "error", "reject"}) THEN "void"
  ELSE IF LineIn({"wait_ack", "wait_ack_full"}) THEN "offered"
  ELSE IF LineIn({"vend", "vend_full"}) \/ tells("VEND", "OTHER") \/ tells("ALARM", "FULL")
       THEN "owed" ELSE "none"

Bank == INSTANCE NoteCredit

\* The stacking implements NoteCredit: VEND, or the STACKER_FULL that stands
\* for it, is told only of a note that is in the box, and once.
Implements == Bank!Spec

\* Every stacking comes to an end: no device, retry or message is waited for in
\* vain.  Only a reset that feed_stack lost, see StackReset, leaves the main
\* task waiting for a line task that does not know of the note any more.
Forgotten == mode \in {"WAIT_REQ", "WAIT_REQ_FIRST"} /\ LineIn({"initial", "error"})

Finishes == Stacking ~> (~Stacking \/ Forgotten)

\* id003.c, _id003_reset_cmd_proc: the line task waits in INITIAL for a main
\* task that comes out of MODE1_STACK.
StackReset == LineIn({"initial"}) ~> ~Stacking

\* status_tbl.h: with RECOVERY_STEP_STACKING_BILL_IN_BOX the note is in the
\* box.  Every note that is there recovers after a power failure.
StackLock ==
  boxed /\ ~acked /\ ~behind /\ ~LineIn({"error", "reject", "initial"})
    => PowerUp = {"RECOVER_STACK"}

\* common.h, POWERUP_STAT_RECOVER_STACK: the stroke was begun, so the note is
\* credited by the recovery, whatever lies behind it.
StackSecond ==
  note = "box" /\ ~acked /\ ~LineIn({"error", "reject", "initial"})
    => PowerUp = {"RECOVER_STACK"}

=============================================================================
