------------------------------- MODULE Standby -------------------------------
(***************************************************************************)
(* The validator between two notes: the main task of StandbyMain with its  *)
(* devices and timers, the ID003 line task, the host that polls, inhibits  *)
(* and resets, and the hands that put paper in and take the box out.  It   *)
(* starts after an initialisation or where a note is to be returned, and   *)
(* ends where main takes a note (MODE1_ACCEPT) or initialises (MODE1_INIT).*)
(***************************************************************************)
EXTENDS StandbyMain

CONSTANTS Options,     \* whether a note is pushed out where none is accepted
          Lost,        \* sets of moves that the positions may call for at first
          MaxEvents    \* bound: papers, boxes taken out, adjustments, faults, retries,
                       \*   commands of the host

ASSUME OptionsAssumption == Options \subseteq BOOLEAN

ASSUME LostAssumption == Lost \subseteq SUBSET Homing

ASSUME BoundAssumption == MaxEvents \in Nat

VARIABLES
  line,      \* line_task_mode
  inhibit,   \* the host accepts no note: ~_is_id003_enable()
  events

mains == <<mode1, mode2, back, Jobs, enabling>>
vars  == <<mains, main_mbx, work, line_mbx, option, paper, box, off, line, inhibit, events>>

LineModes == {"DISABLE", "ENABLE", "ENABLE_WAIT_POLL", "ACCEPT", "REJECT_WAIT_ACCEPT_RSP",
              "ENABLE_REJECT", "DISABLE_REJECT", "REJECT", "REJECT_WAIT_POLL",
              "REJECT_WAIT_NOTE_REMOVED", "ERROR", "INITIAL", "AUTO_RECOVERY"}

\* After an initialisation; a stale ex_recive_enable_cmd_003 survives it.
Disabled ==
  /\ mode1 = "DISABLE" /\ mode2 = "WAIT_REQ" /\ line = "DISABLE" /\ inhibit = TRUE
  /\ main_mbx = <<Msg("SENSOR", "SUCCESS")>> /\ work = {"TEMP_ADJ"}
  /\ paper = "NON" /\ backup = "NON" /\ enabling \in {FALSE, option}

\* MODE1_ACCEPT gives a note up; the box may have been out meanwhile.
Returning ==
  /\ mode1 = "REJECT" /\ mode2 = "SENSOR_ACTIVE" /\ line = "REJECT" /\ inhibit = FALSE
  /\ main_mbx = <<Msg("SENSOR_ACTIVE", "SUCCESS")>> /\ work = {}
  /\ paper = "ACCEPTOR" /\ backup \in {"NON", "BOX"} /\ enabling = FALSE

Init ==
  /\ option \in Options /\ off \in Lost /\ box = TRUE
  /\ Disabled \/ Returning
  /\ back = "FAIL" /\ reset = FALSE /\ job = "NON"
  /\ line_mbx = << >> /\ events = 0

main == main_task /\ UNCHANGED <<paper, box, off, line, inhibit, events>>

\* An event that TLC bounds.
Event == events < MaxEvents /\ events' = events + 1

\* Mutant: nobody waits for a block.
SendAnyhow(c, s) == main_mbx' = Append(main_mbx, Msg(c, s))

Send(c, s) == Len(main_mbx) < MailBlocks /\ main_mbx' = Append(main_mbx, Msg(c, s))

-----------------------------------------------------------------------------
(* The devices and the timers.                                              *)

Device == Running /\ UNCHANGED <<mains, line_mbx, option, box, line, inhibit>>

\* The task that works on r answers.
Answer(r, sub) == r \in work /\ work' = work \ {r} /\ Send(r, sub)

Placed == Device /\ UNCHANGED <<paper, events>>

Reaches ==
  /\ Placed
  /\ \E r \in Homing :
       /\ r = "STACKER_HALF" => box
       /\ Answer(r, "SUCCESS") /\ off' = off \ {r}

\* The stacker looks for the box when it does not move.
Fails ==
  /\ Placed /\ UNCHANGED off
  /\ \/ \E r \in Moves \ {"ADJUST"} : Answer(r, "ALARM")
     \/ ~box /\ \E r \in {"STACKER_HALF", "FORCE_REV", "FEED_REJECT"} : Answer(r, "BOX")

Adjusts == Placed /\ UNCHANGED off /\ Answer("ADJUST", "SUCCESS")

\* The centering opens and closes around the note, and may stay off its home.
Centers ==
  /\ Placed /\ off' \in {off \cup {"CENTERING_HOME"}, off \ {"CENTERING_HOME"}}
  /\ \E r \in {"CENTERING_EXEC", "OUT_RETRY"} : Answer(r, "SUCCESS")

Feeds == Device /\ UNCHANGED off

PushesOut ==
  /\ Feeds /\ UNCHANGED events /\ box /\ paper \notin {"ACCEPTOR", "STACKER"}
  /\ Answer("FORCE_REV", "SUCCESS")
  /\ paper' \in IF paper = "ENTRANCE" THEN {"ENTRANCE", "NON"} ELSE {paper}

\* The note that is given back sticks out, until somebody takes it.
GivesBack ==
  /\ Feeds /\ UNCHANGED events /\ box
  /\ Answer("FEED_REJECT", "SUCCESS") /\ paper' \in {"CENTERING", "ENTRANCE", "NON"}

Hampered ==
  /\ Feeds /\ UNCHANGED paper /\ Event
  /\ \E sub \in {"RETRY", "INTERIM"} : Answer("FEED_REJECT", sub)

\* The device waits for its motor to stop: what it is asked then is lost, and
\* main is told of the alarm only.
Stalls ==
  /\ Device /\ UNCHANGED <<paper, off>> /\ Event
  /\ \E r \in work \cap (Homing \cup {"CENTERING_EXEC", "OUT_RETRY"}) :
       work' = work \ {r} /\ Send("STATUS", "ALARM")

Elapse(t) == t \in work /\ work' = work \ {t} /\ Send("TIMER", t)

Elapses ==
  Placed /\ UNCHANGED off /\ \E t \in Timers \ {"TEMP_ADJ"} : Elapse(t)

\* The temperature has changed since the sensors were adjusted.
AdjustmentDue == Device /\ UNCHANGED <<paper, off>> /\ Event /\ Elapse("TEMP_ADJ")

-----------------------------------------------------------------------------
(* The ID003 line task.  The WAIT command of the host is left out.          *)

told == Head(line_mbx)

Goes(next) == line' = next /\ UNCHANGED main_mbx

Asks(next, req) == line' = next /\ Send(req, "none")

Ignores == UNCHANGED <<line, main_mbx>>

InLine(modes) == line \in modes

\* The next mode where the work goes on, as the host accepts notes or not.
Resumes == IF inhibit THEN Asks("DISABLE", "DISABLE") ELSE Asks("ENABLE", "ENABLE")

\* Mutant: main is not told that no more notes are accepted.
ResumesSilently == IF inhibit THEN Goes("DISABLE") ELSE Goes("ENABLE_WAIT_POLL")

\* The same, but a poll of the host comes before ENABLE_REQ.
ResumesPolled == IF inhibit THEN Asks("DISABLE", "DISABLE") ELSE Goes("ENABLE_WAIT_POLL")

enable_rsp ==
  \/ line = "ENABLE" /\ told.sub = "ACCEPT" /\ Asks("ACCEPT", "ACCEPT")
  \/ line = "ENABLE" /\ told.sub = "REJECT" /\ Asks("ENABLE_REJECT", "REJECT")
  \/ line = "ENABLE" /\ told.sub = "ALARM" /\ Goes("ERROR")
  \/ line # "ENABLE" /\ Ignores

disable_rsp ==
  \/ line = "DISABLE" /\ told.sub = "REJECT" /\ Asks("DISABLE_REJECT", "REJECT")
  \/ line = "DISABLE" /\ told.sub = "ALARM" /\ Goes("ERROR")
  \/ line # "DISABLE" /\ Ignores

accept_rsp ==
  \/ InLine({"ACCEPT", "REJECT_WAIT_ACCEPT_RSP"}) /\ Goes("ERROR")
  \/ ~InLine({"ACCEPT", "REJECT_WAIT_ACCEPT_RSP"}) /\ Ignores

Returns == {"REJECT", "REJECT_WAIT_NOTE_REMOVED", "ENABLE_REJECT", "DISABLE_REJECT"}

reject_rsp ==
  \/ InLine(Returns) /\ told.sub = "REJECT" /\ Asks(line, "REJECT")
  \/ InLine(Returns \cup {"ENABLE", "ENABLE_WAIT_POLL"}) /\ told.sub = "ALARM" /\ Goes("ERROR")
  \/ told.sub = "SUCCESS" /\ line = "REJECT" /\ Goes("REJECT_WAIT_POLL")
  \/ told.sub = "SUCCESS" /\ line = "REJECT_WAIT_NOTE_REMOVED" /\ ResumesPolled
  \/ told.sub = "SUCCESS" /\ InLine({"ENABLE_REJECT", "DISABLE_REJECT"}) /\ Resumes
  \/ /\ ~InLine(Returns) /\ (told.sub = "ALARM" => ~InLine({"ENABLE", "ENABLE_WAIT_POLL"}))
     /\ Ignores

\* Mutant: an alarm during the initialisation that the host asked for is lost.
reset_rsp_recovery ==
  \/ InLine({"AUTO_RECOVERY"}) /\ Goes("ERROR")
  \/ ~InLine({"AUTO_RECOVERY"}) /\ Ignores

reset_rsp ==
  \/ InLine({"INITIAL", "AUTO_RECOVERY"}) /\ Goes("ERROR")
  \/ ~InLine({"INITIAL", "AUTO_RECOVERY"}) /\ Ignores

\* The end of an alarm is waited for where the line task knows of none.
status_info ==
  \/ /\ line = "ERROR" /\ told.sub = "SUCCESS" /\ inhibit' = TRUE
     /\ Asks("AUTO_RECOVERY", "RESET")
  \/ line = "ERROR" /\ told.sub = "ALARM" /\ Ignores /\ UNCHANGED inhibit
  \/ line # "ERROR" /\ told.sub = "ALARM" /\ Goes("ERROR") /\ UNCHANGED inhibit
  \/ line # "ERROR" /\ told.sub = "SUCCESS" /\ Asks(line, "SET_STATUS") /\ UNCHANGED inhibit

LineReads ==
  /\ line_mbx # << >> /\ line_mbx' = Tail(line_mbx)
  /\ \/ told.code = "ENABLE" /\ enable_rsp /\ UNCHANGED inhibit
     \/ told.code = "DISABLE" /\ disable_rsp /\ UNCHANGED inhibit
     \/ told.code = "ACCEPT" /\ accept_rsp /\ UNCHANGED inhibit
     \/ told.code = "REJECT" /\ reject_rsp /\ UNCHANGED inhibit
     \/ told.code = "RESET" /\ reset_rsp /\ UNCHANGED inhibit
     \/ told.code = "STATUS" /\ status_info
  /\ UNCHANGED <<mains, work, option, paper, box, off, events>>

Host == Running /\ line_mbx = << >> /\ UNCHANGED <<mains, work, line_mbx, option, paper, box, off>>

Waits(req) == \E i \in DOMAIN main_mbx : main_mbx[i].code = req

\* _id003_stsreq_enable: every poll asks once more.
PollsEnable ==
  /\ Host /\ line = "ENABLE" /\ ~Waits("ENABLE") /\ Asks(line, "ENABLE")
  /\ UNCHANGED <<inhibit, events>>

\* Mutant: a poll asks for the reject once more.
PollsTwice ==
  /\ Host /\ UNCHANGED <<inhibit, events>>
  /\ \/ line = "ENABLE_WAIT_POLL" /\ Resumes
     \/ line = "REJECT" /\ Asks("REJECT_WAIT_NOTE_REMOVED", "REJECT")
     \/ line = "REJECT_WAIT_POLL" /\ ResumesPolled

Polls ==
  /\ Host /\ UNCHANGED <<inhibit, events>>
  /\ \/ line = "ENABLE_WAIT_POLL" /\ Resumes
     \/ line = "REJECT" /\ Goes("REJECT_WAIT_NOTE_REMOVED")
     \/ line = "REJECT_WAIT_POLL" /\ ResumesPolled

\* Mutant: a note that is taken already is accepted all the same.
InhibitsLate ==
  /\ Host /\ Event /\ inhibit = FALSE /\ inhibit' = TRUE
  /\ IF InLine({"ENABLE", "ENABLE_WAIT_POLL"}) THEN Asks("DISABLE", "DISABLE") ELSE Ignores

\* _id003_inhibit_cmd_proc: a note that is taken already is returned later.
Inhibits ==
  /\ Host /\ Event /\ inhibit = FALSE /\ inhibit' = TRUE
  /\ \/ InLine({"ENABLE", "ENABLE_WAIT_POLL"}) /\ Asks("DISABLE", "DISABLE")
     \/ line = "ACCEPT" /\ Goes("REJECT_WAIT_ACCEPT_RSP")
     \/ ~InLine({"ENABLE", "ENABLE_WAIT_POLL", "ACCEPT"}) /\ Ignores

Permits ==
  /\ Host /\ Event /\ inhibit = TRUE /\ inhibit' = FALSE
  /\ IF line = "DISABLE" THEN Asks("ENABLE", "ENABLE") ELSE Ignores

\* _id003_reset_cmd_proc: INITIAL only acknowledges the command.
Resets ==
  /\ Host /\ Event /\ inhibit' = TRUE
  /\ IF line = "INITIAL" THEN Ignores ELSE Asks("INITIAL", "RESET")

-----------------------------------------------------------------------------
(* The hands at the entrance and at the box.  The sensor task reports what  *)
(* changes, but not while it adjusts its sensors.                           *)

Seen ==
  /\ Running /\ UNCHANGED <<mains, work, line_mbx, option, off, line, inhibit>>
  /\ IF "ADJUST" \in work THEN UNCHANGED main_mbx ELSE Send("SENSOR", "SUCCESS")

\* Paper is put in, pushed on, or pulled back; a note comes back from the plate.
PaperMoves ==
  /\ Seen /\ Event /\ UNCHANGED box
  /\ \E to \in {"ENTRANCE", "ACCEPTOR", "STACKER"} : paper # to /\ paper' = to

PaperTaken ==
  Seen /\ paper # "NON" /\ paper' = "NON" /\ UNCHANGED <<box, events>>

BoxOut == Seen /\ Event /\ box /\ box' = FALSE /\ UNCHANGED paper

BoxBack == Seen /\ ~box /\ box' = TRUE /\ UNCHANGED <<paper, events>>

-----------------------------------------------------------------------------

Next ==
  \/ main
  \/ Reaches \/ Fails \/ Adjusts \/ Centers \/ PushesOut \/ GivesBack \/ Hampered \/ Stalls
  \/ Elapses \/ AdjustmentDue
  \/ LineReads \/ PollsEnable \/ Polls \/ Inhibits \/ Permits \/ Resets
  \/ PaperMoves \/ PaperTaken \/ BoxOut \/ BoxBack

Moved == Reaches \/ Fails \/ Adjusts \/ Centers \/ PushesOut \/ GivesBack

\* Every device answers, in a timeout at the latest, the host goes on polling,
\* and hands take the paper and put the box back, whenever the pool has a block
\* for the report (there are 16, and few here).
Fairness ==
  /\ WF_vars(main) /\ WF_vars(LineReads) /\ WF_vars(Moved) /\ WF_vars(Elapses)
  /\ WF_vars(PollsEnable) /\ WF_vars(Polls) /\ SF_vars(PaperTaken) /\ SF_vars(BoxBack)

Safety == Init /\ [][Next]_vars

Spec == Safety /\ Fairness

-----------------------------------------------------------------------------
(* Properties.                                                              *)

ActiveModes == {"WAIT_REQ", "WAIT_REJECT_REQ", "FORCE_REV"} \cup Homing

Modes2 ==
  [ENABLE |-> {"WAIT_BILL_IN", "WAIT_REQ", "WAIT_REJECT_REQ"},
   DISABLE |-> {"WAIT_REQ", "WAIT_REJECT_REQ"},
   ACTIVE_ENABLE |-> ActiveModes, ACTIVE_DISABLE |-> ActiveModes,
   ADJUST |-> {"ENABLE", "DISABLE"}, REJECT |-> Rejects, REJECT_STANDBY |-> Standbys,
   ALARM |-> Alarms, INIT |-> {"SENSOR_ACTIVE"}, ACCEPT |-> {"SENSOR_ACTIVE"}]

\* Type invariant: every mode is one that its level-1 mode has a handler for.
TypeOK ==
  /\ mode1 \in DOMAIN Modes2 /\ mode2 \in Modes2[mode1] /\ back \in Alarms
  /\ {reset, enabling, option, box, inhibit} \subseteq BOOLEAN
  /\ {job, backup} \subseteq {"NON", "BOX"}
  /\ Len(main_mbx) <= MailBlocks /\ work \subseteq Moves \cup Timers
  /\ paper \in {"NON", "ENTRANCE", "CENTERING", "ACCEPTOR", "STACKER"}
  /\ off \subseteq Homing /\ line \in LineModes /\ events <= MaxEvents

\* REJECT_REQ, which the handlers of a moving device keep in a flag that only an
\* initialisation clears, comes only where main waits for it: the line task
\* asks once for each answer.  (mode_active_enable.c:539 and the others)
RejectAwaited ==
  main_mbx # << >> /\ m.code = "REJECT" =>
    mode2 = "WAIT_REJECT_REQ" \/ mode1 \in {"ALARM", "INIT"}

\* A note is taken with the leave of the host: main accepts only while the line
\* task knows of it, which returns the note when the host has changed its mind
\* meanwhile.  (id003.c:14902-14918 against 11292-11405)
TakenWithLeave ==
  /\ mode1 = "ACCEPT" => InLine({"ACCEPT", "REJECT_WAIT_ACCEPT_RSP", "INITIAL"})
  /\ inhibit => ~InLine({"ACCEPT", "ENABLE", "ENABLE_WAIT_POLL"})

\* One motor at a time, through resets, retries, lost answers and alarms.  The
\* feed that is told to stop (mode_active_disable.c:1037) is not among them: it
\* may have stopped already, and starts once more.
OneMoves == \A r, q \in work \cap (Moves \ {"FORCE_REV"}) : r = q

\* Nothing is on its way, and no device moves.
Quiescent == main_mbx = << >> /\ line_mbx = << >> /\ work \subseteq {"TEMP_ADJ"} /\ Running

\* Where the validator waits for a note, the box is there, every part is at its
\* place and nothing lies in the acceptor: what was missed while a device moved
\* or the sensors were adjusted is seen at the end.  (_main_set_enable asks the
\* sensors once more)
Ready ==
  Quiescent =>
    /\ In("ENABLE", "WAIT_BILL_IN") => box /\ off = {} /\ paper = "NON"
    /\ In("DISABLE", "WAIT_REQ") =>
         /\ box /\ off \subseteq {"STACKER_HALF"}
         /\ (paper = "NON" /\ off = {}) \/ (paper = "ENTRANCE" /\ ~option)

Agrees ==
  \/ line = "ENABLE" /\ In("ENABLE", "WAIT_BILL_IN")
  \/ line = "DISABLE" /\ In("DISABLE", "WAIT_REQ")
  \/ InLine(Returns) /\ In("REJECT_STANDBY", "NOTE_STAY")
  \/ InLine({"REJECT_WAIT_POLL", "ENABLE_WAIT_POLL"}) /\ In("REJECT", "WAIT_REQ")
  \/ line = "ERROR" /\ mode1 = "ALARM"

\* The line task was told of a note after its host had changed its mind.
Crossed ==
  /\ InLine({"ENABLE", "DISABLE"}) /\ mode2 \in {"WAIT_REQ", "WAIT_REJECT_REQ"}
  /\ mode1 \in {"ENABLE", "ACTIVE_ENABLE"}
       \/ (mode1 \in {"DISABLE", "ACTIVE_DISABLE"} /\ line = "DISABLE")

\* It asked main to take the note, but the commands that crossed are read first:
\* main waits for a note again, and ignores ACCEPT_REQ.
Overtaken ==
  InLine({"ACCEPT", "REJECT_WAIT_ACCEPT_RSP"}) /\ mode1 \in {"ENABLE", "ACTIVE_ENABLE"}

\* It was told of an alarm as the answer to a request that it has gone on from.
Unheard == mode1 = "ALARM" /\ line_mbx = << >> /\ ~InLine({"ERROR", "AUTO_RECOVERY"})

\* The alarm of the box is left for the mode that is set afterwards.
Overwritten == line = "ERROR" /\ mode1 \in {"ENABLE", "DISABLE"} /\ mode2 = "WAIT_REJECT_REQ"

\* A command of before the last reset ends the reverse feed.
Stale == line = "DISABLE" /\ In("ENABLE", "WAIT_BILL_IN")

\* The note was back for a moment when the timer was up.
Lapsed == In("REJECT_STANDBY", "CONFIRM_NOTE_STAY")

\* The pusher is down, and the reset that was flagged waits for a hand.
Forgotten == line = "INITIAL" /\ reset /\ mode1 \in {"REJECT_STANDBY", "ALARM"}

\* When all is at rest, main and the line task are in modes that fit together,
\* but for the dead ends that are named: messages of the two that cross each
\* other, and are ignored, leave no other.
Agree == Quiescent => Agrees \/ Crossed \/ Overtaken \/ Unheard \/ Overwritten \/ Stale \/ Lapsed \/ Forgotten

\* A reset that was flagged while a device moved is looked at when it has
\* answered: the mode is left to start over, or to an alarm.  The command may
\* change meanwhile, and a closed pusher does not look.  (mode_reject_uba.c:526)
ResetGoesFirst ==
  [][reset /\ <<mode1, mode2>>' # <<mode1, mode2>> =>
       \/ mode1' \in {"INIT", "ALARM"}
       \/ mode2' = mode2 \/ mode1' = "ADJUST"
       \/ mode2 = AfterReject \/ mode1 = "REJECT_STANDBY"]_vars

\* Every exchange of main, devices and line task comes to rest, or goes on to
\* an initialisation or a note; an alarm that the line task never heard of is
\* the one that they tell each other about for ever.
Settles == []<>(Quiescent \/ ~Running \/ Unheard)

\* A box that was out and is back ends its alarm without the host: main tells
\* the line task, which asks for an initialisation.  An alarm that the line task
\* has not heard of does not, nor the one of an initialisation that found no box
\* when the box is back before it is looked at: no timer runs then.
\* (mode_alarm_uba.c:1025, operation_sub.c:125)
BoxRecovers ==
  mode1 = "ALARM" /\ mode2 = "BOX" ~>
    \/ ~Running \/ Unheard \/ (mode1 = "ALARM" /\ mode2 \in {"FAIL", "ACCEPTOR_JAM"})
    \/ In("ALARM", "CONFIRM_BOX") /\ back = "CONFIRM_BOX" /\ "RECOVER" \notin work

\* A reset of the host leads to an initialisation or to an error, which it can
\* reset once more, but for the one that was forgotten: the line task does not
\* ask again, because main is initialising.  (id003.c:4028)
ResetEnds == line = "INITIAL" ~> ~Running \/ line = "ERROR" \/ Forgotten

=============================================================================
