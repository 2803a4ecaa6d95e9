------------------------------- MODULE PowerUp -------------------------------
(***************************************************************************)
(* The recovery after a power failure: the main task of PowerUpMain with   *)
(* its devices, the ID003 line task, which decides whether the note that   *)
(* was being stacked is credited, the host, the box, and the hands that    *)
(* put paper in.  It starts with what StackMode leaves behind, the power   *)
(* may fail again in any state, and it ends where the validator is enabled *)
(* or disabled, or goes on to MODE1_REJECT.                                *)
(***************************************************************************)
EXTENDS PowerUpMain

CONSTANTS Vends,        \* whether the host may use ID003_OPTION_RECOVERY
          MaxEvents     \* bound: further power failures, changes of the box, faults of
                        \*   the sensors, pauses of the feed, resets out of turn, papers

ASSUME VendsAssumption == Vends \subseteq BOOLEAN

ASSUME BoundAssumption == MaxEvents \in Nat

VARIABLES
  vends,     \* the host sets ID003_OPTION_RECOVERY after every reset
  line,      \* line_task_mode with s_id003_powerup_stat, ex_error_003_gli and
             \*   whether error_code is STACKER_FULL
  acked,     \* the host acknowledged VEND_VALID
  counted,   \* how often the ICB counted the note
  disturbed, \* paper was put in
  events

options == <<icb, vends>>
mvars   == <<mode, reset, pause, tries>>
world   == <<note, paper, box, off, home>>
vars == <<options, mvars, step, main_mbx, work, line_mbx, world, line, acked, counted,
          disturbed, events>>

\* The modes of the line task; those of an initialisation are one for the
\* POWERUP_INITIAL, the INITIAL and the AUTO_RECOVERY it belongs to, the kind.
Starting     == {"boot", "search"}
PowerUps     == {"powerup", "perror"}
Initialising == {"initial", "stack", "pause", "reject"}
Crediting    == {"vend", "vend_ack"}

NewLine == [mode |-> "boot", kind |-> "powerup", stat |-> "OTHER", gli |-> FALSE, full |-> FALSE]

Init ==
  /\ icb \in Icb /\ vends \in Vends
  /\ \E n \in DOMAIN Left : note = n /\ step \in Left[n]
  /\ home \in BOOLEAN /\ off \in {{}, Positions}
  /\ counted = IF icb /\ step \in {"ICB_ACCEPT", "VEND"} THEN 1 ELSE 0
  /\ paper = FALSE /\ box = TRUE /\ acked = FALSE
  /\ mode = "SENSOR_INIT" /\ reset = FALSE /\ pause = FALSE /\ tries = 0
  /\ main_mbx = <<Msg("SENSOR_INIT", "SUCCESS", "OTHER")>>
  /\ work = {} /\ line_mbx = << >> /\ line = NewLine
  /\ disturbed = FALSE /\ events = 0

main ==
  main_task /\ UNCHANGED <<options, paper, box, off, home, line, acked, counted, disturbed, events>>

\* An event that TLC bounds.
Event == events < MaxEvents /\ events' = events + 1

-----------------------------------------------------------------------------
(* The devices.                                                             *)

Send(c, s, a) == Len(main_mbx) < MailBlocks /\ main_mbx' = Append(main_mbx, Msg(c, s, a))

\* The task that works on r sends its last answer.
Answer(r, sub, arg) == r \in work /\ work' = work \ {r} /\ Send(r, sub, arg)

devices == <<options, mvars, step, line_mbx, box, line, acked, disturbed>>

Device == Running /\ UNCHANGED devices

Simple == {"CIS", "SHUTTER_INITIAL", "CENTERING_EXEC", "APB_INITIAL", "APB_CLOSE", "ICB_INITIAL"}

\* Sensors and timer always succeed.
SimpleAnswers ==
  /\ Device /\ UNCHANGED <<note, paper, off, home, counted, events>>
  /\ \/ \E r \in {"SENSOR", "SENSOR_ACTIVE", "TIMER"} : Answer(r, "SUCCESS", "OTHER")
     \/ \E r \in Simple, sub \in {"SUCCESS", "ALARM"} : Answer(r, sub, "OTHER")

PositionAnswers ==
  /\ Device /\ UNCHANGED <<note, paper, home, counted, events>>
  /\ \E r \in Positions :
       \/ Answer(r, "SUCCESS", "OTHER") /\ off' = off \ {r}
       \/ Answer(r, "ALARM", "OTHER") /\ UNCHANGED off

\* The ICB counts the note, and may fail to say so.
IcbAnswers ==
  /\ Device /\ UNCHANGED <<note, paper, off, home, events>>
  /\ \/ Answer("ICB_ACCEPT", "SUCCESS", "OTHER") /\ counted' = counted + 1
     \/ Answer("ICB_ACCEPT", "ALARM", "OTHER") /\ counted' \in {counted, counted + 1}

Stacker == Device /\ UNCHANGED <<paper, off, counted, events>>

\* The plate leaves its home and pushes what lies before it into the box.
StackerPushes ==
  /\ Stacker /\ work \cap {"STACKER_EXEC", "STACKER_EXEC_RE"} # {}
  /\ home' = FALSE
  /\ note' \in IF note = "chamber" THEN {"chamber", "past"} ELSE {note}
  /\ UNCHANGED <<main_mbx, work>>

Pushed == ~home /\ note # "chamber"

StackerAnswers ==
  /\ Stacker /\ UNCHANGED note
  /\ \/ Answer("STACKER_EXEC", "SUCCESS", "OTHER") /\ Pushed /\ UNCHANGED home
     \/ Answer("STACKER_EXEC", "REJECT", "OTHER") /\ UNCHANGED home
     \/ Answer("STACKER_EXEC_RE", "SUCCESS", "OTHER") /\ Pushed /\ home' = TRUE
     \/ Answer("STACKER_EXEC_RE", "ALARM", "FULL") /\ Pushed /\ UNCHANGED home
     \/ \E r \in {"STACKER_HOME", "STACKER_PULL", "STACKER_NG_PULL"} :
          Answer(r, "SUCCESS", "OTHER") /\ home' = TRUE
     \/ \E r \in Requests :
          r \in Strokes \cup {"STACKER_HOME"} /\ Answer(r, "ALARM", "OTHER") /\ UNCHANGED home

Feeds == Device /\ UNCHANGED <<off, home, counted>>

\* The search moves a note that no sensor sees, and may bring it to one.
FeedSearches ==
  /\ Feeds /\ Answer("FEED_SEARCH", "SUCCESS", "OTHER") /\ UNCHANGED <<paper, events>>
  /\ note' \in IF note = "chamber" THEN {"chamber", "exit", "escrow"} ELSE {note}

FeedClears ==
  /\ Feeds /\ UNCHANGED <<note, paper, events>>
  /\ \/ Answer("FEED_INITIAL", IF paper THEN "REJECT" ELSE "SUCCESS", "OTHER")
     \/ Answer("FEED_INITIAL", "ALARM", "OTHER")

FeedForces ==
  /\ Feeds /\ UNCHANGED <<paper, events>>
  /\ \/ /\ note \in {"exit", "chamber"} /\ Answer("FEED_FORCE", "SUCCESS", "OTHER")
        /\ note' = "chamber"
     \/ Answer("FEED_FORCE", "ALARM", "OTHER") /\ UNCHANGED note

\* Something follows the note, until it is taken away.
FeedPauses ==
  /\ Feeds /\ "FEED_FORCE" \in work /\ Event
  /\ work' = (work \ {"FEED_FORCE"}) \cup {"FEED_PAUSED"} /\ Send("FEED_FORCE", "PAUSE", "OTHER")
  /\ UNCHANGED <<note, paper>>

FeedResumes ==
  /\ Feeds /\ "FEED_PAUSED" \in work
  /\ work' = (work \ {"FEED_PAUSED"}) \cup {"FEED_FORCE"} /\ Send("FEED_FORCE", "RESUME", "OTHER")
  /\ UNCHANGED <<note, paper, events>>

\* Everything the feed reaches goes back to the entrance, where paper is taken
\* at once; the centering may have to make way.
FeedRejects ==
  /\ Feeds
  /\ \/ /\ Answer("FEED_REJECT", "SUCCESS", "OTHER") /\ paper' = FALSE
        /\ note' = (IF note \in {"escrow", "exit"} THEN "mouth" ELSE note)
        /\ UNCHANGED events
     \/ /\ Answer("FEED_REJECT", "INTERIM", "OTHER")
        /\ Event /\ UNCHANGED <<note, paper>>
     \/ Answer("FEED_REJECT", "ALARM", "OTHER") /\ UNCHANGED <<note, paper, events>>

Feed == FeedSearches \/ FeedClears \/ FeedForces \/ FeedResumes \/ FeedRejects

-----------------------------------------------------------------------------
(* The ID003 line task.  The WAIT command of the host is left out.          *)

LineIn(modes) == line.mode \in modes

Goes(next) == line' = [line EXCEPT !.mode = next]

told == Head(line_mbx)

says(c, s) == told.code = c /\ told.sub = s

Quiet == UNCHANGED main_mbx

Found(stat) == line' = [line EXCEPT !.mode = "powerup", !.stat = stat]

\* _set_id003_alarm and _set_id003_reject clear the recovery step, and leave
\* s_id003_powerup_stat as it is.
ToError  == Goes("error") /\ step' = "NON"
ToReject == Goes("reject") /\ step' = "NON" /\ Send("REJECT_REQ", "none", "OTHER")

\* A fault at power up: s_id003_powerup_stat = 0.
PowerError ==
  /\ line' = [line EXCEPT !.mode = "perror", !.stat = "OTHER"] /\ step' = "NON" /\ Quiet

\* The note is not found: ex_error_003_gli, and the step is cleared where the
\* line task leaves its loop.
LostBill ==
  /\ line' = [line EXCEPT !.mode = "perror", !.stat = "SEARCH_NON", !.gli = TRUE]
  /\ step' = "NON" /\ Send("LOST_BILL", "none", "OTHER")

\* Mutant: a note that is in the box already is not known to be stroked.
StrokedBeforeBox == Stroked(step, home) /\ step # "BILL_IN_BOX"

stroked == Stroked(step, home)

\* power_recover_003, after the search or when the state has changed
power_recover_003(found) ==
  \/ found = "ACCEPTOR" /\ Found("OTHER") /\ UNCHANGED step /\ Quiet
  \/ /\ found = "STACKER" /\ Found(IF step = "NON" THEN "OTHER" ELSE "RECOVER")
     /\ UNCHANGED step /\ Quiet
  \/ found \in {"NON", "ENTRANCE"} /\ LineIn({"search"}) /\ LostBill
  \/ /\ found \in {"NON", "ENTRANCE"} /\ ~LineIn({"search"})
     /\ Found(IF stroked THEN "RECOVER" ELSE "OTHER") /\ UNCHANGED step /\ Quiet

\* _id003_initial_msg_proc: nothing but the answer that is waited for is read.
id003_initial ==
  \/ /\ LineIn({"boot"}) /\ says("INITIAL", "SUCCESS") /\ UNCHANGED step
     /\ \/ told.arg = "ACCEPTOR" /\ Found("OTHER") /\ Quiet
        \/ told.arg = "STACKER" /\ step # "NON" /\ Found("RECOVER") /\ Quiet
        \/ told.arg \in {"NON", "ENTRANCE"} /\ stroked /\ Found("RECOVER") /\ Quiet
        \/ told.arg \in {"NON", "ENTRANCE"} /\ step = "NON" /\ Found("OTHER") /\ Quiet
        \/ /\ told.arg # "ACCEPTOR" /\ (told.arg = "STACKER" <=> step = "NON") /\ ~stroked
           /\ Goes("search") /\ Send("SEARCH", "none", "OTHER")
  \/ LineIn({"boot"}) /\ says("INITIAL", "ALARM") /\ PowerError
  \/ LineIn({"search"}) /\ says("SEARCH", "SUCCESS") /\ power_recover_003(told.arg)
  \/ LineIn({"search"}) /\ says("SEARCH", "ALARM") /\ PowerError
  \/ told.code # (IF LineIn({"boot"}) THEN "INITIAL" ELSE "SEARCH") /\ UNCHANGED <<line, step>> /\ Quiet

\* _id003_status_info_msg_proc; an alarm with the code that is set is nothing.
status_info ==
  \/ LineIn(PowerUps) /\ told.sub = "SUCCESS" /\ power_recover_003(told.arg)
  \/ LineIn(PowerUps) /\ told.sub = "ALARM" /\ PowerError
  \/ LineIn({"perror"}) /\ told.sub = "ALARM" /\ UNCHANGED <<line, step>> /\ Quiet
  \/ /\ LineIn({"error"}) /\ told.sub = "SUCCESS" /\ UNCHANGED step
     /\ line' = [line EXCEPT !.mode = "initial", !.kind = "auto", !.full = FALSE]
     /\ Send("RESET", "none", "OTHER")
  \/ ~LineIn(PowerUps \cup {"error"}) /\ told.sub = "ALARM" /\ ToError /\ Quiet
  \/ /\ IF told.sub = "SUCCESS" THEN ~LineIn(PowerUps \cup {"error"}) ELSE LineIn({"error"})
     /\ UNCHANGED <<line, step>> /\ Quiet

\* The initialisation has succeeded, and the note goes into the credit or not.
Succeeds ==
  \/ /\ line.kind = "powerup" /\ line.stat = "RECOVER" /\ vends
     /\ Goes("vend") /\ UNCHANGED step /\ Quiet
  \/ /\ ~(line.kind = "powerup" /\ line.stat = "RECOVER" /\ vends)
     /\ Goes("done") /\ step' = (IF line.kind = "powerup" THEN "NON" ELSE step)
     /\ Send("ENABLE", "none", "OTHER")

\* STACKER_FULL during a recovery is a credit first.
Fails ==
  IF line.kind = "powerup" /\ line.stat = "RECOVER" /\ vends /\ told.arg = "FULL"
  THEN line' = [line EXCEPT !.mode = "vend", !.full = TRUE] /\ UNCHANGED step /\ Quiet
  ELSE ToError /\ Quiet

\* _id003_reset_rsp_mode_power_init, _mode_init, _mode_recovery
reset_rsp ==
  \/ told.sub = "SUCCESS" /\ Succeeds
  \/ /\ told.sub = "REMAIN" /\ told.arg = "STACKER" /\ Goes("stack") /\ UNCHANGED step
     /\ Send("STACK_REQ", "none", "OTHER")
  \/ told.sub = "REMAIN" /\ told.arg # "STACKER" /\ ToReject
  \/ told.sub = "INIT_REJECT_REQUEST" /\ ToReject
  \/ told.sub = "ALARM" /\ Fails
  \/ /\ told.sub \in {"INIT_REJECT_HANGING", "INIT_REJECT_REMOVE", "END_INIT_STACK", "PAUSE", "RESUME"}
     /\ UNCHANGED <<line, step>> /\ Quiet

\* _id003_stack_rsp_mode_* and _id003_reject_rsp_mode_*: another sub is a
\* system error, that of REMAIN and SUCCESS too.
stack_or_reject_rsp ==
  LET rejecting == LineIn({"reject"}) IN
  \/ /\ told.sub = "INIT_REJECT_REMOVE" \/ (told.sub = "END_INIT_STACK" /\ ~rejecting)
     /\ Goes("initial") /\ UNCHANGED step /\ Send("RESET", "none", "OTHER")
  \/ told.sub = "PAUSE" /\ ~rejecting /\ Goes("pause") /\ UNCHANGED step /\ Quiet
  \/ told.sub = "RESUME" /\ ~rejecting /\ Goes("stack") /\ UNCHANGED step /\ Quiet
  \/ told.sub = "INIT_REJECT_HANGING" /\ rejecting /\ Goes("pause") /\ UNCHANGED step /\ Quiet
  \/ told.sub = "INIT_REJECT_REQUEST" /\ ToReject
  \/ told.sub = "ALARM" /\ ToError /\ Quiet
  \/ /\ \/ told.sub \in {"REMAIN", "SUCCESS"}
        \/ told.sub \in {"PAUSE", "RESUME", "END_INIT_STACK"} /\ rejecting
        \/ told.sub = "INIT_REJECT_HANGING" /\ ~rejecting
     /\ UNCHANGED <<line, step>> /\ Quiet

LineReads ==
  /\ line_mbx # << >> /\ line_mbx' = Tail(line_mbx)
  /\ \/ LineIn(Starting) /\ id003_initial
     \/ ~LineIn(Starting) /\ told.code = "STATUS" /\ status_info
     \/ LineIn({"initial"}) /\ told.code = "RESET" /\ reset_rsp
     \/ LineIn(Initialising \ {"initial"}) /\ told.code = "RESET" /\ stack_or_reject_rsp
     \/ ~LineIn(Starting \cup Initialising) /\ told.code = "RESET"
        /\ UNCHANGED <<line, step>> /\ Quiet
  /\ UNCHANGED <<options, mvars, work, world, acked, counted, disturbed, events>>

hostvars == <<options, mvars, work, line_mbx, world, counted, disturbed>>

Host == line_mbx = << >> /\ Running /\ UNCHANGED hostvars

\* _id003_reset_cmd_proc at power up: a lost note is an error first, of which
\* the main task is not told.
HostResets ==
  /\ Host /\ LineIn(PowerUps) /\ UNCHANGED <<acked, events>>
  /\ IF LineIn({"perror"}) /\ line.gli THEN ToError /\ Quiet
     ELSE /\ line' = [line EXCEPT !.mode = "initial", !.kind = "powerup", !.full = FALSE]
          /\ Send("RESET", "none", "OTHER") /\ UNCHANGED step

\* The host loses patience: INITIAL only acknowledges the command.
HostInterrupts ==
  /\ Host /\ LineIn({"stack", "pause", "reject", "error"} \cup Crediting)
  /\ Event /\ UNCHANGED acked
  /\ line' = [line EXCEPT !.mode = "initial", !.kind = "reset", !.full = FALSE]
  /\ step' = "NON" /\ Send("RESET", "none", "OTHER")

\* _id003_stsreq_pwr_init_vend, and the tenth _id003_stsreq_pwr_err
HostPolls ==
  /\ Host /\ Quiet /\ UNCHANGED <<step, acked, events>>
  /\ \/ LineIn({"vend"}) /\ Goes("vend_ack")
     \/ LineIn({"perror"}) /\ line.stat = "SEARCH_NON" /\ line.gli
        /\ line' = [line EXCEPT !.gli = FALSE]

\* Mutant: the acknowledged note keeps its step.
HostAcksAgain ==
  /\ Host /\ LineIn({"vend_ack"}) /\ acked' = TRUE /\ UNCHANGED <<step, events>>
  /\ line' = [line EXCEPT !.mode = IF line.full THEN "error" ELSE "done", !.stat = "OTHER"]
  /\ IF line.full THEN Quiet ELSE Send("ENABLE", "none", "OTHER")

\* _id003_ack_cmd_proc
HostAcks ==
  /\ Host /\ LineIn({"vend_ack"}) /\ acked' = TRUE /\ step' = "NON" /\ UNCHANGED events
  /\ line' = [line EXCEPT !.mode = IF line.full THEN "error" ELSE "done", !.stat = "OTHER"]
  /\ IF line.full THEN Quiet ELSE Send("ENABLE", "none", "OTHER")

-----------------------------------------------------------------------------
(* The world around the validator.                                          *)

around == <<options, mvars, step, work, line_mbx, off, home, line, acked, counted>>

\* Paper is put in through the open shutter, the note is taken from the mouth,
\* the box is taken out or put back: the sensor task reports each.
Reported == Running /\ Send("SENSOR", "INFO", "OTHER") /\ UNCHANGED around

PaperIn ==
  /\ Event /\ disturbed' = TRUE
  /\ ~paper /\ "SHUTTER_OPEN" \notin off /\ paper' = TRUE
  /\ Reported /\ UNCHANGED <<note, box>>

NoteTaken ==
  /\ note = "mouth" /\ note' = "gone"
  /\ Reported /\ UNCHANGED <<paper, box, disturbed, events>>

BoxFlips ==
  /\ Event /\ box' = ~box
  /\ Reported /\ UNCHANGED <<note, paper, disturbed>>

\* A sensor task or the ICB reports a fault.
Faults ==
  /\ Running /\ mode # "ALARM" /\ main_mbx = << >> /\ line_mbx = << >>
  /\ Event /\ Send("STATUS", "ALARM", "OTHER")
  /\ UNCHANGED <<around, note, paper, box, disturbed>>

\* FRAM, paper and mechanics stay as they are.
PowerFails ==
  /\ mode # "REJECT" /\ Event
  /\ mode' = "SENSOR_INIT" /\ reset' = FALSE /\ pause' = FALSE /\ tries' = 0
  /\ main_mbx' = <<Msg("SENSOR_INIT", "SUCCESS", "OTHER")>> /\ work' = {}
  /\ line_mbx' = << >> /\ line' = NewLine
  /\ UNCHANGED <<options, step, world, acked, counted, disturbed>>

Devices == SimpleAnswers \/ PositionAnswers \/ IcbAnswers \/ StackerAnswers \/ Feed

Next ==
  \/ main \/ Devices \/ StackerPushes \/ FeedPauses
  \/ LineReads \/ HostResets \/ HostInterrupts \/ HostPolls \/ HostAcks
  \/ PaperIn \/ NoteTaken \/ BoxFlips \/ Faults \/ PowerFails

\* Every device answers, in a timeout at the latest; the host goes on, and a
\* note that is returned is taken.
Fairness ==
  /\ WF_vars(main) /\ WF_vars(LineReads)
  /\ WF_vars(SimpleAnswers) /\ WF_vars(PositionAnswers) /\ WF_vars(IcbAnswers)
  /\ WF_vars(StackerAnswers) /\ WF_vars(Feed)
  /\ WF_vars(HostResets) /\ WF_vars(HostPolls) /\ WF_vars(HostAcks) /\ WF_vars(NoteTaken)

Safety == Init /\ [][Next]_vars

Spec == Safety /\ Fairness

-----------------------------------------------------------------------------
(* Properties.                                                              *)

\* Type invariant: modes, requests, messages and counters stay in their ranges.
TypeOK ==
  /\ icb \in Icb /\ vends \in Vends
  /\ mode \in PowerUpModes \cup InitModes \cup {"ALARM", "DONE", "REJECT"}
  /\ {reset, pause, paper, box, home, acked} \subseteq BOOLEAN
  /\ tries <= ForceStacks /\ step \in Steps
  /\ Len(main_mbx) <= MailBlocks /\ work \subseteq Requests
  /\ note \in DOMAIN Left \cup {"mouth", "gone"}
  /\ line.mode \in Starting \cup PowerUps \cup Initialising \cup Crediting \cup {"done", "error"}
  /\ line.kind \in {"powerup", "reset", "auto"} /\ line.stat \in {"OTHER", "RECOVER", "SEARCH_NON"}
  /\ disturbed \in BOOLEAN /\ events <= MaxEvents

boxed == note \in {"past", "box"}

credit ==
  IF LineIn(Crediting) THEN "offered" ELSE IF acked THEN "given"
  ELSE IF step = "NON" THEN "void" ELSE "open"

Bank == INSTANCE NoteRecovery

\* Power up implements NoteRecovery: however often the power fails, and
\* whatever is lost or interrupted, VEND_VALID is told only of a note that is
\* in the box, and never again once it was acknowledged or given up.
Implements == Bank!Spec

\* The ICB counts the note at most once over all power failures, because the
\* step is written before it is asked, and only a note that is in the box.
\* (mode_initialize_uba.c:3344 and is_icb_recovery_info_stack)
CountedOnce == counted <= 1 /\ (counted = 1 /\ ~disturbed => boxed)

\* The handlers of the initialisation flag a reset until their device has
\* answered, and each has to look at the flag in every branch: a mode that is
\* left with a flagged reset is left to start over, to an alarm or by a power
\* failure.  The box alarm of the ICB waits first, and the second half of a
\* forced stroke forgets the reset (mode_initialize_uba.c:2984).
ResetGoesFirst ==
  [][reset /\ mode' # mode =>
       \/ mode' \in {"INIT_SENSOR_ACTIVE", "ALARM", "SENSOR_INIT"}
       \/ <<mode, mode'>> \in
            {<<"INIT_ICB", "INIT_ICB_BOX">>, <<"INIT_FORCE_STACK", "INIT_WAIT_RESET">>}]_vars

\* What may keep the credit back: a box that is out, paper that was put in, a
\* fault other than that of a lost note, and a reset out of turn.
Excused ==
  \/ ~box \/ disturbed \/ line.kind = "reset"
  \/ LineIn({"error", "perror"}) /\ line.stat # "SEARCH_NON"

\* The credit of a note whose stroke was recorded survives any number of power
\* failures: the host is told in the end, by a note that is in the box, and
\* the note is never searched for in vain.  (id003.c:557-822)
Recovers == (vends /\ step \in {"BILL_IN_BOX", "ICB_ACCEPT", "VEND"}) ~> (acked \/ Excused)

Settled == ~Running \/ mode \in {"ALARM", "ALARM_BOX"} \/ LineIn({"error"})

\* Main waits for the line task, which waits for main.  A reset out of turn
\* crosses the answer of the initialisation that it ends, which is then taken
\* for the answer to the reset; a search is not answered when the box was out.
DeadEnd ==
  \/ line.kind = "reset" /\ mode \in {"INIT_WAIT_RESET", "INIT_WAIT_REMAIN", "INIT_WAIT_REQ"}
  \/ LineIn({"search"}) /\ mode = "WAIT_REQ"

\* Main and the line task, which drive each other through search, reset, forced
\* stacking and reject by messages that either may ignore, come to an end, in
\* work or in an alarm, but for the dead ends that are named.
Settles == []<>(Settled \/ DeadEnd)

\* VEND_VALID says that the note was received for good (id003.h:305), so it is
\* in the box.  Paper that somebody puts in while main searches makes the line
\* task return the note, with the verdict of the first look kept.
VendBoxed == LineIn(Crediting) => boxed

=============================================================================
