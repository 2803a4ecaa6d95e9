----------------------------- MODULE AcceptMode -----------------------------
(***************************************************************************)
(* main_task/operation/mode_accept_uba.c: the main task takes one note in. *)
(* It drives nine device tasks through request and response messages and   *)
(* joins their answers on the bit set ex_multi_job.busy.  While it waits,  *)
(* the host may reset the validator, the note before this one may still be *)
(* on its way into the cash box, and any device may refuse or fail.        *)
(*                                                                         *)
(* The module follows one note from _main_set_accept until MODE1_ACCEPT is *)
(* left; what the other modes do with the note is not part of it.          *)
(***************************************************************************)
EXTENDS Naturals, Sequences, FiniteSets

CONSTANTS Denomis,    \* denominations that the validation can report
          Accepted,   \* those for which _is_main_accept_denomi holds
          NoDenomi,   \* ex_multi_job.denomi after clear_ex_multi_job
          MailBlocks  \* blocks of ID_MBX_MPF a message to main may use,
                      \*   16 in the code, other messages take them too

ASSUME DenomiAssumption == Accepted \subseteq Denomis /\ NoDenomi \notin Denomis

ASSUME PoolAssumption == MailBlocks \in Nat \ {0}

VARIABLES
  mode,       \* ex_main_task_mode2 in MODE1_ACCEPT, else the next mode1
  job,        \* ex_multi_job
  reset,      \* ex_main_reset_flag
  second,     \* ex_2nd_note_uba: 0 first note, 1 second note, 2 the second
              \*   note after the host acknowledged the first one
  main_mbx,   \* ID_MAIN_MBX
  work,       \* task -> requests it still has to answer, oldest first
  stage,      \* task -> "new", "early" or "moving": how far the oldest one is
  line_mbx,   \* what main told the ID003 line task
  line,       \* ex_cline_status_tbl.line_task_mode, as far as main can tell
  vend        \* what the line task knows of the previous note's credit

mvars == <<mode, job, reset, second>>
dvars == <<work, stage>>
lvars == <<line, vend>>
vars  == <<mvars, main_mbx, dvars, line_mbx, lvars>>

\* The device tasks by their bits TASK_ST_<task> of ex_multi_job.
Tasks == {"CIS_INIT", "CENTERING", "APB", "FEED", "STACKER",
          "SHUTTER", "MGU", "DISCRIMINATION", "ICB"}

\* Tasks that turn to a new request while they are busy with another.
Motors == {"CENTERING", "APB", "FEED", "SHUTTER"}

\* What each task is asked; an answer carries the code of its request.
Asked ==
  [CIS_INIT |-> {"CIS_INITIALIZE"},
   CENTERING |-> {"CENTERING_HOME", "CENTERING_EXEC"}, APB |-> {"APB_HOME"},
   FEED |-> {"FEED_CENTERING", "FEED_ESCROW", "FEED_REJECT", "FEED_APB"},
   STACKER |-> {"STACKER_HOME", "STACKER_PULL"},
   SHUTTER |-> {"SHUTTER_OPEN", "SHUTTER_CLOSE"},
   MGU |-> {"MGU_READ"}, DISCRIMINATION |-> {"VALIDATION"}, ICB |-> {"ICB_REJECT"}]

Requests == UNION {Asked[t] : t \in Tasks}

\* arg1 of the last answer to a request.
Results(r) ==
  CASE r = "VALIDATION" -> {"SUCCESS", "REJECT"}
    [] r \in {"FEED_CENTERING", "FEED_ESCROW"} -> {"SUCCESS", "REJECT", "ALARM"}
    [] OTHER -> {"SUCCESS", "ALARM"}

\* Requests whose task may say START before it says how the job ended, and
\* the ends of those it did not START.  The START of CENTERING_HOME and the
\* INTERIM of FEED_ESCROW change no state of the main task.
Unstarted == [FEED_CENTERING |-> {"ALARM"}, CENTERING_EXEC |-> {"ALARM"},
              APB_HOME |-> {"SUCCESS", "ALARM"}]

AcceptModes ==
  {"SENSOR_ACTIVE", "PB_CENTERING_HOME", "WAIT_PB_START", "WAIT_FEED_START",
   "FEED_CENTERING", "CENTERING", "FEED_ESCROW", "WAIT_ACCEPT_REQ",
   "DISCRIMINATION", "WAIT_REQ", "WAIT_REJECT_REQ"}

Accepting == mode \in AcceptModes

NoJob == [busy |-> {}, alarm |-> {}, reject |-> {}, denomi |-> NoDenomi]

Msg(c, s, a) == [code |-> c, sub |-> s, arg |-> a]

Waiting(c) == \E i \in 1 .. Len(main_mbx) : main_mbx[i].code = c

-----------------------------------------------------------------------------
(* _main_set_accept: the first note, or, from stack_wait_req_first, a       *)
(* second one while the stacker still pulls the first note into the box, or *)
(* after it did (then VEND is on its way to the line task).  The sensor     *)
(* task answers at once, before main, whose priority is the lowest, reads.  *)

Init ==
  /\ mode = "SENSOR_ACTIVE"
  /\ reset = FALSE
  /\ main_mbx = <<Msg("SENSOR_ACTIVE", "SUCCESS", NoDenomi)>>
  /\ vend = "none"
  /\ stage = [t \in Tasks |-> IF t = "STACKER" THEN "moving" ELSE "new"]
  /\ \E n \in {"first", "pulling", "pulled"} :
       /\ second = IF n = "first" THEN 0 ELSE 1
       /\ line = IF n = "first" THEN "accept" ELSE "second"
       /\ job = [NoJob EXCEPT !.busy =
                   {"CIS_INIT"} \cup IF n = "pulling" THEN {"STACKER"} ELSE {}]
       /\ line_mbx = IF n = "pulled" THEN <<Msg("STACK", "VEND", NoDenomi)>> ELSE << >>
       /\ work = [t \in Tasks |->
                    CASE t = "CIS_INIT" -> <<"CIS_INITIALIZE">>
                      [] t = "STACKER" /\ n = "pulling" -> <<"STACKER_PULL">>
                      [] OTHER -> << >>]

-----------------------------------------------------------------------------
(* What a handler does with the message it read, m == Head(main_mbx).       *)

m == Head(main_mbx)

\* accept_msg_proc: after the handler, whatever the mode was.
NextSecond == IF m.code = "1ST_NOTE_DONE" /\ second = 1 THEN 2 ELSE second

\* _main_send_msg to the device tasks: reqs maps a task to what it is asked.
\* A motor task that is busy stops its motor and turns to the new request
\* without an answer to the old one (_<task>_set_waiting_seq); a stacker that
\* is pulling drops a HOME_REQ; the others take their requests in order.
Ask(reqs) ==
  work' = [t \in Tasks |->
    CASE t \notin DOMAIN reqs -> work[t]
      [] t \in DOMAIN reqs \cap Motors -> << reqs[t] >>
      [] t \in DOMAIN reqs /\ t = "STACKER" /\ work[t] # << >> -> work[t]
      [] OTHER -> Append(work[t], reqs[t])]

\* _main_send_connection_task.  mode_accpet_uba_stack reports the credit of
\* the first note (VEND, and STACK SUCCESS with it) before anything else.
PullModes == {"SENSOR_ACTIVE", "PB_CENTERING_HOME", "WAIT_PB_START",
              "WAIT_FEED_START", "FEED_CENTERING", "CENTERING"}

\* Mutant: a stacker that comes home reports the credit again.
CreditAtHome == IF mode \in PullModes /\ m.sub = "SUCCESS"
                   /\ m.code \in {"STACKER_PULL", "STACKER_HOME"}
                THEN <<Msg("STACK", "VEND", NoDenomi)>> ELSE << >>

Credit == IF mode \in PullModes /\ m.code = "STACKER_PULL" /\ m.sub = "SUCCESS"
          THEN <<Msg("STACK", "VEND", NoDenomi)>> ELSE << >>

Tell(told) == line_mbx' = line_mbx \o Credit \o told

\* The handler returns: same mode, job now j.
Stay(j) ==
  /\ job' = j /\ second' = NextSecond
  /\ Tell(<< >>)
  /\ UNCHANGED <<mode, reset, work>>

\* _main_set_mode and the requests of the next step, which become busy.
Proceed(next, j, reqs) ==
  /\ mode' = next
  /\ job' = [j EXCEPT !.busy = @ \cup DOMAIN reqs]
  /\ second' = NextSecond
  /\ Ask(reqs) /\ Tell(<< >>)
  /\ UNCHANGED reset

Flag == reset' = TRUE /\ UNCHANGED <<mode, job, second, work, line_mbx>>

\* _main_alarm_sub: ex_multi_job keeps what it holds.
AlarmSub(j) ==
  /\ mode' = "ALARM" /\ job' = j /\ second' = 0
  /\ Tell(<<Msg("ACCEPT", "ALARM", NoDenomi)>>)
  /\ UNCHANGED <<reset, work>>

\* _main_set_init: without a box the reset ends in an alarm of its own.
SetInit ==
  /\ reset' = FALSE /\ job' = NoJob
  /\ \/ mode' = "INIT" /\ UNCHANGED second /\ Tell(<< >>)
     \/ mode' = "ALARM" /\ second' = 0 /\ Tell(<<Msg("RESET", "ALARM", NoDenomi)>>)
  /\ UNCHANGED work

\* _main_reject_sub
RejectSub(next, code) ==
  /\ mode' = next /\ job' = NoJob /\ second' = 0
  /\ Tell(<<Msg("ACCEPT", "REJECT", code)>>)
  /\ UNCHANGED <<reset, work>>

WaitReject      == RejectSub("WAIT_REJECT_REQ", NoDenomi)
StackerNotHome  == RejectSub("WAIT_REJECT_REQ", "STACKER_HOME")

\* A late answer joined: what the other devices recorded comes first.
AlarmFirst(j, otherwise) ==
  IF reset THEN SetInit
  ELSE IF j.alarm # {} THEN AlarmSub(j)
  ELSE IF j.reject # {} THEN WaitReject
  ELSE otherwise

\* Mutant: the join does not ask for ex_main_reset_flag.
RejectForgetsReset(j, otherwise) ==
  IF j.reject # {} THEN WaitReject
  ELSE IF j.alarm # {} THEN AlarmSub(j)
  ELSE otherwise

RejectFirst(j, otherwise) ==
  IF reset THEN SetInit
  ELSE IF j.reject # {} THEN WaitReject
  ELSE IF j.alarm # {} THEN AlarmSub(j)
  ELSE otherwise

\* The answer that lets go of the note while a stacker alarm is recorded.
StackerFirst(j, otherwise) ==
  IF reset THEN SetInit
  ELSE IF "STACKER" \in j.alarm THEN StackerNotHome
  ELSE otherwise

Done(t)      == [job EXCEPT !.busy = @ \ {t}]
Failed(t)    == [Done(t) EXCEPT !.alarm = @ \cup {t}]
Refused(t)   == [Done(t) EXCEPT !.reject = @ \cup {t}]
IfLast(j, A) == IF j.busy = {} THEN A ELSE Stay(j)

\* *_STATUS_INFO with ALARM, in the default branch of every handler.
StatusAlarm  == m.code = "STATUS" /\ AlarmSub(job)
StatusOrInit == m.code = "STATUS" /\ IF reset THEN SetInit ELSE AlarmSub(job)

\* Messages without a case are logged or ignored.
Default(cases) == m.code \notin cases \cup {"STATUS"} /\ Stay(job)

-----------------------------------------------------------------------------
(* The helpers two or more handlers share.                                  *)

\* mode_accpet_uba_start_check: what lies in the path, and where the APB is.
start_check(j) ==
  \/ Proceed("WAIT_FEED_START", j, [FEED |-> "FEED_CENTERING"])
  \/ Proceed("WAIT_PB_START", j, [APB |-> "APB_HOME"])
  \/ WaitReject
  \/ AlarmSub(j)

\* mode_accpet_uba_stack: the stacker has pulled the first note in, or is
\* home; run is 1 when the note waits for that before it goes to escrow.
uba_stack(run) ==
  \/ /\ m.sub = "SUCCESS"
     /\ LET j == Done("STACKER") IN
        IfLast(j, AlarmFirst(j,
          IF run = 1 THEN Proceed("FEED_ESCROW", j, [FEED |-> "FEED_ESCROW"]) ELSE Stay(j)))
  \/ /\ m.sub = "ALARM"
     /\ LET j == Failed("STACKER") IN
        IfLast(j, IF reset THEN SetInit ELSE StackerNotHome \/ AlarmSub(j))   \* box?

-----------------------------------------------------------------------------
(* One action per handler of mode2.                                         *)

accept_sensor_active ==
  \/ m.code = "RESET" /\ SetInit
  \/ /\ m.code \in {"SENSOR_ACTIVE", "CIS_INITIALIZE"} /\ m.sub = "SUCCESS"
     /\ LET j == IF m.code = "CIS_INITIALIZE" THEN Done("CIS_INIT") ELSE job IN
        IF j.busy = {} \/ (j.busy = {"STACKER"} /\ second = 1)
        THEN \/ Proceed("PB_CENTERING_HOME", j, [CENTERING |-> "CENTERING_HOME"])
             \/ start_check(j)
        ELSE Stay(j)
  \/ /\ m.code = "CIS_INITIALIZE" /\ m.sub = "ALARM"
     /\ Stay([Done("CIS_INIT") EXCEPT !.alarm = IF @ = {} THEN {"CIS_INIT"} ELSE @])
  \/ m.code = "STACKER_PULL" /\ uba_stack(0)
  \/ StatusAlarm
  \/ Default({"RESET", "SENSOR_ACTIVE", "CIS_INITIALIZE", "STACKER_PULL"})

pb_centering_home ==
  \/ m.code = "RESET" /\ Flag
  \/ /\ m.code = "CENTERING_HOME" /\ m.sub = "SUCCESS"
     /\ LET j == Done("CENTERING") IN
        IfLast(j, IF reset THEN SetInit
                  ELSE AlarmSub(j) \/ ("APB" \notin j.alarm /\ start_check(j)))  \* box?
  \/ /\ m.code = "CENTERING_HOME" /\ m.sub = "ALARM"
     /\ LET j == Failed("CENTERING") IN
        IfLast(j, IF reset THEN SetInit ELSE AlarmSub(j))
  \/ m.code = "STACKER_PULL" /\ uba_stack(0)
  \/ StatusOrInit
  \/ Default({"RESET", "CENTERING_HOME", "STACKER_PULL"})

wait_pb_start ==
  \/ m.code = "RESET" /\ Flag
  \/ /\ m.code = "APB_HOME" /\ m.sub = "SUCCESS"
     /\ LET j == Done("APB") IN
        IfLast(j, IF reset THEN SetInit
                  ELSE \/ AlarmSub(j)                                          \* box?
                       \/ /\ "CENTERING" \notin j.alarm
                          /\ Proceed("WAIT_FEED_START", j, [FEED |-> "FEED_CENTERING"]))
  \/ /\ m.code = "APB_HOME" /\ m.sub = "START"
     /\ Proceed("WAIT_FEED_START", job, [FEED |-> "FEED_CENTERING"])
  \/ /\ m.code = "APB_HOME" /\ m.sub = "ALARM"
     /\ LET j == Failed("APB") IN
        IfLast(j, IF reset THEN SetInit ELSE AlarmSub(j))
  \/ m.code = "STACKER_PULL" /\ uba_stack(0)
  \/ StatusOrInit
  \/ Default({"RESET", "APB_HOME", "STACKER_PULL"})

\* FEED_CENTERING_RSP with REJECT or ALARM, the same in the next two modes.
feed_failed ==
  \/ m.sub = "REJECT" /\ LET j == Refused("FEED") IN
       IfLast(j, StackerFirst(j, WaitReject))
  \/ m.sub = "ALARM" /\ LET j == Failed("FEED") IN
       IfLast(j, StackerFirst(j, AlarmSub(j)))

\* Mutant: the failed APB keeps its busy bit.
ApbFailedStaysBusy ==
  m.sub = "ALARM" /\ LET j == [job EXCEPT !.alarm = @ \cup {"APB"}] IN
    IfLast(j, IF reset THEN SetInit ELSE WaitReject)

\* APB_HOME_RSP with ALARM, the same in the next two modes.
apb_failed ==
  m.sub = "ALARM" /\ LET j == Failed("APB") IN
    IfLast(j, IF reset THEN SetInit ELSE WaitReject)

wait_feed_start ==
  \/ m.code = "RESET" /\ Flag
  \/ /\ m.code = "FEED_CENTERING" /\ m.sub = "START"
     /\ IF reset THEN SetInit
        ELSE /\ mode' = "FEED_CENTERING" /\ Tell(<< >>)
             /\ UNCHANGED <<job, reset, second, work>>
  \/ m.code = "FEED_CENTERING" /\ m.sub = "SUCCESS" /\ Stay(job)
  \/ m.code = "FEED_CENTERING" /\ feed_failed
  \/ m.code = "APB_HOME" /\ m.sub = "START" /\ Stay(job)
  \/ m.code = "APB_HOME" /\ m.sub = "SUCCESS" /\ Stay(Done("APB"))
  \/ m.code = "APB_HOME" /\ apb_failed
  \/ m.code = "STACKER_PULL" /\ uba_stack(0)
  \/ StatusOrInit
  \/ Default({"RESET", "FEED_CENTERING", "APB_HOME", "STACKER_PULL"})

\* Mutant: the request to the centering task is not sent.
ToCenteringUnasked(j) == Proceed("CENTERING", j, << >>)

\* The note is at rest under the centering, the APB home.
to_centering(j) == Proceed("CENTERING", j, [CENTERING |-> "CENTERING_EXEC"])

feed_centering ==
  \/ m.code = "RESET" /\ Flag
  \/ /\ m.code = "FEED_CENTERING" /\ m.sub = "SUCCESS"
     /\ LET j == Done("FEED") IN
        IF reset THEN SetInit
        ELSE IF "APB" \in j.busy THEN Stay(j)
        ELSE IF "STACKER" \in j.alarm THEN StackerNotHome
        ELSE IF "APB" \in j.alarm THEN WaitReject
        ELSE to_centering(j)
  \/ m.code = "FEED_CENTERING" /\ feed_failed
  \/ /\ m.code = "APB_HOME" /\ m.sub = "SUCCESS"
     /\ LET j == Done("APB") IN
        IF "FEED" \in j.busy THEN Stay(j)
        ELSE IF "STACKER" \in j.alarm THEN StackerNotHome
        ELSE to_centering(j)
  \/ m.code = "APB_HOME" /\ m.sub = "START" /\ Stay(job)
  \/ m.code = "APB_HOME" /\ apb_failed
  \/ m.code = "STACKER_PULL" /\ uba_stack(0)
  \/ StatusOrInit
  \/ Default({"RESET", "FEED_CENTERING", "APB_HOME", "STACKER_PULL"})

\* The stacker goes home while the note is centred.
centering_exec ==
  \/ m.code = "RESET" /\ Flag
  \/ /\ m.code = "CENTERING_EXEC" /\ m.sub = "START"
     /\ Proceed(mode, job, [STACKER |-> "STACKER_HOME"])
  \/ /\ m.code = "CENTERING_EXEC" /\ m.sub = "SUCCESS"
     /\ LET j == Done("CENTERING") IN
        IfLast(j, StackerFirst(j, AlarmFirst(j,
          Proceed("FEED_ESCROW", j, [FEED |-> "FEED_ESCROW"]))))
  \/ /\ m.code = "CENTERING_EXEC" /\ m.sub = "ALARM"
     /\ LET j == Refused("CENTERING") IN
        IfLast(j, StackerFirst(j, WaitReject))
  \/ m.code \in {"STACKER_PULL", "STACKER_HOME"} /\ uba_stack(1)
  \/ StatusOrInit
  \/ Default({"RESET", "CENTERING_EXEC", "STACKER_PULL", "STACKER_HOME"})

\* The temperature is read and the shutter closed while the note is validated.
Identify(j) == Proceed("DISCRIMINATION", j,
  [MGU |-> "MGU_READ", DISCRIMINATION |-> "VALIDATION", SHUTTER |-> "SHUTTER_CLOSE"])

\* Mutant: a second note does not wait.
EscrowNoWait(j) == Identify(j)

\* A second note waits until the host has acknowledged the first one.
EscrowReached(j) ==
  \/ second # 1 /\ Identify(j)
  \/ second = 1 /\ Proceed("WAIT_ACCEPT_REQ", j, << >>)

feed_escrow ==
  \/ m.code = "RESET" /\ Flag
  \/ /\ m.code = "FEED_ESCROW" /\ m.sub = "SUCCESS"
     /\ LET j == Done("FEED") IN
        IfLast(j, AlarmFirst(j, EscrowReached(j)))
  \/ /\ m.code = "FEED_ESCROW" /\ m.sub \in {"REJECT", "ALARM"}
     /\ LET j == Done("FEED") IN
        IF j.busy = {} THEN AlarmFirst(j, WaitReject)
        ELSE IF m.sub = "REJECT" THEN Stay(Refused("FEED"))
        ELSE Stay([j EXCEPT !.alarm = IF @ = {} THEN {"FEED"} ELSE @])
  \/ StatusOrInit
  \/ Default({"RESET", "FEED_ESCROW"})

accept_wait_accept_req ==
  \/ m.code = "RESET" /\ SetInit
  \/ /\ m.code = "1ST_NOTE_DONE"
     /\ mode' = "DISCRIMINATION" /\ second' = NextSecond
     /\ job' = [job EXCEPT !.busy = @ \cup {"MGU", "DISCRIMINATION", "SHUTTER"}]
     /\ work' = [work EXCEPT !["MGU"] = @ \o <<"MGU_READ", "MGU_READ">>,
                             !["DISCRIMINATION"] = Append(@, "VALIDATION"),
                             !["SHUTTER"] = <<"SHUTTER_CLOSE">>]
     /\ Tell(<< >>) /\ UNCHANGED reset
  \/ StatusAlarm
  \/ Default({"RESET", "1ST_NOTE_DONE"})

\* ACCEPT SUCCESS: the note is in escrow and the host may decide.
Offer(j, denomi) ==
  /\ mode' = "WAIT_REQ" /\ job' = j /\ second' = NextSecond
  /\ Tell(<<Msg("ACCEPT", "SUCCESS", denomi)>>)
  /\ UNCHANGED <<reset, work>>

\* Mutant: a denomination is recorded without _is_main_accept_denomi.
ValidatedAnyDenomi ==
  LET j == Done("DISCRIMINATION") IN
  RejectFirst(j,
    IF j.busy = {}
    THEN IF m.arg \in Accepted THEN Offer(j, m.arg) ELSE WaitReject
    ELSE Stay([j EXCEPT !.denomi = m.arg]))

\* VALIDATION_RSP with SUCCESS.
validated ==
  LET j == Done("DISCRIMINATION") IN
  RejectFirst(j,
    IF j.busy = {}
    THEN IF m.arg \in Accepted THEN Offer(j, m.arg) ELSE WaitReject
    ELSE IF m.arg \in Accepted THEN Stay([j EXCEPT !.denomi = m.arg])
    ELSE Stay([j EXCEPT !.reject = {"DISCRIMINATION"}]))

discrimination ==
  \/ m.code = "RESET" /\ Flag
  \/ /\ m.code = "SHUTTER_CLOSE" /\ m.sub = "SUCCESS"
     /\ LET j == Done("SHUTTER") IN IfLast(j, RejectFirst(j, Offer(j, j.denomi)))
  \/ /\ m.code = "SHUTTER_CLOSE" /\ m.sub = "ALARM"
     /\ IF Done("SHUTTER").busy = {}
        THEN AlarmFirst(Done("SHUTTER"), AlarmSub(Done("SHUTTER")))
        ELSE AlarmSub(Failed("SHUTTER"))
  \/ /\ m.code = "MGU_READ" /\ m.sub = "SUCCESS"
     /\ LET j == Done("MGU") IN IfLast(j, AlarmFirst(j, Offer(j, j.denomi)))
  \/ /\ m.code = "MGU_READ" /\ m.sub = "ALARM"
     /\ LET j == Done("MGU") IN
        IF j.busy = {} THEN AlarmFirst(j, AlarmSub(j))
        ELSE Stay([j EXCEPT !.alarm = IF @ = {} THEN {"MGU"} ELSE @])
  \/ m.code = "VALIDATION" /\ m.sub = "SUCCESS" /\ validated
  \/ /\ m.code = "VALIDATION" /\ m.sub = "REJECT"
     /\ LET j == Done("DISCRIMINATION") IN
        IF j.busy = {} THEN WaitReject ELSE Stay([j EXCEPT !.reject = {"DISCRIMINATION"}])
  \/ StatusOrInit
  \/ Default({"RESET", "SHUTTER_CLOSE", "MGU_READ", "VALIDATION"})

\* MODE1_REJECT, FEED_REJECT; a note that was offered is refused first, with
\* what _main_reject_sub clears.
GiveBack(j) ==
  /\ mode' = "REJECT"
  /\ \/ /\ mode = "WAIT_REQ" /\ job' = NoJob /\ second' = 0
        /\ Tell(<<Msg("ACCEPT", "REJECT", NoDenomi)>>)
     \/ /\ mode = "WAIT_REJECT_REQ" /\ second' = NextSecond
        /\ job' = [j EXCEPT !.busy = @ \cup {"FEED"}]
        /\ Tell(<< >>)
  /\ Ask([FEED |-> "FEED_REJECT"])
  /\ UNCHANGED reset

\* Centering home and shutter open, those of the two that are not.
OpenWay(h) == [t \in h |-> IF t = "SHUTTER" THEN "SHUTTER_OPEN" ELSE "CENTERING_HOME"]

\* Mutant: the requests are sent and their busy bits not set.
ReturnNotBusy(j) ==
  \/ \E h \in SUBSET {"CENTERING", "SHUTTER"} : h # {} /\
       /\ job' = [j EXCEPT !.busy = {}] /\ second' = NextSecond
       /\ Ask(OpenWay(h)) /\ Tell(<< >>) /\ UNCHANGED <<mode, reset>>
  \/ GiveBack(j)

\* Inhibited or not, open or not: the way out is opened first if need be.
Return(j) ==
  \/ \E h \in SUBSET {"CENTERING", "SHUTTER"} :
       h # {} /\ Proceed(mode, [j EXCEPT !.busy = {}], OpenWay(h))
  \/ GiveBack(j)

\* What accept_wait_req and accept_wait_reject_req do alike.
returning ==
  \/ /\ m.code = "REJECT"
     /\ Return(job) \/ Proceed(mode, job, [ICB |-> "ICB_REJECT"])
  \/ /\ m.code = "ICB_REJECT" /\ m.sub = "SUCCESS"
     /\ IF reset THEN SetInit ELSE Return(Done("ICB"))
  \/ /\ m.code = "ICB_REJECT" /\ m.sub = "ALARM"
     /\ LET j == Done("ICB") IN
        IfLast(j, IF reset THEN SetInit ELSE AlarmSub(j))
  \/ /\ m.code = "SHUTTER_OPEN" /\ m.sub = "SUCCESS"
     /\ LET j == Done("SHUTTER") IN
        IfLast(j, IF reset THEN SetInit
                  ELSE IF j.alarm # {} THEN AlarmSub(j) ELSE GiveBack(j))
  \/ /\ m.code = "SHUTTER_OPEN" /\ m.sub = "ALARM"
     /\ LET j == Failed("SHUTTER") IN IfLast(j, StackerFirst(j, AlarmSub(j)))
  \/ /\ m.code = "CENTERING_HOME" /\ m.sub = "SUCCESS"
     /\ LET j == Done("CENTERING") IN IfLast(j, AlarmFirst(j, GiveBack(j)))
  \/ /\ m.code = "CENTERING_HOME" /\ m.sub = "ALARM"
     /\ LET j == Failed("CENTERING") IN IfLast(j, StackerFirst(j, AlarmSub(j)))

ReturnCases == {"REJECT", "ICB_REJECT", "SHUTTER_OPEN", "CENTERING_HOME"}

accept_wait_req ==
  \/ m.code = "RESET" /\ SetInit
  \/ /\ m.code = "STACK"
     /\ IF job.reject # {} THEN RejectSub("STACK", NoDenomi)
        ELSE /\ mode' = "STACK" /\ second' = 0
             /\ job' = [job EXCEPT !.busy = @ \cup {"FEED"}]
             /\ Ask([FEED |-> "FEED_APB"]) /\ Tell(<< >>) /\ UNCHANGED reset
  \/ returning
  \/ /\ m.code = "SENSOR" /\ UNCHANGED <<mvars, work>>
     /\ Tell(<<Msg("ACCEPT", "REJECT", NoDenomi)>>)
  \/ StatusAlarm
  \/ Default({"RESET", "STACK", "SENSOR"} \cup ReturnCases)

accept_wait_reject_req ==
  \/ m.code = "RESET" /\ SetInit
  \/ returning
  \/ StatusAlarm
  \/ Default({"RESET"} \cup ReturnCases)

\* main_task, accept_msg_proc: read one message and handle it by mode2.  The
\* line task has the highest priority and main the lowest: what main told it
\* is read before main reads on, unless it waits for a block of the pool.
accept_msg_proc ==
  /\ line_mbx = << >> \/ Len(main_mbx) = MailBlocks
  /\ main_mbx # << >> /\ main_mbx' = Tail(main_mbx)
  /\ \/ mode = "SENSOR_ACTIVE"     /\ accept_sensor_active
     \/ mode = "PB_CENTERING_HOME" /\ pb_centering_home
     \/ mode = "WAIT_PB_START"     /\ wait_pb_start
     \/ mode = "WAIT_FEED_START"   /\ wait_feed_start
     \/ mode = "FEED_CENTERING"    /\ feed_centering
     \/ mode = "CENTERING"         /\ centering_exec
     \/ mode = "FEED_ESCROW"       /\ feed_escrow
     \/ mode = "WAIT_ACCEPT_REQ"   /\ accept_wait_accept_req
     \/ mode = "DISCRIMINATION"    /\ discrimination
     \/ mode = "WAIT_REQ"          /\ accept_wait_req
     \/ mode = "WAIT_REJECT_REQ"   /\ accept_wait_reject_req
  /\ stage' = [t \in Tasks |-> IF work'[t] = work[t] THEN stage[t] ELSE "new"]
  /\ UNCHANGED lvars

-----------------------------------------------------------------------------
(* The device tasks, by what they answer.                                   *)

\* get_mpf waits until one of the blocks is free, snd_mbx queues it.
Send(msg) ==
  /\ Len(main_mbx) < MailBlocks
  /\ main_mbx' = Append(main_mbx, msg)

Busy(t) == Accepting /\ work[t] # << >>

Start(t) ==
  /\ Busy(t) /\ Head(work[t]) \in DOMAIN Unstarted /\ stage[t] # "moving"
  /\ stage' = [stage EXCEPT ![t] = "moving"]
  /\ Send(Msg(Head(work[t]), "START", NoDenomi))
  /\ UNCHANGED <<mvars, work, line_mbx, lvars>>

\* _apb_home_3100_seq_start: SUCCESS because it is home, and on to the motor.
HomeAlready ==
  /\ Busy("APB") /\ stage["APB"] = "new"
  /\ stage' = [stage EXCEPT !["APB"] = "early"]
  /\ Send(Msg("APB_HOME", "SUCCESS", NoDenomi))
  /\ UNCHANGED <<mvars, work, line_mbx, lvars>>

\* mgu_force_read_tmp clears the bit of the MGU itself, before it answers; it
\* answers without that when the CIS is off, or when main, which it preempts,
\* is between the load and the store of a change of its own to busy.
ClearsBusy ==
  /\ Busy("MGU") /\ "MGU" \in job.busy
  /\ job' = Done("MGU")
  /\ UNCHANGED <<mode, reset, second, main_mbx, dvars, line_mbx, lvars>>

Finish(t) ==
  /\ Busy(t) /\ stage[t] # "early"
  /\ LET r == Head(work[t]) IN
     \E sub \in IF r \in DOMAIN Unstarted /\ stage[t] # "moving"
                THEN Unstarted[r] ELSE Results(r) :
     \E arg \in IF r = "VALIDATION" /\ sub = "SUCCESS" THEN Denomis ELSE {NoDenomi} :
       Send(Msg(r, sub, arg))
  /\ work' = [work EXCEPT ![t] = Tail(@)]
  /\ stage' = [stage EXCEPT ![t] = "new"]
  /\ UNCHANGED <<mvars, line_mbx, lvars>>

\* A device reports a failure nobody asked about.  Bound: when no message
\* waits, since main reads what waits first.
Fault ==
  /\ Accepting /\ main_mbx = << >>
  /\ Send(Msg("STATUS", "ALARM", NoDenomi))
  /\ UNCHANGED <<mvars, dvars, line_mbx, lvars>>

\* The sensor task sees paper at the centering sensor.  Other modes ignore
\* the message.  Bound: one at a time.
PaperMoved ==
  /\ mode = "WAIT_REQ" /\ ~Waiting("SENSOR")
  /\ Send(Msg("SENSOR", "INFO", NoDenomi))
  /\ UNCHANGED <<mvars, dvars, line_mbx, lvars>>

-----------------------------------------------------------------------------
(* The ID003 line task and the host behind it.                              *)

\* _id003_accept_rsp_msg_proc and _id003_stack_rsp_msg_proc: what the mode of
\* the line task has no case for is dropped.  A refused second note waits
\* (s_id003_2nd_note 5) until the first one is acknowledged.
LineReads ==
  /\ Accepting /\ line_mbx # << >> /\ line_mbx' = Tail(line_mbx)
  /\ LET x == Head(line_mbx) IN
     IF x.sub = "VEND" /\ line = "second"
     THEN vend' = "sent" /\ UNCHANGED <<line, main_mbx>>
     ELSE IF x.sub = "SUCCESS" /\ line \in {"accept", "second"}
     THEN line' = "escrow" /\ UNCHANGED <<vend, main_mbx>>
     ELSE IF x.sub = "REJECT" /\ line = "second" /\ x.arg # "STACKER_HOME"
     THEN line' = "refused" /\ UNCHANGED <<vend, main_mbx>>
     ELSE IF x.sub = "REJECT" /\ line \in {"accept", "second", "escrow"}
     THEN line' = "reject" /\ Send(Msg("REJECT", "REQ", NoDenomi)) /\ UNCHANGED vend
     ELSE UNCHANGED <<lvars, main_mbx>>
  /\ UNCHANGED <<mvars, dvars>>

\* _id003_ack_cmd_proc: the host acknowledges the credit of the first note.
HostAcks ==
  /\ Accepting /\ line \in {"second", "refused"} /\ vend = "sent"
  /\ vend' = "acked" /\ Send(Msg("1ST_NOTE_DONE", "REQ", NoDenomi))
  /\ UNCHANGED <<mvars, dvars, line_mbx, line>>

\* The host polls: the refusal of the second note is due.
HostPolls ==
  /\ Accepting /\ line = "refused" /\ vend = "acked"
  /\ line' = "reject" /\ Send(Msg("REJECT", "REQ", NoDenomi))
  /\ UNCHANGED <<mvars, dvars, line_mbx, vend>>

\* The host decides on the note in escrow.
HostDecides ==
  /\ Accepting /\ line = "escrow"
  /\ \/ line' = "stack" /\ Send(Msg("STACK", "REQ", NoDenomi))
     \/ line' = "reject" /\ Send(Msg("REJECT", "REQ", NoDenomi))
  /\ UNCHANGED <<mvars, dvars, line_mbx, vend>>

\* The host resets; while the line task is in ID003_MODE_INITIAL it does not
\* ask main again.
HostResets ==
  /\ Accepting /\ line # "initial"
  /\ line' = "initial" /\ Send(Msg("RESET", "REQ", NoDenomi))
  /\ UNCHANGED <<mvars, dvars, line_mbx, vend>>

-----------------------------------------------------------------------------
Next ==
  \/ accept_msg_proc
  \/ \E t \in Tasks : Start(t) \/ Finish(t)
  \/ HomeAlready \/ ClearsBusy \/ Fault \/ PaperMoved
  \/ LineReads \/ HostAcks \/ HostPolls \/ HostDecides \/ HostResets

Safety == Init /\ [][Next]_vars

\* Tasks run, motors end or time out, and the host polls and acknowledges.
\* Nothing makes it decide on a note in escrow, reset, or a device fail.
Fairness ==
  /\ WF_vars(accept_msg_proc)
  /\ \A t \in Tasks : WF_vars(Finish(t))
  /\ WF_vars(stage["APB"] = "early" /\ Start("APB"))
  /\ WF_vars(LineReads) /\ WF_vars(HostAcks) /\ WF_vars(HostPolls)

Spec == Safety /\ Fairness

-----------------------------------------------------------------------------
MainOK ==
  /\ mode \in AcceptModes \cup {"INIT", "ALARM", "REJECT", "STACK"}
  /\ job \in [busy : SUBSET Tasks, alarm : SUBSET Tasks, reject : SUBSET Tasks,
             denomi : Accepted \cup {NoDenomi}]
  /\ reset \in BOOLEAN /\ second \in 0 .. 2

MailOK ==
  /\ main_mbx \in Seq([code : Requests \cup
                      {"SENSOR_ACTIVE", "SENSOR", "STATUS", "RESET", "STACK",
                       "REJECT", "1ST_NOTE_DONE"},
                     sub : {"SUCCESS", "REJECT", "ALARM", "START", "INFO", "REQ"},
                     arg : Denomis \cup {NoDenomi}])
  /\ Len(main_mbx) =< MailBlocks
  /\ line_mbx \in Seq([code : {"ACCEPT", "STACK", "RESET"},
                      sub : {"SUCCESS", "REJECT", "ALARM", "VEND"},
                      arg : Accepted \cup {NoDenomi, "STACKER_HOME"}])

WorkOK ==
  /\ DOMAIN work = Tasks /\ \A t \in Tasks : work[t] \in Seq(Asked[t])
  /\ stage \in [Tasks -> {"new", "early", "moving"}]

LineOK ==
  /\ line \in {"accept", "second", "refused", "escrow", "stack", "reject", "initial"}
  /\ vend \in {"none", "sent", "acked"}

\* Every variable keeps its type; in particular only an accepted denomination
\* is ever recorded in ex_multi_job and told to the line task, each task is
\* asked only what it can answer, and the pool of main is not exceeded.
TypeOK == MainOK /\ MailOK /\ WorkOK /\ LineOK

Owed(t) ==
  \/ work[t] # << >>
  \/ \E i \in 1 .. Len(main_mbx) :
       main_mbx[i].code \in Asked[t] /\ main_mbx[i].sub # "START"

AtRest(ts) == \A t \in ts : work[t] = << >>

\* ex_multi_job.busy never waits for nothing: for each bit of it the task still
\* works on a request, or its final answer lies unread in the mailbox.  A join
\* that counts on a bit nobody will clear never ends.
Answered == Accepting => \A t \in job.busy : Owed(t)

\* A note is offered to the host only when no reset is pending, no device has
\* recorded an alarm or a refusal, with a denomination that was accepted, and
\* when the motors that carried it are at rest; for a first note also the
\* stacker, which must be home to take it.
OfferedClean ==
  [][mode # "WAIT_REQ" /\ mode' = "WAIT_REQ" =>
       /\ ~reset /\ job.alarm = {} /\ job.reject = {}
       /\ \E d \in Accepted : line_mbx' = line_mbx \o <<Msg("ACCEPT", "SUCCESS", d)>>
       /\ AtRest({"CENTERING", "FEED", "SHUTTER"})
       /\ second = 0 => AtRest({"STACKER"})]_vars

\* A note leaves the validator, inward or outward, only when centering and
\* shutter have stopped, although the step that decides to give it back
\* clears ex_multi_job while other devices still work.
PathClear ==
  [][Accepting /\ mode' \in {"REJECT", "STACK"} =>
       AtRest({"CENTERING", "SHUTTER", "FEED"})]_vars

\* A second note is identified and offered only after the host has
\* acknowledged the credit of the first one (ex_2nd_note_uba is 2 only then).
FirstNoteSettled ==
  mode \in {"DISCRIMINATION", "WAIT_REQ"} /\ second # 0 => vend = "acked"

-----------------------------------------------------------------------------
(* The promise of NoteIntake, kept by main, line task and devices together. *)

phase ==
  CASE mode = "WAIT_REQ" -> "offered"
    [] mode = "WAIT_REJECT_REQ" -> "held"
    [] mode \in AcceptModes \ {"WAIT_REQ", "WAIT_REJECT_REQ"} -> "taking"
    [] mode = "STACK" -> "stacked"
    [] mode = "REJECT" -> "returned"
    [] OTHER -> "aborted"

Told == vend # "none" \/ \E i \in 1 .. Len(line_mbx) : line_mbx[i].sub = "VEND"

credit == IF line = "initial" \/ ~Told THEN "none"
          ELSE IF vend = "acked" THEN "acked" ELSE "told"

verdict == CASE line = "stack" -> "stack"
             [] line = "reject" -> "return"
             [] line = "initial" -> "reset"
             [] OTHER -> "none"

Intake == INSTANCE NoteIntake WITH ahead <- second # 0

\* Every step of accept mode is a step of the promised intake: the credit of
\* the note ahead is told once and by the pull's answer only, the note is
\* offered after it is acknowledged, and leaves as the host decided.
Implements == Intake!Spec

-----------------------------------------------------------------------------
(* What the intake comes to when the devices answer and the host polls.     *)

HostsTurn == mode = "WAIT_REQ" /\ line = "escrow"

Quiet == main_mbx = << >> /\ line_mbx = << >> /\ AtRest(Tasks)

\* Where the code waits for a message nobody will send: an alarm recorded
\* before the path was checked; a second note whose join counted the stacker
\* in; a feed that refused to start while the APB moved; a note held back
\* after the host reset, or before the first note's credit was told.
DeadEnd ==
  \/ mode = "SENSOR_ACTIVE" /\ job.alarm # {}
  \/ mode \in {"PB_CENTERING_HOME", "WAIT_PB_START"} /\ second # 0
  \/ mode = "WAIT_FEED_START" /\ job.alarm # {}
  \/ mode = "WAIT_REJECT_REQ" /\ line = "initial"
  \/ mode = "WAIT_REJECT_REQ" /\ line = "refused" /\ vend = "none"

\* Every intake ends, or the host has a note to decide on, or it comes to
\* rest in one of the dead ends and in no other state.
Settles == Accepting ~> \/ ~Accepting
                        \/ HostsTurn
                        \/ Quiet /\ DeadEnd

-----------------------------------------------------------------------------
(* What comments of the code say, and the code does not do.                 *)

\* mode_accpet_uba_stack handles the pull of the first note, and reports its
\* credit, in accept mode; whoever reads the answer, the line task is told.
CreditTold ==
  [][/\ main_mbx # << >> /\ main_mbx' = Tail(main_mbx)
     /\ m.code = "STACKER_PULL" /\ m.sub = "SUCCESS"
    => \E i \in 1 .. Len(line_mbx') : line_mbx'[i].sub = "VEND"]_vars

=============================================================================
