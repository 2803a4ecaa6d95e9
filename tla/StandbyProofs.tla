---------------------------- MODULE StandbyProofs -----------------------------
(***************************************************************************)
(* Theorems about Standby for every pool size, every number of events and  *)
(* every position the devices may be in at first: its types, that one      *)
(* motor moves at a time, that main is asked for a reject, and takes a     *)
(* note, only where both tasks mean it, that nothing is missed where a     *)
(* note is waited for, that a flagged reset goes first, and that the two   *)
(* tasks agree where all is at rest, but for the dead ends that are named. *)
(***************************************************************************)
EXTENDS Standby, SequenceTheorems, TLAPS

Subs == {"SUCCESS", "ALARM", "BOX", "RETRY", "INTERIM", "none"} \cup Timers

Messages ==
  [code : Moves \cup {"SENSOR", "SENSOR_ACTIVE", "STATUS", "TIMER", "ENABLE", "DISABLE",
                      "ACCEPT", "REJECT", "RESET", "SET_STATUS"},
   sub : Subs]

LineMessages ==
  [code : {"ENABLE", "DISABLE", "ACCEPT", "REJECT", "RESET", "STATUS"},
   sub : {"ACCEPT", "REJECT", "ALARM", "SUCCESS"}]

Coded(c) == {x \in Messages : x.code \in c}

Has(q, S) == \E i \in 1 .. Len(q) : q[i] \in S
One(q, S) == \A i, j \in 1 .. Len(q) : q[i] \in S /\ q[j] \in S => i = j

\* The moves of which only one is under way, and what ends them.
Motors  == Moves \ {"FORCE_REV"}
Replies == Coded(Motors \cup {"STATUS"})

Moving ==
  \/ mode1 \in {"ACTIVE_ENABLE", "ACTIVE_DISABLE"} /\ mode2 \in Homing
  \/ mode1 = "ADJUST"
  \/ mode1 = "REJECT" /\ mode2 \in {"FEED_REJECT", AfterReject, "WAIT_WID"}

\* A move is under way, or its answer is, only while main waits for it.
MovesOnce ==
  /\ OneMoves
  /\ One(main_mbx, Replies)
  /\ work \cap Motors # {} => ~Has(main_mbx, Replies)
  /\ ~Moving => work \cap Motors = {} /\ ~Has(main_mbx, Replies)

\* Once the host has reset, the line task asks for nothing that main could
\* take for the go-ahead, and what it asked before is read before the reset.
Over == {"INITIAL", "ERROR", "AUTO_RECOVERY"}
Asked == Coded({"ENABLE", "DISABLE", "ACCEPT", "REJECT"})

Late(q) ==
  \A i, k \in 1 .. Len(q) : q[i] \in Coded({"RESET"}) /\ i < k => q[k] \notin Asked

Resetting ==
  \/ Moving
  \/ mode1 = "ACTIVE_DISABLE" /\ mode2 = "FORCE_REV"
  \/ mode1 = "REJECT" /\ mode2 = "NOTE_REMOVED"
  \/ mode1 \in {"REJECT_STANDBY", "ALARM"}

ResetLast ==
  /\ Late(main_mbx)
  /\ Has(main_mbx, Coded({"RESET"})) => line \in Over
  /\ reset => Resetting /\ line \in Over /\ ~Has(main_mbx, Asked)

\* A reject is asked for once, for what main told.
Ended    == mode1 \in {"ALARM", "INIT"}
Awaited  == mode2 = "WAIT_REJECT_REQ" \/ Ended
Refusals == {x \in LineMessages : x.sub = "REJECT"}

RejectOnce ==
  /\ Has(main_mbx, Coded({"REJECT"})) => Awaited /\ ~Has(line_mbx, Refusals)
  /\ Has(line_mbx, Refusals) => Awaited
  /\ One(main_mbx, Coded({"REJECT"})) /\ One(line_mbx, Refusals)

\* The line task stays with the note that it asked main to take.
Aborts == {x \in LineMessages : x.code \in {"ACCEPT", "RESET", "STATUS"}}

AcceptMeant ==
  /\ ~Ended /\ (Has(main_mbx, Coded({"ACCEPT"})) \/ mode1 = "ACCEPT") =>
       InLine({"ACCEPT", "REJECT_WAIT_ACCEPT_RSP", "INITIAL"})
  /\ Has(line_mbx, Aborts) => Ended
  /\ inhibit => ~InLine({"ACCEPT", "ENABLE", "ENABLE_WAIT_POLL"})

\* What changes while a note is waited for is in the mailbox.
Still     == box /\ off = {} /\ paper = "NON"
StillShut == /\ box /\ off \subseteq {"STACKER_HALF"}
             /\ (paper = "NON" /\ off = {}) \/ (paper = "ENTRANCE" /\ ~option)

Watched ==
  /\ In("ENABLE", "WAIT_BILL_IN") => Has(main_mbx, Coded({"SENSOR"})) \/ Still
  /\ In("DISABLE", "WAIT_REQ") => Has(main_mbx, Coded({"SENSOR"})) \/ StillShut
  /\ mode2 = "FORCE_REV" \/ "FORCE_REV" \in work => option

IInv ==
  /\ TypeOK /\ events \in Nat
  /\ main_mbx \in Seq(Messages) /\ line_mbx \in Seq(LineMessages)
  /\ MovesOnce /\ ResetLast /\ RejectOnce /\ AcceptMeant /\ Watched

USE BlocksAssumption, OptionsAssumption, LostAssumption, BoundAssumption

------------------------------------------------------------------------------
(* What lies in a mailbox after it was read or written.                       *)

LEMMA TailHas ==
  ASSUME NEW T, NEW q \in Seq(T), q # << >>, NEW S
  PROVE  /\ Tail(q) \in Seq(T) /\ Len(Tail(q)) \in Nat /\ Len(Tail(q)) = Len(q) - 1
         /\ Head(q) \in T /\ (Head(q) \in S => Has(q, S))
         /\ Has(Tail(q), S) => Has(q, S)
         /\ Has(q, S) => Head(q) \in S \/ Has(Tail(q), S)
         /\ One(q, S) => One(Tail(q), S)
         /\ One(q, S) /\ Head(q) \in S => ~Has(Tail(q), S)
<1>1. /\ Tail(q) \in Seq(T) /\ Len(q) \in Nat /\ Len(q) >= 1 /\ Len(Tail(q)) = Len(q) - 1
      /\ Head(q) = q[1] /\ Head(q) \in T
      /\ \A i \in 1 .. Len(Tail(q)) : Tail(q)[i] = q[i + 1]
  BY HeadTailProperties, EmptySeq, LenProperties
<1>2. 1 \in 1 .. Len(q) /\ \A i \in 1 .. Len(Tail(q)) : i + 1 \in 1 .. Len(q) /\ i + 1 # 1
  BY <1>1
<1>3. \A i \in 1 .. Len(q) : i # 1 => i - 1 \in 1 .. Len(Tail(q)) /\ (i - 1) + 1 = i
  BY <1>1
<1>4. Has(q, S) => Head(q) \in S \/ Has(Tail(q), S)
  BY <1>1, <1>3 DEF Has
<1>5. Has(Tail(q), S) => Has(q, S)
  BY <1>1, <1>2 DEF Has
<1>6. ASSUME One(q, S) PROVE One(Tail(q), S)
  <2> SUFFICES ASSUME NEW i \in 1 .. Len(Tail(q)), NEW j \in 1 .. Len(Tail(q)),
                      Tail(q)[i] \in S, Tail(q)[j] \in S
               PROVE  i = j
    BY DEF One
  <2>1. i + 1 = j + 1
    BY <1>1, <1>2, <1>6 DEF One
  <2> QED
    BY <2>1
<1>7. One(q, S) /\ Head(q) \in S => ~Has(Tail(q), S)
  BY <1>1, <1>2 DEF One, Has
<1> QED
  BY <1>1, <1>2, <1>4, <1>5, <1>6, <1>7 DEF Has

LEMMA AppendHas ==
  ASSUME NEW T, NEW q \in Seq(T), NEW x \in T, NEW S
  PROVE  /\ Append(q, x) \in Seq(T) /\ Len(Append(q, x)) = Len(q) + 1 /\ Len(q) \in Nat
         /\ Has(Append(q, x), S) <=> Has(q, S) \/ x \in S
         /\ One(q, S) /\ (x \notin S \/ ~Has(q, S)) => One(Append(q, x), S)
<1>1. /\ Append(q, x) \in Seq(T) /\ Len(q) \in Nat /\ Len(Append(q, x)) = Len(q) + 1
      /\ \A i \in 1 .. Len(q) : Append(q, x)[i] = q[i]
      /\ Append(q, x)[Len(q) + 1] = x
  BY AppendProperties, LenProperties
<1>2. /\ \A i \in 1 .. Len(Append(q, x)) : i \in 1 .. Len(q) \/ i = Len(q) + 1
      /\ \A i \in 1 .. Len(q) : i \in 1 .. Len(Append(q, x))
      /\ Len(q) + 1 \in 1 .. Len(Append(q, x))
  BY <1>1
<1>3. Has(Append(q, x), S) <=> Has(q, S) \/ x \in S
  BY <1>1, <1>2 DEF Has
<1>4. One(q, S) /\ (x \notin S \/ ~Has(q, S)) => One(Append(q, x), S)
  BY <1>1, <1>2 DEF One, Has
<1> QED
  BY <1>1, <1>3, <1>4

LEMMA TailLate ==
  ASSUME NEW q \in Seq(Messages), q # << >>, Late(q)
  PROVE  /\ Late(Tail(q))
         /\ Head(q) \in Coded({"RESET"}) => ~Has(Tail(q), Asked)
<1>1. /\ Len(q) \in Nat /\ Len(q) >= 1 /\ Len(Tail(q)) = Len(q) - 1 /\ Head(q) = q[1]
      /\ \A i \in 1 .. Len(Tail(q)) : Tail(q)[i] = q[i + 1]
  BY HeadTailProperties, EmptySeq, LenProperties
<1>2. /\ 1 \in 1 .. Len(q)
      /\ \A i \in 1 .. Len(Tail(q)) : i + 1 \in 1 .. Len(q) /\ 1 < i + 1
      /\ \A i, k \in 1 .. Len(Tail(q)) : i < k => i + 1 < k + 1
  BY <1>1
<1> QED
  BY <1>1, <1>2 DEF Late, Has

LEMMA AppendLate ==
  ASSUME NEW q \in Seq(Messages), NEW x \in Messages, Late(q),
         x \notin Asked \/ ~Has(q, Coded({"RESET"}))
  PROVE  Late(Append(q, x))
<1>1. /\ Len(q) \in Nat /\ Len(Append(q, x)) = Len(q) + 1
      /\ \A i \in 1 .. Len(q) : Append(q, x)[i] = q[i]
      /\ Append(q, x)[Len(q) + 1] = x
  BY AppendProperties, LenProperties
<1>2. /\ \A i \in 1 .. Len(Append(q, x)) : i \in 1 .. Len(q) \/ i = Len(q) + 1
      /\ \A i, k \in 1 .. Len(Append(q, x)) : i < k => i \in 1 .. Len(q)
  BY <1>1
<1> QED
  BY <1>1, <1>2 DEF Late, Has

------------------------------------------------------------------------------
(* What a handler does, whatever branch it takes.                             *)

Reading == IInv /\ main_mbx # << >> /\ Running

\* Main may leave the mode: no motor moves, or this message ends the move.
MayLeave == ~Moving \/ m \in Replies

Typed ==
  /\ mode1' \in DOMAIN Modes2 /\ mode2' \in Modes2[mode1'] /\ back' \in Alarms
  /\ reset' \in BOOLEAN /\ {job', backup'} \subseteq {"NON", "BOX"}
  /\ work' \subseteq Moves \cup Timers

Mailed == Read \/ \E c \in {"SENSOR", "SENSOR_ACTIVE"} : ReadAndAsk(c)

ToldKept ==
  \/ line_mbx' = line_mbx
  \/ \E x \in LineMessages :
       /\ line_mbx' = Append(line_mbx, x)
       /\ x \in Refusals => mode2' = "WAIT_REJECT_REQ" /\ ~Awaited
       /\ x \in Aborts => mode1' = "ALARM"

MovesKept ==
  /\ \/ work' \cap Motors \subseteq work
     \/ MayLeave /\ Moving' /\ \E r \in Motors : work' \cap Motors \subseteq work \cup {r}
  /\ Moving' \/ MayLeave

ResetKept ==
  /\ reset' => Resetting' /\ (reset \/ m.code = "RESET")
  /\ reset /\ <<mode1, mode2>>' # <<mode1, mode2>> =>
       \/ mode1' \in {"INIT", "ALARM"}
       \/ mode2' = mode2 \/ mode1' = "ADJUST"
       \/ mode2 = AfterReject \/ mode1 = "REJECT_STANDBY"

TurnKept ==
  /\ mode1 = "ALARM" => mode1' \in {"ALARM", "INIT"}
  /\ mode2 = "WAIT_REJECT_REQ" => Awaited' \/ m.code = "REJECT"
  /\ mode1' = "ACCEPT" => m.code = "ACCEPT"

WatchKept ==
  /\ In("ENABLE", "WAIT_BILL_IN")' =>
       ReadAndAsk("SENSOR") \/ Still \/ (In("ENABLE", "WAIT_BILL_IN") /\ m.code # "SENSOR")
  /\ In("DISABLE", "WAIT_REQ")' =>
       ReadAndAsk("SENSOR") \/ StillShut \/ (In("DISABLE", "WAIT_REQ") /\ m.code # "SENSOR")
  /\ mode2' = "FORCE_REV" \/ "FORCE_REV" \in work' => option

Effect == Typed /\ Mailed /\ ToldKept /\ MovesKept /\ ResetKept /\ TurnKept /\ WatchKept

LEMMA BeforeRead ==
  ASSUME Reading
  PROVE  /\ m \in Messages /\ mode1 \in DOMAIN Modes2 /\ mode1 \notin {"INIT", "ACCEPT"}
         /\ mode2 \in Modes2[mode1] /\ back \in Alarms /\ {reset, enabling, option, box} \subseteq BOOLEAN
         /\ {job, backup} \subseteq {"NON", "BOX"} /\ work \subseteq Moves \cup Timers
         /\ reset => Resetting /\ m.code \notin {"ENABLE", "DISABLE", "ACCEPT", "REJECT"}
         /\ mode2 = "FORCE_REV" \/ "FORCE_REV" \in work => option
         /\ m.code \in Motors \cup {"STATUS"} => m \in Replies
<1>1. /\ main_mbx \in Seq(Messages) /\ TypeOK /\ ResetLast /\ Watched
      /\ main_mbx # << >> /\ mode1 \notin {"INIT", "ACCEPT"}
  BY DEF Reading, IInv, Running
<1>2. m \in Messages /\ (m \in Asked => Has(main_mbx, Asked))
  BY <1>1, TailHas DEF m
<1>3. m.code \in {"ENABLE", "DISABLE", "ACCEPT", "REJECT"} => m \in Asked
  BY <1>2 DEF Asked, Coded
<1>4. m.code \in Motors \cup {"STATUS"} => m \in Replies
  BY <1>2 DEF Replies, Coded
<1> QED
  BY <1>1, <1>2, <1>3, <1>4 DEF TypeOK, ResetLast, Watched

\* The mode stays as it is.
LEMMA SameEffect ==
  ASSUME Reading, UNCHANGED <<mode1, mode2, back, backup>>, Mailed,
         job' \in {"NON", "BOX"}, work' \subseteq Moves \cup Timers,
         work' \cap Motors \subseteq work, "FORCE_REV" \in work' => option,
         \/ reset' = reset
         \/ reset' = TRUE /\ m.code = "RESET" /\ Resetting,
         \/ line_mbx' = line_mbx
         \/ \E x \in LineMessages \ Refusals :
              line_mbx' = Append(line_mbx, x) /\ (x \in Aborts => mode1 = "ALARM"),
         In("ENABLE", "WAIT_BILL_IN") => Still \/ m.code # "SENSOR",
         In("DISABLE", "WAIT_REQ") => StillShut \/ m.code # "SENSOR"
  PROVE  Effect
<1>1. Typed
  BY BeforeRead DEF Typed
<1>2. Moving' = Moving /\ Resetting' = Resetting /\ Awaited' = Awaited
  BY DEF Moving, Resetting, Awaited, Ended
<1>3. ToldKept
  BY DEF ToldKept
<1>4. MovesKept
  BY <1>2 DEF MovesKept, MayLeave
<1>5. ResetKept
  BY <1>2, BeforeRead DEF ResetKept
<1>6. TurnKept
  BY <1>2, BeforeRead DEF TurnKept, Awaited
<1>7. WatchKept
  BY BeforeRead DEF WatchKept, In
<1> QED
  BY <1>1, <1>3, <1>4, <1>5, <1>6, <1>7 DEF Effect

\* In an alarm, main goes to another one, or waits.
LEMMA AlarmEffect ==
  ASSUME Reading, mode1 = "ALARM", mode1' = "ALARM", mode2' \in Alarms, back' \in Alarms,
         UNCHANGED Jobs, Mailed, work' \subseteq Moves \cup Timers,
         work' \cap (Motors \cup {"FORCE_REV"}) \subseteq work,
         \/ line_mbx' = line_mbx
         \/ \E x \in LineMessages \ Refusals : line_mbx' = Append(line_mbx, x)
  PROVE  Effect
<1>1. Typed
  BY BeforeRead DEF Typed, Modes2, Jobs
<1>2. ~Moving /\ ~Moving' /\ Resetting' /\ Awaited'
  BY DEF Moving, Resetting, Awaited, Ended
<1>3. ToldKept
  BY DEF ToldKept
<1>4. MovesKept
  BY <1>2 DEF MovesKept, MayLeave
<1>5. ResetKept
  BY <1>2 DEF ResetKept, Jobs
<1>6. TurnKept
  BY <1>2 DEF TurnKept
<1>7. WatchKept
  <2>1. mode2' # "FORCE_REV"
    BY DEF Alarms
  <2> QED
    BY <2>1, BeforeRead DEF WatchKept, In
<1> QED
  BY <1>1, <1>3, <1>4, <1>5, <1>6, <1>7 DEF Effect

\* Main goes to another mode, and no motor starts.
LEMMA GoEffect ==
  ASSUME Reading, NEW a \in DOMAIN Modes2, NEW b \in Modes2[a], SetMode(a, b), Mailed,
         back' \in Alarms, {job', backup'} \subseteq {"NON", "BOX"},
         work' \subseteq work \cup Timers, MayLeave, ToldKept,
         \/ reset' = FALSE
         \/ reset' = reset /\ (reset => Resetting'),
         reset => \/ a \in {"INIT", "ALARM"} \/ b = mode2 \/ a = "ADJUST"
                  \/ mode2 = AfterReject \/ mode1 = "REJECT_STANDBY",
         mode1 = "ALARM" => a \in {"ALARM", "INIT"},
         mode2 = "WAIT_REJECT_REQ" => Awaited' \/ m.code = "REJECT",
         a = "ACCEPT" => m.code = "ACCEPT",
         a = "ENABLE" /\ b = "WAIT_BILL_IN" => ReadAndAsk("SENSOR"),
         a = "DISABLE" /\ b = "WAIT_REQ" => ReadAndAsk("SENSOR"),
         b # "FORCE_REV"
  PROVE  Effect
<1>0. mode1' = a /\ mode2' = b
  BY DEF SetMode
<1>1. Timers \cap (Motors \cup {"FORCE_REV"}) = {} /\ Motors \subseteq Moves
  BY DEF Timers, Motors, Moves, Homing
<1>2. Typed
  BY <1>0, BeforeRead DEF Typed
<1>3. MovesKept
  BY <1>1 DEF MovesKept
<1>4. ResetKept
  BY <1>0, BeforeRead DEF ResetKept
<1>5. TurnKept
  BY <1>0 DEF TurnKept
<1>6. WatchKept
  BY <1>0, <1>1, BeforeRead DEF WatchKept, In
<1> QED
  BY <1>2, <1>3, <1>4, <1>5, <1>6 DEF Effect

------------------------------------------------------------------------------
(* The ways a handler ends.                                                    *)

\* A message that changes nothing of the mode.
LEMMA StayEffect ==
  ASSUME Reading, Stay \/ Rearm \/ Record,
         In("ENABLE", "WAIT_BILL_IN") => Still \/ m.code # "SENSOR",
         In("DISABLE", "WAIT_REQ") => StillShut \/ m.code # "SENSOR"
  PROVE  Effect
<1>1. /\ UNCHANGED <<mode1, mode2, back, backup, reset, line_mbx>> /\ Read
      /\ job' \in {job, "BOX"} /\ work' \in {work, work \cup {"TEMP_ADJ"}}
  BY DEF Stay, Rearm, Record, Jobs, Start
<1>2. "TEMP_ADJ" \in Timers /\ "TEMP_ADJ" \notin Motors \cup {"FORCE_REV"}
  BY DEF Timers, Motors, Moves, Homing
<1>3. job' \in {"NON", "BOX"} /\ work' \subseteq Moves \cup Timers
  BY <1>1, <1>2, BeforeRead
<1>4. work' \cap Motors \subseteq work /\ ("FORCE_REV" \in work' => option)
  BY <1>1, <1>2, BeforeRead
<1>5. Mailed
  BY <1>1 DEF Mailed
<1> QED
  BY <1>1, <1>3, <1>4, <1>5, SameEffect

LEMMA FlagEffect ==
  ASSUME Reading, Flag, Resetting, m.code = "RESET"
  PROVE  Effect
<1>1. /\ UNCHANGED <<mode1, mode2, back, backup, job, work, line_mbx>> /\ Read /\ reset' = TRUE
  BY DEF Flag
<1>2. Mailed
  BY <1>1 DEF Mailed
<1> QED
  BY <1>1, <1>2, BeforeRead, SameEffect

Conns == {"ENABLE", "DISABLE", "ACCEPT", "REJECT", "RESET", "STATUS"}

LEMMA AlarmedFacts ==
  ASSUME Reading, NEW conn \in Conns, NEW b \in Alarms, Alarmed(conn, b)
  PROVE  /\ back' \in Alarms /\ backup' = "NON" /\ Mailed /\ work' \subseteq work
         /\ ReadAndAsk("SENSOR")
         /\ mode1' = "ALARM" \/ conn \notin {"ACCEPT", "RESET", "STATUS"} => ToldKept
<1>1. Msg(conn, "ALARM") \in LineMessages /\ Msg(conn, "ALARM") \notin Refusals
  BY DEF Msg, LineMessages, Refusals, Conns
<1>2. conn \notin {"ACCEPT", "RESET", "STATUS"} => Msg(conn, "ALARM") \notin Aborts
  BY DEF Msg, Aborts
<1>3. line_mbx' = Append(line_mbx, Msg(conn, "ALARM"))
  BY DEF Alarmed, Tell
<1>4. mode1' = "ALARM" \/ conn \notin {"ACCEPT", "RESET", "STATUS"} => ToldKept
  BY <1>1, <1>2, <1>3 DEF ToldKept
<1> QED
  BY <1>4 DEF Alarmed, Mailed, Cancel

\* _main_alarm_sub
LEMMA AlarmSubEffect ==
  ASSUME Reading, MayLeave, NEW conn \in Conns, NEW b \in Alarms, AlarmSub(conn, b)
  PROVE  Effect
<1>1. SetMode("ALARM", "WAIT_SENSOR_ACTIVE") /\ Alarmed(conn, b) /\ UNCHANGED <<reset, job>>
  BY DEF AlarmSub
<1>2. mode1' = "ALARM" /\ Resetting' /\ Awaited'
  BY <1>1 DEF SetMode, Resetting, Awaited, Ended
<1>3. "ALARM" \in DOMAIN Modes2 /\ "WAIT_SENSOR_ACTIVE" \in Modes2["ALARM"]
  BY DEF Modes2, Alarms
<1>4. back' \in Alarms /\ backup' = "NON" /\ Mailed /\ work' \subseteq work \cup Timers /\ ToldKept
  BY <1>1, <1>2, AlarmedFacts
<1>5. {job', backup'} \subseteq {"NON", "BOX"}
  BY <1>1, <1>4, BeforeRead
<1> QED
  BY <1>1, <1>2, <1>3, <1>4, <1>5, GoEffect

\* _main_set_init
LEMMA SetInitEffect ==
  ASSUME Reading, MayLeave, SetInit
  PROVE  Effect
<1>1. reset' = FALSE /\ job' = "NON"
  BY DEF SetInit
<1>2. CASE /\ box /\ SetMode("INIT", "SENSOR_ACTIVE") /\ backup' = "NON"
           /\ Read /\ Cancel("TEMP_ADJ") /\ UNCHANGED <<back, line_mbx>>
  <2>1. Awaited' /\ Mailed /\ ToldKept /\ work' \subseteq work \cup Timers
    BY <1>2 DEF Awaited, Ended, SetMode, Mailed, ToldKept, Cancel
  <2>2. "INIT" \in DOMAIN Modes2 /\ "SENSOR_ACTIVE" \in Modes2["INIT"]
    BY DEF Modes2
  <2>3. back' \in Alarms /\ {job', backup'} \subseteq {"NON", "BOX"}
    BY <1>1, <1>2, BeforeRead
  <2> QED
    BY <1>1, <1>2, <2>1, <2>2, <2>3, GoEffect
<1>3. CASE SetMode("ALARM", "WAIT_SENSOR_ACTIVE") /\ Alarmed("RESET", "CONFIRM_BOX")
  <2>1. mode1' = "ALARM" /\ Awaited'
    BY <1>3 DEF SetMode, Awaited, Ended
  <2>2. "ALARM" \in DOMAIN Modes2 /\ "WAIT_SENSOR_ACTIVE" \in Modes2["ALARM"]
    BY DEF Modes2, Alarms
  <2>3. "RESET" \in Conns /\ "CONFIRM_BOX" \in Alarms
    BY DEF Conns, Alarms
  <2>4. back' \in Alarms /\ backup' = "NON" /\ Mailed /\ work' \subseteq work \cup Timers /\ ToldKept
    BY <1>3, <2>1, <2>3, AlarmedFacts
  <2> QED
    BY <1>1, <1>3, <2>1, <2>2, <2>4, GoEffect
<1> QED
  BY <1>2, <1>3 DEF SetInit

\* Main may go where it wants to: no reset, alarm or reject is due.
Free == MayLeave /\ ~reset /\ mode1 # "ALARM" /\ mode2 # "WAIT_REJECT_REQ"

\* The modes that are gone to with their messages, and no motor starts.
LEMMA FreeEffect ==
  ASSUME Reading, Free, NEW a \in DOMAIN Modes2, NEW b \in Modes2[a], SetMode(a, b), Mailed,
         UNCHANGED <<back, reset>>, {job', backup'} \subseteq {"NON", "BOX"},
         work' \subseteq work \cup Timers, ToldKept, a # "ACCEPT", b # "FORCE_REV",
         In("ENABLE", "WAIT_BILL_IN")' \/ In("DISABLE", "WAIT_REQ")' => ReadAndAsk("SENSOR")
  PROVE  Effect
<1>1. a = "ENABLE" /\ b = "WAIT_BILL_IN" => ReadAndAsk("SENSOR")
  BY DEF SetMode, In
<1>2. a = "DISABLE" /\ b = "WAIT_REQ" => ReadAndAsk("SENSOR")
  BY DEF SetMode, In
<1>3. back' \in Alarms
  BY BeforeRead
<1> QED
  BY <1>1, <1>2, <1>3, GoEffect DEF Free

LEMMA IdleFacts ==
  ASSUME Reading, NEW a, NEW b, Idle(a, b)
  PROVE  /\ SetMode(a, b) /\ Mailed /\ ReadAndAsk("SENSOR") /\ UNCHANGED <<back, reset>>
         /\ {job', backup'} \subseteq {"NON", "BOX"} /\ work' \subseteq work \cup Timers /\ ToldKept
<1>1. "TEMP_ADJ" \in Timers
  BY DEF Timers
<1> QED
  BY <1>1, BeforeRead DEF Idle, Mailed, ToldKept, Start

LEMMA SetEnableEffect ==
  ASSUME Reading, Free, SetEnable
  PROVE  Effect
<1>1. CASE Idle("ENABLE", "WAIT_BILL_IN")
  <2>1. "ENABLE" \in DOMAIN Modes2 /\ "WAIT_BILL_IN" \in Modes2["ENABLE"]
    BY DEF Modes2
  <2> QED
    BY <1>1, <2>1, IdleFacts, FreeEffect
<1>2. CASE AlarmSub("ENABLE", "BOX")
  BY <1>2, AlarmSubEffect DEF Free, Conns, Alarms
<1> QED
  BY <1>1, <1>2 DEF SetEnable

LEMMA SetDisableEffect ==
  ASSUME Reading, Free, SetDisable
  PROVE  Effect
<1>1. CASE Idle("DISABLE", "WAIT_REQ")
  <2>1. "DISABLE" \in DOMAIN Modes2 /\ "WAIT_REQ" \in Modes2["DISABLE"]
    BY DEF Modes2
  <2> QED
    BY <1>1, <2>1, IdleFacts, FreeEffect
<1>2. CASE AlarmSub("DISABLE", "BOX")
  BY <1>2, AlarmSubEffect DEF Free, Conns, Alarms
<1> QED
  BY <1>1, <1>2 DEF SetDisable

LEMMA WaitRejectEffect ==
  ASSUME Reading, MayLeave, ~reset, mode1 # "ALARM", NEW a \in {"ENABLE", "DISABLE"}, WaitReject(a)
  PROVE  Effect
<1>1. a \in DOMAIN Modes2 /\ "WAIT_REJECT_REQ" \in Modes2[a] /\ a \in Conns /\ "BOX" \in Alarms
  BY DEF Modes2, Conns, Alarms
<1>2. /\ SetMode(a, "WAIT_REJECT_REQ") /\ Mailed /\ back' \in Alarms /\ UNCHANGED reset
      /\ {job', backup'} \subseteq {"NON", "BOX"} /\ work' \subseteq work \cup Timers /\ ToldKept
  <2>1. CASE Idle(a, "WAIT_REJECT_REQ")
    BY <2>1, IdleFacts, BeforeRead
  <2>2. CASE SetMode(a, "WAIT_REJECT_REQ") /\ Alarmed(a, "BOX") /\ UNCHANGED <<reset, job>>
    <3>1. back' \in Alarms /\ backup' = "NON" /\ Mailed /\ work' \subseteq work /\ ToldKept
      BY <1>1, <2>2, AlarmedFacts
    <3> QED
      BY <2>2, <3>1, BeforeRead
  <2> QED
    BY <2>1, <2>2 DEF WaitReject
<1>3. Awaited'
  BY <1>2 DEF SetMode, Awaited
<1> QED
  BY <1>1, <1>2, <1>3, GoEffect

LEMMA SetAcceptEffect ==
  ASSUME Reading, Free, m.code = "ACCEPT", SetAccept
  PROVE  Effect
<1>1. CASE /\ SetMode("ACCEPT", "SENSOR_ACTIVE") /\ Read /\ Cancel("TEMP_ADJ")
           /\ UNCHANGED <<back, Jobs, line_mbx>>
  <2>1. "ACCEPT" \in DOMAIN Modes2 /\ "SENSOR_ACTIVE" \in Modes2["ACCEPT"]
    BY DEF Modes2
  <2>2. Mailed /\ ToldKept /\ work' \subseteq work \cup Timers /\ UNCHANGED <<back, Jobs>>
    BY <1>1 DEF Mailed, ToldKept, Cancel
  <2>3. back' \in Alarms /\ {job', backup'} \subseteq {"NON", "BOX"} /\ reset' = reset
    BY <2>2, BeforeRead DEF Jobs
  <2> QED
    BY <1>1, <2>1, <2>2, <2>3, GoEffect DEF Free
<1>2. CASE AlarmSub("ACCEPT", "BOX")
  BY <1>2, AlarmSubEffect DEF Free, Conns, Alarms
<1> QED
  BY <1>1, <1>2 DEF SetAccept

LEMMA TellInEffect ==
  ASSUME Reading, Free, NEW a \in {"ENABLE", "ACTIVE_ENABLE", "REJECT"},
         NEW conn \in {"ENABLE", "REJECT"}, NEW sub \in {"ACCEPT", "SUCCESS"},
         TellIn(a, "WAIT_REQ", conn, sub)
  PROVE  Effect
<1>1. a \in DOMAIN Modes2 /\ "WAIT_REQ" \in Modes2[a]
  BY DEF Modes2, ActiveModes, Rejects
<1>2. Msg(conn, sub) \in LineMessages /\ Msg(conn, sub) \notin Refusals \cup Aborts
  BY DEF Msg, LineMessages, Refusals, Aborts
<1>3. /\ SetMode(a, "WAIT_REQ") /\ line_mbx' = Append(line_mbx, Msg(conn, sub)) /\ Read
      /\ UNCHANGED <<back, reset, job, backup, work>>
  BY DEF TellIn, Tell, Jobs
<1>4. Mailed /\ ToldKept
  BY <1>2, <1>3 DEF Mailed, ToldKept
<1>5. ~In("ENABLE", "WAIT_BILL_IN")' /\ ~In("DISABLE", "WAIT_REQ")'
  BY <1>3 DEF SetMode, In
<1> QED
  BY <1>1, <1>3, <1>4, <1>5, BeforeRead, FreeEffect

\* _main_reject_sub
LEMMA RejectSubEffect ==
  ASSUME Reading, MayLeave, ~Awaited, NEW a \in {"ENABLE", "DISABLE", "ACTIVE_ENABLE", "REJECT_STANDBY"},
         reset => mode1 = "REJECT_STANDBY" /\ a = "REJECT_STANDBY",
         NEW conn \in {"ENABLE", "DISABLE", "REJECT"}, RejectSub(a, conn)
  PROVE  Effect
<1>1. a \in DOMAIN Modes2 /\ "WAIT_REJECT_REQ" \in Modes2[a]
  BY DEF Modes2, ActiveModes, Standbys
<1>2. Msg(conn, "REJECT") \in LineMessages /\ Msg(conn, "REJECT") \notin Aborts
  BY DEF Msg, LineMessages, Aborts
<1>3. /\ SetMode(a, "WAIT_REJECT_REQ") /\ line_mbx' = Append(line_mbx, Msg(conn, "REJECT")) /\ Read
      /\ UNCHANGED <<back, reset>> /\ backup' = job /\ job' = "NON" /\ work' \subseteq work
  BY DEF RejectSub, Tell, Cancel
<1>4. Mailed /\ ToldKept /\ mode1 # "ALARM" /\ mode2 # "WAIT_REJECT_REQ"
  BY <1>2, <1>3 DEF Mailed, ToldKept, SetMode, Awaited, Ended
<1>5. reset => Resetting'
  BY <1>3 DEF SetMode, Resetting
<1>6. {job', backup'} \subseteq {"NON", "BOX"} /\ back' \in Alarms
  BY <1>3, BeforeRead
<1> QED
  BY <1>1, <1>3, <1>4, <1>5, <1>6, GoEffect

\* _main_reject_req
LEMMA RejectReqEffect ==
  ASSUME Reading, MayLeave, mode1 # "ALARM", m.code = "REJECT", RejectReq
  PROVE  Effect
<1>1. "REJECT" \in DOMAIN Modes2 /\ "SENSOR_ACTIVE" \in Modes2["REJECT"]
  BY DEF Modes2, Rejects
<1>2. /\ SetMode("REJECT", "SENSOR_ACTIVE") /\ ReadAndAsk("SENSOR_ACTIVE")
      /\ UNCHANGED <<back, reset, job, backup, work, line_mbx>>
  BY DEF RejectReq, Jobs
<1>3. Mailed /\ ToldKept
  BY <1>2 DEF Mailed, ToldKept
<1> QED
  BY <1>1, <1>2, <1>3, BeforeRead, GoEffect

LEMMA NoteStayEffect ==
  ASSUME Reading, MayLeave, mode1 = "REJECT", reset => mode2 = AfterReject, NoteStay
  PROVE  Effect
<1>1. "REJECT_STANDBY" \in DOMAIN Modes2 /\ "NOTE_STAY" \in Modes2["REJECT_STANDBY"]
  BY DEF Modes2, Standbys
<1>2. /\ SetMode("REJECT_STANDBY", "NOTE_STAY") /\ ReadAndAsk("SENSOR") /\ work' \subseteq work
      /\ UNCHANGED <<back, reset, job, backup, line_mbx>>
  BY DEF NoteStay, Jobs, Cancel
<1>3. Mailed /\ ToldKept /\ Resetting'
  BY <1>2 DEF Mailed, ToldKept, Resetting, SetMode
<1>4. mode2 # "WAIT_REJECT_REQ"
  BY BeforeRead DEF Modes2, Rejects
<1> QED
  BY <1>1, <1>2, <1>3, <1>4, BeforeRead, GoEffect

LEMMA NoteRemovedEffect ==
  ASSUME Reading, MayLeave, In("REJECT_STANDBY", "CONFIRM_NOTE_STAY"), NoteRemoved
  PROVE  Effect
<1>1. "REJECT" \in DOMAIN Modes2 /\ "NOTE_REMOVED" \in Modes2["REJECT"]
  BY DEF Modes2, Rejects
<1>2. /\ SetMode("REJECT", "NOTE_REMOVED") /\ ReadAndAsk("SENSOR_ACTIVE") /\ work' \subseteq work
      /\ UNCHANGED <<back, reset, job, backup, line_mbx>>
  BY DEF NoteRemoved, Jobs, Cancel
<1>3. Mailed /\ ToldKept /\ Resetting'
  BY <1>2 DEF Mailed, ToldKept, Resetting, SetMode
<1> QED
  BY <1>1, <1>2, <1>3, BeforeRead, GoEffect DEF In

LEMMA RestoredEffect ==
  ASSUME Reading, Free, backup # "NON", Restored
  PROVE  Effect
<1>1. "ALARM" \in DOMAIN Modes2 /\ "WAIT_SENSOR_ACTIVE" \in Modes2["ALARM"]
  BY DEF Modes2, Alarms
<1>2. backup = "BOX" /\ "BOX" \in Alarms /\ "REJECT" \in Conns
  BY BeforeRead DEF Alarms, Conns
<1>3. job' = backup /\ reset' = reset /\ SetMode("ALARM", "WAIT_SENSOR_ACTIVE") /\ Alarmed("REJECT", backup)
  BY DEF Restored
<1>4. back' \in Alarms /\ backup' = "NON" /\ Mailed /\ work' \subseteq work \cup Timers /\ ToldKept
  BY <1>2, <1>3, AlarmedFacts
<1>5. {job', backup'} \subseteq {"NON", "BOX"}
  BY <1>2, <1>3, <1>4
<1> QED
  BY <1>1, <1>3, <1>4, <1>5, GoEffect DEF Free

\* A motor starts, where none moves.
LEMMA StartEffect ==
  ASSUME Reading, MayLeave, NEW a \in DOMAIN Modes2, NEW b \in Modes2[a], SetMode(a, b), Mailed,
         UNCHANGED <<back, Jobs, line_mbx>>, NEW r \in Motors, work' \subseteq work \cup {r},
         Moving', mode1 # "ALARM", mode2 # "WAIT_REJECT_REQ",
         reset => mode1 = a /\ mode2 = b
  PROVE  Effect
<1>1. mode1' = a /\ mode2' = b /\ UNCHANGED <<reset, job, backup>>
  BY DEF SetMode, Jobs
<1>2. r \in Moves /\ r # "FORCE_REV"
  BY DEF Motors
<1>3. Typed
  BY <1>1, <1>2, BeforeRead DEF Typed
<1>4. ToldKept
  BY DEF ToldKept
<1>5. MovesKept
  BY DEF MovesKept
<1>6. Resetting'
  BY DEF Resetting
<1>7. ResetKept
  BY <1>1, <1>6, BeforeRead DEF ResetKept
<1>8. a \notin {"ACCEPT", "ENABLE", "DISABLE"} /\ b # "FORCE_REV"
  <2>1. AfterReject # "FORCE_REV" /\ "FORCE_REV" \notin Homing
    BY DEF AfterReject, Homing
  <2>2. a = "ADJUST" => b # "FORCE_REV"
    BY DEF Modes2
  <2> QED
    BY <1>1, <2>1, <2>2 DEF Moving
<1>9. TurnKept /\ WatchKept
  BY <1>1, <1>2, <1>8, BeforeRead DEF TurnKept, WatchKept, In
<1> QED
  BY <1>3, <1>4, <1>5, <1>7, <1>9 DEF Effect

LEMMA MotorFacts ==
  /\ Homing \subseteq Motors /\ {"FEED_REJECT", "CENTERING_EXEC", "OUT_RETRY", "ADJUST"} \subseteq Motors
  /\ Motors \subseteq Moves /\ Motors \cap Timers = {} /\ "FORCE_REV" \notin Motors \cup Timers
BY DEF Homing, Motors, Moves, Timers

\* _main_set_active_enable_uba, _main_set_active_disable_uba
LEMMA SetActiveEffect ==
  ASSUME Reading, Free, NEW a \in {"ACTIVE_ENABLE", "ACTIVE_DISABLE"}, NEW r \in Homing,
         SetActive(a, r)
  PROVE  Effect
<1>1. a \in DOMAIN Modes2 /\ r \in Modes2[a]
  BY DEF Modes2, ActiveModes
<1>2. /\ SetMode(a, r) /\ ReadAndAsk("SENSOR_ACTIVE") /\ UNCHANGED <<back, Jobs, line_mbx>>
      /\ work' \subseteq work \cup {r}
  BY DEF SetActive
<1>3. Mailed /\ Moving'
  BY <1>2 DEF Mailed, Moving, SetMode
<1> QED
  BY <1>1, <1>2, <1>3, MotorFacts, StartEffect DEF Free

LEMMA SetAdjustmentEffect ==
  ASSUME Reading, Free, mode1 \in {"ENABLE", "DISABLE"}, SetAdjustment
  PROVE  Effect
<1>1. "ADJUST" \in DOMAIN Modes2 /\ mode1 \in Modes2["ADJUST"]
  BY DEF Modes2
<1>2. /\ SetMode("ADJUST", mode1) /\ Read /\ UNCHANGED <<back, Jobs, line_mbx>>
      /\ work' \subseteq work \cup {"ADJUST"}
  BY DEF SetAdjustment
<1>3. Mailed /\ Moving'
  BY <1>2 DEF Mailed, Moving, SetMode
<1> QED
  BY <1>1, <1>2, <1>3, MotorFacts, StartEffect DEF Free

\* The motors of MODE1_REJECT.
LEMMA RejectStartEffect ==
  ASSUME Reading, MayLeave, mode1 = "REJECT", NEW b \in {"FEED_REJECT", AfterReject, "WAIT_WID"},
         reset => mode2 = b, NEW r \in Motors, EnterAndStart("REJECT", b, r)
  PROVE  Effect
<1>1. "REJECT" \in DOMAIN Modes2 /\ b \in Modes2["REJECT"]
  BY DEF Modes2, Rejects, AfterReject
<1>2. /\ SetMode("REJECT", b) /\ Read /\ UNCHANGED <<back, Jobs, line_mbx>>
      /\ work' \subseteq work \cup {r}
  BY DEF EnterAndStart, Start
<1>3. Mailed /\ Moving'
  BY <1>2 DEF Mailed, Moving, SetMode
<1>4. mode2 # "WAIT_REJECT_REQ"
  BY BeforeRead DEF Modes2, Rejects
<1> QED
  BY <1>1, <1>2, <1>3, <1>4, StartEffect

\* With the option of the ID003, the feed pushes out what sticks out.
LEMMA PushEffect ==
  ASSUME Reading, Free, option, ~Moving, SetActive("ACTIVE_DISABLE", "FORCE_REV")
  PROVE  Effect
<1>1. /\ mode1' = "ACTIVE_DISABLE" /\ mode2' = "FORCE_REV" /\ ReadAndAsk("SENSOR_ACTIVE")
      /\ work' \subseteq work \cup {"FORCE_REV"} /\ UNCHANGED <<back, reset, job, backup, line_mbx>>
  BY DEF SetActive, SetMode, Jobs
<1>2. "ACTIVE_DISABLE" \in DOMAIN Modes2 /\ "FORCE_REV" \in Modes2["ACTIVE_DISABLE"]
  BY DEF Modes2, ActiveModes
<1>3. Typed
  <2>1. "FORCE_REV" \in Moves
    BY DEF Moves
  <2> QED
    BY <1>1, <1>2, <2>1, BeforeRead DEF Typed
<1>4. Mailed /\ ToldKept
  BY <1>1 DEF Mailed, ToldKept
<1>5. MovesKept
  BY <1>1, MotorFacts DEF MovesKept, Free
<1>6. ResetKept /\ TurnKept /\ WatchKept
  BY <1>1 DEF ResetKept, TurnKept, WatchKept, Free, In
<1> QED
  BY <1>3, <1>4, <1>5, <1>6 DEF Effect

\* The host changes its mind while a device moves, or a note is waited for.
LEMMA SwapEffect ==
  ASSUME Reading, m.code \in {"ENABLE", "DISABLE"}, mode1 \in {"ACTIVE_ENABLE", "ACTIVE_DISABLE"},
         mode2 \in Homing \cup {"WAIT_REJECT_REQ"},
         NEW a \in {"ACTIVE_ENABLE", "ACTIVE_DISABLE"}, Enter(a, mode2)
  PROVE  Effect
<1>1. /\ mode1' = a /\ mode2' = mode2 /\ UNCHANGED <<back, reset, job, backup, work, line_mbx>> /\ Read
  BY DEF Enter, SetMode, Jobs
<1>2. a \in DOMAIN Modes2 /\ mode2 \in Modes2[a] /\ mode2 # "FORCE_REV" /\ ~reset
  <2>1. mode2 \in ActiveModes /\ mode2 # "FORCE_REV"
    BY DEF ActiveModes, Homing
  <2> QED
    BY <2>1, BeforeRead DEF Modes2
<1>3. Typed
  BY <1>1, <1>2, BeforeRead DEF Typed
<1>4. Mailed /\ ToldKept
  BY <1>1 DEF Mailed, ToldKept
<1>5. MovesKept
  BY <1>1 DEF MovesKept, MayLeave, Moving
<1>6. ResetKept /\ TurnKept
  BY <1>1, <1>2 DEF ResetKept, TurnKept, Awaited
<1>7. WatchKept
  BY <1>1, <1>2, BeforeRead DEF WatchKept, In
<1> QED
  BY <1>3, <1>4, <1>5, <1>6, <1>7 DEF Effect

LEMMA AdjustEffect ==
  ASSUME Reading, m.code \in {"ENABLE", "DISABLE"}, mode1 = "ADJUST", Enter("ADJUST", m.code)
  PROVE  Effect
<1>1. /\ mode1' = "ADJUST" /\ mode2' = m.code /\ Read
      /\ UNCHANGED <<back, reset, job, backup, work, line_mbx>>
  BY DEF Enter, SetMode, Jobs
<1>2. "ADJUST" \in DOMAIN Modes2 /\ m.code \in Modes2["ADJUST"] /\ ~reset
  BY BeforeRead DEF Modes2
<1>3. Typed
  BY <1>1, <1>2, BeforeRead DEF Typed
<1>4. Mailed /\ ToldKept
  BY <1>1 DEF Mailed, ToldKept
<1>5. MovesKept
  BY <1>1 DEF MovesKept, Moving
<1>6. ResetKept
  BY <1>1, <1>2 DEF ResetKept
<1>7. TurnKept
  <2>1. mode2 # "WAIT_REJECT_REQ"
    BY BeforeRead DEF Modes2
  <2> QED
    BY <1>1, <2>1 DEF TurnKept
<1>8. WatchKept
  BY <1>1, BeforeRead DEF WatchKept, In
<1> QED
  BY <1>3, <1>4, <1>5, <1>6, <1>7, <1>8 DEF Effect

\* The feed is told to stop.
LEMMA StopEffect ==
  ASSUME Reading, In("ACTIVE_DISABLE", "FORCE_REV"), EnterAndStart(mode1, mode2, "FORCE_REV")
  PROVE  Effect
<1>1. /\ UNCHANGED <<mode1, mode2, back, reset, job, backup, line_mbx>> /\ Read
      /\ work' = work \cup {"FORCE_REV"}
  BY DEF EnterAndStart, SetMode, Jobs, Start
<1>2. option /\ "FORCE_REV" \in Moves /\ "FORCE_REV" \notin Motors
  BY BeforeRead DEF In, Moves, Motors
<1>3. Mailed /\ job' \in {"NON", "BOX"} /\ work' \subseteq Moves \cup Timers
  BY <1>1, <1>2, BeforeRead DEF Mailed
<1>4. ~In("ENABLE", "WAIT_BILL_IN") /\ ~In("DISABLE", "WAIT_REQ")
  BY DEF In
<1> QED
  BY <1>1, <1>2, <1>3, <1>4, SameEffect

\* The note is looked at once more.
LEMMA StandbyEffect ==
  ASSUME Reading, mode1 = "REJECT_STANDBY", mode2 # "WAIT_REJECT_REQ",
         NEW b \in {"NOTE_STAY", "CONFIRM_NOTE_STAY"},
         Enter("REJECT_STANDBY", b) \/ EnterAndStart("REJECT_STANDBY", b, "NOTE_STAY")
  PROVE  Effect
<1>1. /\ SetMode("REJECT_STANDBY", b) /\ UNCHANGED <<back, reset, job, backup, line_mbx>> /\ Read
      /\ work' \subseteq work \cup Timers
  BY DEF Enter, EnterAndStart, Jobs, Start, Timers
<1>2. "REJECT_STANDBY" \in DOMAIN Modes2 /\ b \in Modes2["REJECT_STANDBY"]
  BY DEF Modes2, Standbys
<1>3. Mailed /\ ToldKept /\ Resetting' /\ MayLeave
  BY <1>1 DEF Mailed, ToldKept, Resetting, SetMode, MayLeave, Moving
<1> QED
  BY <1>1, <1>2, <1>3, BeforeRead, GoEffect

\* In an alarm, the line task is told.
LEMMA AnswerEffect ==
  ASSUME Reading, mode1 = "ALARM", NEW b \in Alarms, NEW sub \in {"ALARM", "SUCCESS"},
         TellIn("ALARM", b, "STATUS", sub)
  PROVE  Effect
<1>1. Msg("STATUS", sub) \in LineMessages \ Refusals
  BY DEF Msg, LineMessages, Refusals
<1>2. /\ mode1' = "ALARM" /\ mode2' = b /\ line_mbx' = Append(line_mbx, Msg("STATUS", sub)) /\ Read
      /\ UNCHANGED <<back, Jobs, work>>
  BY DEF TellIn, SetMode, Tell
<1>3. Mailed /\ back' \in Alarms /\ work' \subseteq Moves \cup Timers
  BY <1>2, BeforeRead DEF Mailed
<1> QED
  BY <1>1, <1>2, <1>3, AlarmEffect

\* In an alarm, main waits for something else.
LEMMA PatientEffect ==
  ASSUME Reading, mode1 = "ALARM", NEW b \in Alarms, SetMode("ALARM", b), Mailed,
         UNCHANGED <<back, Jobs, line_mbx>>, work' \subseteq work \cup Timers
  PROVE  Effect
<1>1. mode1' = "ALARM" /\ mode2' = b
  BY DEF SetMode
<1>2. back' \in Alarms /\ work' \subseteq Moves \cup Timers
  BY BeforeRead
<1>3. work' \cap (Motors \cup {"FORCE_REV"}) \subseteq work
  BY MotorFacts
<1> QED
  BY <1>1, <1>2, <1>3, AlarmEffect

LEMMA TimedEffect ==
  ASSUME Reading, mode1 = "ALARM", NEW b \in Alarms, NEW t \in Timers,
         EnterAndStart("ALARM", b, t)
  PROVE  Effect
<1>1. /\ SetMode("ALARM", b) /\ UNCHANGED <<back, Jobs, line_mbx>> /\ Read
      /\ work' \subseteq work \cup Timers
  BY DEF EnterAndStart, Start
<1> QED
  BY <1>1, PatientEffect DEF Mailed

------------------------------------------------------------------------------
(* The handlers of mode_enable.c and mode_disable.c.                           *)

LEMMA Places ==
  ASSUME Reading
  PROVE  /\ \A a : Restore(a) => \E r \in Homing : SetActive(a, r)
         /\ InPlace => off \subseteq {"STACKER_HALF"}
         /\ bill_in = "NON" => paper = "NON"
         /\ bill_in = "ENTRANCE" => paper = "ENTRANCE"
         /\ box \in BOOLEAN
<1>1. off \subseteq Homing /\ box \in BOOLEAN
      /\ paper \in {"NON", "ENTRANCE", "CENTERING", "ACCEPTOR", "STACKER"}
  BY DEF Reading, IInv, TypeOK
<1>2. /\ Before = <<"CENTERING_HOME", "SHUTTER_OPEN", "PB_CLOSE">> /\ Len(Before) = 3
      /\ Before[1] = "CENTERING_HOME" /\ Before[2] = "SHUTTER_OPEN" /\ Before[3] = "PB_CLOSE"
  BY DEF Before
<1>3. \A i \in 1 .. Len(Before) : Before[i] \in Homing
  BY <1>2 DEF Homing
<1>4. \A a : Restore(a) => \E r \in Homing : SetActive(a, r)
  BY <1>3 DEF Restore
<1>5. InPlace => off \subseteq {"STACKER_HALF"}
  BY <1>1, <1>2 DEF InPlace, Homing
<1> QED
  BY <1>1, <1>4, <1>5 DEF bill_in

\* Where a note or a command is waited for, nothing else is due.
LEMMA Waiting ==
  ASSUME Reading, mode1 \in {"ENABLE", "DISABLE"}
  PROVE  MayLeave /\ ~Moving /\ ~reset /\ mode1 # "ALARM"
BY BeforeRead DEF MayLeave, Moving, Resetting

LEMMA EnableWaitBillIn ==
  ASSUME Reading, In("ENABLE", "WAIT_BILL_IN"), enable_wait_bill_in
  PROVE  Effect
<1>1. mode1 = "ENABLE" /\ mode2 = "WAIT_BILL_IN" /\ Free /\ ~Awaited
  BY Waiting DEF In, Free, Awaited, Ended
<1>2. "ENABLE" \in Conns /\ {"BOX", "FAIL"} \subseteq Alarms
  BY DEF Conns, Alarms
<1>3. ASSUME AlarmSub("ENABLE", "FAIL") \/ AlarmSub("ENABLE", "BOX") PROVE Effect
  BY <1>1, <1>2, <1>3, AlarmSubEffect DEF Free
<1>4. CASE m.code = "SENSOR" /\ IfBox("ENABLE", enable_sensor)
  <2>1. CASE ~box
    BY <1>3, <1>4, <2>1 DEF IfBox
  <2>2. CASE box /\ ~InPlace /\ Restore("ACTIVE_ENABLE")
    BY <1>1, <2>2, Places, SetActiveEffect
  <2>3. CASE TellIn("ENABLE", "WAIT_REQ", "ENABLE", "ACCEPT")
    BY <1>1, <2>3, TellInEffect
  <2>4. CASE RejectSub("ENABLE", "ENABLE")
    BY <1>1, <2>4, RejectSubEffect DEF Free
  <2>5. CASE SetActive("ACTIVE_ENABLE", "STACKER_HALF")
    BY <1>1, <2>5, SetActiveEffect DEF Homing
  <2>6. CASE box /\ InPlace /\ bill_in = "NON" /\ "STACKER_HALF" \notin off /\ Stay
    <3>1. Still
      BY <2>6, Places DEF Still
    <3> QED
      BY <1>1, <2>6, <3>1, StayEffect DEF In
  <2> QED
    BY <1>3, <1>4, <2>1, <2>2, <2>3, <2>4, <2>5, <2>6 DEF IfBox, enable_sensor, HalfOut
<1>5. CASE SetAdjustment
  BY <1>1, <1>5, SetAdjustmentEffect
<1>6. CASE m.code # "SENSOR" /\ (Stay \/ Rearm)
  BY <1>1, <1>6, StayEffect DEF In
<1>7. CASE SetInit
  BY <1>1, <1>7, SetInitEffect DEF Free
<1>8. CASE SetDisable
  BY <1>1, <1>8, SetDisableEffect
<1> QED
  BY <1>3, <1>4, <1>5, <1>6, <1>7, <1>8 DEF enable_wait_bill_in, TimesUp, StatusAlarm, Default

LEMMA EnableWaitReq ==
  ASSUME Reading, In("ENABLE", "WAIT_REQ"), enable_wait_req
  PROVE  Effect
<1>1. mode1 = "ENABLE" /\ mode2 = "WAIT_REQ" /\ Free
  BY Waiting DEF In, Free
<1>2. CASE AlarmSub("ENABLE", "FAIL")
  BY <1>1, <1>2, AlarmSubEffect DEF Free, Conns, Alarms
<1>3. CASE Stay \/ Rearm
  BY <1>1, <1>3, StayEffect DEF In
<1>4. CASE SetInit
  BY <1>1, <1>4, SetInitEffect DEF Free
<1>5. CASE SetDisable
  BY <1>1, <1>5, SetDisableEffect
<1>6. CASE m.code = "ACCEPT" /\ SetAccept
  BY <1>1, <1>6, SetAcceptEffect
<1> QED
  BY <1>2, <1>3, <1>4, <1>5, <1>6 DEF enable_wait_req, TimesUp, StatusAlarm, Default

LEMMA WaitRejectReq ==
  ASSUME Reading, mode1 \in {"ENABLE", "DISABLE"}, mode2 = "WAIT_REJECT_REQ",
         IF mode1 = "ENABLE" THEN enable_wait_reject_req ELSE disable_wait_reject_req
  PROVE  Effect
<1>1. MayLeave /\ ~reset /\ mode1 # "ALARM"
  BY Waiting
<1>2. CASE \E conn \in {"ENABLE", "DISABLE"} : AlarmSub(conn, "FAIL")
  BY <1>1, <1>2, AlarmSubEffect DEF Conns, Alarms
<1>3. CASE Stay \/ Rearm
  BY <1>3, StayEffect DEF In
<1>4. CASE SetInit
  BY <1>1, <1>4, SetInitEffect
<1>5. CASE \E a \in {"ENABLE", "DISABLE"} : WaitReject(a)
  BY <1>1, <1>5, WaitRejectEffect
<1>6. CASE m.code = "REJECT" /\ RejectReq
  BY <1>1, <1>6, RejectReqEffect
<1> QED
  BY <1>2, <1>3, <1>4, <1>5, <1>6
  DEF enable_wait_reject_req, disable_wait_reject_req, TimesUp, StatusAlarm, Default

LEMMA DisableWaitReq ==
  ASSUME Reading, In("DISABLE", "WAIT_REQ"), disable_wait_req
  PROVE  Effect
<1>1. mode1 = "DISABLE" /\ mode2 = "WAIT_REQ" /\ Free /\ ~Moving /\ ~Awaited
  BY Waiting DEF In, Free, Awaited, Ended
<1>2. "DISABLE" \in Conns /\ {"BOX", "FAIL"} \subseteq Alarms
  BY DEF Conns, Alarms
<1>3. ASSUME AlarmSub("DISABLE", "FAIL") \/ AlarmSub("DISABLE", "BOX") PROVE Effect
  BY <1>1, <1>2, <1>3, AlarmSubEffect DEF Free
<1>4. CASE m.code = "SENSOR" /\ IfBox("DISABLE", disable_sensor)
  <2>1. CASE ~box
    BY <1>3, <1>4, <2>1 DEF IfBox
  <2>2. CASE box /\ ~InPlace /\ Restore("ACTIVE_DISABLE")
    BY <1>1, <2>2, Places, SetActiveEffect
  <2>3. CASE option /\ SetActive("ACTIVE_DISABLE", "FORCE_REV")
    BY <1>1, <2>3, PushEffect
  <2>4. CASE RejectSub("DISABLE", "DISABLE")
    BY <1>1, <2>4, RejectSubEffect DEF Free
  <2>5. CASE SetActive("ACTIVE_DISABLE", "STACKER_HALF")
    BY <1>1, <2>5, SetActiveEffect DEF Homing
  <2>6. CASE /\ box /\ InPlace /\ Stay
             /\ \/ bill_in = "NON" /\ "STACKER_HALF" \notin off
                \/ bill_in = "ENTRANCE" /\ ~option
    <3>1. StillShut
      BY <2>6, Places DEF StillShut
    <3> QED
      BY <1>1, <2>6, <3>1, StayEffect DEF In
  <2> QED
    BY <1>3, <1>4, <2>1, <2>2, <2>3, <2>4, <2>5, <2>6 DEF IfBox, disable_sensor, HalfOut
<1>5. CASE SetAdjustment
  BY <1>1, <1>5, SetAdjustmentEffect
<1>6. CASE m.code # "SENSOR" /\ (Stay \/ Rearm)
  BY <1>1, <1>6, StayEffect DEF In
<1>7. CASE SetInit
  BY <1>1, <1>7, SetInitEffect DEF Free
<1>8. CASE SetDisable \/ SetEnable
  BY <1>1, <1>8, SetDisableEffect, SetEnableEffect
<1> QED
  BY <1>3, <1>4, <1>5, <1>6, <1>7, <1>8 DEF disable_wait_req, TimesUp, StatusAlarm, Default

------------------------------------------------------------------------------
(* The handlers of mode_active_enable.c, mode_active_disable.c, mode_adjust.c. *)

Actives == {"ACTIVE_ENABLE", "ACTIVE_DISABLE"}

\* What every one of them may end in.
LEMMA AlarmOrInit ==
  ASSUME Reading, MayLeave,
         \/ SetInit
         \/ \E conn \in Conns, b \in Alarms : AlarmSub(conn, b)
  PROVE  Effect
BY SetInitEffect, AlarmSubEffect

\* The alarm that was recorded, and the one that a device reports.
LEMMA AlarmModes ==
  ASSUME Reading
  PROVE  /\ job # "NON" => job \in Alarms
         /\ (IF m.sub = "BOX" THEN "BOX" ELSE "FAIL") \in Alarms
         /\ {"FAIL", "BOX"} \subseteq Alarms
BY BeforeRead DEF Alarms

LEMMA NotWatched ==
  ASSUME mode1 \notin {"ENABLE", "DISABLE"}
  PROVE  ~In("ENABLE", "WAIT_BILL_IN") /\ ~In("DISABLE", "WAIT_REQ")
BY DEF In

LEMMA ActiveWaitReq ==
  ASSUME Reading, In("ACTIVE_ENABLE", "WAIT_REQ"), active_enable_wait_req
  PROVE  Effect
<1>1. mode1 = "ACTIVE_ENABLE" /\ mode2 = "WAIT_REQ" /\ MayLeave /\ "ENABLE" \in Conns
  BY DEF In, MayLeave, Moving, Homing, Conns
<1>2. ~reset
  BY <1>1, BeforeRead DEF Resetting, Moving, Homing
<1>3. CASE m.code = "ACCEPT" /\ IfReset(IfJob("ENABLE", SetAccept))
  <2>1. CASE SetAccept
    BY <1>1, <1>2, <1>3, <2>1, SetAcceptEffect DEF Free
  <2>2. CASE job # "NON" /\ AlarmSub("ENABLE", job)
    BY <1>1, <2>2, AlarmModes, AlarmSubEffect
  <2> QED
    BY <1>2, <1>3, <2>1, <2>2 DEF IfReset, IfJob
<1>4. CASE SetInit \/ StatusAlarm("ENABLE")
  BY <1>1, <1>4, AlarmModes, AlarmOrInit DEF StatusAlarm
<1>5. CASE SetDisable
  BY <1>1, <1>2, <1>5, SetDisableEffect DEF Free
<1>6. CASE Stay \/ Record
  BY <1>1, <1>6, StayEffect, NotWatched
<1> QED
  BY <1>3, <1>4, <1>5, <1>6 DEF active_enable_wait_req, Default

LEMMA ActiveWaitRejectReq ==
  ASSUME Reading, mode1 \in Actives, mode2 = "WAIT_REJECT_REQ",
         IF mode1 = "ACTIVE_ENABLE" THEN active_enable_wait_reject_req
                                    ELSE active_disable_wait_reject_req
  PROVE  Effect
<1>1. mode1 \notin {"ALARM", "ENABLE", "DISABLE"} /\ MayLeave /\ {"ENABLE", "DISABLE"} \subseteq Conns
  BY DEF Actives, MayLeave, Moving, Homing, Conns
<1>2. ~reset
  BY <1>1, BeforeRead DEF Resetting, Moving, Homing, Actives
<1>3. ASSUME NEW conn \in {"ENABLE", "DISABLE"}, m.code = "REJECT", IfReset(IfJob(conn, RejectReq))
      PROVE  Effect
  <2>1. CASE RejectReq
    BY <1>1, <1>3, <2>1, RejectReqEffect
  <2>2. CASE job # "NON" /\ AlarmSub(conn, job)
    BY <1>1, <2>2, AlarmModes, AlarmSubEffect
  <2> QED
    BY <1>2, <1>3, <2>1, <2>2 DEF IfReset, IfJob
<1>4. CASE SetInit \/ \E conn \in {"ENABLE", "DISABLE"} : AlarmSub(conn, "FAIL")
  BY <1>1, <1>4, AlarmModes, AlarmOrInit
<1>5. CASE m.code \in {"ENABLE", "DISABLE"} /\ \E a \in Actives : Enter(a, mode2)
  BY <1>5, SwapEffect DEF Actives
<1>6. CASE Stay \/ Rearm \/ Record
  BY <1>1, <1>6, StayEffect, NotWatched
<1> QED
  BY <1>3, <1>4, <1>5, <1>6
  DEF active_enable_wait_reject_req, active_disable_wait_reject_req, Actives, Default, TimesUp, StatusAlarm

\* The end of a move: a reset and an alarm that was recorded go first.
LEMMA MoveEnds ==
  ASSUME Reading, mode1 \in Actives, mode2 \in Homing, MayLeave
  PROVE  /\ ~reset => Free /\ ~Awaited
         /\ mode1 \notin {"ALARM", "ENABLE", "DISABLE"} /\ Resetting
         /\ {"ENABLE", "DISABLE"} \subseteq Conns /\ mode2 \in Motors
<1>1. mode2 # "WAIT_REJECT_REQ" /\ mode2 \in Motors
  BY MotorFacts DEF Homing
<1>2. mode1 \notin {"ALARM", "INIT", "ENABLE", "DISABLE"} /\ Moving
  BY DEF Actives, Moving
<1> QED
  BY <1>1, <1>2 DEF Free, Awaited, Ended, Resetting, Conns

LEMMA ActiveEnableMove ==
  ASSUME Reading, mode1 = "ACTIVE_ENABLE", mode2 \in Homing, active_enable_move
  PROVE  Effect
<1>1. mode1 \in Actives /\ mode2 \in Motors /\ "ENABLE" \in Conns
  BY MotorFacts DEF Actives, Conns
<1>2. ASSUME m.code \in {mode2, "STATUS"} PROVE MayLeave
  BY <1>1, <1>2, BeforeRead DEF MayLeave
<1>3. mode1 \notin {"ALARM", "ENABLE", "DISABLE"} /\ Resetting
  BY <1>1 DEF Resetting, Moving
<1>4. CASE is(mode2, "SUCCESS") /\ IfReset(IfJob("ENABLE", active_enable_bill))
  <2>1. MayLeave
    BY <1>2, <1>4 DEF is
  <2>2. CASE SetInit
    BY <2>1, <2>2, SetInitEffect
  <2>3. CASE job # "NON" /\ AlarmSub("ENABLE", job)
    BY <1>1, <2>1, <2>3, AlarmModes, AlarmSubEffect
  <2>4. CASE ~reset /\ active_enable_bill
    <3>1. Free /\ ~Awaited
      BY <1>1, <2>1, <2>4, MoveEnds
    <3>2. CASE SetEnable
      BY <3>1, <3>2, SetEnableEffect
    <3>3. CASE TellIn("ACTIVE_ENABLE", "WAIT_REQ", "ENABLE", "ACCEPT")
      BY <3>1, <3>3, TellInEffect
    <3>4. CASE RejectSub("ACTIVE_ENABLE", "ENABLE")
      BY <2>4, <3>1, <3>4, RejectSubEffect DEF Free
    <3>5. CASE AlarmSub("ENABLE", "FAIL")
      BY <1>1, <2>1, <3>5, AlarmModes, AlarmSubEffect
    <3> QED
      BY <2>4, <3>2, <3>3, <3>4, <3>5 DEF active_enable_bill
  <2> QED
    BY <1>4, <2>2, <2>3, <2>4 DEF IfReset, IfJob
<1>5. CASE failed(mode2) /\ IfReset(IfJob("ENABLE", Failure("ENABLE")))
  <2>1. MayLeave
    BY <1>2, <1>5 DEF failed
  <2> QED
    BY <1>1, <1>5, <2>1, AlarmModes, SetInitEffect, AlarmSubEffect DEF IfReset, IfJob, Failure
<1>6. CASE StatusAlarm("ENABLE")
  BY <1>1, <1>2, <1>6, AlarmModes, AlarmSubEffect DEF StatusAlarm
<1>7. CASE m.code = "DISABLE" /\ Enter("ACTIVE_DISABLE", mode2)
  BY <1>1, <1>7, SwapEffect DEF Actives
<1>8. CASE Stay \/ Rearm \/ Record
  BY <1>3, <1>8, StayEffect, NotWatched
<1>9. CASE m.code = "RESET" /\ Flag
  BY <1>3, <1>9, FlagEffect
<1> QED
  BY <1>4, <1>5, <1>6, <1>7, <1>8, <1>9 DEF active_enable_move, WhileMoving, TimesUp, Default

LEMMA ActiveDisableMove ==
  ASSUME Reading, mode1 = "ACTIVE_DISABLE", mode2 \in Homing, active_disable_move
  PROVE  Effect
<1>1. mode1 \in Actives /\ mode2 \in Motors /\ "DISABLE" \in Conns
  BY MotorFacts DEF Actives, Conns
<1>2. ASSUME m.code \in {mode2, "STATUS"} PROVE MayLeave
  BY <1>1, <1>2, BeforeRead DEF MayLeave
<1>3. mode1 \notin {"ALARM", "ENABLE", "DISABLE"} /\ Resetting
  BY <1>1 DEF Resetting, Moving
<1>4. CASE is(mode2, "SUCCESS") /\ IfReset(IfJob("DISABLE", SetDisable))
  <2>1. MayLeave
    BY <1>2, <1>4 DEF is
  <2>2. CASE SetInit
    BY <2>1, <2>2, SetInitEffect
  <2>3. CASE job # "NON" /\ AlarmSub("DISABLE", job)
    BY <1>1, <2>1, <2>3, AlarmModes, AlarmSubEffect
  <2>4. CASE ~reset /\ SetDisable
    BY <1>1, <2>1, <2>4, MoveEnds, SetDisableEffect
  <2> QED
    BY <1>4, <2>2, <2>3, <2>4 DEF IfReset, IfJob
<1>5. CASE failed(mode2) /\ IfReset(IfJob("DISABLE", Failure("DISABLE")))
  <2>1. MayLeave
    BY <1>2, <1>5 DEF failed
  <2> QED
    BY <1>1, <1>5, <2>1, AlarmModes, SetInitEffect, AlarmSubEffect DEF IfReset, IfJob, Failure
<1>6. CASE StatusAlarm("DISABLE")
  BY <1>1, <1>2, <1>6, AlarmModes, AlarmSubEffect DEF StatusAlarm
<1>7. CASE m.code = "ENABLE" /\ Enter("ACTIVE_ENABLE", mode2)
  BY <1>1, <1>7, SwapEffect DEF Actives
<1>8. CASE Stay \/ Rearm \/ Record
  BY <1>3, <1>8, StayEffect, NotWatched
<1>9. CASE m.code = "RESET" /\ Flag
  BY <1>3, <1>9, FlagEffect
<1> QED
  BY <1>4, <1>5, <1>6, <1>7, <1>8, <1>9 DEF active_disable_move, WhileMoving, TimesUp, Default

LEMMA ForceRev ==
  ASSUME Reading, In("ACTIVE_DISABLE", "FORCE_REV"), active_disable_feed_reject
  PROVE  Effect
<1>1. /\ mode1 = "ACTIVE_DISABLE" /\ mode2 = "FORCE_REV" /\ mode1 \in Actives
      /\ MayLeave /\ Resetting /\ "DISABLE" \in Conns
  BY DEF In, MayLeave, Moving, Homing, Resetting, Conns, Actives
<1>3. CASE IfReset(IF enabling THEN SetEnable ELSE SetDisable)
  BY <1>1, <1>3, SetInitEffect, SetEnableEffect, SetDisableEffect DEF IfReset, Free
<1>4. CASE InitOrFail("DISABLE")
  BY <1>1, <1>4, AlarmModes, SetInitEffect, AlarmSubEffect DEF InitOrFail, IfReset, Failure
<1>5. CASE StatusAlarm("DISABLE")
  BY <1>1, <1>5, AlarmModes, AlarmSubEffect DEF StatusAlarm
<1>6. CASE EnterAndStart(mode1, mode2, "FORCE_REV")
  BY <1>6, StopEffect
<1>7. CASE Stay \/ Rearm
  BY <1>1, <1>7, StayEffect, NotWatched
<1>8. CASE m.code = "RESET" /\ Flag
  BY <1>1, <1>8, FlagEffect
<1> QED
  BY <1>3, <1>4, <1>5, <1>6, <1>7, <1>8 DEF active_disable_feed_reject, TimesUp, Default

LEMMA AdjustTempAdj ==
  ASSUME Reading, mode1 = "ADJUST", adjust_temp_adj
  PROVE  Effect
<1>1. mode1 \notin {"ALARM", "ENABLE", "DISABLE"} /\ Resetting
  BY DEF Resetting, Moving
<1>2. mode2 \in Conns /\ mode2 # "WAIT_REJECT_REQ"
  BY BeforeRead DEF Modes2, Conns
<1>3. ASSUME m.code \in {"ADJUST", "STATUS"} PROVE MayLeave
  BY <1>3, MotorFacts, BeforeRead DEF MayLeave
<1>4. CASE m.code = "ADJUST" /\ IfReset(IF mode2 = "ENABLE" THEN SetEnable ELSE SetDisable)
  BY <1>1, <1>2, <1>3, <1>4, SetInitEffect, SetEnableEffect, SetDisableEffect DEF IfReset, Free
<1>5. CASE StatusAlarm(mode2)
  BY <1>2, <1>3, <1>5, AlarmModes, AlarmSubEffect DEF StatusAlarm
<1>6. CASE m.code \in {"DISABLE", "ENABLE"} /\ Enter("ADJUST", m.code)
  BY <1>6, AdjustEffect
<1>7. CASE Stay
  BY <1>1, <1>7, StayEffect, NotWatched
<1>8. CASE m.code = "RESET" /\ Flag
  BY <1>1, <1>8, FlagEffect
<1> QED
  BY <1>4, <1>5, <1>6, <1>7, <1>8 DEF adjust_temp_adj, Default

------------------------------------------------------------------------------
(* The handlers of mode_reject_uba.c.                                          *)

LEMMA Rejecting ==
  ASSUME Reading, mode1 = "REJECT"
  PROVE  /\ mode2 \in Rejects /\ mode2 # "WAIT_REJECT_REQ" /\ "REJECT" \in Conns
         /\ mode2 \notin {"FEED_REJECT", AfterReject, "WAIT_WID"} => MayLeave
         /\ mode2 \in {"FEED_REJECT", AfterReject, "WAIT_WID", "NOTE_REMOVED"} => Resetting
         /\ mode2 \in {"SENSOR_ACTIVE", "WAIT_REQ"} => ~reset
         /\ MayLeave /\ ~reset => Free
<1>1. mode2 \in Rejects /\ (reset => Resetting)
  BY BeforeRead DEF Modes2
<1>2. mode2 # "WAIT_REJECT_REQ"
  BY <1>1 DEF Rejects
<1>3. Moving <=> mode2 \in {"FEED_REJECT", AfterReject, "WAIT_WID"}
  BY DEF Moving
<1>4. mode2 \in {"SENSOR_ACTIVE", "WAIT_REQ"} => ~Resetting
  BY <1>3 DEF Resetting, AfterReject
<1> QED
  BY <1>1, <1>2, <1>3, <1>4 DEF MayLeave, Resetting, Conns, Free

LEMMA RejectSensorActive ==
  ASSUME Reading, In("REJECT", "SENSOR_ACTIVE"), reject_sensor_active
  PROVE  Effect
<1>1. mode1 = "REJECT" /\ mode2 = "SENSOR_ACTIVE"
  BY DEF In
<1>2. MayLeave /\ ~reset /\ "REJECT" \in Conns
  BY <1>1, Rejecting DEF AfterReject
<1>3. CASE IfBox("REJECT", EnterAndStart("REJECT", "FEED_REJECT", "FEED_REJECT"))
  <2>1. CASE EnterAndStart("REJECT", "FEED_REJECT", "FEED_REJECT")
    BY <1>1, <1>2, <2>1, MotorFacts, RejectStartEffect
  <2>2. CASE AlarmSub("REJECT", "BOX")
    BY <1>2, <2>2, AlarmModes, AlarmSubEffect
  <2> QED
    BY <1>3, <2>1, <2>2 DEF IfBox
<1>4. CASE SetInit \/ AlarmSub("REJECT", "FAIL")
  BY <1>2, <1>4, AlarmModes, AlarmOrInit
<1>5. CASE Stay
  BY <1>1, <1>5, StayEffect, NotWatched
<1> QED
  BY <1>3, <1>4, <1>5 DEF reject_sensor_active, StatusAlarm, Default

LEMMA FeedReject ==
  ASSUME Reading, In("REJECT", "FEED_REJECT"), feed_reject
  PROVE  Effect
<1>1. mode1 = "REJECT" /\ mode2 = "FEED_REJECT"
  BY DEF In
<1>2. Resetting /\ "REJECT" \in Conns
  BY <1>1, Rejecting
<1>3. ASSUME m.code \in Motors \cup {"STATUS"} PROVE MayLeave
  BY <1>3, BeforeRead DEF MayLeave
<1>4. CASE is("FEED_REJECT", "SUCCESS") /\ IfReset(rejected)
  <2>1. MayLeave
    BY <1>3, <1>4, MotorFacts DEF is
  <2>2. CASE SetInit
    BY <2>1, <2>2, SetInitEffect
  <2>3. CASE ~reset /\ rejected
    <3>1. Free
      BY <1>1, <2>1, <2>3, Rejecting
    <3>2. CASE backup # "NON" /\ Restored
      BY <3>1, <3>2, RestoredEffect
    <3>3. CASE EnterAndStart("REJECT", AfterReject, "STACKER_HALF")
      BY <1>1, <2>1, <2>3, <3>3, MotorFacts, RejectStartEffect DEF Homing
    <3>4. CASE EnterAndStart("REJECT", AfterReject, "PB_CLOSE")
      BY <1>1, <2>1, <2>3, <3>4, MotorFacts, RejectStartEffect DEF Homing
    <3>5. CASE NoteStay
      BY <1>1, <2>1, <2>3, <3>5, NoteStayEffect
    <3> QED
      BY <2>3, <3>2, <3>3, <3>4, <3>5 DEF rejected
  <2> QED
    BY <1>4, <2>2, <2>3 DEF IfReset
<1>5. CASE /\ m.code \in Motors
           /\ \E r \in {"CENTERING_EXEC", "OUT_RETRY", "FEED_REJECT"} : EnterAndStart(mode1, mode2, r)
  BY <1>1, <1>3, <1>5, MotorFacts, RejectStartEffect
<1>6. CASE m.code \in Motors \cup {"STATUS"} /\ (AlarmSub("REJECT", "FAIL") \/ InitOrFail("REJECT"))
  BY <1>2, <1>3, <1>6, AlarmModes, AlarmSubEffect, SetInitEffect DEF InitOrFail, IfReset, Failure
<1>7. CASE Stay
  BY <1>1, <1>7, StayEffect, NotWatched
<1>8. CASE m.code = "RESET" /\ Flag
  BY <1>2, <1>8, FlagEffect
<1> QED
  BY <1>4, <1>5, <1>6, <1>7, <1>8, MotorFacts DEF feed_reject, is, failed, Default

LEMMA StackerHalfPbClose ==
  ASSUME Reading, In("REJECT", AfterReject), stacker_half_pb_close
  PROVE  Effect
<1>1. mode1 = "REJECT" /\ mode2 = AfterReject
  BY DEF In
<1>2. Resetting /\ "REJECT" \in Conns
  BY <1>1, Rejecting
<1>3. ASSUME m.code \in Motors \cup {"STATUS"} PROVE MayLeave
  BY <1>3, BeforeRead DEF MayLeave
<1>4. {"STACKER_HALF", "PB_CLOSE"} \subseteq Motors
  BY MotorFacts DEF Homing
<1>5. ASSUME m.code \in Motors,
             NoteStay \/ \E r \in {"STACKER_HALF", "PB_CLOSE"} : EnterAndStart(mode1, mode2, r)
      PROVE  Effect
  <2>1. CASE NoteStay
    BY <1>1, <1>3, <1>5, <2>1, NoteStayEffect
  <2>2. ASSUME NEW r \in {"STACKER_HALF", "PB_CLOSE"}, EnterAndStart(mode1, mode2, r) PROVE Effect
    BY <1>1, <1>3, <1>4, <1>5, <2>2, RejectStartEffect
  <2> QED
    BY <1>5, <2>1, <2>2
<1>6. CASE is("STACKER_HALF", "SUCCESS") /\ IfReset(IfBox("REJECT", half_out))
  BY <1>2, <1>3, <1>4, <1>5, <1>6, AlarmModes, SetInitEffect, AlarmSubEffect
  DEF is, IfReset, IfBox, half_out
<1>7. CASE is("PB_CLOSE", "SUCCESS") /\ pb_closed
  BY <1>4, <1>5, <1>7 DEF is, pb_closed
<1>8. CASE m.code \in Motors \cup {"STATUS"} /\ InitOrFail("REJECT")
  BY <1>2, <1>3, <1>8, AlarmModes, AlarmSubEffect, SetInitEffect DEF InitOrFail, IfReset, Failure
<1>9. CASE Stay
  BY <1>1, <1>9, StayEffect, NotWatched
<1>10. CASE m.code = "RESET" /\ Flag
  BY <1>2, <1>10, FlagEffect
<1> QED
  BY <1>4, <1>6, <1>7, <1>8, <1>9, <1>10 DEF stacker_half_pb_close, failed, Default

LEMMA RejectNoteRemoved ==
  ASSUME Reading, In("REJECT", "NOTE_REMOVED"), reject_note_removed
  PROVE  Effect
<1>1. mode1 = "REJECT" /\ mode2 = "NOTE_REMOVED"
  BY DEF In
<1>2. MayLeave /\ Resetting /\ "REJECT" \in Conns /\ (~reset => Free)
  BY <1>1, Rejecting DEF AfterReject
<1>3. CASE SetInit \/ AlarmSub("REJECT", "FAIL")
  BY <1>2, <1>3, AlarmModes, AlarmOrInit
<1>4. CASE ~reset /\ EnterAndStart("REJECT", "WAIT_WID", "CENTERING_EXEC")
  BY <1>1, <1>2, <1>4, MotorFacts, RejectStartEffect
<1>5. CASE ~reset /\ TellIn("REJECT", "WAIT_REQ", "REJECT", "SUCCESS")
  BY <1>2, <1>5, TellInEffect
<1>6. CASE Stay
  BY <1>1, <1>6, StayEffect, NotWatched
<1>7. CASE m.code = "RESET" /\ Flag
  BY <1>2, <1>7, FlagEffect
<1> QED
  BY <1>3, <1>4, <1>5, <1>6, <1>7 DEF reject_note_removed, IfReset, StatusAlarm, Default

LEMMA RejectWaitWid ==
  ASSUME Reading, In("REJECT", "WAIT_WID"), reject_wait_wid
  PROVE  Effect
<1>1. mode1 = "REJECT" /\ mode2 = "WAIT_WID"
  BY DEF In
<1>2. Resetting /\ "REJECT" \in Conns
  BY <1>1, Rejecting
<1>3. ASSUME m.code \in {"CENTERING_EXEC", "STATUS"} PROVE MayLeave
  BY <1>3, MotorFacts, BeforeRead DEF MayLeave
<1>4. CASE is("CENTERING_EXEC", "SUCCESS") /\ IfReset(TellIn("REJECT", "WAIT_REQ", "REJECT", "SUCCESS"))
  BY <1>1, <1>3, <1>4, SetInitEffect, Rejecting, TellInEffect DEF IfReset, is
<1>5. CASE m.code \in {"CENTERING_EXEC", "STATUS"} /\ (AlarmSub("REJECT", "FAIL") \/ InitOrFail("REJECT"))
  BY <1>2, <1>3, <1>5, AlarmModes, AlarmSubEffect, SetInitEffect DEF InitOrFail, IfReset, Failure
<1>6. CASE Stay
  BY <1>1, <1>6, StayEffect, NotWatched
<1>7. CASE m.code = "RESET" /\ Flag
  BY <1>2, <1>7, FlagEffect
<1> QED
  BY <1>4, <1>5, <1>6, <1>7 DEF reject_wait_wid, is, StatusAlarm, Default

LEMMA RejectWaitReq ==
  ASSUME Reading, In("REJECT", "WAIT_REQ"), reject_wait_req
  PROVE  Effect
<1>1. mode1 = "REJECT" /\ mode2 = "WAIT_REQ"
  BY DEF In
<1>2. Free /\ MayLeave /\ "REJECT" \in Conns
  BY <1>1, Rejecting DEF AfterReject
<1>3. CASE SetInit \/ AlarmSub("REJECT", "FAIL")
  BY <1>2, <1>3, AlarmModes, AlarmOrInit
<1>4. CASE SetEnable \/ SetDisable
  BY <1>2, <1>4, SetEnableEffect, SetDisableEffect
<1>5. CASE Stay
  BY <1>1, <1>5, StayEffect, NotWatched
<1> QED
  BY <1>3, <1>4, <1>5 DEF reject_wait_req, StatusAlarm, Default

------------------------------------------------------------------------------
(* The handlers of mode_reject_standby.c.                                      *)

LEMMA StandingBy ==
  ASSUME Reading, mode1 = "REJECT_STANDBY"
  PROVE  MayLeave /\ "REJECT" \in Conns /\ (mode2 # "WAIT_REJECT_REQ" => ~Awaited)
BY DEF MayLeave, Moving, Conns, Awaited, Ended

LEMMA NoteStanding ==
  ASSUME Reading, mode1 = "REJECT_STANDBY", mode2 \in {"NOTE_STAY", "CONFIRM_NOTE_STAY"},
         IF mode2 = "NOTE_STAY" THEN reject_standby_note_stay ELSE reject_standby_confirm_note_stay
  PROVE  Effect
<1>1. MayLeave /\ "REJECT" \in Conns /\ mode2 # "WAIT_REJECT_REQ" /\ ~Awaited
  BY StandingBy
<1>2. CASE SetInit \/ AlarmSub("REJECT", "FAIL") \/ AlarmSub("REJECT", "BOX")
  BY <1>1, <1>2, AlarmModes, AlarmOrInit
<1>3. CASE RejectSub("REJECT_STANDBY", "REJECT")
  BY <1>1, <1>3, RejectSubEffect
<1>4. CASE EnterAndStart("REJECT_STANDBY", "CONFIRM_NOTE_STAY", "NOTE_STAY")
  BY <1>1, <1>4, StandbyEffect
<1>5. CASE Enter("REJECT_STANDBY", "NOTE_STAY")
  BY <1>1, <1>5, StandbyEffect
<1>6. CASE mode2 = "CONFIRM_NOTE_STAY" /\ NoteRemoved
  BY <1>1, <1>6, NoteRemovedEffect DEF In
<1>7. CASE Stay
  BY <1>7, StayEffect, NotWatched
<1> QED
  BY <1>2, <1>3, <1>4, <1>5, <1>6, <1>7
  DEF reject_standby_note_stay, reject_standby_confirm_note_stay, note_stay_check, StayPaper,
      IfBox, StatusAlarm, Default

LEMMA StandbyWaitRejectReq ==
  ASSUME Reading, In("REJECT_STANDBY", "WAIT_REJECT_REQ"), reject_standby_wait_reject_req
  PROVE  Effect
<1>1. mode1 = "REJECT_STANDBY" /\ MayLeave /\ "REJECT" \in Conns
  BY StandingBy DEF In
<1>2. CASE SetInit \/ AlarmSub("REJECT", "FAIL")
  BY <1>1, <1>2, AlarmModes, AlarmOrInit
<1>3. CASE m.code = "REJECT" /\ RejectReq
  BY <1>1, <1>3, RejectReqEffect
<1>4. CASE Stay \/ Rearm
  BY <1>1, <1>4, StayEffect, NotWatched
<1> QED
  BY <1>2, <1>3, <1>4 DEF reject_standby_wait_reject_req, TimesUp, StatusAlarm, Default

------------------------------------------------------------------------------
(* The handlers of mode_alarm_uba.c.                                           *)

\* What all of them may end in.
LEMMA AlarmEnds ==
  ASSUME Reading, mode1 = "ALARM",
         \/ SetInit \/ Stay \/ Recovered
         \/ \E b \in Alarms : AlarmSub("STATUS", b)
         \/ \E sub \in {"ALARM", "SUCCESS"} : TellIn(mode1, mode2, "STATUS", sub)
         \/ \E b \in Alarms, t \in Timers : EnterAndStart("ALARM", b, t)
  PROVE  Effect
<1>1. MayLeave /\ "STATUS" \in Conns /\ mode2 \in Alarms /\ "WAIT_REQ" \in Alarms
  BY BeforeRead DEF MayLeave, Moving, Conns, Modes2, Alarms
<1>2. CASE SetInit \/ \E b \in Alarms : AlarmSub("STATUS", b)
  BY <1>1, <1>2, AlarmOrInit
<1>3. CASE Stay
  BY <1>3, StayEffect, NotWatched
<1>4. CASE Recovered \/ \E sub \in {"ALARM", "SUCCESS"} : TellIn(mode1, mode2, "STATUS", sub)
  BY <1>1, <1>4, AnswerEffect DEF Recovered
<1>5. CASE \E b \in Alarms, t \in Timers : EnterAndStart("ALARM", b, t)
  BY <1>5, TimedEffect
<1> QED
  BY <1>2, <1>3, <1>4, <1>5

LEMMA Alarming ==
  ASSUME Reading, mode1 = "ALARM",
         \/ alarm_wait_req /\ mode2 = "WAIT_REQ"
         \/ alarm_fail \/ alarm_acceptor_jam \/ alarm_box
  PROVE  Effect
<1>1. {"BOX", "FAIL", "ACCEPTOR_JAM", "CONFIRM_AT_JAM", "CONFIRM_BOX", "WAIT_REQ"} \subseteq Alarms
      /\ {"RECOVER", "LINE_WAIT"} \subseteq Timers
  BY DEF Alarms, Timers
<1>2. CASE alarm_wait_req /\ mode2 = "WAIT_REQ"
  BY <1>1, <1>2, AlarmEnds DEF alarm_wait_req, Jams, Default
<1>3. CASE alarm_fail
  BY <1>1, <1>3, AlarmEnds DEF alarm_fail, Repeat
<1>4. CASE alarm_acceptor_jam
  BY <1>1, <1>4, AlarmEnds DEF alarm_acceptor_jam, Jams, Repeat
<1>5. CASE alarm_box
  BY <1>1, <1>5, AlarmEnds DEF alarm_box, Repeat
<1> QED
  BY <1>2, <1>3, <1>4, <1>5

LEMMA Confirming ==
  ASSUME Reading, mode1 = "ALARM", alarm_confirm_at_jam \/ alarm_confirm_box \/ alarm_wait_sensor_active
  PROVE  Effect
<1>1. {"BOX", "FAIL", "ACCEPTOR_JAM"} \subseteq Alarms /\ back \in Alarms
  BY BeforeRead DEF Alarms
<1>2. ASSUME NEW b \in Alarms, SetMode("ALARM", b), Cancel("RECOVER") \/ UNCHANGED work,
             Read \/ ReadAndAsk("SENSOR"), UNCHANGED <<back, Jobs, line_mbx>>
      PROVE  Effect
  <2>1. Mailed /\ work' \subseteq work \cup Timers
    BY <1>2 DEF Mailed, Cancel
  <2> QED
    BY <1>2, <2>1, PatientEffect
<1>3. CASE alarm_confirm_at_jam
  BY <1>1, <1>2, <1>3, AlarmEnds DEF alarm_confirm_at_jam, Jams, Repeat
<1>4. CASE alarm_confirm_box
  BY <1>1, <1>2, <1>4, AlarmEnds DEF alarm_confirm_box, Jams, Repeat
<1>5. CASE alarm_wait_sensor_active
  BY <1>1, <1>2, <1>5, AlarmEnds DEF alarm_wait_sensor_active, Repeat
<1> QED
  BY <1>3, <1>4, <1>5

------------------------------------------------------------------------------
\* Whatever main reads, in whatever mode.
LEMMA MainEffect ==
  ASSUME Reading, main_task
  PROVE  Effect
<1>1. CASE In("ACTIVE_DISABLE", "FORCE_REV") /\ active_disable_feed_reject
  BY <1>1, ForceRev
<1>2. CASE handler
  BY <1>2, EnableWaitBillIn, EnableWaitReq, WaitRejectReq, DisableWaitReq, ActiveWaitReq,
     ActiveWaitRejectReq, ActiveEnableMove, ActiveDisableMove, AdjustTempAdj, RejectSensorActive,
     FeedReject, StackerHalfPbClose, RejectNoteRemoved, RejectWaitWid, RejectWaitReq, NoteStanding,
     StandbyWaitRejectReq, Alarming, Confirming
  DEF handler, In, Actives
<1> QED
  BY <1>1, <1>2 DEF main_task

------------------------------------------------------------------------------
(* A step of main preserves the invariant.                                     *)

LEMMA Left ==
  ASSUME Reading, Mailed
  PROVE  /\ main_mbx' \in Seq(Messages) /\ Len(main_mbx') <= MailBlocks
         /\ Late(main_mbx')
         /\ m.code = "RESET" => ~Has(main_mbx', Asked)
         /\ ReadAndAsk("SENSOR") => Has(main_mbx', Coded({"SENSOR"}))
         /\ Has(main_mbx, Coded({"SENSOR"})) /\ m.code # "SENSOR" => Has(main_mbx', Coded({"SENSOR"}))
         /\ m \in Messages
         /\ \A S : m \in S => Has(main_mbx, S)
<1>1. main_mbx \in Seq(Messages) /\ main_mbx # << >> /\ Late(main_mbx) /\ Len(main_mbx) <= MailBlocks
  BY DEF Reading, IInv, ResetLast, TypeOK
<1> DEFINE t == Tail(main_mbx)
           asked(c) == Msg(c, "SUCCESS")
<1>2. /\ t \in Seq(Messages) /\ Len(t) = Len(main_mbx) - 1 /\ Len(t) \in Nat /\ m \in Messages
      /\ \A S : m \in S => Has(main_mbx, S)
      /\ \A S : Has(main_mbx, S) => m \in S \/ Has(t, S)
  BY <1>1, TailHas DEF m
<1>3. Late(t) /\ (m \in Coded({"RESET"}) => ~Has(t, Asked))
  BY <1>1, TailLate DEF m
<1>4. m.code = "RESET" => m \in Coded({"RESET"})
  BY <1>2 DEF Coded
<1>5. m.code # "SENSOR" => m \notin Coded({"SENSOR"})
  BY DEF Coded
<1>6. \A c \in {"SENSOR", "SENSOR_ACTIVE"} : asked(c) \in Messages /\ asked(c) \notin Asked
  BY DEF Messages, Subs, Msg, Asked, Coded
<1>7. asked("SENSOR") \in Coded({"SENSOR"})
  BY <1>6 DEF Coded, Msg
<1> HIDE DEF asked, t
<1>8. main_mbx' = t \/ \E c \in {"SENSOR", "SENSOR_ACTIVE"} : main_mbx' = Append(t, asked(c))
  BY DEF Mailed, Read, ReadAndAsk, t, asked
<1>9. ReadAndAsk("SENSOR") => main_mbx' = Append(t, asked("SENSOR"))
  BY DEF ReadAndAsk, t, asked
<1>10. ReadAndAsk("SENSOR") => Has(main_mbx', Coded({"SENSOR"}))
  <2>1. asked("SENSOR") \in Messages
    BY <1>6
  <2>2. Has(Append(t, asked("SENSOR")), Coded({"SENSOR"}))
    BY <1>2, <1>7, <2>1, AppendHas
  <2> QED
    BY <1>9, <2>2
<1>11. CASE main_mbx' = t
  <2>1. Len(main_mbx') <= MailBlocks
    BY <1>1, <1>2, <1>11
  <2> QED
    BY <1>2, <1>3, <1>4, <1>5, <1>11, <1>10, <2>1
<1>12. ASSUME NEW c \in {"SENSOR", "SENSOR_ACTIVE"}, main_mbx' = Append(t, asked(c))
       PROVE  /\ main_mbx' \in Seq(Messages) /\ Len(main_mbx') <= MailBlocks /\ Late(main_mbx')
              /\ m.code = "RESET" => ~Has(main_mbx', Asked)
              /\ Has(t, Coded({"SENSOR"})) => Has(main_mbx', Coded({"SENSOR"}))
  <2>1. /\ main_mbx' \in Seq(Messages) /\ Len(main_mbx') = Len(t) + 1
        /\ Has(main_mbx', Asked) => Has(t, Asked)
        /\ Has(t, Coded({"SENSOR"})) => Has(main_mbx', Coded({"SENSOR"}))
    BY <1>2, <1>6, <1>12, AppendHas
  <2>2. Late(main_mbx')
    BY <1>2, <1>3, <1>6, <1>12, AppendLate
  <2>3. Len(main_mbx') <= MailBlocks
    BY <1>1, <1>2, <2>1
  <2> QED
    BY <1>3, <1>4, <2>1, <2>2, <2>3
<1> QED
  BY <1>2, <1>5, <1>8, <1>11, <1>12, <1>10

\* Of the messages that no sensor sends, main only takes one away.
LEMMA Taken ==
  ASSUME Reading, Mailed, NEW S, S \cap Coded({"SENSOR", "SENSOR_ACTIVE"}) = {}
  PROVE  /\ Has(main_mbx', S) => Has(main_mbx, S)
         /\ One(main_mbx, S) => One(main_mbx', S)
         /\ One(main_mbx, S) /\ m \in S => ~Has(main_mbx', S)
<1>1. main_mbx \in Seq(Messages) /\ main_mbx # << >>
  BY DEF Reading, IInv
<1> DEFINE t == Tail(main_mbx)
           asked(c) == Msg(c, "SUCCESS")
<1>2. /\ t \in Seq(Messages)
      /\ Has(t, S) => Has(main_mbx, S)
      /\ One(main_mbx, S) => One(t, S)
      /\ One(main_mbx, S) /\ m \in S => ~Has(t, S)
  BY <1>1, TailHas DEF m
<1>3. \A c \in {"SENSOR", "SENSOR_ACTIVE"} : asked(c) \in Messages /\ asked(c) \notin S
  BY DEF Messages, Subs, Msg, Coded
<1> HIDE DEF asked, t
<1>4. main_mbx' = t \/ \E c \in {"SENSOR", "SENSOR_ACTIVE"} : main_mbx' = Append(t, asked(c))
  BY DEF Mailed, Read, ReadAndAsk, t, asked
<1>5. ASSUME NEW c \in {"SENSOR", "SENSOR_ACTIVE"}, main_mbx' = Append(t, asked(c))
      PROVE  (Has(main_mbx', S) => Has(t, S)) /\ (One(t, S) => One(main_mbx', S))
  BY <1>2, <1>3, <1>5, AppendHas
<1> QED
  BY <1>2, <1>4, <1>5

\* The messages the invariant speaks of come from no sensor.
LEMMA NoSensors ==
  /\ Replies \cap Coded({"SENSOR", "SENSOR_ACTIVE"}) = {}
  /\ Asked \cap Coded({"SENSOR", "SENSOR_ACTIVE"}) = {}
  /\ \A c \in {"RESET", "REJECT", "ACCEPT"} :
       Coded({c}) \cap Coded({"SENSOR", "SENSOR_ACTIVE"}) = {}
BY DEF Replies, Asked, Coded, Motors, Moves, Homing

LEMMA MainMovesOnce ==
  ASSUME Reading, Effect
  PROVE  MovesOnce'
<1>1. MovesOnce /\ Mailed /\ MovesKept
  BY DEF Reading, IInv, Effect
<1>2. /\ Has(main_mbx', Replies) => Has(main_mbx, Replies)
      /\ One(main_mbx, Replies) => One(main_mbx', Replies)
      /\ One(main_mbx, Replies) /\ m \in Replies => ~Has(main_mbx', Replies)
      /\ m \in Replies => Has(main_mbx, Replies)
  BY <1>1, Left, Taken, NoSensors
<1>3. MayLeave => work \cap Motors = {} /\ ~Has(main_mbx', Replies)
  BY <1>1, <1>2 DEF MovesOnce, MayLeave
<1>4. OneMoves'
  BY <1>1, <1>3 DEF MovesKept, MovesOnce, OneMoves, Motors
<1>5. work' \cap Motors # {} => ~Has(main_mbx', Replies)
  BY <1>1, <1>2, <1>3 DEF MovesKept, MovesOnce
<1>6. ~Moving' => work' \cap Motors = {} /\ ~Has(main_mbx', Replies)
  BY <1>1, <1>3 DEF MovesKept
<1> QED
  BY <1>1, <1>2, <1>4, <1>5, <1>6 DEF MovesOnce

LEMMA MainResetLast ==
  ASSUME Reading, Effect, UNCHANGED line
  PROVE  ResetLast'
<1>1. ResetLast /\ Mailed /\ ResetKept
  BY DEF Reading, IInv, Effect
<1>2. /\ Has(main_mbx', Coded({"RESET"})) => Has(main_mbx, Coded({"RESET"}))
      /\ Has(main_mbx', Asked) => Has(main_mbx, Asked)
      /\ Late(main_mbx') /\ (m.code = "RESET" => ~Has(main_mbx', Asked))
  BY <1>1, Left, Taken, NoSensors
<1>3. m.code = "RESET" => Has(main_mbx, Coded({"RESET"}))
  <2>1. m.code = "RESET" => m \in Coded({"RESET"})
    BY BeforeRead DEF Coded
  <2> QED
    BY <1>1, <2>1, Left
<1> QED
  BY <1>1, <1>2, <1>3 DEF ResetLast, ResetKept

LEMMA MainRejectOnce ==
  ASSUME Reading, Effect
  PROVE  RejectOnce' /\ (line_mbx \in Seq(LineMessages))'
<1>1. RejectOnce /\ Mailed /\ ToldKept /\ TurnKept /\ line_mbx \in Seq(LineMessages)
  BY DEF Reading, IInv, Effect
<1> DEFINE R == Coded({"REJECT"})
<1>2. /\ Has(main_mbx', R) => Has(main_mbx, R)
      /\ One(main_mbx, R) => One(main_mbx', R)
      /\ One(main_mbx, R) /\ m \in R => ~Has(main_mbx', R)
      /\ m \in R => Has(main_mbx, R)
  BY <1>1, Left, Taken, NoSensors
<1>3. m.code = "REJECT" => m \in R
  BY BeforeRead DEF Coded
<1> HIDE DEF R
<1>4. Has(main_mbx, R) => Awaited /\ ~Has(line_mbx, Refusals)
  BY <1>1 DEF RejectOnce, R
<1>5. Awaited => Awaited' \/ m.code = "REJECT"
  BY <1>1, BeforeRead DEF TurnKept, Awaited, Ended
<1>6. CASE line_mbx' = line_mbx
  BY <1>1, <1>2, <1>3, <1>4, <1>5, <1>6 DEF RejectOnce, R
<1>7. ASSUME NEW x \in LineMessages, line_mbx' = Append(line_mbx, x),
             x \in Refusals => mode2' = "WAIT_REJECT_REQ" /\ ~Awaited
      PROVE  RejectOnce' /\ (line_mbx \in Seq(LineMessages))'
  <2>1. /\ line_mbx' \in Seq(LineMessages)
        /\ Has(line_mbx', Refusals) => Has(line_mbx, Refusals) \/ x \in Refusals
        /\ One(line_mbx, Refusals) /\ (x \notin Refusals \/ ~Has(line_mbx, Refusals)) =>
             One(line_mbx', Refusals)
    BY <1>1, <1>7, AppendHas
  <2>2. x \in Refusals => Awaited' /\ ~Awaited
    BY <1>7 DEF Awaited
  <2> QED
    BY <1>1, <1>2, <1>3, <1>4, <1>5, <2>1, <2>2 DEF RejectOnce, R
<1> QED
  BY <1>1, <1>6, <1>7 DEF ToldKept

LEMMA MainAcceptMeant ==
  ASSUME Reading, Effect, UNCHANGED <<line, inhibit>>
  PROVE  AcceptMeant'
<1>1. AcceptMeant /\ Mailed /\ ToldKept /\ TurnKept /\ line_mbx \in Seq(LineMessages)
  BY DEF Reading, IInv, Effect
<1>2. Has(main_mbx', Coded({"ACCEPT"})) => Has(main_mbx, Coded({"ACCEPT"}))
  BY <1>1, Taken, NoSensors
<1>3. m.code = "ACCEPT" => Has(main_mbx, Coded({"ACCEPT"}))
  <2>1. m.code = "ACCEPT" => m \in Coded({"ACCEPT"})
    BY BeforeRead DEF Coded
  <2> QED
    BY <1>1, <2>1, Left
<1>4. Ended => Ended'
  BY <1>1, BeforeRead DEF TurnKept, Ended
<1>5. Has(line_mbx', Aborts) => Has(line_mbx, Aborts) \/ mode1' = "ALARM"
  BY <1>1, AppendHas DEF ToldKept
<1> QED
  BY <1>1, <1>2, <1>3, <1>4, <1>5 DEF AcceptMeant, TurnKept, InLine, Ended

LEMMA MainWatched ==
  ASSUME Reading, Effect, UNCHANGED <<option, paper, box, off>>
  PROVE  Watched'
<1>1. Watched /\ Mailed /\ WatchKept
  BY DEF Reading, IInv, Effect
<1>2. /\ ReadAndAsk("SENSOR") => Has(main_mbx', Coded({"SENSOR"}))
      /\ Has(main_mbx, Coded({"SENSOR"})) /\ m.code # "SENSOR" => Has(main_mbx', Coded({"SENSOR"}))
  BY <1>1, Left
<1>3. Still' = Still /\ StillShut' = StillShut
  BY DEF Still, StillShut
<1> QED
  BY <1>1, <1>2, <1>3 DEF Watched, WatchKept

LEMMA MainInv ==
  ASSUME Reading, Effect, UNCHANGED <<option, paper, box, off, line, inhibit, events>>,
         enabling' \in BOOLEAN
  PROVE  IInv'
<1>1. TypeOK /\ Typed /\ Mailed /\ events \in Nat
  BY DEF Reading, IInv, Effect
<1>2. main_mbx' \in Seq(Messages) /\ Len(main_mbx') <= MailBlocks
  BY <1>1, Left
<1>3. TypeOK'
  BY <1>1, <1>2 DEF TypeOK, Typed
<1> QED
  BY <1>1, <1>2, <1>3, MainMovesOnce, MainResetLast, MainRejectOnce, MainAcceptMeant, MainWatched
  DEF IInv

------------------------------------------------------------------------------
(* The steps of the others: they append a message, at most.                    *)

LEMMA Sent ==
  ASSUME IInv, NEW x \in Messages, Len(main_mbx) < MailBlocks, main_mbx' = Append(main_mbx, x)
  PROVE  /\ main_mbx' \in Seq(Messages) /\ Len(main_mbx') <= MailBlocks
         /\ \A S : Has(main_mbx', S) <=> Has(main_mbx, S) \/ x \in S
         /\ \A S : One(main_mbx, S) /\ (x \notin S \/ ~Has(main_mbx, S)) => One(main_mbx', S)
         /\ x \notin Asked \/ ~Has(main_mbx, Coded({"RESET"})) => Late(main_mbx')
<1>1. main_mbx \in Seq(Messages) /\ Late(main_mbx)
  BY DEF IInv, ResetLast
<1>2. /\ main_mbx' \in Seq(Messages) /\ Len(main_mbx') = Len(main_mbx) + 1 /\ Len(main_mbx) \in Nat
      /\ \A S : Has(main_mbx', S) <=> Has(main_mbx, S) \/ x \in S
      /\ \A S : One(main_mbx, S) /\ (x \notin S \/ ~Has(main_mbx, S)) => One(main_mbx', S)
  BY <1>1, AppendHas
<1>3. Len(main_mbx') <= MailBlocks
  BY <1>2
<1>4. x \notin Asked \/ ~Has(main_mbx, Coded({"RESET"})) => Late(main_mbx')
  BY <1>1, AppendLate
<1> QED
  BY <1>2, <1>3, <1>4

\* A device answers, or a timer is up.
LEMMA DeviceInv ==
  ASSUME IInv, UNCHANGED <<mains, line_mbx, option, box, line, inhibit>>,
         NEW x \in Messages, x \notin Asked \cup Coded({"RESET"}),
         NEW r \in work, work' = work \ {r}, x \in Replies => r \in Motors,
         Len(main_mbx) < MailBlocks, main_mbx' = Append(main_mbx, x),
         off' \subseteq Homing, events' \in Nat, events' <= MaxEvents,
         paper' \in {"NON", "ENTRANCE", "CENTERING", "ACCEPTOR", "STACKER"},
         r \in Motors \/ (off' \subseteq off /\ (paper' = paper \/ (option /\ paper # "NON")))
  PROVE  IInv'
<1>1. UNCHANGED <<mode1, mode2, back, reset, job, backup, enabling>>
  BY DEF mains, Jobs
<1>2. /\ TypeOK /\ MovesOnce /\ ResetLast /\ RejectOnce /\ AcceptMeant /\ Watched
      /\ line_mbx \in Seq(LineMessages)
  BY DEF IInv
<1>3. /\ main_mbx' \in Seq(Messages) /\ Len(main_mbx') <= MailBlocks
      /\ \A S : Has(main_mbx', S) <=> Has(main_mbx, S) \/ x \in S
      /\ \A S : One(main_mbx, S) /\ (x \notin S \/ ~Has(main_mbx, S)) => One(main_mbx', S)
      /\ Late(main_mbx')
  BY Sent
<1>4. x \notin Coded({"RESET"}) \cup Coded({"REJECT"}) \cup Coded({"ACCEPT"})
  BY DEF Asked, Coded
<1>5. Moving' = Moving /\ Resetting' = Resetting /\ Awaited' = Awaited /\ Ended' = Ended
  BY <1>1 DEF Moving, Resetting, Awaited, Ended
<1>6. r \in Motors => Moving /\ ~Has(main_mbx, Replies) /\ work' \cap Motors = {}
  BY <1>2 DEF MovesOnce, OneMoves, Motors
<1>7. MovesOnce'
  <2>1. OneMoves'
    BY <1>2 DEF MovesOnce, OneMoves
  <2>2. One(main_mbx', Replies)
    BY <1>2, <1>3, <1>6 DEF MovesOnce
  <2>3. work' \cap Motors # {} => ~Has(main_mbx', Replies)
    BY <1>2, <1>3, <1>6 DEF MovesOnce
  <2>4. ~Moving' => work' \cap Motors = {} /\ ~Has(main_mbx', Replies)
    BY <1>2, <1>3, <1>5, <1>6 DEF MovesOnce
  <2> QED
    BY <2>1, <2>2, <2>3, <2>4 DEF MovesOnce
<1>8. ResetLast'
  BY <1>1, <1>2, <1>3, <1>4, <1>5 DEF ResetLast
<1>9. RejectOnce'
  BY <1>2, <1>3, <1>4, <1>5 DEF RejectOnce
<1>10. AcceptMeant'
  BY <1>1, <1>2, <1>3, <1>4, <1>5 DEF AcceptMeant, InLine
<1>11. Watched'
  <2>1. r \in Motors => ~In("ENABLE", "WAIT_BILL_IN") /\ ~In("DISABLE", "WAIT_REQ")
    BY <1>6 DEF Moving, In
  <2>2. /\ Still /\ r \notin Motors => Still'
        /\ StillShut /\ r \notin Motors => StillShut'
    BY DEF Still, StillShut
  <2> QED
    BY <1>1, <1>2, <1>3, <2>1, <2>2 DEF Watched, In
<1>12. TypeOK'
  BY <1>1, <1>2, <1>3 DEF TypeOK
<1> QED
  BY <1>2, <1>3, <1>7, <1>8, <1>9, <1>10, <1>11, <1>12 DEF IInv

\* The hands at the entrance and at the box.
LEMMA SeenInv ==
  ASSUME IInv, Seen, box' \in BOOLEAN, events' \in Nat, events' <= MaxEvents,
         paper' \in {"NON", "ENTRANCE", "CENTERING", "ACCEPTOR", "STACKER"}
  PROVE  IInv'
<1>1. UNCHANGED <<mode1, mode2, back, reset, job, backup, enabling, work, line_mbx, option, off, line, inhibit>>
  BY DEF Seen, mains, Jobs
<1>2. /\ TypeOK /\ MovesOnce /\ ResetLast /\ RejectOnce /\ AcceptMeant /\ Watched
      /\ main_mbx \in Seq(Messages) /\ line_mbx \in Seq(LineMessages)
  BY DEF IInv
<1> DEFINE x == Msg("SENSOR", "SUCCESS")
<1>3. x \in Messages /\ x \in Coded({"SENSOR"}) /\ x \notin Replies \cup Asked
      /\ x \notin Coded({"RESET"}) \cup Coded({"REJECT"}) \cup Coded({"ACCEPT"})
  BY DEF Messages, Subs, Msg, Coded, Replies, Asked, Motors, Moves, Homing
<1> HIDE DEF x
<1>4. \/ main_mbx' = main_mbx /\ "ADJUST" \in work
      \/ Len(main_mbx) < MailBlocks /\ main_mbx' = Append(main_mbx, x)
  BY DEF Seen, Send, x
<1>5. /\ main_mbx' \in Seq(Messages) /\ Len(main_mbx') <= MailBlocks
      /\ \A S : Has(main_mbx', S) => Has(main_mbx, S) \/ x \in S
      /\ \A S : One(main_mbx, S) /\ x \notin S => One(main_mbx', S)
      /\ Late(main_mbx')
      /\ "ADJUST" \in work \/ Has(main_mbx', Coded({"SENSOR"}))
  BY <1>2, <1>3, <1>4, Sent DEF TypeOK, ResetLast
<1>6. Moving' = Moving /\ Resetting' = Resetting /\ Awaited' = Awaited /\ Ended' = Ended
  BY <1>1 DEF Moving, Resetting, Awaited, Ended
<1>7. MovesOnce'
  BY <1>1, <1>2, <1>3, <1>5, <1>6 DEF MovesOnce, OneMoves
<1>8. ResetLast'
  BY <1>1, <1>2, <1>3, <1>5, <1>6 DEF ResetLast
<1>9. RejectOnce'
  BY <1>1, <1>2, <1>3, <1>5, <1>6 DEF RejectOnce
<1>10. AcceptMeant'
  BY <1>1, <1>2, <1>3, <1>5, <1>6 DEF AcceptMeant, InLine
<1>11. Watched'
  <2>1. "ADJUST" \in work => Moving
    BY <1>2, MotorFacts DEF MovesOnce
  <2>2. "ADJUST" \in work => ~In("ENABLE", "WAIT_BILL_IN") /\ ~In("DISABLE", "WAIT_REQ")
    BY <2>1 DEF Moving, In
  <2> QED
    BY <1>1, <1>2, <1>5, <2>2 DEF Watched, In
<1>12. TypeOK'
  BY <1>1, <1>2, <1>5 DEF TypeOK
<1> QED
  BY <1>1, <1>2, <1>5, <1>7, <1>8, <1>9, <1>10, <1>11, <1>12 DEF IInv

\* What the line task asks for, going from one mode to another.
Requests == {"ENABLE", "DISABLE", "ACCEPT", "REJECT", "RESET", "SET_STATUS"}
Taking   == {"ACCEPT", "REJECT_WAIT_ACCEPT_RSP", "INITIAL"}

Request(c) ==
  /\ Send(c, "none")
  /\ c \in {"ENABLE", "DISABLE", "ACCEPT", "REJECT"} => line \notin Over
  /\ c = "RESET" => line' \in Over
  /\ c = "ACCEPT" => line' = "ACCEPT"
  /\ c = "REJECT" =>
       line_mbx # << >> /\ line_mbx' = Tail(line_mbx) /\ Head(line_mbx) \in Refusals

LineKept ==
  /\ line' \in LineModes /\ inhibit' \in BOOLEAN
  /\ line \in Over => line' \in Over
  /\ ~Ended /\ line \in Taking => line' \in Taking
  /\ inhibit' => line' \notin {"ACCEPT", "ENABLE", "ENABLE_WAIT_POLL"}
  /\ line_mbx' = line_mbx \/ (line_mbx # << >> /\ line_mbx' = Tail(line_mbx))
  /\ main_mbx' = main_mbx \/ \E c \in Requests : Request(c)

\* What lies in the mailbox of the line task came from main, and only goes.
LEMMA Heard ==
  ASSUME IInv, line_mbx' = line_mbx \/ (line_mbx # << >> /\ line_mbx' = Tail(line_mbx))
  PROVE  /\ line_mbx' \in Seq(LineMessages)
         /\ \A S : Has(line_mbx', S) => Has(line_mbx, S)
         /\ One(line_mbx', Refusals)
         /\ line_mbx # << >> /\ line_mbx' = Tail(line_mbx) /\ Head(line_mbx) \in Refusals =>
              Has(line_mbx, Refusals) /\ ~Has(line_mbx', Refusals)
<1>1. line_mbx \in Seq(LineMessages) /\ One(line_mbx, Refusals)
  BY DEF IInv, RejectOnce
<1>2. ASSUME line_mbx # << >>
      PROVE  /\ Tail(line_mbx) \in Seq(LineMessages) /\ One(Tail(line_mbx), Refusals)
             /\ \A S : Has(Tail(line_mbx), S) => Has(line_mbx, S)
             /\ Head(line_mbx) \in Refusals =>
                  Has(line_mbx, Refusals) /\ ~Has(Tail(line_mbx), Refusals)
  BY <1>1, <1>2, TailHas
<1> QED
  BY <1>1, <1>2

LEMMA LineInv ==
  ASSUME IInv, LineKept, UNCHANGED <<mains, work, option, paper, box, off>>,
         events' \in Nat, events' <= MaxEvents
  PROVE  IInv'
<1>1. UNCHANGED <<mode1, mode2, back, reset, job, backup, enabling, work, option, paper, box, off>>
  BY DEF mains, Jobs
<1>2. /\ TypeOK /\ MovesOnce /\ ResetLast /\ RejectOnce /\ AcceptMeant /\ Watched
      /\ main_mbx \in Seq(Messages)
  BY DEF IInv
<1>3. /\ line_mbx' \in Seq(LineMessages) /\ One(line_mbx', Refusals)
      /\ \A S : Has(line_mbx', S) => Has(line_mbx, S)
      /\ line_mbx # << >> /\ line_mbx' = Tail(line_mbx) /\ Head(line_mbx) \in Refusals =>
           Has(line_mbx, Refusals) /\ ~Has(line_mbx', Refusals)
  BY Heard DEF LineKept
<1>4. Moving' = Moving /\ Resetting' = Resetting /\ Awaited' = Awaited /\ Ended' = Ended
  BY <1>1 DEF Moving, Resetting, Awaited, Ended
<1>5. /\ Still' = Still /\ StillShut' = StillShut
      /\ In("ENABLE", "WAIT_BILL_IN")' = In("ENABLE", "WAIT_BILL_IN")
      /\ In("DISABLE", "WAIT_REQ")' = In("DISABLE", "WAIT_REQ")
  BY <1>1 DEF Still, StillShut, In
<1>6. /\ line \in Over => line' \in Over
      /\ ~Ended /\ line \in Taking => line' \in Taking
      /\ inhibit' => line' \notin {"ACCEPT", "ENABLE", "ENABLE_WAIT_POLL"}
      /\ line' \in LineModes /\ inhibit' \in BOOLEAN
  BY DEF LineKept
<1>7. CASE main_mbx' = main_mbx
  <2>1. MovesOnce'
    BY <1>1, <1>2, <1>4, <1>7 DEF MovesOnce, OneMoves
  <2>2. ResetLast'
    BY <1>1, <1>2, <1>4, <1>6, <1>7 DEF ResetLast
  <2>3. RejectOnce'
    BY <1>2, <1>3, <1>4, <1>7 DEF RejectOnce
  <2>4. AcceptMeant'
    BY <1>1, <1>2, <1>3, <1>4, <1>6, <1>7 DEF AcceptMeant, InLine, Taking
  <2>5. Watched'
    BY <1>1, <1>2, <1>5, <1>7 DEF Watched
  <2>6. TypeOK'
    BY <1>1, <1>2, <1>6, <1>7 DEF TypeOK
  <2> QED
    BY <1>2, <1>3, <1>7, <2>1, <2>2, <2>3, <2>4, <2>5, <2>6 DEF IInv
<1>8. ASSUME NEW c \in Requests, Request(c) PROVE IInv'
  <2> DEFINE x == Msg(c, "none")
  <2>1. /\ x \in Messages /\ x \notin Replies
        /\ x \in Asked => c \in {"ENABLE", "DISABLE", "ACCEPT", "REJECT"}
        /\ \A d \in {"RESET", "REJECT", "ACCEPT"} : x \in Coded({d}) => c = d
    BY DEF Messages, Subs, Msg, Coded, Replies, Asked, Motors, Moves, Homing, Requests
  <2> HIDE DEF x
  <2>2. Len(main_mbx) < MailBlocks /\ main_mbx' = Append(main_mbx, x)
    BY <1>8 DEF Request, Send, x
  <2>3. /\ main_mbx' \in Seq(Messages) /\ Len(main_mbx') <= MailBlocks
        /\ \A S : Has(main_mbx', S) <=> Has(main_mbx, S) \/ x \in S
        /\ \A S : One(main_mbx, S) /\ (x \notin S \/ ~Has(main_mbx, S)) => One(main_mbx', S)
        /\ x \notin Asked \/ ~Has(main_mbx, Coded({"RESET"})) => Late(main_mbx')
    BY <2>1, <2>2, Sent
  <2>4. x \in Asked => ~Has(main_mbx, Coded({"RESET"})) /\ ~reset
    BY <1>2, <1>8, <2>1 DEF Request, ResetLast
  <2>5. x \in Coded({"REJECT"}) =>
          Awaited /\ ~Has(main_mbx, Coded({"REJECT"})) /\ ~Has(line_mbx', Refusals)
    BY <1>2, <1>3, <1>8, <2>1 DEF Request, RejectOnce
  <2>6. MovesOnce'
    BY <1>1, <1>2, <1>4, <2>1, <2>3 DEF MovesOnce, OneMoves
  <2>7. ResetLast'
    <3>1. x \in Coded({"RESET"}) => line' \in Over
      BY <1>8, <2>1 DEF Request
    <3> QED
      BY <1>1, <1>2, <1>4, <1>6, <2>3, <2>4, <3>1 DEF ResetLast
  <2>8. RejectOnce'
    BY <1>2, <1>3, <1>4, <2>3, <2>5 DEF RejectOnce
  <2>9. AcceptMeant'
    <3>1. x \in Coded({"ACCEPT"}) => line' = "ACCEPT"
      BY <1>8, <2>1 DEF Request
    <3> QED
      BY <1>1, <1>2, <1>3, <1>4, <1>6, <2>3, <3>1 DEF AcceptMeant, InLine, Taking
  <2>10. Watched'
    BY <1>1, <1>2, <1>5, <2>3 DEF Watched
  <2>11. TypeOK'
    BY <1>1, <1>2, <1>6, <2>3 DEF TypeOK
  <2> QED
    BY <1>2, <1>3, <2>3, <2>6, <2>7, <2>8, <2>9, <2>10, <2>11 DEF IInv
<1> QED
  BY <1>7, <1>8 DEF LineKept

\* The line task goes to another mode, and may ask main for something.
LEMMA GoesKept ==
  ASSUME IInv, NEW next \in LineModes, Goes(next), UNCHANGED inhibit,
         line_mbx' = line_mbx \/ (line_mbx # << >> /\ line_mbx' = Tail(line_mbx)),
         line \in Over => next \in Over,
         ~Ended /\ line \in Taking => next \in Taking,
         inhibit => next \notin {"ACCEPT", "ENABLE", "ENABLE_WAIT_POLL"}
  PROVE  LineKept
BY DEF Goes, LineKept, IInv, TypeOK

LEMMA AsksKept ==
  ASSUME IInv, NEW next \in LineModes, NEW c \in Requests, Asks(next, c), inhibit' \in BOOLEAN,
         line_mbx' = line_mbx \/ (line_mbx # << >> /\ line_mbx' = Tail(line_mbx)),
         line \in Over => next \in Over,
         ~Ended /\ line \in Taking => next \in Taking,
         inhibit' => next \notin {"ACCEPT", "ENABLE", "ENABLE_WAIT_POLL"},
         c \in {"ENABLE", "DISABLE", "ACCEPT", "REJECT"} => line \notin Over,
         c = "RESET" => next \in Over,
         c = "ACCEPT" => next = "ACCEPT",
         c = "REJECT" =>
           line_mbx # << >> /\ line_mbx' = Tail(line_mbx) /\ Head(line_mbx) \in Refusals
  PROVE  LineKept
<1>1. line' = next /\ Request(c)
  BY DEF Asks, Request
<1> QED
  BY <1>1 DEF LineKept

LEMMA IgnoresKept ==
  ASSUME IInv, Ignores, inhibit' \in BOOLEAN,
         inhibit' => line \notin {"ACCEPT", "ENABLE", "ENABLE_WAIT_POLL"},
         line_mbx' = line_mbx \/ (line_mbx # << >> /\ line_mbx' = Tail(line_mbx))
  PROVE  LineKept
BY DEF Ignores, LineKept, IInv, TypeOK

\* What the host allows, and the modes it may be in then.
LEMMA BeforeHeard ==
  ASSUME IInv
  PROVE  /\ line \in LineModes /\ inhibit \in BOOLEAN
         /\ inhibit => line \notin {"ACCEPT", "ENABLE", "ENABLE_WAIT_POLL"}
         /\ line_mbx # << >> =>
              /\ told \in LineMessages
              /\ told.sub = "REJECT" => Head(line_mbx) \in Refusals
              /\ told.code \in {"ACCEPT", "RESET", "STATUS"} => Ended
<1>1. line \in LineModes /\ inhibit \in BOOLEAN /\ AcceptMeant /\ line_mbx \in Seq(LineMessages)
  BY DEF IInv, TypeOK
<1>2. ASSUME line_mbx # << >> PROVE told \in LineMessages /\ (told \in Aborts => Has(line_mbx, Aborts))
  BY <1>1, <1>2, TailHas DEF told
<1>3. ASSUME line_mbx # << >>
      PROVE  /\ told.sub = "REJECT" => Head(line_mbx) \in Refusals
             /\ told.code \in {"ACCEPT", "RESET", "STATUS"} => told \in Aborts
  BY <1>2, <1>3 DEF Refusals, Aborts, told
<1> QED
  BY <1>1, <1>2, <1>3 DEF AcceptMeant, InLine

LEMMA ResumesKept ==
  ASSUME IInv, UNCHANGED inhibit, Resumes \/ ResumesPolled, line \notin Over \cup Taking,
         line_mbx' = line_mbx \/ (line_mbx # << >> /\ line_mbx' = Tail(line_mbx))
  PROVE  LineKept
<1>1. {"ENABLE", "DISABLE"} \subseteq LineModes \cap Requests /\ "ENABLE_WAIT_POLL" \in LineModes
  BY DEF LineModes, Requests
<1>2. CASE inhibit /\ Asks("DISABLE", "DISABLE")
  BY <1>1, <1>2, BeforeHeard, AsksKept
<1>3. CASE ~inhibit /\ Asks("ENABLE", "ENABLE")
  BY <1>1, <1>3, BeforeHeard, AsksKept
<1>4. CASE ~inhibit /\ Goes("ENABLE_WAIT_POLL")
  BY <1>1, <1>4, GoesKept
<1> QED
  BY <1>2, <1>3, <1>4 DEF Resumes, ResumesPolled

LEMMA LineReadsInv ==
  ASSUME IInv, LineReads
  PROVE  IInv'
<1>1. /\ line_mbx # << >> /\ line_mbx' = Tail(line_mbx) /\ line \in LineModes /\ inhibit \in BOOLEAN
      /\ inhibit => line \notin {"ACCEPT", "ENABLE", "ENABLE_WAIT_POLL"}
      /\ told.sub = "REJECT" => Head(line_mbx) \in Refusals
      /\ told.code \in {"ACCEPT", "RESET", "STATUS"} => Ended
  BY BeforeHeard DEF LineReads
<1>2. /\ {"ACCEPT", "ENABLE_REJECT", "DISABLE_REJECT", "ERROR", "REJECT_WAIT_POLL",
          "AUTO_RECOVERY"} \cup Returns \subseteq LineModes
      /\ {"ERROR", "AUTO_RECOVERY"} \subseteq Over
      /\ ({"ENABLE", "DISABLE", "ENABLE_WAIT_POLL"} \cup Returns) \cap (Over \cup Taking) = {}
      /\ Returns \cap {"ACCEPT", "ENABLE", "ENABLE_WAIT_POLL"} = {}
      /\ Requests = {"ENABLE", "DISABLE", "ACCEPT", "REJECT", "RESET", "SET_STATUS"}
  BY DEF LineModes, Over, Taking, Returns, Requests
<1>3. ASSUME UNCHANGED inhibit, Ignores PROVE LineKept
  BY <1>1, <1>3, IgnoresKept
<1>4. ASSUME UNCHANGED inhibit, Goes("ERROR"),
             Ended \/ line \in {"ENABLE", "DISABLE", "ENABLE_WAIT_POLL"} \cup Returns
      PROVE  LineKept
  BY <1>1, <1>2, <1>4, GoesKept
<1>5. ASSUME UNCHANGED inhibit, enable_rsp PROVE LineKept
  <2>1. CASE line = "ENABLE" /\ Asks("ACCEPT", "ACCEPT")
    BY <1>1, <1>2, <1>5, <2>1, AsksKept
  <2>2. CASE line = "ENABLE" /\ told.sub = "REJECT" /\ Asks("ENABLE_REJECT", "REJECT")
    BY <1>1, <1>2, <1>5, <2>2, AsksKept DEF Returns
  <2> QED
    BY <1>3, <1>4, <1>5, <2>1, <2>2 DEF enable_rsp
<1>6. ASSUME UNCHANGED inhibit, disable_rsp PROVE LineKept
  <2>1. CASE line = "DISABLE" /\ told.sub = "REJECT" /\ Asks("DISABLE_REJECT", "REJECT")
    BY <1>1, <1>2, <1>6, <2>1, AsksKept DEF Returns
  <2> QED
    BY <1>3, <1>4, <1>6, <2>1 DEF disable_rsp
<1>7. ASSUME UNCHANGED inhibit, reject_rsp PROVE LineKept
  <2>1. CASE InLine(Returns) /\ told.sub = "REJECT" /\ Asks(line, "REJECT")
    BY <1>1, <1>2, <1>7, <2>1, AsksKept DEF InLine
  <2>2. CASE line = "REJECT" /\ Goes("REJECT_WAIT_POLL")
    BY <1>1, <1>2, <1>7, <2>2, GoesKept DEF Returns
  <2>3. CASE line \in Returns /\ (ResumesPolled \/ Resumes)
    BY <1>1, <1>2, <1>7, <2>3, ResumesKept
  <2> QED
    BY <1>3, <1>4, <1>7, <2>1, <2>2, <2>3 DEF reject_rsp, InLine, Returns
<1>8. ASSUME Ended, UNCHANGED inhibit, accept_rsp \/ reset_rsp PROVE LineKept
  BY <1>3, <1>4, <1>8 DEF accept_rsp, reset_rsp
<1>9. ASSUME Ended, status_info PROVE LineKept
  <2>1. CASE line = "ERROR" /\ inhibit' = TRUE /\ Asks("AUTO_RECOVERY", "RESET")
    BY <1>1, <1>2, <1>9, <2>1, AsksKept
  <2>2. CASE Asks(line, "SET_STATUS") /\ UNCHANGED inhibit
    BY <1>1, <1>2, <1>9, <2>2, AsksKept
  <2> QED
    BY <1>3, <1>4, <1>9, <2>1, <2>2 DEF status_info
<1>10. LineKept
  BY <1>1, <1>5, <1>6, <1>7, <1>8, <1>9 DEF LineReads
<1>11. UNCHANGED <<mains, work, option, paper, box, off, events>>
  BY DEF LineReads
<1>12. events' \in Nat /\ events' <= MaxEvents
  BY <1>11 DEF IInv, TypeOK
<1> QED
  BY <1>10, <1>11, <1>12, LineInv

LEMMA HostInv ==
  ASSUME IInv, PollsEnable \/ Polls \/ Inhibits \/ Permits \/ Resets
  PROVE  IInv'
<1>1. /\ line \in LineModes /\ inhibit \in BOOLEAN /\ events \in Nat /\ events <= MaxEvents
      /\ inhibit => line \notin {"ACCEPT", "ENABLE", "ENABLE_WAIT_POLL"}
  BY BeforeHeard DEF IInv, TypeOK
<1>2. Host
  BY DEF PollsEnable, Polls, Inhibits, Permits, Resets
<1>3. line_mbx' = line_mbx /\ UNCHANGED <<mains, work, option, paper, box, off>>
  BY <1>2 DEF Host
<1>4. events' \in Nat /\ events' <= MaxEvents
  BY <1>1 DEF PollsEnable, Polls, Inhibits, Permits, Resets, Event
<1>5. /\ {"ENABLE", "DISABLE", "INITIAL", "REJECT_WAIT_NOTE_REMOVED", "REJECT_WAIT_ACCEPT_RSP"}
           \subseteq LineModes
      /\ {"ENABLE", "DISABLE", "RESET"} \subseteq Requests
      /\ "INITIAL" \in Over \cap Taking
      /\ {"ENABLE", "DISABLE", "ENABLE_WAIT_POLL", "REJECT", "REJECT_WAIT_POLL"}
           \cap (Over \cup Taking) = {}
      /\ "REJECT_WAIT_ACCEPT_RSP" \in Taking /\ "ACCEPT" \notin Over
  BY DEF LineModes, Requests, Over, Taking
<1>6. CASE PollsEnable
  <2>1. line = "ENABLE" /\ Asks(line, "ENABLE") /\ UNCHANGED inhibit
    BY <1>6 DEF PollsEnable
  <2>2. LineKept
    BY <1>1, <1>3, <1>5, <2>1, AsksKept
  <2> QED
    BY <1>3, <1>4, <2>2, LineInv
<1>7. CASE Polls
  <2>1. CASE line \in {"ENABLE_WAIT_POLL", "REJECT_WAIT_POLL"} /\ (Resumes \/ ResumesPolled)
    BY <1>3, <1>4, <1>5, <1>7, <2>1, ResumesKept, LineInv DEF Polls
  <2>2. CASE line = "REJECT" /\ Goes("REJECT_WAIT_NOTE_REMOVED")
    <3>1. LineKept
      BY <1>3, <1>5, <1>7, <2>2, GoesKept DEF Polls
    <3> QED
      BY <1>3, <1>4, <3>1, LineInv
  <2> QED
    BY <1>7, <2>1, <2>2 DEF Polls
<1>8. CASE Inhibits
  <2>1. CASE line \in {"ENABLE", "ENABLE_WAIT_POLL"} /\ Asks("DISABLE", "DISABLE")
    <3>1. LineKept
      BY <1>3, <1>5, <1>8, <2>1, AsksKept DEF Inhibits
    <3> QED
      BY <1>3, <1>4, <3>1, LineInv
  <2>2. CASE line = "ACCEPT" /\ Goes("REJECT_WAIT_ACCEPT_RSP")
    <3>1. LineKept
      BY <1>3, <1>5, <1>8, <2>2 DEF Inhibits, LineKept, Goes
    <3> QED
      BY <1>3, <1>4, <3>1, LineInv
  <2>3. CASE line \notin {"ENABLE", "ENABLE_WAIT_POLL", "ACCEPT"} /\ Ignores
    <3>1. LineKept
      BY <1>3, <1>8, <2>3, IgnoresKept DEF Inhibits
    <3> QED
      BY <1>3, <1>4, <3>1, LineInv
  <2> QED
    BY <1>8, <2>1, <2>2, <2>3 DEF Inhibits, InLine
<1>9. CASE Permits
  <2>1. CASE line = "DISABLE" /\ Asks("ENABLE", "ENABLE")
    <3>1. LineKept
      BY <1>3, <1>5, <1>9, <2>1, AsksKept DEF Permits
    <3> QED
      BY <1>3, <1>4, <3>1, LineInv
  <2>2. CASE Ignores
    <3>1. LineKept
      BY <1>3, <1>9, <2>2, IgnoresKept DEF Permits
    <3> QED
      BY <1>3, <1>4, <3>1, LineInv
  <2> QED
    BY <1>9, <2>1, <2>2 DEF Permits
<1>10. CASE Resets
  <2>1. CASE Asks("INITIAL", "RESET")
    <3>1. LineKept
      BY <1>3, <1>5, <1>10, <2>1, AsksKept DEF Resets
    <3> QED
      BY <1>3, <1>4, <3>1, LineInv
  <2>2. CASE line = "INITIAL" /\ Ignores
    <3>1. LineKept
      BY <1>3, <1>10, <2>2, IgnoresKept DEF Resets
    <3> QED
      BY <1>3, <1>4, <3>1, LineInv
  <2> QED
    BY <1>10, <2>1, <2>2 DEF Resets
<1> QED
  BY <1>6, <1>7, <1>8, <1>9, <1>10

LEMMA AnswerInv ==
  ASSUME IInv, UNCHANGED <<mains, line_mbx, option, box, line, inhibit>>,
         NEW r \in Moves, NEW sub \in Subs, Answer(r, sub),
         off' \subseteq Homing, events' \in Nat, events' <= MaxEvents,
         paper' \in {"NON", "ENTRANCE", "CENTERING", "ACCEPTOR", "STACKER"},
         r # "FORCE_REV" \/ (off' \subseteq off /\ (paper' = paper \/ paper # "NON"))
  PROVE  IInv'
<1>1. /\ Msg(r, sub) \in Messages /\ Msg(r, sub) \notin Asked \cup Coded({"RESET"})
      /\ Msg(r, sub) \in Replies => r \in Motors
  BY DEF Messages, Msg, Asked, Coded, Replies, Moves, Homing, Motors
<1>2. /\ r \in work /\ work' = work \ {r}
      /\ Len(main_mbx) < MailBlocks /\ main_mbx' = Append(main_mbx, Msg(r, sub))
  BY DEF Answer, Send
<1>3. r \in Motors \/ (off' \subseteq off /\ (paper' = paper \/ (option /\ paper # "NON")))
  BY <1>2 DEF Motors, IInv, Watched
<1> QED
  BY <1>1, <1>2, <1>3, DeviceInv

LEMMA ElapseInv ==
  ASSUME IInv, Device, UNCHANGED <<paper, off>>, NEW t \in Timers, Elapse(t),
         events' \in Nat, events' <= MaxEvents
  PROVE  IInv'
<1>1. /\ Msg("TIMER", t) \in Messages /\ Msg("TIMER", t) \notin Asked \cup Coded({"RESET"}) \cup Replies
  BY DEF Messages, Msg, Subs, Asked, Coded, Replies, Moves, Homing, Motors
<1>2. /\ t \in work /\ work' = work \ {t}
      /\ Len(main_mbx) < MailBlocks /\ main_mbx' = Append(main_mbx, Msg("TIMER", t))
  BY DEF Elapse, Send
<1>3. UNCHANGED <<mains, line_mbx, option, box, line, inhibit>> /\ off \subseteq Homing
      /\ paper \in {"NON", "ENTRANCE", "CENTERING", "ACCEPTOR", "STACKER"}
  BY DEF Device, IInv, TypeOK
<1> QED
  BY <1>1, <1>2, <1>3, DeviceInv

LEMMA DevicesInv ==
  ASSUME IInv, \/ Reaches \/ Fails \/ Adjusts \/ Centers \/ PushesOut \/ GivesBack \/ Hampered
               \/ Stalls \/ Elapses \/ AdjustmentDue
  PROVE  IInv'
<1>1. /\ off \subseteq Homing /\ events \in Nat /\ events <= MaxEvents
      /\ paper \in {"NON", "ENTRANCE", "CENTERING", "ACCEPTOR", "STACKER"}
  BY DEF IInv, TypeOK
<1>2. Device
  BY DEF Reaches, Fails, Adjusts, Centers, PushesOut, GivesBack, Hampered, Stalls, Elapses,
         AdjustmentDue, Placed, Feeds
<1>3. UNCHANGED <<mains, line_mbx, option, box, line, inhibit>>
  BY <1>2 DEF Device
<1>4. /\ Homing \subseteq Moves \ {"FORCE_REV"}
      /\ {"ADJUST", "CENTERING_EXEC", "OUT_RETRY", "FEED_REJECT"} \subseteq Moves \ {"FORCE_REV"}
      /\ "FORCE_REV" \in Moves
      /\ {"SUCCESS", "ALARM", "BOX", "RETRY", "INTERIM"} \subseteq Subs
      /\ "CENTERING_HOME" \in Homing
  BY DEF Homing, Moves, Subs
<1>5. CASE Reaches
  BY <1>1, <1>3, <1>4, <1>5, AnswerInv DEF Reaches, Placed
<1>6. CASE Fails
  <2>1. UNCHANGED <<paper, off, events>>
    BY <1>6 DEF Fails, Placed
  <2>2. ASSUME NEW r \in Moves, NEW sub \in {"ALARM", "BOX"}, Answer(r, sub) PROVE IInv'
    BY <1>1, <1>3, <1>4, <2>1, <2>2, AnswerInv
  <2>3. CASE \E r \in Moves \ {"ADJUST"} : Answer(r, "ALARM")
    BY <2>2, <2>3
  <2>4. CASE \E r \in {"STACKER_HALF", "FORCE_REV", "FEED_REJECT"} : Answer(r, "BOX")
    <3>1. {"STACKER_HALF", "FORCE_REV", "FEED_REJECT"} \subseteq Moves
      BY DEF Moves, Homing
    <3> QED
      BY <2>2, <2>4, <3>1
  <2> QED
    BY <1>6, <2>3, <2>4 DEF Fails
<1>7. CASE Adjusts
  BY <1>1, <1>3, <1>4, <1>7, AnswerInv DEF Adjusts, Placed
<1>8. CASE Centers
  <2>1. off' \subseteq Homing /\ UNCHANGED <<paper, events>>
    BY <1>1, <1>4, <1>8 DEF Centers, Placed
  <2> QED
    BY <1>1, <1>3, <1>4, <1>8, <2>1, AnswerInv DEF Centers
<1>9. CASE PushesOut
  <2>1. /\ Answer("FORCE_REV", "SUCCESS") /\ UNCHANGED <<off, events>>
        /\ paper' = paper \/ (paper # "NON" /\ paper' \in {"ENTRANCE", "NON"})
    BY <1>9 DEF PushesOut, Feeds
  <2> QED
    BY <1>1, <1>3, <1>4, <2>1, AnswerInv
<1>10. CASE GivesBack
  BY <1>1, <1>3, <1>4, <1>10, AnswerInv DEF GivesBack, Feeds
<1>11. CASE Hampered
  <2>1. events' \in Nat /\ events' <= MaxEvents /\ UNCHANGED <<paper, off>>
    BY <1>1, <1>11 DEF Hampered, Event, Feeds
  <2> QED
    BY <1>1, <1>3, <1>4, <1>11, <2>1, AnswerInv DEF Hampered
<1>12. CASE Stalls
  <2>1. events' \in Nat /\ events' <= MaxEvents /\ UNCHANGED <<paper, off>>
    BY <1>1, <1>12 DEF Stalls, Event
  <2>2. PICK r \in work \cap (Homing \cup {"CENTERING_EXEC", "OUT_RETRY"}) :
               work' = work \ {r} /\ Send("STATUS", "ALARM")
    BY <1>12 DEF Stalls
  <2>3. Msg("STATUS", "ALARM") \in Messages /\ Msg("STATUS", "ALARM") \notin Asked \cup Coded({"RESET"})
    BY DEF Messages, Subs, Msg, Asked, Coded
  <2>4. r \in Motors /\ Len(main_mbx) < MailBlocks /\ main_mbx' = Append(main_mbx, Msg("STATUS", "ALARM"))
    BY <2>2, MotorFacts DEF Send
  <2> QED
    BY <1>1, <1>3, <2>1, <2>2, <2>3, <2>4, DeviceInv
<1>13. CASE Elapses
  BY <1>1, <1>2, <1>13, ElapseInv DEF Elapses, Placed
<1>14. CASE AdjustmentDue
  <2>1. events' \in Nat /\ events' <= MaxEvents
    BY <1>1, <1>14 DEF AdjustmentDue, Event
  <2> QED
    BY <1>2, <1>14, <2>1, ElapseInv DEF AdjustmentDue, Timers
<1> QED
  BY <1>5, <1>6, <1>7, <1>8, <1>9, <1>10, <1>11, <1>12, <1>13, <1>14

LEMMA HandsInv ==
  ASSUME IInv, PaperMoves \/ PaperTaken \/ BoxOut \/ BoxBack
  PROVE  IInv'
<1>1. /\ box \in BOOLEAN /\ events \in Nat /\ events <= MaxEvents
      /\ paper \in {"NON", "ENTRANCE", "CENTERING", "ACCEPTOR", "STACKER"}
  BY DEF IInv, TypeOK
<1>2. Seen
  BY DEF PaperMoves, PaperTaken, BoxOut, BoxBack
<1>3. events' \in Nat /\ events' <= MaxEvents
  BY <1>1 DEF PaperMoves, PaperTaken, BoxOut, BoxBack, Event
<1>4. box' \in BOOLEAN
      /\ paper' \in {"NON", "ENTRANCE", "CENTERING", "ACCEPTOR", "STACKER"}
  BY <1>1 DEF PaperMoves, PaperTaken, BoxOut, BoxBack
<1> QED
  BY <1>2, <1>3, <1>4, SeenInv

------------------------------------------------------------------------------
(* The invariant holds at first, and every step preserves it.                  *)

LEMMA InitInv ==
  ASSUME Init
  PROVE  IInv
<1>1. /\ \E x \in {Msg("SENSOR", "SUCCESS"), Msg("SENSOR_ACTIVE", "SUCCESS")} : main_mbx = <<x>>
      /\ line_mbx = << >> /\ events = 0 /\ work \subseteq {"TEMP_ADJ"} /\ reset = FALSE
      /\ box = TRUE /\ back = "FAIL" /\ job = "NON" /\ off \subseteq Homing /\ option \in BOOLEAN
  BY DEF Init, Disabled, Returning
<1>2. \/ /\ mode1 = "DISABLE" /\ mode2 = "WAIT_REQ" /\ line = "DISABLE" /\ inhibit = TRUE
         /\ main_mbx = <<Msg("SENSOR", "SUCCESS")>>
         /\ paper = "NON" /\ backup = "NON" /\ enabling \in BOOLEAN
      \/ /\ mode1 = "REJECT" /\ mode2 = "SENSOR_ACTIVE" /\ line = "REJECT" /\ inhibit = FALSE
         /\ paper = "ACCEPTOR" /\ backup \in {"NON", "BOX"} /\ enabling = FALSE
  BY <1>1 DEF Init, Disabled, Returning
<1>3. PICK x \in {Msg("SENSOR", "SUCCESS"), Msg("SENSOR_ACTIVE", "SUCCESS")} : main_mbx = <<x>>
  BY <1>1
<1>4. /\ x \in Messages /\ x \notin Replies \cup Asked
      /\ x \notin Coded({"RESET"}) \cup Coded({"REJECT"}) \cup Coded({"ACCEPT"})
      /\ x = Msg("SENSOR", "SUCCESS") => x \in Coded({"SENSOR"})
  BY DEF Messages, Subs, Msg, Coded, Replies, Asked, Motors, Moves, Homing
<1> HIDE DEF Msg
<1>5. /\ main_mbx \in Seq(Messages) /\ line_mbx \in Seq(LineMessages)
      /\ Len(main_mbx) = 1 /\ main_mbx[1] = x /\ Len(line_mbx) = 0
  BY <1>1, <1>3, <1>4
<1>6. /\ \A S : Has(main_mbx, S) <=> x \in S
      /\ \A S : One(main_mbx, S)
      /\ \A S : ~Has(line_mbx, S) /\ One(line_mbx, S)
  BY <1>5 DEF Has, One
<1>7. Late(main_mbx)
  BY <1>4, <1>5 DEF Late
<1>8. work \cap Motors = {} /\ "FORCE_REV" \notin work
  BY <1>1 DEF Motors, Moves, Homing
<1>9. TypeOK
  <2>1. mode1 \in DOMAIN Modes2 /\ mode2 \in Modes2[mode1] /\ back \in Alarms
    BY <1>1, <1>2 DEF Modes2, Rejects, Alarms
  <2>2. line \in LineModes /\ work \subseteq Moves \cup Timers
    BY <1>1, <1>2 DEF LineModes, Timers
  <2>3. Len(main_mbx) <= MailBlocks
    BY <1>5
  <2>4. {reset, enabling, option, box, inhibit} \subseteq BOOLEAN /\ {job, backup} \subseteq {"NON", "BOX"}
    BY <1>1, <1>2
  <2>5. paper \in {"NON", "ENTRANCE", "CENTERING", "ACCEPTOR", "STACKER"} /\ events <= MaxEvents
    BY <1>1, <1>2
  <2> QED
    BY <1>1, <2>1, <2>2, <2>3, <2>4, <2>5 DEF TypeOK
<1>10. MovesOnce
  BY <1>4, <1>6, <1>8 DEF MovesOnce, OneMoves, Motors
<1>11. ResetLast
  BY <1>1, <1>4, <1>6, <1>7 DEF ResetLast
<1>12. RejectOnce
  BY <1>4, <1>6 DEF RejectOnce
<1>13. AcceptMeant
  BY <1>2, <1>4, <1>6 DEF AcceptMeant, InLine
<1>14. Watched
  BY <1>2, <1>3, <1>4, <1>6, <1>8 DEF Watched, In
<1> QED
  BY <1>1, <1>5, <1>9, <1>10, <1>11, <1>12, <1>13, <1>14 DEF IInv

\* What main does, and what a step of the others leaves alone.
LEMMA MainReads ==
  ASSUME IInv, main
  PROVE  Reading /\ Effect /\ IInv'
<1>1. Reading /\ main_task /\ UNCHANGED <<option, paper, box, off, line, inhibit, events>>
  BY DEF main, main_task, Reading
<1>2. enabling' \in BOOLEAN
  <2>1. enabling \in BOOLEAN /\ reset \in BOOLEAN
    BY <1>1, BeforeRead
  <2> QED
    BY <1>1, <2>1 DEF main_task, active_disable_feed_reject
<1>3. Effect
  BY <1>1, MainEffect
<1> QED
  BY <1>1, <1>2, <1>3, MainInv

LEMMA OthersLeave ==
  ASSUME Next, ~main
  PROVE  UNCHANGED mains
BY DEF Next, Reaches, Fails, Adjusts, Centers, PushesOut, GivesBack, Hampered, Stalls, Elapses,
       AdjustmentDue, Placed, Feeds, Device, LineReads, PollsEnable, Polls, Inhibits, Permits,
       Resets, Host, PaperMoves, PaperTaken, BoxOut, BoxBack, Seen

LEMMA StepInv ==
  ASSUME IInv, [Next]_vars
  PROVE  IInv'
<1>1. CASE main
  BY <1>1, MainReads
<1>2. CASE \/ Reaches \/ Fails \/ Adjusts \/ Centers \/ PushesOut \/ GivesBack \/ Hampered
           \/ Stalls \/ Elapses \/ AdjustmentDue
  BY <1>2, DevicesInv
<1>3. CASE LineReads
  BY <1>3, LineReadsInv
<1>4. CASE PollsEnable \/ Polls \/ Inhibits \/ Permits \/ Resets
  BY <1>4, HostInv
<1>5. CASE PaperMoves \/ PaperTaken \/ BoxOut \/ BoxBack
  BY <1>5, HandsInv
<1>6. CASE UNCHANGED vars
  <2>1. UNCHANGED <<mode1, mode2, back, reset, job, backup, enabling, main_mbx, work, line_mbx,
                    option, paper, box, off, line, inhibit, events>>
    BY <1>6 DEF vars, mains, Jobs
  <2>2. MovesOnce' = MovesOnce /\ ResetLast' = ResetLast
    BY <2>1 DEF MovesOnce, OneMoves, Moving, ResetLast, Resetting
  <2>3. RejectOnce' = RejectOnce /\ AcceptMeant' = AcceptMeant
    BY <2>1 DEF RejectOnce, AcceptMeant, Awaited, Ended, InLine
  <2>4. Watched' = Watched
    BY <2>1 DEF Watched, Still, StillShut, In
  <2>5. TypeOK' = TypeOK
    BY <2>1 DEF TypeOK
  <2> QED
    BY <2>1, <2>2, <2>3, <2>4, <2>5 DEF IInv
<1> QED
  BY <1>1, <1>2, <1>3, <1>4, <1>5, <1>6 DEF Next

------------------------------------------------------------------------------
(* What the two tasks know of each other, until main is in an alarm, in an     *)
(* initialisation, or has a note.                                              *)

Gone == mode1 \in {"ALARM", "INIT", "ACCEPT"}

\* Main answers the commands of the host, gives a note back, has given it back.
Serving    == mode1 \in {"ENABLE", "DISABLE", "ADJUST"} \cup Actives
GivingBack == mode1 = "REJECT_STANDBY" \/ (mode1 = "REJECT" /\ mode2 # "WAIT_REQ")
Given      == In("REJECT", "WAIT_REQ")

\* Main waits for a reject, where _main_set_enable or _disable may have failed.
Refused == mode1 \in {"ENABLE", "DISABLE"} /\ mode2 = "WAIT_REJECT_REQ"

Commands   == Coded({"ENABLE", "DISABLE", "ACCEPT"})
Rejections == Coded({"REJECT"})

Grants  == {x \in LineMessages : x.sub = "ACCEPT"}
Again   == {x \in LineMessages : x.code = "REJECT" /\ x.sub = "REJECT"}
Ends    == {x \in LineMessages : x.code = "REJECT" /\ x.sub = "SUCCESS"}
Failed  == {x \in LineMessages : x.code = "REJECT" /\ x.sub = "ALARM"}
Opened  == {x \in LineMessages : x.code \in {"ENABLE", "DISABLE"} /\ x.sub = "ALARM"}
Missing == {x \in LineMessages : x.code = "RESET" /\ x.sub = "ALARM"}

\* Nothing of T lies behind something of S.
After(q, S, T) == \A i, k \in 1 .. Len(q) : q[i] \in S /\ i < k => q[k] \notin T

\* The devices that main waits for, and what they say.
Due(r) ==
  \/ mode1 = "ADJUST" /\ r = "ADJUST"
  \/ mode1 \in Actives /\ r \in Homing /\ r = mode2
  \/ In("REJECT", "FEED_REJECT") /\ r \in {"FEED_REJECT", "CENTERING_EXEC", "OUT_RETRY"}
  \/ In("REJECT", AfterReject) /\ r \in {"STACKER_HALF", "PB_CLOSE"}
  \/ In("REJECT", "WAIT_WID") /\ r = "CENTERING_EXEC"

Says(r) ==
  {"SUCCESS", "ALARM"} \cup (IF r \in Homing \cup {"FORCE_REV", "FEED_REJECT"} THEN {"BOX"} ELSE {})
    \cup (IF r = "FEED_REJECT" THEN {"RETRY", "INTERIM"} ELSE {})

Answers == {x \in Replies : x.code = "STATUS" \/ (Due(x.code) /\ x.sub \in Says(x.code))}

Stops == {x \in Messages : x.code = "FORCE_REV" /\ x.sub \in Says("FORCE_REV")}

\* The sensor task is asked where the note is.
Sensing == mode1 = "REJECT" /\ mode2 \in {"SENSOR_ACTIVE", "NOTE_REMOVED"}

\* Where main waits for an answer, it will have one.
Owed ==
  ~Gone =>
    /\ Moving => (\E r \in work : Due(r)) \/ Has(main_mbx, Answers)
    /\ mode2 = "FORCE_REV" => "FORCE_REV" \in work \/ Has(main_mbx, Stops)
    /\ Sensing => Has(main_mbx, Coded({"SENSOR_ACTIVE"}))

\* Where the line task is, main is, or what is under way brings it there.
Together ==
  ~Gone =>
    /\ InLine({"ENABLE", "DISABLE", "ACCEPT", "REJECT_WAIT_ACCEPT_RSP"}) =>
         Serving \/ (Given /\ Has(main_mbx, Coded({"ENABLE", "DISABLE"})))
    /\ InLine(Returns) =>
         Has(main_mbx, Rejections) \/ GivingBack \/ (Given /\ Has(line_mbx, Ends))
    /\ InLine({"REJECT_WAIT_POLL", "ENABLE_WAIT_POLL"}) => Given /\ ~Has(main_mbx, Commands)
    /\ line = "ERROR" => Refused /\ ~Has(main_mbx, Rejections)
    /\ line = "INITIAL" => reset \/ Has(main_mbx, Coded({"RESET"}))
    /\ line # "AUTO_RECOVERY"
    /\ GivingBack => InLine(Returns \cup {"INITIAL"}) /\ ~Has(main_mbx, Commands)
    /\ In("REJECT_STANDBY", "WAIT_REJECT_REQ") =>
         line = "INITIAL" \/ Has(main_mbx, Rejections) \/ Has(line_mbx, Again)

\* What is under way was sent in a mode that still says something.
Queued ==
  ~Gone =>
    /\ Has(main_mbx, Rejections) => InLine(Returns \cup {"INITIAL"})
    /\ After(main_mbx, Rejections, Commands)
    /\ Has(line_mbx, Grants) => Serving /\ ~Has(main_mbx, Rejections)
    /\ After(line_mbx, Refusals, Grants \cup Ends)
    /\ Has(line_mbx, Ends) =>
         Given /\ InLine(Returns \cup {"INITIAL"}) /\ ~Has(main_mbx, Commands)
    /\ After(line_mbx, Ends, LineMessages)
    /\ ~Has(line_mbx, Failed)
    /\ Has(line_mbx, Opened) => Refused \/ InLine(Returns \cup {"INITIAL"})

\* Main accepts notes when it has read what the line task sent, where that does.
Enabled ==
  \/ mode1 \in {"ENABLE", "ACTIVE_ENABLE"} \/ In("ADJUST", "ENABLE")
  \/ In("ACTIVE_DISABLE", "FORCE_REV") /\ enabling

Enables(q) ==
  \E i \in 1 .. Len(q) :
    q[i] \in Coded({"ENABLE"}) /\ \A k \in 1 .. Len(q) : i < k => q[k] \notin Coded({"DISABLE"})

Follows ==
  ~Gone /\ InLine({"ENABLE", "ACCEPT", "REJECT_WAIT_ACCEPT_RSP"}) =>
    Enables(main_mbx) \/ (Enabled /\ ~Has(main_mbx, Coded({"DISABLE"})))

\* The reset of an alarm that is over is read, or has failed.
Restarts ==
  line = "AUTO_RECOVERY" =>
    mode1 = "INIT" \/ Has(main_mbx, Coded({"RESET"})) \/ Has(line_mbx, Missing)

AInv == Owed /\ Together /\ Queued /\ Follows /\ Restarts

------------------------------------------------------------------------------
(* What a handler does, but for those of an alarm: main goes to one of the     *)
(* modes that are not followed any further, or it goes on in turn.             *)

Adds(S) == \E x \in S : line_mbx' = Append(line_mbx, x)

Telling ==
  \/ line_mbx' = line_mbx
  \/ \E x \in LineMessages :
       /\ line_mbx' = Append(line_mbx, x) /\ ~Given /\ x \notin Failed
       /\ x \in Grants => Serving' /\ ~Awaited
       /\ x \in Ends => GivingBack /\ Given' /\ ~Awaited
       /\ x \in Opened => Refused'

Turning ==
  /\ Serving => Serving' \/ (m.code = "REJECT" /\ GivingBack')
  /\ GivingBack => GivingBack' \/ (Given' /\ Adds(Ends))
  /\ Given => IF m.code \in {"ENABLE", "DISABLE"} THEN Serving' ELSE Given'
  /\ Refused /\ m.code # "REJECT" => Refused'
  /\ m.code = "RESET" \/ reset => reset'
  /\ m.code = "REJECT" /\ Awaited => GivingBack'
  /\ In("REJECT_STANDBY", "WAIT_REJECT_REQ")' =>
       Adds(Again) \/ (In("REJECT_STANDBY", "WAIT_REJECT_REQ") /\ m.code # "REJECT")

Following ==
  /\ m.code = "ENABLE" /\ (Serving \/ Given) => Enabled'
  /\ Enabled /\ m.code \notin {"DISABLE", "REJECT"} => Enabled'

SameMove ==
  \/ mode1' = mode1 /\ (mode2' = mode2 \/ mode1 = "ADJUST")
  \/ {mode1, mode1'} \subseteq Actives /\ mode2' = mode2

Owing ==
  /\ Moving' =>
       \/ \E r \in work' : Due(r)'
       \/ SameMove /\ m \notin Answers /\ work \cap Motors \subseteq work'
  /\ mode2' = "FORCE_REV" =>
       "FORCE_REV" \in work' \/ (mode2 = "FORCE_REV" /\ m \notin Stops /\ work \subseteq work')
  /\ Sensing' => ReadAndAsk("SENSOR_ACTIVE") \/ (Sensing /\ m.code # "SENSOR_ACTIVE")

Onward == Gone' \/ (Telling /\ Turning /\ Following /\ Owing)

LEMMA GoneOnward ==
  ASSUME \/ SetInit \/ SetAccept \/ Restored
         \/ \E conn, b : AlarmSub(conn, b)
         \/ \E conn : StatusAlarm(conn) \/ Failure(conn) \/ InitOrFail(conn)
  PROVE  Onward
BY DEF SetInit, SetAccept, Restored, AlarmSub, StatusAlarm, Failure, InitOrFail, IfReset, SetMode,
       Onward, Gone

\* The mode is the same, and the message was of no interest.
LEMMA SameOnward ==
  ASSUME Reading, UNCHANGED <<mode1, mode2, line_mbx>>, work \subseteq work',
         reset' = TRUE \/ (reset' = reset /\ m.code # "RESET"),
         Given => m.code \notin {"ENABLE", "DISABLE"},
         Awaited => m.code # "REJECT",
         Moving => m.code # "STATUS" /\ ~Due(m.code),
         mode2 = "FORCE_REV" => m.code # "FORCE_REV",
         Sensing => m.code # "SENSOR_ACTIVE",
         m.code = "ENABLE" /\ (Serving \/ Given) => Enabled',
         Enabled /\ m.code \notin {"DISABLE", "REJECT"} => Enabled'
  PROVE  Onward
<1>1. Telling
  BY DEF Telling
<1>2. /\ Serving' = Serving /\ GivingBack' = GivingBack /\ Given' = Given /\ Refused' = Refused
      /\ Moving' = Moving /\ Sensing' = Sensing
      /\ In("REJECT_STANDBY", "WAIT_REJECT_REQ")' = In("REJECT_STANDBY", "WAIT_REJECT_REQ")
  BY DEF Serving, GivingBack, Given, Refused, Moving, Sensing, In
<1>3. In("REJECT_STANDBY", "WAIT_REJECT_REQ") => Awaited
  BY DEF In, Awaited
<1>4. Turning
  BY <1>2, <1>3, BeforeRead DEF Turning
<1>5. m \in Answers => m.code = "STATUS" \/ Due(m.code)
  BY DEF Answers
<1>6. m \in Stops => m.code = "FORCE_REV"
  BY DEF Stops
<1>7. Owing
  BY <1>2, <1>5, <1>6 DEF Owing, SameMove
<1> QED
  BY <1>1, <1>4, <1>7 DEF Onward, Following

\* Enabled does not look at the flag but where the feed pushes out.
LEMMA SameEnabled ==
  ASSUME UNCHANGED <<mode1, mode2>>, mode2 # "FORCE_REV"
  PROVE  Enabled' = Enabled
BY DEF Enabled, In

LEMMA StayOnward ==
  ASSUME Reading, Stay \/ Rearm \/ Record, mode2 # "FORCE_REV", m.code # "RESET",
         Given => m.code \notin {"ENABLE", "DISABLE"},
         Awaited => m.code # "REJECT",
         Moving => m.code # "STATUS" /\ ~Due(m.code),
         Sensing => m.code # "SENSOR_ACTIVE",
         m.code = "ENABLE" /\ Serving => Enabled
  PROVE  Onward
<1>1. UNCHANGED <<mode1, mode2, reset, line_mbx>> /\ work \subseteq work'
  BY DEF Stay, Rearm, Record, Jobs, Start
<1>2. Enabled' = Enabled
  BY <1>1, SameEnabled
<1> QED
  BY <1>1, <1>2, SameOnward

LEMMA FlagOnward ==
  ASSUME Reading, mode1 # "ALARM", m.code = "RESET", Flag, mode2 # "FORCE_REV"
  PROVE  Onward
<1>1. UNCHANGED <<mode1, mode2, line_mbx>> /\ work \subseteq work' /\ reset' = TRUE
  BY DEF Flag
<1>2. Enabled' = Enabled
  BY <1>1, SameEnabled
<1>3. ~Due("RESET")
  BY DEF Due, Homing
<1> QED
  BY <1>1, <1>2, <1>3, SameOnward

\* _main_set_enable and _main_set_disable, whether the box was there or not.
LEMMA IdleOnward ==
  ASSUME Reading, m.code \notin {"RESET", "REJECT"}, NEW a \in {"ENABLE", "DISABLE"},
         NEW b \in {"WAIT_BILL_IN", "WAIT_REQ", "WAIT_REJECT_REQ"}, SetMode(a, b), UNCHANGED reset,
         \/ line_mbx' = line_mbx
         \/ line_mbx' = Append(line_mbx, Msg(a, "ALARM")) /\ b = "WAIT_REJECT_REQ" /\ ~Given,
         Serving \/ (Given /\ m.code \in {"ENABLE", "DISABLE"}),
         a = "DISABLE" => m.code # "ENABLE" /\ (Enabled => m.code = "DISABLE"),
         Refused => b = "WAIT_REJECT_REQ"
  PROVE  Onward
<1>1. mode1' = a /\ mode2' = b
  BY DEF SetMode
<1>2. Serving' /\ (b = "WAIT_REJECT_REQ" => Refused') /\ ~Moving' /\ ~Sensing'
      /\ mode2' # "FORCE_REV" /\ ~In("REJECT_STANDBY", "WAIT_REJECT_REQ")'
      /\ (a = "ENABLE" => Enabled')
  BY <1>1 DEF Serving, Refused, Moving, Sensing, In, Enabled, Homing
<1>3. Telling
  <2>1. Msg(a, "ALARM") \in LineMessages \ (Failed \cup Grants \cup Ends)
    BY DEF Msg, LineMessages, Failed, Grants, Ends
  <2> QED
    BY <1>2, <2>1 DEF Telling
<1>4. ~GivingBack /\ (Serving => ~Given)
  BY DEF Serving, Given, GivingBack, In, Actives
<1>5. Turning
  BY <1>2, <1>4, BeforeRead DEF Turning
<1>6. Owing
  BY <1>2 DEF Owing
<1> QED
  BY <1>2, <1>3, <1>5, <1>6 DEF Onward, Following

LEMMA SetEnableOnward ==
  ASSUME Reading, m.code \notin {"RESET", "REJECT"}, ~Refused, SetEnable,
         Serving \/ (Given /\ m.code = "ENABLE")
  PROVE  Onward
<1>1. CASE Idle("ENABLE", "WAIT_BILL_IN")
  BY <1>1, IdleOnward DEF Idle
<1>2. CASE AlarmSub("ENABLE", "BOX")
  BY <1>2, GoneOnward
<1> QED
  BY <1>1, <1>2 DEF SetEnable

LEMMA SetDisableOnward ==
  ASSUME Reading, m.code \notin {"RESET", "REJECT", "ENABLE"}, ~Refused, SetDisable,
         Enabled => m.code = "DISABLE",
         Serving \/ (Given /\ m.code = "DISABLE")
  PROVE  Onward
<1>1. CASE Idle("DISABLE", "WAIT_REQ")
  BY <1>1, IdleOnward DEF Idle
<1>2. CASE AlarmSub("DISABLE", "BOX")
  BY <1>2, GoneOnward
<1> QED
  BY <1>1, <1>2 DEF SetDisable

LEMMA WaitRejectOnward ==
  ASSUME Reading, mode1 \in {"ENABLE", "DISABLE"}, NEW a \in {"ENABLE", "DISABLE"}, m.code = a,
         WaitReject(a)
  PROVE  Onward
<1>1. Serving /\ ~Given
  BY DEF Serving, Given, In
<1>2. CASE Idle(a, "WAIT_REJECT_REQ")
  BY <1>1, <1>2, IdleOnward DEF Idle
<1>3. CASE SetMode(a, "WAIT_REJECT_REQ") /\ Alarmed(a, "BOX") /\ UNCHANGED <<reset, job>>
  BY <1>1, <1>3, IdleOnward DEF Alarmed, Tell
<1> QED
  BY <1>2, <1>3 DEF WaitReject

\* The line task is told of a note, at the entrance or in the acceptor.
LEMMA ToldOnward ==
  ASSUME Reading, mode1 \in {"ENABLE", "DISABLE", "ACTIVE_ENABLE"}, ~Awaited,
         m.code \notin {"RESET", "REJECT", "ENABLE", "DISABLE"}, UNCHANGED reset,
         NEW b \in {"WAIT_REQ", "WAIT_REJECT_REQ"}, SetMode(mode1, b),
         NEW conn \in {"ENABLE", "DISABLE"}, NEW sub \in {"ACCEPT", "REJECT"},
         line_mbx' = Append(line_mbx, Msg(conn, sub))
  PROVE  Onward
<1>1. mode1' = mode1 /\ mode2' = b
  BY DEF SetMode
<1>2. Serving /\ Serving' /\ ~GivingBack /\ ~Given /\ ~Refused /\ ~Moving' /\ ~Sensing'
      /\ mode2' # "FORCE_REV" /\ ~In("REJECT_STANDBY", "WAIT_REJECT_REQ")' /\ Enabled' = Enabled
  BY <1>1 DEF Serving, GivingBack, Given, Refused, Moving, Sensing, In, Enabled, Homing, Actives,
     Awaited
<1>3. Msg(conn, sub) \in LineMessages \ (Failed \cup Ends \cup Opened)
  BY DEF Msg, LineMessages, Failed, Ends, Opened
<1>4. Telling
  BY <1>2, <1>3 DEF Telling
<1>5. Turning
  BY <1>2, BeforeRead DEF Turning
<1>6. Owing
  BY <1>2 DEF Owing
<1> QED
  BY <1>2, <1>4, <1>5, <1>6 DEF Onward, Following

LEMMA TellInOnward ==
  ASSUME Reading, NEW a \in {"ENABLE", "ACTIVE_ENABLE"}, mode1 = a, ~Awaited,
         m.code \notin {"RESET", "REJECT", "ENABLE", "DISABLE"},
         TellIn(a, "WAIT_REQ", "ENABLE", "ACCEPT")
  PROVE  Onward
<1>1. /\ SetMode(mode1, "WAIT_REQ") /\ UNCHANGED reset
      /\ line_mbx' = Append(line_mbx, Msg("ENABLE", "ACCEPT"))
  BY DEF TellIn, Tell, Jobs
<1> QED
  BY <1>1, ToldOnward

LEMMA RejectSubOnward ==
  ASSUME Reading, NEW a \in {"ENABLE", "DISABLE", "ACTIVE_ENABLE"}, mode1 = a, ~Awaited,
         m.code \notin {"RESET", "REJECT", "ENABLE", "DISABLE"},
         NEW conn \in {"ENABLE", "DISABLE"}, RejectSub(a, conn)
  PROVE  Onward
<1>1. /\ SetMode(mode1, "WAIT_REJECT_REQ") /\ UNCHANGED reset
      /\ line_mbx' = Append(line_mbx, Msg(conn, "REJECT"))
  BY DEF RejectSub, Tell
<1> QED
  BY <1>1, ToldOnward

\* Main goes on with the note that it gives back.
LEMMA BackOnward ==
  ASSUME Reading, GivingBack, ~Awaited \/ m.code = "REJECT",
         m.code # "RESET", UNCHANGED reset, GivingBack', mode2' # "FORCE_REV",
         \/ line_mbx' = line_mbx
         \/ line_mbx' = Append(line_mbx, Msg("REJECT", "REJECT")),
         In("REJECT_STANDBY", "WAIT_REJECT_REQ")' =>
           line_mbx' = Append(line_mbx, Msg("REJECT", "REJECT")),
         Sensing' => ReadAndAsk("SENSOR_ACTIVE"),
         Moving' => \E r \in work' : Due(r)'
  PROVE  Onward
<1>1. ~Serving /\ ~Given /\ ~Refused /\ ~Enabled
  BY DEF Serving, GivingBack, Given, Refused, Enabled, In, Actives
<1>2. Msg("REJECT", "REJECT") \in LineMessages \ (Failed \cup Grants \cup Ends \cup Opened)
      /\ Msg("REJECT", "REJECT") \in Again
  BY DEF Msg, LineMessages, Failed, Ends, Grants, Opened, Again
<1>3. Telling
  BY <1>1, <1>2 DEF Telling
<1>4. Turning
  BY <1>1, <1>2, BeforeRead DEF Turning, Adds
<1>5. Owing
  BY DEF Owing
<1> QED
  BY <1>1, <1>3, <1>4, <1>5 DEF Onward, Following

LEMMA RejectReqOnward ==
  ASSUME Reading, mode2 = "WAIT_REJECT_REQ", mode1 \in {"ENABLE", "DISABLE", "REJECT_STANDBY"} \cup Actives,
         m.code = "REJECT", RejectReq
  PROVE  Onward
<1>1. /\ mode1' = "REJECT" /\ mode2' = "SENSOR_ACTIVE" /\ ReadAndAsk("SENSOR_ACTIVE")
      /\ UNCHANGED <<reset, line_mbx>>
  BY DEF RejectReq, SetMode, Jobs
<1>2. GivingBack' /\ ~Moving' /\ mode2' # "FORCE_REV" /\ ~In("REJECT_STANDBY", "WAIT_REJECT_REQ")' /\ ~Given
  BY <1>1 DEF GivingBack, Moving, In, AfterReject, Given
<1>3. Telling
  BY <1>1 DEF Telling
<1>4. Turning
  BY <1>1, <1>2, BeforeRead DEF Turning
<1>5. Owing
  BY <1>1, <1>2 DEF Owing
<1> QED
  BY <1>2, <1>3, <1>4, <1>5 DEF Onward, Following

\* _main_set_active_enable_uba, _main_set_active_disable_uba
LEMMA ActiveOnward ==
  ASSUME Reading, m.code = "SENSOR", mode1 \in {"ENABLE", "DISABLE"}, ~Awaited,
         NEW r \in Homing \cup {"FORCE_REV"}, r = "FORCE_REV" => mode1 = "DISABLE",
         SetActive(IF mode1 = "ENABLE" THEN "ACTIVE_ENABLE" ELSE "ACTIVE_DISABLE", r)
  PROVE  Onward
<1>1. /\ mode1' = IF mode1 = "ENABLE" THEN "ACTIVE_ENABLE" ELSE "ACTIVE_DISABLE"
      /\ mode2' = r /\ r \in work' /\ UNCHANGED <<reset, line_mbx>>
  BY DEF SetActive, SetMode, Jobs
<1>2. /\ Serving /\ Serving' /\ ~GivingBack /\ ~Given /\ ~Refused /\ ~Sensing'
      /\ ~In("REJECT_STANDBY", "WAIT_REJECT_REQ")' /\ (Enabled => Enabled')
  BY <1>1 DEF Serving, GivingBack, Given, Refused, Sensing, In, Enabled, Actives, Awaited
<1>3. Moving' => Due(r)'
  BY <1>1 DEF Moving, Due, Actives, Homing
<1>4. Telling
  BY <1>1 DEF Telling
<1>5. Turning
  BY <1>1, <1>2, BeforeRead DEF Turning
<1>6. Owing
  BY <1>1, <1>2, <1>3 DEF Owing
<1> QED
  BY <1>2, <1>4, <1>5, <1>6 DEF Onward, Following

LEMMA AdjustmentOnward ==
  ASSUME Reading, m.code = "TIMER", mode1 \in {"ENABLE", "DISABLE"}, ~Awaited, SetAdjustment
  PROVE  Onward
<1>1. /\ mode1' = "ADJUST" /\ mode2' = mode1 /\ "ADJUST" \in work' /\ UNCHANGED <<reset, line_mbx>>
  BY DEF SetAdjustment, SetMode, Jobs
<1>2. /\ Serving /\ Serving' /\ ~GivingBack /\ ~Given /\ ~Refused /\ ~Sensing' /\ mode2' # "FORCE_REV"
      /\ ~In("REJECT_STANDBY", "WAIT_REJECT_REQ")' /\ (Enabled => Enabled') /\ Due("ADJUST")'
  BY <1>1 DEF Serving, GivingBack, Given, Refused, Sensing, In, Enabled, Actives, Awaited, Due
<1>3. Telling
  BY <1>1 DEF Telling
<1>4. Turning
  BY <1>1, <1>2, BeforeRead DEF Turning
<1>5. Owing
  BY <1>1, <1>2 DEF Owing
<1> QED
  BY <1>2, <1>3, <1>4, <1>5 DEF Onward, Following

\* The host changes its mind while a device moves, or the sensors are adjusted.
LEMMA SwapOnward ==
  ASSUME Reading, m.code \in {"ENABLE", "DISABLE"},
         \/ /\ mode1 \in Actives /\ mode2 \in Homing \cup {"WAIT_REJECT_REQ"}
            /\ Enter(IF m.code = "ENABLE" THEN "ACTIVE_ENABLE" ELSE "ACTIVE_DISABLE", mode2)
         \/ mode1 = "ADJUST" /\ Enter("ADJUST", m.code)
  PROVE  Onward
<1>1. /\ UNCHANGED <<reset, line_mbx, work>>
      /\ \/ /\ mode1 \in Actives /\ mode2 \in Homing \cup {"WAIT_REJECT_REQ"} /\ mode2' = mode2
            /\ mode1' = IF m.code = "ENABLE" THEN "ACTIVE_ENABLE" ELSE "ACTIVE_DISABLE"
         \/ mode1 = "ADJUST" /\ mode1' = mode1 /\ mode2' = m.code
  BY DEF Enter, SetMode, Jobs
<1>2. /\ Serving /\ Serving' /\ ~GivingBack /\ ~Given /\ ~Refused /\ ~Sensing' /\ mode2' # "FORCE_REV"
      /\ ~In("REJECT_STANDBY", "WAIT_REJECT_REQ")' /\ (m.code = "ENABLE" => Enabled')
  BY <1>1 DEF Serving, GivingBack, Given, Refused, Sensing, In, Enabled, Actives, Homing
<1>3. SameMove
  BY <1>1 DEF SameMove, Actives
<1>4. m \notin Answers
  BY <1>1 DEF Answers, Due, Homing, Actives, AfterReject
<1>5. Telling
  BY <1>1 DEF Telling
<1>6. Turning
  BY <1>1, <1>2, BeforeRead DEF Turning
<1>7. Owing
  BY <1>1, <1>2, <1>3, <1>4 DEF Owing
<1> QED
  BY <1>2, <1>5, <1>6, <1>7 DEF Onward, Following

\* A device of MODE1_REJECT starts.
LEMMA DeviceOnward ==
  ASSUME Reading, mode1 = "REJECT", GivingBack, m.code # "RESET", NEW b, NEW r,
         \/ b = "FEED_REJECT" /\ r \in {"FEED_REJECT", "CENTERING_EXEC", "OUT_RETRY"}
         \/ b = AfterReject /\ r \in {"STACKER_HALF", "PB_CLOSE"}
         \/ b = "WAIT_WID" /\ r = "CENTERING_EXEC",
         EnterAndStart("REJECT", b, r)
  PROVE  Onward
<1>1. mode1' = "REJECT" /\ mode2' = b /\ r \in work' /\ UNCHANGED <<reset, line_mbx>>
  BY DEF EnterAndStart, SetMode, Start, Jobs
<1>2. Due(r)' /\ GivingBack' /\ mode2' # "FORCE_REV" /\ ~Sensing'
      /\ ~In("REJECT_STANDBY", "WAIT_REJECT_REQ")'
  BY <1>1 DEF Due, In, GivingBack, Sensing, AfterReject
<1>3. ~Awaited
  BY Rejecting DEF Awaited, Ended
<1> QED
  BY <1>1, <1>2, <1>3, BackOnward

\* The note is gone, and the line task is told.
LEMMA TakenOnward ==
  ASSUME Reading, mode1 = "REJECT", GivingBack, m.code # "RESET",
         TellIn("REJECT", "WAIT_REQ", "REJECT", "SUCCESS")
  PROVE  Onward
<1>1. /\ mode1' = "REJECT" /\ mode2' = "WAIT_REQ" /\ UNCHANGED <<reset>>
      /\ line_mbx' = Append(line_mbx, Msg("REJECT", "SUCCESS"))
  BY DEF TellIn, Tell, SetMode, Jobs
<1>2. Given' /\ ~Moving' /\ mode2' # "FORCE_REV" /\ ~Sensing'
      /\ ~In("REJECT_STANDBY", "WAIT_REJECT_REQ")'
  BY <1>1 DEF Given, Moving, In, Sensing, AfterReject
<1>3. ~Awaited /\ ~Serving /\ ~Given /\ ~Refused /\ ~Enabled
  BY Rejecting DEF Awaited, Ended, Serving, Given, GivingBack, Refused, Enabled, In, Actives
<1>4. Msg("REJECT", "SUCCESS") \in LineMessages \ (Failed \cup Grants \cup Opened)
      /\ Msg("REJECT", "SUCCESS") \in Ends
  BY DEF Msg, LineMessages, Failed, Grants, Opened, Ends
<1>5. Telling
  BY <1>1, <1>2, <1>3, <1>4 DEF Telling
<1>6. Turning
  BY <1>1, <1>2, <1>3, <1>4, BeforeRead DEF Turning, Adds
<1>7. Owing
  BY <1>2 DEF Owing
<1> QED
  BY <1>3, <1>5, <1>6, <1>7 DEF Onward, Following

\* The note sticks out, or is looked at once more.
LEMMA StandOnward ==
  ASSUME Reading, GivingBack, m.code # "RESET", ~Awaited,
         \/ NoteStay \/ NoteRemoved
         \/ Enter("REJECT_STANDBY", "NOTE_STAY")
         \/ EnterAndStart("REJECT_STANDBY", "CONFIRM_NOTE_STAY", "NOTE_STAY")
         \/ RejectSub("REJECT_STANDBY", "REJECT")
  PROVE  Onward
<1>1. CASE \/ NoteStay
           \/ Enter("REJECT_STANDBY", "NOTE_STAY")
           \/ EnterAndStart("REJECT_STANDBY", "CONFIRM_NOTE_STAY", "NOTE_STAY")
  <2>1. /\ mode1' = "REJECT_STANDBY" /\ mode2' \in {"NOTE_STAY", "CONFIRM_NOTE_STAY"}
        /\ UNCHANGED <<reset, line_mbx>>
    BY <1>1 DEF NoteStay, Enter, EnterAndStart, SetMode, Jobs
  <2>2. GivingBack' /\ ~Moving' /\ ~Sensing' /\ mode2' # "FORCE_REV"
        /\ ~In("REJECT_STANDBY", "WAIT_REJECT_REQ")'
    BY <2>1 DEF GivingBack, Moving, Sensing, In
  <2> QED
    BY <2>1, <2>2, BackOnward
<1>2. CASE NoteRemoved
  <2>1. /\ mode1' = "REJECT" /\ mode2' = "NOTE_REMOVED" /\ ReadAndAsk("SENSOR_ACTIVE")
        /\ UNCHANGED <<reset, line_mbx>>
    BY <1>2 DEF NoteRemoved, SetMode, Jobs
  <2>2. GivingBack' /\ ~Moving' /\ mode2' # "FORCE_REV" /\ ~In("REJECT_STANDBY", "WAIT_REJECT_REQ")'
    BY <2>1 DEF GivingBack, Moving, In, AfterReject
  <2> QED
    BY <2>1, <2>2, BackOnward
<1>3. CASE RejectSub("REJECT_STANDBY", "REJECT")
  <2>1. /\ mode1' = "REJECT_STANDBY" /\ mode2' = "WAIT_REJECT_REQ" /\ UNCHANGED reset
        /\ line_mbx' = Append(line_mbx, Msg("REJECT", "REJECT"))
    BY <1>3 DEF RejectSub, SetMode, Tell
  <2>2. GivingBack' /\ ~Moving' /\ ~Sensing' /\ mode2' # "FORCE_REV"
    BY <2>1 DEF GivingBack, Moving, Sensing
  <2> QED
    BY <2>1, <2>2, BackOnward
<1> QED
  BY <1>1, <1>2, <1>3

------------------------------------------------------------------------------
(* Every handler, but for those of an alarm, goes on in turn.                  *)

LEMMA EnableWaitBillInOn ==
  ASSUME Reading, In("ENABLE", "WAIT_BILL_IN"), enable_wait_bill_in
  PROVE  Onward
<1>1. /\ mode1 = "ENABLE" /\ mode2 = "WAIT_BILL_IN" /\ ~Awaited /\ ~Refused /\ ~Given /\ ~Moving
      /\ ~Sensing /\ Serving /\ Enabled
  BY DEF In, Awaited, Ended, Refused, Given, Moving, Sensing, Serving, Enabled
<1>2. CASE m.code = "SENSOR" /\ IfBox("ENABLE", enable_sensor)
  <2>1. CASE AlarmSub("ENABLE", "BOX") \/ AlarmSub("ENABLE", "FAIL")
    BY <2>1, GoneOnward
  <2>2. CASE \E r \in Homing : SetActive("ACTIVE_ENABLE", r)
    BY <1>1, <1>2, <2>2, MotorFacts, ActiveOnward
  <2>3. CASE TellIn("ENABLE", "WAIT_REQ", "ENABLE", "ACCEPT")
    BY <1>1, <1>2, <2>3, TellInOnward
  <2>4. CASE RejectSub("ENABLE", "ENABLE")
    BY <1>1, <1>2, <2>4, RejectSubOnward
  <2>5. CASE Stay
    BY <1>1, <1>2, <2>5, StayOnward
  <2> QED
    BY <1>2, <2>1, <2>2, <2>3, <2>4, <2>5, Places DEF IfBox, enable_sensor, HalfOut, Homing
<1>3. CASE SetInit \/ StatusAlarm("ENABLE")
  BY <1>3, GoneOnward
<1>4. CASE m.code = "DISABLE" /\ SetDisable
  BY <1>1, <1>4, SetDisableOnward
<1>5. CASE m.code = "TIMER" /\ SetAdjustment
  BY <1>1, <1>5, AdjustmentOnward
<1>6. CASE m.code \notin {"RESET", "DISABLE"} /\ (Stay \/ Rearm)
  BY <1>1, <1>6, StayOnward
<1> QED
  BY <1>2, <1>3, <1>4, <1>5, <1>6 DEF enable_wait_bill_in, TimesUp, Default

LEMMA EnableWaitReqOn ==
  ASSUME Reading, In("ENABLE", "WAIT_REQ"), enable_wait_req
  PROVE  Onward
<1>1. /\ mode1 = "ENABLE" /\ mode2 = "WAIT_REQ" /\ ~Awaited /\ ~Refused /\ ~Given /\ ~Moving
      /\ ~Sensing /\ Serving /\ Enabled
  BY DEF In, Awaited, Ended, Refused, Given, Moving, Sensing, Serving, Enabled
<1>2. CASE SetInit \/ SetAccept \/ StatusAlarm("ENABLE")
  BY <1>2, GoneOnward
<1>3. CASE m.code = "DISABLE" /\ SetDisable
  BY <1>1, <1>3, SetDisableOnward
<1>4. CASE m.code \notin {"RESET", "DISABLE"} /\ (Stay \/ Rearm)
  BY <1>1, <1>4, StayOnward
<1> QED
  BY <1>2, <1>3, <1>4 DEF enable_wait_req, TimesUp, Default

LEMMA WaitRejectReqOn ==
  ASSUME Reading, mode1 \in {"ENABLE", "DISABLE"}, mode2 = "WAIT_REJECT_REQ",
         IF mode1 = "ENABLE" THEN enable_wait_reject_req ELSE disable_wait_reject_req
  PROVE  Onward
<1>1. /\ ~Given /\ ~Moving /\ ~Sensing /\ Serving /\ (mode1 = "ENABLE" => Enabled)
  BY DEF In, Given, Moving, Sensing, Serving, Enabled
<1>2. CASE SetInit \/ \E conn : StatusAlarm(conn)
  BY <1>2, GoneOnward
<1>3. CASE \E a \in {"ENABLE", "DISABLE"} : m.code = a /\ WaitReject(a)
  BY <1>3, WaitRejectOnward
<1>4. CASE m.code = "REJECT" /\ RejectReq
  BY <1>4, RejectReqOnward
<1>5. CASE m.code \notin {"RESET", "REJECT"} /\ (m.code = "ENABLE" => mode1 = "ENABLE") /\ (Stay \/ Rearm)
  BY <1>1, <1>5, StayOnward
<1> QED
  BY <1>2, <1>3, <1>4, <1>5 DEF enable_wait_reject_req, disable_wait_reject_req, TimesUp, Default

LEMMA DisableWaitReqOn ==
  ASSUME Reading, In("DISABLE", "WAIT_REQ"), disable_wait_req
  PROVE  Onward
<1>1. /\ mode1 = "DISABLE" /\ mode2 = "WAIT_REQ" /\ ~Awaited /\ ~Refused /\ ~Given /\ ~Moving
      /\ ~Sensing /\ Serving /\ ~Enabled
  BY DEF In, Awaited, Ended, Refused, Given, Moving, Sensing, Serving, Enabled
<1>2. CASE m.code = "SENSOR" /\ IfBox("DISABLE", disable_sensor)
  <2>1. CASE AlarmSub("DISABLE", "BOX") \/ AlarmSub("DISABLE", "FAIL")
    BY <2>1, GoneOnward
  <2>2. CASE \E r \in Homing \cup {"FORCE_REV"} : SetActive("ACTIVE_DISABLE", r)
    BY <1>1, <1>2, <2>2, ActiveOnward
  <2>3. CASE RejectSub("DISABLE", "DISABLE")
    BY <1>1, <1>2, <2>3, RejectSubOnward
  <2>4. CASE Stay
    BY <1>1, <1>2, <2>4, StayOnward
  <2> QED
    BY <1>2, <2>1, <2>2, <2>3, <2>4, Places DEF IfBox, disable_sensor, HalfOut, Homing
<1>3. CASE SetInit \/ StatusAlarm("DISABLE")
  BY <1>3, GoneOnward
<1>4. CASE m.code = "DISABLE" /\ SetDisable
  BY <1>1, <1>4, SetDisableOnward
<1>5. CASE m.code = "ENABLE" /\ SetEnable
  BY <1>1, <1>5, SetEnableOnward
<1>6. CASE m.code = "TIMER" /\ SetAdjustment
  BY <1>1, <1>6, AdjustmentOnward
<1>7. CASE m.code \notin {"RESET", "ENABLE"} /\ (Stay \/ Rearm)
  BY <1>1, <1>7, StayOnward
<1> QED
  BY <1>2, <1>3, <1>4, <1>5, <1>6, <1>7 DEF disable_wait_req, TimesUp, Default

LEMMA ActiveWaitReqOn ==
  ASSUME Reading, In("ACTIVE_ENABLE", "WAIT_REQ"), active_enable_wait_req
  PROVE  Onward
<1>1. /\ mode1 = "ACTIVE_ENABLE" /\ mode2 = "WAIT_REQ" /\ ~Awaited /\ ~Refused /\ ~Given /\ ~Moving
      /\ ~Sensing /\ Serving /\ Enabled
  BY DEF In, Awaited, Ended, Refused, Given, Moving, Sensing, Serving, Enabled, Homing, Actives
<1>2. CASE \/ SetInit \/ StatusAlarm("ENABLE")
           \/ IfReset(IfJob("ENABLE", SetAccept))
  BY <1>2, GoneOnward DEF IfReset, IfJob
<1>3. CASE m.code = "DISABLE" /\ SetDisable
  BY <1>1, <1>3, SetDisableOnward
<1>4. CASE m.code \notin {"RESET", "DISABLE"} /\ (Stay \/ Record)
  BY <1>1, <1>4, StayOnward
<1> QED
  BY <1>2, <1>3, <1>4 DEF active_enable_wait_req, Default

LEMMA ActiveWaitRejectReqOn ==
  ASSUME Reading, mode1 \in Actives, mode2 = "WAIT_REJECT_REQ",
         IF mode1 = "ACTIVE_ENABLE" THEN active_enable_wait_reject_req
                                    ELSE active_disable_wait_reject_req
  PROVE  Onward
<1>1. /\ ~Given /\ ~Moving /\ ~Sensing /\ Serving /\ (mode1 = "ACTIVE_ENABLE" => Enabled)
  BY DEF In, Given, Moving, Sensing, Serving, Enabled, Actives, Homing
<1>2. CASE SetInit \/ \E conn : StatusAlarm(conn)
  BY <1>2, GoneOnward
<1>3. CASE m.code = "REJECT" /\ \E conn : IfReset(IfJob(conn, RejectReq))
  BY <1>3, GoneOnward, RejectReqOnward DEF IfReset, IfJob
<1>4. CASE /\ m.code \in {"ENABLE", "DISABLE"}
           /\ Enter(IF m.code = "ENABLE" THEN "ACTIVE_ENABLE" ELSE "ACTIVE_DISABLE", mode2)
  BY <1>4, SwapOnward
<1>5. CASE /\ m.code \notin {"RESET", "REJECT"} /\ (m.code = "ENABLE" => mode1 = "ACTIVE_ENABLE")
           /\ Stay \/ Rearm \/ Record
  BY <1>1, <1>5, StayOnward
<1> QED
  BY <1>2, <1>3, <1>4, <1>5
  DEF active_enable_wait_reject_req, active_disable_wait_reject_req, TimesUp, Default, Actives

LEMMA ActiveMoveOn ==
  ASSUME Reading, mode1 \in Actives, mode2 \in Homing,
         IF mode1 = "ACTIVE_ENABLE" THEN active_enable_move ELSE active_disable_move
  PROVE  Onward
<1>1. /\ ~Awaited /\ ~Refused /\ ~Given /\ ~Sensing /\ Serving /\ mode2 # "FORCE_REV" /\ mode1 # "ALARM"
      /\ Enabled <=> mode1 = "ACTIVE_ENABLE"
      /\ \A r : Due(r) => r = mode2
  BY DEF In, Awaited, Ended, Refused, Given, Sensing, Serving, Enabled, Homing, Actives, Due
<1>2. CASE /\ m.code = mode2 /\ mode1 = "ACTIVE_ENABLE"
           /\ IfReset(IfJob("ENABLE", active_enable_bill)) \/ IfReset(IfJob("ENABLE", Failure("ENABLE")))
  <2>1. m.code \notin {"RESET", "REJECT", "ENABLE", "DISABLE"}
    BY <1>2 DEF Homing
  <2>2. CASE SetInit \/ AlarmSub("ENABLE", job) \/ AlarmSub("ENABLE", "FAIL") \/ Failure("ENABLE")
    BY <2>2, GoneOnward
  <2>3. CASE SetEnable
    BY <1>1, <2>1, <2>3, SetEnableOnward
  <2>4. CASE TellIn("ACTIVE_ENABLE", "WAIT_REQ", "ENABLE", "ACCEPT")
    BY <1>1, <1>2, <2>1, <2>4, TellInOnward
  <2>5. CASE RejectSub("ACTIVE_ENABLE", "ENABLE")
    BY <1>1, <1>2, <2>1, <2>5, RejectSubOnward
  <2> QED
    BY <1>2, <2>2, <2>3, <2>4, <2>5 DEF IfReset, IfJob, active_enable_bill
<1>3. CASE /\ m.code = mode2 /\ mode1 = "ACTIVE_DISABLE"
           /\ IfReset(IfJob("DISABLE", SetDisable)) \/ IfReset(IfJob("DISABLE", Failure("DISABLE")))
  <2>1. m.code \notin {"RESET", "REJECT", "ENABLE", "DISABLE"} /\ ~Enabled
    BY <1>1, <1>3 DEF Homing
  <2>2. CASE SetInit \/ AlarmSub("DISABLE", job) \/ Failure("DISABLE")
    BY <2>2, GoneOnward
  <2>3. CASE SetDisable
    BY <1>1, <2>1, <2>3, SetDisableOnward
  <2> QED
    BY <1>3, <2>2, <2>3 DEF IfReset, IfJob
<1>4. CASE \E conn : StatusAlarm(conn)
  BY <1>4, GoneOnward
<1>5. CASE m.code = "RESET" /\ Flag
  BY <1>1, <1>5, FlagOnward
<1>6. CASE /\ m.code \in {"ENABLE", "DISABLE"}
           /\ Enter(IF m.code = "ENABLE" THEN "ACTIVE_ENABLE" ELSE "ACTIVE_DISABLE", mode2)
  BY <1>6, SwapOnward
<1>7. CASE /\ m.code \notin {"RESET", "STATUS", mode2} /\ (m.code = "ENABLE" => mode1 = "ACTIVE_ENABLE")
           /\ Stay \/ Rearm \/ Record
  BY <1>1, <1>7, StayOnward
<1>8. mode2 \notin {"SENSOR", "TIMER", "STATUS", "RESET"}
  BY DEF Homing
<1> QED
  BY <1>2, <1>3, <1>4, <1>5, <1>6, <1>7, <1>8
  DEF active_enable_move, active_disable_move, WhileMoving, is, failed, TimesUp, Default, Actives

LEMMA ForceRevOn ==
  ASSUME Reading, In("ACTIVE_DISABLE", "FORCE_REV"), active_disable_feed_reject
  PROVE  Onward
<1>1. /\ mode1 = "ACTIVE_DISABLE" /\ mode2 = "FORCE_REV" /\ ~Awaited /\ ~Refused /\ ~Given /\ ~Sensing
      /\ Serving /\ ~Moving /\ (Enabled <=> enabling)
  BY DEF In, Awaited, Ended, Refused, Given, Sensing, Serving, Enabled, Homing, Actives, Moving
<1>2. CASE /\ is("FORCE_REV", "SUCCESS")
           /\ IfReset(IF enabling THEN SetEnable ELSE SetDisable)
  BY <1>1, <1>2, GoneOnward, SetEnableOnward, SetDisableOnward DEF is, IfReset
<1>3. CASE InitOrFail("DISABLE") \/ StatusAlarm("DISABLE")
  BY <1>3, GoneOnward
<1>4. ASSUME UNCHANGED <<mode1, mode2, line_mbx>>, work \subseteq work',
             reset' = TRUE \/ (reset' = reset /\ m.code # "RESET"), m.code # "FORCE_REV",
             \/ m.code = "ENABLE" /\ enabling' = TRUE
             \/ m.code = "DISABLE"
             \/ m.code # "ENABLE" /\ enabling' = enabling
      PROVE  Onward
  <2>1. enabling' => Enabled'
    BY <1>1, <1>4 DEF Enabled, In
  <2>2. m.code = "ENABLE" => Enabled'
    BY <1>4, <2>1
  <2>3. ASSUME Enabled, m.code # "DISABLE" PROVE Enabled'
    <3>1. enabling
      BY <1>1, <2>3
    <3>2. CASE enabling' = enabling
      BY <2>1, <3>1, <3>2, Zenon
    <3> QED
      BY <1>4, <2>2, <2>3, <3>2
  <2> QED
    BY <1>1, <1>4, <2>2, <2>3, SameOnward
<1>5. CASE m.code = "RESET" /\ Flag /\ UNCHANGED enabling
  BY <1>4, <1>5 DEF Flag
<1>6. CASE /\ m.code = "ENABLE" /\ enabling' = TRUE
           /\ Stay \/ EnterAndStart(mode1, mode2, "FORCE_REV")
  <2>1. UNCHANGED <<mode1, mode2, reset, line_mbx>> /\ work \subseteq work'
    BY <1>6 DEF Stay, EnterAndStart, SetMode, Start, Jobs
  <2> QED
    BY <1>4, <1>6, <2>1
<1>7. CASE m.code = "DISABLE" /\ Stay
  BY <1>4, <1>7 DEF Stay, Jobs
<1>8. CASE /\ m.code \notin {"RESET", "ENABLE", "FORCE_REV"} /\ UNCHANGED enabling
           /\ Stay \/ Rearm
  BY <1>4, <1>8 DEF Stay, Rearm, Start, Jobs
<1> QED
  BY <1>2, <1>3, <1>5, <1>6, <1>7, <1>8 DEF active_disable_feed_reject, TimesUp, Default

LEMMA AdjustTempAdjOn ==
  ASSUME Reading, mode1 = "ADJUST", adjust_temp_adj
  PROVE  Onward
<1>1. mode2 \in {"ENABLE", "DISABLE"}
  BY BeforeRead DEF Modes2
<1>2. /\ ~Awaited /\ ~Refused /\ ~Given /\ ~Sensing /\ Serving /\ (Enabled <=> mode2 = "ENABLE")
      /\ \A r : Due(r) => r = "ADJUST"
  BY <1>1 DEF In, Awaited, Ended, Refused, Given, Sensing, Serving, Enabled, Actives, Due
<1>3. CASE m.code = "ADJUST" /\ IfReset(IF mode2 = "ENABLE" THEN SetEnable ELSE SetDisable)
  BY <1>2, <1>3, GoneOnward, SetEnableOnward, SetDisableOnward DEF IfReset
<1>4. CASE StatusAlarm(mode2)
  BY <1>4, GoneOnward
<1>5. CASE m.code \in {"DISABLE", "ENABLE"} /\ Enter("ADJUST", m.code)
  BY <1>5, SwapOnward
<1>6. CASE m.code = "RESET" /\ Flag
  BY <1>1, <1>6, FlagOnward
<1>7. CASE m.code \notin {"RESET", "ENABLE", "ADJUST", "STATUS"} /\ Stay
  BY <1>1, <1>2, <1>7, StayOnward
<1> QED
  BY <1>3, <1>4, <1>5, <1>6, <1>7 DEF adjust_temp_adj, Default

\* What is true in all of MODE1_REJECT but where the note is gone.
LEMMA RejectingBack ==
  ASSUME Reading, mode1 = "REJECT", mode2 # "WAIT_REQ"
  PROVE  /\ GivingBack /\ ~Awaited /\ ~Refused /\ ~Given /\ ~Serving /\ ~Enabled
         /\ mode2 # "FORCE_REV" /\ mode1 # "ALARM"
<1>1. mode2 \in Rejects
  BY Rejecting
<1> QED
  BY <1>1 DEF GivingBack, Awaited, Ended, Refused, Given, Serving, Enabled, In, Rejects, Actives

LEMMA RejectSensorActiveOn ==
  ASSUME Reading, In("REJECT", "SENSOR_ACTIVE"), reject_sensor_active
  PROVE  Onward
<1>1. mode1 = "REJECT" /\ mode2 = "SENSOR_ACTIVE" /\ ~Moving
  BY DEF In, Moving, AfterReject
<1>2. GivingBack /\ ~Awaited /\ ~Given /\ ~Serving /\ mode2 # "FORCE_REV"
  BY <1>1, RejectingBack
<1>3. CASE SetInit \/ AlarmSub("REJECT", "BOX") \/ StatusAlarm("REJECT")
  BY <1>3, GoneOnward
<1>4. CASE m.code = "SENSOR_ACTIVE" /\ EnterAndStart("REJECT", "FEED_REJECT", "FEED_REJECT")
  BY <1>1, <1>2, <1>4, DeviceOnward
<1>5. CASE m.code \notin {"RESET", "SENSOR_ACTIVE"} /\ Stay
  BY <1>1, <1>2, <1>5, StayOnward
<1> QED
  BY <1>3, <1>4, <1>5 DEF reject_sensor_active, IfBox, Default

LEMMA FeedRejectOn ==
  ASSUME Reading, In("REJECT", "FEED_REJECT"), feed_reject
  PROVE  Onward
<1>1. /\ mode1 = "REJECT" /\ mode2 = "FEED_REJECT" /\ ~Sensing
      /\ \A r : Due(r) => r \in {"FEED_REJECT", "CENTERING_EXEC", "OUT_RETRY"}
  BY DEF In, Sensing, Due, Actives, AfterReject
<1>2. GivingBack /\ ~Awaited /\ ~Given /\ ~Serving /\ mode2 # "FORCE_REV" /\ mode1 # "ALARM"
  BY <1>1, RejectingBack
<1>3. CASE m.code = "FEED_REJECT" /\ IfReset(rejected)
  <2>1. CASE SetInit \/ Restored
    BY <2>1, GoneOnward
  <2>2. CASE \E r \in {"STACKER_HALF", "PB_CLOSE"} : EnterAndStart("REJECT", AfterReject, r)
    BY <1>1, <1>2, <1>3, <2>2, DeviceOnward
  <2>3. CASE NoteStay
    BY <1>2, <1>3, <2>3, StandOnward
  <2> QED
    BY <1>3, <2>1, <2>2, <2>3 DEF IfReset, rejected
<1>4. CASE /\ m.code # "RESET"
           /\ \E r \in {"CENTERING_EXEC", "OUT_RETRY", "FEED_REJECT"} : EnterAndStart(mode1, mode2, r)
  BY <1>1, <1>2, <1>4, DeviceOnward
<1>5. CASE AlarmSub("REJECT", "FAIL") \/ InitOrFail("REJECT")
  BY <1>5, GoneOnward
<1>6. CASE m.code = "RESET" /\ Flag
  BY <1>2, <1>6, FlagOnward
<1>7. CASE Default({"RESET", "FEED_REJECT", "CENTERING_EXEC", "OUT_RETRY", "STATUS"})
  BY <1>1, <1>2, <1>7, StayOnward DEF Default
<1> QED
  BY <1>3, <1>4, <1>5, <1>6, <1>7 DEF feed_reject, is

LEMMA StackerHalfPbCloseOn ==
  ASSUME Reading, In("REJECT", AfterReject), stacker_half_pb_close
  PROVE  Onward
<1>1. /\ mode1 = "REJECT" /\ mode2 = AfterReject /\ ~Sensing /\ mode2 # "WAIT_REQ"
      /\ \A r : Due(r) => r \in {"STACKER_HALF", "PB_CLOSE"}
  BY DEF In, Sensing, Due, Actives, AfterReject
<1>2. GivingBack /\ ~Awaited /\ ~Given /\ ~Serving /\ mode2 # "FORCE_REV" /\ mode1 # "ALARM"
  BY <1>1, RejectingBack
<1>3. CASE m.code \in {"STACKER_HALF", "PB_CLOSE"} /\ (half_out \/ pb_closed)
  BY <1>1, <1>2, <1>3, DeviceOnward, StandOnward DEF half_out, pb_closed
<1>4. CASE SetInit \/ AlarmSub("REJECT", "BOX") \/ InitOrFail("REJECT")
  BY <1>4, GoneOnward
<1>5. CASE m.code = "RESET" /\ Flag
  BY <1>2, <1>5, FlagOnward
<1>6. CASE Default({"RESET", "STACKER_HALF", "PB_CLOSE", "STATUS"})
  BY <1>1, <1>2, <1>6, StayOnward DEF Default
<1> QED
  BY <1>3, <1>4, <1>5, <1>6 DEF stacker_half_pb_close, is, IfReset, IfBox

LEMMA RejectNoteRemovedOn ==
  ASSUME Reading, In("REJECT", "NOTE_REMOVED"), reject_note_removed
  PROVE  Onward
<1>1. mode1 = "REJECT" /\ mode2 = "NOTE_REMOVED" /\ ~Moving
  BY DEF In, Moving, AfterReject
<1>2. GivingBack /\ ~Awaited /\ ~Given /\ ~Serving /\ mode2 # "FORCE_REV" /\ mode1 # "ALARM"
  BY <1>1, RejectingBack
<1>3. CASE SetInit \/ StatusAlarm("REJECT")
  BY <1>3, GoneOnward
<1>4. CASE m.code = "SENSOR_ACTIVE" /\ EnterAndStart("REJECT", "WAIT_WID", "CENTERING_EXEC")
  BY <1>1, <1>2, <1>4, DeviceOnward
<1>5. CASE m.code = "SENSOR_ACTIVE" /\ TellIn("REJECT", "WAIT_REQ", "REJECT", "SUCCESS")
  BY <1>1, <1>2, <1>5, TakenOnward
<1>6. CASE m.code = "RESET" /\ Flag
  BY <1>2, <1>6, FlagOnward
<1>7. CASE Default({"RESET", "SENSOR_ACTIVE", "STATUS"})
  BY <1>1, <1>2, <1>7, StayOnward DEF Default
<1> QED
  BY <1>3, <1>4, <1>5, <1>6, <1>7 DEF reject_note_removed, IfReset

LEMMA RejectWaitWidOn ==
  ASSUME Reading, In("REJECT", "WAIT_WID"), reject_wait_wid
  PROVE  Onward
<1>1. /\ mode1 = "REJECT" /\ mode2 = "WAIT_WID" /\ ~Sensing
      /\ \A r : Due(r) => r = "CENTERING_EXEC"
  BY DEF In, Sensing, Due, Actives, AfterReject
<1>2. GivingBack /\ ~Awaited /\ ~Given /\ ~Serving /\ mode2 # "FORCE_REV" /\ mode1 # "ALARM"
  BY <1>1, RejectingBack
<1>3. CASE SetInit \/ StatusAlarm("REJECT") \/ InitOrFail("REJECT")
  BY <1>3, GoneOnward
<1>4. CASE m.code = "CENTERING_EXEC" /\ TellIn("REJECT", "WAIT_REQ", "REJECT", "SUCCESS")
  BY <1>1, <1>2, <1>4, TakenOnward
<1>5. CASE m.code = "RESET" /\ Flag
  BY <1>2, <1>5, FlagOnward
<1>6. CASE Default({"RESET", "CENTERING_EXEC", "STATUS"})
  BY <1>1, <1>2, <1>6, StayOnward DEF Default
<1> QED
  BY <1>3, <1>4, <1>5, <1>6 DEF reject_wait_wid, is, IfReset

LEMMA RejectWaitReqOn ==
  ASSUME Reading, In("REJECT", "WAIT_REQ"), reject_wait_req
  PROVE  Onward
<1>1. /\ mode1 = "REJECT" /\ mode2 = "WAIT_REQ" /\ ~Moving /\ ~Sensing /\ Given /\ ~Awaited /\ ~Refused
      /\ ~Serving /\ ~Enabled
  BY DEF In, Moving, Sensing, Given, Awaited, Ended, Refused, AfterReject, Serving, Enabled, Actives
<1>2. CASE SetInit \/ StatusAlarm("REJECT")
  BY <1>2, GoneOnward
<1>3. CASE m.code = "ENABLE" /\ SetEnable
  BY <1>1, <1>3, SetEnableOnward
<1>4. CASE m.code = "DISABLE" /\ SetDisable
  BY <1>1, <1>4, SetDisableOnward
<1>5. CASE Default({"RESET", "ENABLE", "DISABLE", "STATUS"})
  BY <1>1, <1>5, StayOnward DEF Default
<1> QED
  BY <1>2, <1>3, <1>4, <1>5 DEF reject_wait_req

LEMMA NoteStandingOn ==
  ASSUME Reading, mode1 = "REJECT_STANDBY", mode2 \in {"NOTE_STAY", "CONFIRM_NOTE_STAY"},
         IF mode2 = "NOTE_STAY" THEN reject_standby_note_stay ELSE reject_standby_confirm_note_stay
  PROVE  Onward
<1>1. GivingBack /\ ~Awaited /\ ~Given /\ ~Serving /\ ~Moving /\ ~Sensing
  BY DEF GivingBack, Awaited, Ended, Given, Serving, Moving, Sensing, In, Actives
<1>2. CASE SetInit \/ AlarmSub("REJECT", "FAIL") \/ AlarmSub("REJECT", "BOX")
  BY <1>2, GoneOnward
<1>3. CASE /\ m.code # "RESET"
           /\ \/ NoteRemoved
              \/ Enter("REJECT_STANDBY", "NOTE_STAY")
              \/ EnterAndStart("REJECT_STANDBY", "CONFIRM_NOTE_STAY", "NOTE_STAY")
              \/ RejectSub("REJECT_STANDBY", "REJECT")
  BY <1>1, <1>3, StandOnward
<1>4. CASE m.code # "RESET" /\ Stay
  BY <1>1, <1>4, StayOnward
<1> QED
  BY <1>2, <1>3, <1>4
  DEF reject_standby_note_stay, reject_standby_confirm_note_stay, note_stay_check, StayPaper,
      IfBox, StatusAlarm, Default, is

LEMMA StandbyWaitRejectReqOn ==
  ASSUME Reading, In("REJECT_STANDBY", "WAIT_REJECT_REQ"), reject_standby_wait_reject_req
  PROVE  Onward
<1>1. /\ mode1 = "REJECT_STANDBY" /\ mode2 = "WAIT_REJECT_REQ"
      /\ ~Given /\ ~Serving /\ ~Moving /\ ~Sensing
  BY DEF Given, Serving, Moving, Sensing, In, Actives
<1>2. CASE SetInit \/ StatusAlarm("REJECT")
  BY <1>2, GoneOnward
<1>3. CASE m.code = "REJECT" /\ RejectReq
  BY <1>1, <1>3, RejectReqOnward
<1>4. CASE m.code \notin {"RESET", "REJECT"} /\ (Stay \/ Rearm)
  BY <1>1, <1>4, StayOnward
<1> QED
  BY <1>2, <1>3, <1>4 DEF reject_standby_wait_reject_req, TimesUp, Default

\* Whatever main reads, where it is in no alarm.
LEMMA MainOnward ==
  ASSUME Reading, main_task, mode1 # "ALARM"
  PROVE  Onward
<1>1. CASE In("ACTIVE_DISABLE", "FORCE_REV") /\ active_disable_feed_reject
  BY <1>1, ForceRevOn
<1>2. CASE handler
  BY <1>2, EnableWaitBillInOn, EnableWaitReqOn, WaitRejectReqOn, DisableWaitReqOn, ActiveWaitReqOn,
     ActiveWaitRejectReqOn, ActiveMoveOn, AdjustTempAdjOn, RejectSensorActiveOn,
     FeedRejectOn, StackerHalfPbCloseOn, RejectNoteRemovedOn, RejectWaitWidOn, RejectWaitReqOn,
     NoteStandingOn, StandbyWaitRejectReqOn
  DEF handler, In, Actives
<1> QED
  BY <1>1, <1>2 DEF main_task

------------------------------------------------------------------------------
(* What lies behind what in a mailbox, after it was read or written.           *)

LEMMA TailAfter ==
  ASSUME NEW T, NEW q \in Seq(T), q # << >>, NEW S, NEW U, After(q, S, U)
  PROVE  After(Tail(q), S, U) /\ (Head(q) \in S => ~Has(Tail(q), U))
<1>1. /\ Len(q) \in Nat /\ Len(q) >= 1 /\ Len(Tail(q)) = Len(q) - 1 /\ Head(q) = q[1]
      /\ \A i \in 1 .. Len(Tail(q)) : Tail(q)[i] = q[i + 1]
  BY HeadTailProperties, EmptySeq, LenProperties
<1>2. /\ 1 \in 1 .. Len(q)
      /\ \A i \in 1 .. Len(Tail(q)) : i + 1 \in 1 .. Len(q) /\ 1 < i + 1
      /\ \A i, k \in 1 .. Len(Tail(q)) : i < k => i + 1 < k + 1
  BY <1>1
<1> QED
  BY <1>1, <1>2 DEF After, Has

LEMMA AppendAfter ==
  ASSUME NEW T, NEW q \in Seq(T), NEW x \in T, NEW S, NEW U, After(q, S, U),
         x \notin U \/ ~Has(q, S)
  PROVE  After(Append(q, x), S, U)
<1>1. /\ Len(q) \in Nat /\ Len(Append(q, x)) = Len(q) + 1
      /\ \A i \in 1 .. Len(q) : Append(q, x)[i] = q[i]
      /\ Append(q, x)[Len(q) + 1] = x
  BY AppendProperties, LenProperties
<1>2. /\ \A i \in 1 .. Len(Append(q, x)) : i \in 1 .. Len(q) \/ i = Len(q) + 1
      /\ \A i, k \in 1 .. Len(Append(q, x)) : i < k => i \in 1 .. Len(q)
  BY <1>1
<1> QED
  BY <1>1, <1>2 DEF After, Has

Opening == Coded({"ENABLE"})
Closing == Coded({"DISABLE"})

LEMMA TailEnables ==
  ASSUME NEW q \in Seq(Messages), q # << >>, Enables(q)
  PROVE  Enables(Tail(q)) \/ (Head(q) \in Opening /\ ~Has(Tail(q), Closing))
<1>1. /\ Len(q) \in Nat /\ Len(q) >= 1 /\ Len(Tail(q)) = Len(q) - 1 /\ Len(Tail(q)) \in Nat
      /\ Head(q) = q[1] /\ \A i \in 1 .. Len(Tail(q)) : Tail(q)[i] = q[i + 1]
  BY HeadTailProperties, EmptySeq, LenProperties
<1>2. PICK i \in 1 .. Len(q) :
        q[i] \in Opening /\ \A k \in 1 .. Len(q) : i < k => q[k] \notin Closing
  BY DEF Enables, Opening, Closing
<1>3. CASE i = 1
  <2>1. \A k \in 1 .. Len(Tail(q)) : k + 1 \in 1 .. Len(q) /\ 1 < k + 1
    BY <1>1
  <2> QED
    BY <1>1, <1>2, <1>3, <2>1 DEF Has
<1>4. CASE i # 1
  <2>1. i - 1 \in 1 .. Len(Tail(q)) /\ (i - 1) + 1 = i
    BY <1>1, <1>2, <1>4
  <2>2. \A k \in 1 .. Len(Tail(q)) : i - 1 < k => k + 1 \in 1 .. Len(q) /\ i < k + 1
    BY <1>1, <1>2
  <2>3. Tail(q)[i - 1] \in Opening
    BY <1>1, <1>2, <2>1
  <2>4. \A k \in 1 .. Len(Tail(q)) : i - 1 < k => Tail(q)[k] \notin Closing
    BY <1>1, <1>2, <2>2
  <2> QED
    BY <2>1, <2>3, <2>4 DEF Enables, Opening, Closing
<1> QED
  BY <1>3, <1>4

LEMMA AppendEnables ==
  ASSUME NEW q \in Seq(Messages), NEW x \in Messages
  PROVE  /\ Enables(q) /\ x \notin Closing => Enables(Append(q, x))
         /\ x \in Opening => Enables(Append(q, x))
<1>1. /\ Len(q) \in Nat /\ Len(Append(q, x)) = Len(q) + 1
      /\ \A i \in 1 .. Len(q) : Append(q, x)[i] = q[i]
      /\ Append(q, x)[Len(q) + 1] = x
  BY AppendProperties, LenProperties
<1>2. /\ \A i \in 1 .. Len(Append(q, x)) : i \in 1 .. Len(q) \/ i = Len(q) + 1
      /\ \A i \in 1 .. Len(q) : i \in 1 .. Len(Append(q, x))
      /\ Len(q) + 1 \in 1 .. Len(Append(q, x))
      /\ \A k \in 1 .. Len(Append(q, x)) : ~(Len(q) + 1 < k)
  BY <1>1
<1>3. ASSUME Enables(q), x \notin Closing PROVE Enables(Append(q, x))
  <2>1. PICK i \in 1 .. Len(q) :
          q[i] \in Opening /\ \A k \in 1 .. Len(q) : i < k => q[k] \notin Closing
    BY <1>3 DEF Enables, Opening, Closing
  <2>2. Append(q, x)[i] \in Opening
    BY <1>1, <2>1
  <2>3. \A k \in 1 .. Len(Append(q, x)) : i < k => Append(q, x)[k] \notin Closing
    BY <1>1, <1>2, <1>3, <2>1
  <2> QED
    BY <1>2, <2>2, <2>3 DEF Enables, Opening, Closing
<1>4. ASSUME x \in Opening PROVE Enables(Append(q, x))
  BY <1>1, <1>2, <1>4 DEF Enables, Opening
<1> QED
  BY <1>3, <1>4

Sensors == Coded({"SENSOR", "SENSOR_ACTIVE"})

\* Main takes a message, and what a sensor says may come behind the others.
LEMMA Behind ==
  ASSUME Reading, Mailed
  PROVE  /\ \A S : Has(main_mbx, S) => m \in S \/ Has(main_mbx', S)
         /\ \A S : S \cap Sensors = {} /\ Has(main_mbx', S) => Has(main_mbx, S)
         /\ \A S, U : U \cap Sensors = {} /\ After(main_mbx, S, U) =>
              After(main_mbx', S, U) /\ (m \in S => ~Has(main_mbx', U))
         /\ Enables(main_mbx) => \/ Enables(main_mbx')
                                 \/ m \in Opening /\ ~Has(main_mbx', Closing)
         /\ ReadAndAsk("SENSOR_ACTIVE") => Has(main_mbx', Coded({"SENSOR_ACTIVE"}))
<1>1. main_mbx \in Seq(Messages) /\ main_mbx # << >>
  BY DEF Reading, IInv
<1> DEFINE t == Tail(main_mbx)
           asked(c) == Msg(c, "SUCCESS")
<1>2. /\ t \in Seq(Messages)
      /\ \A S : Has(t, S) => Has(main_mbx, S)
      /\ \A S : Has(main_mbx, S) => m \in S \/ Has(t, S)
  BY <1>1, TailHas DEF m
<1>3. \A S, U : After(main_mbx, S, U) => After(t, S, U) /\ (m \in S => ~Has(t, U))
  BY <1>1, TailAfter DEF m
<1>4. Enables(main_mbx) => Enables(t) \/ (m \in Opening /\ ~Has(t, Closing))
  BY <1>1, TailEnables DEF m
<1>5. /\ \A c \in {"SENSOR", "SENSOR_ACTIVE"} : asked(c) \in Messages /\ asked(c) \in Sensors
      /\ asked("SENSOR_ACTIVE") \in Coded({"SENSOR_ACTIVE"})
  BY DEF Messages, Subs, Msg, Coded, Sensors
<1>6. Closing \cap Sensors = {}
  BY DEF Closing, Coded, Sensors
<1> HIDE DEF asked, t
<1>7. main_mbx' = t \/ \E c \in {"SENSOR", "SENSOR_ACTIVE"} : main_mbx' = Append(t, asked(c))
  BY DEF Mailed, Read, ReadAndAsk, t, asked
<1>8. ASSUME ReadAndAsk("SENSOR_ACTIVE") PROVE Has(main_mbx', Coded({"SENSOR_ACTIVE"}))
  <2>1. main_mbx' = Append(t, asked("SENSOR_ACTIVE")) /\ asked("SENSOR_ACTIVE") \in Messages
    BY <1>5, <1>8 DEF ReadAndAsk, t, asked
  <2> QED
    BY <1>2, <1>5, <2>1, AppendHas
<1>9. CASE main_mbx' = t
  BY <1>2, <1>3, <1>4, <1>8, <1>9
<1>10. ASSUME NEW c \in {"SENSOR", "SENSOR_ACTIVE"}, main_mbx' = Append(t, asked(c))
       PROVE  /\ \A S : Has(t, S) => Has(main_mbx', S)
              /\ \A S : S \cap Sensors = {} /\ Has(main_mbx', S) => Has(t, S)
              /\ \A S, U : U \cap Sensors = {} /\ After(t, S, U) => After(main_mbx', S, U)
              /\ Enables(t) => Enables(main_mbx')
  <2>1. asked(c) \in Messages /\ asked(c) \in Sensors /\ asked(c) \notin Closing
    BY <1>5, <1>6
  <2>2. \A S : Has(main_mbx', S) <=> Has(t, S) \/ asked(c) \in S
    BY <1>2, <1>10, <2>1, AppendHas
  <2>3. \A S, U : asked(c) \notin U /\ After(t, S, U) => After(main_mbx', S, U)
    BY <1>2, <1>10, <2>1, AppendAfter
  <2>4. Enables(t) => Enables(main_mbx')
    BY <1>2, <1>10, <2>1, AppendEnables
  <2> QED
    BY <2>1, <2>2, <2>3, <2>4
<1> QED
  <2>1. CASE \E c \in {"SENSOR", "SENSOR_ACTIVE"} : main_mbx' = Append(t, asked(c))
    <3>1. /\ \A S : Has(t, S) => Has(main_mbx', S)
          /\ \A S : S \cap Sensors = {} /\ Has(main_mbx', S) => Has(t, S)
          /\ \A S, U : U \cap Sensors = {} /\ After(t, S, U) => After(main_mbx', S, U)
          /\ Enables(t) => Enables(main_mbx')
      BY <1>10, <2>1
    <3>2. \A S : Has(main_mbx, S) => m \in S \/ Has(main_mbx', S)
      BY <1>2, <3>1
    <3>3. \A S : S \cap Sensors = {} /\ Has(main_mbx', S) => Has(main_mbx, S)
      BY <1>2, <3>1
    <3>4. \A S, U : U \cap Sensors = {} /\ After(main_mbx, S, U) =>
            After(main_mbx', S, U) /\ (m \in S => ~Has(main_mbx', U))
      BY <1>3, <3>1
    <3>5. Enables(main_mbx) => Enables(main_mbx') \/ (m \in Opening /\ ~Has(main_mbx', Closing))
      BY <1>4, <1>6, <3>1
    <3> QED
      BY <1>8, <3>2, <3>3, <3>4, <3>5
  <2> QED
    BY <1>7, <1>9, <2>1

------------------------------------------------------------------------------
(* A step of main keeps what the two tasks know of each other.                 *)

\* The codes of what main read, and what is left then.
LEMMA BeforeOn ==
  ASSUME Reading, AInv, Mailed, ~Gone
  PROVE  /\ m.code = "REJECT" =>
              /\ Has(main_mbx, Rejections) /\ Awaited /\ InLine(Returns \cup {"INITIAL"})
              /\ ~Has(main_mbx', Commands)
         /\ m.code \in {"ENABLE", "DISABLE"} => Has(main_mbx, Coded({"ENABLE", "DISABLE"}))
                                                /\ Has(main_mbx, Commands)
         /\ m.code = "DISABLE" => Has(main_mbx, Closing)
         /\ m \in Opening => m.code = "ENABLE"
         /\ \A c \in {"REJECT", "RESET"} :
              Has(main_mbx, Coded({c})) => m.code = c \/ Has(main_mbx', Coded({c}))
         /\ Has(main_mbx, Coded({"ENABLE", "DISABLE"})) =>
              m.code \in {"ENABLE", "DISABLE"} \/ Has(main_mbx', Coded({"ENABLE", "DISABLE"}))
         /\ Has(main_mbx', Commands) => Has(main_mbx, Commands)
         /\ Has(main_mbx', Rejections) => Has(main_mbx, Rejections)
         /\ Has(main_mbx', Closing) => Has(main_mbx, Closing)
         /\ Has(main_mbx, Rejections) => Awaited /\ InLine(Returns \cup {"INITIAL"})
         /\ Has(line_mbx, Refusals) => Awaited
<1>1. RejectOnce /\ Queued /\ m \in Messages
  BY BeforeRead DEF AInv, Reading, IInv
<1>2. /\ \A c : m \in Coded(c) <=> m.code \in c
      /\ \A S : m \in S => Has(main_mbx, S)
  BY <1>1, Left DEF Coded
<1>3. /\ Commands \cap Sensors = {} /\ Rejections \cap Sensors = {} /\ Closing \cap Sensors = {}
  BY DEF Commands, Rejections, Closing, Coded, Sensors
<1>4. Has(main_mbx, Rejections) =>
        Awaited /\ InLine(Returns \cup {"INITIAL"})
  BY <1>1 DEF RejectOnce, Queued, Rejections
<1>5. m.code = "REJECT" => Has(main_mbx, Rejections) /\ ~Has(main_mbx', Commands)
  <2>1. After(main_mbx, Rejections, Commands)
    BY <1>1 DEF Queued
  <2>2. m.code = "REJECT" => m \in Rejections
    BY <1>2 DEF Rejections
  <2> QED
    BY <1>2, <1>3, <2>1, <2>2, Behind
<1>6. /\ m.code \in {"ENABLE", "DISABLE"} => m \in Coded({"ENABLE", "DISABLE"}) /\ m \in Commands
      /\ m.code = "DISABLE" => m \in Closing
      /\ m \in Opening => m.code = "ENABLE"
  BY <1>2 DEF Commands, Closing, Opening
<1>7. /\ Has(main_mbx', Commands) => Has(main_mbx, Commands)
      /\ Has(main_mbx', Rejections) => Has(main_mbx, Rejections)
      /\ Has(main_mbx', Closing) => Has(main_mbx, Closing)
  BY <1>3, Behind
<1>8. /\ \A c \in {"REJECT", "RESET"} :
              Has(main_mbx, Coded({c})) => m.code = c \/ Has(main_mbx', Coded({c}))
      /\ Has(main_mbx, Coded({"ENABLE", "DISABLE"})) =>
              m.code \in {"ENABLE", "DISABLE"} \/ Has(main_mbx', Coded({"ENABLE", "DISABLE"}))
  BY <1>2, Behind
<1>9. Has(line_mbx, Refusals) => Awaited
  BY <1>1 DEF RejectOnce
<1> QED
  BY <1>2, <1>4, <1>5, <1>6, <1>7, <1>8, <1>9

\* What the line task is told, and what it has not read yet.
LEMMA Adding ==
  ASSUME Reading, Telling
  PROVE  /\ \A S : Has(line_mbx, S) => Has(line_mbx', S)
         /\ \A S : S \subseteq LineMessages /\ Adds(S) => Has(line_mbx', S)
<1>1. line_mbx \in Seq(LineMessages)
  BY DEF Reading, IInv
<1>2. \A x \in LineMessages : \A S :
        Has(Append(line_mbx, x), S) <=> Has(line_mbx, S) \/ x \in S
  BY <1>1, AppendHas
<1> QED
  BY <1>2 DEF Telling, Adds

LEMMA MainTogether ==
  ASSUME Reading, AInv, Mailed, ~Gone, Telling, Turning, UNCHANGED line
  PROVE  Together'
<1>1. Together /\ Queued
  BY DEF AInv
<1>2. Ends \subseteq LineMessages /\ Again \subseteq LineMessages
  BY DEF Ends, Again
<1>3. /\ Has(line_mbx, Ends) \/ Adds(Ends) => Has(line_mbx', Ends)
      /\ Has(line_mbx, Again) \/ Adds(Again) => Has(line_mbx', Again)
  BY <1>2, Adding
<1>4. \A S : InLine(S)' = InLine(S)
  BY DEF InLine
<1>5. /\ Returns \cap {"ENABLE", "DISABLE", "ACCEPT", "REJECT_WAIT_ACCEPT_RSP", "REJECT_WAIT_POLL",
                       "ENABLE_WAIT_POLL", "ERROR", "INITIAL"} = {}
  BY DEF Returns
<1>6. InLine({"ENABLE", "DISABLE", "ACCEPT", "REJECT_WAIT_ACCEPT_RSP"}) =>
        Serving' \/ (Given' /\ Has(main_mbx', Coded({"ENABLE", "DISABLE"})))
  <2> SUFFICES ASSUME InLine({"ENABLE", "DISABLE", "ACCEPT", "REJECT_WAIT_ACCEPT_RSP"})
               PROVE  Serving' \/ (Given' /\ Has(main_mbx', Coded({"ENABLE", "DISABLE"})))
    OBVIOUS
  <2>1. m.code # "REJECT"
    BY <1>5, BeforeOn DEF InLine
  <2>2. Serving \/ (Given /\ Has(main_mbx, Coded({"ENABLE", "DISABLE"})))
    BY <1>1 DEF Together
  <2> QED
    BY <2>1, <2>2, BeforeOn DEF Turning
<1>7. InLine(Returns) =>
        Has(main_mbx', Rejections) \/ GivingBack' \/ (Given' /\ Has(line_mbx', Ends))
  <2> SUFFICES ASSUME InLine(Returns)
               PROVE  Has(main_mbx', Rejections) \/ GivingBack' \/ (Given' /\ Has(line_mbx', Ends))
    OBVIOUS
  <2>1. CASE Has(main_mbx, Rejections)
    BY <2>1, BeforeOn DEF Turning, Rejections
  <2>2. CASE GivingBack
    BY <1>3, <2>2 DEF Turning
  <2>3. CASE Given /\ Has(line_mbx, Ends)
    <3>1. ~Has(main_mbx, Commands)
      BY <1>1, <2>3 DEF Queued
    <3> QED
      BY <1>3, <2>3, <3>1, BeforeOn DEF Turning
  <2> QED
    BY <1>1, <2>1, <2>2, <2>3 DEF Together
<1>8. InLine({"REJECT_WAIT_POLL", "ENABLE_WAIT_POLL"}) => Given' /\ ~Has(main_mbx', Commands)
  BY <1>1, BeforeOn DEF Together, Turning
<1>9. line = "ERROR" => Refused' /\ ~Has(main_mbx', Rejections)
  BY <1>1, BeforeOn DEF Together, Turning
<1>10. line = "INITIAL" => reset' \/ Has(main_mbx', Coded({"RESET"}))
  BY <1>1, BeforeOn DEF Together, Turning
<1>11. GivingBack' => InLine(Returns \cup {"INITIAL"}) /\ ~Has(main_mbx', Commands)
  <2> SUFFICES ASSUME GivingBack'
               PROVE  InLine(Returns \cup {"INITIAL"}) /\ ~Has(main_mbx', Commands)
    OBVIOUS
  <2>1. ~Serving' /\ ~Given'
    BY DEF Serving, Given, GivingBack, In, Actives
  <2>2. mode1 \in DOMAIN Modes2
    BY BeforeRead
  <2>3. Serving \/ GivingBack \/ Given
    BY <2>2 DEF Serving, Given, GivingBack, In, Actives, Gone, Modes2
  <2>4. GivingBack \/ m.code = "REJECT"
    BY <2>1, <2>3 DEF Turning
  <2> QED
    BY <1>1, <2>4, BeforeOn DEF Together
<1>12. In("REJECT_STANDBY", "WAIT_REJECT_REQ")' =>
         line = "INITIAL" \/ Has(main_mbx', Rejections) \/ Has(line_mbx', Again)
  BY <1>1, <1>3, BeforeOn DEF Together, Turning, Rejections
<1> QED
  BY <1>1, <1>4, <1>6, <1>7, <1>8, <1>9, <1>10, <1>11, <1>12 DEF Together

LEMMA MainQueued ==
  ASSUME Reading, AInv, Mailed, ~Gone, Telling, Turning, UNCHANGED line
  PROVE  Queued'
<1>1. Together /\ Queued /\ line_mbx \in Seq(LineMessages)
  BY DEF AInv, Reading, IInv
<1>2. \A S : InLine(S)' = InLine(S)
  BY DEF InLine
<1>3. /\ Has(main_mbx', Rejections) => InLine(Returns \cup {"INITIAL"})
      /\ Has(main_mbx', Commands) => Has(main_mbx, Commands)
  BY BeforeOn
<1>4. After(main_mbx', Rejections, Commands)
  <2>1. Commands \cap Sensors = {}
    BY DEF Commands, Sensors, Coded
  <2> QED
    BY <1>1, <2>1, Behind DEF Queued
<1>5. Has(line_mbx, Grants) => Serving' /\ ~Has(main_mbx', Rejections)
  BY <1>1, BeforeOn DEF Queued, Turning
<1>6. Has(line_mbx, Ends) => Given' /\ InLine(Returns \cup {"INITIAL"}) /\ ~Has(main_mbx', Commands)
  BY <1>1, BeforeOn DEF Queued, Turning
<1>7. Has(line_mbx, Opened) => Refused' \/ InLine(Returns \cup {"INITIAL"})
  BY <1>1, BeforeOn DEF Queued, Turning
<1>8. CASE line_mbx' = line_mbx
  BY <1>1, <1>2, <1>3, <1>4, <1>5, <1>6, <1>7, <1>8 DEF Queued
<1>9. ASSUME NEW x \in LineMessages, line_mbx' = Append(line_mbx, x), ~Given, x \notin Failed,
             x \in Grants => Serving' /\ ~Awaited,
             x \in Ends => GivingBack /\ Given' /\ ~Awaited,
             x \in Opened => Refused'
      PROVE  Queued'
  <2>1. \A S : Has(line_mbx', S) <=> Has(line_mbx, S) \/ x \in S
    BY <1>1, <1>9, AppendHas
  <2>2. \A S, U : After(line_mbx, S, U) /\ (x \notin U \/ ~Has(line_mbx, S)) => After(line_mbx', S, U)
    BY <1>1, <1>9, AppendAfter
  <2>3. ~Has(line_mbx, Ends)
    BY <1>1, <1>9 DEF Queued
  <2>4. x \in Grants \cup Ends => ~Has(line_mbx, Refusals) /\ ~Has(main_mbx', Rejections)
    BY <1>9, BeforeOn
  <2>5. After(line_mbx', Refusals, Grants \cup Ends) /\ After(line_mbx', Ends, LineMessages)
    BY <1>1, <2>2, <2>3, <2>4 DEF Queued
  <2>6. x \in Ends => InLine(Returns \cup {"INITIAL"}) /\ ~Has(main_mbx', Commands)
    BY <1>1, <1>3, <1>9 DEF Together
  <2>7. Has(line_mbx', Grants) => Serving' /\ ~Has(main_mbx', Rejections)
    BY <1>5, <1>9, <2>1, <2>4
  <2>8. Has(line_mbx', Ends) => Given' /\ InLine(Returns \cup {"INITIAL"}) /\ ~Has(main_mbx', Commands)
    BY <1>9, <2>1, <2>3, <2>6
  <2>9. ~Has(line_mbx', Failed) /\ (Has(line_mbx', Opened) => Refused' \/ InLine(Returns \cup {"INITIAL"}))
    BY <1>1, <1>7, <1>9, <2>1 DEF Queued
  <2> QED
    BY <1>2, <1>3, <1>4, <2>5, <2>7, <2>8, <2>9 DEF Queued
<1> QED
  BY <1>8, <1>9 DEF Telling

LEMMA MainFollows ==
  ASSUME Reading, AInv, Mailed, ~Gone, Turning, Following, UNCHANGED line
  PROVE  Follows'
<1> SUFFICES ASSUME InLine({"ENABLE", "ACCEPT", "REJECT_WAIT_ACCEPT_RSP"})
             PROVE  Enables(main_mbx') \/ (Enabled' /\ ~Has(main_mbx', Closing))
  BY DEF Follows, InLine, Closing
<1>1. /\ Serving \/ (Given /\ Has(main_mbx, Coded({"ENABLE", "DISABLE"})))
      /\ Enables(main_mbx) \/ (Enabled /\ ~Has(main_mbx, Closing))
  BY DEF AInv, Together, Follows, InLine, Closing
<1>2. m.code # "REJECT"
  BY BeforeOn DEF InLine, Returns
<1>3. CASE Enables(main_mbx)
  <2>1. CASE Enables(main_mbx')
    BY <2>1
  <2>2. CASE m \in Opening /\ ~Has(main_mbx', Closing)
    BY <1>1, <2>2, BeforeOn DEF Following
  <2> QED
    BY <1>3, <2>1, <2>2, Behind
<1>4. CASE Enabled /\ ~Has(main_mbx, Closing)
  BY <1>2, <1>4, BeforeOn DEF Following
<1> QED
  BY <1>1, <1>3, <1>4

\* Only motors are waited for.
LEMMA DueMotors ==
  ASSUME NEW r, Due(r)
  PROVE  r \in Motors /\ Moving
BY DEF Due, Motors, Moves, Homing, Moving, In, Actives, AfterReject

LEMMA MainOwed ==
  ASSUME Reading, AInv, Mailed, ~Gone, Owing
  PROVE  Owed'
<1>1. /\ Moving => (\E r \in work : Due(r)) \/ Has(main_mbx, Answers)
      /\ mode2 = "FORCE_REV" => "FORCE_REV" \in work \/ Has(main_mbx, Stops)
      /\ Sensing => Has(main_mbx, Coded({"SENSOR_ACTIVE"}))
  BY DEF AInv, Owed
<1>2. Moving' => (\E r \in work' : Due(r)') \/ Has(main_mbx, Answers)'
  <2> SUFFICES ASSUME Moving', SameMove, m \notin Answers, work \cap Motors \subseteq work'
               PROVE  (\E r \in work' : Due(r)') \/ Has(main_mbx, Answers)'
    BY DEF Owing
  <2>1. Moving /\ \A r : Due(r)' = Due(r)
    BY DEF SameMove, Moving, Due, In, Actives
  <2>2. Answers' = Answers
    BY <2>1 DEF Answers
  <2>3. CASE \E r \in work : Due(r)
    BY <2>1, <2>3, DueMotors
  <2>4. CASE Has(main_mbx, Answers)
    <3>1. Has(main_mbx', Answers)
      BY <2>4, Behind
    <3> QED
      BY <2>2, <3>1
  <2> QED
    BY <1>1, <2>1, <2>3, <2>4
<1>3. mode2' = "FORCE_REV" => "FORCE_REV" \in work' \/ Has(main_mbx', Stops)
  BY <1>1, Behind DEF Owing
<1>4. Sensing' => Has(main_mbx', Coded({"SENSOR_ACTIVE"}))
  <2>1. m \in Coded({"SENSOR_ACTIVE"}) => m.code = "SENSOR_ACTIVE"
    BY DEF Coded
  <2> QED
    BY <1>1, <2>1, Behind DEF Owing
<1> QED
  BY <1>2, <1>3, <1>4 DEF Owed

\* In an alarm, a reset ends it, or the box is out.
LEMMA AlarmReset ==
  ASSUME Reading, mode1 = "ALARM", main_task, m.code = "RESET"
  PROVE  SetInit
<1>1. handler
  BY DEF main_task, In
<1>2. "RESET" \notin Clines
  BY DEF Clines
<1> QED
  BY <1>1, <1>2
  DEF handler, In, alarm_wait_req, alarm_fail, alarm_acceptor_jam, alarm_confirm_at_jam, alarm_box,
      alarm_confirm_box, alarm_wait_sensor_active, Repeat, Default, is

LEMMA MainAgrees ==
  ASSUME IInv, AInv, main
  PROVE  AInv'
<1>1. Reading /\ main_task /\ UNCHANGED line /\ Effect
  BY MainReads DEF main
<1>2. Mailed /\ ToldKept /\ TurnKept /\ line_mbx \in Seq(LineMessages)
  BY <1>1 DEF Effect, Reading, IInv
<1>5. \A x \in LineMessages : Has(Append(line_mbx, x), Missing) <=> Has(line_mbx, Missing) \/ x \in Missing
  BY <1>2, AppendHas
<1>3. CASE mode1 = "ALARM"
  <2>1. Gone /\ Gone' /\ mode1' \in {"ALARM", "INIT"}
    BY <1>2, <1>3 DEF TurnKept, Gone
  <2>2. CASE m.code = "RESET"
    <3>1. mode1' = "INIT" \/ line_mbx' = Append(line_mbx, Msg("RESET", "ALARM"))
      BY <1>1, <1>3, <2>2, AlarmReset DEF SetInit, SetMode, Alarmed, Tell
    <3>2. Msg("RESET", "ALARM") \in LineMessages /\ Msg("RESET", "ALARM") \in Missing
      BY DEF LineMessages, Msg, Missing
    <3>3. mode1' = "INIT" \/ Has(line_mbx', Missing)
      BY <1>5, <3>1, <3>2
    <3> QED
      BY <2>1, <3>3 DEF AInv, Owed, Together, Queued, Follows, Restarts
  <2>3. CASE m.code # "RESET"
    <3>1. Has(main_mbx, Coded({"RESET"})) => Has(main_mbx', Coded({"RESET"}))
      <4>1. m \notin Coded({"RESET"})
        BY <2>3 DEF Coded
      <4> QED
        BY <1>1, <1>2, <4>1, Behind
    <3>2. Has(line_mbx, Missing) => Has(line_mbx', Missing)
      BY <1>2, <1>5 DEF ToldKept
    <3>3. mode1 # "INIT"
      BY <1>3
    <3> QED
      BY <1>1, <2>1, <3>1, <3>2, <3>3 DEF AInv, Owed, Together, Queued, Follows, Restarts
  <2> QED
    BY <2>2, <2>3
<1>4. CASE mode1 # "ALARM"
  <2>1. ~Gone /\ line # "AUTO_RECOVERY"
    BY <1>1, <1>4 DEF Gone, Reading, Running, AInv, Together
  <2>2. Restarts'
    BY <1>1, <2>1 DEF Restarts
  <2>3. CASE Gone'
    BY <2>2, <2>3 DEF AInv, Owed, Together, Queued, Follows
  <2>4. CASE Telling /\ Turning /\ Following /\ Owing
    BY <1>1, <1>2, <2>1, <2>2, <2>4, MainTogether, MainQueued, MainFollows, MainOwed DEF AInv
  <2> QED
    BY <1>1, <1>4, <2>3, <2>4, MainOnward DEF Onward
<1> QED
  BY <1>3, <1>4

------------------------------------------------------------------------------
(* The steps of the others keep what the two tasks know of each other.         *)

\* What only depends on the mode of main.
LEMMA SameMain ==
  ASSUME UNCHANGED <<mode1, mode2, enabling>>
  PROVE  /\ Gone' = Gone /\ Serving' = Serving /\ GivingBack' = GivingBack /\ Given' = Given
         /\ Refused' = Refused /\ Moving' = Moving /\ Sensing' = Sensing /\ Enabled' = Enabled
         /\ In("REJECT_STANDBY", "WAIT_REJECT_REQ")' = In("REJECT_STANDBY", "WAIT_REJECT_REQ")
         /\ Answers' = Answers /\ \A r : Due(r)' = Due(r)
<1>1. \A r : Due(r)' = Due(r)
  BY DEF Due, In
<1>2. Answers' = Answers
  BY <1>1 DEF Answers
<1> QED
  BY <1>1, <1>2
  DEF Gone, Serving, GivingBack, Given, Refused, Moving, Sensing, Enabled, In

LEMMA SameAgrees ==
  ASSUME AInv, UNCHANGED <<mode1, mode2, enabling, reset, line, main_mbx, line_mbx, work>>
  PROVE  AInv'
<1>1. Owed'
  BY SameMain DEF AInv, Owed
<1>2. Together'
  BY SameMain DEF AInv, Together, InLine
<1>3. Queued'
  BY SameMain DEF AInv, Queued, InLine
<1>4. Follows' /\ Restarts'
  BY SameMain DEF AInv, Follows, Restarts, InLine
<1> QED
  BY <1>1, <1>2, <1>3, <1>4 DEF AInv

\* A message comes behind the others.
LEMMA Written ==
  ASSUME IInv, NEW x \in Messages, main_mbx' = Append(main_mbx, x)
  PROVE  /\ \A S : Has(main_mbx', S) <=> Has(main_mbx, S) \/ x \in S
         /\ \A S, U : After(main_mbx, S, U) /\ (x \notin U \/ ~Has(main_mbx, S)) =>
              After(main_mbx', S, U)
         /\ x \in Opening \/ (Enables(main_mbx) /\ x \notin Closing) => Enables(main_mbx')
<1>1. main_mbx \in Seq(Messages)
  BY DEF IInv
<1>2. \A S : Has(main_mbx', S) <=> Has(main_mbx, S) \/ x \in S
  BY <1>1, AppendHas
<1>3. \A S, U : After(main_mbx, S, U) /\ (x \notin U \/ ~Has(main_mbx, S)) => After(main_mbx', S, U)
  BY <1>1, AppendAfter
<1>4. x \in Opening \/ (Enables(main_mbx) /\ x \notin Closing) => Enables(main_mbx')
  BY <1>1, AppendEnables
<1> QED
  BY <1>2, <1>3, <1>4

\* A device answers, a timer is up, or a sensor changes.
LEMMA ReportAgrees ==
  ASSUME IInv, AInv, UNCHANGED <<mode1, mode2, enabling, reset, line, line_mbx>>,
         NEW x \in Messages, x \notin Asked \cup Coded({"RESET"}), main_mbx' = Append(main_mbx, x),
         NEW r, work \ {r} \subseteq work', Due(r) => x \in Answers,
         r = "FORCE_REV" => x \in Stops
  PROVE  AInv'
<1>1. /\ \A S : Has(main_mbx', S) <=> Has(main_mbx, S) \/ x \in S
      /\ \A S, U : After(main_mbx, S, U) /\ (x \notin U \/ ~Has(main_mbx, S)) =>
           After(main_mbx', S, U)
      /\ x \notin Closing /\ Enables(main_mbx) => Enables(main_mbx')
  BY Written
<1>2. x \notin Commands \cup Rejections \cup Closing \cup Coded({"RESET"}) \cup Coded({"ENABLE", "DISABLE"})
  BY DEF Asked, Coded, Commands, Rejections, Closing
<1>3. Owed'
  <2>1. /\ Moving /\ ~Gone => (\E q \in work : Due(q)) \/ Has(main_mbx, Answers)
        /\ mode2 = "FORCE_REV" /\ ~Gone => "FORCE_REV" \in work \/ Has(main_mbx, Stops)
        /\ Sensing /\ ~Gone => Has(main_mbx, Coded({"SENSOR_ACTIVE"}))
    BY DEF AInv, Owed
  <2>2. Moving /\ ~Gone => (\E q \in work' : Due(q)) \/ Has(main_mbx', Answers)
    BY <1>1, <2>1
  <2>3. mode2 = "FORCE_REV" /\ ~Gone => "FORCE_REV" \in work' \/ Has(main_mbx', Stops)
    BY <1>1, <2>1
  <2> QED
    BY <1>1, <2>1, <2>2, <2>3, SameMain DEF Owed
<1>4. Together'
  BY <1>1, <1>2, SameMain DEF AInv, Together, InLine
<1>5. Queued'
  BY <1>1, <1>2, SameMain DEF AInv, Queued, InLine
<1>6. Follows' /\ Restarts'
  BY <1>1, <1>2, SameMain DEF AInv, Follows, Restarts, InLine, Closing
<1> QED
  BY <1>3, <1>4, <1>5, <1>6 DEF AInv

LEMMA AnswerAgrees ==
  ASSUME IInv, AInv, UNCHANGED <<mains, line, line_mbx>>,
         NEW r \in Moves, NEW sub \in Says(r), Answer(r, sub)
  PROVE  AInv'
<1>1. sub \in Subs
  BY DEF Says, Subs
<1>2. /\ Msg(r, sub) \in Messages /\ Msg(r, sub) \notin Asked \cup Coded({"RESET"})
      /\ Msg(r, sub).code = r /\ Msg(r, sub).sub = sub
  BY <1>1 DEF Messages, Msg, Asked, Coded, Moves, Homing
<1>3. Due(r) => Msg(r, sub) \in Answers
  <2>1. Due(r) => Msg(r, sub) \in Replies
    BY <1>2, DueMotors DEF Replies, Coded
  <2> QED
    BY <1>2, <2>1 DEF Answers
<1>4. r = "FORCE_REV" => Msg(r, sub) \in Stops
  BY <1>2 DEF Stops
<1>5. /\ work' = work \ {r} /\ main_mbx' = Append(main_mbx, Msg(r, sub))
      /\ UNCHANGED <<mode1, mode2, enabling, reset>>
  BY DEF Answer, Send, mains, Jobs
<1> QED
  BY <1>2, <1>3, <1>4, <1>5, ReportAgrees

LEMMA ElapseAgrees ==
  ASSUME IInv, AInv, UNCHANGED <<mains, line, line_mbx>>, NEW t \in Timers, Elapse(t)
  PROVE  AInv'
<1>1. Msg("TIMER", t) \in Messages /\ Msg("TIMER", t) \notin Asked \cup Coded({"RESET"})
  BY DEF Messages, Msg, Subs, Asked, Coded
<1>2. ~Due(t) /\ t # "FORCE_REV"
  BY DueMotors DEF Timers, Motors, Moves, Homing
<1>3. /\ work' = work \ {t} /\ main_mbx' = Append(main_mbx, Msg("TIMER", t))
      /\ UNCHANGED <<mode1, mode2, enabling, reset>>
  BY DEF Elapse, Send, mains, Jobs
<1> QED
  BY <1>1, <1>2, <1>3, ReportAgrees

LEMMA DevicesAgree ==
  ASSUME IInv, AInv,
         \/ Reaches \/ Fails \/ Adjusts \/ Centers \/ PushesOut \/ GivesBack \/ Hampered
         \/ Stalls \/ Elapses \/ AdjustmentDue
  PROVE  AInv'
<1>1. Device
  BY DEF Reaches, Fails, Adjusts, Centers, PushesOut, GivesBack, Hampered, Stalls, Elapses,
         AdjustmentDue, Placed, Feeds
<1>2. UNCHANGED <<mains, line, line_mbx>>
  BY <1>1 DEF Device
<1>3. CASE \E r \in Moves : \E sub \in Says(r) : Answer(r, sub)
  BY <1>2, <1>3, AnswerAgrees
<1>4. /\ Homing \subseteq Moves
      /\ {"ADJUST", "CENTERING_EXEC", "OUT_RETRY", "FEED_REJECT", "FORCE_REV", "STACKER_HALF"} \subseteq Moves
      /\ \A r \in Moves : "SUCCESS" \in Says(r) /\ "ALARM" \in Says(r)
      /\ \A r \in {"STACKER_HALF", "FORCE_REV", "FEED_REJECT"} : "BOX" \in Says(r)
      /\ {"RETRY", "INTERIM"} \subseteq Says("FEED_REJECT")
  BY DEF Homing, Moves, Says
<1>5. CASE Reaches \/ Adjusts \/ Centers \/ PushesOut \/ GivesBack
  <2>1. \E r \in Moves : Answer(r, "SUCCESS")
    BY <1>4, <1>5 DEF Reaches, Adjusts, Centers, PushesOut, GivesBack
  <2> QED
    BY <1>3, <1>4, <2>1
<1>6. CASE Fails
  BY <1>3, <1>4, <1>6 DEF Fails
<1>7. CASE Hampered
  BY <1>3, <1>4, <1>7 DEF Hampered
<1>8. CASE Stalls
  <2>1. PICK r \in work : work' = work \ {r} /\ Send("STATUS", "ALARM") /\ r # "FORCE_REV"
    BY <1>8 DEF Stalls, Homing
  <2>2. /\ Msg("STATUS", "ALARM") \in Messages
        /\ Msg("STATUS", "ALARM") \notin Asked \cup Coded({"RESET"})
        /\ Msg("STATUS", "ALARM") \in Answers
    BY DEF Messages, Subs, Msg, Asked, Coded, Answers, Replies
  <2>3. main_mbx' = Append(main_mbx, Msg("STATUS", "ALARM")) /\ UNCHANGED <<mode1, mode2, enabling, reset>>
    BY <1>2, <2>1 DEF Send, mains, Jobs
  <2> QED
    BY <1>2, <2>1, <2>2, <2>3, ReportAgrees
<1>9. CASE Elapses \/ AdjustmentDue
  <2>1. \E t \in Timers : Elapse(t)
    BY <1>9 DEF Elapses, AdjustmentDue, Timers
  <2> QED
    BY <1>2, <2>1, ElapseAgrees
<1> QED
  BY <1>5, <1>6, <1>7, <1>8, <1>9

LEMMA HandsAgree ==
  ASSUME IInv, AInv, PaperMoves \/ PaperTaken \/ BoxOut \/ BoxBack
  PROVE  AInv'
<1>1. Seen
  BY DEF PaperMoves, PaperTaken, BoxOut, BoxBack
<1>2. UNCHANGED <<mode1, mode2, enabling, reset, line, line_mbx, work>>
  BY <1>1 DEF Seen, mains, Jobs
<1>3. CASE UNCHANGED main_mbx
  BY <1>2, <1>3, SameAgrees
<1>4. CASE Send("SENSOR", "SUCCESS")
  <2>1. /\ Msg("SENSOR", "SUCCESS") \in Messages
        /\ Msg("SENSOR", "SUCCESS") \notin Asked \cup Coded({"RESET"})
    BY DEF Messages, Subs, Msg, Asked, Coded
  <2>2. main_mbx' = Append(main_mbx, Msg("SENSOR", "SUCCESS"))
    BY <1>4 DEF Send
  <2>3. ~Due("NON")
    BY DueMotors DEF Motors, Moves, Homing
  <2> QED
    BY <1>2, <2>1, <2>2, <2>3, ReportAgrees
<1> QED
  BY <1>1, <1>3, <1>4 DEF Seen

\* What the line task asks for comes behind the others; it need not ask.
LEMMA Requested ==
  ASSUME IInv, NEW c \in Requests \cup {"NON"},
         IF c = "NON" THEN UNCHANGED main_mbx ELSE Send(c, "none")
  PROVE  /\ \A S : Has(main_mbx, S) => Has(main_mbx', S)
         /\ Has(main_mbx', Rejections) <=> Has(main_mbx, Rejections) \/ c = "REJECT"
         /\ Has(main_mbx', Commands) <=> Has(main_mbx, Commands) \/ c \in {"ENABLE", "DISABLE", "ACCEPT"}
         /\ c \in {"ENABLE", "DISABLE"} => Has(main_mbx', Coded({"ENABLE", "DISABLE"}))
         /\ c = "RESET" => Has(main_mbx', Coded({"RESET"}))
         /\ Has(main_mbx', Closing) <=> Has(main_mbx, Closing) \/ c = "DISABLE"
         /\ c = "ENABLE" \/ (Enables(main_mbx) /\ c # "DISABLE") => Enables(main_mbx')
         /\ /\ After(main_mbx, Rejections, Commands)
            /\ c \in {"ENABLE", "DISABLE", "ACCEPT"} => ~Has(main_mbx, Rejections)
            => After(main_mbx', Rejections, Commands)
<1>1. CASE c = "NON"
  BY <1>1
<1>2. CASE c # "NON"
  <2> DEFINE x == Msg(c, "none")
  <2>1. /\ x \in Messages
        /\ x \in Rejections <=> c = "REJECT"
        /\ x \in Commands <=> c \in {"ENABLE", "DISABLE", "ACCEPT"}
        /\ x \in Coded({"ENABLE", "DISABLE"}) <=> c \in {"ENABLE", "DISABLE"}
        /\ x \in Coded({"RESET"}) <=> c = "RESET"
        /\ x \in Closing <=> c = "DISABLE"
        /\ x \in Opening <=> c = "ENABLE"
    BY <1>2 DEF Messages, Subs, Msg, Requests, Rejections, Commands, Closing, Opening, Coded
  <2>2. main_mbx' = Append(main_mbx, x)
    BY <1>2 DEF Send
  <2> HIDE DEF x
  <2>3. /\ \A S : Has(main_mbx', S) <=> Has(main_mbx, S) \/ x \in S
        /\ \A S, U : After(main_mbx, S, U) /\ (x \notin U \/ ~Has(main_mbx, S)) =>
             After(main_mbx', S, U)
        /\ x \in Opening \/ (Enables(main_mbx) /\ x \notin Closing) => Enables(main_mbx')
    BY <2>1, <2>2, Written
  <2> QED
    BY <2>1, <2>3
<1> QED
  BY <1>1, <1>2

\* What the line task takes from its mailbox, and what is left then.
LEMMA Hears ==
  ASSUME IInv, line_mbx # << >>, line_mbx' = Tail(line_mbx)
  PROVE  /\ told \in LineMessages
         /\ \A S : Has(line_mbx', S) => Has(line_mbx, S)
         /\ \A S : told \in S => Has(line_mbx, S)
         /\ \A S : Has(line_mbx, S) => told \in S \/ Has(line_mbx', S)
         /\ \A S, U : After(line_mbx, S, U) =>
              After(line_mbx', S, U) /\ (told \in S => ~Has(line_mbx', U))
<1>1. line_mbx \in Seq(LineMessages)
  BY DEF IInv
<1>2. /\ told \in LineMessages
      /\ \A S : Has(line_mbx', S) => Has(line_mbx, S)
      /\ \A S : told \in S => Has(line_mbx, S)
      /\ \A S : Has(line_mbx, S) => told \in S \/ Has(line_mbx', S)
  BY <1>1, TailHas DEF told
<1>3. \A S, U : After(line_mbx, S, U) =>
        After(line_mbx', S, U) /\ (told \in S => ~Has(line_mbx', U))
  BY <1>1, TailAfter DEF told
<1> QED
  BY <1>2, <1>3

\* What the line task reads while main is not gone: what it has not read came
\* from a mode that still says something.
LEMMA Told ==
  ASSUME IInv, AInv, ~Gone, line_mbx # << >>, line_mbx' = Tail(line_mbx)
  PROVE  /\ told \in LineMessages /\ told.code \in {"ENABLE", "DISABLE", "REJECT"}
         /\ told \notin Failed
         /\ \A S : Has(line_mbx', S) => Has(line_mbx, S)
         /\ After(line_mbx', Refusals, Grants \cup Ends) /\ After(line_mbx', Ends, LineMessages)
         /\ ~Has(line_mbx', Failed)
         /\ Has(line_mbx, Ends) => told \in Ends \/ Has(line_mbx', Ends)
         /\ Has(line_mbx, Again) => told \in Again \/ Has(line_mbx', Again)
         /\ told \in Refusals =>
              /\ Awaited /\ ~Has(main_mbx, Rejections)
              /\ ~Has(line_mbx', Grants) /\ ~Has(line_mbx', Ends)
         /\ told \in Ends =>
              /\ Given /\ InLine(Returns \cup {"INITIAL"})
              /\ ~Has(main_mbx, Commands) /\ ~Has(main_mbx, Rejections)
              /\ ~Has(line_mbx', Grants) /\ ~Has(line_mbx', Ends) /\ ~Has(line_mbx', Opened)
         /\ told \in Opened => Refused \/ InLine(Returns \cup {"INITIAL"})
<1>1. /\ Queued /\ RejectOnce /\ AcceptMeant /\ mode1 \notin {"ALARM", "INIT", "ACCEPT"}
  BY DEF AInv, IInv, Gone
<1>2. /\ told \in LineMessages
      /\ \A S : Has(line_mbx', S) => Has(line_mbx, S)
      /\ \A S : told \in S => Has(line_mbx, S)
      /\ \A S : Has(line_mbx, S) => told \in S \/ Has(line_mbx', S)
      /\ \A S, U : After(line_mbx, S, U) =>
           After(line_mbx', S, U) /\ (told \in S => ~Has(line_mbx', U))
  BY Hears
<1>3. told \notin Aborts /\ told \notin Failed /\ ~Has(line_mbx', Failed)
  BY <1>1, <1>2 DEF AcceptMeant, Ended, Queued
<1>4. told.code \in {"ENABLE", "DISABLE", "REJECT"}
  BY <1>2, <1>3 DEF LineMessages, Aborts
<1>5. After(line_mbx, Refusals, Grants \cup Ends) /\ After(line_mbx, Ends, LineMessages)
  BY <1>1 DEF Queued
<1>6. \A q, S, U : Has(q, S) /\ S \subseteq U => Has(q, U)
  BY DEF Has
<1>7. /\ Grants \subseteq Grants \cup Ends /\ Ends \subseteq Grants \cup Ends
      /\ Grants \subseteq LineMessages /\ Ends \subseteq LineMessages /\ Opened \subseteq LineMessages
  BY DEF Grants, Ends, Opened
<1>8. told \in Refusals =>
        Awaited /\ ~Has(main_mbx, Rejections) /\ ~Has(line_mbx', Grants) /\ ~Has(line_mbx', Ends)
  <2>1. told \in Refusals => Awaited /\ ~Has(main_mbx, Rejections)
    BY <1>1, <1>2 DEF RejectOnce, Rejections
  <2>2. told \in Refusals => ~Has(line_mbx', Grants \cup Ends)
    BY <1>2, <1>5
  <2> QED
    BY <1>6, <1>7, <2>1, <2>2
<1>9. told \in Ends =>
        /\ Given /\ InLine(Returns \cup {"INITIAL"})
        /\ ~Has(main_mbx, Commands) /\ ~Has(main_mbx, Rejections)
        /\ ~Has(line_mbx', Grants) /\ ~Has(line_mbx', Ends) /\ ~Has(line_mbx', Opened)
  <2>1. told \in Ends => Given /\ InLine(Returns \cup {"INITIAL"}) /\ ~Has(main_mbx, Commands)
    BY <1>1, <1>2 DEF Queued
  <2>2. Given => ~Awaited
    BY DEF Given, Awaited, Ended, In
  <2>3. ~Awaited => ~Has(main_mbx, Rejections)
    BY <1>1 DEF RejectOnce, Rejections
  <2>4. told \in Ends => ~Has(line_mbx', LineMessages)
    BY <1>2, <1>5
  <2> QED
    BY <1>6, <1>7, <2>1, <2>2, <2>3, <2>4
<1>10. told \in Opened => Refused \/ InLine(Returns \cup {"INITIAL"})
  BY <1>1, <1>2 DEF Queued
<1> QED
  BY <1>2, <1>3, <1>4, <1>5, <1>8, <1>9, <1>10

\* A step of the line task keeps AInv, where what depends on its mode is kept.
LEMMA LineAgrees ==
  ASSUME IInv, AInv, UNCHANGED <<mode1, mode2, enabling, reset, work>>,
         NEW c \in Requests \cup {"NON"},
         IF c = "NON" THEN UNCHANGED main_mbx ELSE Send(c, "none"),
         ~Gone => Together' /\ Queued' /\ Follows', Restarts'
  PROVE  AInv'
<1>1. \A S : Has(main_mbx, S) => Has(main_mbx', S)
  BY Requested
<1>2. Owed'
  BY <1>1, SameMain DEF AInv, Owed
<1>3. CASE Gone
  BY <1>2, <1>3, SameMain DEF AInv, Together, Queued, Follows
<1> QED
  BY <1>2, <1>3 DEF AInv

\* Where no note is given back, nothing of it is under way.
LEMMA NoNote ==
  ASSUME IInv, AInv, ~Gone
  PROVE  /\ ~InLine(Returns \cup {"INITIAL"}) =>
              /\ ~GivingBack /\ ~Has(main_mbx, Rejections) /\ ~Has(line_mbx, Ends)
              /\ Has(line_mbx, Opened) => Refused
         /\ Given => ~GivingBack /\ ~Serving /\ ~Refused /\ ~Awaited /\ ~Has(main_mbx, Rejections)
         /\ Serving => ~GivingBack
         /\ Refused => Serving
         /\ In("REJECT_STANDBY", "WAIT_REJECT_REQ") => GivingBack
<1>1. /\ Given => ~GivingBack /\ ~Serving /\ ~Refused /\ ~Awaited
      /\ Serving => ~GivingBack
      /\ Refused => Serving
      /\ In("REJECT_STANDBY", "WAIT_REJECT_REQ") => GivingBack
  BY DEF Given, GivingBack, Serving, Refused, Awaited, Ended, In, Actives
<1>2. ~Awaited => ~Has(main_mbx, Rejections)
  BY DEF IInv, RejectOnce, Rejections
<1> QED
  BY <1>1, <1>2 DEF AInv, Together, Queued

\* The note is gone: the work goes on, as the host accepts notes or not.
LEMMA ResumesAgree ==
  ASSUME IInv, AInv, ~Gone, UNCHANGED <<mode1, mode2, enabling, reset, work>>,
         Given, ~Has(main_mbx, Commands),
         ~Has(line_mbx', Grants), ~Has(line_mbx', Ends), ~Has(line_mbx', Opened),
         ~Has(line_mbx', Failed),
         After(line_mbx', Refusals, Grants \cup Ends), After(line_mbx', Ends, LineMessages),
         \/ Resumes \/ ResumesPolled \/ Goes("REJECT_WAIT_POLL")
         \/ \E c \in {"ENABLE", "DISABLE"} : Asks(c, c)
  PROVE  AInv'
<1>1. /\ ~GivingBack /\ ~Has(main_mbx, Rejections) /\ After(main_mbx, Rejections, Commands)
      /\ ~In("REJECT_STANDBY", "WAIT_REJECT_REQ")
  BY NoNote DEF AInv, Queued
<1>2. ASSUME NEW c \in {"ENABLE", "DISABLE"}, Asks(c, c)
      PROVE  AInv'
  <2>1. line' = c /\ Send(c, "none") /\ c \in Requests
    BY <1>2 DEF Asks, Requests
  <2>2. /\ ~Has(main_mbx', Rejections) /\ Has(main_mbx', Coded({"ENABLE", "DISABLE"}))
        /\ After(main_mbx', Rejections, Commands)
        /\ c = "ENABLE" => Enables(main_mbx')
    BY <1>1, <1>2, <2>1, Requested
  <2>3. Together'
    BY <1>1, <1>2, <2>1, <2>2, SameMain DEF Together, InLine, Returns
  <2>4. Queued'
    BY <2>2, SameMain DEF Queued
  <2>5. Follows' /\ Restarts'
    BY <1>2, <2>1, <2>2 DEF Follows, Restarts, InLine
  <2> QED
    BY <1>2, <2>1, <2>3, <2>4, <2>5, LineAgrees
<1>3. ASSUME NEW b \in {"ENABLE_WAIT_POLL", "REJECT_WAIT_POLL"}, Goes(b)
      PROVE  AInv'
  <2>1. line' = b /\ UNCHANGED main_mbx
    BY <1>3 DEF Goes
  <2>2. Together'
    BY <1>1, <1>3, <2>1, SameMain DEF Together, InLine, Returns
  <2>3. Queued'
    BY <1>1, <2>1, SameMain DEF Queued
  <2>4. Follows' /\ Restarts'
    BY <1>3, <2>1 DEF Follows, Restarts, InLine
  <2> QED
    BY <2>1, <2>2, <2>3, <2>4, LineAgrees
<1> QED
  BY <1>2, <1>3 DEF Resumes, ResumesPolled

\* The line task asks on, or follows what it was told, where a note is awaited.
LEMMA OpenAgrees ==
  ASSUME IInv, AInv, ~Gone, UNCHANGED <<mode1, mode2, enabling, reset, work>>,
         InLine({"ENABLE", "DISABLE", "ACCEPT"}),
         \A S : Has(line_mbx', S) => Has(line_mbx, S),
         After(line_mbx', Refusals, Grants \cup Ends), After(line_mbx', Ends, LineMessages),
         \/ line = "ENABLE" /\ (Asks("ACCEPT", "ACCEPT") \/ Asks("ENABLE", "ENABLE"))
         \/ line \in {"ENABLE", "DISABLE"} /\ \E c \in {"ENABLE", "DISABLE"} : Asks(c, c)
         \/ line = "ACCEPT" /\ Goes("REJECT_WAIT_ACCEPT_RSP")
  PROVE  AInv'
<1>1. /\ ~GivingBack /\ ~Has(main_mbx, Rejections) /\ ~Has(line_mbx, Ends)
      /\ ~In("REJECT_STANDBY", "WAIT_REJECT_REQ")
      /\ Has(line_mbx, Opened) => Refused
      /\ After(main_mbx, Rejections, Commands)
  BY NoNote DEF AInv, Queued, InLine, Returns
<1>2. /\ Serving \/ (Given /\ Has(main_mbx, Coded({"ENABLE", "DISABLE"})))
      /\ Has(line_mbx, Grants) => Serving
      /\ ~Has(line_mbx, Failed)
  BY DEF AInv, Together, Queued, InLine
<1>3. PICK c \in Requests \cup {"NON"} :
        /\ IF c = "NON" THEN UNCHANGED main_mbx ELSE Send(c, "none")
        /\ c \in {"ENABLE", "DISABLE", "ACCEPT", "NON"}
        /\ c \in {"ENABLE", "DISABLE", "ACCEPT"} => line' = c
        /\ c = "NON" => line = "ACCEPT" /\ line' = "REJECT_WAIT_ACCEPT_RSP"
        /\ c = "ACCEPT" => line = "ENABLE"
  <2>1. {"ENABLE", "DISABLE", "ACCEPT"} \subseteq Requests /\ "NON" \notin Requests
    BY DEF Requests
  <2> QED
    BY <2>1 DEF Asks, Goes
<1>4. /\ ~Has(main_mbx', Rejections)
      /\ Has(main_mbx, Coded({"ENABLE", "DISABLE"})) => Has(main_mbx', Coded({"ENABLE", "DISABLE"}))
      /\ Has(main_mbx', Closing) <=> Has(main_mbx, Closing) \/ c = "DISABLE"
      /\ c = "ENABLE" \/ (Enables(main_mbx) /\ c # "DISABLE") => Enables(main_mbx')
      /\ After(main_mbx', Rejections, Commands)
  BY <1>1, <1>3, Requested
<1>5. Together'
  BY <1>1, <1>2, <1>3, <1>4, SameMain DEF Together, InLine, Returns
<1>6. Queued'
  BY <1>1, <1>2, <1>4, SameMain DEF Queued
<1>7. Follows'
  <2>1. c # "DISABLE" /\ c # "ENABLE" => Enables(main_mbx) \/ (Enabled /\ ~Has(main_mbx, Closing))
    BY <1>3 DEF AInv, Follows, InLine, Closing
  <2> QED
    BY <1>3, <1>4, <2>1, SameMain DEF Follows, InLine, Closing
<1>8. Restarts'
  BY <1>3 DEF Restarts
<1> QED
  BY <1>3, <1>5, <1>6, <1>7, <1>8, LineAgrees

\* The line task asks for the reject, or once more.
LEMMA RejectsAgree ==
  ASSUME IInv, AInv, ~Gone, UNCHANGED <<mode1, mode2, enabling, reset, work>>,
         NEW b \in Returns, Asks(b, "REJECT"),
         line \in {"ENABLE", "DISABLE"} \/ line = b,
         ~Has(main_mbx, Rejections), ~Has(line_mbx', Grants), ~Has(line_mbx', Ends),
         ~Has(line_mbx', Failed),
         After(line_mbx', Refusals, Grants \cup Ends), After(line_mbx', Ends, LineMessages)
  PROVE  AInv'
<1>1. line' = b /\ Send("REJECT", "none") /\ "REJECT" \in Requests /\ "REJECT" # "NON"
  BY DEF Asks, Requests
<1>2. GivingBack => ~Has(main_mbx, Commands)
  BY DEF AInv, Together
<1>3. After(main_mbx, Rejections, Commands)
  BY DEF AInv, Queued
<1>4. /\ Has(main_mbx', Rejections) /\ (Has(main_mbx', Commands) <=> Has(main_mbx, Commands))
      /\ After(main_mbx', Rejections, Commands)
  BY <1>1, <1>3, Requested
<1>5. Together'
  BY <1>1, <1>2, <1>4, SameMain DEF Together, InLine, Returns
<1>6. Queued'
  BY <1>1, <1>4, SameMain DEF Queued, InLine
<1>7. Follows' /\ Restarts'
  BY <1>1 DEF Follows, Restarts, InLine, Returns
<1> QED
  BY <1>1, <1>5, <1>6, <1>7, LineAgrees

\* What it is told is of no interest where it is.
LEMMA IgnoresAgree ==
  ASSUME IInv, AInv, ~Gone, UNCHANGED <<mode1, mode2, enabling, reset, work>>,
         Ignores, line_mbx # << >>, line_mbx' = Tail(line_mbx),
         told \in Ends \cup Again => ~InLine(Returns)
  PROVE  AInv'
<1>1. UNCHANGED <<line, main_mbx>> /\ Together /\ Queued /\ Follows
  BY DEF Ignores, AInv
<1>2. /\ \A S : Has(line_mbx', S) => Has(line_mbx, S)
      /\ After(line_mbx', Refusals, Grants \cup Ends) /\ After(line_mbx', Ends, LineMessages)
      /\ Has(line_mbx, Ends) => told \in Ends \/ Has(line_mbx', Ends)
      /\ Has(line_mbx, Again) => told \in Again \/ Has(line_mbx', Again)
  BY Told
<1>3. InLine(Returns \cup {"INITIAL"}) => InLine(Returns) \/ line = "INITIAL"
  BY DEF InLine
<1>4. \A S : InLine(S)' = InLine(S)
  BY <1>1 DEF InLine
<1>5. In("REJECT_STANDBY", "WAIT_REJECT_REQ") =>
        line = "INITIAL" \/ Has(main_mbx, Rejections) \/ Has(line_mbx', Again)
  BY <1>1, <1>2, <1>3, NoNote DEF Together
<1>6. Together'
  BY <1>1, <1>2, <1>4, <1>5, SameMain DEF Together
<1>7. Queued'
  BY <1>1, <1>2, <1>4, SameMain DEF Queued
<1>8. Follows' /\ Restarts'
  BY <1>1, <1>4, SameMain DEF Follows, Restarts, AInv, Together
<1> QED
  BY <1>1, <1>6, <1>7, <1>8, LineAgrees

\* The box was out where main was to wait for a reject.
LEMMA ErrorAgrees ==
  ASSUME IInv, AInv, ~Gone, UNCHANGED <<mode1, mode2, enabling, reset, work>>,
         Goes("ERROR"), line \in {"ENABLE", "DISABLE"}, told \in Opened,
         line_mbx # << >>, line_mbx' = Tail(line_mbx)
  PROVE  AInv'
<1>1. line' = "ERROR" /\ UNCHANGED main_mbx /\ Queued
  BY DEF Goes, AInv
<1>2. ~InLine(Returns \cup {"INITIAL"})
  BY DEF InLine, Returns
<1>3. /\ ~GivingBack /\ ~Has(main_mbx, Rejections) /\ ~Has(line_mbx, Ends) /\ Refused
      /\ ~In("REJECT_STANDBY", "WAIT_REJECT_REQ")
  BY <1>2, NoNote, Told
<1>4. /\ \A S : Has(line_mbx', S) => Has(line_mbx, S)
      /\ After(line_mbx', Refusals, Grants \cup Ends) /\ After(line_mbx', Ends, LineMessages)
  BY Told
<1>5. Together'
  BY <1>1, <1>3, SameMain DEF Together, InLine, Returns
<1>6. Queued'
  BY <1>1, <1>3, <1>4, SameMain DEF Queued
<1>7. Follows' /\ Restarts'
  BY <1>1 DEF Follows, Restarts, InLine
<1> QED
  BY <1>1, <1>5, <1>6, <1>7, LineAgrees

LEMMA ReadsAgree ==
  ASSUME IInv, AInv, LineReads
  PROVE  AInv'
<1>1. /\ line_mbx # << >> /\ line_mbx' = Tail(line_mbx)
      /\ UNCHANGED <<mode1, mode2, enabling, reset, work>>
  BY DEF LineReads, mains, Jobs
<1>2. CASE Gone
  <2>1. \E c \in Requests \cup {"NON"} : IF c = "NON" THEN UNCHANGED main_mbx ELSE Send(c, "none")
    <3>1. {"ENABLE", "DISABLE", "ACCEPT", "REJECT", "RESET", "SET_STATUS"} = Requests
          /\ "NON" \notin Requests
      BY DEF Requests
    <3>2. \/ UNCHANGED main_mbx
          \/ \E c \in {"ENABLE", "DISABLE", "ACCEPT", "REJECT", "RESET", "SET_STATUS"} : Send(c, "none")
      BY DEF LineReads, enable_rsp, disable_rsp, accept_rsp, reject_rsp, reset_rsp, status_info,
             Resumes, ResumesPolled, Asks, Goes, Ignores
    <3> QED
      BY <3>1, <3>2
  <2>2. Restarts'
    <3>1. line' = "AUTO_RECOVERY" =>
            \/ line = "AUTO_RECOVERY" /\ told.code # "RESET"
            \/ Send("RESET", "none")
      BY DEF LineReads, enable_rsp, disable_rsp, accept_rsp, reject_rsp, reset_rsp, status_info,
             Resumes, ResumesPolled, Asks, Goes, Ignores, InLine, Returns
    <3>2. /\ Has(line_mbx, Missing) => told \in Missing \/ Has(line_mbx', Missing)
          /\ told \in Missing => told.code = "RESET"
      BY <1>1, Hears DEF Missing
    <3>3. Send("RESET", "none") => Has(main_mbx', Coded({"RESET"}))
      BY Requested DEF Requests
    <3>4. Has(main_mbx, Coded({"RESET"})) => Has(main_mbx', Coded({"RESET"}))
      BY <2>1, Requested
    <3> QED
      BY <1>1, <3>1, <3>2, <3>3, <3>4 DEF AInv, Restarts
  <2> QED
    BY <1>1, <1>2, <2>1, <2>2, LineAgrees
<1>3. CASE ~Gone
  <2>1. /\ told \in LineMessages /\ told.code \in {"ENABLE", "DISABLE", "REJECT"}
        /\ told \notin Failed
        /\ \A S : Has(line_mbx', S) => Has(line_mbx, S)
        /\ After(line_mbx', Refusals, Grants \cup Ends) /\ After(line_mbx', Ends, LineMessages)
        /\ ~Has(line_mbx', Failed)
        /\ told \in Refusals =>
             /\ Awaited /\ ~Has(main_mbx, Rejections)
             /\ ~Has(line_mbx', Grants) /\ ~Has(line_mbx', Ends)
        /\ told \in Ends =>
             /\ Given /\ ~Has(main_mbx, Commands)
             /\ ~Has(line_mbx', Grants) /\ ~Has(line_mbx', Ends) /\ ~Has(line_mbx', Opened)
    BY <1>1, <1>3, Told
  <2>2. /\ told.sub = "REJECT" => told \in Refusals
        /\ told.code = "REJECT" /\ told.sub = "ALARM" => told \in Failed
        /\ told.code = "REJECT" /\ told.sub = "SUCCESS" => told \in Ends
        /\ told.code \in {"ENABLE", "DISABLE"} /\ told.sub = "ALARM" => told \in Opened
        /\ told \in Ends \cup Again => told.code = "REJECT"
    BY <2>1 DEF Refusals, Failed, Ends, Opened, Again
  <2>3. ASSUME Ignores, told \in Ends \cup Again => ~InLine(Returns) PROVE AInv'
    BY <1>1, <1>3, <2>3, IgnoresAgree
  <2>4. ASSUME Goes("ERROR"), line \in {"ENABLE", "DISABLE"}, told \in Opened PROVE AInv'
    BY <1>1, <1>3, <2>4, ErrorAgrees
  <2>5. ASSUME NEW b \in Returns, Asks(b, "REJECT"), line \in {"ENABLE", "DISABLE"} \/ line = b,
               told \in Refusals
        PROVE  AInv'
    BY <1>1, <1>3, <2>1, <2>5, RejectsAgree
  <2>6. CASE told.code = "ENABLE" /\ enable_rsp
    <3>1. CASE line = "ENABLE" /\ Asks("ACCEPT", "ACCEPT")
      BY <1>1, <1>3, <2>1, <3>1, OpenAgrees DEF InLine
    <3>2. CASE line = "ENABLE" /\ told.sub = "REJECT" /\ Asks("ENABLE_REJECT", "REJECT")
      BY <2>2, <2>5, <3>2 DEF Returns
    <3> QED
      BY <2>2, <2>3, <2>4, <2>6, <3>1, <3>2 DEF enable_rsp
  <2>7. CASE told.code = "DISABLE" /\ disable_rsp
    <3>1. CASE line = "DISABLE" /\ told.sub = "REJECT" /\ Asks("DISABLE_REJECT", "REJECT")
      BY <2>2, <2>5, <3>1 DEF Returns
    <3> QED
      BY <2>2, <2>3, <2>4, <2>7, <3>1 DEF disable_rsp
  <2>8. CASE told.code = "REJECT" /\ reject_rsp
    <3>1. CASE InLine(Returns) /\ told.sub = "REJECT" /\ Asks(line, "REJECT")
      BY <2>2, <2>5, <3>1 DEF InLine
    <3>2. CASE told.sub = "SUCCESS" /\ (Resumes \/ ResumesPolled \/ Goes("REJECT_WAIT_POLL"))
      BY <1>1, <1>3, <2>1, <2>2, <2>8, <3>2, ResumesAgree
    <3>3. CASE ~InLine(Returns) /\ Ignores
      BY <2>3, <3>3
    <3> QED
      BY <2>1, <2>2, <2>8, <3>1, <3>2, <3>3 DEF reject_rsp
  <2> QED
    BY <2>1, <2>6, <2>7, <2>8 DEF LineReads
<1> QED
  BY <1>2, <1>3

\* Nothing lies in an empty mailbox.
LEMMA Empty ==
  /\ \A S : ~Has(<< >>, S)
  /\ \A S, U : After(<< >>, S, U)
  /\ ~Enables(<< >>)
BY DEF Has, After, Enables

LEMMA HostAgrees ==
  ASSUME IInv, AInv, PollsEnable \/ Polls \/ Inhibits \/ Permits \/ Resets
  PROVE  AInv'
<1>1. Host
  BY DEF PollsEnable, Polls, Inhibits, Permits, Resets
<1>2. line_mbx = << >> /\ line_mbx' = << >> /\ UNCHANGED <<mode1, mode2, enabling, reset, work>>
  BY <1>1 DEF Host, mains, Jobs
<1>3. /\ \A S : ~Has(line_mbx, S) /\ ~Has(line_mbx', S)
      /\ \A S, U : After(line_mbx', S, U)
  BY <1>2, Empty
<1>4. CASE Ignores
  BY <1>2, <1>4, SameAgrees DEF Ignores
<1>5. CASE Asks("INITIAL", "RESET")
  <2>1. line' = "INITIAL" /\ Send("RESET", "none") /\ "RESET" \in Requests /\ "RESET" # "NON"
    BY <1>5 DEF Asks, Requests
  <2>2. CASE Gone
    <3>1. Restarts'
      BY <2>1 DEF Restarts
    <3> QED
      BY <1>2, <2>1, <2>2, <3>1, LineAgrees
  <2>3. CASE ~Gone
    <3>1. After(main_mbx, Rejections, Commands) /\ (GivingBack => ~Has(main_mbx, Commands))
      BY <2>3 DEF AInv, Queued, Together
    <3>2. /\ Has(main_mbx', Coded({"RESET"}))
          /\ (Has(main_mbx', Commands) <=> Has(main_mbx, Commands))
          /\ After(main_mbx', Rejections, Commands)
      BY <2>1, <3>1, Requested
    <3>3. Together'
      BY <1>2, <2>1, <3>1, <3>2, SameMain DEF Together, InLine, Returns
    <3>4. Queued'
      BY <1>3, <2>1, <3>2 DEF Queued, InLine
    <3>5. Follows' /\ Restarts'
      BY <2>1 DEF Follows, Restarts, InLine
    <3> QED
      BY <1>2, <2>1, <3>3, <3>4, <3>5, LineAgrees
  <2> QED
    BY <2>2, <2>3
<1>6. CASE Gone
  <2>1. PICK c \in Requests \cup {"NON"} :
          /\ IF c = "NON" THEN UNCHANGED main_mbx ELSE Send(c, "none")
          /\ line' # "AUTO_RECOVERY" \/ line' = line
    <3>1. {"ENABLE", "DISABLE", "RESET"} \subseteq Requests /\ "NON" \notin Requests
      BY DEF Requests
    <3>2. line' # "AUTO_RECOVERY" \/ line' = line
      BY DEF PollsEnable, Polls, Inhibits, Permits, Resets, Resumes, ResumesPolled, Asks, Goes, Ignores
    <3>3. UNCHANGED main_mbx \/ \E c \in {"ENABLE", "DISABLE", "RESET"} : Send(c, "none")
      BY DEF PollsEnable, Polls, Inhibits, Permits, Resets, Resumes, ResumesPolled, Asks, Goes, Ignores
    <3> QED
      BY <3>1, <3>2, <3>3
  <2>2. Restarts'
    BY <1>2, <1>3, <2>1, Requested DEF AInv, Restarts
  <2> QED
    BY <1>2, <1>6, <2>1, <2>2, LineAgrees
<1>7. CASE ~Gone
  <2>1. ASSUME \/ line = "ENABLE" /\ Asks("ENABLE", "ENABLE")
               \/ line \in {"ENABLE", "DISABLE"} /\ \E c \in {"ENABLE", "DISABLE"} : Asks(c, c)
               \/ line = "ACCEPT" /\ Goes("REJECT_WAIT_ACCEPT_RSP")
        PROVE  AInv'
    BY <1>2, <1>3, <1>7, <2>1, OpenAgrees DEF InLine
  <2>2. ASSUME line \in {"ENABLE_WAIT_POLL", "REJECT_WAIT_POLL"},
               Resumes \/ ResumesPolled \/ Asks("DISABLE", "DISABLE")
        PROVE  AInv'
    <3>1. Given /\ ~Has(main_mbx, Commands)
      BY <1>7, <2>2 DEF AInv, Together, InLine
    <3> QED
      BY <1>2, <1>3, <1>7, <2>2, <3>1, ResumesAgree
  <2>3. CASE line = "REJECT" /\ Goes("REJECT_WAIT_NOTE_REMOVED")
    <3>1. line' = "REJECT_WAIT_NOTE_REMOVED" /\ UNCHANGED main_mbx /\ Together /\ Queued
      BY <2>3 DEF Goes, AInv
    <3>2. InLine(Returns) /\ InLine(Returns)' /\ InLine(Returns \cup {"INITIAL"})'
      BY <2>3, <3>1 DEF InLine, Returns
    <3>3. Together'
      <4>1. /\ Has(main_mbx, Rejections) \/ GivingBack
            /\ GivingBack => ~Has(main_mbx, Commands)
            /\ In("REJECT_STANDBY", "WAIT_REJECT_REQ") => Has(main_mbx, Rejections)
        BY <1>3, <1>7, <2>3, <3>1, <3>2 DEF Together
      <4> QED
        BY <1>2, <3>1, <3>2, <4>1, SameMain DEF Together, InLine
    <3>4. Queued'
      BY <1>3, <1>7, <3>1, <3>2 DEF Queued
    <3>5. Follows' /\ Restarts'
      BY <3>1 DEF Follows, Restarts, InLine
    <3> QED
      BY <1>2, <3>1, <3>3, <3>4, <3>5, LineAgrees
  <2>4. CASE PollsEnable
    BY <2>1, <2>4 DEF PollsEnable
  <2>5. CASE Polls
    BY <2>2, <2>3, <2>5 DEF Polls
  <2>6. CASE Inhibits
    <3>1. CASE line = "ENABLE_WAIT_POLL" /\ Asks("DISABLE", "DISABLE")
      BY <2>2, <3>1
    <3> QED
      BY <1>4, <2>1, <2>6, <3>1 DEF Inhibits, InLine
  <2>7. CASE Permits
    BY <1>4, <2>1, <2>7 DEF Permits
  <2>8. CASE Resets
    BY <1>4, <1>5, <2>8 DEF Resets
  <2> QED
    BY <2>4, <2>5, <2>6, <2>7, <2>8
<1> QED
  BY <1>6, <1>7

LEMMA InitAgrees ==
  ASSUME Init
  PROVE  AInv
<1>1. line_mbx = << >> /\ \A S, U : ~Has(line_mbx, S) /\ After(line_mbx, S, U)
  BY Empty DEF Init
<1>2. \/ /\ mode1 = "DISABLE" /\ mode2 = "WAIT_REQ" /\ line = "DISABLE"
         /\ main_mbx = <<Msg("SENSOR", "SUCCESS")>>
      \/ /\ mode1 = "REJECT" /\ mode2 = "SENSOR_ACTIVE" /\ line = "REJECT"
         /\ main_mbx = <<Msg("SENSOR_ACTIVE", "SUCCESS")>>
  BY DEF Init, Disabled, Returning
<1>3. PICK x \in {Msg("SENSOR", "SUCCESS"), Msg("SENSOR_ACTIVE", "SUCCESS")} :
        /\ main_mbx = <<x>>
        /\ mode1 = "REJECT" => x = Msg("SENSOR_ACTIVE", "SUCCESS")
  BY <1>2
<1>4. /\ x \notin Commands \cup Rejections
      /\ x = Msg("SENSOR_ACTIVE", "SUCCESS") => x \in Coded({"SENSOR_ACTIVE"})
  BY DEF Messages, Subs, Msg, Coded, Commands, Rejections
<1> HIDE DEF Msg
<1>5. Len(main_mbx) = 1 /\ main_mbx[1] = x
  BY <1>3
<1>6. /\ \A S : Has(main_mbx, S) <=> x \in S
      /\ \A S, U : After(main_mbx, S, U)
  BY <1>5 DEF Has, After
<1>7. Owed
  BY <1>2, <1>3, <1>4, <1>6 DEF Owed, Moving, Sensing, AfterReject
<1>8. Together
  BY <1>2, <1>4, <1>6 DEF Together, InLine, Returns, Serving, GivingBack, In
<1>9. Queued
  BY <1>1, <1>4, <1>6 DEF Queued
<1>10. Follows /\ Restarts
  BY <1>2 DEF Follows, Restarts, InLine
<1> QED
  BY <1>7, <1>8, <1>9, <1>10 DEF AInv

LEMMA StepAgrees ==
  ASSUME IInv, AInv, [Next]_vars
  PROVE  AInv'
<1>1. CASE main
  BY <1>1, MainAgrees
<1>2. CASE \/ Reaches \/ Fails \/ Adjusts \/ Centers \/ PushesOut \/ GivesBack \/ Hampered
           \/ Stalls \/ Elapses \/ AdjustmentDue
  BY <1>2, DevicesAgree
<1>3. CASE LineReads
  BY <1>3, ReadsAgree
<1>4. CASE PollsEnable \/ Polls \/ Inhibits \/ Permits \/ Resets
  BY <1>4, HostAgrees
<1>5. CASE PaperMoves \/ PaperTaken \/ BoxOut \/ BoxBack
  BY <1>5, HandsAgree
<1>6. CASE UNCHANGED vars
  BY <1>6, SameAgrees DEF vars, mains, Jobs
<1> QED
  BY <1>1, <1>2, <1>3, <1>4, <1>5, <1>6 DEF Next

\* Where all is at rest, what is under way is nothing: only the modes are left.
LEMMA AtRest ==
  ASSUME IInv, AInv, Quiescent
  PROVE  Agree
<1>1. /\ main_mbx = << >> /\ line_mbx = << >> /\ work \subseteq {"TEMP_ADJ"}
      /\ mode1 \notin {"INIT", "ACCEPT"}
      /\ \A S : ~Has(main_mbx, S) /\ ~Has(line_mbx, S)
      /\ ~Enables(main_mbx)
  BY Empty DEF Quiescent, Running
<1>2. mode1 \in DOMAIN Modes2 /\ mode2 \in Modes2[mode1] /\ line \in LineModes
  BY DEF IInv, TypeOK
<1>3. CASE mode1 = "ALARM"
  <2>1. line # "AUTO_RECOVERY"
    BY <1>1, <1>3 DEF AInv, Restarts
  <2>2. Agrees \/ Unheard
    BY <1>1, <1>3, <2>1 DEF Agrees, Unheard, InLine
  <2> QED
    BY <2>2 DEF Agree
<1>4. CASE mode1 # "ALARM"
  <2>1. ~Gone
    BY <1>1, <1>4 DEF Gone
  <2>2. ~Moving /\ mode2 # "FORCE_REV" /\ ~Sensing
    <3>1. \A r \in work : ~Due(r)
      BY <1>1, DueMotors DEF Motors, Moves, Homing
    <3> QED
      BY <1>1, <2>1, <3>1 DEF AInv, Owed
  <2>3. /\ Serving => \/ mode1 \in {"ENABLE", "DISABLE"} /\ mode2 \in Modes2[mode1]
                      \/ mode1 \in Actives /\ mode2 \in {"WAIT_REQ", "WAIT_REJECT_REQ"}
        /\ GivingBack => mode1 = "REJECT_STANDBY" /\ mode2 \in Standbys
    BY <1>2, <2>2
    DEF Serving, GivingBack, Moving, Sensing, Actives, Modes2, ActiveModes, Rejects, AfterReject
  <2>4. CASE line \in {"ENABLE", "DISABLE", "ACCEPT", "REJECT_WAIT_ACCEPT_RSP"}
    <3>1. Serving
      BY <1>1, <2>1, <2>4 DEF AInv, Together, InLine
    <3>2. CASE line = "DISABLE"
      <4>1. Agrees \/ Crossed \/ Stale
        BY <2>3, <3>1, <3>2 DEF Agrees, Crossed, Stale, In, InLine, Modes2, Actives
      <4> QED
        BY <4>1 DEF Agree
    <3>3. CASE line # "DISABLE"
      <4>1. Enabled
        BY <1>1, <2>1, <2>4, <3>3 DEF AInv, Follows, InLine
      <4>2. mode1 \in {"ENABLE", "ACTIVE_ENABLE"}
        BY <2>2, <4>1 DEF Enabled, In, Moving
      <4>3. Agrees \/ Crossed \/ Overtaken
        BY <2>3, <2>4, <3>1, <3>3, <4>2 DEF Agrees, Crossed, Overtaken, In, InLine, Modes2
      <4> QED
        BY <4>3 DEF Agree
    <3> QED
      BY <3>2, <3>3
  <2>5. CASE line \in Returns
    <3>1. GivingBack /\ ~In("REJECT_STANDBY", "WAIT_REJECT_REQ")
      BY <1>1, <2>1, <2>5 DEF AInv, Together, InLine, Returns
    <3>2. Agrees \/ Lapsed
      BY <2>3, <2>5, <3>1 DEF Agrees, Lapsed, In, InLine, Standbys
    <3> QED
      BY <3>2 DEF Agree
  <2>6. CASE line \in {"REJECT_WAIT_POLL", "ENABLE_WAIT_POLL"}
    <3>1. Agrees
      BY <2>1, <2>6 DEF AInv, Together, InLine, Given, Agrees
    <3> QED
      BY <3>1 DEF Agree
  <2>7. CASE line = "ERROR"
    <3>1. Overwritten
      BY <2>1, <2>7 DEF AInv, Together, Refused, Overwritten
    <3> QED
      BY <3>1 DEF Agree
  <2>8. CASE line = "INITIAL"
    <3>1. reset
      BY <1>1, <2>1, <2>8 DEF AInv, Together
    <3>2. Resetting
      BY <3>1 DEF IInv, ResetLast
    <3>3. Forgotten
      BY <2>2, <2>8, <3>1, <3>2 DEF Resetting, Sensing, Forgotten
    <3> QED
      BY <3>3 DEF Agree
  <2>9. line # "AUTO_RECOVERY"
    BY <2>1 DEF AInv, Together
  <2> QED
    BY <1>2, <2>4, <2>5, <2>6, <2>7, <2>8, <2>9 DEF LineModes, Returns
<1> QED
  BY <1>3, <1>4

------------------------------------------------------------------------------
(* Theorems.                                                                   *)

\* In every state, the answer of a motor is under way only while main waits for
\* it, and what the line task asked for still fits the mode of main.
THEOREM Invariance == Safety => []IInv
<1>1. Init => IInv
  BY InitInv
<1>2. IInv /\ [Next]_vars => IInv'
  BY StepInv
<1> QED
  BY <1>1, <1>2, PTL DEF Safety

\* Every mode is one that its level-1 mode has a handler for, and the messages to
\* main never take more blocks than the pool has.
THEOREM TypeCorrect == Safety => []TypeOK
<1>1. IInv => TypeOK
  BY DEF IInv
<1> QED
  BY <1>1, Invariance, PTL

\* Of the motors that main starts, one moves at a time, whatever is reset, lost,
\* tried again or raises an alarm meanwhile.
THEOREM NoTwoMotors == Safety => []OneMoves
<1>1. IInv => OneMoves
  BY DEF IInv, MovesOnce
<1> QED
  BY <1>1, Invariance, PTL

\* Main reads a request to reject only where it waits for one, or has ended.
THEOREM NoStrayReject == Safety => []RejectAwaited
<1>1. IInv => RejectAwaited
  <2> SUFFICES ASSUME IInv, main_mbx # << >>, m.code = "REJECT"
               PROVE  mode2 = "WAIT_REJECT_REQ" \/ mode1 \in {"ALARM", "INIT"}
    BY DEF RejectAwaited
  <2>1. main_mbx \in Seq(Messages) /\ RejectOnce
    BY DEF IInv
  <2>2. m \in Messages /\ (m \in Coded({"REJECT"}) => Has(main_mbx, Coded({"REJECT"})))
    BY <2>1, TailHas DEF m
  <2>3. m \in Coded({"REJECT"})
    BY <2>2 DEF Coded
  <2> QED
    BY <2>1, <2>2, <2>3 DEF RejectOnce, Awaited, Ended
<1> QED
  BY <1>1, Invariance, PTL

\* Main takes a note only while the line task means it to be taken, and none is
\* asked for after the host has inhibited it.
THEOREM LeaveIsGiven == Safety => []TakenWithLeave
<1>1. IInv => TakenWithLeave
  BY DEF IInv, AcceptMeant, Ended, TakenWithLeave, InLine
<1> QED
  BY <1>1, Invariance, PTL

\* Where nothing is under way any more, main has seen the box, every position
\* and the note as they are.
THEOREM NothingIsMissed == Safety => []Ready
<1>1. IInv => Ready
  <2> SUFFICES ASSUME IInv, Quiescent
               PROVE  /\ In("ENABLE", "WAIT_BILL_IN") => Still
                      /\ In("DISABLE", "WAIT_REQ") => StillShut
    BY DEF Ready, Still, StillShut
  <2>1. Len(main_mbx) = 0
    BY DEF Quiescent
  <2>2. ~Has(main_mbx, Coded({"SENSOR"}))
    BY <2>1 DEF Has
  <2> QED
    BY <2>2 DEF IInv, Watched
<1> QED
  BY <1>1, Invariance, PTL

\* A reset that was flagged while a device moved is looked at when the mode is
\* left, but for the closed pusher, the note that stays, and what only adjusts.
THEOREM ResetIsNotPutOff == Safety => ResetGoesFirst
<1>1. IInv /\ [Next]_vars =>
        [reset /\ <<mode1, mode2>>' # <<mode1, mode2>> =>
           \/ mode1' \in {"INIT", "ALARM"}
           \/ mode2' = mode2 \/ mode1' = "ADJUST"
           \/ mode2 = AfterReject \/ mode1 = "REJECT_STANDBY"]_vars
  <2> SUFFICES ASSUME IInv, Next
               PROVE  reset /\ <<mode1, mode2>>' # <<mode1, mode2>> =>
                        \/ mode1' \in {"INIT", "ALARM"}
                        \/ mode2' = mode2 \/ mode1' = "ADJUST"
                        \/ mode2 = AfterReject \/ mode1 = "REJECT_STANDBY"
    OBVIOUS
  <2>1. CASE main
    BY <2>1, MainReads DEF Effect, ResetKept
  <2>2. CASE ~main
    BY <2>2, OthersLeave DEF mains
  <2> QED
    BY <2>1, <2>2
<1> QED
  BY <1>1, Invariance, PTL DEF Safety, ResetGoesFirst

\* What main and the line task know of each other holds as well.
THEOREM MutualInvariance == Safety => [](IInv /\ AInv)
<1>1. Init => IInv /\ AInv
  BY InitInv, InitAgrees
<1>2. (IInv /\ AInv) /\ [Next]_vars => (IInv /\ AInv)'
  BY StepInv, StepAgrees
<1> QED
  BY <1>1, <1>2, PTL DEF Safety

\* Where all is at rest, main and the line task are in modes that fit together:
\* only the seven dead ends that are named can come of messages that cross,
\* however many there are and whatever the devices, the host and the hands do.
THEOREM Agreement == Safety => []Agree
<1>1. IInv /\ AInv => Agree
  BY AtRest DEF Agree
<1> QED
  BY <1>1, MutualInvariance, PTL

\* Outside alarms main never waits for a device in vain: one whose answer ends the
\* wait works, or the answer is in the mailbox, also when a device has stalled, a
\* command has changed the mode, or a retry has begun.
THEOREM AnswersAreOwed == Safety => []Owed
<1>1. IInv /\ AInv => Owed
  BY DEF AInv
<1> QED
  BY <1>1, MutualInvariance, PTL

=============================================================================
