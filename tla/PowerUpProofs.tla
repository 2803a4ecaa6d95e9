--------------------------- MODULE PowerUpProofs ---------------------------
(***************************************************************************)
(* Theorems about PowerUp for every pool size, every limit of the forced   *)
(* stackings and any number of power failures: type correctness, that a    *)
(* reset of the host goes first, that the ICB counts the note once, and    *)
(* that the host is offered only a note that is in the box.                *)
(*                                                                         *)
(* While the step is recorded and nobody put paper in (Live), an alarm, a  *)
(* reject and a reset out of turn have not happened since the last power   *)
(* failure, for each of them clears the step.  Until the note is in the    *)
(* box (Open) main, line task and devices are then on the one way that     *)
(* leads there.                                                            *)
(***************************************************************************)
EXTENDS PowerUp, SequenceTheorems, TLAPS

Codes == Requests \cup {"SENSOR_INIT", "STATUS", "RESET", "SEARCH", "LOST_BILL", "ENABLE",
                        "STACK_REQ", "REJECT_REQ"}

Subs == {"SUCCESS", "ALARM", "REJECT", "INTERIM", "PAUSE", "RESUME", "INFO", "none"}

Messages == [code : Codes, sub : Subs, arg : {"OTHER", "FULL"}]

Bills == {"ACCEPTOR", "STACKER", "ENTRANCE", "NON"}

Results ==
  [code : {"INITIAL", "STATUS", "SEARCH", "RESET"},
   sub : {"SUCCESS", "ALARM", "REMAIN", "INIT_REJECT_REQUEST", "INIT_REJECT_HANGING",
          "INIT_REJECT_REMOVE", "END_INIT_STACK", "PAUSE", "RESUME"},
   arg : Bills \cup {"OTHER", "FULL"}]

Modes == PowerUpModes \cup InitModes \cup {"ALARM", "DONE", "REJECT"}

LineModes == Starting \cup PowerUps \cup Initialising \cup Crediting \cup {"done", "error"}

Lines == [mode : LineModes,
          kind : {"powerup", "reset", "auto"}, stat : {"OTHER", "RECOVER", "SEARCH_NON"},
          gli : BOOLEAN, full : BOOLEAN]

\* The modes in which a reset may be flagged, or left over.
Flagging ==
  {"INIT_CIS", "INIT_POSITION", "INIT_STACKER", "INIT_FEED", "INIT_APB", "INIT_SHUTTER",
   "INIT_CENTERING", "INIT_ICB", "INIT_ICB_BOX", "INIT_FORCE_FEED", "INIT_FORCE_STACK",
   "INIT_REJECT_HOME", "INIT_FEED_REJECT", "INIT_WAIT_RESET", "ALARM"}

Types ==
  /\ icb \in Icb /\ vends \in Vends
  /\ mode \in Modes
  /\ reset \in BOOLEAN /\ pause \in BOOLEAN /\ tries \in 0 .. ForceStacks /\ step \in Steps
  /\ main_mbx \in Seq(Messages) /\ Len(main_mbx) <= MailBlocks
  /\ work \subseteq Requests
  /\ line_mbx \in Seq(Results)
  /\ note \in DOMAIN Left \cup {"mouth", "gone"}
  /\ paper \in BOOLEAN /\ box \in BOOLEAN /\ off \subseteq Positions /\ home \in BOOLEAN
  /\ line \in Lines /\ acked \in BOOLEAN
  /\ counted \in 0 .. 1 /\ disturbed \in BOOLEAN /\ events \in 0 .. MaxEvents

\* The messages in the mailboxes.
Posted  == {main_mbx[i] : i \in DOMAIN main_mbx}
Tidings == {line_mbx[i] : i \in DOMAIN line_mbx}

Coded(c) == \E msg \in Posted : msg.code = c

Succeeded(r) == \E msg \in Posted : msg.code = r /\ msg.sub = "SUCCESS"

\* A message of this code comes once.
Once(c) == \A i, j \in DOMAIN main_mbx : main_mbx[i].code = c /\ main_mbx[j].code = c => i = j

-----------------------------------------------------------------------------
(* The inductive invariant.                                                 *)

\* What holds however the power failed and whoever interferes.
Always ==
  /\ reset => mode \in Flagging
  /\ ~disturbed => ~paper
  /\ acked => step = "NON" /\ line.stat # "RECOVER" /\ ~LineIn(Crediting)
  /\ counted = 1 => step \in {"NON", "ICB_ACCEPT", "VEND"}
  /\ "ICB_ACCEPT" \in work => step \in {"NON", "ICB_ACCEPT", "VEND"} /\ counted = 0
  /\ counted = 1 \/ "ICB_ACCEPT" \in work => boxed \/ disturbed
  /\ LineIn(Starting \cup PowerUps) => line.kind = "powerup"
  /\ LineIn({"perror"}) => line.stat # "RECOVER"
  /\ LineIn({"powerup"} \cup Initialising) /\ line.kind = "powerup" /\ line.stat = "RECOVER" =>
       step # "NON" \/ disturbed
  /\ LineIn(Crediting) => (boxed /\ step # "NON") \/ disturbed

\* The note is recorded, and nothing went wrong.
Live == step # "NON" /\ ~disturbed

Astray == {"DONE", "REJECT", "INIT_FEED_REJECT", "INIT_REJECT_HOME", "INIT_NOTE_STAY", "RESET_GLI"}

LiveInv ==
  /\ note \notin {"mouth", "gone"} /\ "FEED_REJECT" \notin work
  /\ mode \notin Astray
  /\ \A msg \in Posted :
       /\ msg.code \notin {"REJECT_REQ", "ENABLE", "LOST_BILL"}
       /\ ~(msg.code = "FEED_INITIAL" /\ msg.sub = "REJECT")
  /\ line.kind = "powerup" /\ ~LineIn({"perror", "reject", "done", "error"})
  /\ \A msg \in Tidings :
       /\ msg.sub = "REMAIN" /\ msg.arg # "STACKER" => note = "escrow"
       /\ msg.sub # "INIT_REJECT_REQUEST"

\* And the note is not in the box yet.
Open == Live /\ ~boxed

\* The modes of the initialisation up to the stroke.
Before ==
  {"INIT_SENSOR_ACTIVE", "INIT_CIS", "INIT_POSITION", "INIT_SELECT", "INIT_STACKER",
   "INIT_WAIT_REMAIN", "INIT_FORCE_FEED", "INIT_FORCE_STACK"}

Early == LineIn(Starting \cup {"powerup"})

Forces == {"FEED_FORCE", "FEED_PAUSED"}

\* Feed or stacker moves the note to the box, or is about to.
Busy == work \cap (Strokes \cup Forces) # {} \/ Succeeded("FEED_FORCE")

Moving == {"INIT_STACKER", "INIT_FORCE_FEED", "INIT_FORCE_STACK", "ALARM"}

OpenModes ==
  /\ reset = FALSE /\ mode \in (PowerUpModes \cup {"ALARM"} \cup Before)
  /\ ~LineIn(Crediting)
  /\ Once("RESET")
  /\ Early => mode \in PowerUpModes \cup {"ALARM"} /\ ~Coded("RESET")
  /\ mode \in Before => ~Coded("RESET")

OpenStrokes ==
  /\ Busy => /\ mode \in Moving
             /\ ~Coded("RESET") /\ ~Early
  /\ \/ mode \in {"INIT_STACKER", "INIT_FORCE_STACK"} \/ work \cap Strokes # {}
     \/ Succeeded("FEED_FORCE")
     => note = "chamber"
  /\ "STACKER_PULL" \notin work
  /\ \A msg \in Posted :
       /\ msg.sub = "SUCCESS" => msg.code \notin {"STACKER_EXEC", "STACKER_PULL", "STACKER_EXEC_RE"}
       /\ msg.arg # "FULL"
  /\ \A msg \in Tidings :
       /\ ~(msg.code = "RESET" /\ msg.sub = "SUCCESS")
       /\ msg.sub \notin {"END_INIT_STACK", "INIT_REJECT_REMOVE"}
       /\ msg.arg # "FULL"

\* The search is asked for once.
OpenSearch ==
  /\ Once("SEARCH")
  /\ \/ mode \in {"SENSOR_ACTIVE", "STACKER_HOME"} \/ Coded("SEARCH")
     => /\ LineIn({"search"}) /\ "FEED_SEARCH" \notin work /\ ~Coded("FEED_SEARCH")
        /\ \A msg \in Tidings : msg.code # "SEARCH"
  /\ mode \in {"SENSOR_ACTIVE", "STACKER_HOME"} => ~Coded("SEARCH")
  /\ "FEED_SEARCH" \in work =>
       /\ LineIn({"search"}) /\ ~Coded("FEED_SEARCH")
       /\ \A msg \in Tidings : msg.code # "SEARCH"
  /\ LineIn({"boot"}) => ~Coded("FEED_SEARCH") /\ \A msg \in Tidings : msg.code # "SEARCH"

Tells(msg, c) == msg.code = c /\ msg.sub = "SUCCESS" /\ msg.arg # "ACCEPTOR"

\* What main told of the place of the note is still true when it is read.
OpenPlace ==
  note = "escrow" =>
    /\ LineIn({"powerup"} \cup Initialising) => line.stat # "RECOVER"
    /\ LineIn({"boot"}) => \A msg \in Tidings : ~Tells(msg, "INITIAL")
    /\ LineIn({"search"}) => \A msg \in Tidings : ~Tells(msg, "SEARCH")
    /\ \A j \in DOMAIN line_mbx :
         Tells(line_mbx[j], "STATUS") =>
           ~LineIn({"boot", "powerup"}) /\ \A i \in 1 .. j : line_mbx[i].code # "SEARCH"

OpenInv == OpenModes /\ OpenStrokes /\ OpenSearch /\ OpenPlace

IInv == Types /\ Always /\ (Live => LiveInv) /\ (Open => OpenInv)

-----------------------------------------------------------------------------
(* The mailboxes.                                                            *)

LEMMA Read ==
  ASSUME Types, main_mbx # << >>, main_mbx' = Tail(main_mbx)
  PROVE  /\ main_mbx' \in Seq(Messages) /\ Len(main_mbx') <= MailBlocks
         /\ m \in Posted /\ m \in Messages /\ Posted' \subseteq Posted
         /\ \A c \in {"RESET", "SEARCH"} :
              Once(c) => Once(c)' /\ (m.code = c => ~Coded(c)')
<1>1. main_mbx \in Seq(Messages) /\ main_mbx # << >> /\ Len(main_mbx) <= MailBlocks
  BY DEF Types
<1>2. /\ m \in Messages /\ main_mbx' \in Seq(Messages)
      /\ Len(main_mbx') = Len(main_mbx) - 1 /\ Len(main_mbx) \in Nat /\ Len(main_mbx) >= 1
      /\ \A i \in 1 .. Len(main_mbx') : main_mbx'[i] = main_mbx[i + 1]
      /\ m = main_mbx[1]
  BY <1>1, HeadTailProperties, EmptySeq, LenProperties DEF m
<1>3. DOMAIN main_mbx = 1 .. Len(main_mbx) /\ DOMAIN main_mbx' = 1 .. Len(main_mbx')
  BY <1>1, <1>2, LenProperties
<1>4. m \in Posted /\ Posted' \subseteq Posted
  BY <1>2, <1>3 DEF Posted
<1>5. ASSUME NEW c \in {"RESET", "SEARCH"}, Once(c) PROVE Once(c)' /\ (m.code = c => ~Coded(c)')
  BY <1>2, <1>3, <1>5 DEF Once, Coded, Posted
<1>6. MailBlocks \in Nat
  BY LimitAssumption
<1> QED
  BY <1>1, <1>2, <1>4, <1>5, <1>6

LEMMA Sent ==
  ASSUME Types, NEW c \in Codes, NEW t \in Subs, NEW a \in {"OTHER", "FULL"}, Send(c, t, a)
  PROVE  /\ main_mbx' \in Seq(Messages) /\ Len(main_mbx') <= MailBlocks
         /\ Posted' = Posted \cup {Msg(c, t, a)}
         /\ Msg(c, t, a) \in Messages /\ Msg(c, t, a).code = c
         /\ Msg(c, t, a).sub = t /\ Msg(c, t, a).arg = a
         /\ \A k \in {"RESET", "SEARCH"} : Once(k) /\ (c # k \/ ~Coded(k)) => Once(k)'
<1> DEFINE msg == Msg(c, t, a)
<1>1. msg \in Messages /\ msg.code = c /\ msg.sub = t /\ msg.arg = a
  BY DEF Msg, Messages
<1>2. main_mbx \in Seq(Messages) /\ main_mbx' = Append(main_mbx, msg)
  BY DEF Types, Send
<1> HIDE DEF msg
<1>3. /\ main_mbx' \in Seq(Messages) /\ Len(main_mbx') = Len(main_mbx) + 1
      /\ \A i \in 1 .. Len(main_mbx) : main_mbx'[i] = main_mbx[i]
      /\ main_mbx'[Len(main_mbx) + 1] = msg
  BY <1>1, <1>2, AppendProperties
<1>4. Len(main_mbx) \in Nat /\ MailBlocks \in Nat /\ Len(main_mbx) < MailBlocks
  BY <1>2, LenProperties, LimitAssumption DEF Send
<1>5. DOMAIN main_mbx = 1 .. Len(main_mbx) /\ DOMAIN main_mbx' = 1 .. Len(main_mbx')
  BY <1>2, <1>3, LenProperties
<1>6. Posted' = Posted \cup {msg}
  BY <1>3, <1>4, <1>5 DEF Posted
<1>7. ASSUME NEW k \in {"RESET", "SEARCH"}, Once(k), c # k \/ ~Coded(k) PROVE Once(k)'
  BY <1>1, <1>3, <1>4, <1>5, <1>7 DEF Once, Coded, Posted
<1> QED
  BY <1>1, <1>3, <1>4, <1>6, <1>7 DEF msg

LEMMA Telling ==
  ASSUME Types, NEW t \in Results, line_mbx' = Append(line_mbx, t)
  PROVE  /\ line_mbx' \in Seq(Results) /\ Tidings' = Tidings \cup {t}
         /\ DOMAIN line_mbx = 1 .. Len(line_mbx) /\ Len(line_mbx) \in Nat
         /\ DOMAIN line_mbx' = 1 .. (Len(line_mbx) + 1)
         /\ \A i \in 1 .. Len(line_mbx) : line_mbx'[i] = line_mbx[i]
         /\ line_mbx'[Len(line_mbx) + 1] = t
<1>1. line_mbx \in Seq(Results)
  BY DEF Types
<1>2. /\ line_mbx' \in Seq(Results) /\ Len(line_mbx') = Len(line_mbx) + 1
      /\ \A i \in 1 .. Len(line_mbx) : line_mbx'[i] = line_mbx[i]
      /\ line_mbx'[Len(line_mbx) + 1] = t
  BY <1>1, AppendProperties
<1>3. /\ Len(line_mbx) \in Nat
      /\ DOMAIN line_mbx = 1 .. Len(line_mbx) /\ DOMAIN line_mbx' = 1 .. Len(line_mbx')
  BY <1>1, <1>2, LenProperties
<1>4. Tidings' = Tidings \cup {t}
  BY <1>2, <1>3 DEF Tidings
<1> QED
  BY <1>2, <1>3, <1>4

LEMMA Listening ==
  ASSUME Types, line_mbx # << >>, line_mbx' = Tail(line_mbx)
  PROVE  /\ line_mbx' \in Seq(Results)
         /\ told \in Tidings /\ told \in Results /\ Tidings' \subseteq Tidings
         /\ told = line_mbx[1] /\ Len(line_mbx) \in Nat /\ Len(line_mbx) >= 1
         /\ DOMAIN line_mbx = 1 .. Len(line_mbx)
         /\ DOMAIN line_mbx' = 1 .. (Len(line_mbx) - 1)
         /\ \A i \in 1 .. (Len(line_mbx) - 1) : line_mbx'[i] = line_mbx[i + 1]
<1>1. line_mbx \in Seq(Results) /\ line_mbx # << >>
  BY DEF Types
<1>2. /\ told \in Results /\ line_mbx' \in Seq(Results)
      /\ Len(line_mbx') = Len(line_mbx) - 1 /\ Len(line_mbx) \in Nat /\ Len(line_mbx) >= 1
      /\ \A i \in 1 .. Len(line_mbx') : line_mbx'[i] = line_mbx[i + 1]
      /\ told = line_mbx[1]
  BY <1>1, HeadTailProperties, EmptySeq, LenProperties DEF told
<1>3. DOMAIN line_mbx = 1 .. Len(line_mbx) /\ DOMAIN line_mbx' = 1 .. Len(line_mbx')
  BY <1>1, <1>2, LenProperties
<1>4. told \in Tidings /\ Tidings' \subseteq Tidings
  BY <1>2, <1>3 DEF Tidings
<1> QED
  BY <1>2, <1>3, <1>4

-----------------------------------------------------------------------------
(* What a handler of the main task does, whichever it is: m is the message   *)
(* it read, and the devices, the line task and the note stay.                *)

Reading == IInv /\ Running /\ main_mbx # << >>

\* What a handler knows of the message it reads.
Known ==
  /\ m \in Messages
  /\ Live => /\ m.code \notin {"REJECT_REQ", "ENABLE", "LOST_BILL"} /\ mode \notin Astray
             /\ ~(m.code = "FEED_INITIAL" /\ m.sub = "REJECT")
  /\ Open =>
       /\ ~reset /\ mode \in PowerUpModes \cup {"ALARM"} \cup Before
       /\ m.code = "RESET" => mode \notin Before /\ ~Busy
       /\ m.arg # "FULL"
       /\ m.sub = "SUCCESS" => m.code \notin {"STACKER_EXEC", "STACKER_PULL", "STACKER_EXEC_RE"}
       /\ m.code = "FEED_FORCE" /\ m.sub = "SUCCESS" => note = "chamber"
       /\ mode \in {"INIT_STACKER", "INIT_FORCE_STACK"} => note = "chamber"
       /\ Busy => mode \in Moving

LEMMA Knowledge == ASSUME Reading PROVE Known
<1>1. m \in Posted /\ m \in Messages
  <2>1. main_mbx \in Seq(Messages) /\ main_mbx # << >>
    BY DEF Reading, IInv, Types
  <2>2. m \in Messages /\ m = main_mbx[1] /\ 1 \in DOMAIN main_mbx
    BY <2>1, HeadTailProperties, EmptySeq, LenProperties DEF m
  <2> QED
    BY <2>2 DEF Posted
<1>2. ASSUME Live
      PROVE  /\ m.code \notin {"REJECT_REQ", "ENABLE", "LOST_BILL"} /\ mode \notin Astray
             /\ ~(m.code = "FEED_INITIAL" /\ m.sub = "REJECT")
  BY <1>1, <1>2 DEF Reading, IInv, LiveInv
<1>3. ASSUME Open
      PROVE  /\ ~reset /\ mode \in PowerUpModes \cup {"ALARM"} \cup Before
             /\ m.code = "RESET" => mode \notin Before /\ ~Busy
             /\ m.arg # "FULL"
             /\ m.sub = "SUCCESS" => m.code \notin {"STACKER_EXEC", "STACKER_PULL", "STACKER_EXEC_RE"}
             /\ m.code = "FEED_FORCE" /\ m.sub = "SUCCESS" => note = "chamber"
             /\ mode \in {"INIT_STACKER", "INIT_FORCE_STACK"} => note = "chamber"
             /\ Busy => mode \in Moving
  <2>1. OpenModes /\ OpenStrokes
    BY <1>3 DEF Reading, IInv, OpenInv
  <2>2. m.code = "RESET" => Coded("RESET")
    BY <1>1 DEF Coded
  <2>3. m.code = "FEED_FORCE" /\ m.sub = "SUCCESS" => Succeeded("FEED_FORCE")
    BY <1>1 DEF Succeeded
  <2> QED
    BY <1>1, <2>1, <2>2, <2>3 DEF OpenModes, OpenStrokes
<1> QED
  BY <1>1, <1>2, <1>3 DEF Known

\* To the mode next.
Turn(next) ==
  /\ next \in Modes
  /\ Live => next \notin Astray
  /\ Open =>
       /\ next \in PowerUpModes \cup {"ALARM"} \cup Before
       /\ next \in Before => mode \in Before \/ m.code = "RESET"
       /\ Busy => next \in Moving
       /\ next \in {"INIT_STACKER", "INIT_FORCE_STACK"} => note = "chamber"
       /\ next \in {"SENSOR_ACTIVE", "STACKER_HOME"} =>
            mode \in {"SENSOR_ACTIVE", "STACKER_HOME"} \/ m.code = "SEARCH"

\* Request r, on the way to next.
Request(next, r) ==
  /\ r \in Requests /\ r # "ICB_ACCEPT"
  /\ Live => r # "FEED_REJECT"
  /\ Open =>
       /\ r # "STACKER_PULL"
       /\ r \in Forces => next = "INIT_FORCE_FEED"
       /\ r \in Strokes => next \in {"INIT_STACKER", "INIT_FORCE_STACK"}
       /\ r = "FEED_SEARCH" => mode = "STACKER_HOME" /\ next = "SEARCH_BILL"

Unrecorded == step \notin {"NON", "ICB_ACCEPT", "VEND"}

Requesting ==
  \A r \in work' :
    \/ r \in work
    \/ Request(mode', r) /\ (r = "FEED_SEARCH" => line_mbx' = line_mbx)
    \/ r = "ICB_ACCEPT" /\ step' = "ICB_ACCEPT" /\ Unrecorded /\ (boxed \/ disturbed)

\* What the line task may be told.
Report(t) ==
  /\ Live => t.sub \notin {"REMAIN", "INIT_REJECT_REQUEST"}
  /\ Open =>
       /\ ~(t.code = "RESET" /\ t.sub = "SUCCESS")
       /\ t.sub \notin {"END_INIT_STACK", "INIT_REJECT_REMOVE"}
       /\ t.arg # "FULL"
       /\ t.sub = "SUCCESS" => t.arg = bill
       /\ t.code = "SEARCH" =>
            /\ mode \in {"SENSOR_ACTIVE", "STACKER_HOME"} \/ m.code = "FEED_SEARCH"
            /\ mode' \notin {"SENSOR_ACTIVE", "STACKER_HOME"}

Reporting ==
  line_mbx' = line_mbx \/ \E t \in Results : line_mbx' = Append(line_mbx, t) /\ Report(t)

\* A flagged reset goes first.
First ==
  reset /\ mode' # mode =>
    \/ mode' \in {"INIT_SENSOR_ACTIVE", "ALARM", "SENSOR_INIT"}
    \/ <<mode, mode'>> \in
         {<<"INIT_ICB", "INIT_ICB_BOX">>, <<"INIT_FORCE_STACK", "INIT_WAIT_RESET">>}

Resetting ==
  /\ reset' \in BOOLEAN /\ (reset' => mode' \in Flagging) /\ First
  /\ Open => ~reset'

Recording ==
  /\ tries' \in 0 .. ForceStacks
  /\ step' = step \/ (step' = "ICB_ACCEPT" /\ Unrecorded)

Handled == Turn(mode') /\ Requesting /\ Reporting /\ Resetting /\ Recording

-----------------------------------------------------------------------------
(* The ways in which a handler ends.                                         *)

LEMMA Given ==
  ASSUME Reading
  PROVE  /\ Known /\ m.arg \in {"OTHER", "FULL"} /\ m.sub \in Subs /\ m.code \in Codes
         /\ bill \in Bills /\ mode \in Modes /\ reset \in BOOLEAN /\ tries \in 0 .. ForceStacks
         /\ (reset => mode \in Flagging) /\ (Open => ~reset) /\ ForceStacks \in Nat
         /\ Turn(mode)
<1>1. Known
  BY Knowledge
<1>2. m.arg \in {"OTHER", "FULL"} /\ m.sub \in Subs /\ m.code \in Codes
  BY <1>1 DEF Known, Messages
<1>3. bill \in Bills
  BY DEF bill, bill_remain, Bills
<1>4. mode \in Modes /\ reset \in BOOLEAN /\ tries \in 0 .. ForceStacks /\ (reset => mode \in Flagging)
  BY DEF Reading, IInv, Types, Always
<1>5. Turn(mode) /\ (Open => ~reset)
  BY <1>1, <1>4 DEF Turn, Known, Moving
<1> QED
  BY <1>1, <1>2, <1>3, <1>4, <1>5, LimitAssumption

LEMMA ResultType ==
  ASSUME NEW c \in {"INITIAL", "STATUS", "SEARCH", "RESET"},
         NEW t \in {"SUCCESS", "ALARM", "REMAIN", "INIT_REJECT_REQUEST", "INIT_REJECT_HANGING",
                    "INIT_REJECT_REMOVE", "END_INIT_STACK", "PAUSE", "RESUME"},
         NEW a \in Bills \cup {"OTHER", "FULL"}
  PROVE  /\ Msg(c, t, a) \in Results
         /\ Msg(c, t, a).code = c /\ Msg(c, t, a).sub = t /\ Msg(c, t, a).arg = a
BY DEF Msg, Results

LEMMA StayEnds == ASSUME Reading, Stay PROVE Handled
<1>1. UNCHANGED <<mode, reset, tries, step, work, line_mbx>>
  BY DEF Stay
<1>2. Turn(mode') /\ Resetting /\ Recording
  BY <1>1, Given DEF Resetting, Recording, First
<1>3. Requesting /\ Reporting
  BY <1>1 DEF Requesting, Reporting
<1> QED
  BY <1>2, <1>3 DEF Handled

LEMMA DefaultEnds == ASSUME Reading, NEW cases, Default(cases) PROVE Handled
BY StayEnds DEF Default

\* A flagged reset keeps the mode.
Steady(next) == reset => next = mode

LEMMA EnterEnds ==
  ASSUME Reading, NEW next, Turn(next),
         Steady(next) \/ (mode = "INIT_ICB" /\ next = "INIT_ICB_BOX"), Enter(next)
  PROVE  Handled
<1>1. mode' = next /\ UNCHANGED <<reset, tries, step, work, line_mbx>>
  BY DEF Enter
<1>2. Resetting /\ Recording
  BY <1>1, Given DEF Resetting, Recording, First, Steady, Flagging
<1>3. Requesting /\ Reporting
  BY <1>1 DEF Requesting, Reporting
<1> QED
  BY <1>1, <1>2, <1>3 DEF Handled

LEMMA AskEnds ==
  ASSUME Reading, NEW next, NEW r, Turn(next), Request(next, r), Steady(next), Ask(next, r)
  PROVE  Handled
<1>1. /\ mode' = next /\ UNCHANGED <<reset, tries, step, line_mbx>>
      /\ \A q \in work' : q \in work \/ q = r
  BY DEF Ask, Asked
<1>2. Resetting /\ Recording
  BY <1>1, Given DEF Resetting, Recording, First, Steady
<1>3. Requesting /\ Reporting
  BY <1>1 DEF Requesting, Reporting
<1> QED
  BY <1>1, <1>2, <1>3 DEF Handled

LEMMA TellEnds ==
  ASSUME Reading, NEW next, Turn(next),
         Steady(next) \/ (mode = "INIT_FORCE_STACK" /\ next = "INIT_WAIT_RESET"),
         NEW c \in {"INITIAL", "STATUS", "SEARCH", "RESET"},
         NEW t \in {"SUCCESS", "ALARM", "INIT_REJECT_REQUEST", "INIT_REJECT_HANGING",
                    "INIT_REJECT_REMOVE", "END_INIT_STACK", "PAUSE", "RESUME"},
         NEW a \in Bills \cup {"OTHER", "FULL"},
         mode' = next => Report(Msg(c, t, a)), TellIn(next, c, t, a)
  PROVE  Handled
<1>1. /\ mode' = next /\ UNCHANGED <<reset, tries, step, work>>
      /\ line_mbx' = Append(line_mbx, Msg(c, t, a))
  BY DEF TellIn, Tell
<1>2. Resetting /\ Recording
  BY <1>1, Given DEF Resetting, Recording, First, Steady, Flagging
<1>3. Requesting /\ Reporting
  BY <1>1, ResultType DEF Requesting, Reporting
<1> QED
  BY <1>1, <1>2, <1>3 DEF Handled

LEMMA FlagEnds ==
  ASSUME Reading, Flag, m.code = "RESET", mode \in Flagging \ {"ALARM", "INIT_WAIT_RESET"}
  PROVE  Handled
<1>1. reset' = TRUE /\ UNCHANGED <<mode, tries, step, work, line_mbx>>
  BY DEF Flag
<1>2. ~Open
  BY Given DEF Known, Flagging, PowerUpModes
<1>3. Resetting /\ Recording
  BY <1>1, <1>2, Given DEF Resetting, Recording, First
<1>4. Requesting /\ Reporting
  BY <1>1 DEF Requesting, Reporting
<1> QED
  BY <1>1, <1>3, <1>4, Given DEF Handled

LEMMA AlarmTurn == Turn("ALARM")
BY DEF Turn, Modes, Astray, Before, Moving

LEMMA AlarmEnds ==
  ASSUME Reading, NEW conn \in {"INITIAL", "STATUS", "SEARCH", "RESET"},
         NEW code \in {"OTHER", "FULL"}, AlarmSub(conn, code), code = "OTHER" \/ code = m.arg,
         conn = "SEARCH" => mode \in {"SENSOR_ACTIVE", "STACKER_HOME"}
  PROVE  Handled
<1>1. /\ mode' = "ALARM" /\ tries' = 0 /\ UNCHANGED <<reset, step, work>>
      /\ line_mbx' = Append(line_mbx, Msg(conn, "ALARM", code))
  BY DEF AlarmSub, Tell
<1>2. Msg(conn, "ALARM", code) \in Results /\ Report(Msg(conn, "ALARM", code))
  BY <1>1, Given, ResultType DEF Report, Known
<1>3. Resetting /\ Recording
  BY <1>1, Given DEF Resetting, Recording, First, Flagging
<1>4. Requesting /\ Reporting
  BY <1>1, <1>2 DEF Requesting, Reporting
<1> QED
  BY <1>1, <1>3, <1>4, AlarmTurn DEF Handled

LEMMA SetInitEnds ==
  ASSUME Reading, SetInit, Open => m.code = "RESET"
  PROVE  Handled
<1>1. CASE box
  <2>1. /\ mode' = "INIT_SENSOR_ACTIVE" /\ reset' = FALSE /\ UNCHANGED <<step, tries, line_mbx>>
        /\ \A q \in work' : q \in work \/ q = "SENSOR_ACTIVE"
    BY <1>1 DEF SetInit, Asked
  <2>2. Turn("INIT_SENSOR_ACTIVE")
    BY Given DEF Turn, Known, Modes, InitModes, Astray, Before
  <2>3. Request("INIT_SENSOR_ACTIVE", "SENSOR_ACTIVE")
    BY DEF Request, Requests, Tasks, Forces, Strokes
  <2>4. Resetting /\ Recording
    BY <2>1, Given DEF Resetting, Recording, First
  <2>5. Requesting /\ Reporting
    BY <2>1, <2>3 DEF Requesting, Reporting
  <2> QED
    BY <2>1, <2>2, <2>4, <2>5 DEF Handled
<1>2. CASE ~box
  <2>1. /\ mode' = "ALARM" /\ reset' = FALSE /\ tries' = 0 /\ UNCHANGED <<step, work>>
        /\ line_mbx' = Append(line_mbx, Msg("RESET", "ALARM", "OTHER"))
    BY <1>2 DEF SetInit, Tell
  <2>2. Msg("RESET", "ALARM", "OTHER") \in Results /\ Report(Msg("RESET", "ALARM", "OTHER"))
    BY ResultType DEF Report
  <2>3. Resetting
    BY <2>1 DEF Resetting, First
  <2>4. Recording
    BY <2>1, LimitAssumption DEF Recording
  <2>5. Requesting /\ Reporting
    BY <2>1, <2>2 DEF Requesting, Reporting
  <2> QED
    BY <2>1, <2>3, <2>4, <2>5, AlarmTurn DEF Handled
<1> QED
  BY <1>1, <1>2

LEMMA InitOrAlarmEnds == ASSUME Reading, InitOrAlarm(m.arg) PROVE Handled
<1>1. CASE reset /\ SetInit
  BY <1>1, SetInitEnds, Given
<1>2. CASE ~reset /\ AlarmSub("RESET", m.arg)
  BY <1>2, AlarmEnds, Given
<1> QED
  BY <1>1, <1>2 DEF InitOrAlarm, IfReset

\* An alarm of a sensor.
LEMMA StatusEnds ==
  ASSUME Reading, NEW conn \in {"INITIAL", "STATUS", "RESET"}, StatusAlarm(conn)
  PROVE  Handled
BY AlarmEnds, Given DEF StatusAlarm

LEMMA FlagsEnd ==
  ASSUME Reading, NEW cases, Flags(cases), mode \in Flagging \ {"ALARM", "INIT_WAIT_RESET"}
  PROVE  Handled
BY FlagEnds, DefaultEnds DEF Flags

LEMMA ResetEnds == ASSUME Reading, m.code = "RESET", SetInit PROVE Handled
BY SetInitEnds

\* A reset that was flagged goes first.
LEMMA FlaggedEnds == ASSUME Reading, reset, SetInit PROVE Handled
BY SetInitEnds, Given

LEMMA BoxAlarmEnds == ASSUME Reading, AlarmSub("RESET", "OTHER") PROVE Handled
BY AlarmEnds

-----------------------------------------------------------------------------
(* The handlers before the first reset.                                      *)

LEMMA PowerTurns ==
  ASSUME Reading, mode \in PowerUpModes
  PROVE  /\ ~reset
         /\ \A next \in PowerUpModes \ {"SENSOR_ACTIVE", "STACKER_HOME", "RESET_GLI"} : Turn(next)
         /\ m.code = "SEARCH" => Turn("SENSOR_ACTIVE")
         /\ mode = "SENSOR_ACTIVE" => Turn("STACKER_HOME")
         /\ ~Live => Turn("RESET_GLI")
<1>1. /\ "INIT_SENSOR_ACTIVE" \notin PowerUpModes /\ mode \notin Flagging
      /\ PowerUpModes \cap (Before \cup Moving) = {} /\ PowerUpModes \subseteq Modes
      /\ PowerUpModes \cap Astray = {"RESET_GLI"}
      /\ {"SENSOR_ACTIVE", "STACKER_HOME", "RESET_GLI"} \subseteq PowerUpModes
  BY DEF PowerUpModes, Before, Moving, Modes, Astray, Flagging
<1>2. ~reset /\ (Open => ~Busy) /\ (Open => Live)
  BY <1>1, Given DEF Known, Open
<1>3. "INIT_STACKER" \notin PowerUpModes /\ "INIT_FORCE_STACK" \notin PowerUpModes
  BY DEF PowerUpModes
<1> QED
  BY <1>1, <1>2, <1>3 DEF Turn

\* The line task is told where the note is.
LEMMA BillEnds ==
  ASSUME Reading, NEW next, Turn(next), Steady(next),
         NEW c \in {"INITIAL", "STATUS", "SEARCH"},
         c = "SEARCH" => m.code = "FEED_SEARCH" /\ next \notin {"SENSOR_ACTIVE", "STACKER_HOME"},
         TellIn(next, c, "SUCCESS", bill)
  PROVE  Handled
<1>1. bill \in Bills
  BY Given
<1>2. mode' = next => Report(Msg(c, "SUCCESS", bill))
  BY <1>1, ResultType DEF Report, Bills
<1> QED
  BY <1>1, <1>2, TellEnds

\* The line task is told of a missing box.
LEMMA NoBoxEnds ==
  ASSUME Reading, NEW next, Turn(next), Steady(next),
         NEW c \in {"INITIAL", "SEARCH"},
         c = "SEARCH" => /\ mode \in {"SENSOR_ACTIVE", "STACKER_HOME"} \/ m.code = "FEED_SEARCH"
                         /\ next \notin {"SENSOR_ACTIVE", "STACKER_HOME"},
         TellIn(next, c, "ALARM", "OTHER")
  PROVE  Handled
<1>1. mode' = next => Report(Msg(c, "ALARM", "OTHER"))
  BY ResultType DEF Report
<1> QED
  BY <1>1, TellEnds

\* A request that neither moves the note nor searches for it.
Harmless(r) ==
  r \in Requests \ (Strokes \cup Forces \cup {"ICB_ACCEPT", "FEED_REJECT", "FEED_SEARCH"})

LEMMA HarmlessRequest == ASSUME NEW next, NEW r, Harmless(r) PROVE Request(next, r)
BY DEF Harmless, Request, Strokes

LEMMA SensorInitHandled ==
  ASSUME Reading, mode = "SENSOR_INIT", powerup_sensor_init PROVE Handled
<1>1. ~reset /\ Turn("WAIT_REQ") /\ Turn("ALARM_BOX")
  BY PowerTurns DEF PowerUpModes
<1>2. CASE TellIn("WAIT_REQ", "INITIAL", "SUCCESS", bill)
  BY <1>1, <1>2, BillEnds DEF Steady
<1>3. CASE TellIn("ALARM_BOX", "INITIAL", "ALARM", "OTHER")
  BY <1>1, <1>3, NoBoxEnds DEF Steady
<1> QED
  BY <1>2, <1>3, StatusEnds, DefaultEnds DEF powerup_sensor_init

LEMMA BoxGoneEnds ==
  ASSUME Reading, mode \in PowerUpModes, BoxGone PROVE Handled
<1>1. ~reset /\ Turn("ALARM_BOX")
  BY PowerTurns DEF PowerUpModes
<1>2. /\ mode' = "ALARM_BOX" /\ UNCHANGED <<reset, tries, step>>
      /\ line_mbx' = Append(line_mbx, Msg("STATUS", "ALARM", "OTHER"))
      /\ \A q \in work' : q \in work \/ q = "SENSOR"
  BY DEF BoxGone, Asked, Tell
<1>3. Request("ALARM_BOX", "SENSOR")
  BY HarmlessRequest DEF Harmless, Requests, Tasks, Strokes, Forces
<1>4. Msg("STATUS", "ALARM", "OTHER") \in Results /\ Report(Msg("STATUS", "ALARM", "OTHER"))
  BY ResultType DEF Report
<1>5. Resetting /\ Recording
  BY <1>1, <1>2, Given DEF Resetting, Recording, First
<1>6. Requesting /\ Reporting
  BY <1>2, <1>3, <1>4 DEF Requesting, Reporting
<1> QED
  BY <1>1, <1>2, <1>5, <1>6 DEF Handled

LEMMA WaitReqHandled ==
  ASSUME Reading, mode = "WAIT_REQ", powerup_wait_req PROVE Handled
<1>1. /\ ~reset /\ mode \in PowerUpModes /\ Turn("WAIT_REQ")
      /\ (m.code = "SEARCH" => Turn("SENSOR_ACTIVE"))
      /\ (~Live => Turn("RESET_GLI"))
  BY PowerTurns DEF PowerUpModes
<1>2. CASE m.code = "RESET" /\ SetInit
  BY <1>2, ResetEnds
<1>3. CASE m.code = "SEARCH" /\ Ask("SENSOR_ACTIVE", "SENSOR_ACTIVE")
  <2>1. Request("SENSOR_ACTIVE", "SENSOR_ACTIVE")
    BY HarmlessRequest DEF Harmless, Requests, Tasks, Strokes, Forces
  <2> QED
    BY <1>1, <1>3, <2>1, AskEnds DEF Steady
<1>4. CASE m.code = "LOST_BILL" /\ Enter("RESET_GLI")
  <2>1. Turn("RESET_GLI")
    BY <1>1, <1>4, Given DEF Known
  <2> QED
    BY <1>1, <1>4, <2>1, EnterEnds DEF Steady
<1>5. CASE TellIn(mode, "STATUS", "SUCCESS", bill)
  BY <1>1, <1>5, BillEnds DEF Steady
<1>6. CASE BoxGone
  BY <1>1, <1>6, BoxGoneEnds
<1> QED
  BY <1>2, <1>3, <1>4, <1>5, <1>6, StatusEnds, DefaultEnds DEF powerup_wait_req

LEMMA SensorActiveHandled ==
  ASSUME Reading, mode = "SENSOR_ACTIVE", powerup_sensor_active PROVE Handled
<1>1. ~reset /\ Turn("STACKER_HOME")
  BY PowerTurns DEF PowerUpModes
<1>2. CASE Ask("STACKER_HOME", "STACKER_HOME")
  <2>1. Request("STACKER_HOME", "STACKER_HOME")
    BY HarmlessRequest DEF Harmless, Requests, Tasks, Strokes, Forces
  <2> QED
    BY <1>1, <1>2, <2>1, AskEnds DEF Steady
<1>3. CASE AlarmSub("SEARCH", "OTHER")
  BY <1>3, AlarmEnds
<1> QED
  BY <1>2, <1>3, StatusEnds, DefaultEnds DEF powerup_sensor_active

LEMMA StackerHomeHandled ==
  ASSUME Reading, mode = "STACKER_HOME", powerup_stacker_home PROVE Handled
<1>1. ~reset /\ Turn("SEARCH_BILL") /\ Turn("ALARM_BOX")
  BY PowerTurns DEF PowerUpModes
<1>2. CASE Ask("SEARCH_BILL", "FEED_SEARCH")
  <2>1. Request("SEARCH_BILL", "FEED_SEARCH")
    BY DEF Request, Requests, Tasks, Strokes, Forces
  <2> QED
    BY <1>1, <1>2, <2>1, AskEnds DEF Steady
<1>3. CASE TellIn("ALARM_BOX", "SEARCH", "ALARM", "OTHER")
  BY <1>1, <1>3, NoBoxEnds DEF Steady
<1>4. CASE AlarmSub("SEARCH", m.arg)
  BY <1>4, AlarmEnds, Given
<1> QED
  BY <1>2, <1>3, <1>4, StatusEnds, DefaultEnds DEF powerup_stacker_home

LEMMA SearchBillHandled ==
  ASSUME Reading, mode = "SEARCH_BILL", powerup_search_bill PROVE Handled
<1>1. ~reset /\ Turn("WAIT_REQ") /\ Turn("ALARM_BOX")
  BY PowerTurns DEF PowerUpModes
<1>2. CASE m.code = "FEED_SEARCH" /\ TellIn("WAIT_REQ", "SEARCH", "SUCCESS", bill)
  BY <1>1, <1>2, BillEnds DEF Steady
<1>3. CASE m.code = "FEED_SEARCH" /\ TellIn("ALARM_BOX", "SEARCH", "ALARM", "OTHER")
  BY <1>1, <1>3, NoBoxEnds DEF Steady
<1> QED
  BY <1>2, <1>3, StatusEnds, DefaultEnds DEF powerup_search_bill

LEMMA AlarmBoxHandled ==
  ASSUME Reading, mode = "ALARM_BOX", powerup_alarm_box PROVE Handled
<1>1. ~reset /\ Turn("CONFIRM_BOX")
  BY PowerTurns DEF PowerUpModes
<1>2. CASE Ask("CONFIRM_BOX", "TIMER")
  <2>1. Request("CONFIRM_BOX", "TIMER")
    BY HarmlessRequest DEF Harmless, Requests, Tasks, Strokes, Forces
  <2> QED
    BY <1>1, <1>2, <2>1, AskEnds DEF Steady
<1> QED
  BY <1>2, ResetEnds, StayEnds, StatusEnds, DefaultEnds DEF powerup_alarm_box

LEMMA ConfirmBoxHandled ==
  ASSUME Reading, mode = "CONFIRM_BOX", powerup_alarm_confirm_box PROVE Handled
<1>1. ~reset /\ Turn("ALARM_BOX") /\ Turn("WAIT_REQ")
  BY PowerTurns DEF PowerUpModes
<1>2. CASE mode' = "ALARM_BOX" /\ work' = work \ {"TIMER"} /\ UNCHANGED <<reset, tries, step, line_mbx>>
  <2>1. Resetting /\ Recording
    BY <1>1, <1>2, Given DEF Resetting, Recording, First
  <2>2. Requesting /\ Reporting
    BY <1>2 DEF Requesting, Reporting
  <2> QED
    BY <1>1, <1>2, <2>1, <2>2 DEF Handled
<1>3. CASE TellIn("WAIT_REQ", "STATUS", "SUCCESS", bill)
  BY <1>1, <1>3, BillEnds DEF Steady
<1>4. CASE Enter("ALARM_BOX")
  BY <1>1, <1>4, EnterEnds DEF Steady
<1> QED
  BY <1>2, <1>3, <1>4, ResetEnds, StayEnds, StatusEnds, DefaultEnds DEF powerup_alarm_confirm_box

LEMMA ResetGliHandled ==
  ASSUME Reading, mode = "RESET_GLI", powerup_alarm_receive_reset_gli PROVE Handled
<1>1. mode \in PowerUpModes
  BY DEF PowerUpModes
<1> QED
  BY <1>1, BoxGoneEnds, ResetEnds, StayEnds, StatusEnds, DefaultEnds
  DEF powerup_alarm_receive_reset_gli

-----------------------------------------------------------------------------
(* The handlers of the initialisation.                                       *)

LEMMA BeforeTurn ==
  ASSUME Reading, mode \in Before, NEW next \in Before, Open /\ Busy => next \in Moving,
         Open /\ next \in {"INIT_STACKER", "INIT_FORCE_STACK"} => note = "chamber"
  PROVE  Turn(next)
<1>1. /\ next \in Modes /\ next \notin Astray
      /\ next \notin {"SENSOR_ACTIVE", "STACKER_HOME"}
  BY DEF Before, Modes, InitModes, Astray
<1> QED
  BY <1>1 DEF Turn

\* Once the note is in the box, or an alarm came, little has to be shown.
LEMMA FarTurn ==
  ASSUME ~Open, NEW next \in Modes, Live => next \notin Astray PROVE Turn(next)
BY DEF Turn

LEMMA FarRequest ==
  ASSUME ~Open, NEW next, NEW r \in Requests \ {"ICB_ACCEPT"}, Live => r # "FEED_REJECT"
  PROVE  Request(next, r)
BY DEF Request

LEMMA FarReport ==
  ASSUME ~Open, NEW t, Live => t.sub \notin {"REMAIN", "INIT_REJECT_REQUEST"} PROVE Report(t)
BY DEF Report

LEMMA InitSensorActiveHandled ==
  ASSUME Reading, mode = "INIT_SENSOR_ACTIVE", init_sensor_active PROVE Handled
<1>1. /\ mode \in Before /\ "INIT_CIS" \in Before /\ mode \notin Moving /\ mode \notin Flagging
  BY DEF Before, Moving, Flagging
<1>2. Turn("INIT_CIS") /\ ~reset
  BY <1>1, BeforeTurn, Given DEF Known
<1>3. CASE Ask("INIT_CIS", "CIS")
  <2>1. Request("INIT_CIS", "CIS")
    BY HarmlessRequest DEF Harmless, Requests, Tasks, Strokes, Forces
  <2> QED
    BY <1>2, <1>3, <2>1, AskEnds DEF Steady
<1> QED
  BY <1>3, ResetEnds, StatusEnds, DefaultEnds DEF init_sensor_active

LEMMA PositionEnds ==
  ASSUME Reading, mode \in {"INIT_CIS", "INIT_POSITION"}, ~reset, initial_position_uba
  PROVE  Handled
<1>1. /\ mode \in Before /\ mode \notin Moving
      /\ "INIT_POSITION" \in Before /\ "INIT_SELECT" \in Before
  BY DEF Before, Moving
<1>2. Turn("INIT_POSITION") /\ Turn("INIT_SELECT")
  BY <1>1, BeforeTurn, Given DEF Known
<1>3. ASSUME NEW r \in Positions \cup {"STACKER_HOME"}, Ask("INIT_POSITION", r) PROVE Handled
  <2>1. Request("INIT_POSITION", r)
    BY HarmlessRequest DEF Harmless, Requests, Tasks, Strokes, Forces, Positions
  <2> QED
    BY <1>2, <1>3, <2>1, AskEnds DEF Steady
<1>4. CASE Enter("INIT_SELECT")
  BY <1>2, <1>4, EnterEnds DEF Steady
<1> QED
  BY <1>3, <1>4 DEF initial_position_uba

LEMMA InitCisHandled ==
  ASSUME Reading, mode = "INIT_CIS", init_cis_init PROVE Handled
<1>1. mode \in Flagging \ {"ALARM", "INIT_WAIT_RESET"}
  BY DEF Flagging
<1>2. CASE IfReset(IfBox(initial_position_uba))
  BY <1>2, FlaggedEnds, BoxAlarmEnds, PositionEnds DEF IfReset, IfBox
<1> QED
  BY <1>1, <1>2, InitOrAlarmEnds, StatusEnds, FlagsEnd DEF init_cis_init

LEMMA InitPositionHandled ==
  ASSUME Reading, mode = "INIT_POSITION", init_initial_position PROVE Handled
<1>1. mode \in Flagging \ {"ALARM", "INIT_WAIT_RESET"}
  BY DEF Flagging
<1>2. CASE IfReset(IfBox(initial_position_uba)) \/ IfReset(initial_position_uba)
  BY <1>2, FlaggedEnds, BoxAlarmEnds, PositionEnds DEF IfReset, IfBox
<1> QED
  BY <1>1, <1>2, InitOrAlarmEnds, FlagsEnd DEF init_initial_position

\* A device is asked when no reset is flagged and the box is there.
LEMMA GoOnEnds ==
  ASSUME Reading, NEW next, NEW r, Turn(next), Request(next, r),
         IfReset(IfBox(Ask(next, r))) \/ IfReset(Ask(next, r))
  PROVE  Handled
<1>1. CASE reset /\ SetInit
  BY <1>1, FlaggedEnds
<1>2. CASE AlarmSub("RESET", "OTHER")
  BY <1>2, BoxAlarmEnds
<1>3. CASE ~reset /\ Ask(next, r)
  BY <1>3, AskEnds DEF Steady
<1> QED
  BY <1>1, <1>2, <1>3 DEF IfReset, IfBox

LEMMA InitStackerHandled ==
  ASSUME Reading, mode = "INIT_STACKER", init_stacker PROVE Handled
<1>1. mode \in Flagging \ {"ALARM", "INIT_WAIT_RESET"} /\ "INIT_FEED" \in Modes \ Astray
  BY DEF Flagging, Modes, InitModes, Astray
<1>2. Turn(mode)
  BY Given
<1>3. CASE is("STACKER_EXEC", "SUCCESS") /\ IfReset(IfBox(Ask(mode, "STACKER_PULL")))
  <2>1. ~Open
    BY <1>3, Given DEF Known, is
  <2>2. Request(mode, "STACKER_PULL")
    BY <2>1, FarRequest DEF Requests, Tasks
  <2> QED
    BY <1>2, <1>3, <2>2, GoOnEnds
<1>4. CASE IfReset(IfBox(Ask(mode, "STACKER_NG_PULL"))) \/ IfReset(IfBox(Ask(mode, "STACKER_EXEC_RE")))
  <2>1. Request(mode, "STACKER_NG_PULL") /\ Request(mode, "STACKER_EXEC_RE")
    BY DEF Request, Requests, Tasks, Forces
  <2> QED
    BY <1>2, <1>4, <2>1, GoOnEnds
<1>5. CASE /\ m.code \in {"STACKER_PULL", "STACKER_EXEC_RE"} /\ m.sub = "SUCCESS"
           /\ IfReset(IfBox(Ask("INIT_FEED", "FEED_INITIAL")))
  <2>1. ~Open
    BY <1>5, Given DEF Known
  <2>2. Turn("INIT_FEED") /\ Request("INIT_FEED", "FEED_INITIAL")
    BY <1>1, <2>1, FarTurn, FarRequest DEF Requests, Tasks
  <2> QED
    BY <1>5, <2>2, GoOnEnds
<1> QED
  BY <1>1, <1>3, <1>4, <1>5, InitOrAlarmEnds, FlagsEnd DEF init_stacker

\* The modes after the stroke: the note is in the box.
After == {"INIT_FEED", "INIT_APB", "INIT_SHUTTER", "INIT_CENTERING", "INIT_ICB", "INIT_ICB_BOX",
          "INIT_WAIT_REQ"}

LEMMA Afterwards ==
  ASSUME Reading, mode \in After
  PROVE  /\ ~Open /\ \A next \in After : Turn(next)
         /\ mode # "INIT_WAIT_REQ" => mode \in Flagging \ {"ALARM", "INIT_WAIT_RESET"}
<1>1. /\ After \cap (PowerUpModes \cup {"ALARM"} \cup Before) = {} /\ After \subseteq Modes
      /\ After \cap Astray = {}
      /\ After \ {"INIT_WAIT_REQ"} \subseteq Flagging \ {"ALARM", "INIT_WAIT_RESET"}
  BY DEF After, PowerUpModes, Before, Modes, InitModes, Astray, Flagging
<1>2. ~Open
  BY <1>1, Given DEF Known
<1> QED
  BY <1>1, <1>2, FarTurn

LEMMA InitFeedHandled ==
  ASSUME Reading, mode = "INIT_FEED", init_feed PROVE Handled
<1>1. /\ ~Open /\ Turn("INIT_APB") /\ mode \in Flagging \ {"ALARM", "INIT_WAIT_RESET"}
  BY Afterwards DEF After
<1>2. CASE is("FEED_INITIAL", "SUCCESS") /\ IfReset(Ask("INIT_APB", "APB_INITIAL"))
  <2>1. Request("INIT_APB", "APB_INITIAL")
    BY <1>1, FarRequest DEF Requests, Tasks
  <2> QED
    BY <1>1, <1>2, <2>1, GoOnEnds
<1>3. CASE is("FEED_INITIAL", "REJECT")
           /\ IfReset(TellIn("INIT_WAIT_REMAIN", "RESET", "INIT_REJECT_REQUEST", "OTHER"))
  <2>1. ~Live
    BY <1>3, Given DEF Known, is
  <2>2. Turn("INIT_WAIT_REMAIN")
    BY <1>1, FarTurn DEF Modes, InitModes, Astray
  <2>3. Report(Msg("RESET", "INIT_REJECT_REQUEST", "OTHER"))
    BY <1>1, <2>1, FarReport
  <2> QED
    BY <1>3, <2>2, <2>3, FlaggedEnds, TellEnds DEF IfReset, Steady
<1> QED
  BY <1>1, <1>2, <1>3, InitOrAlarmEnds, StatusEnds, FlagsEnd DEF init_feed

LEMMA InitApbHandled ==
  ASSUME Reading, mode = "INIT_APB", init_apb PROVE Handled
<1>1. /\ ~Open /\ Turn(mode) /\ Turn("INIT_SHUTTER")
      /\ mode \in Flagging \ {"ALARM", "INIT_WAIT_RESET"}
  BY Afterwards DEF After
<1>2. Request(mode, "APB_CLOSE") /\ Request("INIT_SHUTTER", "SHUTTER_INITIAL")
  BY <1>1, FarRequest DEF Requests, Tasks
<1>3. CASE IfReset(Ask(mode, "APB_CLOSE"))
  BY <1>1, <1>2, <1>3, GoOnEnds
<1>4. CASE IfReset(Ask("INIT_SHUTTER", "SHUTTER_INITIAL"))
  BY <1>1, <1>2, <1>4, GoOnEnds
<1> QED
  BY <1>1, <1>3, <1>4, InitOrAlarmEnds, FlagsEnd DEF init_apb

LEMMA InitShutterHandled ==
  ASSUME Reading, mode = "INIT_SHUTTER", init_shutter PROVE Handled
<1>1. /\ ~Open /\ Turn("INIT_CENTERING") /\ mode \in Flagging \ {"ALARM", "INIT_WAIT_RESET"}
  BY Afterwards DEF After
<1>2. Request("INIT_CENTERING", "CENTERING_EXEC")
  BY <1>1, FarRequest DEF Requests, Tasks
<1>3. CASE IfReset(Ask("INIT_CENTERING", "CENTERING_EXEC"))
  BY <1>1, <1>2, <1>3, GoOnEnds
<1> QED
  BY <1>1, <1>3, InitOrAlarmEnds, FlagsEnd DEF init_shutter, Awaits

LEMMA InitCenteringHandled ==
  ASSUME Reading, mode = "INIT_CENTERING", init_centering PROVE Handled
<1>1. /\ ~Open /\ Turn("INIT_ICB") /\ mode \in Flagging \ {"ALARM", "INIT_WAIT_RESET"}
  BY Afterwards DEF After
<1>2. Request("INIT_ICB", "ICB_INITIAL")
  BY <1>1, FarRequest DEF Requests, Tasks
<1>3. CASE IfReset(IfBox(Ask("INIT_ICB", "ICB_INITIAL")))
  BY <1>1, <1>2, <1>3, GoOnEnds
<1> QED
  BY <1>1, <1>3, InitOrAlarmEnds, FlagsEnd DEF init_centering, Awaits

LEMMA InitDoneEnds ==
  ASSUME Reading, mode \in After, ~reset, InitDone PROVE Handled
<1>1. ~Open /\ Turn("INIT_WAIT_REQ")
  BY Afterwards DEF After
<1>2. Report(Msg("RESET", "SUCCESS", "NON"))
  BY <1>1, ResultType, FarReport DEF Bills
<1> QED
  BY <1>1, <1>2, TellEnds DEF InitDone, Steady, Bills

\* The recovered note is counted when it is in the box and not counted yet.
LEMMA IcbAcceptEnds ==
  ASSUME Reading, mode = "INIT_ICB", ~reset, IcbAccept PROVE Handled
<1>1. ~Open /\ Turn(mode) /\ mode \in After
  BY Afterwards DEF After
<1>2. CASE ~icb_recovery
  BY <1>1, <1>2, InitDoneEnds DEF IcbAccept
<1>3. CASE icb_recovery
  <2>1. /\ step' = "ICB_ACCEPT" /\ UNCHANGED <<mode, reset, tries, line_mbx>>
        /\ \A q \in work' : q \in work \/ q = "ICB_ACCEPT"
    BY <1>3 DEF IcbAccept, Asked
  <2>2. Unrecorded /\ (boxed \/ disturbed)
    BY <1>1, <1>3 DEF icb_recovery, Unrecorded, Open, Live
  <2>3. Resetting /\ Recording
    BY <2>1, <2>2, Given DEF Resetting, Recording, First
  <2>4. Requesting /\ Reporting
    BY <2>1, <2>2 DEF Requesting, Reporting
  <2> QED
    BY <1>1, <2>1, <2>3, <2>4 DEF Handled
<1> QED
  BY <1>2, <1>3

LEMMA InitIcbHandled ==
  ASSUME Reading, mode \in {"INIT_ICB", "INIT_ICB_BOX"}, init_icb PROVE Handled
<1>1. /\ mode \in After /\ Turn("INIT_ICB_BOX") /\ mode \in Flagging \ {"ALARM", "INIT_WAIT_RESET"}
  BY Afterwards DEF After
<1>2. CASE IfNoAlarm(IcbAccept)
  BY <1>1, <1>2, FlaggedEnds, BoxAlarmEnds, IcbAcceptEnds DEF IfNoAlarm, IfReset, IfBox
<1>3. CASE IfNoAlarm(InitDone)
  BY <1>1, <1>3, FlaggedEnds, BoxAlarmEnds, InitDoneEnds DEF IfNoAlarm, IfReset, IfBox
<1>4. CASE IfReset((~icb /\ InitDone) \/ AlarmSub("RESET", m.arg))
  <2>1. ASSUME AlarmSub("RESET", m.arg) PROVE Handled
    BY <2>1, AlarmEnds, Given
  <2> QED
    BY <1>1, <1>4, <2>1, FlaggedEnds, InitDoneEnds DEF IfReset
<1>5. CASE Enter("INIT_ICB_BOX")
  BY <1>1, <1>5, EnterEnds DEF Steady
<1> QED
  BY <1>1, <1>2, <1>3, <1>4, <1>5, InitOrAlarmEnds, StayEnds, FlagsEnd DEF init_icb

-----------------------------------------------------------------------------
(* The modes that wait for the line task, and what it asks in them.          *)

LEMMA InitWaitReqHandled ==
  ASSUME Reading, mode = "INIT_WAIT_REQ", init_wait_req PROVE Handled
<1>1. CASE /\ m.code = "ENABLE" /\ mode' = "DONE" /\ tries' = 0
           /\ UNCHANGED <<reset, step, work, line_mbx>>
  <2>1. ~Live /\ ~reset
    BY <1>1, Given DEF Known, Flagging
  <2>2. Turn("DONE")
    BY <2>1, FarTurn DEF Open, Modes
  <2>3. Resetting
    BY <1>1, <2>1, Given DEF Resetting, First
  <2>4. Recording
    BY <1>1, LimitAssumption DEF Recording
  <2>5. Requesting /\ Reporting
    BY <1>1 DEF Requesting, Reporting
  <2> QED
    BY <1>1, <2>2, <2>3, <2>4, <2>5 DEF Handled
<1> QED
  BY <1>1, ResetEnds, StatusEnds, DefaultEnds DEF init_wait_req

\* The note is looked for at the entrance.
LEMMA HangingEnds ==
  ASSUME Reading, ~Live, ~reset, Hanging PROVE Handled
<1>1. /\ mode' = "INIT_NOTE_STAY" /\ UNCHANGED <<reset, tries, step>>
      /\ line_mbx' = Append(line_mbx, Msg("RESET", "INIT_REJECT_HANGING", "OTHER"))
      /\ \A q \in work' : q \in work \/ q = "SENSOR"
  BY DEF Hanging, Asked, Tell
<1>2. Turn("INIT_NOTE_STAY") /\ Request("INIT_NOTE_STAY", "SENSOR")
  BY FarTurn, FarRequest DEF Open, Modes, InitModes, Requests, Tasks
<1>3. /\ Msg("RESET", "INIT_REJECT_HANGING", "OTHER") \in Results
      /\ Report(Msg("RESET", "INIT_REJECT_HANGING", "OTHER"))
  BY ResultType DEF Report, Open
<1>4. Resetting /\ Recording
  BY <1>1, Given DEF Resetting, Recording, First
<1>5. Requesting /\ Reporting
  BY <1>1, <1>2, <1>3 DEF Requesting, Reporting
<1> QED
  BY <1>1, <1>2, <1>4, <1>5 DEF Handled

LEMMA RejectEnds ==
  ASSUME Reading, ~Live, ~reset, Reject PROVE Handled
<1>1. /\ Turn("INIT_REJECT_HOME") /\ Turn("INIT_FEED_REJECT")
      /\ Request("INIT_REJECT_HOME", "APB_HOME") /\ Request("INIT_FEED_REJECT", "FEED_REJECT")
  BY FarTurn, FarRequest DEF Open, Modes, InitModes, Requests, Tasks
<1>2. CASE Ask("INIT_REJECT_HOME", "APB_HOME")
  BY <1>1, <1>2, AskEnds DEF Steady
<1>3. CASE Ask("INIT_FEED_REJECT", "FEED_REJECT")
  BY <1>1, <1>3, AskEnds DEF Steady
<1> QED
  BY <1>2, <1>3, HangingEnds DEF Reject

LEMMA ForceFeedEnds ==
  ASSUME Reading, mode = "INIT_WAIT_REMAIN", ForceFeed PROVE Handled
<1>1. mode \in Before /\ "INIT_FORCE_FEED" \in Before \cap Moving /\ mode \notin Flagging
  BY DEF Before, Moving, Flagging
<1>2. Turn("INIT_FORCE_FEED") /\ ~reset
  BY <1>1, BeforeTurn, Given
<1>3. CASE tries # ForceStacks
  <2>1. /\ mode' = "INIT_FORCE_FEED" /\ tries' = tries + 1 /\ UNCHANGED <<reset, step, line_mbx>>
        /\ \A q \in work' : q \in work \/ q = "FEED_FORCE"
    BY <1>3 DEF ForceFeed, Asked
  <2>2. Request("INIT_FORCE_FEED", "FEED_FORCE")
    BY DEF Request, Requests, Tasks, Strokes
  <2>3. Resetting
    BY <1>2, <2>1, Given DEF Resetting, First
  <2>4. Recording
    BY <1>3, <2>1, Given DEF Recording
  <2>5. Requesting /\ Reporting
    BY <2>1, <2>2 DEF Requesting, Reporting
  <2> QED
    BY <1>2, <2>1, <2>3, <2>4, <2>5 DEF Handled
<1> QED
  BY <1>3, BoxAlarmEnds DEF ForceFeed

LEMMA InitWaitRemainHandled ==
  ASSUME Reading, mode = "INIT_WAIT_REMAIN", init_wait_remain_req PROVE Handled
<1>1. ~reset
  BY Given DEF Flagging
<1>2. CASE m.code = "STACK_REQ" /\ IfBox(ForceFeed)
  BY <1>2, BoxAlarmEnds, ForceFeedEnds DEF IfBox
<1>3. CASE m.code = "REJECT_REQ" /\ IfBox(Reject)
  <2>1. ~Live
    BY <1>3, Given DEF Known
  <2> QED
    BY <1>1, <1>3, <2>1, BoxAlarmEnds, RejectEnds DEF IfBox
<1> QED
  BY <1>2, <1>3, ResetEnds, StatusEnds, DefaultEnds DEF init_wait_remain_req

LEMMA InitForceFeedHandled ==
  ASSUME Reading, mode = "INIT_FORCE_FEED", init_force_feed_stack PROVE Handled
<1>1. /\ mode \in Before \cap (Flagging \ {"ALARM", "INIT_WAIT_RESET"})
      /\ "INIT_FORCE_STACK" \in Before \cap Moving
  BY DEF Before, Moving, Flagging
<1>2. Turn(mode)
  BY Given
<1>3. CASE is("FEED_FORCE", "SUCCESS") /\ IfReset(Ask("INIT_FORCE_STACK", "STACKER_EXEC"))
  <2>1. Turn("INIT_FORCE_STACK")
    BY <1>1, <1>3, BeforeTurn, Given DEF Known, is
  <2>2. Request("INIT_FORCE_STACK", "STACKER_EXEC")
    BY DEF Request, Requests, Tasks, Forces
  <2> QED
    BY <1>3, <2>1, <2>2, GoOnEnds
<1>4. CASE m.sub \in {"PAUSE", "RESUME"} /\ IfReset(TellIn(mode, "RESET", m.sub, "OTHER"))
  <2>1. Report(Msg("RESET", m.sub, "OTHER"))
    BY <1>4, ResultType DEF Report
  <2> QED
    BY <1>2, <1>4, <2>1, FlaggedEnds, TellEnds DEF IfReset, Steady
<1>5. CASE m.code = "RESET" /\ IF pause THEN SetInit ELSE Flag
  BY <1>1, <1>5, ResetEnds, FlagEnds
<1> QED
  BY <1>3, <1>4, <1>5, InitOrAlarmEnds, DefaultEnds DEF init_force_feed_stack

LEMMA EndInitStackEnds ==
  ASSUME Reading, mode = "INIT_FORCE_STACK", ~Open, EndInitStack PROVE Handled
<1>1. Turn("INIT_WAIT_RESET")
  BY FarTurn DEF Modes, InitModes, Astray
<1>2. Report(Msg("RESET", "END_INIT_STACK", "OTHER"))
  BY ResultType, FarReport
<1> QED
  BY <1>1, <1>2, TellEnds DEF EndInitStack

LEMMA InitForceStackHandled ==
  ASSUME Reading, mode = "INIT_FORCE_STACK", init_force_stack PROVE Handled
<1>1. mode \in Flagging \ {"ALARM", "INIT_WAIT_RESET"}
  BY DEF Flagging
<1>2. Turn(mode) /\ Steady(mode)
  BY Given DEF Steady
<1>3. Request(mode, "STACKER_NG_PULL") /\ Request(mode, "STACKER_EXEC_RE")
  BY DEF Request, Requests, Tasks, Forces
<1>4. CASE is("STACKER_EXEC", "SUCCESS") /\ IfReset(IfBox(EndInitStack))
  <2>1. ~Open
    BY <1>4, Given DEF Known, is
  <2> QED
    BY <1>4, <2>1, FlaggedEnds, BoxAlarmEnds, EndInitStackEnds DEF IfReset, IfBox
<1>5. CASE Ask(mode, "STACKER_NG_PULL")
  BY <1>2, <1>3, <1>5, AskEnds
<1>6. CASE IfReset(IfBox(Ask(mode, "STACKER_EXEC_RE")))
  BY <1>2, <1>3, <1>6, GoOnEnds
<1>7. CASE is("STACKER_EXEC_RE", "SUCCESS") /\ EndInitStack
  <2>1. ~Open
    BY <1>7, Given DEF Known, is
  <2> QED
    BY <1>7, <2>1, EndInitStackEnds
<1>8. CASE AlarmSub("RESET", m.arg)
  BY <1>8, AlarmEnds, Given
<1> QED
  BY <1>1, <1>4, <1>5, <1>6, <1>7, <1>8, InitOrAlarmEnds, FlagsEnd DEF init_force_stack

LEMMA InitRejectHomeHandled ==
  ASSUME Reading, mode = "INIT_REJECT_HOME", init_reject_apb_home PROVE Handled
<1>1. mode \in Flagging \ {"ALARM", "INIT_WAIT_RESET"} /\ mode \in Astray
  BY DEF Flagging, Astray
<1>2. ~Live
  BY <1>1, Given DEF Known
<1>3. Turn("REJECT")
  BY <1>2, FarTurn DEF Open, Modes
<1>4. CASE IfReset(Enter("REJECT"))
  BY <1>3, <1>4, FlaggedEnds, EnterEnds DEF IfReset, Steady
<1> QED
  BY <1>1, <1>4, InitOrAlarmEnds, FlagsEnd DEF init_reject_apb_home, Awaits

LEMMA InitFeedRejectHandled ==
  ASSUME Reading, mode = "INIT_FEED_REJECT", init_feed_reject PROVE Handled
<1>1. mode \in Flagging \ {"ALARM", "INIT_WAIT_RESET"} /\ mode \in Astray
  BY DEF Flagging, Astray
<1>2. ~Live /\ Turn(mode) /\ Steady(mode)
  BY <1>1, Given DEF Known, Steady
<1>3. Request(mode, "CENTERING_HOME") /\ Request(mode, "FEED_REJECT")
  BY <1>2, FarRequest DEF Open, Requests, Tasks
<1>4. CASE IfReset(Hanging)
  BY <1>2, <1>4, FlaggedEnds, HangingEnds DEF IfReset
<1>5. CASE Ask(mode, "CENTERING_HOME")
  BY <1>2, <1>3, <1>5, AskEnds
<1>6. CASE IfReset(IfBox(Ask(mode, "FEED_REJECT")))
  BY <1>2, <1>3, <1>6, GoOnEnds
<1> QED
  BY <1>1, <1>4, <1>5, <1>6, InitOrAlarmEnds, FlagsEnd DEF init_feed_reject

LEMMA InitNoteStayHandled ==
  ASSUME Reading, mode = "INIT_NOTE_STAY", init_note_stay PROVE Handled
<1>1. ~reset /\ ~Live
  BY Given DEF Known, Flagging, Astray
<1>2. Turn("INIT_WAIT_REMAIN") /\ Turn("INIT_WAIT_RESET")
  BY <1>1, FarTurn DEF Open, Modes, InitModes
<1>3. /\ Report(Msg("RESET", "INIT_REJECT_REQUEST", "OTHER"))
      /\ Report(Msg("RESET", "INIT_REJECT_REMOVE", "OTHER"))
  BY <1>1, FarReport DEF Open
<1>4. CASE TellIn("INIT_WAIT_REMAIN", "RESET", "INIT_REJECT_REQUEST", "OTHER")
  BY <1>1, <1>2, <1>3, <1>4, TellEnds DEF Steady
<1>5. CASE TellIn("INIT_WAIT_RESET", "RESET", "INIT_REJECT_REMOVE", "OTHER")
  BY <1>1, <1>2, <1>3, <1>5, TellEnds DEF Steady
<1> QED
  BY <1>4, <1>5, ResetEnds, BoxAlarmEnds, StayEnds, StatusEnds, DefaultEnds DEF init_note_stay

LEMMA InitWaitResetHandled ==
  ASSUME Reading, init_wait_reset_req PROVE Handled
BY ResetEnds, StatusEnds, DefaultEnds DEF init_wait_reset_req

LEMMA AlarmHandled == ASSUME Reading, alarm_msg PROVE Handled
BY ResetEnds, StayEnds, AlarmEnds DEF alarm_msg

\* Every handler of power_msg_proc does what is said above.
LEMMA EveryHandler ==
  ASSUME IInv, power_msg_proc
  PROVE  /\ Reading /\ Handled /\ mode # "INIT_SELECT"
         /\ main_mbx' = Tail(main_mbx) /\ UNCHANGED note
<1>1. Reading /\ main_mbx' = Tail(main_mbx) /\ UNCHANGED note /\ mode # "INIT_SELECT"
  BY DEF power_msg_proc, Reading
<1> QED
  BY <1>1, SensorInitHandled, WaitReqHandled, SensorActiveHandled, StackerHomeHandled,
     SearchBillHandled, AlarmBoxHandled, ConfirmBoxHandled, ResetGliHandled,
     InitSensorActiveHandled, InitCisHandled, InitPositionHandled, InitStackerHandled,
     InitFeedHandled, InitApbHandled, InitShutterHandled, InitCenteringHandled, InitIcbHandled,
     InitWaitReqHandled, InitWaitRemainHandled, InitForceFeedHandled, InitForceStackHandled,
     InitRejectHomeHandled, InitFeedRejectHandled, InitNoteStayHandled, InitWaitResetHandled,
     AlarmHandled
  DEF power_msg_proc

-----------------------------------------------------------------------------
(* The steps of the main task keep the invariant.                            *)

mainframe == <<icb, vends, paper, box, off, home, line, acked, counted, disturbed, events>>

LEMMA MainTypes ==
  ASSUME IInv, power_msg_proc, UNCHANGED mainframe
  PROVE  Types'
<1>1. Reading /\ Handled /\ main_mbx' = Tail(main_mbx) /\ UNCHANGED note /\ Types
  BY EveryHandler DEF IInv
<1>2. main_mbx' \in Seq(Messages) /\ Len(main_mbx') <= MailBlocks
  BY <1>1, Read DEF Reading
<1>3. line_mbx' \in Seq(Results)
  BY <1>1, Telling DEF Handled, Reporting, Types
<1>4. work' \subseteq Requests
  BY <1>1 DEF Handled, Requesting, Request, Types, Requests, Tasks
<1>5. pause' \in BOOLEAN
  <2>1. pause' = NextPause /\ pause \in BOOLEAN
    BY <1>1 DEF power_msg_proc, Types
  <2> QED
    BY <2>1 DEF NextPause
<1>6. mode' \in Modes /\ reset' \in BOOLEAN /\ tries' \in 0 .. ForceStacks /\ step' \in Steps
  BY <1>1 DEF Handled, Turn, Resetting, Recording, Types, Steps
<1>7. UNCHANGED <<icb, vends, note, paper, box, off, home, line, acked, counted, disturbed, events>>
  BY <1>1 DEF mainframe
<1> QED
  BY <1>1, <1>2, <1>3, <1>4, <1>5, <1>6, <1>7 DEF Types

LEMMA MainAlways ==
  ASSUME IInv, power_msg_proc, UNCHANGED mainframe
  PROVE  Always'
<1>1. Handled /\ UNCHANGED note /\ UNCHANGED mainframe /\ Always /\ counted \in 0 .. 1
  BY EveryHandler DEF IInv, Types
<1>2. boxed' = boxed /\ \A ms : LineIn(ms)' = LineIn(ms)
  BY <1>1 DEF boxed, LineIn, mainframe
<1>3. step' = step \/ (step' = "ICB_ACCEPT" /\ Unrecorded)
  BY <1>1 DEF Handled, Recording
<1>4. "ICB_ACCEPT" \in work' =>
        "ICB_ACCEPT" \in work
          \/ (step' = "ICB_ACCEPT" /\ Unrecorded /\ (boxed \/ disturbed))
  BY <1>1 DEF Handled, Requesting, Request
<1>5. reset' => mode' \in Flagging
  BY <1>1 DEF Handled, Resetting
<1> QED
  BY <1>1, <1>2, <1>3, <1>4, <1>5 DEF Always, Unrecorded, mainframe

LEMMA MainLive ==
  ASSUME IInv, power_msg_proc, UNCHANGED mainframe, Live'
  PROVE  LiveInv' /\ Live
<1>1. Reading /\ Handled /\ main_mbx' = Tail(main_mbx) /\ UNCHANGED note /\ UNCHANGED mainframe /\ Types
  BY EveryHandler DEF IInv
<1>2. Live
  BY <1>1 DEF Handled, Recording, Live, Unrecorded, mainframe
<1>3. LiveInv
  BY <1>2 DEF IInv
<1>4. Posted' \subseteq Posted
  BY <1>1, Read DEF Reading
<1>5. mode' \notin Astray /\ "FEED_REJECT" \notin work'
  BY <1>1, <1>2, <1>3 DEF Handled, Turn, Requesting, Request, LiveInv
<1>6. \A msg \in Tidings' : msg \in Tidings \/ msg.sub \notin {"REMAIN", "INIT_REJECT_REQUEST"}
  <2>1. CASE line_mbx' = line_mbx
    BY <2>1 DEF Tidings
  <2>2. ASSUME NEW t \in Results, line_mbx' = Append(line_mbx, t), Report(t)
        PROVE  \A msg \in Tidings' : msg \in Tidings \/ msg.sub \notin {"REMAIN", "INIT_REJECT_REQUEST"}
    BY <1>1, <1>2, <2>2, Telling DEF Report
  <2> QED
    BY <1>1, <2>1, <2>2 DEF Handled, Reporting
<1>7. UNCHANGED <<note, line>>
  BY <1>1 DEF mainframe
<1> QED
  BY <1>2, <1>3, <1>4, <1>5, <1>6, <1>7 DEF LiveInv, LineIn

LEMMA MainOpen ==
  ASSUME IInv, power_msg_proc, UNCHANGED mainframe, Open'
  PROVE  OpenInv'
<1>1. Reading /\ Handled /\ main_mbx' = Tail(main_mbx) /\ UNCHANGED note /\ UNCHANGED mainframe /\ Types
  BY EveryHandler DEF IInv
<1>2. Live /\ Open
  BY <1>1, MainLive DEF Open, boxed
<1>3. OpenModes /\ OpenStrokes /\ OpenSearch /\ OpenPlace
  BY <1>2 DEF IInv, OpenInv
<1>4. /\ Posted' \subseteq Posted /\ m \in Posted
      /\ \A c \in {"RESET", "SEARCH"} : Once(c) => Once(c)' /\ (m.code = c => ~Coded(c)')
  BY <1>1, Read DEF Reading
<1>5. /\ \A c : Coded(c)' => Coded(c)
      /\ \A r : Succeeded(r)' => Succeeded(r)
      /\ Coded(m.code)
  BY <1>4 DEF Coded, Succeeded
<1>6. UNCHANGED <<note, line>> /\ Early' = Early /\ \A ms : LineIn(ms)' = LineIn(ms)
  BY <1>1 DEF mainframe, Early, LineIn
<1>7. Turn(mode') /\ Requesting /\ Resetting
  BY <1>1 DEF Handled
<1>8. /\ mode' \in PowerUpModes \cup {"ALARM"} \cup Before
      /\ mode' \in Before => mode \in Before \/ m.code = "RESET"
      /\ Busy => mode' \in Moving
      /\ mode' \in {"INIT_STACKER", "INIT_FORCE_STACK"} => note = "chamber"
      /\ mode' \in {"SENSOR_ACTIVE", "STACKER_HOME"} =>
           mode \in {"SENSOR_ACTIVE", "STACKER_HOME"} \/ m.code = "SEARCH"
  BY <1>2, <1>7 DEF Turn
<1>9. mode' \in Before => ~Early /\ ~Coded("RESET")'
  <2>1. CASE mode \in Before
    <3>1. Before \cap (PowerUpModes \cup {"ALARM"}) = {}
      BY DEF Before, PowerUpModes
    <3> QED
      BY <1>3, <1>5, <2>1, <3>1 DEF OpenModes
  <2>2. CASE m.code = "RESET"
    BY <1>3, <1>4, <1>5, <2>2 DEF OpenModes
  <2> QED
    BY <1>8, <2>1, <2>2
<1>10. OpenModes'
  <2>1. reset' = FALSE
    BY <1>2, <1>7 DEF Resetting
  <2>2. Once("RESET")'
    BY <1>3, <1>4 DEF OpenModes
  <2>3. Early' => mode' \in PowerUpModes \cup {"ALARM"} /\ ~Coded("RESET")'
    BY <1>3, <1>5, <1>6, <1>8, <1>9 DEF OpenModes
  <2> QED
    BY <1>3, <1>6, <1>8, <1>9, <2>1, <2>2, <2>3 DEF OpenModes
<1>11. \A r \in work' :
         /\ r \in work
            \/ /\ r \notin {"STACKER_PULL", "ICB_ACCEPT"}
               /\ r \in Forces => mode' = "INIT_FORCE_FEED"
               /\ r \in Strokes => mode' \in {"INIT_STACKER", "INIT_FORCE_STACK"}
               /\ r = "FEED_SEARCH" => mode = "STACKER_HOME" /\ mode' = "SEARCH_BILL" /\ line_mbx' = line_mbx
            \/ r = "ICB_ACCEPT"
  BY <1>2, <1>7 DEF Requesting, Request
<1>12. "ICB_ACCEPT" \notin Strokes \cup Forces
  BY DEF Strokes, Forces
<1>13. ASSUME NEW t \in Tidings'
       PROVE  \/ t \in Tidings
              \/ t \in Results /\ Report(t) /\ line_mbx' = Append(line_mbx, t)
  <2>1. CASE line_mbx' = line_mbx
    BY <2>1 DEF Tidings
  <2>2. ASSUME NEW u \in Results, line_mbx' = Append(line_mbx, u), Report(u)
        PROVE  \/ t \in Tidings
               \/ t \in Results /\ Report(t) /\ line_mbx' = Append(line_mbx, t)
    BY <1>1, <1>13, <2>2, Telling
  <2> QED
    BY <1>7, <1>1, <2>1, <2>2 DEF Handled, Reporting
<1>14. OpenStrokes'
  <2>1. Busy' => Busy \/ mode' \in {"INIT_STACKER", "INIT_FORCE_FEED", "INIT_FORCE_STACK"}
    BY <1>5, <1>11, <1>12 DEF Busy
  <2>2. {"INIT_STACKER", "INIT_FORCE_FEED", "INIT_FORCE_STACK"} \subseteq Before \cap Moving
    BY DEF Before, Moving
  <2>3. Busy' => mode' \in Moving /\ ~Coded("RESET")' /\ ~Early'
    BY <1>3, <1>5, <1>6, <1>8, <1>9, <2>1, <2>2 DEF OpenStrokes
  <2>4. \/ mode' \in {"INIT_STACKER", "INIT_FORCE_STACK"} \/ work' \cap Strokes # {}
        \/ Succeeded("FEED_FORCE")'
        => note' = "chamber"
    BY <1>3, <1>5, <1>6, <1>8, <1>11, <1>12 DEF OpenStrokes
  <2>5. "STACKER_PULL" \notin work'
    BY <1>3, <1>11 DEF OpenStrokes
  <2>6. \A msg \in Tidings' :
          /\ ~(msg.code = "RESET" /\ msg.sub = "SUCCESS")
          /\ msg.sub \notin {"END_INIT_STACK", "INIT_REJECT_REMOVE"}
          /\ msg.arg # "FULL"
    BY <1>2, <1>3, <1>13 DEF OpenStrokes, Report
  <2> QED
    BY <1>3, <1>4, <2>3, <2>4, <2>5, <2>6 DEF OpenStrokes
<1>15. OpenSearch'
  <2>1. Once("SEARCH")'
    BY <1>3, <1>4 DEF OpenSearch
  <2>2. \A t \in Tidings' :
          t.code = "SEARCH" =>
            \/ t \in Tidings
            \/ /\ mode \in {"SENSOR_ACTIVE", "STACKER_HOME"} \/ m.code = "FEED_SEARCH"
               /\ mode' \notin {"SENSOR_ACTIVE", "STACKER_HOME"} /\ line_mbx' = Append(line_mbx, t)
    BY <1>2, <1>13 DEF Report
  <2>3. mode' \in {"SENSOR_ACTIVE", "STACKER_HOME"} \/ Coded("SEARCH")' =>
          \/ mode \in {"SENSOR_ACTIVE", "STACKER_HOME"} \/ Coded("SEARCH")
    BY <1>5, <1>8
  <2>4. mode' \in {"SENSOR_ACTIVE", "STACKER_HOME"} => ~Coded("SEARCH")'
    BY <1>3, <1>4, <1>5, <1>8 DEF OpenSearch
  <2>5. \/ mode' \in {"SENSOR_ACTIVE", "STACKER_HOME"} \/ Coded("SEARCH")'
        => /\ LineIn({"search"})' /\ "FEED_SEARCH" \notin work' /\ ~Coded("FEED_SEARCH")'
           /\ \A msg \in Tidings' : msg.code # "SEARCH"
    <3> SUFFICES ASSUME mode' \in {"SENSOR_ACTIVE", "STACKER_HOME"} \/ Coded("SEARCH")'
                 PROVE  /\ LineIn({"search"})' /\ "FEED_SEARCH" \notin work' /\ ~Coded("FEED_SEARCH")'
                        /\ \A msg \in Tidings' : msg.code # "SEARCH"
      OBVIOUS
    <3>1. /\ LineIn({"search"}) /\ "FEED_SEARCH" \notin work /\ ~Coded("FEED_SEARCH")
          /\ \A msg \in Tidings : msg.code # "SEARCH"
      BY <1>3, <2>3 DEF OpenSearch
    <3>2. mode = "STACKER_HOME" /\ mode' = "SEARCH_BILL" => FALSE
      BY <1>3, <1>5 DEF OpenSearch
    <3>3. "FEED_SEARCH" \notin work'
      BY <1>11, <3>1, <3>2 DEF Forces
    <3>4. ASSUME NEW t \in Tidings', t.code = "SEARCH" PROVE FALSE
      <4>1. mode \in {"SENSOR_ACTIVE", "STACKER_HOME"} \/ m.code = "FEED_SEARCH"
        BY <2>2, <3>1, <3>4
      <4>2. m.code # "FEED_SEARCH"
        BY <1>5, <3>1
      <4>3. mode \in {"SENSOR_ACTIVE", "STACKER_HOME"} /\ Coded("SEARCH")'
        BY <2>2, <3>1, <3>4, <4>1, <4>2
      <4> QED
        BY <1>3, <1>5, <4>3 DEF OpenSearch
    <3> QED
      BY <1>5, <1>6, <3>1, <3>3, <3>4
  <2>6. "FEED_SEARCH" \in work' =>
          /\ LineIn({"search"})' /\ ~Coded("FEED_SEARCH")'
          /\ \A msg \in Tidings' : msg.code # "SEARCH"
    <3>1. CASE "FEED_SEARCH" \in work
      <4>1. /\ LineIn({"search"}) /\ ~Coded("FEED_SEARCH")
            /\ \A msg \in Tidings : msg.code # "SEARCH"
            /\ mode \notin {"SENSOR_ACTIVE", "STACKER_HOME"} /\ m.code # "FEED_SEARCH"
        BY <1>3, <1>5, <3>1 DEF OpenSearch
      <4> QED
        BY <1>5, <1>6, <2>2, <4>1
    <3>2. CASE "FEED_SEARCH" \in work' /\ "FEED_SEARCH" \notin work
      <4>1. mode = "STACKER_HOME" /\ line_mbx' = line_mbx
        BY <1>11, <3>2
      <4> QED
        BY <1>3, <1>5, <1>6, <4>1 DEF OpenSearch, Tidings
    <3> QED
      BY <3>1, <3>2
  <2>7. LineIn({"boot"}) =>
          /\ ~Coded("FEED_SEARCH") /\ mode \notin {"SENSOR_ACTIVE", "STACKER_HOME"}
          /\ \A msg \in Tidings : msg.code # "SEARCH"
    BY <1>3 DEF OpenSearch, LineIn
  <2>8. LineIn({"boot"})' => ~Coded("FEED_SEARCH")' /\ \A msg \in Tidings' : msg.code # "SEARCH"
    BY <1>5, <1>6, <2>2, <2>7
  <2> QED
    BY <2>1, <2>4, <2>5, <2>6, <2>8 DEF OpenSearch
<1>16. OpenPlace'
  <2> SUFFICES ASSUME note = "escrow"
               PROVE  OpenPlace'
    BY <1>6 DEF OpenPlace
  <2>1. /\ LineIn({"powerup"} \cup Initialising) => line.stat # "RECOVER"
        /\ LineIn({"boot"}) => \A msg \in Tidings : ~Tells(msg, "INITIAL")
        /\ LineIn({"search"}) => \A msg \in Tidings : ~Tells(msg, "SEARCH")
        /\ \A j \in DOMAIN line_mbx :
             Tells(line_mbx[j], "STATUS") =>
               ~LineIn({"boot", "powerup"}) /\ \A i \in 1 .. j : line_mbx[i].code # "SEARCH"
    BY <1>3 DEF OpenPlace
  <2>2. bill = "ACCEPTOR"
    BY DEF bill, bill_remain
  <2>3. ASSUME NEW t, Report(t) PROVE \A c : ~Tells(t, c)
    BY <1>2, <2>2, <2>3 DEF Report, Tells
  <2>4. /\ LineIn({"boot"}) => \A msg \in Tidings' : ~Tells(msg, "INITIAL")
        /\ LineIn({"search"}) => \A msg \in Tidings' : ~Tells(msg, "SEARCH")
    BY <1>13, <2>1, <2>3
  <2>5. \A j \in DOMAIN line_mbx' :
          Tells(line_mbx'[j], "STATUS") =>
            ~LineIn({"boot", "powerup"}) /\ \A i \in 1 .. j : line_mbx'[i].code # "SEARCH"
    <3>1. CASE line_mbx' = line_mbx
      BY <2>1, <3>1
    <3>2. ASSUME NEW t \in Results, line_mbx' = Append(line_mbx, t), Report(t),
                 NEW j \in DOMAIN line_mbx', Tells(line_mbx'[j], "STATUS")
          PROVE  ~LineIn({"boot", "powerup"}) /\ \A i \in 1 .. j : line_mbx'[i].code # "SEARCH"
      <4>1. /\ DOMAIN line_mbx = 1 .. Len(line_mbx) /\ Len(line_mbx) \in Nat
            /\ DOMAIN line_mbx' = 1 .. (Len(line_mbx) + 1)
            /\ \A i \in 1 .. Len(line_mbx) : line_mbx'[i] = line_mbx[i]
            /\ line_mbx'[Len(line_mbx) + 1] = t
        BY <1>1, <3>2, Telling
      <4>2. j # Len(line_mbx) + 1
        BY <2>3, <3>2, <4>1
      <4>3. j \in 1 .. Len(line_mbx)
        BY <3>2, <4>1, <4>2
      <4> QED
        BY <2>1, <3>2, <4>1, <4>3
    <3> QED
      BY <1>1, <3>1, <3>2 DEF Handled, Reporting
  <2> QED
    BY <1>6, <2>1, <2>4, <2>5 DEF OpenPlace
<1> QED
  BY <1>10, <1>14, <1>15, <1>16 DEF OpenInv

LEMMA MainKeeps ==
  ASSUME IInv, power_msg_proc, UNCHANGED mainframe
  PROVE  IInv'
BY MainTypes, MainAlways, MainLive, MainOpen DEF IInv

\* The look that main takes by itself.
LEMMA SelectKeeps ==
  ASSUME IInv, init_sub_select_mode, UNCHANGED <<main_mbx, pause>>, UNCHANGED mainframe
  PROVE  IInv'
<1>1. /\ Types /\ Always /\ mode = "INIT_SELECT" /\ UNCHANGED <<main_mbx, pause>>
      /\ UNCHANGED mainframe /\ UNCHANGED <<reset, tries, step>>
  BY DEF IInv, init_sub_select_mode, Ask, TellIn
<1>2. note' = note \/ (note = "chamber" /\ note' = "exit")
  BY DEF init_sub_select_mode
<1>3. CASE /\ bill_remain(note') = "NON" /\ mode' = "INIT_STACKER"
           /\ work' = Asked("STACKER_EXEC") /\ line_mbx' = line_mbx
  <2>1. \A q \in work' : q \in work \/ q = "STACKER_EXEC"
    BY <1>3 DEF Asked
  <2>2. note' \notin {"escrow", "exit", "mouth"} /\ note' = note
    BY <1>2, <1>3 DEF bill_remain
  <2>3. Types'
    BY <1>1, <1>3, <2>1, <2>2 DEF Types, mainframe, Modes, InitModes, Requests, Tasks
  <2>4. Always'
    BY <1>1, <1>3, <2>1, <2>2 DEF Always, mainframe, boxed, LineIn, Flagging
  <2>5. Live' = Live /\ Open' = Open /\ Posted' = Posted /\ Tidings' = Tidings
    BY <1>1, <1>3, <2>2 DEF Live, Open, mainframe, boxed, Posted, Tidings
  <2>6. ASSUME Live PROVE LiveInv'
    BY <1>1, <1>3, <2>1, <2>2, <2>5, <2>6 DEF IInv, LiveInv, LineIn, mainframe, Astray
  <2>7. ASSUME Open PROVE OpenInv'
    <3>1. OpenModes /\ OpenStrokes /\ OpenSearch /\ OpenPlace /\ note = "chamber"
      BY <1>1, <2>2, <2>7 DEF IInv, OpenInv, LiveInv, Open, boxed, Types, Left
    <3>2. /\ UNCHANGED <<note, line, main_mbx, line_mbx>> /\ Early' = Early
          /\ \A ms : LineIn(ms)' = LineIn(ms)
          /\ \A c : Coded(c)' = Coded(c)
          /\ \A c : Succeeded(c)' = Succeeded(c)
          /\ \A c : Once(c)' = Once(c)
      BY <1>1, <1>3, <2>2, <2>5 DEF mainframe, Early, LineIn, Coded, Succeeded, Once
    <3>3. ~Early /\ ~Coded("RESET")
      BY <1>1, <3>1 DEF OpenModes, Before, PowerUpModes
    <3>4. OpenModes'
      BY <1>1, <1>3, <3>1, <3>2, <3>3 DEF OpenModes, Before
    <3>5. OpenStrokes'
      BY <1>3, <2>1, <2>5, <3>1, <3>2, <3>3 DEF OpenStrokes, Moving
    <3>6. OpenSearch'
      BY <1>1, <1>3, <2>1, <2>5, <3>1, <3>2 DEF OpenSearch
    <3>7. OpenPlace'
      BY <2>2, <3>1 DEF OpenPlace
    <3> QED
      BY <3>4, <3>5, <3>6, <3>7 DEF OpenInv
  <2> QED
    BY <2>3, <2>4, <2>5, <2>6, <2>7 DEF IInv
<1>4. CASE /\ bill_remain(note') # "NON" /\ mode' = "INIT_WAIT_REMAIN" /\ work' = work
           /\ line_mbx' = Append(line_mbx, Msg("RESET", "REMAIN", bill_remain(note')))
  <2> DEFINE t == Msg("RESET", "REMAIN", bill_remain(note'))
  <2>1. t.code = "RESET" /\ t.sub = "REMAIN" /\ t.arg = bill_remain(note') /\ t.arg \in Bills
    BY DEF Msg, Bills, bill_remain
  <2>2. t \in Results
    BY <2>1, ResultType
  <2>3. line_mbx' = Append(line_mbx, t)
    BY <1>4
  <2> HIDE DEF t
  <2>4. /\ line_mbx' \in Seq(Results) /\ Tidings' = Tidings \cup {t}
        /\ DOMAIN line_mbx = 1 .. Len(line_mbx) /\ Len(line_mbx) \in Nat
        /\ DOMAIN line_mbx' = 1 .. (Len(line_mbx) + 1)
        /\ \A i \in 1 .. Len(line_mbx) : line_mbx'[i] = line_mbx[i]
        /\ line_mbx'[Len(line_mbx) + 1] = t
    BY <1>1, <2>2, <2>3, Telling
  <2>5. Types'
    BY <1>1, <1>2, <1>4, <2>4 DEF Types, mainframe, Modes, InitModes, Left
  <2>6. /\ boxed' = boxed /\ (note' = "escrow" <=> note = "escrow")
        /\ note' \in {"mouth", "gone"} => note \in {"mouth", "gone"}
    BY <1>2 DEF boxed
  <2>7. Always'
    BY <1>1, <1>4, <2>6 DEF Always, mainframe, LineIn, Flagging
  <2>8. Live' = Live /\ Open' = Open /\ Posted' = Posted
    BY <1>1, <2>6 DEF Live, Open, mainframe, Posted
  <2>9. ASSUME Live PROVE LiveInv'
    <3>1. LiveInv /\ ~paper
      BY <1>1, <2>9 DEF IInv, Always, Live
    <3>2. t.arg # "STACKER" => note = "escrow"
      BY <1>2, <1>1, <1>4, <2>1, <3>1 DEF LiveInv, bill_remain, mainframe
    <3> QED
      BY <1>1, <1>2, <1>4, <2>1, <2>4, <2>6, <2>8, <3>1, <3>2 DEF LiveInv, LineIn, mainframe, Astray
  <2>10. ASSUME Open PROVE OpenInv'
    <3>1. OpenModes /\ OpenStrokes /\ OpenSearch /\ OpenPlace
      BY <2>10 DEF IInv, OpenInv
    <3>2. /\ UNCHANGED <<line, main_mbx, work>> /\ Early' = Early
          /\ \A ms : LineIn(ms)' = LineIn(ms)
          /\ \A c : Coded(c)' = Coded(c)
          /\ \A c : Succeeded(c)' = Succeeded(c)
          /\ \A c : Once(c)' = Once(c)
      BY <1>1, <1>4, <2>8 DEF mainframe, Early, LineIn, Coded, Succeeded, Once
    <3>3. ~Early /\ ~Coded("RESET")
      BY <1>1, <3>1 DEF OpenModes, Before, PowerUpModes
    <3>4. ~Busy /\ Busy' = Busy
      BY <1>1, <3>1, <3>2 DEF OpenStrokes, Moving, Busy
    <3>5. OpenModes'
      BY <1>1, <1>4, <3>1, <3>2, <3>3 DEF OpenModes, Before
    <3>6. OpenStrokes'
      <4>1. work \cap Strokes = {} /\ ~Succeeded("FEED_FORCE")
        BY <3>4 DEF Busy
      <4> QED
        BY <1>4, <2>1, <2>4, <2>8, <3>1, <3>2, <3>4, <4>1 DEF OpenStrokes, Bills
    <3>7. OpenSearch'
      BY <1>1, <1>4, <2>1, <2>4, <3>1, <3>2 DEF OpenSearch
    <3>8. OpenPlace'
      <4>1. \A c : Tells(t, c) => FALSE
        BY <2>1 DEF Tells
      <4>2. ASSUME NEW j \in DOMAIN line_mbx', Tells(line_mbx'[j], "STATUS"), note = "escrow"
            PROVE  ~LineIn({"boot", "powerup"}) /\ \A i \in 1 .. j : line_mbx'[i].code # "SEARCH"
        <5>1. j \in 1 .. Len(line_mbx)
          BY <2>4, <4>1, <4>2
        <5> QED
          BY <2>4, <3>1, <4>2, <5>1 DEF OpenPlace
      <4> QED
        BY <2>4, <2>6, <3>1, <3>2, <4>1, <4>2 DEF OpenPlace
    <3> QED
      BY <3>5, <3>6, <3>7, <3>8 DEF OpenInv
  <2> QED
    BY <2>5, <2>7, <2>8, <2>9, <2>10 DEF IInv
<1>5. \/ /\ bill_remain(note') = "NON" /\ mode' = "INIT_STACKER"
         /\ work' = Asked("STACKER_EXEC") /\ line_mbx' = line_mbx
      \/ /\ bill_remain(note') # "NON" /\ mode' = "INIT_WAIT_REMAIN" /\ work' = work
         /\ line_mbx' = Append(line_mbx, Msg("RESET", "REMAIN", bill_remain(note')))
  BY DEF init_sub_select_mode, Ask, TellIn, Tell
<1> QED
  BY <1>3, <1>4, <1>5

LEMMA MainStep == ASSUME IInv, main PROVE IInv'
<1>1. UNCHANGED mainframe /\ main_task
  BY DEF main, mainframe, options
<1> QED
  BY <1>1, MainKeeps, SelectKeeps DEF main_task

-----------------------------------------------------------------------------
(* The devices: a request is answered, or the feed pauses or goes on.        *)

\* The note a device may move, and what it may have seen or done to it.
Displaced(r, c, t, a) ==
  /\ note' \in DOMAIN Left \cup {"mouth", "gone"} /\ paper' \in BOOLEAN /\ off' \subseteq Positions
  /\ home' \in BOOLEAN /\ events' \in 0 .. MaxEvents
  /\ counted' = counted \/ (r = "ICB_ACCEPT" /\ counted' = counted + 1)
  /\ ~disturbed => ~paper'
  /\ boxed' = boxed
  /\ Live => /\ note' \notin {"mouth", "gone"} /\ (note = "escrow" => note' = "escrow")
             /\ ~(c = "FEED_INITIAL" /\ t = "REJECT")
  /\ Open =>
       /\ t = "SUCCESS" => r \notin {"STACKER_EXEC", "STACKER_PULL", "STACKER_EXEC_RE"}
       /\ a # "FULL"
       /\ r # "FEED_SEARCH" => /\ note = "chamber" => note' = "chamber"
                               /\ note' = "escrow" => note = "escrow"
       /\ c = "FEED_FORCE" /\ t = "SUCCESS" => note' = "chamber"

LEMMA DeviceKeeps ==
  ASSUME IInv, UNCHANGED devices,
         NEW r \in work, NEW more, more \subseteq Forces, more # {} => r \in Forces,
         work' = (work \ {r}) \cup more,
         NEW c \in Codes, NEW t \in Subs, NEW a \in {"OTHER", "FULL"}, Send(c, t, a),
         c = r \/ (r \in Forces /\ c = "FEED_FORCE" /\ t \in {"PAUSE", "RESUME"}),
         Displaced(r, c, t, a)
  PROVE  IInv'
<1>1. /\ Types /\ Always
      /\ UNCHANGED <<icb, vends, mode, reset, pause, tries, step, line_mbx, box, line, acked, disturbed>>
  BY DEF IInv, devices, options, mvars
<1>2. /\ main_mbx' \in Seq(Messages) /\ Len(main_mbx') <= MailBlocks
      /\ Posted' = Posted \cup {Msg(c, t, a)}
      /\ Msg(c, t, a).code = c /\ Msg(c, t, a).sub = t /\ Msg(c, t, a).arg = a
      /\ \A k \in {"RESET", "SEARCH"} : Once(k) /\ (c # k \/ ~Coded(k)) => Once(k)'
  BY <1>1, Sent
<1>3. r \in Requests /\ Forces \subseteq Requests
  BY <1>1 DEF Types, Forces, Requests, Tasks
<1>4. c \notin {"RESET", "SEARCH", "REJECT_REQ", "ENABLE", "LOST_BILL", "STATUS"}
  BY <1>3 DEF Requests, Tasks, Forces
<1>5. "ICB_ACCEPT" \in work' => "ICB_ACCEPT" \in work /\ r # "ICB_ACCEPT"
  BY DEF Forces
<1>6. Types'
  <2>1. counted' \in 0 .. 1
    BY <1>1 DEF Types, Always, Displaced
  <2> QED
    BY <1>1, <1>2, <1>3, <2>1 DEF Types, Displaced
<1>7. Always'
  <2>1. boxed' = boxed /\ \A ms : LineIn(ms)' = LineIn(ms)
    BY <1>1 DEF Displaced, LineIn
  <2>2. counted' = 1 => counted = 1 \/ "ICB_ACCEPT" \in work
    BY <1>1 DEF Types, Displaced
  <2>3. "ICB_ACCEPT" \in work' => counted' = counted
    BY <1>5 DEF Displaced
  <2>4. ~disturbed => ~paper'
    BY DEF Displaced
  <2> QED
    BY <1>1, <1>5, <2>1, <2>2, <2>3, <2>4 DEF Always
<1>8. Live' = Live /\ Open' = Open /\ Tidings' = Tidings
  BY <1>1 DEF Live, Open, Displaced, Tidings
<1>9. ASSUME Live PROVE LiveInv'
  <2>1. LiveInv /\ "FEED_REJECT" \notin work'
    BY <1>9 DEF IInv, LiveInv, Forces
  <2> QED
    BY <1>1, <1>2, <1>4, <1>8, <1>9, <2>1 DEF LiveInv, LineIn, Displaced
<1>10. ASSUME Open PROVE OpenInv'
  <2>1. OpenModes /\ OpenStrokes /\ OpenSearch /\ OpenPlace
    BY <1>10 DEF IInv, OpenInv
  <2>2. /\ Early' = Early /\ \A ms : LineIn(ms)' = LineIn(ms)
        /\ \A k : Coded(k)' <=> Coded(k) \/ k = c
        /\ \A k : Succeeded(k)' <=> Succeeded(k) \/ (k = c /\ t = "SUCCESS")
    BY <1>1, <1>2 DEF Early, LineIn, Coded, Succeeded
  <2>3. Busy' => Busy
    BY <2>2 DEF Busy, Forces
  <2>4. OpenModes'
    BY <1>1, <1>2, <1>4, <2>1, <2>2 DEF OpenModes
  <2>5. r = "FEED_SEARCH" =>
          /\ LineIn({"search"}) /\ ~Busy /\ mode \notin {"INIT_STACKER", "INIT_FORCE_STACK"}
          /\ c = r /\ \A msg \in Tidings : msg.code # "SEARCH"
    BY <2>1 DEF OpenModes, OpenStrokes, OpenSearch, Early, LineIn, Starting, PowerUpModes, Forces
  <2>6. \/ mode \in {"INIT_STACKER", "INIT_FORCE_STACK"} \/ work' \cap Strokes # {}
        \/ Succeeded("FEED_FORCE")'
        => note' = "chamber"
    <3>1. work' \cap Strokes # {} => work \cap Strokes # {}
      BY DEF Strokes, Forces
    <3>2. CASE c = "FEED_FORCE" /\ t = "SUCCESS"
      BY <1>10, <3>2 DEF Displaced
    <3>3. CASE ~(c = "FEED_FORCE" /\ t = "SUCCESS")
      <4>1. CASE r = "FEED_SEARCH"
        BY <2>2, <2>5, <3>1, <3>3, <4>1 DEF Busy
      <4>2. CASE r # "FEED_SEARCH"
        BY <1>10, <2>1, <2>2, <3>1, <3>3, <4>2 DEF Displaced, OpenStrokes
      <4> QED
        BY <4>1, <4>2
    <3> QED
      BY <3>2, <3>3
  <2>7. OpenStrokes'
    <3>1. \A msg \in Posted' :
            /\ msg.sub = "SUCCESS" => msg.code \notin {"STACKER_EXEC", "STACKER_PULL", "STACKER_EXEC_RE"}
            /\ msg.arg # "FULL"
      BY <1>2, <1>10, <2>1 DEF Displaced, OpenStrokes, Forces
    <3>2. "STACKER_PULL" \notin work'
      BY <2>1 DEF OpenStrokes, Forces
    <3>3. Busy' => mode \in Moving /\ ~Coded("RESET")' /\ ~Early
      BY <1>4, <2>1, <2>2, <2>3 DEF OpenStrokes
    <3> QED
      BY <1>1, <1>8, <2>1, <2>2, <2>6, <3>1, <3>2, <3>3 DEF OpenStrokes
  <2>8. OpenSearch'
    <3>1. "FEED_SEARCH" \in work' => "FEED_SEARCH" \in work /\ r # "FEED_SEARCH" /\ c # "FEED_SEARCH"
      BY DEF Forces
    <3>2. c = "FEED_SEARCH" => r = "FEED_SEARCH"
      OBVIOUS
    <3>3. LineIn({"search"}) => ~LineIn({"boot"})
      BY DEF LineIn
    <3> QED
      BY <1>1, <1>2, <1>4, <1>8, <2>1, <2>2, <3>1, <3>2, <3>3 DEF OpenSearch
  <2>9. OpenPlace'
    <3>1. CASE r = "FEED_SEARCH"
      <4>1. LineIn({"search"}) /\ \A j \in DOMAIN line_mbx : line_mbx[j].code # "SEARCH"
        BY <2>5, <3>1 DEF Tidings
      <4>2. ~LineIn({"powerup"} \cup Initialising) /\ ~LineIn({"boot", "powerup"}) /\ ~LineIn({"boot"})
        BY <4>1 DEF LineIn, Initialising
      <4>3. line_mbx \in Seq(Results) /\ DOMAIN line_mbx = 1 .. Len(line_mbx) /\ Len(line_mbx) \in Nat
        BY <1>1, LenProperties DEF Types
      <4> QED
        BY <1>1, <1>8, <2>2, <2>5, <3>1, <4>1, <4>2, <4>3 DEF OpenPlace, Tells
    <3>2. CASE r # "FEED_SEARCH"
      <4>1. note' = "escrow" => note = "escrow"
        BY <1>10, <3>2 DEF Displaced
      <4> QED
        BY <1>1, <1>8, <2>1, <2>2, <4>1 DEF OpenPlace
    <3> QED
      BY <3>1, <3>2
  <2> QED
    BY <2>4, <2>7, <2>8, <2>9 DEF OpenInv
<1> QED
  BY <1>6, <1>7, <1>8, <1>9, <1>10 DEF IInv

LEMMA AnswerKeeps ==
  ASSUME IInv, Device, NEW r \in Requests, NEW t \in Subs, NEW a \in {"OTHER", "FULL"},
         Answer(r, t, a), Displaced(r, r, t, a)
  PROVE  IInv'
<1> DEFINE more == {}
<1>1. /\ r \in work /\ work' = (work \ {r}) \cup more /\ Send(r, t, a) /\ r \in Codes
      /\ more \subseteq Forces /\ (more # {} => r \in Forces)
  BY DEF Answer, Codes
<1>2. UNCHANGED devices
  BY DEF Device
<1> HIDE DEF more
<1> QED
  BY <1>1, <1>2, DeviceKeeps

\* An answer of a device that moves neither note nor paper.
LEMMA StillKeeps ==
  ASSUME IInv, Device, UNCHANGED <<note, paper>>, NEW r \in Requests, NEW t \in Subs,
         NEW a \in {"OTHER", "FULL"}, Answer(r, t, a),
         off' \subseteq Positions, home' \in BOOLEAN, events' \in 0 .. MaxEvents,
         counted' = counted \/ (r = "ICB_ACCEPT" /\ counted' = counted + 1),
         Live => ~(r = "FEED_INITIAL" /\ t = "REJECT"),
         Open => /\ t = "SUCCESS" => r \notin {"STACKER_EXEC", "STACKER_PULL", "STACKER_EXEC_RE",
                                               "FEED_FORCE"}
                 /\ a # "FULL"
  PROVE  IInv'
<1>1. Types /\ Always /\ boxed' = boxed /\ (Live => LiveInv)
  BY DEF IInv, boxed
<1>2. Displaced(r, r, t, a)
  BY <1>1 DEF Displaced, Types, Always, LiveInv
<1> QED
  BY <1>2, AnswerKeeps

\* A sensor, a position, the ICB.
LEMMA SimpleKeeps ==
  ASSUME IInv, SimpleAnswers \/ PositionAnswers \/ IcbAnswers PROVE IInv'
<1>1. Types
  BY DEF IInv
<1>2. CASE SimpleAnswers
  <2>1. Device /\ UNCHANGED <<note, paper, off, home, counted, events>>
    BY <1>2 DEF SimpleAnswers
  <2>2. \E r \in {"SENSOR", "SENSOR_ACTIVE", "TIMER"} \cup Simple, t \in {"SUCCESS", "ALARM"} :
          Answer(r, t, "OTHER")
    BY <1>2 DEF SimpleAnswers
  <2> PICK r \in {"SENSOR", "SENSOR_ACTIVE", "TIMER"} \cup Simple, t \in {"SUCCESS", "ALARM"} :
             Answer(r, t, "OTHER")
    BY <2>2
  <2>3. /\ r \in Requests /\ t \in Subs
        /\ r \notin {"STACKER_EXEC", "STACKER_PULL", "STACKER_EXEC_RE", "FEED_FORCE", "FEED_INITIAL"}
    BY DEF Simple, Requests, Tasks, Subs
  <2> QED
    BY <1>1, <2>1, <2>3, StillKeeps DEF Types
<1>3. CASE PositionAnswers
  <2>1. Device /\ UNCHANGED <<note, paper, home, counted, events>>
    BY <1>3 DEF PositionAnswers
  <2> PICK r \in Positions :
        \/ Answer(r, "SUCCESS", "OTHER") /\ off' = off \ {r}
        \/ Answer(r, "ALARM", "OTHER") /\ UNCHANGED off
    BY <1>3 DEF PositionAnswers
  <2>3. /\ r \in Requests /\ "SUCCESS" \in Subs /\ "ALARM" \in Subs
        /\ r \notin {"STACKER_EXEC", "STACKER_PULL", "STACKER_EXEC_RE", "FEED_FORCE", "FEED_INITIAL"}
    BY DEF Positions, Requests, Tasks, Subs
  <2>4. CASE Answer(r, "SUCCESS", "OTHER") /\ off' = off \ {r}
    BY <1>1, <2>1, <2>3, <2>4, StillKeeps DEF Types
  <2>5. CASE Answer(r, "ALARM", "OTHER") /\ UNCHANGED off
    BY <1>1, <2>1, <2>3, <2>5, StillKeeps DEF Types
  <2> QED
    BY <2>4, <2>5
<1>4. CASE IcbAnswers
  <2>1. Device /\ UNCHANGED <<note, paper, off, home, events>>
    BY <1>4 DEF IcbAnswers
  <2>2. /\ counted' = counted \/ counted' = counted + 1
        /\ Answer("ICB_ACCEPT", "SUCCESS", "OTHER") \/ Answer("ICB_ACCEPT", "ALARM", "OTHER")
    BY <1>4 DEF IcbAnswers
  <2>3. "ICB_ACCEPT" \in Requests /\ "SUCCESS" \in Subs /\ "ALARM" \in Subs
    BY DEF Requests, Tasks, Subs
  <2>4. CASE Answer("ICB_ACCEPT", "SUCCESS", "OTHER")
    BY <1>1, <2>1, <2>2, <2>3, <2>4, StillKeeps DEF Types
  <2>5. CASE Answer("ICB_ACCEPT", "ALARM", "OTHER")
    BY <1>1, <2>1, <2>2, <2>3, <2>5, StillKeeps DEF Types
  <2> QED
    BY <2>2, <2>4, <2>5
<1> QED
  BY <1>2, <1>3, <1>4

\* A stroke that is asked while the note is outside finds it before the plate.
LEMMA StackerKeeps == ASSUME IInv, StackerAnswers PROVE IInv'
<1>1. Types /\ Device /\ UNCHANGED <<note, paper, off, counted, events>>
  BY DEF IInv, StackerAnswers, Stacker
<1>2. /\ {"STACKER_HOME", "STACKER_EXEC", "STACKER_PULL", "STACKER_NG_PULL", "STACKER_EXEC_RE"} \subseteq Requests
      /\ {"SUCCESS", "ALARM", "REJECT"} \subseteq Subs
  BY DEF Requests, Tasks, Subs
<1>3. ASSUME Open PROVE "STACKER_PULL" \notin work /\ (work \cap Strokes # {} => note = "chamber")
  BY <1>3 DEF IInv, OpenInv, OpenStrokes
<1>4. CASE Answer("STACKER_EXEC", "SUCCESS", "OTHER") /\ Pushed /\ UNCHANGED home
  <2>1. ~Open
    BY <1>3, <1>4 DEF Answer, Pushed, Strokes
  <2> QED
    BY <1>1, <1>2, <1>4, <2>1, StillKeeps DEF Types
<1>5. CASE Answer("STACKER_EXEC", "REJECT", "OTHER") /\ UNCHANGED home
  BY <1>1, <1>2, <1>5, StillKeeps DEF Types
<1>6. CASE Answer("STACKER_EXEC_RE", "SUCCESS", "OTHER") /\ Pushed /\ home' = TRUE
  <2>1. ~Open
    BY <1>3, <1>6 DEF Answer, Pushed, Strokes
  <2> QED
    BY <1>1, <1>2, <1>6, <2>1, StillKeeps DEF Types
<1>7. CASE Answer("STACKER_EXEC_RE", "ALARM", "FULL") /\ Pushed /\ UNCHANGED home
  <2>1. ~Open
    BY <1>3, <1>7 DEF Answer, Pushed, Strokes
  <2> QED
    BY <1>1, <1>2, <1>7, <2>1, StillKeeps DEF Types
<1>8. ASSUME NEW r \in {"STACKER_HOME", "STACKER_PULL", "STACKER_NG_PULL"},
             Answer(r, "SUCCESS", "OTHER") /\ home' = TRUE
      PROVE  IInv'
  <2>1. Open => r # "STACKER_PULL"
    BY <1>3, <1>8 DEF Answer
  <2> QED
    BY <1>1, <1>2, <1>8, <2>1, StillKeeps DEF Types
<1>9. ASSUME NEW r \in Requests, Answer(r, "ALARM", "OTHER") /\ UNCHANGED home PROVE IInv'
  BY <1>1, <1>2, <1>9, StillKeeps DEF Types
<1> QED
  BY <1>4, <1>5, <1>6, <1>7, <1>8, <1>9 DEF StackerAnswers

LEMMA FeedKeeps == ASSUME IInv, Feed \/ FeedPauses PROVE IInv'
<1>1. Types /\ Always /\ (Live => LiveInv) /\ (Open => OpenInv) /\ MaxEvents \in Nat
  BY BoundAssumption DEF IInv
<1>2. /\ {"FEED_SEARCH", "FEED_INITIAL", "FEED_FORCE", "FEED_PAUSED", "FEED_REJECT"} \subseteq Requests
      /\ {"SUCCESS", "ALARM", "REJECT", "INTERIM", "PAUSE", "RESUME"} \subseteq Subs
      /\ "FEED_FORCE" \in Codes
  BY DEF Requests, Tasks, Subs, Codes
<1>3. Device /\ UNCHANGED <<off, home, counted>>
  BY DEF Feed, FeedPauses, FeedSearches, FeedClears, FeedForces, FeedResumes, FeedRejects, Feeds
<1>4. CASE FeedSearches
  <2>1. /\ Answer("FEED_SEARCH", "SUCCESS", "OTHER") /\ UNCHANGED <<paper, events>>
        /\ note' = note \/ (note = "chamber" /\ note' \in {"chamber", "exit", "escrow"})
    BY <1>4 DEF FeedSearches
  <2>2. boxed' = boxed
    BY <2>1 DEF boxed
  <2>3. Displaced("FEED_SEARCH", "FEED_SEARCH", "SUCCESS", "OTHER")
    BY <1>1, <1>3, <2>1, <2>2 DEF Displaced, Types, Always, LiveInv, Left
  <2> QED
    BY <1>2, <1>3, <2>1, <2>3, AnswerKeeps
<1>5. CASE FeedClears
  <2>1. UNCHANGED <<note, paper, events>> /\ (Live => ~paper)
    BY <1>1, <1>5 DEF FeedClears, Always, Live
  <2>2. CASE Answer("FEED_INITIAL", "ALARM", "OTHER")
    BY <1>1, <1>2, <1>3, <2>1, <2>2, StillKeeps DEF Types
  <2>3. CASE paper /\ Answer("FEED_INITIAL", "REJECT", "OTHER")
    BY <1>1, <1>2, <1>3, <2>1, <2>3, StillKeeps DEF Types
  <2>4. CASE ~paper /\ Answer("FEED_INITIAL", "SUCCESS", "OTHER")
    BY <1>1, <1>2, <1>3, <2>1, <2>4, StillKeeps DEF Types
  <2> QED
    BY <1>5, <2>2, <2>3, <2>4 DEF FeedClears
<1>6. CASE FeedForces
  <2>1. UNCHANGED <<paper, events>>
    BY <1>6 DEF FeedForces
  <2>2. CASE /\ note \in {"exit", "chamber"} /\ Answer("FEED_FORCE", "SUCCESS", "OTHER")
             /\ note' = "chamber"
    <3>1. boxed' = boxed
      BY <2>2 DEF boxed
    <3>2. Displaced("FEED_FORCE", "FEED_FORCE", "SUCCESS", "OTHER")
      BY <1>1, <1>3, <2>1, <2>2, <3>1 DEF Displaced, Types, Always, LiveInv, Left
    <3> QED
      BY <1>2, <1>3, <2>2, <3>2, AnswerKeeps
  <2>3. CASE Answer("FEED_FORCE", "ALARM", "OTHER") /\ UNCHANGED note
    BY <1>1, <1>2, <1>3, <2>1, <2>3, StillKeeps DEF Types
  <2> QED
    BY <1>6, <2>2, <2>3 DEF FeedForces
<1>7. ASSUME NEW r \in Forces, NEW q \in Forces, NEW t \in {"PAUSE", "RESUME"}, r \in work,
             work' = (work \ {r}) \cup {q}, Send("FEED_FORCE", t, "OTHER"),
             UNCHANGED <<note, paper>>, events' \in 0 .. MaxEvents
      PROVE  IInv'
  <2>1. boxed' = boxed /\ UNCHANGED devices
    BY <1>3, <1>7 DEF boxed, Device
  <2>2. Displaced(r, "FEED_FORCE", t, "OTHER")
    BY <1>1, <1>3, <1>7, <2>1 DEF Displaced, Types, Always, LiveInv
  <2> DEFINE more == {q}
  <2>3. more \subseteq Forces /\ work' = (work \ {r}) \cup more /\ t \in Subs
    BY <1>2, <1>7
  <2> HIDE DEF more
  <2> QED
    BY <1>2, <1>7, <2>1, <2>2, <2>3, DeviceKeeps
<1>8. CASE FeedPauses
  <2>1. events' \in 0 .. MaxEvents
    BY <1>1, <1>8 DEF FeedPauses, Event, Types
  <2> QED
    BY <1>7, <1>8, <2>1 DEF FeedPauses, Forces
<1>9. CASE FeedResumes
  <2>1. events' \in 0 .. MaxEvents
    BY <1>1, <1>9 DEF FeedResumes, Types
  <2> QED
    BY <1>7, <1>9, <2>1 DEF FeedResumes, Forces
<1>10. CASE FeedRejects
  <2>1. \E t \in {"SUCCESS", "INTERIM", "ALARM"} : Answer("FEED_REJECT", t, "OTHER")
    BY <1>10 DEF FeedRejects
  <2>2. ~Live
    BY <1>1, <2>1 DEF Answer, LiveInv
  <2>3. events' \in 0 .. MaxEvents
    BY <1>1, <1>10 DEF FeedRejects, Event, Types
  <2>4. /\ note' = note \/ (note \in {"escrow", "exit"} /\ note' = "mouth")
        /\ paper' = paper \/ paper' = FALSE
    BY <1>10 DEF FeedRejects
  <2>5. boxed' = boxed
    BY <2>4 DEF boxed
  <2>6. \A t : Displaced("FEED_REJECT", "FEED_REJECT", t, "OTHER")
    BY <1>1, <1>3, <2>2, <2>3, <2>4, <2>5 DEF Displaced, Types, Always, Open
  <2> QED
    BY <1>2, <1>3, <2>1, <2>6, AnswerKeeps
<1> QED
  BY <1>4, <1>5, <1>6, <1>8, <1>9, <1>10 DEF Feed

\* The plate pushes the note into the box, which closes what was open.
LEMMA PushKeeps == ASSUME IInv, StackerPushes PROVE IInv'
<1>1. /\ Types /\ Always /\ UNCHANGED devices /\ UNCHANGED <<main_mbx, work, paper, off, counted, events>>
      /\ home' = FALSE /\ (note' = note \/ (note = "chamber" /\ note' = "past"))
  BY DEF IInv, StackerPushes, Stacker, Device
<1>2. /\ UNCHANGED <<icb, vends, mode, reset, pause, tries, step, line_mbx, box, line, acked, disturbed>>
      /\ \A ms : LineIn(ms)' = LineIn(ms)
  BY <1>1 DEF devices, options, mvars, LineIn
<1>3. Types'
  BY <1>1, <1>2 DEF Types, Left
<1>4. boxed => boxed'
  BY <1>1 DEF boxed
<1>5. Always'
  BY <1>1, <1>2, <1>4 DEF Always
<1>6. Live' = Live /\ Posted' = Posted /\ Tidings' = Tidings
  BY <1>1, <1>2 DEF Live, Posted, Tidings
<1>7. ASSUME Live PROVE LiveInv'
  <2>1. LiveInv /\ (note' = "escrow" <=> note = "escrow") /\ note' \notin {"mouth", "gone"}
    BY <1>1, <1>7 DEF IInv, LiveInv
  <2> QED
    BY <1>1, <1>2, <1>6, <2>1 DEF LiveInv
<1>8. ASSUME Open' PROVE OpenInv'
  <2>1. note' = note /\ Open
    BY <1>1, <1>4, <1>6, <1>8 DEF Open, boxed
  <2>2. OpenInv
    BY <2>1 DEF IInv
  <2> QED
    BY <1>1, <1>2, <1>6, <2>1, <2>2 DEF OpenInv, OpenModes, OpenStrokes, OpenSearch, OpenPlace,
       Early, Busy, Coded, Succeeded, Once
<1> QED
  BY <1>3, <1>5, <1>6, <1>7, <1>8 DEF IInv

-----------------------------------------------------------------------------
(* The line task and the host: they read one message or none, send one or    *)
(* none, and clear the step or leave it.                                     *)

lineframe ==
  <<icb, vends, mode, reset, pause, tries, work, note, paper, box, off, home, counted, disturbed>>

\* The step stays recorded.
Kept == step' # "NON"

Turned ==
  /\ line' \in Lines /\ step' \in {step, "NON"} /\ acked' \in BOOLEAN
  /\ line'.mode \in Starting \cup PowerUps => line'.kind = "powerup"
  /\ line'.mode = "perror" => line'.stat # "RECOVER"
  /\ acked' => step' = "NON" /\ line'.stat # "RECOVER" /\ line'.mode \notin Crediting
  /\ /\ line'.mode \in {"powerup"} \cup Initialising
     /\ line'.kind = "powerup" /\ line'.stat = "RECOVER"
     => step' # "NON" \/ disturbed
  /\ line'.mode \in Crediting => (boxed /\ Kept) \/ disturbed
  /\ Live /\ Kept =>
       line'.kind = "powerup" /\ line'.mode \notin {"perror", "reject", "done", "error"}
  /\ Open /\ Kept =>
       /\ line'.mode \notin Crediting
       /\ line'.mode \in Starting \cup {"powerup"} => Early
       /\ line'.mode = "boot" => line.mode = "boot"
       /\ line'.mode = "search" => line.mode \in Starting
       /\ line.mode = "search" /\ line'.mode # "search" => \E t \in Tidings : t.code = "SEARCH"
       /\ line.mode = "search" /\ line'.mode = "powerup" =>
            line_mbx # << >> /\ told.code = "SEARCH"
       /\ note = "escrow" /\ line'.mode \in {"powerup"} \cup Initialising => line'.stat # "RECOVER"

\* What main is sent.
Asking(c) ==
  /\ c \in {"SEARCH", "RESET", "STACK_REQ", "REJECT_REQ", "ENABLE", "LOST_BILL"}
  /\ Live /\ Kept => c \in {"SEARCH", "RESET", "STACK_REQ"}
  /\ Open /\ Kept =>
       /\ c = "SEARCH" => line.mode = "boot" /\ line'.mode = "search"
       /\ c = "RESET" => Early /\ line'.mode \notin Starting \cup {"powerup"}

Sending == main_mbx' = main_mbx \/ \E c \in Codes : Send(c, "none", "OTHER") /\ Asking(c)

Hearing ==
  /\ line_mbx' = line_mbx \/ (line_mbx # << >> /\ line_mbx' = Tail(line_mbx))
  /\ events' \in 0 .. MaxEvents

LEMMA LineKeeps ==
  ASSUME IInv, UNCHANGED lineframe, Turned, Sending, Hearing
  PROVE  IInv'
<1>1. /\ Types /\ Always
      /\ UNCHANGED <<icb, vends, mode, reset, pause, tries, work, note, paper, box, off, home, counted, disturbed>>
  BY DEF IInv, lineframe
<1>2. \/ main_mbx' = main_mbx
      \/ \E c \in Codes :
           /\ main_mbx' \in Seq(Messages) /\ Len(main_mbx') <= MailBlocks
           /\ \A msg \in Posted' : msg \in Posted \/ (msg.code = c /\ msg.sub = "none" /\ msg.arg = "OTHER")
           /\ \A k \in {"RESET", "SEARCH"} : Once(k) /\ (c # k \/ ~Coded(k)) => Once(k)'
           /\ Asking(c)
  <2>1. ASSUME NEW c \in Codes, Send(c, "none", "OTHER"), Asking(c)
        PROVE  /\ main_mbx' \in Seq(Messages) /\ Len(main_mbx') <= MailBlocks
               /\ \A msg \in Posted' : msg \in Posted \/ (msg.code = c /\ msg.sub = "none" /\ msg.arg = "OTHER")
               /\ \A k \in {"RESET", "SEARCH"} : Once(k) /\ (c # k \/ ~Coded(k)) => Once(k)'
    <3>1. "none" \in Subs /\ "OTHER" \in {"OTHER", "FULL"}
      BY DEF Subs
    <3> QED
      BY <1>1, <2>1, <3>1, Sent
  <2> QED
    BY <2>1 DEF Sending
<1>3. /\ line_mbx' \in Seq(Results) /\ Tidings' \subseteq Tidings
  <2>1. CASE line_mbx' = line_mbx
    BY <1>1, <2>1 DEF Types, Tidings
  <2>2. CASE line_mbx # << >> /\ line_mbx' = Tail(line_mbx)
    BY <1>1, <2>2, Listening
  <2> QED
    BY <2>1, <2>2 DEF Hearing
<1>4. Types'
  BY <1>1, <1>2, <1>3 DEF Types, Turned, Hearing, Steps
<1>5. Always'
  BY <1>1 DEF Always, Turned, Kept, LineIn, boxed, Types, Steps
<1>6. (Live' => Live /\ Kept) /\ (Open' => Open /\ Kept)
  BY <1>1 DEF Live, Open, Kept, boxed, Turned
<1>7. ASSUME Live' PROVE LiveInv'
  <2>1. LiveInv /\ Kept /\ Live
    BY <1>6, <1>7 DEF IInv
  <2>2. \A msg \in Posted' :
          /\ msg.code \notin {"REJECT_REQ", "ENABLE", "LOST_BILL"}
          /\ ~(msg.code = "FEED_INITIAL" /\ msg.sub = "REJECT")
    BY <1>2, <2>1 DEF LiveInv, Asking, Posted
  <2> QED
    BY <1>1, <1>3, <2>1, <2>2 DEF LiveInv, Turned, LineIn
<1>8. ASSUME Open' PROVE OpenInv'
  <2>1. /\ OpenModes /\ OpenStrokes /\ OpenSearch /\ OpenPlace /\ Kept /\ Open
        /\ Live
    BY <1>6, <1>8 DEF IInv, OpenInv, Open
  <2>2. /\ line'.mode \notin Crediting
        /\ line'.mode \in Starting \cup {"powerup"} => Early
        /\ line'.mode = "boot" => line.mode = "boot"
        /\ line'.mode = "search" => line.mode \in Starting
        /\ line.mode = "search" /\ line'.mode # "search" => \E t \in Tidings : t.code = "SEARCH"
        /\ line.mode = "search" /\ line'.mode = "powerup" =>
             line_mbx # << >> /\ told.code = "SEARCH"
        /\ note = "escrow" /\ line'.mode \in {"powerup"} \cup Initialising => line'.stat # "RECOVER"
    BY <2>1 DEF Turned
  <2>3. /\ Early' => Early
        /\ LineIn({"boot"})' => LineIn({"boot"})
    BY <2>2 DEF Early, LineIn
  <2>4. /\ \A k : Coded(k)' => \/ Coded(k)
                               \/ /\ k = "SEARCH" /\ line.mode = "boot" /\ line'.mode = "search"
                               \/ /\ k = "RESET" /\ Early /\ line'.mode \notin Starting \cup {"powerup"}
                               \/ k = "STACK_REQ"
        /\ \A k : Succeeded(k)' => Succeeded(k)
        /\ Once("RESET") => Once("RESET")' \/ (Coded("RESET") /\ Early)
        /\ Once("SEARCH") => Once("SEARCH")' \/ (Coded("SEARCH") /\ line.mode = "boot")
        /\ \A msg \in Posted' : msg \in Posted \/ (msg.sub = "none" /\ msg.arg = "OTHER")
    <3>1. CASE main_mbx' = main_mbx
      BY <3>1 DEF Coded, Succeeded, Once, Posted
    <3>2. ASSUME NEW c \in Codes,
                 \A msg \in Posted' : msg \in Posted \/ (msg.code = c /\ msg.sub = "none" /\ msg.arg = "OTHER"),
                 \A k \in {"RESET", "SEARCH"} : Once(k) /\ (c # k \/ ~Coded(k)) => Once(k)',
                 Asking(c)
          PROVE  /\ \A k : Coded(k)' => \/ Coded(k)
                                        \/ /\ k = "SEARCH" /\ line.mode = "boot" /\ line'.mode = "search"
                                        \/ /\ k = "RESET" /\ Early /\ line'.mode \notin Starting \cup {"powerup"}
                                        \/ k = "STACK_REQ"
                 /\ \A k : Succeeded(k)' => Succeeded(k)
                 /\ Once("RESET") => Once("RESET")' \/ (Coded("RESET") /\ Early)
                 /\ Once("SEARCH") => Once("SEARCH")' \/ (Coded("SEARCH") /\ line.mode = "boot")
                 /\ \A msg \in Posted' : msg \in Posted \/ (msg.sub = "none" /\ msg.arg = "OTHER")
      <4>1. /\ c \in {"SEARCH", "RESET", "STACK_REQ"}
            /\ c = "SEARCH" => line.mode = "boot" /\ line'.mode = "search"
            /\ c = "RESET" => Early /\ line'.mode \notin Starting \cup {"powerup"}
        BY <2>1, <3>2 DEF Asking
      <4> QED
        BY <3>2, <4>1 DEF Coded, Succeeded
    <3> QED
      BY <1>2, <3>1, <3>2
  <2>5. OpenModes'
    <3>1. Coded("RESET")' => Coded("RESET") \/ (Early /\ ~Early')
      BY <2>4 DEF Early, LineIn
    <3>2. Early => mode \notin Before
      BY <2>1 DEF OpenModes, Before, PowerUpModes
    <3>3. Once("RESET")'
      BY <2>1, <2>4 DEF OpenModes
    <3> QED
      BY <1>1, <2>1, <2>2, <2>3, <3>1, <3>2, <3>3 DEF OpenModes, LineIn
  <2>6. OpenStrokes'
    <3>1. Busy' => Busy
      BY <1>1, <2>4 DEF Busy
    <3>2. Busy' => mode' \in Moving /\ ~Coded("RESET")' /\ ~Early'
      BY <1>1, <2>1, <2>3, <2>4, <3>1 DEF OpenStrokes
    <3> QED
      BY <1>1, <1>3, <2>1, <2>4, <3>2 DEF OpenStrokes
  <2>7. OpenSearch'
    <3>1. line.mode = "boot" =>
            /\ ~LineIn({"search"}) /\ LineIn({"boot"})
            /\ mode \notin {"SENSOR_ACTIVE", "STACKER_HOME"}
            /\ ~Coded("SEARCH") /\ "FEED_SEARCH" \notin work
            /\ ~Coded("FEED_SEARCH") /\ \A msg \in Tidings : msg.code # "SEARCH"
      BY <2>1 DEF OpenSearch, LineIn
    <3>2. LineIn({"search"}) /\ (\A msg \in Tidings : msg.code # "SEARCH") => LineIn({"search"})'
      BY <2>2 DEF LineIn
    <3>3. Coded("SEARCH")' => Coded("SEARCH") \/ (line.mode = "boot" /\ LineIn({"search"})')
      BY <2>4 DEF LineIn
    <3>4. Coded("FEED_SEARCH")' => Coded("FEED_SEARCH")
      BY <2>4
    <3>5. Once("SEARCH")'
      BY <2>1, <2>4, <3>1 DEF OpenSearch
    <3> QED
      BY <1>1, <1>3, <2>1, <2>3, <3>1, <3>2, <3>3, <3>4, <3>5 DEF OpenSearch
  <2>8. OpenPlace'
    <3> SUFFICES ASSUME note = "escrow"
                 PROVE  /\ LineIn({"powerup"} \cup Initialising)' => line'.stat # "RECOVER"
                        /\ LineIn({"boot"})' => \A msg \in Tidings' : ~Tells(msg, "INITIAL")
                        /\ LineIn({"search"})' => \A msg \in Tidings' : ~Tells(msg, "SEARCH")
                        /\ \A j \in DOMAIN line_mbx' :
                             Tells(line_mbx'[j], "STATUS") =>
                               /\ ~LineIn({"boot", "powerup"})'
                               /\ \A i \in 1 .. j : line_mbx'[i].code # "SEARCH"
      BY <1>1 DEF OpenPlace
    <3>1. LineIn({"powerup"} \cup Initialising)' => line'.stat # "RECOVER"
      BY <2>2 DEF LineIn
    <3>2. LineIn({"boot"})' => \A msg \in Tidings' : ~Tells(msg, "INITIAL")
      BY <1>3, <2>1, <2>3 DEF OpenPlace
    <3>3. LineIn({"search"})' => \A msg \in Tidings' : ~Tells(msg, "SEARCH")
      BY <1>3, <2>1, <2>2 DEF OpenPlace, OpenSearch, LineIn, Starting, Tells
    <3>4. LineIn({"boot", "powerup"})' =>
            LineIn({"boot", "powerup"}) \/ (line_mbx # << >> /\ told.code = "SEARCH")
      BY <2>2 DEF LineIn, Early, Starting
    <3>5. ASSUME NEW j \in DOMAIN line_mbx, Tells(line_mbx[j], "STATUS")
          PROVE  ~LineIn({"boot", "powerup"})' /\ \A i \in 1 .. j : line_mbx[i].code # "SEARCH"
      <4>1. ~LineIn({"boot", "powerup"}) /\ \A i \in 1 .. j : line_mbx[i].code # "SEARCH"
        BY <2>1, <3>5 DEF OpenPlace
      <4>2. line_mbx # << >> => told.code # "SEARCH"
        <5>1. line_mbx \in Seq(Results)
          BY <1>1 DEF Types
        <5>2. line_mbx # << >> => told = line_mbx[1]
          BY <5>1, HeadTailProperties, EmptySeq, LenProperties DEF told
        <5>3. j \in 1 .. Len(line_mbx) /\ Len(line_mbx) \in Nat
          BY <3>5, <5>1, LenProperties
        <5>4. 1 \in 1 .. j
          BY <5>3
        <5> QED
          BY <4>1, <5>2, <5>4
      <4> QED
        BY <3>4, <4>1, <4>2
    <3>6. CASE line_mbx' = line_mbx
      BY <3>1, <3>2, <3>3, <3>5, <3>6
    <3>7. CASE line_mbx # << >> /\ line_mbx' = Tail(line_mbx)
      <4>1. /\ Len(line_mbx) \in Nat /\ DOMAIN line_mbx = 1 .. Len(line_mbx)
            /\ DOMAIN line_mbx' = 1 .. (Len(line_mbx) - 1)
            /\ \A i \in 1 .. (Len(line_mbx) - 1) : line_mbx'[i] = line_mbx[i + 1]
        BY <1>1, <3>7, Listening
      <4>2. ASSUME NEW j \in DOMAIN line_mbx', Tells(line_mbx'[j], "STATUS")
            PROVE  ~LineIn({"boot", "powerup"})' /\ \A i \in 1 .. j : line_mbx'[i].code # "SEARCH"
        <5>1. j + 1 \in DOMAIN line_mbx /\ line_mbx'[j] = line_mbx[j + 1]
          BY <4>1
        <5>2. ~LineIn({"boot", "powerup"})' /\ \A i \in 1 .. (j + 1) : line_mbx[i].code # "SEARCH"
          BY <3>5, <4>2, <5>1
        <5>3. \A i \in 1 .. j : i + 1 \in 1 .. (j + 1) /\ line_mbx'[i] = line_mbx[i + 1]
          BY <4>1
        <5> QED
          BY <5>2, <5>3
      <4> QED
        BY <3>1, <3>2, <3>3, <4>2
    <3> QED
      BY <3>6, <3>7 DEF Hearing
  <2> QED
    BY <2>5, <2>6, <2>7, <2>8 DEF OpenInv
<1> QED
  BY <1>4, <1>5, <1>7, <1>8 DEF IInv

\* Where the line task stands.
Standing ==
  /\ line \in Lines /\ step \in Steps /\ acked \in BOOLEAN
  /\ line.mode \in Starting \cup PowerUps => line.kind = "powerup"
  /\ line.mode = "perror" => line.stat # "RECOVER"
  /\ acked => step = "NON" /\ line.stat # "RECOVER" /\ line.mode \notin Crediting
  /\ /\ line.mode \in {"powerup"} \cup Initialising
     /\ line.kind = "powerup" /\ line.stat = "RECOVER"
     => step # "NON" \/ disturbed
  /\ line.mode \in Crediting => (boxed /\ step # "NON") \/ disturbed
  /\ Live => /\ line.kind = "powerup" /\ line.mode \notin {"perror", "reject", "done", "error"}
             /\ step # "NON"
  /\ Open => /\ line.mode \notin Crediting /\ Live
             /\ note = "escrow" /\ line.mode \in {"powerup"} \cup Initialising => line.stat # "RECOVER"
  /\ step # "NON" /\ ~disturbed => Live
  /\ Live /\ ~boxed => Open
  /\ note = "escrow" => ~boxed

LEMMA Stands == ASSUME IInv PROVE Standing
<1>1. Types /\ Always /\ (Live => LiveInv) /\ (Open => OpenModes /\ OpenPlace)
  BY DEF IInv, OpenInv
<1>2. line \in Lines /\ step \in Steps /\ acked \in BOOLEAN
  BY <1>1 DEF Types
<1>3. Open => /\ line.mode \notin Crediting /\ Live
              /\ note = "escrow" /\ line.mode \in {"powerup"} \cup Initialising => line.stat # "RECOVER"
  BY <1>1 DEF OpenModes, OpenPlace, LineIn, Open
<1>4. Live => /\ line.kind = "powerup" /\ line.mode \notin {"perror", "reject", "done", "error"}
              /\ step # "NON"
  BY <1>1 DEF LiveInv, LineIn, Live
<1>5. (step # "NON" /\ ~disturbed => Live) /\ (Live /\ ~boxed => Open) /\ (note = "escrow" => ~boxed)
  BY DEF Live, Open, boxed
<1> QED
  BY <1>1, <1>2, <1>3, <1>4, <1>5 DEF Always, LineIn, Standing

\* What the line task hears from main.
Heard ==
  /\ line_mbx # << >> /\ told \in Results
  /\ Live => /\ told.sub = "REMAIN" /\ told.arg # "STACKER" => note = "escrow"
             /\ told.sub # "INIT_REJECT_REQUEST"
  /\ Open =>
       /\ ~(told.code = "RESET" /\ told.sub = "SUCCESS")
       /\ told.sub \notin {"END_INIT_STACK", "INIT_REJECT_REMOVE"}
       /\ told.arg # "FULL"
       /\ note = "escrow" =>
            /\ line.mode = "boot" => ~Tells(told, "INITIAL")
            /\ line.mode = "search" => ~Tells(told, "SEARCH")
            /\ line.mode = "powerup" => ~Tells(told, "STATUS")
       /\ told.code = "SEARCH" => \E t \in Tidings : t.code = "SEARCH"

LEMMA Hears == ASSUME IInv, line_mbx # << >>, line_mbx' = Tail(line_mbx) PROVE Heard
<1>1. Types /\ (Live => LiveInv) /\ (Open => OpenStrokes /\ OpenPlace)
  BY DEF IInv, OpenInv
<1>2. /\ told \in Results /\ told \in Tidings /\ told = line_mbx[1]
      /\ DOMAIN line_mbx = 1 .. Len(line_mbx) /\ Len(line_mbx) \in Nat /\ Len(line_mbx) >= 1
  BY <1>1, Listening
<1>3. 1 \in DOMAIN line_mbx
  BY <1>2
<1>4. Live => /\ told.sub = "REMAIN" /\ told.arg # "STACKER" => note = "escrow"
              /\ told.sub # "INIT_REJECT_REQUEST"
  BY <1>1, <1>2 DEF LiveInv
<1>5. Open =>
       /\ ~(told.code = "RESET" /\ told.sub = "SUCCESS")
       /\ told.sub \notin {"END_INIT_STACK", "INIT_REJECT_REMOVE"}
       /\ told.arg # "FULL"
  BY <1>1, <1>2 DEF OpenStrokes
<1>6. Open /\ note = "escrow" =>
        /\ line.mode = "boot" => ~Tells(told, "INITIAL")
        /\ line.mode = "search" => ~Tells(told, "SEARCH")
        /\ line.mode = "powerup" => ~Tells(told, "STATUS")
  BY <1>1, <1>2, <1>3 DEF OpenPlace, LineIn
<1> QED
  BY <1>2, <1>4, <1>5, <1>6 DEF Heard

Standstill == UNCHANGED <<line, step>> /\ Quiet

LEMMA StandstillTurns ==
  ASSUME Standing, Standstill, acked' = acked PROVE Turned /\ Sending
BY DEF Standing, Standstill, Quiet, Turned, Kept, Sending, Early, LineIn, Starting

\* The step is cleared.
LEMMA ClearTurns ==
  ASSUME Standing, line' \in Lines, step' = "NON", acked' \in BOOLEAN,
         line'.mode \in Starting \cup PowerUps => line'.kind = "powerup",
         line'.mode = "perror" => line'.stat # "RECOVER",
         acked' => line'.stat # "RECOVER" /\ line'.mode \notin Crediting,
         line'.mode \in {"powerup"} \cup Initialising /\ line'.kind = "powerup"
           => line'.stat # "RECOVER" \/ disturbed,
         line'.mode \notin Crediting,
         Quiet \/ \E c \in {"RESET", "STACK_REQ", "REJECT_REQ", "ENABLE", "LOST_BILL"} :
                    Send(c, "none", "OTHER")
  PROVE  Turned /\ Sending
<1>1. Turned
  BY DEF Turned, Kept
<1>2. Sending
  <2>1. {"RESET", "STACK_REQ", "REJECT_REQ", "ENABLE", "LOST_BILL"} \subseteq Codes
    BY DEF Codes
  <2> QED
    BY <2>1 DEF Sending, Asking, Kept, Quiet
<1> QED
  BY <1>1, <1>2

\* A fault, a reject, a lost note.
LEMMA ErrorTurns ==
  ASSUME Standing, acked' = acked, Quiet, ToError
  PROVE  Turned /\ Sending
<1>1. /\ step' = "NON" /\ line' \in Lines /\ line'.kind = line.kind
      /\ line'.stat = line.stat /\ line'.mode = "error"
  BY DEF Standing, ToError, Goes, Lines, LineModes
<1> QED
  BY <1>1, ClearTurns DEF Standing, Initialising, Crediting, Starting, PowerUps

LEMMA PowerErrorTurns ==
  ASSUME Standing, acked' = acked, PowerError, line.kind = "powerup"
  PROVE  Turned /\ Sending
<1>1. /\ step' = "NON" /\ line' \in Lines /\ line'.kind = "powerup" /\ Quiet
      /\ line'.stat = "OTHER" /\ line'.mode = "perror"
  BY DEF Standing, PowerError, Lines, LineModes, PowerUps
<1> QED
  BY <1>1, ClearTurns DEF Standing, Initialising, Crediting, Starting, PowerUps

LEMMA RejectTurns ==
  ASSUME Standing, acked' = acked, ToReject, line.mode \in Initialising,
         Live => note = "escrow"
  PROVE  Turned /\ Sending
<1>1. /\ step' = "NON" /\ line' \in Lines /\ line'.kind = line.kind /\ line'.stat = line.stat
      /\ line'.mode = "reject" /\ Send("REJECT_REQ", "none", "OTHER")
  BY DEF Standing, ToReject, Goes, Lines, LineModes, Initialising
<1>2. line.kind = "powerup" /\ line.stat = "RECOVER" => disturbed
  BY DEF Standing
<1> QED
  BY <1>1, <1>2, ClearTurns DEF Standing, Initialising, Crediting, Starting, PowerUps

LEMMA LostTurns ==
  ASSUME Standing, acked' = acked, LostBill, line.kind = "powerup" PROVE Turned /\ Sending
<1>1. /\ step' = "NON" /\ line' \in Lines /\ line'.kind = "powerup" /\ line'.stat = "SEARCH_NON"
      /\ line'.mode = "perror" /\ Send("LOST_BILL", "none", "OTHER")
  BY DEF Standing, LostBill, Lines, LineModes, PowerUps
<1> QED
  BY <1>1, ClearTurns DEF Standing, Initialising, Crediting, Starting, PowerUps

\* The line task has found out about the note.
LEMMA FoundTurns ==
  ASSUME Standing, Heard, acked' = acked, NEW v \in {"OTHER", "RECOVER"}, Found(v), UNCHANGED step, Quiet,
         line.mode \in Starting \cup PowerUps,
         line.mode = "search" => told.code = "SEARCH",
         v = "RECOVER" => /\ step # "NON"
                          /\ \/ Tells(told, "INITIAL") /\ line.mode = "boot"
                             \/ Tells(told, "SEARCH") /\ line.mode = "search"
                             \/ Tells(told, "STATUS") /\ line.mode \in PowerUps
  PROVE  Turned /\ Sending
<1>1. /\ line' \in Lines /\ line'.mode = "powerup" /\ line'.stat = v /\ line'.kind = line.kind
      /\ line.kind = "powerup"
  BY DEF Standing, Found, Lines, LineModes, PowerUps
<1>2. Live => line.mode # "perror"
  BY DEF Standing
<1>3. Open => Early
  BY <1>2 DEF Standing, Early, LineIn, PowerUps
<1>4. Open /\ note = "escrow" => v # "RECOVER"
  BY <1>2 DEF Standing, Heard, PowerUps
<1>5. Turned
  BY <1>1, <1>2, <1>3, <1>4 DEF Turned, Standing, Heard, Crediting, Starting, PowerUps, Initialising
<1> QED
  BY <1>5 DEF Sending, Quiet

\* power_recover_003 keeps what it reads of the step true to the note.
LEMMA RecoverTurns ==
  ASSUME Standing, Heard, acked' = acked, power_recover_003(told.arg), told.sub = "SUCCESS",
         \/ line.mode = "search" /\ told.code = "SEARCH"
         \/ line.mode \in PowerUps /\ told.code = "STATUS"
  PROVE  Turned /\ Sending
<1>1. line.mode \in Starting \cup PowerUps /\ (line.mode = "search" => told.code = "SEARCH")
  BY DEF Starting, PowerUps
<1>2. told.arg # "ACCEPTOR" =>
        \/ Tells(told, "SEARCH") /\ line.mode = "search"
        \/ Tells(told, "STATUS") /\ line.mode \in PowerUps
  BY DEF Tells
<1>3. CASE told.arg = "ACCEPTOR" /\ Found("OTHER") /\ UNCHANGED step /\ Quiet
  BY <1>1, <1>3, FoundTurns
<1>4. CASE /\ told.arg = "STACKER" /\ Found(IF step = "NON" THEN "OTHER" ELSE "RECOVER")
           /\ UNCHANGED step /\ Quiet
  <2>1. CASE step = "NON"
    BY <1>1, <1>4, <2>1, FoundTurns
  <2>2. CASE step # "NON"
    BY <1>1, <1>2, <1>4, <2>2, FoundTurns
  <2> QED
    BY <2>1, <2>2
<1>5. CASE LostBill
  BY <1>1, <1>5, LostTurns DEF Standing
<1>6. CASE /\ told.arg \in {"NON", "ENTRANCE"} /\ Found(IF stroked THEN "RECOVER" ELSE "OTHER")
           /\ UNCHANGED step /\ Quiet
  <2>1. CASE stroked
    <3>1. step # "NON"
      BY <2>1 DEF stroked, Stroked
    <3> QED
      BY <1>1, <1>2, <1>6, <2>1, <3>1, FoundTurns
  <2>2. CASE ~stroked
    BY <1>1, <1>6, <2>2, FoundTurns
  <2> QED
    BY <2>1, <2>2
<1> QED
  BY <1>3, <1>4, <1>5, <1>6 DEF power_recover_003

LEMMA InitialTurns ==
  ASSUME Standing, Heard, acked' = acked, line.mode \in Starting, id003_initial
  PROVE  Turned /\ Sending
<1>1. line.mode \in Starting \cup PowerUps /\ line.kind = "powerup"
  BY DEF Standing
<1>2. CASE /\ line.mode = "boot" /\ told.code = "INITIAL" /\ told.sub = "SUCCESS" /\ UNCHANGED step
           /\ Quiet /\ Found("OTHER")
  BY <1>1, <1>2, FoundTurns
<1>3. CASE /\ line.mode = "boot" /\ told.code = "INITIAL" /\ told.sub = "SUCCESS" /\ UNCHANGED step
           /\ told.arg # "ACCEPTOR" /\ step # "NON" /\ Quiet /\ Found("RECOVER")
  BY <1>1, <1>3, FoundTurns DEF Tells
<1>4. CASE line.mode = "boot" /\ UNCHANGED step /\ Goes("search") /\ Send("SEARCH", "none", "OTHER")
  <2>1. /\ line' \in Lines /\ line'.mode = "search" /\ line'.stat = line.stat
        /\ line'.kind = line.kind
    BY <1>4 DEF Standing, Goes, Lines, LineModes, Starting
  <2>2. Early
    BY <1>4 DEF Early, LineIn, Starting
  <2>3. Turned
    BY <1>4, <2>1, <2>2 DEF Turned, Standing, Crediting, Starting, PowerUps, Initialising
  <2>4. "SEARCH" \in Codes /\ Asking("SEARCH")
    BY <1>4, <2>1 DEF Codes, Asking
  <2> QED
    BY <1>4, <2>3, <2>4 DEF Sending
<1>5. CASE PowerError
  BY <1>1, <1>5, PowerErrorTurns
<1>6. CASE line.mode = "search" /\ says("SEARCH", "SUCCESS") /\ power_recover_003(told.arg)
  BY <1>6, RecoverTurns DEF says
<1>7. CASE UNCHANGED <<line, step>> /\ Quiet
  BY <1>7, StandstillTurns DEF Standstill
<1>8. (stroked => step # "NON") /\ ("STACKER" # "ACCEPTOR")
  BY DEF stroked, Stroked
<1> QED
  BY <1>2, <1>3, <1>4, <1>5, <1>6, <1>7, <1>8 DEF id003_initial, LineIn, says

\* A step of a reset: the line task waits for what main says to it.
LEMMA ResetTurns ==
  ASSUME Standing, acked' = acked, UNCHANGED step, line' \in Lines,
         line'.mode \in {"initial", "stack", "pause"}, line'.stat = line.stat,
         line.mode \notin Starting, Live => line'.kind = "powerup",
         line'.kind = "powerup" =>
           line.kind = "powerup" /\ line.mode \in Initialising \cup PowerUps,
         \/ Quiet
         \/ Send("STACK_REQ", "none", "OTHER")
         \/ Send("RESET", "none", "OTHER") /\ (Open => Early)
  PROVE  Turned /\ Sending
<1>1. line'.mode \in Initialising /\ line'.mode \notin Starting \cup PowerUps \cup Crediting
      /\ line'.mode \notin {"perror", "reject", "done", "error"}
  BY DEF Initialising, Starting, PowerUps, Crediting
<1>2. Open /\ note = "escrow" => line'.stat # "RECOVER"
  BY DEF Standing, PowerUps
<1>3. Turned
  BY <1>1, <1>2 DEF Turned, Standing, PowerUps, Starting
<1>4. Sending
  BY <1>1 DEF Sending, Asking, Quiet, Codes, PowerUps
<1> QED
  BY <1>3, <1>4

LEMMA StatusTurns ==
  ASSUME Standing, Heard, acked' = acked, line.mode \notin Starting, told.code = "STATUS", status_info
  PROVE  Turned /\ Sending
<1>1. CASE line.mode \in PowerUps /\ told.sub = "SUCCESS" /\ power_recover_003(told.arg)
  BY <1>1, RecoverTurns
<1>2. CASE line.mode \in PowerUps /\ PowerError
  BY <1>2, PowerErrorTurns DEF Standing
<1>3. CASE UNCHANGED <<line, step>> /\ Quiet
  BY <1>3, StandstillTurns DEF Standstill
<1>4. CASE /\ line.mode = "error" /\ UNCHANGED step /\ Send("RESET", "none", "OTHER")
           /\ line' = [line EXCEPT !.mode = "initial", !.kind = "auto", !.full = FALSE]
  <2>1. /\ line' \in Lines /\ line'.mode = "initial" /\ line'.stat = line.stat /\ line'.kind = "auto"
        /\ ~Live
    BY <1>4 DEF Standing, Lines, LineModes, Initialising
  <2> QED
    BY <1>4, <2>1, ResetTurns DEF Standing, Open
<1>5. CASE ToError /\ Quiet
  BY <1>5, ErrorTurns
<1> QED
  BY <1>1, <1>2, <1>3, <1>4, <1>5 DEF status_info, LineIn

\* To "stack" or "pause", or to "initial" with a reset.
LEMMA WaitTurns ==
  ASSUME Standing, acked' = acked, UNCHANGED step, line.mode \in Initialising,
         NEW next \in {"initial", "stack", "pause"}, Goes(next),
         Quiet \/ Send("STACK_REQ", "none", "OTHER") \/ (Send("RESET", "none", "OTHER") /\ ~Open)
  PROVE  Turned /\ Sending
<1>1. /\ line' \in Lines /\ line'.mode = next /\ line'.stat = line.stat /\ line'.kind = line.kind
  BY DEF Standing, Goes, Lines, LineModes, Initialising
<1>2. line.mode \notin Starting
  BY DEF Initialising, Starting
<1> QED
  BY <1>1, <1>2, ResetTurns DEF Standing

\* The credit is offered: the note is in the box, for main told of no success
\* and of no full box before.
LEMMA OfferTurns ==
  ASSUME Standing, Heard, acked' = acked, UNCHANGED step, line.mode = "initial", Quiet,
         line.kind = "powerup", line.stat = "RECOVER",
         (told.code = "RESET" /\ told.sub = "SUCCESS") \/ told.arg = "FULL",
         NEW f \in BOOLEAN, line' = [line EXCEPT !.mode = "vend", !.full = f]
  PROVE  Turned /\ Sending
<1>1. line' \in Lines /\ line'.mode = "vend" /\ line'.stat = line.stat /\ line'.kind = line.kind
  BY DEF Standing, Lines, LineModes, Crediting
<1>2. ~Open /\ ~acked /\ ((boxed /\ step # "NON") \/ disturbed)
  BY DEF Standing, Heard, Initialising
<1>3. Turned
  BY <1>1, <1>2 DEF Turned, Kept, Standing, Crediting, Starting, PowerUps, Initialising
<1> QED
  BY <1>3 DEF Sending, Quiet

LEMMA ResetRspTurns ==
  ASSUME Standing, Heard, acked' = acked, line.mode = "initial", told.code = "RESET", reset_rsp
  PROVE  Turned /\ Sending
<1>1. line \in Lines /\ line.mode \in Initialising
  BY DEF Standing, Initialising
<1>2. CASE told.sub = "SUCCESS" /\ Succeeds
  <2>1. CASE /\ line.kind = "powerup" /\ line.stat = "RECOVER" /\ Goes("vend") /\ UNCHANGED step /\ Quiet
    <3>1. line.full \in BOOLEAN /\ line' = [line EXCEPT !.mode = "vend", !.full = line.full]
      BY <1>1, <2>1 DEF Goes, Lines
    <3> QED
      BY <1>2, <2>1, <3>1, OfferTurns
  <2>2. CASE /\ Goes("done") /\ step' = (IF line.kind = "powerup" THEN "NON" ELSE step)
             /\ Send("ENABLE", "none", "OTHER")
    <3>1. line' \in Lines /\ line'.mode = "done" /\ line'.stat = line.stat /\ line'.kind = line.kind
      BY <1>1, <2>2 DEF Goes, Lines, LineModes
    <3>2. Live => step' = "NON"
      BY <2>2 DEF Standing
    <3>3. Turned
      BY <2>2, <3>1, <3>2 DEF Turned, Standing, Kept, Open, Crediting, Starting, PowerUps, Initialising
    <3>4. "ENABLE" \in Codes /\ Asking("ENABLE")
      BY <3>2 DEF Asking, Kept, Codes
    <3> QED
      BY <2>2, <3>3, <3>4 DEF Sending
  <2> QED
    BY <1>2, <2>1, <2>2 DEF Succeeds
<1>3. CASE Goes("stack") /\ UNCHANGED step /\ Send("STACK_REQ", "none", "OTHER")
  BY <1>1, <1>3, WaitTurns
<1>4. CASE told.sub = "REMAIN" /\ told.arg # "STACKER" /\ ToReject
  BY <1>1, <1>4, RejectTurns DEF Heard
<1>5. CASE told.sub = "INIT_REJECT_REQUEST" /\ ToReject
  BY <1>1, <1>5, RejectTurns DEF Heard
<1>6. CASE Fails
  <2>1. CASE /\ line.kind = "powerup" /\ line.stat = "RECOVER" /\ vends /\ told.arg = "FULL"
    <3>1. line' = [line EXCEPT !.mode = "vend", !.full = TRUE] /\ UNCHANGED step /\ Quiet
      BY <1>6, <2>1 DEF Fails
    <3> QED
      BY <2>1, <3>1, OfferTurns
  <2>2. CASE ToError /\ Quiet
    BY <2>2, ErrorTurns
  <2> QED
    BY <1>6, <2>1, <2>2 DEF Fails
<1>7. CASE UNCHANGED <<line, step>> /\ Quiet
  BY <1>7, StandstillTurns DEF Standstill
<1> QED
  BY <1>2, <1>3, <1>4, <1>5, <1>6, <1>7 DEF reset_rsp

LEMMA StackRspTurns ==
  ASSUME Standing, Heard, acked' = acked, line.mode \in Initialising, stack_or_reject_rsp
  PROVE  Turned /\ Sending
<1>1. CASE /\ told.sub \in {"INIT_REJECT_REMOVE", "END_INIT_STACK"}
           /\ Goes("initial") /\ UNCHANGED step /\ Send("RESET", "none", "OTHER")
  BY <1>1, WaitTurns DEF Heard
<1>2. CASE UNCHANGED step /\ Quiet /\ \E next \in {"pause", "stack"} : Goes(next)
  BY <1>2, WaitTurns
<1>3. CASE told.sub = "INIT_REJECT_REQUEST" /\ ToReject
  BY <1>3, RejectTurns DEF Heard
<1>4. CASE ToError /\ Quiet
  BY <1>4, ErrorTurns
<1>5. CASE UNCHANGED <<line, step>> /\ Quiet
  BY <1>5, StandstillTurns DEF Standstill
<1> QED
  BY <1>1, <1>2, <1>3, <1>4, <1>5 DEF stack_or_reject_rsp

LEMMA LineReadsKeeps == ASSUME IInv, LineReads PROVE IInv'
<1>1. /\ line_mbx # << >> /\ line_mbx' = Tail(line_mbx) /\ acked' = acked /\ UNCHANGED lineframe
      /\ events' = events
  BY DEF LineReads, options, mvars, world, lineframe
<1>2. Standing /\ Heard
  BY <1>1, Stands, Hears
<1>3. Turned /\ Sending
  BY <1>1, <1>2, InitialTurns, StatusTurns, ResetRspTurns, StackRspTurns, StandstillTurns
     DEF LineReads, LineIn, Standstill
<1>4. Hearing
  BY <1>1 DEF Hearing, IInv, Types
<1> QED
  BY <1>1, <1>3, <1>4, LineKeeps

LEMMA HostKeeps ==
  ASSUME IInv, HostResets \/ HostInterrupts \/ HostPolls \/ HostAcks PROVE IInv'
<1>1. /\ line_mbx' = line_mbx /\ UNCHANGED lineframe
  BY DEF HostResets, HostInterrupts, HostPolls, HostAcks, Host, hostvars, options, mvars, world, lineframe
<1>2. Standing /\ MaxEvents \in Nat /\ events \in 0 .. MaxEvents
  BY Stands, BoundAssumption DEF IInv, Types
<1>3. Hearing
  BY <1>1, <1>2 DEF Hearing, HostResets, HostInterrupts, HostPolls, HostAcks, Event
<1>4. CASE HostResets
  <2>1. acked' = acked /\ line.mode \in PowerUps
    BY <1>4 DEF HostResets, LineIn
  <2>2. CASE ToError /\ Quiet
    BY <1>1, <1>2, <1>3, <2>1, <2>2, ErrorTurns, LineKeeps
  <2>3. CASE /\ line' = [line EXCEPT !.mode = "initial", !.kind = "powerup", !.full = FALSE]
             /\ Send("RESET", "none", "OTHER") /\ UNCHANGED step
    <3>1. /\ line' \in Lines /\ line'.mode = "initial" /\ line'.stat = line.stat
          /\ line'.kind = "powerup" /\ line.kind = "powerup" /\ line.mode \notin Starting
      BY <1>2, <2>1, <2>3 DEF Standing, Lines, LineModes, Initialising, PowerUps, Starting
    <3>2. Open => Early
      BY <1>2, <2>1 DEF Standing, Early, LineIn, PowerUps
    <3> QED
      BY <1>1, <1>2, <1>3, <2>1, <2>3, <3>1, <3>2, ResetTurns, LineKeeps DEF Standing
  <2> QED
    BY <1>4, <2>2, <2>3 DEF HostResets
<1>5. CASE HostInterrupts
  <2>1. /\ line' = [line EXCEPT !.mode = "initial", !.kind = "reset", !.full = FALSE]
        /\ step' = "NON" /\ Send("RESET", "none", "OTHER") /\ acked' = acked
    BY <1>5 DEF HostInterrupts
  <2>2. line' \in Lines /\ line'.mode = "initial" /\ line'.stat = line.stat /\ line'.kind = "reset"
    BY <1>2, <2>1 DEF Standing, Lines, LineModes, Initialising
  <2> QED
    BY <1>1, <1>2, <1>3, <2>1, <2>2, ClearTurns, LineKeeps
       DEF Standing, Starting, PowerUps, Crediting
<1>6. CASE HostPolls
  <2>1. Quiet /\ step' = step /\ acked' = acked
    BY <1>6 DEF HostPolls
  <2>2. CASE line.mode = "vend" /\ Goes("vend_ack")
    <3>1. line' \in Lines /\ line'.mode = "vend_ack" /\ line'.stat = line.stat /\ line'.kind = line.kind
      BY <1>2, <2>2 DEF Standing, Goes, Lines, LineModes, Crediting
    <3>2. Turned
      BY <1>2, <2>1, <2>2, <3>1 DEF Turned, Kept, Standing, Crediting, Starting, PowerUps, Initialising
    <3> QED
      BY <1>1, <1>3, <2>1, <3>2, LineKeeps DEF Sending, Quiet
  <2>3. CASE line.mode = "perror" /\ line' = [line EXCEPT !.gli = FALSE]
    <3>1. line' \in Lines /\ line'.mode = "perror" /\ line'.stat = line.stat /\ line'.kind = line.kind
      BY <1>2, <2>3 DEF Standing, Lines, LineModes, PowerUps
    <3>2. Turned
      BY <1>2, <2>1, <2>3, <3>1 DEF Turned, Standing, Open, Crediting, Starting, PowerUps, Initialising
    <3> QED
      BY <1>1, <1>3, <2>1, <3>2, LineKeeps DEF Sending, Quiet
  <2> QED
    BY <1>6, <2>2, <2>3 DEF HostPolls, LineIn
<1>7. CASE HostAcks
  <2>1. /\ acked' = TRUE /\ step' = "NON"
        /\ line' \in Lines /\ line'.mode \in {"error", "done"} /\ line'.stat = "OTHER"
        /\ Quiet \/ Send("ENABLE", "none", "OTHER")
    BY <1>2, <1>7 DEF HostAcks, Standing, Lines, LineModes
  <2> QED
    BY <1>1, <1>2, <1>3, <2>1, ClearTurns, LineKeeps
       DEF Standing, Starting, PowerUps, Crediting, Initialising
<1> QED
  BY <1>4, <1>5, <1>6, <1>7

-----------------------------------------------------------------------------
(* The world, a power failure, and the first state.                          *)

\* A message of the sensor task, or a fault.
LEMMA MessageKeeps ==
  ASSUME IInv, UNCHANGED <<around, note, paper, disturbed>>, box' \in BOOLEAN,
         events' \in 0 .. MaxEvents,
         NEW c \in {"SENSOR", "STATUS"}, NEW t \in {"INFO", "ALARM"}, Send(c, t, "OTHER")
  PROVE  IInv'
<1>1. /\ Types /\ Always
      /\ UNCHANGED <<icb, vends, mode, reset, pause, tries, step, work, line_mbx, off, home, line,
                     acked, counted, note, paper, disturbed>>
  BY DEF IInv, around, options, mvars
<1>2. c \in Codes /\ t \in Subs
  BY DEF Codes, Requests, Tasks, Subs
<1>3. /\ main_mbx' \in Seq(Messages) /\ Len(main_mbx') <= MailBlocks
      /\ Posted' = Posted \cup {Msg(c, t, "OTHER")}
      /\ Msg(c, t, "OTHER").code = c /\ Msg(c, t, "OTHER").sub = t /\ Msg(c, t, "OTHER").arg = "OTHER"
      /\ \A k \in {"RESET", "SEARCH"} : Once(k) => Once(k)'
  BY <1>1, <1>2, Sent
<1>4. Types'
  BY <1>1, <1>3 DEF Types
<1>5. Live' = Live /\ Open' = Open /\ Tidings' = Tidings /\ \A ms : LineIn(ms)' = LineIn(ms)
  BY <1>1 DEF Live, Open, boxed, Tidings, LineIn
<1>6. Always'
  BY <1>1 DEF Always, boxed, LineIn
<1>7. ASSUME Live PROVE LiveInv'
  BY <1>1, <1>3, <1>5, <1>7 DEF IInv, LiveInv
<1>8. ASSUME Open PROVE OpenInv'
  <2>1. OpenModes /\ OpenStrokes /\ OpenSearch /\ OpenPlace
    BY <1>8 DEF IInv, OpenInv
  <2>2. /\ Early' = Early
        /\ \A k : Coded(k)' <=> Coded(k) \/ k = c
        /\ \A k : Succeeded(k)' <=> Succeeded(k)
    BY <1>1, <1>3 DEF Early, LineIn, Coded, Succeeded
  <2>3. Busy' <=> Busy
    BY <1>1, <2>2 DEF Busy
  <2>4. OpenModes'
    BY <1>1, <1>3, <1>5, <2>1, <2>2 DEF OpenModes
  <2>5. OpenStrokes'
    BY <1>1, <1>3, <1>5, <2>1, <2>2, <2>3 DEF OpenStrokes
  <2>6. OpenSearch'
    BY <1>1, <1>3, <1>5, <2>1, <2>2 DEF OpenSearch
  <2>7. OpenPlace'
    BY <1>1, <1>5, <2>1 DEF OpenPlace
  <2> QED
    BY <2>4, <2>5, <2>6, <2>7 DEF OpenInv
<1> QED
  BY <1>4, <1>5, <1>6, <1>7, <1>8 DEF IInv

LEMMA WorldKeeps == ASSUME IInv, PaperIn \/ NoteTaken \/ BoxFlips \/ Faults PROVE IInv'
<1>1. Types /\ Always /\ MaxEvents \in Nat
  BY BoundAssumption DEF IInv
<1>2. Event => events' \in 0 .. MaxEvents
  BY <1>1 DEF Event, Types
<1>3. ASSUME Reported, box' \in BOOLEAN, events' \in 0 .. MaxEvents,
             note' \in DOMAIN Left \cup {"mouth", "gone"}, paper' \in BOOLEAN, disturbed' \in BOOLEAN
      PROVE  Types'
  <2>1. "SENSOR" \in Codes /\ "INFO" \in Subs /\ "OTHER" \in {"OTHER", "FULL"}
    BY DEF Codes, Requests, Tasks, Subs
  <2>2. main_mbx' \in Seq(Messages) /\ Len(main_mbx') <= MailBlocks
    BY <1>1, <1>3, <2>1, Sent DEF Reported
  <2> QED
    BY <1>1, <1>3, <2>2 DEF Types, Reported, around, options, mvars
<1>4. CASE PaperIn
  <2>1. /\ disturbed' = TRUE /\ paper' = TRUE /\ UNCHANGED <<note, box>> /\ Reported
        /\ events' \in 0 .. MaxEvents
    BY <1>2, <1>4 DEF PaperIn
  <2>2. Types'
    BY <1>1, <1>3, <2>1 DEF Types
  <2>3. Always'
    BY <1>1, <2>1 DEF Always, Reported, around, options, mvars, LineIn
  <2> QED
    BY <2>1, <2>2, <2>3 DEF IInv, Live, Open
<1>5. CASE NoteTaken
  <2>1. /\ note = "mouth" /\ note' = "gone" /\ UNCHANGED <<paper, box, disturbed, events>> /\ Reported
    BY <1>5 DEF NoteTaken
  <2>2. ~Live /\ Live' = Live
    BY <2>1 DEF IInv, LiveInv, Live, Reported, around
  <2>3. Types'
    BY <1>1, <1>3, <2>1 DEF Types
  <2>4. Always'
    BY <1>1, <2>1 DEF Always, Reported, around, options, mvars, LineIn, boxed
  <2> QED
    BY <2>2, <2>3, <2>4 DEF IInv, Open
<1>6. CASE BoxFlips
  <2>1. box' \in BOOLEAN
    BY <1>1, <1>6 DEF BoxFlips, Types
  <2>2. /\ UNCHANGED <<around, note, paper, disturbed>> /\ events' \in 0 .. MaxEvents
        /\ Send("SENSOR", "INFO", "OTHER")
    BY <1>2, <1>6 DEF BoxFlips, Reported
  <2> QED
    BY <2>1, <2>2, MessageKeeps
<1>7. CASE Faults
  <2>1. /\ UNCHANGED <<around, note, paper, disturbed>> /\ events' \in 0 .. MaxEvents
        /\ Send("STATUS", "ALARM", "OTHER") /\ box' = box
    BY <1>2, <1>7 DEF Faults
  <2> QED
    BY <1>1, <2>1, MessageKeeps DEF Types
<1> QED
  BY <1>4, <1>5, <1>6, <1>7

\* What main finds when the power comes back.
Restarted ==
  /\ mode = "SENSOR_INIT" /\ reset = FALSE /\ pause = FALSE /\ tries = 0
  /\ main_mbx = <<Msg("SENSOR_INIT", "SUCCESS", "OTHER")>> /\ work = {}
  /\ line_mbx = << >> /\ line = NewLine

Fresh ==
  /\ main_mbx \in Seq(Messages) /\ Len(main_mbx) <= MailBlocks
  /\ line_mbx \in Seq(Results) /\ line \in Lines /\ mode \in Modes /\ tries \in 0 .. ForceStacks
  /\ (note \notin {"mouth", "gone"} => LiveInv) /\ OpenInv
  /\ LineIn(Starting) /\ ~LineIn({"powerup"} \cup Initialising) /\ ~LineIn(Crediting)
  /\ ~LineIn({"perror"})
  /\ line.kind = "powerup" /\ line.stat = "OTHER"

LEMMA Restarts == Restarted => Fresh
<1> SUFFICES ASSUME Restarted PROVE Fresh
  OBVIOUS
<1>1. MailBlocks \in Nat \ {0} /\ ForceStacks \in Nat
  BY LimitAssumption
<1> DEFINE first == Msg("SENSOR_INIT", "SUCCESS", "OTHER")
<1>2. /\ first \in Messages /\ first.code = "SENSOR_INIT" /\ first.sub = "SUCCESS"
      /\ first.arg = "OTHER"
  BY DEF Msg, Messages, Codes, Subs
<1>3. main_mbx = <<first>>
  BY DEF Restarted
<1> HIDE DEF first
<1>4. /\ main_mbx \in Seq(Messages) /\ Len(main_mbx) = 1 /\ DOMAIN main_mbx = {1}
      /\ main_mbx[1] = first
  BY <1>2, <1>3
<1>5. /\ line_mbx \in Seq(Results) /\ DOMAIN line_mbx = {}
  BY DEF Restarted
<1>6. /\ line \in Lines /\ line.mode = "boot" /\ line.kind = "powerup" /\ line.stat = "OTHER"
  BY DEF Restarted, NewLine, Lines, LineModes, Starting
<1>7. mode \in Modes /\ mode \in PowerUpModes /\ mode = "SENSOR_INIT"
  BY DEF Restarted, Modes, PowerUpModes
<1>8. Posted = {first} /\ Tidings = {}
  BY <1>4, <1>5 DEF Posted, Tidings
<1>9. \A k : (Coded(k) <=> k = "SENSOR_INIT") /\ Once(k)
  BY <1>2, <1>4, <1>8 DEF Coded, Once
<1>10. LineIn(Starting) /\ ~LineIn({"powerup"} \cup Initialising) /\ ~LineIn(Crediting)
       /\ LineIn({"boot"}) /\ ~LineIn({"search"}) /\ ~LineIn({"perror", "reject", "done", "error"})
       /\ ~LineIn({"perror"})
  BY <1>6 DEF LineIn, Starting, Initialising, Crediting
<1>11. note \notin {"mouth", "gone"} => LiveInv
  BY <1>2, <1>6, <1>7, <1>8, <1>10 DEF LiveInv, Restarted, Astray
<1>12. ~Busy
  BY <1>2, <1>8 DEF Busy, Restarted, Succeeded
<1>13. OpenModes
  BY <1>7, <1>9, <1>10 DEF OpenModes, Restarted, Before
<1>14. OpenStrokes
  BY <1>2, <1>7, <1>8, <1>12 DEF OpenStrokes, Restarted, Succeeded
<1>15. OpenSearch
  BY <1>7, <1>8, <1>9, <1>10 DEF OpenSearch, Restarted
<1>16. OpenPlace
  BY <1>5, <1>8, <1>10 DEF OpenPlace
<1> QED
  BY <1>1, <1>4, <1>5, <1>6, <1>7, <1>10, <1>11, <1>13, <1>14, <1>15, <1>16
     DEF Fresh, OpenInv, Restarted

LEMMA PowerKeeps == ASSUME IInv, PowerFails PROVE IInv'
<1>1. /\ Types /\ Always /\ Restarted'
      /\ UNCHANGED <<icb, vends, step, note, paper, box, off, home, acked, counted, disturbed>>
  BY DEF IInv, PowerFails, Restarted, NewLine, options, world
<1>2. /\ main_mbx' \in Seq(Messages) /\ Len(main_mbx') <= MailBlocks
      /\ line_mbx' \in Seq(Results) /\ line' \in Lines /\ mode' \in Modes /\ tries' \in 0 .. ForceStacks
      /\ (note' \notin {"mouth", "gone"} => LiveInv') /\ OpenInv'
      /\ LineIn(Starting)' /\ ~LineIn({"powerup"} \cup Initialising)' /\ ~LineIn(Crediting)'
      /\ ~LineIn({"perror"})'
      /\ line'.kind = "powerup" /\ line'.stat = "OTHER"
  <2>1. Fresh'
    BY <1>1, Restarts, PTL
  <2> QED
    BY <2>1 DEF Fresh
<1>3. events' \in 0 .. MaxEvents /\ reset' = FALSE /\ pause' = FALSE /\ work' = {}
  BY <1>1, BoundAssumption DEF PowerFails, Event, Types
<1>4. Types'
  BY <1>1, <1>2, <1>3 DEF Types
<1>5. boxed' = boxed /\ Live' = Live
  BY <1>1 DEF boxed, Live
<1>6. Always'
  BY <1>1, <1>2, <1>3, <1>5 DEF Always
<1>7. Live' => LiveInv'
  BY <1>1, <1>2, <1>5 DEF IInv, LiveInv
<1> QED
  BY <1>2, <1>4, <1>6, <1>7 DEF IInv

LEMMA InitInv == ASSUME Init PROVE IInv
<1>1. Restarted /\ paper = FALSE /\ box = TRUE /\ acked = FALSE /\ disturbed = FALSE
      /\ icb \in Icb /\ vends \in Vends /\ home \in BOOLEAN /\ off \subseteq Positions
      /\ counted = (IF icb /\ step \in {"ICB_ACCEPT", "VEND"} THEN 1 ELSE 0)
      /\ events = 0 /\ MaxEvents \in Nat
  BY BoundAssumption DEF Init, Restarted
<1>2. PICK n \in DOMAIN Left : note = n /\ step \in Left[n]
  BY DEF Init
<1>3. /\ note \in DOMAIN Left /\ note \notin {"mouth", "gone"} /\ step \in Steps
      /\ step \in {"ICB_ACCEPT", "VEND"} => boxed
  BY <1>2 DEF Left, Steps, boxed
<1>4. /\ main_mbx \in Seq(Messages) /\ Len(main_mbx) <= MailBlocks
      /\ line_mbx \in Seq(Results) /\ line \in Lines /\ mode \in Modes /\ tries \in 0 .. ForceStacks
      /\ LiveInv /\ OpenInv
      /\ LineIn(Starting) /\ ~LineIn({"powerup"} \cup Initialising) /\ ~LineIn(Crediting)
      /\ ~LineIn({"perror"})
      /\ line.kind = "powerup" /\ line.stat = "OTHER"
  BY <1>1, <1>3, Restarts DEF Fresh
<1>5. Types
  <2>1. counted \in 0 .. 1 /\ events \in 0 .. MaxEvents
    BY <1>1
  <2>2. reset \in BOOLEAN /\ pause \in BOOLEAN /\ work \subseteq Requests
    BY <1>1 DEF Restarted
  <2> QED
    BY <1>1, <1>3, <1>4, <2>1, <2>2 DEF Types
<1>6. Always
  BY <1>1, <1>3, <1>4 DEF Always, Restarted
<1> QED
  BY <1>4, <1>5, <1>6 DEF IInv

LEMMA StutterKeeps == ASSUME IInv, UNCHANGED vars PROVE IInv'
<1>1. UNCHANGED <<icb, vends, mode, reset, pause, tries, step, main_mbx, work, line_mbx, note, paper,
                  box, off, home, line, acked, counted, disturbed, events>>
  BY DEF vars, options, mvars, world
<1>2. Types' /\ Always'
  BY <1>1 DEF IInv, Types, Always, boxed, LineIn
<1>3. Live' = Live /\ Open' = Open /\ Posted' = Posted /\ Tidings' = Tidings
      /\ (\A ms : LineIn(ms)' = LineIn(ms)) /\ (\A k : Coded(k)' = Coded(k))
      /\ (\A k : Succeeded(k)' = Succeeded(k)) /\ (\A k : Once(k)' = Once(k)) /\ Early' = Early
  BY <1>1 DEF Live, Open, boxed, Posted, Tidings, LineIn, Coded, Succeeded, Once, Early
<1>4. Busy' = Busy
  BY <1>1, <1>3 DEF Busy
<1>5. Live' => LiveInv'
  BY <1>1, <1>3 DEF IInv, LiveInv
<1>6. Open' => OpenInv'
  <2> SUFFICES ASSUME Open PROVE OpenInv'
    BY <1>3
  <2>1. OpenModes /\ OpenStrokes /\ OpenSearch /\ OpenPlace
    BY DEF IInv, OpenInv
  <2> QED
    BY <1>1, <1>3, <1>4, <2>1 DEF OpenInv, OpenModes, OpenStrokes, OpenSearch, OpenPlace
<1> QED
  BY <1>2, <1>5, <1>6 DEF IInv

LEMMA NextKeeps == ASSUME IInv, [Next]_vars PROVE IInv'
BY MainStep, SimpleKeeps, StackerKeeps, FeedKeeps, PushKeeps, LineReadsKeeps, HostKeeps, WorldKeeps,
   PowerKeeps, StutterKeeps
   DEF Next, Devices

-----------------------------------------------------------------------------
(* The theorems.                                                             *)

THEOREM Invariance == Safety => []IInv
<1>1. Init => IInv
  BY InitInv
<1>2. IInv /\ [Next]_vars => IInv'
  BY NextKeeps
<1> QED
  BY <1>1, <1>2, PTL DEF Safety

\* The types hold for every pool size and every limit; that the counter of the
\* forced stackings stays in its limit is the part that needs the code.
\* (mode_initialize_uba.c, ex_force_stack_retry)
THEOREM TypeCorrect == Safety => []TypeOK
<1>1. IInv => TypeOK
  <2> SUFFICES ASSUME Types PROVE TypeOK
    BY DEF IInv
  <2>1. /\ line.mode \in Starting \cup PowerUps \cup Initialising \cup Crediting \cup {"done", "error"}
        /\ line.kind \in {"powerup", "reset", "auto"} /\ line.stat \in {"OTHER", "RECOVER", "SEARCH_NON"}
    BY DEF Types, Lines, LineModes
  <2>2. tries <= ForceStacks /\ events <= MaxEvents
    BY LimitAssumption, BoundAssumption DEF Types
  <2> QED
    BY <2>1, <2>2 DEF Types, TypeOK, Modes
<1> QED
  BY <1>1, Invariance, PTL

\* The ICB counts the note once over any number of power failures, and only in
\* the box: the step is written before the ICB is asked, and the note was the
\* one whose recovery was not recorded as counted.  (mode_initialize_uba.c:3344)
THEOREM CountsOnce == Safety => []CountedOnce
<1>1. IInv => CountedOnce
  BY DEF IInv, Types, Always, CountedOnce
<1> QED
  BY <1>1, Invariance, PTL

\* Every handler of the initialisation that leaves its mode looks at the reset
\* that was flagged, but for the two that are named.
THEOREM ResetFirst == Safety => ResetGoesFirst
<1>1. IInv /\ [Next]_vars => [First]_vars
  <2> SUFFICES ASSUME IInv, Next PROVE First
    BY DEF First, vars, mvars
  <2>1. CASE main
    <3>1. CASE power_msg_proc
      BY <3>1, EveryHandler DEF Handled, Resetting
    <3>2. CASE init_sub_select_mode
      BY <3>2 DEF init_sub_select_mode, First, IInv, Always, Flagging
    <3> QED
      BY <2>1, <3>1, <3>2 DEF main, main_task
  <2>2. CASE PowerFails
    BY <2>2 DEF PowerFails, First
  <2>3. CASE Devices \/ StackerPushes \/ FeedPauses
    <3>1. mode' = mode
      BY <2>3 DEF Devices, SimpleAnswers, PositionAnswers, IcbAnswers, StackerAnswers, Feed, FeedSearches,
         FeedClears, FeedForces, FeedResumes, FeedRejects, FeedPauses, Feeds, StackerPushes, Stacker,
         Device, devices, mvars
    <3> QED
      BY <3>1 DEF First
  <2>4. CASE LineReads \/ HostResets \/ HostInterrupts \/ HostPolls \/ HostAcks
    BY <2>4 DEF LineReads, HostResets, HostInterrupts, HostPolls, HostAcks, Host, hostvars, mvars, First
  <2>5. CASE PaperIn \/ NoteTaken \/ BoxFlips \/ Faults
    BY <2>5 DEF PaperIn, NoteTaken, BoxFlips, Faults, Reported, around, mvars, First
  <2> QED
    BY <2>1, <2>2, <2>3, <2>4, <2>5 DEF Next
<1>2. [First]_vars => [reset /\ mode' # mode =>
       \/ mode' \in {"INIT_SENSOR_ACTIVE", "ALARM", "SENSOR_INIT"}
       \/ <<mode, mode'>> \in
            {<<"INIT_ICB", "INIT_ICB_BOX">>, <<"INIT_FORCE_STACK", "INIT_WAIT_RESET">>}]_vars
  BY DEF First
<1> QED
  BY <1>1, <1>2, Invariance, PTL DEF Safety, ResetGoesFirst

\* The line task, the host and a power failure move the credit, not the note.
LEMMA CreditBanks ==
  ASSUME IInv, IInv', UNCHANGED <<note, disturbed>>,
         step' = "NON" \/ step # "NON", step = "NON" => step' = "NON",
         acked' = acked \/ (acked' = TRUE /\ LineIn(Crediting))
  PROVE  [Bank!Next]_<<boxed, disturbed, credit>>
<1>1. /\ LineIn(Crediting)' => (boxed' /\ step' # "NON") \/ disturbed'
      /\ acked' => ~LineIn(Crediting)'
      /\ acked => step = "NON" /\ ~LineIn(Crediting)
      /\ acked \in BOOLEAN /\ acked' \in BOOLEAN
  BY DEF IInv, Types, Always
<1>2. boxed' = boxed /\ disturbed' = disturbed
  BY DEF boxed
<1>3. CASE LineIn(Crediting)' /\ ~LineIn(Crediting)
  <2>1. /\ credit' = "offered" /\ ~acked
        /\ credit = IF step = "NON" THEN "void" ELSE "open"
    BY <1>1, <1>3 DEF credit
  <2> QED
    BY <1>1, <1>2, <1>3, <2>1 DEF Bank!Next, Bank!Offer
<1>4. CASE LineIn(Crediting)' /\ LineIn(Crediting)
  <2>1. credit' = "offered" /\ credit = "offered"
    BY <1>4 DEF credit
  <2> QED
    BY <1>2, <2>1
<1>5. CASE ~LineIn(Crediting)' /\ LineIn(Crediting)
  <2>1. credit = "offered" /\ credit' \in {"given", "void", "open"}
    BY <1>5 DEF credit
  <2> QED
    BY <1>2, <2>1 DEF Bank!Next, Bank!Give, Bank!Reopen, Bank!GiveUp
<1>6. CASE ~LineIn(Crediting)' /\ ~LineIn(Crediting)
  <2>1. credit' = credit \/ (credit = "open" /\ credit' = "void")
    BY <1>1, <1>6 DEF credit
  <2> QED
    BY <1>2, <2>1 DEF Bank!Next, Bank!GiveUp
<1> QED
  BY <1>3, <1>4, <1>5, <1>6

\* The devices move the note, not the credit, and never out of the box.
LEMMA MoveBanks ==
  ASSUME UNCHANGED <<line, acked, step, disturbed>>, boxed => boxed'
  PROVE  [Bank!Next]_<<boxed, disturbed, credit>>
<1>1. credit' = credit /\ boxed' \in BOOLEAN
  BY DEF credit, LineIn, boxed
<1> QED
  BY <1>1 DEF Bank!Next, Bank!Move

LEMMA StepBanks ==
  ASSUME IInv, IInv', [Next]_vars PROVE [Bank!Next]_<<boxed, disturbed, credit>>
<1>1. CASE main /\ power_msg_proc
  <2>1. /\ UNCHANGED <<note, disturbed, acked>>
        /\ step' = step \/ (step' = "ICB_ACCEPT" /\ Unrecorded)
    BY <1>1, EveryHandler DEF main, Handled, Recording
  <2> QED
    BY <2>1, CreditBanks DEF Unrecorded
<1>2. CASE main /\ init_sub_select_mode
  <2>1. UNCHANGED <<line, acked, step, disturbed>> /\ (note' = note \/ note = "chamber")
    BY <1>2 DEF main, init_sub_select_mode, Ask, TellIn
  <2> QED
    BY <2>1, MoveBanks DEF boxed
<1>3. CASE Devices \/ StackerPushes \/ FeedPauses \/ NoteTaken
  <2>1. UNCHANGED <<line, acked, step, disturbed>>
    BY <1>3 DEF Devices, SimpleAnswers, PositionAnswers, IcbAnswers, StackerAnswers, Feed, FeedSearches,
       FeedClears, FeedForces, FeedResumes, FeedRejects, FeedPauses, Feeds, StackerPushes, Stacker,
       Device, devices, NoteTaken, Reported, around
  <2>2. note' = note \/ note \in {"chamber", "exit", "escrow", "mouth"}
    BY <1>3 DEF Devices, SimpleAnswers, PositionAnswers, IcbAnswers, StackerAnswers, Feed, FeedSearches,
       FeedClears, FeedForces, FeedResumes, FeedRejects, FeedPauses, StackerPushes, NoteTaken
  <2> QED
    BY <2>1, <2>2, MoveBanks DEF boxed
<1>4. CASE LineReads
  <2>1. UNCHANGED <<note, disturbed, acked>>
    BY <1>4 DEF LineReads, world
  <2>2. step' \in {step, "NON"}
    BY <1>4 DEF LineReads, id003_initial, status_info, reset_rsp, stack_or_reject_rsp, Succeeds, Fails,
       ToError, ToReject, PowerError, LostBill, power_recover_003
  <2> QED
    BY <2>1, <2>2, CreditBanks
<1>5. CASE HostResets \/ HostInterrupts \/ HostPolls \/ HostAcks
  <2>1. UNCHANGED <<note, disturbed>>
    BY <1>5 DEF HostResets, HostInterrupts, HostPolls, HostAcks, Host, hostvars, world
  <2>2. step' \in {step, "NON"}
    BY <1>5 DEF HostResets, HostInterrupts, HostPolls, HostAcks, ToError
  <2>3. acked' = acked \/ (acked' = TRUE /\ LineIn(Crediting))
    BY <1>5 DEF HostResets, HostInterrupts, HostPolls, HostAcks, LineIn, Crediting
  <2> QED
    BY <2>1, <2>2, <2>3, CreditBanks
<1>6. CASE PowerFails
  BY <1>6, CreditBanks DEF PowerFails, world
<1>7. CASE BoxFlips \/ Faults \/ UNCHANGED vars
  BY <1>7, MoveBanks DEF BoxFlips, Faults, Reported, around, vars, world, boxed
<1>8. CASE PaperIn
  <2>1. disturbed' = TRUE /\ UNCHANGED <<note, line, acked, step>>
    BY <1>8 DEF PaperIn, Reported, around
  <2>2. boxed' = boxed /\ credit' = credit
    BY <2>1 DEF boxed, credit, LineIn
  <2> QED
    BY <2>1, <2>2 DEF Bank!Next, Bank!Disturb
<1> QED
  BY <1>1, <1>2, <1>3, <1>4, <1>5, <1>6, <1>7, <1>8 DEF Next, main, main_task

\* Power up implements NoteRecovery for any number of power failures, alarms and
\* resets out of turn: VEND_VALID is told only of a note that is in the box, and
\* never again once it was acknowledged or given up.  (id003.c:557-822)
THEOREM CreditBoxed == Safety => Implements
<1>1. Init => Bank!Init
  <2> SUFFICES ASSUME Init PROVE Bank!Init
    OBVIOUS
  <2>1. line = NewLine /\ acked = FALSE /\ disturbed = FALSE
    BY DEF Init
  <2>2. credit \in {"open", "void"} /\ boxed \in BOOLEAN
    BY <2>1 DEF credit, LineIn, NewLine, Crediting, boxed
  <2> QED
    BY <2>1, <2>2 DEF Bank!Init
<1>2. IInv /\ IInv' /\ [Next]_vars => [Bank!Next]_<<boxed, disturbed, credit>>
  BY StepBanks
<1> QED
  BY <1>1, <1>2, Invariance, PTL DEF Safety, Implements, Bank!Spec, Bank!vars

=============================================================================
