-------------------------- MODULE StackModeProofs --------------------------
(***************************************************************************)
(* Theorems about StackMode for every pool size, every number of retries   *)
(* and every way to stack: type correctness, that the recovery step fits   *)
(* the place of the note at every moment, that a credit survives a power   *)
(* failure and is given once, that the plate is pulled only behind a clean *)
(* note, and that a reset of the host is not forgotten.                    *)
(*                                                                         *)
(* The work is in the handlers of the main task: each is shown to be       *)
(* Handled, which says what it may ask, tell and write, and the invariant  *)
(* follows from Handled alone.  So it is with the steps of the devices     *)
(* (Beside, Places) and of the line task (GivesUp, GoesOn).                *)
(*                                                                         *)
(* A second invariant, WInv, says that what main waits for is on its way:  *)
(* each handler is Onward, and the stacking stands still only where the    *)
(* host has to go on.  A third, Started, that no answer goes without case. *)
(***************************************************************************)
EXTENDS StackMode, SequenceTheorems, TLAPS

Codes ==
  {"FEED_APB", "FEED_REV", "APB_CLOSE", "APB_EXEC", "SHUTTER_OPEN", "STACKER_EXEC",
   "STACKER_NG_PULL", "STACKER_EXEC_RE", "STACKER_PULL", "ICB_ACCEPT", "STATUS", "SENSOR",
   "RESET", "ACCEPT_REQ", "REJECT_REQ", "ENABLE", "1ST_NOTE_DONE", "STACK", "ACCEPT"}

Subs ==
  {"SUCCESS", "REJECT", "ALARM", "START", "ENABLE_NEXT", "PAUSE", "RESUME", "VEND",
   "ENTRY_ON", "INFO", "none"}

Messages == [code : Codes, sub : Subs, arg : Alarms]

Jobs == [busy : SUBSET Devices, alarm : SUBSET Devices, reject : SUBSET {"STACKER"}]

Strokes ==
  [seq : {"new", "leaving", "pushing", "top", "back", "returning", "pulling", "again"},
   tries : 0 .. PushRetries + 1, homes : 0 .. HomeRetries, cause : Alarms]

Lines == [mode : Stacks \cup Credited \cup {"done", "reject", "error", "initial"},
          error : BOOLEAN, second : BOOLEAN]

Types ==
  /\ way \in Ways /\ icb \in Icb
  /\ mode \in StackModes \cup {"INIT", "ALARM", "ACCEPT", "IDLE", "REJECT"}
  /\ job \in Jobs
  /\ reset \in BOOLEAN /\ pause \in BOOLEAN /\ second \in {0, 1} /\ step \in Steps
  /\ main_mbx \in Seq(Messages) /\ Len(main_mbx) <= MailBlocks
  /\ line_mbx \in Seq(Messages)
  /\ DOMAIN work = Devices /\ \A d \in Devices : work[d] \in Asked[d] \cup {"none"}
  /\ note \in {"escrow", "exit", "chamber", "past", "box"}
  /\ behind \in BOOLEAN /\ home \in BOOLEAN
  /\ stacker \in Strokes
  /\ stacker.seq # "again" => stacker.tries <= PushRetries
  /\ pauses \in 0 .. MaxPauses /\ paused \in BOOLEAN
  /\ line \in Lines /\ acked \in BOOLEAN

\* The messages in the mailboxes.
Posted == {main_mbx[i] : i \in 1 .. Len(main_mbx)}
Tidings == {line_mbx[i] : i \in 1 .. Len(line_mbx)}

\* The last word of a device on its request.
Answers(d, msg) == msg.code \in Asked[d] /\ msg.sub \in {"SUCCESS", "REJECT", "ALARM"}

Answered(d) == \E msg \in Posted : Answers(d, msg)

Single(d) ==
  \A i, j \in 1 .. Len(main_mbx) :
    Answers(d, main_mbx[i]) /\ Answers(d, main_mbx[j]) => i = j

\* Why ex_multi_job.busy joins the devices: a request is answered once, and
\* from the request until the answer is read the device is busy.
OneAnswer ==
  \A d \in Devices :
    /\ Single(d)
    /\ work[d] # "none" => ~Answered(d)
    /\ Stacking /\ (work[d] # "none" \/ Answered(d)) => d \in job.busy

\* Where the main task waits for a device; but for WAIT_STACK_TOP it waits for
\* one at a time.
WaitsFor ==
  [FEED    |-> FeedModes \cup {"FEED_REV_REQ"},
   APB     |-> {"FEED_STACK_LOW", "WAIT_STACK_TOP"},
   SHUTTER |-> {"FEED_STACK_LOW", "WAIT_STACK_TOP", "WAIT_REJECT_SHUTTER_OPEN"},
   STACKER |-> {"WAIT_STACK_START", "WAIT_STACK_TOP", "STACK_HOME", "WAIT_REQ_FIRST",
                "STACK_RETRY"},
   ICB     |-> {"WAIT_STACK_TOP", "STACK_RETRY"}]

Joined ==
  Stacking =>
    /\ \A d \in job.busy : mode \in WaitsFor[d]
    /\ mode # "WAIT_STACK_TOP" => \A d, e \in job.busy : d = e
    /\ ~({"STACKER", "ICB"} \subseteq job.busy)
    /\ ~({"APB", "SHUTTER"} \subseteq job.busy)
    /\ mode = "STACK_HOME" => "STACKER" \in job.busy
    /\ mode = "FEED_REV_REQ" => work["FEED"] # "FEED_APB"

RejectModes == {"WAIT_REJECT_REQ", "WAIT_REJECT_SHUTTER_OPEN"}

\* Where the note is, as far as the main task can know.
Placed ==
  /\ mode \in FeedModes =>
       /\ note \in {"escrow", "exit", "chamber"}
       /\ "FEED" \notin job.busy => note = "chamber"
       /\ \A msg \in Posted : msg.code = "FEED_APB" /\ msg.sub = "SUCCESS" => note = "chamber"
  /\ mode \in StackModes \ (FeedModes \cup RejectModes) =>
       note \in {"chamber", "past", "box"} /\ step \notin {"ESCROW", "APB_OUT"}
  /\ \A msg \in Posted :
       /\ msg.code \in Pushes /\ msg.sub = "SUCCESS" => note = "box"
       /\ msg.arg = "FULL" => boxed
  /\ stacker.seq \in {"top", "returning"} => note = "box"
  /\ stacker.cause = "FULL" => boxed
  /\ Stacking /\ "ICB" \in job.busy => boxed
  /\ mode \in {"STACK_HOME", "WAIT_REQ_FIRST"} =>
       note = "box" /\ job.alarm = {} /\ job.reject = {}
  /\ mode \in {"FEED_REV_REQ", "WAIT_REQ"} => boxed
  /\ mode \in {"WAIT_STACK_START", "WAIT_STACK_TOP"}
     /\ "STACKER" \notin job.busy \cup job.alarm \cup job.reject
       => note = "box"

\* Who gave the recovery step up.
StepGiven ==
  /\ step \in Left[note]
  /\ step = "NON" => acked \/ LineIn({"error", "reject", "initial"})
  /\ acked => step = "NON"

\* The line task was told of the credit.
Told ==
  \/ acked \/ LineIn(Credited \cup {"done"})
  \/ \E msg \in Tidings : msg.code = "STACK" /\ (msg.sub = "VEND" \/ msg.arg = "FULL")

CreditTold ==
  /\ \A msg \in Tidings : msg.code = "STACK" /\ (msg.sub = "VEND" \/ msg.arg = "FULL") => boxed
  /\ LineIn({"stacked", "stacked_full", "done"}) => acked
  /\ Told /\ Stacking => mode \in {"WAIT_REQ", "WAIT_REQ_FIRST"} /\ "STACKER" \notin job.busy
  /\ mode = "WAIT_REQ_FIRST" /\ "STACKER" \notin job.busy
       => step = "VEND" \/ acked \/ LineIn({"error", "initial"})
  /\ /\ mode \in StackModes \cup {"ACCEPT"}
     /\ LineIn({"reject"}) \/ \E msg \in Tidings : msg.sub = "REJECT"
     => mode \in RejectModes
  /\ HandsOver

\* Which side knows of a reset.
ResetKnown ==
  /\ reset \/ (\E msg \in Posted : msg.code = "RESET") => LineIn({"initial", "error"})
  /\ mode \in {"WAIT_REQ", "WAIT_REJECT_REQ"} => ~reset
  /\ Stacking /\ (\/ \E msg \in Tidings : msg.sub = "ENTRY_ON"
                  \/ \E msg \in Posted : msg.code = "ACCEPT_REQ")
       => mode = "WAIT_REQ_FIRST"
  /\ Stacking /\ (\E msg \in Posted : msg.code = "ACCEPT_REQ") => ~reset

IInv == Types /\ OneAnswer /\ Joined /\ Placed /\ StepGiven /\ CreditTold /\ ResetKnown

USE WayAssumption, IcbAssumption, PoolAssumption, RetryAssumption

-----------------------------------------------------------------------------
(* The mailboxes.                                                            *)

LEMMA Sent ==
  ASSUME Types, NEW msg \in Messages, Send(msg)
  PROVE  /\ main_mbx' \in Seq(Messages) /\ Len(main_mbx') <= MailBlocks
         /\ Posted' = Posted \cup {msg}
         /\ \A d \in Devices :
              /\ Answered(d)' <=> Answered(d) \/ Answers(d, msg)
              /\ Single(d) /\ ~(Answered(d) /\ Answers(d, msg)) => Single(d)'
<1>1. main_mbx \in Seq(Messages) /\ main_mbx' = Append(main_mbx, msg)
  BY DEF Types, Send
<1>2. /\ main_mbx' \in Seq(Messages) /\ Len(main_mbx') = Len(main_mbx) + 1
      /\ \A i \in 1 .. Len(main_mbx) : main_mbx'[i] = main_mbx[i]
      /\ main_mbx'[Len(main_mbx) + 1] = msg
  BY <1>1, AppendProperties
<1>3. Len(main_mbx) \in Nat /\ MailBlocks \in Nat /\ Len(main_mbx) < MailBlocks
  BY <1>1, LenProperties DEF Send
<1>4. Posted' = Posted \cup {msg}
  BY <1>2, <1>3 DEF Posted
<1>5. ASSUME NEW d \in Devices PROVE Answered(d)' <=> Answered(d) \/ Answers(d, msg)
  BY <1>4 DEF Answered, Answers
<1>6. ASSUME NEW d \in Devices, Single(d), ~(Answered(d) /\ Answers(d, msg)) PROVE Single(d)'
  BY <1>2, <1>3, <1>6 DEF Single, Answered, Answers, Posted
<1> QED
  BY <1>2, <1>3, <1>4, <1>5, <1>6

LEMMA Read ==
  ASSUME Types, main_mbx # << >>, main_mbx' = Tail(main_mbx)
  PROVE  /\ main_mbx' \in Seq(Messages) /\ Len(main_mbx') <= MailBlocks
         /\ m \in Posted /\ m \in Messages /\ Posted' \subseteq Posted
         /\ \A d \in Devices :
              /\ Answered(d)' => Answered(d)
              /\ Single(d) => Single(d)' /\ (Answers(d, m) => ~Answered(d)')
<1>1. main_mbx \in Seq(Messages) /\ main_mbx # << >> /\ Len(main_mbx) <= MailBlocks
  BY DEF Types
<1>2. /\ m \in Messages /\ main_mbx' \in Seq(Messages)
      /\ Len(main_mbx') = Len(main_mbx) - 1 /\ Len(main_mbx) \in Nat /\ Len(main_mbx) >= 1
      /\ \A i \in 1 .. Len(main_mbx') : main_mbx'[i] = main_mbx[i + 1]
      /\ m = main_mbx[1]
  BY <1>1, HeadTailProperties, EmptySeq, LenProperties DEF m
<1>3. m \in Posted /\ Posted' \subseteq Posted
  BY <1>2 DEF Posted
<1>4. ASSUME NEW d \in Devices PROVE Answered(d)' => Answered(d)
  BY <1>3 DEF Answered, Answers
<1>5. ASSUME NEW d \in Devices, Single(d)
      PROVE  Single(d)' /\ (Answers(d, m) => ~Answered(d)')
  BY <1>2, <1>5 DEF Single, Answered, Answers, Posted
<1> QED
  BY <1>1, <1>2, <1>3, <1>4, <1>5

LEMMA Telling ==
  ASSUME Types, NEW x \in Messages, NEW y \in Messages
  PROVE  /\ Tell(<< >>) => line_mbx' = line_mbx
         /\ Tell(<<x>>) \/ Tell(Append(<< >>, x)) =>
              line_mbx' \in Seq(Messages) /\ Tidings' = Tidings \cup {x}
         /\ Tell(Append(<<x>>, y)) =>
              line_mbx' \in Seq(Messages) /\ Tidings' = Tidings \cup {x, y}
<1>1. line_mbx \in Seq(Messages) /\ Len(line_mbx) \in Nat
  BY LenProperties DEF Types
<1>2. Tell(<< >>) => line_mbx' = line_mbx
  BY <1>1 DEF Tell
<1>3. /\ <<x>> \in Seq(Messages) /\ Len(<<x>>) = 1 /\ <<x>>[1] = x
      /\ Append(<< >>, x) = <<x>>
  OBVIOUS
<1>4. /\ Append(<<x>>, y) \in Seq(Messages) /\ Len(Append(<<x>>, y)) = 2
      /\ Append(<<x>>, y)[1] = x /\ Append(<<x>>, y)[2] = y
  OBVIOUS
<1>5. ASSUME NEW words \in Seq(Messages), Tell(words)
      PROVE  /\ line_mbx' \in Seq(Messages)
             /\ Tidings' = Tidings \cup {words[i] : i \in 1 .. Len(words)}
  <2>1. Len(words) \in Nat
    BY LenProperties
  <2>2. /\ line_mbx' \in Seq(Messages) /\ Len(line_mbx') = Len(line_mbx) + Len(words)
        /\ \A i \in 1 .. Len(line_mbx) : line_mbx'[i] = line_mbx[i]
        /\ \A i \in 1 .. Len(words) : line_mbx'[Len(line_mbx) + i] = words[i]
    BY <1>1, <1>5, <2>1, ConcatProperties DEF Tell
  <2>3. ASSUME NEW i \in 1 .. Len(line_mbx'), i \notin 1 .. Len(line_mbx)
        PROVE  line_mbx'[i] \in {words[k] : k \in 1 .. Len(words)}
    <3>1. i - Len(line_mbx) \in 1 .. Len(words) /\ Len(line_mbx) + (i - Len(line_mbx)) = i
      BY <1>1, <2>1, <2>2, <2>3
    <3>2. line_mbx'[i] = words[i - Len(line_mbx)]
      BY <2>2, <3>1
    <3> QED
      BY <3>1, <3>2
  <2>4. Tidings' \subseteq Tidings \cup {words[i] : i \in 1 .. Len(words)}
    BY <2>2, <2>3 DEF Tidings
  <2>5. Tidings \subseteq Tidings'
    BY <1>1, <2>1, <2>2 DEF Tidings
  <2>6. ASSUME NEW i \in 1 .. Len(words) PROVE words[i] \in Tidings'
    <3>1. Len(line_mbx) + i \in 1 .. Len(line_mbx')
      BY <1>1, <2>1, <2>2
    <3> QED
      BY <2>2, <3>1 DEF Tidings
  <2> QED
    BY <2>2, <2>4, <2>5, <2>6
<1>6. ASSUME Tell(<<x>>)
      PROVE  line_mbx' \in Seq(Messages) /\ Tidings' = Tidings \cup {x}
  <2>1. {<<x>>[i] : i \in 1 .. Len(<<x>>)} = {x}
    BY <1>3
  <2> QED
    BY <1>3, <1>5, <1>6, <2>1
<1>7. ASSUME Tell(Append(<<x>>, y))
      PROVE  line_mbx' \in Seq(Messages) /\ Tidings' = Tidings \cup {x, y}
  <2> DEFINE both == Append(<<x>>, y)
  <2>1. both \in Seq(Messages) /\ Len(both) = 2 /\ both[1] = x /\ both[2] = y
    BY <1>4
  <2>2. Tell(both)
    BY <1>7
  <2> HIDE DEF both
  <2>3. \A i \in 1 .. 2 : i = 1 \/ i = 2
    OBVIOUS
  <2>4. {both[i] : i \in 1 .. Len(both)} = {x, y}
    BY <2>1, <2>3
  <2> QED
    BY <1>5, <2>1, <2>2, <2>4
<1> QED
  BY <1>2, <1>3, <1>6, <1>7

-----------------------------------------------------------------------------
(* What a handler of the main task does, whichever it is: m is the message   *)
(* it read, and the devices, the line task and the place of the note stay.   *)

Reading == IInv /\ Stacking /\ main_mbx # << >>

Kinds ==
  /\ mode' \in StackModes \cup {"INIT", "ALARM", "ACCEPT", "IDLE", "REJECT"}
  /\ job' \in Jobs /\ reset' \in BOOLEAN /\ second' \in {0, 1} /\ step' \in Steps

\* A device is asked when it is idle or gave its answer, and is busy from then
\* on; it is idle again only with its answer.
Asking ==
  /\ DOMAIN work' = Devices
  /\ \A d \in Devices :
       \/ work'[d] = work[d]
       \/ /\ work'[d] \in Asked[d] /\ (d \notin job.busy \/ Answers(d, m))
          /\ Stacking' => d \in job'.busy
  /\ Stacking' => \A d \in job.busy : d \in job'.busy \/ Answers(d, m)

Placing ==
  /\ mode' \in FeedModes =>
       mode \in FeedModes /\ ("FEED" \notin job'.busy => note = "chamber")
  /\ mode' \in StackModes \ (FeedModes \cup RejectModes) =>
       note \in {"chamber", "past", "box"} /\ step' \notin {"ESCROW", "APB_OUT"}
  /\ Stacking' /\ "ICB" \in job'.busy => boxed
  /\ mode' \in {"STACK_HOME", "WAIT_REQ_FIRST"} =>
       note = "box" /\ job'.alarm = {} /\ job'.reject = {}
  /\ mode' \in {"FEED_REV_REQ", "WAIT_REQ"} => boxed
  /\ mode' \in {"WAIT_STACK_START", "WAIT_STACK_TOP"}
     /\ "STACKER" \notin job'.busy \cup job'.alarm \cup job'.reject
       => note = "box"
  /\ step' # step => step' \in Left[note] /\ step' # "NON" /\ ~acked

Crediting ==
  /\ Told /\ Stacking' =>
       mode' \in {"WAIT_REQ", "WAIT_REQ_FIRST"} /\ "STACKER" \notin job'.busy
  /\ mode' = "WAIT_REQ_FIRST" /\ "STACKER" \notin job'.busy
       => step' = "VEND" \/ acked \/ LineIn({"error", "initial"})
  /\ mode' \in StackModes \cup {"ACCEPT"} /\ mode \in RejectModes => mode' \in RejectModes
  /\ mode' = "ACCEPT" =>
       /\ second' = 1 /\ ~reset' /\ job'.alarm = {} /\ job'.reject = {} /\ note = "box"
       /\ job'.busy = {"STACKER"} \/ (job'.busy = {} /\ (step' = "VEND" \/ acked
                                         \/ LineIn({"error", "initial"})))

\* What the line task may be told.
Tale(msg) ==
  /\ msg.code = "STACK" /\ (msg.sub = "VEND" \/ msg.arg = "FULL") => boxed
  /\ msg.code = "STACK" /\ (msg.sub = "VEND" \/ msg.arg = "FULL") /\ Stacking' =>
       mode' \in {"WAIT_REQ", "WAIT_REQ_FIRST"} /\ "STACKER" \notin job'.busy
  /\ msg.sub = "ENTRY_ON" => mode' = "WAIT_REQ_FIRST"
  /\ msg.sub = "REJECT" => mode' \in RejectModes

Tales ==
  /\ line_mbx' \in Seq(Messages) /\ Tidings \subseteq Tidings'
  /\ \A msg \in Tidings' : msg \in Tidings \/ Tale(msg)

Resetting ==
  /\ reset' => reset \/ m.code = "RESET"
  /\ mode' \in {"WAIT_REQ", "WAIT_REJECT_REQ"} => ~reset'
  /\ mode = "WAIT_REQ_FIRST" /\ Stacking' => mode' = "WAIT_REQ_FIRST" /\ (reset' => reset)
  /\ reset /\ (~reset' \/ mode' \notin StackModes) /\ ~ResetForgotten
       => ~reset' /\ mode' \in {"INIT", "ALARM"} /\ job' = NoJob

Pulling ==
  mode # "STACK_HOME" /\ mode' = "STACK_HOME" =>
    /\ note \in {"past", "box"} /\ ~reset /\ job.alarm = {}
    /\ \A d \in Devices \ {"STACKER"} : work[d] = "none"

Handled ==
  Kinds /\ Asking /\ Joined' /\ Placing /\ Crediting /\ Tales /\ Resetting /\ Pulling

\* What a handler knows of the message it reads.
Known ==
  /\ m \in Messages
  /\ \A d \in Devices : Answers(d, m) => work[d] = "none" /\ d \in job.busy
  /\ \A d \in Devices : work[d] # "none" => d \in job.busy
  /\ m.code \in Pushes /\ m.sub = "SUCCESS" => note = "box"
  /\ m.arg = "FULL" => boxed
  /\ mode \in FeedModes /\ m.code = "FEED_APB" /\ m.sub = "SUCCESS" => note = "chamber"
  /\ m.code = "ACCEPT_REQ" => mode = "WAIT_REQ_FIRST" /\ ~reset

LEMMA Knowledge == Reading => Known
<1> SUFFICES ASSUME Reading PROVE Known
  OBVIOUS
<1>1. m \in Posted /\ m \in Messages
  <2>1. main_mbx \in Seq(Messages) /\ main_mbx # << >>
    BY DEF Reading, IInv, Types
  <2>2. m \in Messages /\ m = main_mbx[1] /\ 1 \in 1 .. Len(main_mbx)
    BY <2>1, HeadTailProperties, EmptySeq, LenProperties DEF m
  <2> QED
    BY <2>2 DEF Posted
<1>2. \A d \in Devices : Answers(d, m) => work[d] = "none" /\ d \in job.busy
  BY <1>1 DEF Reading, IInv, OneAnswer, Answered
<1>3. \A d \in Devices : work[d] # "none" => d \in job.busy
  BY DEF Reading, IInv, OneAnswer
<1>4. /\ m.code \in Pushes /\ m.sub = "SUCCESS" => note = "box"
      /\ m.arg = "FULL" => boxed
      /\ mode \in FeedModes /\ m.code = "FEED_APB" /\ m.sub = "SUCCESS" => note = "chamber"
  BY <1>1 DEF Reading, IInv, Placed
<1>5. m.code = "ACCEPT_REQ" => mode = "WAIT_REQ_FIRST" /\ ~reset
  BY <1>1 DEF Reading, IInv, ResetKnown
<1> QED
  BY <1>1, <1>2, <1>3, <1>4, <1>5 DEF Known

LEMMA Heard == ASSUME Reading PROVE m.arg = "FULL" => boxed
BY Knowledge DEF Known

-----------------------------------------------------------------------------
(* The ways in which a handler ends.                                         *)

\* The main task leaves MODE1_STACK.
LEMMA Leaving ==
  ASSUME Reading, mode' \in {"INIT", "ALARM", "IDLE", "REJECT"},
         job' \in Jobs, reset' \in BOOLEAN, second' \in {0, 1}, UNCHANGED work,
         step' = step \/ (step' = "VEND" /\ boxed /\ ~acked),
         line_mbx' \in Seq(Messages),
         Tidings \subseteq Tidings',
         \A msg \in Tidings' :
           \/ msg \in Tidings
           \/ msg.sub \notin {"ENTRY_ON", "REJECT"} /\ (msg.sub = "VEND" \/ msg.arg = "FULL" => boxed),
         reset' => reset,
         reset => ResetForgotten \/ (~reset' /\ mode' \in {"INIT", "ALARM"} /\ job' = NoJob)
  PROVE  Handled
<1> USE DEF Reading, IInv
<1>1. mode' \notin StackModes /\ mode' # "ACCEPT" /\ ~Stacking'
  BY DEF StackModes, FeedModes, Stacking
<1>2. Kinds
  BY DEF Kinds, Types, Steps
<1>3. Asking
  BY <1>1 DEF Asking, Types
<1>4. Joined' /\ Placing
  BY <1>1 DEF Joined, Placing, FeedModes, StackModes, Left, boxed
<1>5. Crediting /\ Tales
  BY <1>1 DEF Crediting, Tales, Tale, StackModes
<1>6. Resetting /\ Pulling
  BY <1>1 DEF Resetting, Pulling, StackModes
<1> QED
  BY <1>2, <1>3, <1>4, <1>5, <1>6 DEF Handled

LEMMA MsgType ==
  ASSUME NEW c \in Codes, NEW t \in Subs, NEW a \in Alarms
  PROVE  /\ Msg(c, t, a) \in Messages
         /\ Msg(c, t, a).code = c /\ Msg(c, t, a).sub = t /\ Msg(c, t, a).arg = a
BY DEF Msg, Messages

LEMMA SetInitEnds ==
  ASSUME Reading, NEW s, s = step \/ (s = "VEND" /\ boxed /\ ~acked),
         NEW words, words = << >> \/ (words = <<Msg("STACK", "VEND", "OTHER")>> /\ boxed),
         SetInitAfter(s, words)
  PROVE  Handled
<1> USE DEF Reading, IInv
<1> DEFINE vend == Msg("STACK", "VEND", "OTHER")
           box  == Msg("RESET", "ALARM", "BOX")
<1>1. /\ vend \in Messages /\ vend.sub = "VEND"
      /\ box \in Messages /\ box.sub = "ALARM" /\ box.arg = "BOX"
  BY MsgType DEF Codes, Subs, Alarms
<1> HIDE DEF vend, box
<1>2. line_mbx \in Seq(Messages)
  BY DEF Types
<1>3. /\ line_mbx' \in Seq(Messages) /\ Tidings \subseteq Tidings'
      /\ \A msg \in Tidings' : msg \in Tidings \/ (msg = vend /\ boxed) \/ msg = box
  <2>1. Tell(words) \/ Tell(Append(words, box))
    BY DEF SetInitAfter, box
  <2>2. words = << >> \/ (words = <<vend>> /\ boxed)
    BY DEF vend
  <2>3. CASE Tell(<< >>)
    BY <1>1, <1>2, <2>3, Telling DEF Tidings
  <2>4. CASE Tell(<<vend>>) /\ boxed
    BY <1>1, <2>4, Telling
  <2>5. CASE Tell(Append(<< >>, box))
    BY <1>1, <2>5, Telling
  <2>6. CASE Tell(Append(<<vend>>, box)) /\ boxed
    BY <1>1, <2>6, Telling
  <2> QED
    BY <2>1, <2>2, <2>3, <2>4, <2>5, <2>6
<1>4. /\ mode' \in {"INIT", "ALARM"} /\ job' = NoJob /\ reset' = FALSE /\ second' \in {0, 1}
      /\ UNCHANGED work /\ step' = s
  BY DEF SetInitAfter, Types
<1>5. NoJob \in Jobs
  BY DEF NoJob, Jobs
<1> QED
  BY <1>1, <1>3, <1>4, <1>5, Leaving


\* _main_alarm_sub, after a VEND or without one.
LEMMA AlarmEnds ==
  ASSUME Reading, NEW j \in Jobs, NEW conn \in Codes, NEW code \in Alarms,
         NEW s, s = step \/ (s = "VEND" /\ boxed /\ ~acked),
         NEW words, words = << >> \/ (words = <<Msg("STACK", "VEND", "OTHER")>> /\ boxed),
         AlarmAfter(j, conn, code, s, words), ~reset \/ ResetForgotten, code = "FULL" => boxed
  PROVE  Handled
<1> USE DEF Reading, IInv
<1> DEFINE vend == Msg("STACK", "VEND", "OTHER")
           alarm == Msg(conn, "ALARM", code)
<1>1. /\ vend \in Messages /\ vend.sub = "VEND"
      /\ alarm \in Messages /\ alarm.sub = "ALARM" /\ alarm.arg = code
  <2>1. "STACK" \in Codes /\ "VEND" \in Subs /\ "ALARM" \in Subs /\ "OTHER" \in Alarms
    BY DEF Codes, Subs, Alarms
  <2> QED
    BY <2>1, MsgType
<1>2. Tell(Append(words, alarm)) /\ (words = << >> \/ (words = <<vend>> /\ boxed))
  BY DEF AlarmAfter
<1> HIDE DEF vend, alarm
<1>3. /\ line_mbx' \in Seq(Messages) /\ Tidings \subseteq Tidings'
      /\ \A msg \in Tidings' : msg \in Tidings \/ (msg = vend /\ boxed) \/ msg = alarm
  <2>1. CASE Tell(Append(<< >>, alarm))
    BY <1>1, <2>1, Telling
  <2>2. CASE Tell(Append(<<vend>>, alarm)) /\ boxed
    BY <1>1, <2>2, Telling
  <2> QED
    BY <1>2, <2>1, <2>2
<1>4. /\ mode' = "ALARM" /\ job' = j /\ UNCHANGED reset /\ second' = 0
      /\ UNCHANGED work /\ step' = s
  BY DEF AlarmAfter
<1>5. reset \in BOOLEAN
  BY DEF Types
<1> QED
  BY <1>1, <1>3, <1>4, <1>5, Leaving

LEMMA AlarmSubEnds ==
  ASSUME Reading, NEW j \in Jobs, NEW code \in Alarms, AlarmSub(j, code),
         ~reset \/ ResetForgotten, code = "FULL" => boxed
  PROVE  Handled
<1>1. "STACK" \in Codes
  BY DEF Codes
<1> QED
  BY <1>1, AlarmEnds DEF AlarmSub

LEMMA SetInitSimply == ASSUME Reading, SetInit PROVE Handled
BY SetInitEnds DEF SetInit

LEMMA InitOrAlarmEnds ==
  ASSUME Reading, NEW j \in Jobs, NEW code \in Alarms, InitOrAlarm(j, code),
         code = "FULL" => boxed
  PROVE  Handled
BY AlarmSubEnds, SetInitSimply DEF InitOrAlarm

LEMMA JobTypes ==
  ASSUME job \in Jobs, NEW d \in Devices
  PROVE  /\ Done(d) \in Jobs /\ Failed(d) \in Jobs
         /\ Done(d).busy = job.busy \ {d} /\ Failed(d).busy = job.busy \ {d}
         /\ Done(d).alarm = job.alarm /\ Failed(d).alarm = job.alarm \cup {d}
         /\ Done(d).reject = job.reject /\ Failed(d).reject = job.reject
BY DEF Jobs, Done, Failed

LEMMA DeviceNames ==
  /\ "FEED" \in Devices /\ "APB" \in Devices /\ "SHUTTER" \in Devices
  /\ "STACKER" \in Devices /\ "ICB" \in Devices
  /\ \A d \in Devices : d \in {"FEED", "APB", "SHUTTER", "STACKER", "ICB"}
BY DEF Devices

\* The message has no case, or says nothing new.
LEMMA StayEnds ==
  ASSUME Reading, NEW j \in Jobs, Stay(j),
         j.busy \subseteq job.busy, j.alarm = job.alarm \/ mode = "WAIT_STACK_TOP" \/ mode = "FEED_STACK_LOW",
         j.reject = job.reject \/ mode = "WAIT_STACK_TOP",
         \A d \in job.busy : d \in j.busy \/ Answers(d, m),
         mode \in FeedModes /\ "FEED" \notin j.busy => note = "chamber",
         mode \in {"WAIT_STACK_START", "WAIT_STACK_TOP"}
           /\ "STACKER" \notin j.busy \cup j.alarm \cup j.reject => note = "box",
         mode \in {"STACK_HOME", "WAIT_REQ_FIRST"} => j = job
  PROVE  Handled
<1> USE DEF Reading, IInv
<1>1. /\ job' = j /\ UNCHANGED <<mode, reset, second, step, work, line_mbx>>
  BY DEF Stay
<1>2. Kinds
  BY <1>1 DEF Kinds, Types
<1>3. Asking
  BY <1>1 DEF Asking, Types
<1>4. Joined'
  BY <1>1 DEF Joined, Stacking
<1>5. Placing
  BY <1>1 DEF Joined, Stacking, Placing, Placed, FeedModes
<1>6. Crediting
  BY <1>1 DEF Crediting, CreditTold, HandsOver, Stacking, StackModes, FeedModes
<1>7. Tales
  BY <1>1 DEF Tales, Types, Tidings
<1>8. Resetting /\ Pulling
  BY <1>1 DEF Resetting, ResetKnown, Pulling, Stacking
<1> QED
  BY <1>2, <1>3, <1>4, <1>5, <1>6, <1>7, <1>8 DEF Handled


LEMMA Ignored == ASSUME Reading, Stay(job) PROVE Handled
<1>1. job \in Jobs
  BY DEF Reading, IInv, Types
<1> QED
  BY <1>1, StayEnds DEF Reading, IInv, Placed

\* A reset of the host that has to wait for a device.
LEMMA FlagEnds ==
  ASSUME Reading, Flag, m.code = "RESET",
         mode \notin {"WAIT_REQ", "WAIT_REJECT_REQ", "WAIT_REQ_FIRST"}
  PROVE  Handled
<1> USE DEF Reading, IInv
<1>1. reset' = TRUE /\ UNCHANGED <<mode, job, second, step, work, line_mbx>>
  BY DEF Flag
<1>2. Kinds
  BY <1>1 DEF Kinds, Types
<1>3. Asking
  BY <1>1 DEF Asking, Types
<1>4. Joined'
  BY <1>1 DEF Joined, Stacking
<1>5. Placing
  BY <1>1 DEF Joined, Stacking, Placing, Placed, FeedModes
<1>6. Crediting
  BY <1>1 DEF Crediting, CreditTold, HandsOver, Stacking, StackModes, FeedModes
<1>7. Tales
  BY <1>1 DEF Tales, Types, Tidings
<1>8. Resetting /\ Pulling
  BY <1>1 DEF Resetting, ResetKnown, Pulling, Stacking
<1> QED
  BY <1>2, <1>3, <1>4, <1>5, <1>6, <1>7, <1>8 DEF Handled

\* One request to device d, from one mode to the next.
LEMMA ProceedEnds ==
  ASSUME Reading, NEW next \in StackModes, NEW j \in Jobs, NEW d \in Devices,
         NEW r \in Asked[d], NEW s \in Steps, Proceed(next, j, d, r, s),
         d \notin job.busy \/ Answers(d, m),
         j.busy \subseteq job.busy,
         \A e \in job.busy : e \in j.busy \/ Answers(e, m),
         next \in WaitsFor[d],
         next # "WAIT_STACK_TOP" => j.busy \subseteq {d},
         next = "WAIT_STACK_TOP" =>
           /\ j.busy \subseteq {"APB", "SHUTTER", "STACKER", "ICB"}
           /\ d # "APB" \/ "SHUTTER" \notin j.busy
           /\ d # "SHUTTER" \/ "APB" \notin j.busy
           /\ d # "STACKER" \/ "ICB" \notin j.busy
           /\ d # "ICB" \/ "STACKER" \notin j.busy
           /\ "STACKER" \notin {d} \cup j.busy \cup j.alarm \cup j.reject => note = "box",
         r # "FEED_APB",
         next \in FeedModes => mode \in FeedModes /\ d # "FEED" /\ note = "chamber",
         next \notin FeedModes \cup RejectModes =>
           note \in {"chamber", "past", "box"} /\ s \notin {"ESCROW", "APB_OUT"},
         d = "ICB" => boxed,
         next = "STACK_HOME" =>
           /\ note = "box" /\ j.alarm = {} /\ j.reject = {} /\ ~reset
           /\ job.alarm = {},
         next = "FEED_REV_REQ" => boxed,
         next \notin {"WAIT_REQ", "WAIT_REQ_FIRST", "WAIT_REJECT_REQ", "WAIT_STACK_START"},
         mode \in RejectModes => next \in RejectModes,
         mode # "WAIT_REQ_FIRST", mode # "WAIT_REQ",
         s # step => s \in Left[note] /\ s # "NON"
  PROVE  Handled
<1> USE DEF Reading, IInv
<1>1. /\ mode' = next /\ step' = s /\ UNCHANGED <<reset, second, line_mbx>>
      /\ job' = [j EXCEPT !.busy = @ \cup {d}]
      /\ work' = [work EXCEPT ![d] = r]
  BY DEF Proceed
<1>2. /\ job' \in Jobs /\ job'.busy = j.busy \cup {d}
      /\ job'.alarm = j.alarm /\ job'.reject = j.reject
  BY <1>1 DEF Jobs
<1>3. ~Told /\ ~acked
  BY DEF CreditTold, Told
<1>4. Kinds
  BY <1>1, <1>2 DEF Kinds, Types
<1>5. Asking
  BY <1>1, <1>2 DEF Asking, Types
<1>6. Joined'
  BY <1>1, <1>2, DeviceNames DEF Joined, WaitsFor, Types
<1>7. Placing
  <2>1. "ICB" \in job.busy => boxed
    BY DEF Placed
  <2>2. "ICB" \in job'.busy => boxed
    BY <1>2, <2>1
  <2>3. next \in {"FEED_REV_REQ", "WAIT_REQ"} => boxed
    OBVIOUS
  <2> QED
    BY <1>1, <1>2, <1>3, <2>2, <2>3 DEF Placing
<1>8. Crediting
  BY <1>1, <1>3 DEF Crediting, StackModes, FeedModes
<1>9. Tales
  BY <1>1 DEF Tales, Types, Tidings
<1>10. Resetting
  BY <1>1 DEF Resetting
<1>11. Pulling
  <2> SUFFICES ASSUME next = "STACK_HOME"
               PROVE  \A e \in Devices \ {"STACKER"} : work[e] = "none"
    BY <1>1 DEF Pulling
  <2>1. d = "STACKER" /\ j.busy \subseteq {"STACKER"}
    BY DeviceNames DEF WaitsFor, FeedModes
  <2>2. ASSUME NEW e \in Devices \ {"STACKER"}, work[e] # "none" PROVE FALSE
    <3>1. e \in job.busy /\ ~Answers(e, m)
      BY <2>2, Knowledge DEF Known
    <3> QED
      BY <2>1, <2>2, <3>1
  <2> QED
    BY <2>2
<1> QED
  BY <1>4, <1>5, <1>6, <1>7, <1>8, <1>9, <1>10, <1>11 DEF Handled


-----------------------------------------------------------------------------
(* The handlers.                                                             *)

\* What is true of job and m in every handler.
LEMMA Given ==
  ASSUME Reading
  PROVE  /\ Known /\ Types /\ job \in Jobs /\ m.arg \in Alarms /\ m.sub \in Subs
         /\ \A d \in Devices : Done(d) \in Jobs /\ Failed(d) \in Jobs
BY Knowledge, JobTypes DEF Known, Messages, Reading, IInv, Types

LEMMA Statuses ==
  ASSUME Reading,
         \/ StatusOrInit
         \/ StatusAlarm /\ (~reset \/ mode \in {"WAIT_REQ_FIRST", "WAIT_REJECT_SHUTTER_OPEN"})
  PROVE  Handled
<1>1. job \in Jobs /\ m.arg \in Alarms
  BY Given
<1>2. CASE StatusOrInit
  BY <1>1, <1>2, InitOrAlarmEnds, Heard DEF StatusOrInit
<1>3. CASE StatusAlarm /\ (~reset \/ mode \in {"WAIT_REQ_FIRST", "WAIT_REJECT_SHUTTER_OPEN"})
  BY <1>1, <1>3, AlarmSubEnds, Heard DEF StatusAlarm, ResetForgotten
<1> QED
  BY <1>2, <1>3

LEMMA Defaults == ASSUME Reading, NEW cases, Default(cases) PROVE Handled
BY Ignored DEF Default

\* A device fails while others may still work.
LEMMA Failing ==
  ASSUME Reading, NEW d \in Devices \ {"FEED"}, m.code \in Asked[d], DeviceAlarm(d),
         mode \in {"FEED_STACK_LOW", "WAIT_STACK_TOP"}
  PROVE  Handled
<1>1. Done(d) \in Jobs /\ Failed(d) \in Jobs /\ job \in Jobs /\ m.arg \in Alarms
  BY Given
<1>2. m.sub = "ALARM" /\ Answers(d, m) /\ d \in job.busy
  BY Given DEF DeviceAlarm, Answers, Known
<1>3. CASE InitOrAlarm(Done(d), m.arg)
  BY <1>1, <1>3, InitOrAlarmEnds, Heard
<1>4. CASE Stay(Failed(d))
  <2>1. /\ Failed(d).busy = job.busy \ {d} /\ Failed(d).alarm = job.alarm \cup {d}
        /\ Failed(d).reject = job.reject
    BY <1>1, JobTypes
  <2>2. mode \in {"WAIT_STACK_START", "WAIT_STACK_TOP"}
        /\ "STACKER" \notin Failed(d).busy \cup Failed(d).alarm \cup Failed(d).reject
          => note = "box"
    BY <2>1 DEF Reading, IInv, Placed
  <2>3. mode \in FeedModes /\ "FEED" \notin Failed(d).busy => note = "chamber"
    BY <2>1 DEF Reading, IInv, Placed
  <2> QED
    BY <1>1, <1>2, <1>4, <2>1, <2>2, <2>3, StayEnds
<1> QED
  BY <1>3, <1>4 DEF DeviceAlarm


LEMMA FeedReset ==
  ASSUME Reading, feed_reset, mode \in FeedModes PROVE Handled
BY FlagEnds, SetInitSimply DEF feed_reset, FeedModes

LEMMA Feeding ==
  ASSUME Reading, feeding, m.code = "FEED_APB", mode \in FeedModes
  PROVE  Handled
<1> USE DEF Reading, IInv
<1>1. /\ Done("FEED") \in Jobs /\ m.arg \in Alarms /\ Types /\ Known /\ m.sub \in Subs
  BY Given, DeviceNames
<1>2. CASE SetInit
  BY <1>2, SetInitSimply
<1>3. CASE InitOrAlarm(Done("FEED"), m.arg)
  BY <1>1, <1>3, InitOrAlarmEnds, Heard
<1>4. CASE /\ ~reset /\ Tell(<<Msg("STACK", m.sub, "OTHER")>>) /\ m.sub \in {"PAUSE", "RESUME"}
           /\ UNCHANGED <<mode, job, reset, second, step, work>>
  <2> DEFINE x == Msg("STACK", m.sub, "OTHER")
  <2>1. x \in Messages /\ x.sub = m.sub /\ x.arg = "OTHER"
    <3>1. "STACK" \in Codes /\ "OTHER" \in Alarms
      BY DEF Codes, Alarms
    <3> QED
      BY <1>1, <3>1, MsgType
  <2>2. Tell(<<x>>)
    BY <1>4
  <2> HIDE DEF x
  <2>3. line_mbx' \in Seq(Messages) /\ Tidings' = Tidings \cup {x}
    BY <1>1, <2>1, <2>2, Telling
  <2>4. Kinds /\ Asking /\ Joined'
    BY <1>1, <1>4 DEF Kinds, Types, Asking, Joined, Stacking
  <2>5. Placing
    BY <1>4 DEF Joined, Stacking, Placing, Placed, FeedModes
  <2>6. Crediting
    BY <1>4 DEF Crediting, CreditTold, HandsOver, Stacking, StackModes, FeedModes
  <2>7. Tales
    BY <1>4, <2>1, <2>3 DEF Tales, Tale
  <2>8. Resetting /\ Pulling
    BY <1>4 DEF Resetting, ResetKnown, Pulling, Stacking, FeedModes
  <2> QED
    BY <2>4, <2>5, <2>6, <2>7, <2>8 DEF Handled
<1>5. CASE RejectSub /\ ~reset /\ m.sub = "REJECT"
  <2> DEFINE x == Msg("STACK", "REJECT", "OTHER")
  <2>1. x \in Messages /\ x.sub = "REJECT" /\ x.arg = "OTHER"
    <3>1. "STACK" \in Codes /\ "OTHER" \in Alarms /\ "REJECT" \in Subs
      BY DEF Codes, Alarms, Subs
    <3> QED
      BY <3>1, MsgType
  <2>2. /\ Tell(<<x>>) /\ mode' = "WAIT_REJECT_REQ" /\ job' = NoJob /\ second' = 0
        /\ UNCHANGED <<reset, step, work>>
    BY <1>5 DEF RejectSub
  <2> HIDE DEF x
  <2>3. line_mbx' \in Seq(Messages) /\ Tidings' = Tidings \cup {x}
    BY <1>1, <2>1, <2>2, Telling
  <2>4. Kinds
    BY <1>1, <2>2 DEF Kinds, Types, NoJob, Jobs, StackModes
  <2>5. Asking
    <3>1. "FEED" \in job.busy /\ Answers("FEED", m)
      BY <1>1, <1>5 DEF Known, Answers, Asked, Devices
    <3>2. \A d \in job.busy : d = "FEED"
      BY <3>1 DEF Joined, FeedModes
    <3> QED
      BY <1>1, <2>2, <3>1, <3>2 DEF Asking, Types
  <2>6. Joined' /\ Placing
    BY <2>2 DEF Joined, Placing, NoJob, FeedModes, RejectModes
  <2>7. Crediting
    <3>1. ~Told
      BY DEF CreditTold, FeedModes
    <3> QED
      BY <2>2, <3>1 DEF Crediting, StackModes, RejectModes
  <2>8. Tales
    BY <2>1, <2>2, <2>3 DEF Tales, Tale, RejectModes
  <2>9. Resetting /\ Pulling
    BY <1>5, <2>2 DEF Resetting, Pulling, FeedModes
  <2> QED
    BY <2>4, <2>5, <2>6, <2>7, <2>8, <2>9 DEF Handled
<1> QED
  BY <1>2, <1>3, <1>4, <1>5 DEF feeding


LEMMA FeedStackLow ==
  ASSUME Reading, mode = "FEED_STACK_LOW", feed_stack_low PROVE Handled
<1> USE DEF Reading, IInv
<1>1. /\ Known /\ Types /\ job \in Jobs
      /\ \A d \in Devices : Done(d) \in Jobs /\ Done(d).busy = job.busy \ {d}
      /\ "FEED" \in Devices /\ "APB" \in Devices /\ "SHUTTER" \in Devices /\ "STACKER" \in Devices
  BY Given, JobTypes, DeviceNames
<1>2. /\ mode \in FeedModes /\ mode \in StackModes /\ note \in {"escrow", "exit", "chamber"}
      /\ \A d, e \in job.busy : d = e
      /\ "FEED" \notin job.busy => note = "chamber"
      /\ \A d \in Devices : m.code \in Asked[d] /\ m.sub = "SUCCESS" => d \in job.busy /\ Answers(d, m)
  BY <1>1 DEF FeedModes, StackModes, Joined, Placed, Answers, Known
<1>3. CASE feed_reset
  BY <1>2, <1>3, FeedReset
<1>4. CASE is("FEED_APB", "SUCCESS") /\ SetInit
  BY <1>4, SetInitSimply
<1>5. CASE is("FEED_APB", "SUCCESS") /\ Proceed(mode, Done("FEED"), "APB", "APB_CLOSE", step)
  <2>1. m.code \in Asked["FEED"] /\ m.sub = "SUCCESS" /\ note = "chamber" /\ "APB_CLOSE" \in Asked["APB"]
    BY <1>1, <1>2, <1>5 DEF is, Asked, Known
  <2>2. job.busy = {"FEED"} /\ Answers("FEED", m)
    BY <1>1, <1>2, <2>1
  <2>3. /\ Done("FEED").busy = {} /\ "APB" \notin job.busy
        /\ mode \in WaitsFor["APB"] /\ step \in Steps
    BY <1>1, <2>2 DEF WaitsFor, Types
  <2> QED
    BY <1>1, <1>2, <1>5, <2>1, <2>2, <2>3, ProceedEnds DEF FeedModes, RejectModes
<1>6. CASE m.code = "FEED_APB" /\ feeding
  BY <1>2, <1>6, Feeding
<1>7. CASE /\ is("APB_CLOSE", "SUCCESS")
           /\ Proceed(mode, Done("APB"), "SHUTTER", "SHUTTER_OPEN", step)
  <2>1. m.code \in Asked["APB"] /\ m.sub = "SUCCESS" /\ "SHUTTER_OPEN" \in Asked["SHUTTER"]
    BY <1>7 DEF is, Asked
  <2>2. job.busy = {"APB"} /\ Answers("APB", m) /\ note = "chamber"
    BY <1>1, <1>2, <2>1
  <2>3. /\ Done("APB").busy = {} /\ "SHUTTER" \notin job.busy
        /\ mode \in WaitsFor["SHUTTER"] /\ step \in Steps
    BY <1>1, <2>2 DEF WaitsFor, Types
  <2> QED
    BY <1>1, <1>2, <1>7, <2>1, <2>2, <2>3, ProceedEnds DEF FeedModes, RejectModes
<1>8. CASE m.code = "APB_CLOSE" /\ DeviceAlarm("APB")
  BY <1>1, <1>8, Failing DEF Asked
<1>9. CASE /\ is("SHUTTER_OPEN", "SUCCESS")
           /\ Proceed("WAIT_STACK_TOP", Done("SHUTTER"), "STACKER", "STACKER_EXEC", "STACKING")
  <2>1. m.code \in Asked["SHUTTER"] /\ m.sub = "SUCCESS" /\ "STACKER_EXEC" \in Asked["STACKER"]
    BY <1>9 DEF is, Asked
  <2>2. job.busy = {"SHUTTER"} /\ Answers("SHUTTER", m) /\ note = "chamber"
    BY <1>1, <1>2, <2>1
  <2>3. /\ Done("SHUTTER").busy = {} /\ "STACKER" \notin job.busy
        /\ "WAIT_STACK_TOP" \in WaitsFor["STACKER"] /\ "STACKING" \in Steps
        /\ "STACKING" \in Left[note] /\ "WAIT_STACK_TOP" \in StackModes
    BY <1>1, <2>2 DEF WaitsFor, Steps, Left, StackModes
  <2> QED
    BY <1>1, <1>2, <1>9, <2>1, <2>2, <2>3, ProceedEnds DEF FeedModes, RejectModes
<1>10. CASE m.code = "SHUTTER_OPEN" /\ DeviceAlarm("SHUTTER")
  BY <1>1, <1>10, Failing DEF Asked
<1>11. CASE StatusOrInit \/ Default({"RESET", "FEED_APB", "APB_CLOSE", "SHUTTER_OPEN"})
  BY <1>11, Statuses, Defaults
<1> QED
  BY <1>3, <1>4, <1>5, <1>6, <1>7, <1>8, <1>9, <1>10, <1>11 DEF feed_stack_low

LEMMA FeedStack ==
  ASSUME Reading, mode = "FEED_STACK", feed_stack PROVE Handled
<1> USE DEF Reading, IInv
<1>1. Known /\ Types /\ mode \in FeedModes
  BY Given DEF FeedModes
<1>2. CASE feed_reset
  BY <1>1, <1>2, FeedReset
<1>3. CASE m.code = "FEED_APB" /\ feeding
  BY <1>1, <1>3, Feeding
<1>4. CASE StatusOrInit \/ Default({"RESET", "FEED_APB"})
  BY <1>4, Statuses, Defaults
<1>5. ASSUME is("FEED_APB", "SUCCESS"),
             mode' = "WAIT_STACK_START", step' = "STACKING", reset' = FALSE,
             job' = [NoJob EXCEPT !.busy = {"STACKER"}],
             work' = [work EXCEPT !["STACKER"] = "STACKER_EXEC"],
             \/ UNCHANGED <<second, line_mbx>>
             \/ reset /\ second' = 0 /\ Tell(<<Msg("RESET", "ALARM", "BOX")>>)
      PROVE  Handled
  <2> DEFINE x == Msg("RESET", "ALARM", "BOX")
  <2>1. x \in Messages /\ x.sub = "ALARM" /\ x.arg = "BOX" /\ x.code = "RESET"
    BY MsgType DEF Codes, Subs, Alarms
  <2>2. \/ UNCHANGED <<second, line_mbx>>
        \/ second' = 0 /\ Tell(<<x>>)
    BY <1>5
  <2> HIDE DEF x
  <2>3. /\ line_mbx' \in Seq(Messages)
        /\ Tidings \subseteq Tidings' /\ Tidings' \subseteq Tidings \cup {x}
    <3>1. CASE UNCHANGED line_mbx
      BY <1>1, <3>1 DEF Types, Tidings
    <3>2. CASE Tell(<<x>>)
      BY <1>1, <2>1, <3>2, Telling
    <3> QED
      BY <2>2, <3>1, <3>2
  <2>4. /\ job' \in Jobs /\ job'.busy = {"STACKER"} /\ job'.alarm = {} /\ job'.reject = {}
    BY <1>5 DEF NoJob, Jobs, Devices
  <2>5. Kinds
    BY <1>1, <1>5, <2>2, <2>4 DEF Kinds, Types, StackModes, Steps
  <2>6. note = "chamber" /\ job.busy \subseteq {"FEED"} /\ Answers("FEED", m) /\ ~Told
    BY <1>1, <1>5, DeviceNames DEF is, Known, Answers, Asked, Joined, WaitsFor, Types, Jobs, CreditTold
  <2>7. Asking
    BY <1>1, <1>5, <2>4, <2>6, DeviceNames DEF Asking, Types, Asked
  <2>8. Joined'
    BY <1>5, <2>4 DEF Joined, WaitsFor
  <2>9. Placing
    BY <1>5, <2>4, <2>6 DEF Placing, FeedModes, RejectModes, Left, StepGiven, Told
  <2>10. Crediting /\ Tales
    BY <1>5, <2>1, <2>3, <2>6 DEF Crediting, Tales, Tale, StackModes, FeedModes, RejectModes
  <2>11. Resetting /\ Pulling
    BY <1>5 DEF Resetting, Pulling, ResetForgotten
  <2> QED
    BY <2>5, <2>7, <2>8, <2>9, <2>10, <2>11 DEF Handled
<1> QED
  BY <1>2, <1>3, <1>4, <1>5 DEF feed_stack

LEMMA WaitStackStart ==
  ASSUME Reading, mode = "WAIT_STACK_START", wait_stack_start PROVE Handled
<1> USE DEF Reading, IInv
<1>1. /\ Known /\ Types /\ job \in Jobs /\ m.arg \in Alarms
      /\ Done("STACKER") \in Jobs
  BY Given, DeviceNames
<1>2. CASE m.code = "RESET" /\ Flag
  BY <1>2, FlagEnds
<1>3. CASE Proceed("WAIT_STACK_TOP", job, "SHUTTER", "SHUTTER_OPEN", step)
  <2>1. /\ job.busy \subseteq {"STACKER"} /\ note \in {"chamber", "past", "box"}
        /\ step \notin {"ESCROW", "APB_OUT"} /\ step \in Steps
    <3>1. mode \in StackModes \ (FeedModes \cup RejectModes)
      BY DEF StackModes, FeedModes, RejectModes
    <3>2. note \in {"chamber", "past", "box"} /\ step \notin {"ESCROW", "APB_OUT"}
      BY <3>1 DEF Placed
    <3>3. ASSUME NEW d \in job.busy PROVE d = "STACKER"
      <4>1. d \in Devices /\ mode \in WaitsFor[d]
        BY <1>1 DEF Joined, Types, Jobs
      <4> QED
        BY <4>1, DeviceNames DEF WaitsFor, FeedModes
    <3> QED
      BY <1>1, <3>2, <3>3 DEF Types
  <2>2. /\ "WAIT_STACK_TOP" \in StackModes \cap WaitsFor["SHUTTER"]
        /\ "SHUTTER_OPEN" \in Asked["SHUTTER"] /\ "SHUTTER" \in Devices
    BY DeviceNames DEF StackModes, WaitsFor, Asked
  <2>3. "STACKER" \notin {"SHUTTER"} \cup job.busy \cup job.alarm \cup job.reject => note = "box"
    BY DEF Placed
  <2> QED
    BY <1>1, <1>3, <2>1, <2>2, <2>3, ProceedEnds DEF FeedModes, RejectModes
<1>4. CASE InitOrAlarm(Done("STACKER"), m.arg)
  BY <1>1, <1>4, InitOrAlarmEnds, Heard
<1>5. CASE StatusOrInit \/ Default({"RESET", "STACKER_EXEC"})
  BY <1>5, Statuses, Defaults
<1> QED
  BY <1>2, <1>3, <1>4, <1>5 DEF wait_stack_start


\* stack_wait_stack_top
AtTop(d) ==
  /\ Reading /\ mode = "WAIT_STACK_TOP" /\ d \in Devices \ {"FEED"} /\ Answers(d, m)

LEMMA TopFacts ==
  ASSUME NEW d, AtTop(d)
  PROVE  /\ Known /\ Types /\ job \in Jobs /\ Done(d) \in Jobs /\ d \in job.busy
         /\ Done(d).busy = job.busy \ {d}
         /\ Done(d).alarm = job.alarm /\ Done(d).reject = job.reject
         /\ job.busy \subseteq {"APB", "SHUTTER", "STACKER", "ICB"}
         /\ note \in {"chamber", "past", "box"} /\ step \notin {"ESCROW", "APB_OUT"}
         /\ step \in Steps
         /\ "STACKER" \notin job.busy \cup job.alarm \cup job.reject => note = "box"
         /\ mode \notin FeedModes \cup RejectModes
<1> USE DEF AtTop, Reading, IInv
<1>1. Known /\ Types /\ job \in Jobs /\ Done(d) \in Jobs /\ d \in job.busy
  BY Given DEF Known
<1>2. /\ Done(d).busy = job.busy \ {d}
      /\ Done(d).alarm = job.alarm /\ Done(d).reject = job.reject
  BY <1>1, JobTypes
<1>3. mode \in StackModes \ (FeedModes \cup RejectModes)
  BY DEF StackModes, FeedModes, RejectModes
<1>4. /\ note \in {"chamber", "past", "box"} /\ step \notin {"ESCROW", "APB_OUT"}
      /\ "STACKER" \notin job.busy \cup job.alarm \cup job.reject => note = "box"
  BY <1>3 DEF Placed
<1>5. ASSUME NEW e \in job.busy PROVE e \in {"APB", "SHUTTER", "STACKER", "ICB"}
  <2>1. e \in Devices /\ mode \in WaitsFor[e]
    BY <1>1 DEF Joined, Jobs
  <2> QED
    BY <2>1, DeviceNames DEF WaitsFor, FeedModes
<1> QED
  BY <1>1, <1>2, <1>3, <1>4, <1>5 DEF Types

LEMMA Finishing ==
  ASSUME NEW d, AtTop(d), d = "STACKER" => note = "box", Finish(Done(d))
  PROVE  Handled
<1> DEFINE j == Done(d)
<1>1. /\ Known /\ Types /\ job \in Jobs /\ j \in Jobs /\ d \in job.busy
      /\ j.busy = job.busy \ {d} /\ j.alarm = job.alarm /\ j.reject = job.reject
      /\ note \in {"chamber", "past", "box"} /\ step \notin {"ESCROW", "APB_OUT"}
      /\ step \in Steps /\ mode \notin FeedModes \cup RejectModes
      /\ "STACKER" \notin job.busy \cup job.alarm \cup job.reject => note = "box"
  BY TopFacts
<1>2. IfLast(j, finish_stacker_pb_icb(j))
  BY DEF Finish
<1>3. Reading /\ mode = "WAIT_STACK_TOP" /\ Answers(d, m) /\ d \in Devices
  BY DEF AtTop
<1>4. "OTHER" \in Alarms /\ "BOX" \in Alarms /\ "STACKER" \in Devices
  BY DEF Alarms, Devices
<1> HIDE DEF j
<1>5. CASE Stay(j)
  BY <1>1, <1>3, <1>5, StayEnds
<1>6. CASE SetInit
  BY <1>3, <1>6, SetInitSimply
<1>7. CASE ~reset /\ (AlarmSub(j, "OTHER") \/ AlarmSub(j, "BOX"))
  BY <1>1, <1>3, <1>4, <1>7, AlarmSubEnds
<1>8. CASE j.busy = {} /\ RetryRejected(j)
  <2> DEFINE r == [j EXCEPT !.reject = @ \ {"STACKER"}]
  <2>1. r \in Jobs /\ r.busy = {} /\ r.alarm = j.alarm
    BY <1>1, <1>8 DEF Jobs
  <2>2. Proceed("STACK_RETRY", r, "STACKER", "STACKER_NG_PULL", step)
    BY <1>8 DEF RetryRejected, Retry
  <2>3. /\ "STACK_RETRY" \in StackModes /\ "STACKER_NG_PULL" \in Asked["STACKER"]
        /\ "STACK_RETRY" \in WaitsFor["STACKER"]
        /\ "STACK_RETRY" \notin FeedModes \cup RejectModes
    BY DEF StackModes, Asked, WaitsFor, FeedModes, RejectModes
  <2> HIDE DEF r
  <2> QED
    BY <1>1, <1>3, <1>4, <1>8, <2>1, <2>2, <2>3, ProceedEnds
<1>9. CASE j.busy = {} /\ ~reset /\ j.alarm = {} /\ j.reject = {} /\ Pull(j)
  <2>1. PICK r \in {"STACKER_PULL", "STACKER_PULL_HALF"} :
               Proceed("STACK_HOME", j, "STACKER", r, step)
    BY <1>9 DEF Pull
  <2>2. note = "box"
    BY <1>1, <1>9
  <2>3. /\ "STACK_HOME" \in StackModes /\ r \in Asked["STACKER"]
        /\ "STACK_HOME" \in WaitsFor["STACKER"] /\ r # "FEED_APB"
        /\ "STACK_HOME" \notin FeedModes \cup RejectModes
    BY DEF StackModes, Asked, WaitsFor, FeedModes, RejectModes
  <2> QED
    BY <1>1, <1>3, <1>4, <1>9, <2>1, <2>2, <2>3, ProceedEnds
<1> QED
  BY <1>2, <1>5, <1>6, <1>7, <1>8, <1>9 DEF IfLast, finish_stacker_pb_icb

LEMMA PullingBack ==
  ASSUME AtTop("STACKER"), Done("STACKER").busy = {}, PullBack(Done("STACKER"))
  PROVE  Handled
<1> DEFINE j == Done("STACKER")
<1>1. /\ Known /\ Types /\ job \in Jobs /\ j \in Jobs /\ "STACKER" \in job.busy
      /\ j.busy = job.busy \ {"STACKER"} /\ j.alarm = job.alarm /\ j.reject = job.reject
      /\ note \in {"chamber", "past", "box"} /\ step \notin {"ESCROW", "APB_OUT"}
      /\ step \in Steps /\ mode \notin FeedModes \cup RejectModes
  BY TopFacts
<1>2. Reading /\ mode = "WAIT_STACK_TOP" /\ Answers("STACKER", m)
  BY DEF AtTop
<1>3. "OTHER" \in Alarms /\ "BOX" \in Alarms /\ "STACKER" \in Devices
  BY DEF Alarms, Devices
<1>4. PullBack(j) /\ j.busy = {}
  OBVIOUS
<1> HIDE DEF j
<1>5. CASE SetInit
  BY <1>2, <1>5, SetInitSimply
<1>6. CASE ~reset /\ (AlarmSub(j, "OTHER") \/ AlarmSub(j, "BOX"))
  BY <1>1, <1>2, <1>3, <1>6, AlarmSubEnds
<1>7. CASE Retry(j, "STACKER_NG_PULL")
  <2>1. /\ "STACK_RETRY" \in StackModes /\ "STACKER_NG_PULL" \in Asked["STACKER"]
        /\ "STACK_RETRY" \in WaitsFor["STACKER"]
        /\ "STACK_RETRY" \notin FeedModes \cup RejectModes
    BY DEF StackModes, Asked, WaitsFor, FeedModes, RejectModes
  <2> QED
    BY <1>1, <1>2, <1>3, <1>4, <1>7, <2>1, ProceedEnds DEF Retry
<1> QED
  BY <1>4, <1>5, <1>6, <1>7 DEF PullBack


LEMMA WaitStackTop ==
  ASSUME Reading, mode = "WAIT_STACK_TOP", stack_wait_stack_top PROVE Handled
<1>1. Known /\ Types /\ job \in Jobs
  BY Given
<1>2. \A d \in Devices \ {"FEED"} : Answers(d, m) => AtTop(d)
  BY DEF AtTop
<1>3. CASE m.code = "RESET" /\ Flag
  BY <1>3, FlagEnds
<1>4. CASE is("STACKER_EXEC", "SUCCESS") /\ ToIcb(Done("STACKER"))
  <2>1. AtTop("STACKER")
    BY <1>2, <1>4 DEF is, Answers, Asked, Devices
  <2>2. /\ Done("STACKER") \in Jobs /\ "STACKER" \in job.busy
        /\ Done("STACKER").busy = job.busy \ {"STACKER"}
        /\ job.busy \subseteq {"APB", "SHUTTER", "STACKER", "ICB"}
    BY <2>1, TopFacts
  <2>3. note = "box"
    BY <1>1, <1>4 DEF is, Known, Pushes
  <2>4. "ICB" \notin job.busy /\ Answers("STACKER", m)
    BY <2>1, <2>2 DEF AtTop, Reading, IInv, Joined
  <2>5. Proceed(mode, Done("STACKER"), "ICB", "ICB_ACCEPT", "ICB_ACCEPT")
    BY <1>4 DEF ToIcb
  <2>6. /\ mode \in StackModes \cap WaitsFor["ICB"] /\ "ICB" \in Devices
        /\ "ICB_ACCEPT" \in Asked["ICB"] /\ "ICB_ACCEPT" \in Steps
        /\ "ICB_ACCEPT" \in Left[note] /\ boxed
        /\ mode \notin FeedModes \cup RejectModes
    BY <2>3 DEF StackModes, WaitsFor, Asked, Devices, Steps, Left, boxed, FeedModes, RejectModes
  <2> QED
    BY <2>2, <2>3, <2>4, <2>5, <2>6, ProceedEnds
<1>5. CASE is("STACKER_EXEC", "SUCCESS") /\ Finish(Done("STACKER"))
  <2>1. AtTop("STACKER") /\ note = "box"
    BY <1>1, <1>2, <1>5 DEF is, Answers, Asked, Devices, Known, Pushes
  <2> QED
    BY <1>5, <2>1, Finishing
<1>6. CASE is("STACKER_EXEC", "REJECT") /\ Done("STACKER").busy = {} /\ PullBack(Done("STACKER"))
  <2>1. AtTop("STACKER")
    BY <1>2, <1>6 DEF is, Answers, Asked, Devices
  <2> QED
    BY <1>6, <2>1, PullingBack
<1>7. CASE /\ is("STACKER_EXEC", "REJECT")
           /\ Stay([Done("STACKER") EXCEPT !.reject = {"STACKER"}])
  <2> DEFINE j == [Done("STACKER") EXCEPT !.reject = {"STACKER"}]
  <2>1. AtTop("STACKER")
    BY <1>2, <1>7 DEF is, Answers, Asked, Devices
  <2>2. /\ Done("STACKER") \in Jobs /\ Done("STACKER").busy = job.busy \ {"STACKER"}
        /\ Done("STACKER").alarm = job.alarm
    BY <2>1, TopFacts
  <2>3. /\ j \in Jobs /\ j.busy = job.busy \ {"STACKER"} /\ j.alarm = job.alarm
        /\ j.reject = {"STACKER"}
    BY <2>2 DEF Jobs
  <2>4. Stay(j) /\ Answers("STACKER", m) /\ mode \notin FeedModes
    BY <1>7, <2>1 DEF AtTop, FeedModes
  <2> HIDE DEF j
  <2> QED
    BY <2>3, <2>4, StayEnds
<1>8. CASE \/ m.code = "STACKER_EXEC" /\ DeviceAlarm("STACKER")
           \/ m.code = "SHUTTER_OPEN" /\ DeviceAlarm("SHUTTER")
           \/ m.code = "APB_EXEC" /\ DeviceAlarm("APB")
           \/ m.code = "ICB_ACCEPT" /\ DeviceAlarm("ICB")
  BY <1>8, DeviceNames, Failing DEF Asked
<1>9. CASE is("STACKER_EXEC", "START") /\ Stay(job)
  BY <1>9, Ignored
<1>10. ASSUME is("SHUTTER_OPEN", "SUCCESS"), second' \in {0, 1},
              job' = [Done("SHUTTER") EXCEPT !.busy = @ \cup {"APB"}],
              work' = [work EXCEPT !["APB"] = "APB_EXEC"],
              UNCHANGED <<mode, reset, step, line_mbx>>
       PROVE  Handled
  <2> USE DEF Reading, IInv
  <2>1. AtTop("SHUTTER") /\ Answers("SHUTTER", m)
    BY <1>10 DEF is, Answers, Asked, Devices, AtTop
  <2>2. /\ Done("SHUTTER") \in Jobs /\ "SHUTTER" \in job.busy
        /\ Done("SHUTTER").busy = job.busy \ {"SHUTTER"}
        /\ Done("SHUTTER").alarm = job.alarm /\ Done("SHUTTER").reject = job.reject
        /\ mode \notin FeedModes \cup RejectModes /\ step \notin {"ESCROW", "APB_OUT"}
        /\ note \in {"chamber", "past", "box"}
        /\ "STACKER" \notin job.busy \cup job.alarm \cup job.reject => note = "box"
    BY <2>1, TopFacts
  <2>3. /\ job' \in Jobs /\ job'.busy = (job.busy \ {"SHUTTER"}) \cup {"APB"}
        /\ job'.alarm = job.alarm /\ job'.reject = job.reject
    BY <1>10, <2>2, DeviceNames DEF Jobs
  <2>4. "APB" \notin job.busy
    BY <2>2 DEF Joined
  <2>5. Kinds
    BY <1>1, <1>10, <2>3 DEF Kinds, Types
  <2>6. Asking
    BY <1>1, <1>10, <2>1, <2>3, <2>4, DeviceNames DEF Asking, Types, Asked
  <2>7. Joined'
    <3>1. \A e \in job'.busy : mode' \in WaitsFor[e]
      <4>1. mode' = "WAIT_STACK_TOP" /\ job'.busy \subseteq {"APB", "STACKER", "ICB"}
        BY <1>10, <2>1, <2>3, TopFacts
      <4> QED
        BY <4>1 DEF WaitsFor
    <3>2. "SHUTTER" \notin job'.busy /\ ~({"STACKER", "ICB"} \subseteq job'.busy)
      BY <2>3 DEF Joined
    <3> QED
      BY <1>10, <3>1, <3>2 DEF Joined
  <2>8. Placing
    BY <1>10, <2>2, <2>3 DEF Placing, Placed
  <2>9. Crediting
    BY <1>10, <2>2, <2>3 DEF Crediting, CreditTold
  <2>10. Tales
    BY <1>1, <1>10 DEF Tales, Types, Tidings
  <2>11. Resetting /\ Pulling
    BY <1>10 DEF Resetting, Pulling, StackModes
  <2> QED
    BY <2>5, <2>6, <2>7, <2>8, <2>9, <2>10, <2>11 DEF Handled
<1>11. CASE is("APB_EXEC", "SUCCESS") /\ Finish(Done("APB"))
  <2>1. AtTop("APB")
    BY <1>2, <1>11 DEF is, Answers, Asked, Devices
  <2> QED
    BY <1>11, <2>1, Finishing
<1>12. CASE is("ICB_ACCEPT", "SUCCESS") /\ Finish(Done("ICB"))
  <2>1. AtTop("ICB")
    BY <1>2, <1>12 DEF is, Answers, Asked, Devices
  <2> QED
    BY <1>12, <2>1, Finishing
<1>13. CASE \/ StatusOrInit
            \/ Default({"RESET", "STACKER_EXEC", "SHUTTER_OPEN", "APB_EXEC", "ICB_ACCEPT"})
  BY <1>13, Statuses, Defaults
<1> QED
  BY <1>3, <1>4, <1>5, <1>6, <1>7, <1>8, <1>9, <1>10, <1>11, <1>12, <1>13
  DEF stack_wait_stack_top


\* The credit is told, and the main task goes on to the mode next.
LEMMA CreditEnds ==
  ASSUME Reading, NEW j \in Jobs, NEW next \in {"WAIT_REQ", "WAIT_REQ_FIRST"}, Credit(j, next),
         boxed, "STACKER" \notin j.busy, next = "WAIT_REQ" => j.busy = {},
         j.busy \subseteq job.busy,
         \A e \in job.busy : e \in j.busy \/ Answers(e, m),
         next = "WAIT_REQ_FIRST" =>
           mode = "WAIT_REQ_FIRST" /\ note = "box" /\ j.alarm = {} /\ j.reject = {},
         next = "WAIT_REQ" => mode # "WAIT_REQ_FIRST", mode \notin RejectModes, ~Told
  PROVE  Handled
<1> USE DEF Reading, IInv
<1> DEFINE vend == Msg("STACK", "VEND", "OTHER")
           done == Msg("STACK", "SUCCESS", "OTHER")
<1>1. ~acked /\ Types /\ "STACK" \in Codes /\ "BOX" \in Alarms
  BY DEF Told, Codes, Alarms
<1>2. CASE reset /\ SetInitAfter("VEND", <<vend>>)
  BY <1>1, <1>2, SetInitEnds
<1>3. CASE ~reset /\ AlarmAfter(j, "STACK", "BOX", "VEND", <<vend>>)
  BY <1>1, <1>3, AlarmEnds
<1>4. CASE /\ ~reset /\ mode' = next /\ job' = j /\ step' = "VEND"
           /\ Tell(Append(<<vend>>, done)) /\ UNCHANGED <<reset, second, work>>
  <2>1. vend \in Messages /\ done \in Messages /\ vend.sub = "VEND" /\ done.sub = "SUCCESS"
    BY MsgType DEF Codes, Subs, Alarms
  <2>2. Tell(Append(<<vend>>, done))
    BY <1>4
  <2> HIDE DEF vend, done
  <2>3. line_mbx' \in Seq(Messages) /\ Tidings' = Tidings \cup {vend, done}
    BY <1>1, <2>1, <2>2, Telling
  <2>4. Kinds
    BY <1>1, <1>4 DEF Kinds, Types, StackModes, Steps
  <2>5. Asking
    BY <1>1, <1>4 DEF Asking, Types
  <2>6. Joined'
    <3>1. CASE next = "WAIT_REQ"
      BY <1>4, <3>1 DEF Joined
    <3>2. CASE next = "WAIT_REQ_FIRST"
      BY <1>4, <3>2 DEF Joined, Stacking
    <3> QED
      BY <3>1, <3>2
  <2>7. Placing
    <3>1. note \in {"past", "box"} /\ "VEND" \in Left[note]
      BY DEF boxed, Left
    <3>2. /\ mode' \notin FeedModes /\ mode' \in {"WAIT_REQ", "WAIT_REQ_FIRST"}
          /\ mode' # "WAIT_STACK_TOP" /\ mode' # "WAIT_STACK_START"
          /\ mode' # "STACK_HOME" /\ mode' # "FEED_REV_REQ"
      BY <1>4 DEF FeedModes
    <3> QED
      BY <1>1, <1>4, <3>1, <3>2 DEF Placing
  <2>8. Crediting /\ Tales
    BY <1>4, <2>1, <2>3 DEF Crediting, Tales, Tale
  <2>9. Resetting /\ Pulling
    BY <1>4 DEF Resetting, Pulling
  <2> QED
    BY <2>4, <2>5, <2>6, <2>7, <2>8, <2>9 DEF Handled
<1> QED
  BY <1>2, <1>3, <1>4 DEF Credit


\* Where the main task waits for one device and that device answers.
LEMMA AloneFacts ==
  ASSUME Reading, mode # "WAIT_STACK_TOP", NEW d \in Devices, Answers(d, m)
  PROVE  /\ Known /\ Types /\ job \in Jobs /\ Done(d) \in Jobs /\ job.busy = {d}
         /\ Done(d).busy = {} /\ Done(d).alarm = job.alarm /\ Done(d).reject = job.reject
<1> USE DEF Reading, IInv
<1>1. Known /\ Types /\ job \in Jobs /\ Done(d) \in Jobs /\ d \in job.busy
  BY Given DEF Known
<1>2. job.busy = {d}
  BY <1>1 DEF Joined
<1> QED
  BY <1>1, <1>2, JobTypes

LEMMA BoxedEnds ==
  ASSUME Reading, mode \in {"STACK_HOME", "STACK_RETRY"}, boxed,
         NEW d \in Devices, Answers(d, m), Boxed(Done(d))
  PROVE  Handled
<1> USE DEF Reading, IInv
<1>1. /\ Known /\ Types /\ job \in Jobs /\ Done(d) \in Jobs /\ job.busy = {d}
      /\ Done(d).busy = {}
  BY AloneFacts
<1>2. CASE Proceed("FEED_REV_REQ", Done(d), "FEED", "FEED_REV", step)
  <2>1. d # "FEED"
    BY <1>1 DEF Joined, WaitsFor, FeedModes
  <2>2. step \notin {"ESCROW", "APB_OUT"} /\ step \in Steps
    BY <1>1 DEF Placed, StackModes, FeedModes, RejectModes, Types
  <2>3. /\ "FEED_REV_REQ" \in StackModes \cap WaitsFor["FEED"] /\ "FEED_REV" \in Asked["FEED"]
        /\ "FEED_REV_REQ" \notin FeedModes \cup RejectModes /\ "FEED" \in Devices
        /\ mode \notin RejectModes
    BY DEF StackModes, WaitsFor, Asked, FeedModes, RejectModes, Devices
  <2>4. note \in {"past", "box"}
    BY DEF boxed
  <2> QED
    BY <1>1, <1>2, <2>1, <2>2, <2>3, <2>4, ProceedEnds
<1>3. CASE Credit(Done(d), "WAIT_REQ")
  <2>1. ~Told /\ mode \notin RejectModes
    BY DEF CreditTold, RejectModes
  <2> QED
    BY <1>1, <1>3, <2>1, CreditEnds
<1> QED
  BY <1>2, <1>3 DEF Boxed

LEMMA WaitStackHome ==
  ASSUME Reading, mode = "STACK_HOME", stack_wait_stack_home PROVE Handled
<1> USE DEF Reading, IInv
<1>1. Known /\ Types /\ job \in Jobs /\ m.arg \in Alarms /\ Done("STACKER") \in Jobs
  BY Given, DeviceNames
<1>2. CASE m.code = "RESET" /\ Flag
  BY <1>2, FlagEnds
<1>3. CASE Stay(job)
  BY <1>3, Ignored
<1>4. ASSUME mode' = "WAIT_REQ_FIRST", Tell(<<Msg("STACK", "ENTRY_ON", "OTHER")>>),
             UNCHANGED <<job, reset, second, step, work>>, is("STACKER_PULL", "ENABLE_NEXT")
      PROVE  Handled
  <2> DEFINE x == Msg("STACK", "ENTRY_ON", "OTHER")
  <2>1. x \in Messages /\ x.sub = "ENTRY_ON" /\ x.arg = "OTHER"
    BY MsgType DEF Codes, Subs, Alarms
  <2>2. Tell(<<x>>)
    BY <1>4
  <2> HIDE DEF x
  <2>3. line_mbx' \in Seq(Messages) /\ Tidings' = Tidings \cup {x}
    BY <1>1, <2>1, <2>2, Telling
  <2>4. Kinds
    BY <1>1, <1>4 DEF Kinds, Types, StackModes
  <2>5. Asking
    BY <1>1, <1>4 DEF Asking, Types
  <2>6. job.busy \subseteq {"STACKER"}
    BY <1>1, DeviceNames DEF Joined, WaitsFor, FeedModes, Jobs
  <2>7. Joined'
    BY <1>4, <2>6 DEF Joined, WaitsFor, Stacking
  <2>8. Placing
    <3>1. /\ note = "box" /\ job.alarm = {} /\ job.reject = {}
          /\ step \notin {"ESCROW", "APB_OUT"}
      BY DEF Placed, StackModes, FeedModes, RejectModes
    <3> QED
      BY <1>4, <2>6, <3>1 DEF Placing, FeedModes
  <2>9. Crediting
    <3>1. ~Told
      BY DEF CreditTold
    <3>2. "STACKER" \in job.busy
      BY DEF Joined
    <3> QED
      BY <1>4, <3>1, <3>2 DEF Crediting, RejectModes
  <2>10. Tales
    BY <1>4, <2>1, <2>3 DEF Tales, Tale
  <2>11. Resetting /\ Pulling
    BY <1>4 DEF Resetting, Pulling, StackModes
  <2> QED
    BY <2>4, <2>5, <2>7, <2>8, <2>9, <2>10, <2>11 DEF Handled
<1>5. CASE is("STACKER_PULL", "SUCCESS") /\ Boxed(Done("STACKER"))
  <2>1. Answers("STACKER", m) /\ boxed
    BY <1>5 DEF is, Answers, Asked, Placed, boxed
  <2> QED
    BY <1>5, <2>1, BoxedEnds, DeviceNames
<1>6. CASE InitOrAlarm(Done("STACKER"), m.arg)
  BY <1>1, <1>6, InitOrAlarmEnds, Heard
<1>7. CASE StatusOrInit \/ Default({"RESET", "STACKER_PULL"})
  BY <1>7, Statuses, Defaults
<1> QED
  BY <1>2, <1>3, <1>4, <1>5, <1>6, <1>7 DEF stack_wait_stack_home


LEMMA WaitReqFirst ==
  ASSUME Reading, mode = "WAIT_REQ_FIRST", stack_wait_req_first PROVE Handled
<1> USE DEF Reading, IInv
<1>1. /\ Known /\ Types /\ job \in Jobs /\ m.arg \in Alarms /\ "BOX" \in Alarms
      /\ Done("STACKER") \in Jobs /\ Failed("STACKER") \in Jobs /\ "ACCEPT" \in Codes
  BY Given, DeviceNames DEF Alarms, Codes
<1>2. note = "box" /\ job.alarm = {} /\ job.reject = {} /\ mode \notin RejectModes
  BY DEF Placed, RejectModes
<1>3. CASE SetInit
  BY <1>3, SetInitSimply
<1>4. ASSUME m.code = "ACCEPT_REQ", mode' = "ACCEPT", second' = 1,
             UNCHANGED <<job, reset, step, work, line_mbx>>
      PROVE  Handled
  <2>1. ~reset /\ job.busy \subseteq {"STACKER"}
    BY <1>1, <1>4, DeviceNames DEF Known, Joined, WaitsFor, FeedModes, Jobs
  <2>2. ~Stacking' /\ mode' \notin StackModes
    BY <1>4 DEF Stacking, StackModes, FeedModes
  <2>3. Kinds
    BY <1>1, <1>4 DEF Kinds, Types
  <2>4. Asking /\ Joined' /\ Placing
    BY <1>1, <1>4, <2>2 DEF Asking, Types, Joined, Placing, FeedModes
  <2>5. Crediting
    <3>1. job'.busy = {"STACKER"} \/ job'.busy = {}
      BY <1>4, <2>1
    <3>2. "STACKER" \notin job.busy => step = "VEND" \/ acked \/ LineIn({"error", "initial"})
      BY DEF CreditTold
    <3> QED
      BY <1>2, <1>4, <2>1, <2>2, <3>1, <3>2 DEF Crediting
  <2>6. Tales
    BY <1>1, <1>4 DEF Tales, Types, Tidings
  <2>7. Resetting /\ Pulling
    BY <1>4, <2>1, <2>2 DEF Resetting, Pulling
  <2> QED
    BY <2>3, <2>4, <2>5, <2>6, <2>7 DEF Handled
<1>5. CASE m.code = "ACCEPT_REQ" /\ AlarmAfter(job, "ACCEPT", "BOX", step, << >>)
  <2>1. ~reset
    BY <1>1, <1>5 DEF Known
  <2> QED
    BY <1>1, <1>5, <2>1, AlarmEnds
<1>6. CASE m.code = "SENSOR" /\ AlarmSub(job, "BOX")
  BY <1>1, <1>6, AlarmSubEnds, Heard DEF ResetForgotten
<1>7. CASE Stay(job)
  BY <1>7, Ignored
<1>8. CASE is("STACKER_PULL", "SUCCESS") /\ Credit(Done("STACKER"), mode)
  <2>1. Answers("STACKER", m) /\ boxed
    BY <1>2, <1>8 DEF is, Answers, Asked, boxed
  <2>2. /\ job.busy = {"STACKER"} /\ Done("STACKER").busy = {}
        /\ Done("STACKER").alarm = {} /\ Done("STACKER").reject = {}
    BY <1>2, <2>1, AloneFacts, DeviceNames
  <2>3. ~Told
    BY <2>2 DEF CreditTold
  <2> QED
    BY <1>1, <1>2, <1>8, <2>1, <2>2, <2>3, CreditEnds
<1>9. CASE ~reset /\ AlarmSub(Failed("STACKER"), m.arg)
  BY <1>1, <1>9, AlarmSubEnds, Heard
<1>10. CASE StatusAlarm \/ Default({"RESET", "ACCEPT_REQ", "SENSOR", "STACKER_PULL"})
  BY <1>10, Statuses, Defaults
<1> QED
  BY <1>3, <1>4, <1>5, <1>6, <1>7, <1>8, <1>9, <1>10 DEF stack_wait_req_first, set_accept

LEMMA StackExecRetry ==
  ASSUME Reading, mode = "STACK_RETRY", stack_exec_retry PROVE Handled
<1> USE DEF Reading, IInv
<1>1. /\ Known /\ Types /\ job \in Jobs /\ m.arg \in Alarms
      /\ \A d \in Devices : Done(d) \in Jobs
      /\ "BOX" \in Alarms /\ "FULL" \in Alarms /\ "STACK" \in Codes
      /\ "STACKER" \in Devices /\ "ICB" \in Devices
  BY Given, DeviceNames DEF Alarms, Codes
<1>2. /\ ~Told /\ ~acked /\ step \in Steps /\ mode \notin FeedModes \cup RejectModes
      /\ note \in {"chamber", "past", "box"} /\ step \notin {"ESCROW", "APB_OUT"}
      /\ mode \in StackModes
  <2>1. ~Told /\ mode \in StackModes \ (FeedModes \cup RejectModes)
    BY DEF CreditTold, StackModes, FeedModes, RejectModes
  <2> QED
    BY <1>1, <2>1 DEF Told, Placed, Types
<1>3. ASSUME NEW j \in Jobs, j.busy = {}, NEW d \in Devices, Answers(d, m), boxed, ToIcb(j)
      PROVE  Handled
  <2>1. /\ job.busy = {d}
    BY <1>3, AloneFacts
  <2>2. /\ mode \in WaitsFor["ICB"] /\ "ICB_ACCEPT" \in Asked["ICB"] /\ "ICB_ACCEPT" \in Steps
        /\ "ICB_ACCEPT" \in Left[note]
    BY <1>3 DEF WaitsFor, Asked, Steps, Left, boxed
  <2>3. Proceed(mode, j, "ICB", "ICB_ACCEPT", "ICB_ACCEPT")
    BY <1>3 DEF ToIcb
  <2>4. "ICB" \notin job.busy \/ Answers("ICB", m)
    BY <1>3, <2>1
  <2> QED
    BY <1>1, <1>2, <1>3, <2>1, <2>2, <2>3, <2>4, ProceedEnds
<1>4. CASE m.code = "RESET" /\ Flag
  BY <1>4, FlagEnds
<1>5. CASE SetInit
  BY <1>5, SetInitSimply
<1>6. CASE ~reset /\ AlarmSub(Done("STACKER"), "BOX")
  BY <1>1, <1>6, AlarmSubEnds, Heard
<1>7. CASE is("STACKER_NG_PULL", "SUCCESS") /\ Retry(Done("STACKER"), "STACKER_EXEC_RE")
  <2>1. Answers("STACKER", m)
    BY <1>7 DEF is, Answers, Asked
  <2>2. job.busy = {"STACKER"} /\ Done("STACKER").busy = {}
    BY <1>1, <2>1, AloneFacts
  <2>3. /\ mode \in WaitsFor["STACKER"] /\ "STACKER_EXEC_RE" \in Asked["STACKER"]
    BY DEF WaitsFor, Asked
  <2> QED
    BY <1>1, <1>2, <1>7, <2>1, <2>2, <2>3, ProceedEnds DEF Retry
<1>8. CASE InitOrAlarm(Done("STACKER"), m.arg) \/ InitOrAlarm(Done("ICB"), m.arg)
  BY <1>1, <1>8, InitOrAlarmEnds, Heard
<1>9. CASE /\ is("STACKER_EXEC_RE", "SUCCESS")
           /\ ToIcb(Done("STACKER")) \/ Boxed(Done("STACKER"))
  <2>1. Answers("STACKER", m) /\ boxed
    BY <1>1, <1>9 DEF is, Answers, Asked, Known, Pushes, boxed
  <2>2. Done("STACKER").busy = {}
    BY <1>1, <2>1, AloneFacts
  <2> QED
    BY <1>1, <1>3, <1>9, <2>1, <2>2, BoxedEnds
<1>10. CASE is("STACKER_EXEC_RE", "ALARM") /\ StackerFull(Done("STACKER"))
  <2>1. Answers("STACKER", m)
    BY <1>10 DEF is, Answers, Asked
  <2>2. Done("STACKER").busy = {} /\ Done("STACKER") \in Jobs
    BY <1>1, <2>1, AloneFacts
  <2> DEFINE f == [Done("STACKER") EXCEPT !.alarm = @ \cup {"STACKER"}]
  <2>3. f \in Jobs /\ f.busy = {}
    BY <1>1, <2>2 DEF Jobs
  <2>4. CASE m.arg # "FULL"
    BY <1>1, <1>10, <2>4, InitOrAlarmEnds DEF StackerFull
  <2>5. CASE m.arg = "FULL"
    <3>1. boxed
      BY <1>1, <1>10, <2>5 DEF is, Known, Pushes
    <3>2. \/ ToIcb(f)
          \/ reset /\ SetInitAfter("VEND", << >>)
          \/ ~reset /\ AlarmAfter(f, "STACK", "FULL", "VEND", << >>)
      BY <1>10, <2>5 DEF StackerFull
    <3> HIDE DEF f
    <3> QED
      BY <1>1, <1>2, <1>3, <2>1, <2>3, <3>1, <3>2, SetInitEnds, AlarmEnds
  <2> QED
    BY <2>4, <2>5
<1>11. CASE is("ICB_ACCEPT", "SUCCESS") /\ RetryInformed(Done("ICB"))
  <2>1. Answers("ICB", m)
    BY <1>11 DEF is, Answers, Asked
  <2>2. job.busy = {"ICB"}
    BY <1>1, <2>1, AloneFacts
  <2>3. boxed
    BY <2>2 DEF Placed
  <2>4. \/ Boxed(Done("ICB"))
        \/ reset /\ SetInitAfter("VEND", << >>)
        \/ ~reset /\ AlarmAfter(Done("ICB"), "STACK", "FULL", "VEND", << >>)
    BY <1>11 DEF RetryInformed
  <2> QED
    BY <1>1, <1>2, <2>1, <2>3, <2>4, BoxedEnds, SetInitEnds, AlarmEnds
<1>12. CASE \/ StatusOrInit
            \/ Default({"RESET", "STACKER_NG_PULL", "STACKER_EXEC_RE", "ICB_ACCEPT"})
  BY <1>12, Statuses, Defaults
<1> QED
  BY <1>4, <1>5, <1>6, <1>7, <1>8, <1>9, <1>10, <1>11, <1>12 DEF stack_exec_retry


LEMMA FeedRevReq ==
  ASSUME Reading, mode = "FEED_REV_REQ", stack_feed_rev_req PROVE Handled
<1> USE DEF Reading, IInv
<1>1. /\ Known /\ Types /\ m.arg \in Alarms /\ "FEED" \in Devices /\ Done("FEED") \in Jobs
  BY Given, DeviceNames
<1>2. CASE m.code = "RESET" /\ Flag
  BY <1>2, FlagEnds
<1>3. CASE is("FEED_REV", "SUCCESS") /\ Credit(Done("FEED"), "WAIT_REQ")
  <2>1. Answers("FEED", m)
    BY <1>3 DEF is, Answers, Asked
  <2>2. job.busy = {"FEED"} /\ Done("FEED").busy = {}
    BY <1>1, <2>1, AloneFacts
  <2>3. boxed /\ ~Told /\ mode \notin RejectModes
    BY DEF Placed, CreditTold, RejectModes
  <2> QED
    BY <1>1, <1>3, <2>1, <2>2, <2>3, CreditEnds
<1>4. CASE InitOrAlarm(Done("FEED"), m.arg)
  BY <1>1, <1>4, InitOrAlarmEnds, Heard
<1>5. CASE StatusOrInit \/ Default({"RESET", "FEED_REV"})
  BY <1>5, Statuses, Defaults
<1> QED
  BY <1>2, <1>3, <1>4, <1>5 DEF stack_feed_rev_req

LEMMA WaitReq ==
  ASSUME Reading, mode = "WAIT_REQ", stack_wait_req PROVE Handled
<1> USE DEF Reading, IInv
<1>1. /\ Known /\ Types /\ job \in Jobs /\ ~reset /\ "ENABLE" \in Codes /\ "OTHER" \in Alarms
  BY Given DEF Codes, Alarms, ResetKnown
<1>2. CASE SetInit
  BY <1>2, SetInitSimply
<1>3. CASE mode' = "IDLE" /\ UNCHANGED <<job, reset, second, step, work, line_mbx>>
  BY <1>1, <1>3, Leaving DEF Types, Tidings
<1>4. CASE AlarmAfter(job, "ENABLE", "OTHER", step, << >>)
  BY <1>1, <1>4, AlarmEnds
<1>5. CASE StatusAlarm \/ Default({"RESET", "ENABLE"})
  BY <1>1, <1>5, Statuses, Defaults
<1> QED
  BY <1>2, <1>3, <1>4, <1>5 DEF stack_wait_req

LEMMA WaitRejectReq ==
  ASSUME Reading, mode = "WAIT_REJECT_REQ", stack_wait_reject_req PROVE Handled
<1> USE DEF Reading, IInv
<1>1. Known /\ Types /\ job \in Jobs /\ ~reset
  BY Given DEF ResetKnown
<1>2. CASE SetInit
  BY <1>2, SetInitSimply
<1>3. CASE Proceed("WAIT_REJECT_SHUTTER_OPEN", job, "SHUTTER", "SHUTTER_OPEN", step)
  <2>1. ASSUME NEW d \in job.busy PROVE FALSE
    <3>1. d \in Devices /\ mode \in WaitsFor[d]
      BY <1>1 DEF Joined, Jobs
    <3> QED
      BY <3>1, DeviceNames DEF WaitsFor, FeedModes
  <2>2. job.busy = {}
    BY <2>1
  <2>3. /\ "WAIT_REJECT_SHUTTER_OPEN" \in StackModes \cap RejectModes
        /\ "WAIT_REJECT_SHUTTER_OPEN" \in WaitsFor["SHUTTER"]
        /\ "WAIT_REJECT_SHUTTER_OPEN" \notin FeedModes
        /\ "SHUTTER_OPEN" \in Asked["SHUTTER"] /\ "SHUTTER" \in Devices /\ step \in Steps
    BY <1>1 DEF StackModes, RejectModes, FeedModes, WaitsFor, Asked, Devices, Types
  <2> QED
    BY <1>1, <1>3, <2>2, <2>3, ProceedEnds
<1>4. CASE StatusAlarm \/ Default({"RESET", "REJECT_REQ"})
  BY <1>1, <1>4, Statuses, Defaults
<1> QED
  BY <1>2, <1>3, <1>4 DEF stack_wait_reject_req

LEMMA WaitRejectShutterOpen ==
  ASSUME Reading, mode = "WAIT_REJECT_SHUTTER_OPEN", stack_wait_reject_shutter_open
  PROVE  Handled
<1> USE DEF Reading, IInv
<1>1. /\ Known /\ Types /\ m.arg \in Alarms
      /\ Done("SHUTTER") \in Jobs /\ Failed("SHUTTER") \in Jobs
  BY Given, DeviceNames
<1>2. CASE m.code = "RESET" /\ Flag
  BY <1>2, FlagEnds
<1>3. CASE SetInit
  BY <1>3, SetInitSimply
<1>4. CASE /\ ~reset /\ mode' = "REJECT" /\ job' = Done("SHUTTER")
           /\ UNCHANGED <<reset, second, step, work, line_mbx>>
  BY <1>1, <1>4, Leaving DEF Types, Tidings
<1>5. CASE InitOrAlarm(Failed("SHUTTER"), m.arg)
  BY <1>1, <1>5, InitOrAlarmEnds, Heard
<1>6. CASE StatusAlarm \/ Default({"RESET", "SHUTTER_OPEN"})
  BY <1>6, Statuses, Defaults
<1> QED
  BY <1>2, <1>3, <1>4, <1>5, <1>6 DEF stack_wait_reject_shutter_open

LEMMA EveryHandler == ASSUME IInv, stack_msg_proc PROVE Reading /\ Handled
<1>1. Reading
  BY DEF stack_msg_proc, Reading
<1> QED
  BY <1>1, FeedStack, FeedStackLow, WaitStackStart, WaitStackTop, WaitStackHome, WaitReqFirst,
     StackExecRetry, FeedRevReq, WaitReq, WaitRejectReq, WaitRejectShutterOpen
  DEF stack_msg_proc


LEMMA PauseType == ASSUME pause' = NextPause, pause \in BOOLEAN PROVE pause' \in BOOLEAN
BY Zenon DEF NextPause

LEMMA MainKeeps == ASSUME IInv, main PROVE IInv'
<1> USE DEF IInv
<1>1. /\ Reading /\ Handled /\ UNCHANGED <<env, stacker, fvars, lvars>>
      /\ main_mbx # << >> /\ main_mbx' = Tail(main_mbx) /\ pause' = NextPause
      /\ UNCHANGED options
  BY EveryHandler DEF main, stack_msg_proc
<1>2. /\ main_mbx' \in Seq(Messages) /\ Len(main_mbx') <= MailBlocks
      /\ m \in Posted /\ Posted' \subseteq Posted
      /\ \A d \in Devices : /\ Answered(d)' => Answered(d)
                            /\ Single(d) => Single(d)' /\ (Answers(d, m) => ~Answered(d)')
  BY <1>1, Read
<1>3. pause' \in BOOLEAN
  BY <1>1, PauseType DEF Types
<1>4. Types'
  <2>1. line_mbx' \in Seq(Messages)
    BY <1>1 DEF Handled, Tales
  <2>2. DOMAIN work' = Devices /\ \A d \in Devices : work'[d] \in Asked[d] \cup {"none"}
    BY <1>1 DEF Handled, Asking, Types
  <2>3. Kinds
    BY <1>1 DEF Handled
  <2> QED
    BY <1>1, <1>2, <1>3, <2>1, <2>2, <2>3
    DEF Types, Kinds, env, fvars, lvars, options
<1>5. OneAnswer'
  <2> SUFFICES ASSUME NEW d \in Devices
               PROVE  /\ Single(d)' /\ (work'[d] # "none" => ~Answered(d)')
                      /\ Stacking' /\ (work'[d] # "none" \/ Answered(d)') => d \in job'.busy
    BY DEF OneAnswer
  <2>1. /\ Single(d) /\ (work[d] # "none" => ~Answered(d))
        /\ work[d] # "none" \/ Answered(d) => d \in job.busy
        /\ Answers(d, m) => Answered(d)
    BY <1>1, <1>2 DEF OneAnswer, Reading, Answered
  <2>2. \/ work'[d] = work[d]
        \/ (d \notin job.busy \/ Answers(d, m)) /\ (Stacking' => d \in job'.busy)
    BY <1>1 DEF Handled, Asking
  <2>3. Stacking' /\ d \in job.busy => d \in job'.busy \/ Answers(d, m)
    BY <1>1 DEF Handled, Asking
  <2> QED
    BY <1>2, <2>1, <2>2, <2>3
<1>6. Joined'
  BY <1>1 DEF Handled
<1>7. UNCHANGED <<note, stacker, line, acked, boxed>>
  BY <1>1 DEF env, lvars, boxed
<1>8. Placed'
  <2>1. Placing /\ Placed
    BY <1>1 DEF Handled
  <2>2. /\ mode' \in FeedModes =>
             /\ note' \in {"escrow", "exit", "chamber"}
             /\ "FEED" \notin job'.busy => note' = "chamber"
             /\ \A msg \in Posted' :
                  msg.code = "FEED_APB" /\ msg.sub = "SUCCESS" => note' = "chamber"
    BY <1>2, <1>7, <2>1 DEF Placing, Placed
  <2>3. \A msg \in Posted' :
          /\ msg.code \in Pushes /\ msg.sub = "SUCCESS" => note' = "box"
          /\ msg.arg = "FULL" => boxed'
    BY <1>2, <1>7, <2>1 DEF Placed
  <2>4. /\ stacker'.seq \in {"top", "returning"} => note' = "box"
        /\ stacker'.cause = "FULL" => boxed'
    BY <1>7, <2>1 DEF Placed
  <2>5. /\ mode' \in StackModes \ (FeedModes \cup RejectModes) =>
             note' \in {"chamber", "past", "box"} /\ step' \notin {"ESCROW", "APB_OUT"}
        /\ Stacking' /\ "ICB" \in job'.busy => boxed'
        /\ mode' \in {"STACK_HOME", "WAIT_REQ_FIRST"} =>
             note' = "box" /\ job'.alarm = {} /\ job'.reject = {}
        /\ mode' \in {"FEED_REV_REQ", "WAIT_REQ"} => boxed'
        /\ /\ mode' \in {"WAIT_STACK_START", "WAIT_STACK_TOP"}
           /\ "STACKER" \notin job'.busy \cup job'.alarm \cup job'.reject
           => note' = "box"
    BY <1>7, <2>1 DEF Placing
  <2> QED
    BY <2>2, <2>3, <2>4, <2>5 DEF Placed
<1>9. StepGiven'
  BY <1>1, <1>7 DEF Handled, Placing, StepGiven, LineIn
<1>10. CreditTold'
  <2>1. Crediting /\ Tales /\ CreditTold
    BY <1>1 DEF Handled
  <2>2. Told' /\ Stacking' => mode' \in {"WAIT_REQ", "WAIT_REQ_FIRST"} /\ "STACKER" \notin job'.busy
    BY <1>7, <2>1 DEF Crediting, Tales, Tale, Told, LineIn
  <2>3. mode' = "WAIT_REQ_FIRST" /\ "STACKER" \notin job'.busy
          => step' = "VEND" \/ acked' \/ LineIn({"error", "initial"})'
    BY <1>7, <2>1 DEF Crediting, LineIn
  <2>4. /\ mode' \in StackModes \cup {"ACCEPT"}
        /\ LineIn({"reject"})' \/ \E msg \in Tidings' : msg.sub = "REJECT"
        => mode' \in RejectModes
    BY <1>1, <1>7, <2>1 DEF Crediting, CreditTold, Tales, Tale, LineIn, Reading, Stacking
  <2>5. HandsOver'
    BY <1>7, <2>1 DEF Crediting, HandsOver, LineIn
  <2>6. /\ \A msg \in Tidings' :
             msg.code = "STACK" /\ (msg.sub = "VEND" \/ msg.arg = "FULL") => boxed'
        /\ LineIn({"stacked", "stacked_full", "done"})' => acked'
    BY <1>7, <2>1 DEF CreditTold, Tales, Tale, LineIn
  <2> QED
    BY <2>2, <2>3, <2>4, <2>5, <2>6 DEF CreditTold
<1>11. ResetKnown'
  <2>1. Resetting /\ Tales /\ ResetKnown /\ Stacking
    BY <1>1 DEF Handled, Reading
  <2>2. reset' \/ (\E msg \in Posted' : msg.code = "RESET") => LineIn({"initial", "error"})'
    BY <1>2, <1>7, <2>1 DEF Resetting, ResetKnown, LineIn
  <2>3. Stacking' /\ (\/ \E msg \in Tidings' : msg.sub = "ENTRY_ON"
                      \/ \E msg \in Posted' : msg.code = "ACCEPT_REQ")
          => mode' = "WAIT_REQ_FIRST"
    BY <1>2, <2>1 DEF Resetting, ResetKnown, Tales, Tale
  <2>4. Stacking' /\ (\E msg \in Posted' : msg.code = "ACCEPT_REQ") => ~reset'
    BY <1>2, <2>1 DEF Resetting, ResetKnown
  <2> QED
    BY <2>1, <2>2, <2>3, <2>4 DEF Resetting, ResetKnown
<1> QED
  BY <1>4, <1>5, <1>6, <1>8, <1>9, <1>10, <1>11


-----------------------------------------------------------------------------
(* The devices: the main task's part of the state stays.                     *)

\* What is known while a device works.
LEMMA Working ==
  ASSUME IInv, NEW d \in Devices, Stacking, work[d] # "none"
  PROVE  /\ d \in job.busy /\ mode \in WaitsFor[d]
         /\ d = "STACKER" => /\ ~acked /\ note \in {"chamber", "past", "box"}
                             /\ step \notin {"ESCROW", "APB_OUT"}
         /\ work[d] = "FEED_APB" =>
              d = "FEED" /\ mode \in FeedModes /\ ~acked /\ note \in {"escrow", "exit", "chamber"}
<1> USE DEF IInv
<1>1. d \in job.busy /\ mode \in WaitsFor[d]
  BY DEF OneAnswer, Joined
<1>2. ASSUME d = "STACKER"
      PROVE  ~acked /\ note \in {"chamber", "past", "box"} /\ step \notin {"ESCROW", "APB_OUT"}
  <2>1. mode \in StackModes \ (FeedModes \cup RejectModes)
    BY <1>1, <1>2 DEF WaitsFor, StackModes, FeedModes, RejectModes
  <2> QED
    BY <1>1, <1>2, <2>1 DEF Placed, CreditTold, Told
<1>3. ASSUME work[d] = "FEED_APB"
      PROVE  d = "FEED" /\ mode \in FeedModes /\ ~acked /\ note \in {"escrow", "exit", "chamber"}
  <2>1. work[d] \in Asked[d] \cup {"none"}
    BY DEF Types
  <2>2. d = "FEED"
    BY <1>3, <2>1, DeviceNames DEF Asked
  <2>3. mode \in FeedModes
    BY <1>1, <1>3, <2>2 DEF WaitsFor, Joined
  <2> QED
    BY <2>2, <2>3 DEF Placed, CreditTold, Told, FeedModes
<1> QED
  BY <1>1, <1>2, <1>3

LEMMA Beside ==
  ASSUME IInv, Stacking, UNCHANGED <<mode, job, reset, second, line_mbx, line, acked>>,
         \/ UNCHANGED main_mbx
         \/ \E x \in Messages : Send(x) /\ x.code \notin {"RESET", "ACCEPT_REQ"},
         work'["FEED"] \in {work["FEED"], "none"},
         \/ step' = step
         \/ step' # "NON" /\ ~acked /\ (mode # "WAIT_REQ_FIRST" \/ "STACKER" \in job.busy),
         step' \in Left[note'], boxed => boxed'
  PROVE  Joined' /\ StepGiven' /\ CreditTold' /\ ResetKnown'
<1> USE DEF IInv
<1>1. Joined'
  BY DEF Joined, Stacking
<1>2. StepGiven'
  BY DEF StepGiven, LineIn
<1>3. UNCHANGED <<Tidings, Told>>
  BY DEF Tidings, Told, LineIn
<1>4. HandsOver'
  BY DEF HandsOver, Stacking, StackModes, FeedModes
<1>5. CreditTold'
  BY <1>3, <1>4 DEF CreditTold, Stacking, LineIn
<1>6. \A msg \in Posted' : msg \in Posted \/ msg.code \notin {"RESET", "ACCEPT_REQ"}
  <2>1. CASE UNCHANGED main_mbx
    BY <2>1 DEF Posted
  <2>2. ASSUME NEW x \in Messages, Send(x), x.code \notin {"RESET", "ACCEPT_REQ"}
        PROVE  \A msg \in Posted' : msg \in Posted \/ msg.code \notin {"RESET", "ACCEPT_REQ"}
    BY <2>2, Sent
  <2> QED
    BY <2>1, <2>2
<1>7. ResetKnown'
  BY <1>3, <1>6 DEF ResetKnown, Stacking, LineIn
<1> QED
  BY <1>1, <1>2, <1>5, <1>7

LEMMA Silent == ASSUME IInv, UNCHANGED <<mode, job, work, main_mbx>> PROVE OneAnswer'
BY DEF IInv, OneAnswer, Single, Answered, Posted, Stacking

LEMMA Notice ==
  ASSUME IInv, UNCHANGED <<mode, job, work>>, NEW x \in Messages, Send(x),
         \A d \in Devices : ~Answers(d, x)
  PROVE  /\ OneAnswer' /\ Posted' = Posted \cup {x}
         /\ main_mbx' \in Seq(Messages) /\ Len(main_mbx') <= MailBlocks
BY Sent DEF IInv, OneAnswer, Stacking

LEMMA Replied ==
  ASSUME IInv, Stacking, UNCHANGED <<mode, job>>, NEW d \in Devices, work[d] # "none",
         NEW sub \in {"SUCCESS", "REJECT", "ALARM"}, NEW arg \in Alarms, Answer(d, sub, arg)
  PROVE  \E x \in Messages :
           /\ Send(x) /\ Posted' = Posted \cup {x} /\ x.sub = sub /\ x.arg = arg
           /\ x.code = IF work[d] = "STACKER_PULL_HALF" THEN "STACKER_PULL" ELSE work[d]
           /\ OneAnswer' /\ main_mbx' \in Seq(Messages) /\ Len(main_mbx') <= MailBlocks
           /\ DOMAIN work' = Devices /\ \A e \in Devices : work'[e] \in Asked[e] \cup {"none"}
           /\ work'["FEED"] \in {work["FEED"], "none"}
<1> USE DEF IInv
<1> DEFINE code == IF work[d] = "STACKER_PULL_HALF" THEN "STACKER_PULL" ELSE work[d]
           x == Msg(code, sub, arg)
<1>1. work[d] \in Asked[d]
  BY DEF Types
<1>2. code \in Asked[d] /\ code \in Codes
  BY <1>1, DeviceNames DEF Asked, Codes
<1>3. sub \in Subs
  BY DEF Subs
<1>4. x \in Messages /\ x.code = code /\ x.sub = sub /\ x.arg = arg
  BY <1>2, <1>3, MsgType
<1>5. Send(x) /\ work' = [work EXCEPT ![d] = "none"]
  BY DEF Answer
<1>6. code = IF work[d] = "STACKER_PULL_HALF" THEN "STACKER_PULL" ELSE work[d]
  OBVIOUS
<1> HIDE DEF x, code
<1>7. \A e \in Devices : Answers(e, x) <=> e = d
  <2>1. Answers(d, x)
    BY <1>2, <1>4 DEF Answers
  <2>2. ASSUME NEW e \in Devices, code \in Asked[e] PROVE e = d
    BY <1>2, <2>2, DeviceNames DEF Asked
  <2> QED
    BY <1>4, <2>1, <2>2 DEF Answers
<1>8. /\ main_mbx' \in Seq(Messages) /\ Len(main_mbx') <= MailBlocks
      /\ Posted' = Posted \cup {x}
      /\ \A e \in Devices : /\ Answered(e)' <=> Answered(e) \/ Answers(e, x)
                            /\ Single(e) /\ ~(Answered(e) /\ Answers(e, x)) => Single(e)'
  BY <1>4, <1>5, Sent
<1>9. DOMAIN work' = Devices /\ \A e \in Devices : work'[e] = IF e = d THEN "none" ELSE work[e]
  BY <1>5 DEF Types
<1>10. OneAnswer'
  <2> SUFFICES ASSUME NEW e \in Devices
               PROVE  /\ Single(e)' /\ (work'[e] # "none" => ~Answered(e)')
                      /\ Stacking' /\ (work'[e] # "none" \/ Answered(e)') => e \in job'.busy
    BY DEF OneAnswer
  <2>1. /\ Single(e) /\ (work[e] # "none" => ~Answered(e))
        /\ work[e] # "none" \/ Answered(e) => e \in job.busy
    BY DEF OneAnswer
  <2> QED
    BY <1>7, <1>8, <1>9, <2>1
<1>11. \A e \in Devices : work'[e] \in Asked[e] \cup {"none"}
  BY <1>9 DEF Types
<1> QED
  BY <1>4, <1>5, <1>6, <1>8, <1>9, <1>10, <1>11, DeviceNames


\* The feed moves the note as long as it works on FEED_APB, the stacker only
\* into the box.
LEMMA Places ==
  ASSUME IInv, Stacking, UNCHANGED <<mode, job>>,
         \/ note' = note
         \/ work["FEED"] = "FEED_APB" /\ note \in {"escrow", "exit"} /\ note' \in {"exit", "chamber"}
         \/ /\ note \in {"chamber", "past", "box"} /\ mode \notin FeedModes
            /\ note' = "box" \/ (note' = "past" /\ note # "box"),
         \A msg \in Posted' :
           \/ msg \in Posted
           \/ /\ msg.code = "FEED_APB" /\ msg.sub = "SUCCESS" => note' = "chamber"
              /\ msg.code \in Pushes /\ msg.sub = "SUCCESS" => note' = "box"
              /\ msg.arg = "FULL" => note' \in {"past", "box"},
         stacker'.seq \in {"top", "returning"} => note' = "box",
         stacker'.cause = "FULL" => note' \in {"past", "box"},
         mode \notin FeedModes /\ step \notin {"ESCROW", "APB_OUT"}
           => step' \notin {"ESCROW", "APB_OUT"}
  PROVE  Placed'
<1> USE DEF IInv
<1>1. Placed
  OBVIOUS
<1>2. work["FEED"] = "FEED_APB" => mode \in FeedModes /\ "FEED" \in job.busy
  BY Working, DeviceNames
<1>3. mode \in FeedModes =>
        /\ note' \in {"escrow", "exit", "chamber"}
        /\ "FEED" \notin job.busy => note' = "chamber"
        /\ \A msg \in Posted' : msg.code = "FEED_APB" /\ msg.sub = "SUCCESS" => note' = "chamber"
  BY <1>1, <1>2 DEF Placed
<1>4. mode \in StackModes \ (FeedModes \cup RejectModes) =>
        note' \in {"chamber", "past", "box"} /\ step' \notin {"ESCROW", "APB_OUT"}
  BY <1>1, <1>2 DEF Placed
<1>5. (boxed => boxed') /\ (note = "box" => note' = "box")
  BY DEF boxed
<1>6. \A msg \in Posted' : /\ msg.code \in Pushes /\ msg.sub = "SUCCESS" => note' = "box"
                           /\ msg.arg = "FULL" => boxed'
  BY <1>1, <1>5 DEF Placed, boxed
<1> QED
  BY <1>1, <1>3, <1>4, <1>5, <1>6 DEF Placed, Stacking, boxed

LEMMA DeviceAnswersKeeps ==
  ASSUME IInv, NEW d \in Devices \ {"STACKER"}, DeviceAnswers(d) PROVE IInv'
<1> USE DEF IInv
<1>1. /\ Stacking /\ work[d] \in Asked[d] \ {"FEED_APB"} /\ work[d] # "none"
      /\ UNCHANGED <<options, mvars, step, line_mbx, env, stacker, fvars, lvars>>
  BY DeviceNames DEF DeviceAnswers, Works, Asked
<1>2. PICK sub \in {"SUCCESS", "ALARM"} : Answer(d, sub, "OTHER")
  BY DEF DeviceAnswers
<1>3. "OTHER" \in Alarms
  BY DEF Alarms
<1>4. PICK x \in Messages :
        /\ Send(x) /\ Posted' = Posted \cup {x} /\ x.sub = sub /\ x.arg = "OTHER"
        /\ x.code = IF work[d] = "STACKER_PULL_HALF" THEN "STACKER_PULL" ELSE work[d]
        /\ OneAnswer' /\ main_mbx' \in Seq(Messages) /\ Len(main_mbx') <= MailBlocks
        /\ DOMAIN work' = Devices /\ \A e \in Devices : work'[e] \in Asked[e] \cup {"none"}
        /\ work'["FEED"] \in {work["FEED"], "none"}
  BY <1>1, <1>2, <1>3, Replied DEF mvars
<1>5. x.code \notin {"FEED_APB", "RESET", "ACCEPT_REQ"} \cup Pushes
  BY <1>1, <1>4, DeviceNames DEF Asked, Pushes
<1>6. Types'
  BY <1>1, <1>4 DEF Types, options, mvars, env, fvars, lvars
<1>7. Joined' /\ StepGiven' /\ CreditTold' /\ ResetKnown'
  BY <1>1, <1>4, <1>5, Beside DEF mvars, lvars, env, StepGiven, boxed
<1>8. Placed'
  BY <1>1, <1>4, <1>5, Places DEF mvars, env, Placed, boxed
<1> QED
  BY <1>4, <1>6, <1>7, <1>8

\* What Feeds leaves alone.
LEMMA FeedFacts ==
  ASSUME IInv, Feeds
  PROVE  /\ Stacking /\ work["FEED"] = "FEED_APB" /\ work["FEED"] # "none" /\ "FEED" \in Devices
         /\ mode \in FeedModes /\ ~acked /\ note \in {"escrow", "exit", "chamber"}
         /\ mode # "WAIT_REQ_FIRST"
         /\ UNCHANGED <<options, mode, job, reset, pause, second, line_mbx, behind, line, acked,
                        home, stacker>>
<1>1. /\ Stacking /\ work["FEED"] = "FEED_APB" /\ "FEED" \in Devices
      /\ UNCHANGED <<others, home, stacker>>
  BY DeviceNames DEF Feeds, Works
<1> QED
  BY <1>1, Working DEF others, mvars, lvars, FeedModes

LEMMA FeedMoves ==
  ASSUME IInv, FeedLeaves \/ FeedArrives PROVE IInv'
<1> USE DEF IInv
<1>1. /\ Feeds /\ UNCHANGED <<main_mbx, work, fvars>>
      /\ note \in {"escrow", "exit"} /\ note' \in {"exit", "chamber"}
      /\ \/ note' = "exit" /\ step' = "APB_OUT"
         \/ note = "exit" /\ note' = "chamber" /\ step' = step
  BY DEF FeedLeaves, FeedArrives
<1>2. /\ Stacking /\ work["FEED"] = "FEED_APB" /\ mode \in FeedModes /\ ~acked
      /\ mode # "WAIT_REQ_FIRST"
      /\ UNCHANGED <<options, mode, job, reset, pause, second, line_mbx, behind, line, acked,
                     home, stacker>>
  BY <1>1, FeedFacts
<1>3. step' \in Left[note'] /\ step' \in Steps
  BY <1>1 DEF StepGiven, Left, Steps, Types
<1>4. Types'
  BY <1>1, <1>2, <1>3 DEF Types, options, fvars
<1>5. OneAnswer'
  BY <1>1, <1>2, Silent
<1>6. Joined' /\ StepGiven' /\ CreditTold' /\ ResetKnown'
  BY <1>1, <1>2, <1>3, Beside DEF boxed
<1>7. Placed'
  BY <1>1, <1>2, Places DEF Placed, Posted, boxed
<1> QED
  BY <1>4, <1>5, <1>6, <1>7

LEMMA FeedEndsKeeps == ASSUME IInv, FeedEnds PROVE IInv'
<1> USE DEF IInv
<1>1. Feeds /\ paused' = FALSE /\ UNCHANGED <<step, note, pauses>>
  BY DEF FeedEnds
<1>2. PICK sub \in {"SUCCESS", "REJECT", "ALARM"} :
        Answer("FEED", sub, "OTHER") /\ (sub = "SUCCESS" => note = "chamber")
  BY DEF FeedEnds
<1>3. /\ Stacking /\ work["FEED"] = "FEED_APB" /\ work["FEED"] # "none" /\ "FEED" \in Devices
      /\ UNCHANGED <<options, mode, job, reset, pause, second, line_mbx, behind, line, acked,
                     home, stacker>>
      /\ "OTHER" \in Alarms
  BY <1>1, FeedFacts DEF Alarms
<1>4. PICK x \in Messages :
        /\ Send(x) /\ Posted' = Posted \cup {x} /\ x.sub = sub /\ x.arg = "OTHER"
        /\ x.code = IF work["FEED"] = "STACKER_PULL_HALF" THEN "STACKER_PULL" ELSE work["FEED"]
        /\ OneAnswer' /\ main_mbx' \in Seq(Messages) /\ Len(main_mbx') <= MailBlocks
        /\ DOMAIN work' = Devices /\ \A e \in Devices : work'[e] \in Asked[e] \cup {"none"}
        /\ work'["FEED"] \in {work["FEED"], "none"}
  BY <1>2, <1>3, Replied
<1>5. x.code = "FEED_APB" /\ x.code \notin Pushes
  BY <1>3, <1>4 DEF Pushes
<1>6. Types'
  <2>1. paused' \in BOOLEAN
    BY <1>1
  <2> QED
    BY <1>1, <1>3, <1>4, <2>1 DEF Types, options
<1>7. Joined' /\ StepGiven' /\ CreditTold' /\ ResetKnown'
  BY <1>1, <1>3, <1>4, <1>5, Beside DEF StepGiven, boxed
<1>8. Placed'
  BY <1>1, <1>2, <1>3, <1>4, <1>5, Places DEF Placed, boxed
<1> QED
  BY <1>4, <1>6, <1>7, <1>8

LEMMA FeedTells ==
  ASSUME IInv, FeedPauses \/ FeedResumes PROVE IInv'
<1> USE DEF IInv
<1>1. /\ Feeds /\ paused' \in BOOLEAN /\ UNCHANGED <<note, work>>
      /\ pauses' \in 0 .. MaxPauses
      /\ step' = step \/ (note = "exit" /\ step' = "APB_OUT")
  <2>1. MaxPauses \in Nat /\ pauses \in 0 .. MaxPauses
    BY DEF Types
  <2>2. CASE FeedPauses
    <3>1. pauses' \in 0 .. MaxPauses
      BY <2>1, <2>2 DEF FeedPauses
    <3>2. paused' \in BOOLEAN
      BY <2>2 DEF FeedPauses
    <3> QED
      BY <2>2, <3>1, <3>2 DEF FeedPauses
  <2>3. CASE FeedResumes
    <3>1. paused' \in BOOLEAN
      BY <2>3 DEF FeedResumes
    <3> QED
      BY <2>1, <2>3, <3>1 DEF FeedResumes
  <2> QED
    BY <2>2, <2>3
<1>2. PICK sub \in {"PAUSE", "RESUME"} : Send(Msg("FEED_APB", sub, "OTHER"))
  BY DEF FeedPauses, FeedResumes
<1> DEFINE x == Msg("FEED_APB", sub, "OTHER")
<1>3. x \in Messages /\ x.code = "FEED_APB" /\ x.sub = sub /\ x.arg = "OTHER"
  <2>1. "FEED_APB" \in Codes /\ sub \in Subs /\ "OTHER" \in Alarms
    BY DEF Codes, Subs, Alarms
  <2> QED
    BY <2>1, MsgType
<1>4. Send(x)
  BY <1>2
<1> HIDE DEF x
<1>5. /\ Stacking /\ mode \in FeedModes /\ ~acked /\ mode # "WAIT_REQ_FIRST"
      /\ UNCHANGED <<options, mode, job, reset, pause, second, line_mbx, behind, line, acked,
                     home, stacker>>
  BY <1>1, FeedFacts
<1>6. /\ OneAnswer' /\ Posted' = Posted \cup {x}
      /\ main_mbx' \in Seq(Messages) /\ Len(main_mbx') <= MailBlocks
  BY <1>1, <1>3, <1>4, <1>5, Notice DEF Answers
<1>7. step' \in Left[note'] /\ step' \in Steps
  BY <1>1 DEF StepGiven, Left, Steps, Types
<1>8. Types'
  BY <1>1, <1>5, <1>6, <1>7 DEF Types, options
<1>9. Joined' /\ StepGiven' /\ CreditTold' /\ ResetKnown'
  BY <1>1, <1>3, <1>4, <1>5, <1>7, Beside DEF boxed
<1>10. Placed'
  BY <1>1, <1>3, <1>5, <1>6, Places DEF Placed, Pushes, boxed
<1> QED
  BY <1>6, <1>8, <1>9, <1>10


-----------------------------------------------------------------------------
(* The stacker.                                                              *)

StackerWorks ==
  /\ IInv /\ Stacking /\ work["STACKER"] \in Asked["STACKER"]
  /\ UNCHANGED <<others, fvars>>

LEMMA StackerFacts ==
  ASSUME StackerWorks
  PROVE  /\ Stacking /\ work["STACKER"] # "none" /\ "STACKER" \in Devices
         /\ "STACKER" \in job.busy /\ ~acked /\ mode \notin FeedModes
         /\ note \in {"chamber", "past", "box"} /\ step \notin {"ESCROW", "APB_OUT"}
         /\ UNCHANGED <<options, mode, job, reset, pause, second, line_mbx, behind, line, acked,
                        pauses, paused>>
<1>1. /\ IInv /\ Stacking /\ work["STACKER"] # "none" /\ "STACKER" \in Devices
      /\ UNCHANGED <<others, fvars>>
  BY DeviceNames DEF StackerWorks, Asked
<1>2. /\ "STACKER" \in job.busy /\ mode \in WaitsFor["STACKER"] /\ ~acked
      /\ note \in {"chamber", "past", "box"} /\ step \notin {"ESCROW", "APB_OUT"}
  BY <1>1, Working
<1> QED
  BY <1>1, <1>2 DEF others, fvars, mvars, lvars, WaitsFor, FeedModes

\* Within its request the stacker sends nothing.
LEMMA StackerTurns ==
  ASSUME StackerWorks, UNCHANGED <<main_mbx, work>>, home' \in BOOLEAN, stacker' \in Strokes,
         stacker'.seq # "again" => stacker'.tries <= PushRetries,
         \/ UNCHANGED <<note, step>>
         \/ note' = "box" /\ step' = "BILL_IN_BOX"
         \/ note' = (IF note = "box" THEN "box" ELSE "past") /\ step' = step,
         stacker'.seq \in {"top", "returning"} => note' = "box",
         stacker'.cause = "FULL" => note' \in {"past", "box"}
  PROVE  IInv'
<1> USE DEF IInv
<1>1. /\ IInv /\ Stacking /\ "STACKER" \in job.busy /\ ~acked /\ mode \notin FeedModes
      /\ note \in {"chamber", "past", "box"} /\ step \notin {"ESCROW", "APB_OUT"}
      /\ UNCHANGED <<options, mode, job, reset, pause, second, line_mbx, behind, line, acked,
                     pauses, paused>>
  BY StackerFacts DEF StackerWorks
<1>2. /\ note' \in {"chamber", "past", "box"} /\ step' \in Left[note'] /\ step' \in Steps
      /\ step' \notin {"ESCROW", "APB_OUT"} /\ (step' = step \/ step' # "NON")
  BY <1>1 DEF StepGiven, Left, Steps, Types
<1>3. Types'
  BY <1>1, <1>2 DEF Types, options
<1>4. OneAnswer'
  BY <1>1, Silent
<1>5. Joined' /\ StepGiven' /\ CreditTold' /\ ResetKnown'
  BY <1>1, <1>2, Beside DEF boxed
<1>6. Placed'
  BY <1>1, <1>2, Places DEF Posted
<1> QED
  BY <1>3, <1>4, <1>5, <1>6

\* What the stacker sends before it is done.
LEMMA StackerTells ==
  ASSUME StackerWorks, UNCHANGED <<work, note, step, home>>, stacker' \in Strokes,
         stacker'.seq # "again" => stacker'.tries <= PushRetries,
         NEW x \in Messages, Send(x), x.sub \in {"START", "ENABLE_NEXT"}, x.arg = "OTHER",
         x.code \in {"STACKER_EXEC", "STACKER_PULL"},
         stacker'.seq \notin {"top", "returning"}, stacker'.cause = stacker.cause
  PROVE  IInv'
<1> USE DEF IInv
<1>1. /\ IInv /\ Stacking /\ "STACKER" \in job.busy /\ ~acked /\ mode \notin FeedModes
      /\ note \in {"chamber", "past", "box"} /\ step \notin {"ESCROW", "APB_OUT"}
      /\ UNCHANGED <<options, mode, job, reset, pause, second, line_mbx, behind, line, acked,
                     pauses, paused>>
  BY StackerFacts DEF StackerWorks
<1>2. /\ OneAnswer' /\ Posted' = Posted \cup {x}
      /\ main_mbx' \in Seq(Messages) /\ Len(main_mbx') <= MailBlocks
  BY <1>1, Notice DEF Answers
<1>3. Types'
  BY <1>1, <1>2 DEF Types, options
<1>4. Joined' /\ StepGiven' /\ CreditTold' /\ ResetKnown'
  BY <1>1, Beside DEF StepGiven, boxed
<1>5. stacker'.cause = "FULL" => note' \in {"past", "box"}
  BY DEF StackerWorks, Placed, boxed
<1>6. Placed'
  BY <1>1, <1>2, <1>5, Places
<1> QED
  BY <1>2, <1>3, <1>4, <1>6

\* The last answer.
LEMMA StackerEnds ==
  ASSUME StackerWorks, home' \in BOOLEAN,
         \/ UNCHANGED <<note, step>>
         \/ note' = "box" /\ step' = "BILL_IN_BOX"
         \/ note' = (IF note = "box" THEN "box" ELSE "past") /\ step' = step,
         NEW sub \in {"SUCCESS", "REJECT", "ALARM"}, NEW arg \in Alarms, Ends(sub, arg),
         work["STACKER"] \in Pushes /\ sub = "SUCCESS" => note' = "box",
         arg = "FULL" => note' \in {"past", "box"}
  PROVE  IInv'
<1> USE DEF IInv
<1>1. /\ IInv /\ Stacking /\ "STACKER" \in job.busy /\ ~acked /\ mode \notin FeedModes
      /\ work["STACKER"] # "none" /\ "STACKER" \in Devices
      /\ note \in {"chamber", "past", "box"} /\ step \notin {"ESCROW", "APB_OUT"}
      /\ UNCHANGED <<options, mode, job, reset, pause, second, line_mbx, behind, line, acked,
                     pauses, paused>>
      /\ Answer("STACKER", sub, arg) /\ stacker' = NewStacker
  BY StackerFacts DEF StackerWorks, Ends
<1>2. PICK x \in Messages :
        /\ Send(x) /\ Posted' = Posted \cup {x} /\ x.sub = sub /\ x.arg = arg
        /\ x.code = IF work["STACKER"] = "STACKER_PULL_HALF" THEN "STACKER_PULL"
                    ELSE work["STACKER"]
        /\ OneAnswer' /\ main_mbx' \in Seq(Messages) /\ Len(main_mbx') <= MailBlocks
        /\ DOMAIN work' = Devices /\ \A e \in Devices : work'[e] \in Asked[e] \cup {"none"}
        /\ work'["FEED"] \in {work["FEED"], "none"}
  BY <1>1, Replied
<1>3. /\ x.code \notin {"FEED_APB", "RESET", "ACCEPT_REQ"}
      /\ x.code \in Pushes => x.code = work["STACKER"]
  BY <1>2 DEF StackerWorks, Asked, Pushes
<1>4. /\ stacker' \in Strokes /\ stacker'.tries = 0 /\ stacker'.seq = "new"
      /\ stacker'.cause = "OTHER"
  BY <1>1 DEF NewStacker, Strokes, Alarms
<1>5. /\ note' \in {"chamber", "past", "box"} /\ step' \in Left[note'] /\ step' \in Steps
      /\ step' \notin {"ESCROW", "APB_OUT"} /\ (step' = step \/ step' # "NON")
  BY <1>1 DEF StepGiven, Left, Steps, Types
<1>6. Types'
  BY <1>1, <1>2, <1>4, <1>5 DEF Types, options
<1>7. Joined' /\ StepGiven' /\ CreditTold' /\ ResetKnown'
  BY <1>1, <1>2, <1>3, <1>5, Beside DEF boxed
<1>8. Placed'
  BY <1>1, <1>2, <1>3, <1>4, <1>5, Places
<1> QED
  BY <1>2, <1>6, <1>7, <1>8

LEMMA StackerState ==
  ASSUME IInv
  PROVE  /\ stacker \in Strokes /\ home \in BOOLEAN
         /\ stacker.tries \in 0 .. PushRetries + 1 /\ stacker.homes \in 0 .. HomeRetries
         /\ stacker.seq # "again" => stacker.tries <= PushRetries
         /\ stacker.seq \in {"top", "returning"} => note = "box"
         /\ stacker.cause = "FULL" => note \in {"past", "box"}
         /\ stacker.cause \in Alarms
         /\ PushRetries \in Nat /\ HomeRetries \in Nat
         /\ "OTHER" \in Alarms /\ "FULL" \in Alarms
BY DEF IInv, Types, Placed, Strokes, Alarms, boxed

LEMMA Tries ==
  ASSUME stacker \in Strokes, NEW seq \in {"new", "leaving", "pushing", "top", "back",
                                           "returning", "pulling", "again"}
  PROVE  /\ [stacker EXCEPT !.seq = seq] \in Strokes
         /\ [stacker EXCEPT !.seq = seq].seq = seq
         /\ [stacker EXCEPT !.seq = seq].tries = stacker.tries
         /\ [stacker EXCEPT !.seq = seq].cause = stacker.cause
BY DEF Strokes

LEMMA PushFailing ==
  ASSUME StackerWorks, stacker.seq # "again", NEW cause \in {"OTHER", "FULL"}, PushFails(cause),
         home' \in BOOLEAN,
         \/ UNCHANGED <<note, step>>
         \/ note' = "box" /\ step' = "BILL_IN_BOX"
         \/ note' = (IF note = "box" THEN "box" ELSE "past") /\ step' = step,
         cause = "FULL" => note' \in {"past", "box"}
  PROVE  IInv'
<1>1. /\ stacker \in Strokes /\ stacker.tries \in 0 .. PushRetries /\ PushRetries \in Nat
      /\ "OTHER" \in Alarms /\ "FULL" \in Alarms
  BY StackerState DEF StackerWorks
<1>2. CASE work["STACKER"] = "STACKER_EXEC"
  <2>1. Ends("REJECT", "OTHER")
    BY <1>2 DEF PushFails
  <2> QED
    BY <1>1, <1>2, <2>1, StackerEnds
<1>3. CASE work["STACKER"] # "STACKER_EXEC"
  <2>1. /\ stacker' = [stacker EXCEPT !.seq = "again", !.tries = @ + 1, !.cause = cause]
        /\ UNCHANGED <<main_mbx, work>>
    BY <1>3 DEF PushFails
  <2>2. stacker' \in Strokes /\ stacker'.seq = "again" /\ stacker'.cause = cause
    <3>1. stacker' = [seq |-> "again", tries |-> stacker.tries + 1, homes |-> stacker.homes,
                      cause |-> cause]
      BY <1>1, <2>1 DEF Strokes
    <3>2. stacker.tries + 1 \in 0 .. PushRetries + 1 /\ stacker.homes \in 0 .. HomeRetries
      BY <1>1 DEF Strokes
    <3> QED
      BY <1>1, <3>1, <3>2 DEF Strokes
  <2> QED
    BY <1>3, <2>1, <2>2, StackerTurns
<1> QED
  BY <1>2, <1>3

LEMMA HomeCounting ==
  ASSUME StackerWorks, NEW seq \in {"new", "again"}, HomeCount(seq),
         home' \in BOOLEAN, UNCHANGED <<note, step>>,
         seq = "new" => stacker.seq # "again"
  PROVE  IInv'
<1>1. /\ stacker \in Strokes /\ stacker.tries \in 0 .. PushRetries + 1 /\ PushRetries \in Nat
      /\ stacker.homes \in 0 .. HomeRetries /\ HomeRetries \in Nat /\ "OTHER" \in Alarms
      /\ stacker.seq # "again" => stacker.tries <= PushRetries
  BY StackerState DEF StackerWorks
<1>2. CASE Ends("ALARM", "OTHER")
  BY <1>1, <1>2, StackerEnds
<1>3. CASE /\ ~(stacker.homes + 1 > HomeRetries)
           /\ stacker' = [stacker EXCEPT !.seq = seq, !.homes = @ + 1, !.cause = "OTHER"]
           /\ UNCHANGED <<main_mbx, work>>
  <2>1. /\ stacker' \in Strokes /\ stacker'.seq = seq /\ stacker'.cause = "OTHER"
        /\ stacker'.tries = stacker.tries
    <3>1. stacker' = [seq |-> seq, tries |-> stacker.tries, homes |-> stacker.homes + 1,
                      cause |-> "OTHER"]
      BY <1>1, <1>3 DEF Strokes
    <3>2. stacker.homes + 1 \in 0 .. HomeRetries
      BY <1>1, <1>3
    <3> QED
      BY <1>1, <3>1, <3>2 DEF Strokes
  <2> QED
    BY <1>1, <1>3, <2>1, StackerTurns
<1> QED
  BY <1>2, <1>3 DEF HomeCount

LEMMA Turning ==
  ASSUME StackerWorks, NEW seq, Turn(seq), home' \in BOOLEAN,
         seq \in {"new", "leaving", "pushing", "top", "back", "returning", "pulling", "again"},
         seq # "again" => stacker.tries <= PushRetries,
         UNCHANGED <<note, step>> \/ (note' = "box" /\ step' = "BILL_IN_BOX"),
         seq \in {"top", "returning"} => note' = "box"
  PROVE  IInv'
<1>1. stacker \in Strokes /\ (stacker.cause = "FULL" => note \in {"past", "box"})
  BY StackerState DEF StackerWorks
<1>2. stacker' = [stacker EXCEPT !.seq = seq] /\ UNCHANGED <<main_mbx, work>>
  BY DEF Turn
<1>3. /\ stacker' \in Strokes /\ stacker'.seq = seq /\ stacker'.tries = stacker.tries
      /\ stacker'.cause = stacker.cause
  BY <1>1, <1>2, Tries
<1> QED
  BY <1>1, <1>2, <1>3, StackerTurns

LEMMA StackerKeeps == ASSUME IInv, Stacker PROVE IInv'
<1>1. /\ stacker \in Strokes /\ home \in BOOLEAN
      /\ stacker.tries \in 0 .. PushRetries + 1 /\ stacker.homes \in 0 .. HomeRetries
      /\ stacker.seq # "again" => stacker.tries <= PushRetries
      /\ stacker.seq \in {"top", "returning"} => note = "box"
      /\ stacker.cause = "FULL" => note \in {"past", "box"}
      /\ stacker.cause \in Alarms
      /\ PushRetries \in Nat /\ HomeRetries \in Nat /\ "OTHER" \in Alarms
  BY StackerState
<1>2. ASSUME NEW reqs, reqs \subseteq Asked["STACKER"], NEW seq, StackerIn(reqs, seq)
      PROVE  StackerWorks /\ stacker.seq = seq /\ work["STACKER"] \in reqs
  BY <1>2 DEF StackerIn, Works, StackerWorks
<1>3. /\ Pushes \subseteq Asked["STACKER"] /\ Pulls \subseteq Asked["STACKER"]
      /\ {"STACKER_EXEC"} \subseteq Asked["STACKER"]
      /\ {"STACKER_EXEC_RE"} \subseteq Asked["STACKER"]
      /\ {"STACKER_NG_PULL"} \subseteq Asked["STACKER"]
      /\ {"STACKER_PULL"} \subseteq Asked["STACKER"]
  BY DEF Pushes, Pulls, Asked
<1>4. CASE StackerStarts
  <2>1. StackerWorks /\ stacker.seq = "new" /\ UNCHANGED <<step, note, home>>
    BY <1>2, <1>3, <1>4 DEF StackerStarts
  <2>2. CASE /\ Send(Msg("STACKER_EXEC", "START", "OTHER"))
             /\ stacker' = [stacker EXCEPT !.seq = "leaving"] /\ UNCHANGED work
    <3> DEFINE x == Msg("STACKER_EXEC", "START", "OTHER")
    <3>1. x \in Messages /\ x.code = "STACKER_EXEC" /\ x.sub = "START" /\ x.arg = "OTHER"
      BY MsgType DEF Codes, Subs, Alarms
    <3>2. Send(x)
      BY <2>2
    <3> HIDE DEF x
    <3>3. /\ stacker' \in Strokes /\ stacker'.seq = "leaving" /\ stacker'.cause = stacker.cause
          /\ stacker'.tries = stacker.tries
      BY <1>1, <2>2, Tries
    <3> QED
      BY <1>1, <2>1, <2>2, <3>1, <3>2, <3>3, StackerTells
  <2>3. CASE Turn(IF work["STACKER"] = "STACKER_EXEC" THEN "back" ELSE "again")
    BY <1>1, <2>1, <2>3, Turning
  <2> QED
    BY <1>4, <2>2, <2>3 DEF StackerStarts
<1>5. CASE StackerLeaves
  <2>1. StackerWorks /\ stacker.seq = "leaving" /\ UNCHANGED <<step, note>>
    BY <1>2, <1>3, <1>5 DEF StackerLeaves
  <2>2. CASE PushFails("OTHER") /\ UNCHANGED home
    BY <1>1, <2>1, <2>2, PushFailing
  <2>3. CASE Turn("pushing") /\ home' = FALSE
    <3>1. home' \in BOOLEAN
      BY <2>3
    <3> QED
      BY <1>1, <2>1, <2>3, <3>1, Turning
  <2> QED
    BY <1>5, <2>2, <2>3 DEF StackerLeaves
<1>6. CASE StackerTops
  <2>1. StackerWorks /\ stacker.seq = "pushing"
    BY <1>2, <1>3, <1>6 DEF StackerTops
  <2> QED
    BY <1>1, <1>6, <2>1, Turning DEF StackerTops
<1>7. CASE StackerStops
  <2>1. StackerWorks /\ stacker.seq = "top" /\ UNCHANGED <<step, note>>
    BY <1>2, <1>3, <1>7 DEF StackerStops
  <2>2. CASE home' \in BOOLEAN /\ \E cause \in {"OTHER", "FULL"} : PushFails(cause)
    BY <1>1, <2>1, <2>2, PushFailing
  <2>3. CASE UNCHANGED home /\ Ends("SUCCESS", "OTHER")
    BY <1>1, <2>1, <2>3, StackerEnds
  <2>4. CASE UNCHANGED home /\ Turn("returning")
    BY <1>1, <2>1, <2>4, Turning
  <2> QED
    BY <1>7, <2>2, <2>3, <2>4 DEF StackerStops
<1>8. CASE StackerBacks
  <2>1. StackerWorks /\ stacker.seq = "back" /\ UNCHANGED <<step, note>>
    BY <1>2, <1>3, <1>8 DEF StackerBacks
  <2> QED
    BY <1>8, <2>1, HomeCounting DEF StackerBacks
<1>9. CASE StackerReturns
  <2>1. /\ StackerWorks /\ UNCHANGED <<step, note>>
        /\ work["STACKER"] \in Pushes => note = "box"
        /\ work["STACKER"] = "STACKER_NG_PULL" => stacker.seq # "again"
    <3>1. UNCHANGED <<step, note>>
      BY <1>9 DEF StackerReturns
    <3>2. CASE StackerIn({"STACKER_EXEC_RE"}, "returning")
      BY <1>1, <1>2, <1>3, <3>1, <3>2
    <3>3. CASE StackerIn({"STACKER_NG_PULL"}, "new")
      BY <1>2, <1>3, <3>1, <3>3 DEF Pushes
    <3>4. CASE StackerIn({"STACKER_PULL"}, "pulling")
      BY <1>2, <1>3, <3>1, <3>4 DEF Pushes
    <3>5. CASE StackerIn(Pulls, "again")
      <4>1. StackerWorks /\ work["STACKER"] \in Pulls
        BY <1>2, <1>3, <3>5
      <4> QED
        BY <3>1, <4>1 DEF Pushes, Pulls
    <3> QED
      BY <1>9, <3>2, <3>3, <3>4, <3>5 DEF StackerReturns
  <2>2. CASE Ends("SUCCESS", "OTHER") /\ home' = TRUE
    <3>1. home' \in BOOLEAN
      BY <2>2
    <3> QED
      BY <1>1, <2>1, <2>2, <3>1, StackerEnds
  <2>3. CASE /\ HomeCount(IF work["STACKER"] = "STACKER_NG_PULL" THEN "new" ELSE "again")
             /\ home' \in BOOLEAN
    BY <2>1, <2>3, HomeCounting
  <2> QED
    BY <1>9, <2>2, <2>3 DEF StackerReturns
<1>10. CASE StackerRetries
  <2>1. StackerWorks /\ UNCHANGED <<step, note>>
    BY <1>2, <1>3, <1>10 DEF StackerRetries
  <2>2. CASE HomeCount("again") /\ home' \in BOOLEAN
    BY <2>1, <2>2, HomeCounting
  <2>3. CASE /\ home' = TRUE
             /\ IF stacker.tries > PushRetries \/ stacker.homes > HomeRetries
                THEN Ends("ALARM", stacker.cause) ELSE Turn("new")
    <3>1. home' \in BOOLEAN
      BY <2>3
    <3>2. CASE Ends("ALARM", stacker.cause)
      BY <1>1, <2>1, <3>1, <3>2, StackerEnds DEF boxed
    <3>3. CASE stacker.tries <= PushRetries /\ Turn("new")
      BY <1>1, <2>1, <3>1, <3>3, Turning
    <3> QED
      BY <1>1, <2>3, <3>2, <3>3
  <2> QED
    BY <1>10, <2>2, <2>3 DEF StackerRetries
<1>11. CASE StackerPulls
  <2>1. /\ StackerWorks /\ stacker.seq = "new" /\ UNCHANGED <<step, note>>
        /\ work["STACKER"] \notin Pushes
    BY <1>2, <1>3, <1>11 DEF StackerPulls, Pulls, Pushes
  <2>2. CASE /\ HomeCount("again")
             /\ home' \in IF work["STACKER"] = "STACKER_PULL" THEN BOOLEAN ELSE {TRUE}
    <3>1. home' \in BOOLEAN
      BY <2>2
    <3> QED
      BY <2>1, <2>2, <3>1, HomeCounting
  <2>3. CASE /\ UNCHANGED home /\ Send(Msg("STACKER_PULL", "ENABLE_NEXT", "OTHER"))
             /\ stacker' = [stacker EXCEPT !.seq = "pulling"] /\ UNCHANGED work
    <3> DEFINE x == Msg("STACKER_PULL", "ENABLE_NEXT", "OTHER")
    <3>1. x \in Messages /\ x.code = "STACKER_PULL" /\ x.sub = "ENABLE_NEXT" /\ x.arg = "OTHER"
      BY MsgType DEF Codes, Subs, Alarms
    <3>2. Send(x)
      BY <2>3
    <3> HIDE DEF x
    <3>3. /\ stacker' \in Strokes /\ stacker'.seq = "pulling" /\ stacker'.cause = stacker.cause
          /\ stacker'.tries = stacker.tries
      BY <1>1, <2>3, Tries
    <3> QED
      BY <1>1, <2>1, <2>3, <3>1, <3>2, <3>3, StackerTells
  <2>4. CASE UNCHANGED home /\ Ends("SUCCESS", "OTHER")
    BY <1>1, <2>1, <2>4, StackerEnds
  <2> QED
    BY <1>11, <2>2, <2>3, <2>4 DEF StackerPulls
<1>12. CASE StackerAlarms
  <2>1. StackerWorks
    BY <1>12 DEF StackerAlarms, Works, StackerWorks
  <2> QED
    BY <1>1, <1>12, <2>1, StackerEnds DEF StackerAlarms
<1>13. CASE StackerSticks
  <2>1. StackerWorks /\ stacker.seq = "pushing"
    BY <1>2, <1>3, <1>13 DEF StackerSticks
  <2>2. CASE PushFails("OTHER") /\ home' \in BOOLEAN /\ UNCHANGED <<step, note>>
    BY <1>1, <2>1, <2>2, PushFailing
  <2>3. CASE /\ PushFails("FULL") /\ UNCHANGED home
             /\ \/ note' = "box" /\ step' = "BILL_IN_BOX"
                \/ note' = (IF note = "box" THEN "box" ELSE "past") /\ UNCHANGED step
    BY <1>1, <2>1, <2>3, PushFailing
  <2> QED
    BY <1>13, <2>2, <2>3 DEF StackerSticks
<1> QED
  BY <1>4, <1>5, <1>6, <1>7, <1>8, <1>9, <1>10, <1>11, <1>12, <1>13 DEF Stacker


-----------------------------------------------------------------------------
(* The line task, the host and the faults.                                   *)

\* What every step of the line task leaves to main and the devices.
LineSide == UNCHANGED <<options, mode, job, reset, pause, second, work, env, stacker, fvars>>

\* What the line task and the host put into the mailbox of the main task.
LineSends(codes) ==
  \/ UNCHANGED main_mbx
  \/ \E x \in Messages : Send(x) /\ x.code \in codes /\ x.arg # "FULL"

LineCodes == {"REJECT_REQ", "ACCEPT_REQ", "ENABLE", "1ST_NOTE_DONE", "RESET", "STATUS", "SENSOR"}

LEMMA LineSent ==
  ASSUME IInv, LineSide, NEW codes, codes \subseteq LineCodes, LineSends(codes)
  PROVE  /\ OneAnswer' /\ Joined'
         /\ main_mbx' \in Seq(Messages) /\ Len(main_mbx') <= MailBlocks
         /\ \A msg \in Posted' : msg \in Posted \/ (msg.code \in codes /\ msg.arg # "FULL")
<1> USE DEF IInv
<1>1. UNCHANGED <<mode, job, work>>
  BY DEF LineSide
<1>2. Joined'
  BY <1>1 DEF Joined, Stacking
<1>3. CASE UNCHANGED main_mbx
  BY <1>1, <1>2, <1>3, Silent DEF Types, Posted
<1>4. ASSUME NEW x \in Messages, Send(x), x.code \in codes, x.arg # "FULL"
      PROVE  /\ OneAnswer' /\ main_mbx' \in Seq(Messages) /\ Len(main_mbx') <= MailBlocks
             /\ \A msg \in Posted' : msg \in Posted \/ (msg.code \in codes /\ msg.arg # "FULL")
  <2>1. \A d \in Devices : ~Answers(d, x)
    BY <1>4, DeviceNames DEF Answers, Asked, LineCodes
  <2> QED
    BY <1>1, <1>4, <2>1, Notice
<1> QED
  BY <1>2, <1>3, <1>4 DEF LineSends

\* The place of the note does not concern the line task.
LEMMA LinePlaces ==
  ASSUME IInv, LineSide, step' \in {step, "NON"},
         \A msg \in Posted' : msg \in Posted \/ (msg.code \in LineCodes /\ msg.arg # "FULL")
  PROVE  Placed'
<1>1. UNCHANGED <<mode, job, work, note, stacker, boxed, Stacking>> /\ Placed
  BY DEF LineSide, IInv, env, boxed, Stacking
<1>2. \A msg \in Posted' :
        msg \in Posted \/ (msg.code \notin {"FEED_APB"} \cup Pushes /\ msg.arg # "FULL")
  BY DEF LineCodes, Pushes
<1> QED
  BY <1>1, <1>2 DEF Placed

LEMMA LineTypes ==
  ASSUME IInv, LineSide, line' \in Lines, acked' \in BOOLEAN, step' \in {step, "NON"},
         main_mbx' \in Seq(Messages), Len(main_mbx') <= MailBlocks,
         line_mbx' \in Seq(Messages)
  PROVE  Types'
BY DEF IInv, Types, LineSide, options, env, fvars, Steps

\* The line task gives the note up: an alarm, a reject or a reset of the host.
LEMMA GivesUp ==
  ASSUME IInv, LineSide, line' \in Lines, step' = "NON", UNCHANGED acked,
         LineIn({"error", "reject", "initial"})',
         line_mbx' \in Seq(Messages), Tidings' \subseteq Tidings,
         \/ UNCHANGED main_mbx
         \/ /\ LineIn({"reject"})'
            /\ \E x \in Messages : Send(x) /\ x.code = "REJECT_REQ" /\ x.arg # "FULL"
         \/ /\ LineIn({"initial"})'
            /\ \E x \in Messages : Send(x) /\ x.code = "RESET" /\ x.arg # "FULL",
         LineIn({"reject"})' => \E msg \in Tidings : msg.sub = "REJECT",
         LineIn({"error", "initial"}) => LineIn({"error", "initial"})'
  PROVE  IInv'
<1> USE DEF IInv
<1>1. UNCHANGED <<mode, job, reset, second, note>>
  BY DEF LineSide, env
<1>2. LineSends({"REJECT_REQ", "RESET"})
  BY DEF LineSends
<1>3. /\ OneAnswer' /\ Joined'
      /\ main_mbx' \in Seq(Messages) /\ Len(main_mbx') <= MailBlocks
      /\ \A msg \in Posted' :
           msg \in Posted \/ (msg.code \in {"REJECT_REQ", "RESET"} /\ msg.arg # "FULL")
  BY <1>2, LineSent DEF LineCodes
<1>4. Types'
  BY <1>3, LineTypes DEF Types
<1>5. Placed'
  BY <1>3, LinePlaces DEF LineCodes
<1>6. StepGiven'
  BY <1>1 DEF StepGiven, LineIn, Left, Types
<1>7. Told' => Told
  BY DEF Told, LineIn, Credited
<1>8. CreditTold'
  <2>1. Told' /\ Stacking' => mode' \in {"WAIT_REQ", "WAIT_REQ_FIRST"} /\ "STACKER" \notin job'.busy
    BY <1>1, <1>7 DEF CreditTold, Stacking
  <2>2. /\ mode' \in StackModes \cup {"ACCEPT"}
        /\ LineIn({"reject"})' \/ \E msg \in Tidings' : msg.sub = "REJECT"
        => mode' \in RejectModes
    BY <1>1 DEF CreditTold
  <2>3. mode' \in {"WAIT_REQ_FIRST", "ACCEPT"} => LineIn({"error", "initial"})'
    BY <1>1, <2>2 DEF LineIn, RejectModes, StackModes
  <2>4. HandsOver'
    BY <1>1, <2>3 DEF CreditTold, HandsOver
  <2>5. boxed' = boxed /\ ~LineIn({"stacked", "stacked_full", "done"})'
    BY <1>1 DEF boxed, LineIn
  <2> QED
    BY <1>1, <2>1, <2>2, <2>3, <2>4, <2>5 DEF CreditTold
<1>9. ResetKnown'
  <2>1. \A msg \in Posted' : msg.code = "RESET" => msg \in Posted \/ LineIn({"initial", "error"})'
    <3>1. CASE UNCHANGED main_mbx
      BY <3>1 DEF Posted
    <3>2. CASE LineIn({"initial"})'
      BY <3>2 DEF LineIn
    <3>3. ASSUME NEW x \in Messages, Send(x), x.code = "REJECT_REQ"
          PROVE  \A msg \in Posted' : msg.code = "RESET" => msg \in Posted
      BY <3>3, Sent
    <3> QED
      BY <3>1, <3>2, <3>3
  <2>2. reset' \/ (\E msg \in Posted' : msg.code = "RESET") => LineIn({"initial", "error"})'
    BY <1>1, <2>1 DEF ResetKnown, LineIn
  <2>3. \A msg \in Posted' : msg.code = "ACCEPT_REQ" => msg \in Posted
    BY <1>3
  <2> QED
    BY <1>1, <2>2, <2>3 DEF ResetKnown, Stacking
<1> QED
  BY <1>3, <1>4, <1>5, <1>6, <1>8, <1>9

\* The line task, the host or a fault goes on with the note.
LEMMA GoesOn ==
  ASSUME IInv, LineSide, line' \in Lines, UNCHANGED <<step, acked>>,
         line_mbx' \in Seq(Messages), Tidings' \subseteq Tidings,
         NEW codes, codes \subseteq LineCodes \ {"RESET"}, LineSends(codes),
         "ACCEPT_REQ" \in codes /\ Stacking => mode = "WAIT_REQ_FIRST" /\ ~reset,
         \A lost \in {"error", "reject", "initial"} : line'.mode = lost <=> line.mode = lost,
         line'.mode \in {"stacked", "stacked_full", "done"}
           => line.mode \in {"stacked", "stacked_full", "done"},
         Told' => Told
  PROVE  IInv'
<1> USE DEF IInv
<1>1. UNCHANGED <<mode, job, reset, second, note>>
  BY DEF LineSide, env
<1>2. /\ OneAnswer' /\ Joined'
      /\ main_mbx' \in Seq(Messages) /\ Len(main_mbx') <= MailBlocks
      /\ \A msg \in Posted' : msg \in Posted \/ (msg.code \in codes /\ msg.arg # "FULL")
  BY LineSent
<1>3. Types'
  BY <1>2, LineTypes DEF Types
<1>4. Placed'
  BY <1>2, LinePlaces
<1>5. /\ LineIn({"error", "reject", "initial"})' <=> LineIn({"error", "reject", "initial"})
      /\ LineIn({"error", "initial"})' <=> LineIn({"error", "initial"})
      /\ LineIn({"initial", "error"})' <=> LineIn({"initial", "error"})
      /\ LineIn({"reject"})' <=> LineIn({"reject"})
  BY DEF LineIn
<1>6. StepGiven'
  BY <1>1, <1>5 DEF StepGiven
<1>7. HandsOver'
  BY <1>1, <1>5 DEF CreditTold, HandsOver
<1>8. CreditTold'
  <2>1. boxed' = boxed
    BY <1>1 DEF boxed
  <2>2. LineIn({"stacked", "stacked_full", "done"})' => acked'
    BY DEF CreditTold, LineIn
  <2> QED
    BY <1>1, <1>5, <1>7, <2>1, <2>2 DEF CreditTold, Stacking
<1>9. ResetKnown'
  BY <1>1, <1>2, <1>5 DEF ResetKnown, Stacking
<1> QED
  BY <1>2, <1>3, <1>4, <1>6, <1>8, <1>9

LEMMA LineTakes ==
  ASSUME IInv, line_mbx # << >>, line_mbx' = Tail(line_mbx)
  PROVE  /\ line_mbx' \in Seq(Messages)
         /\ Tidings' \subseteq Tidings /\ Tidings \subseteq Tidings' \cup {told}
         /\ told \in Tidings /\ told \in Messages
<1>1. line_mbx \in Seq(Messages)
  BY DEF IInv, Types
<1>2. /\ told \in Messages /\ line_mbx' \in Seq(Messages)
      /\ Len(line_mbx') = Len(line_mbx) - 1 /\ Len(line_mbx) \in Nat /\ Len(line_mbx) >= 1
      /\ \A i \in 1 .. Len(line_mbx') : line_mbx'[i] = line_mbx[i + 1]
      /\ told = line_mbx[1]
  BY <1>1, HeadTailProperties, EmptySeq, LenProperties DEF told
<1>3. told \in Tidings /\ Tidings' \subseteq Tidings
  BY <1>2 DEF Tidings
<1>4. ASSUME NEW i \in 1 .. Len(line_mbx) PROVE line_mbx[i] \in Tidings' \cup {told}
  <2>1. CASE i = 1
    BY <1>2, <2>1
  <2>2. CASE i # 1
    <3>1. i - 1 \in 1 .. Len(line_mbx') /\ (i - 1) + 1 = i
      BY <1>2, <2>2
    <3>2. line_mbx'[i - 1] = line_mbx[i]
      BY <1>2, <3>1
    <3> QED
      BY <3>1, <3>2 DEF Tidings
  <2> QED
    BY <2>1, <2>2
<1>5. Tidings \subseteq Tidings' \cup {told}
  BY <1>4 DEF Tidings
<1> QED
  BY <1>2, <1>3, <1>5

\* What the line task turns to.
LEMMA LineTurns ==
  ASSUME line \in Lines
  PROVE  /\ \A next \in Stacks \cup Credited \cup {"done", "reject"} :
              Goes(next) => line' \in Lines /\ line'.mode = next
         /\ line' = [line EXCEPT !.mode = "vend_full", !.error = TRUE]
              => line' \in Lines /\ line'.mode = "vend_full"
         /\ line' = [line EXCEPT !.second = TRUE]
              => line' \in Lines /\ line'.mode = line.mode
         /\ line' = [line EXCEPT !.error = TRUE]
              => line' \in Lines /\ line'.mode = line.mode
<1>1. /\ line = [mode |-> line.mode, error |-> line.error, second |-> line.second]
      /\ line.mode \in Stacks \cup Credited \cup {"done", "reject", "error", "initial"}
      /\ line.error \in BOOLEAN /\ line.second \in BOOLEAN
  BY DEF Lines
<1>2. ASSUME NEW next \in Stacks \cup Credited \cup {"done", "reject"}, Goes(next)
      PROVE  line' \in Lines /\ line'.mode = next
  BY <1>1, <1>2 DEF Goes, Lines
<1>3. ASSUME NEW set \in BOOLEAN, line' = [line EXCEPT !.mode = "vend_full", !.error = set]
      PROVE  line' \in Lines /\ line'.mode = "vend_full"
  <2>1. line' = [mode |-> "vend_full", error |-> set, second |-> line.second]
    BY <1>1, <1>3
  <2> QED
    BY <1>1, <2>1 DEF Lines, Credited
<1>4. ASSUME NEW set \in BOOLEAN, line' = [line EXCEPT !.second = set]
      PROVE  line' \in Lines /\ line'.mode = line.mode
  BY <1>1, <1>4 DEF Lines
<1>5. ASSUME NEW set \in BOOLEAN, line' = [line EXCEPT !.error = set]
      PROVE  line' \in Lines /\ line'.mode = line.mode
  BY <1>1, <1>5 DEF Lines
<1>6. TRUE \in BOOLEAN
  OBVIOUS
<1> QED
  BY <1>2, <1>3, <1>4, <1>5, <1>6, Zenon

\* Every alarm the line task takes as the end of the note.
LEMMA LineErrors ==
  ASSUME IInv, LineSide, ToError, UNCHANGED <<main_mbx, acked>>,
         line_mbx' \in Seq(Messages), Tidings' \subseteq Tidings
  PROVE  IInv'
<1>1. /\ line' = [mode |-> "error", error |-> TRUE, second |-> FALSE] /\ step' = "NON"
      /\ line' \in Lines /\ line'.mode = "error"
  BY DEF ToError, Lines
<1>2. /\ LineIn({"error", "reject", "initial"})' /\ LineIn({"error", "initial"})'
      /\ ~LineIn({"reject"})'
  BY <1>1 DEF LineIn
<1> QED
  BY <1>1, <1>2, GivesUp

\* What stays when the line task only turns from one mode to the next.
LEMMA LineStays ==
  ASSUME line.mode \notin {"error", "reject", "initial"},
         line'.mode = line.mode \/ line'.mode \in Stacks \cup Credited \cup {"done"}
  PROVE  \A lost \in {"error", "reject", "initial"} : line'.mode = lost <=> line.mode = lost
BY DEF Stacks, Credited

LEMMA StackReads ==
  ASSUME IInv, LineSide, UNCHANGED acked, line_mbx' \in Seq(Messages), Tidings' \subseteq Tidings,
         told \in Tidings, told \in Messages, told.code = "STACK",
         LineIn(Stacks), stack_rsp_mode_stack
  PROVE  IInv'
<1> USE DEF IInv
<1>1. /\ line \in Lines /\ line.mode \in Stacks
      /\ line.mode \notin {"error", "reject", "initial"}
      /\ ~LineIn({"initial", "error"})
  BY DEF Types, LineIn, Stacks
<1>2. (UNCHANGED main_mbx => LineSends({})) /\ {} \subseteq LineCodes \ {"RESET"}
  BY DEF LineSends
<1>3. CASE told.sub = "VEND" /\ Goes("vend") /\ UNCHANGED <<step, main_mbx>>
  <2>1. line' \in Lines /\ line'.mode = "vend" /\ "vend" \in Credited
    BY <1>1, <1>3, LineTurns DEF Credited
  <2>2. Told
    BY <1>3 DEF Told
  <2> QED
    BY <1>1, <1>2, <1>3, <2>1, <2>2, LineStays, GoesOn
<1>4. ASSUME UNCHANGED <<step, main_mbx>>, line' = line \/ Goes("wait_pause") \/ Goes("stack")
      PROVE  IInv'
  <2>1. line' \in Lines /\ (line'.mode = line.mode \/ line'.mode \in Stacks)
    BY <1>1, <1>4, LineTurns DEF Stacks
  <2>2. Told' => Told
    <3>1. ~LineIn(Credited \cup {"done"})'
      BY <1>1, <2>1 DEF LineIn, Credited, Stacks
    <3> QED
      BY <3>1 DEF Told
  <2>3. line'.mode \notin {"stacked", "stacked_full", "done"}
    BY <1>1, <2>1 DEF Stacks
  <2> QED
    BY <1>1, <1>2, <1>4, <2>1, <2>2, <2>3, LineStays, GoesOn
<1>5. CASE told.sub = "REJECT" /\ Goes("reject") /\ step' = "NON"
           /\ Send(Msg("REJECT_REQ", "none", "OTHER"))
  <2> DEFINE x == Msg("REJECT_REQ", "none", "OTHER")
  <2>1. x \in Messages /\ x.code = "REJECT_REQ" /\ x.arg = "OTHER"
    BY MsgType DEF Codes, Subs, Alarms
  <2>2. Send(x)
    BY <1>5
  <2> HIDE DEF x
  <2>3. line' \in Lines /\ line'.mode = "reject"
    BY <1>1, <1>5, LineTurns
  <2>4. LineIn({"reject"})' /\ LineIn({"error", "reject", "initial"})'
    BY <2>3 DEF LineIn
  <2>5. ~LineIn({"error", "initial"})
    BY <1>1 DEF LineIn
  <2> QED
    BY <1>5, <2>1, <2>2, <2>3, <2>4, <2>5, GivesUp
<1>6. CASE told.sub = "ALARM" /\ told.arg # "FULL" /\ ToError /\ UNCHANGED main_mbx
  BY <1>6, LineErrors
<1>7. CASE /\ told.sub = "ALARM" /\ told.arg = "FULL"
           /\ line' = [line EXCEPT !.mode = "vend_full", !.error = TRUE]
           /\ UNCHANGED <<step, main_mbx>>
  <2>1. line' \in Lines /\ line'.mode = "vend_full" /\ "vend_full" \in Credited
    BY <1>1, <1>7, LineTurns DEF Credited
  <2>2. Told
    BY <1>7 DEF Told
  <2> QED
    BY <1>1, <1>2, <1>7, <2>1, <2>2, LineStays, GoesOn
<1>8. CASE /\ told.sub = "ENTRY_ON" /\ line' = [line EXCEPT !.second = TRUE]
           /\ Send(Msg("ACCEPT_REQ", "none", "OTHER")) /\ UNCHANGED step
  <2> DEFINE x == Msg("ACCEPT_REQ", "none", "OTHER")
  <2>1. x \in Messages /\ x.code = "ACCEPT_REQ" /\ x.arg = "OTHER"
    BY MsgType DEF Codes, Subs, Alarms
  <2>2. Send(x)
    BY <1>8
  <2> HIDE DEF x
  <2>3. LineSends({"ACCEPT_REQ"}) /\ {"ACCEPT_REQ"} \subseteq LineCodes \ {"RESET"}
    BY <2>1, <2>2 DEF LineSends, LineCodes
  <2>4. line' \in Lines /\ line'.mode = line.mode
    BY <1>1, <1>8, LineTurns
  <2>5. Told' => Told
    BY <2>4 DEF Told, LineIn
  <2>6. Stacking => mode = "WAIT_REQ_FIRST" /\ ~reset
    BY <1>1, <1>8 DEF ResetKnown
  <2> QED
    BY <1>1, <1>8, <2>3, <2>4, <2>5, <2>6, LineStays, GoesOn
<1> QED
  BY <1>3, <1>4, <1>5, <1>6, <1>7, <1>8 DEF stack_rsp_mode_stack

LEMMA CreditReads ==
  ASSUME IInv, LineSide, UNCHANGED acked, line_mbx' \in Seq(Messages), Tidings' \subseteq Tidings,
         LineIn(Credited), stack_rsp_credited
  PROVE  IInv'
<1> USE DEF IInv
<1>1. /\ line \in Lines /\ line.mode \in Credited
      /\ line.mode \notin {"error", "reject", "initial"} /\ Told
  BY DEF Types, LineIn, Credited, Told
<1>2. CASE ToError
  BY <1>2, LineErrors DEF stack_rsp_credited
<1>3. CASE UNCHANGED <<line, step>> \/ (line' = [line EXCEPT !.error = TRUE] /\ UNCHANGED step)
  <2>1. line' \in Lines /\ line'.mode = line.mode
    BY <1>1, <1>3, LineTurns
  <2>2. LineSends({}) /\ {} \subseteq LineCodes \ {"RESET"}
    BY DEF LineSends, stack_rsp_credited
  <2> QED
    BY <1>1, <1>3, <2>1, <2>2, LineStays, GoesOn
<1> QED
  BY <1>2, <1>3 DEF stack_rsp_credited

LEMMA LineReadsKeeps == ASSUME IInv, LineReads PROVE IInv'
<1>1. /\ LineSide /\ UNCHANGED acked /\ line_mbx' \in Seq(Messages) /\ Tidings' \subseteq Tidings
      /\ told \in Tidings /\ told \in Messages
  BY LineTakes DEF LineReads, LineSide, options, mvars
<1>2. CASE told.code = "STACK" /\ LineIn(Stacks) /\ stack_rsp_mode_stack
  BY <1>1, <1>2, StackReads
<1>3. CASE told.code = "STACK" /\ LineIn(Credited) /\ stack_rsp_credited
  BY <1>1, <1>3, CreditReads
<1>4. CASE ToError /\ UNCHANGED main_mbx
  BY <1>1, <1>4, LineErrors
<1>5. CASE UNCHANGED <<line, step, main_mbx>>
  <2>1. line \in Lines /\ LineSends({}) /\ {} \subseteq LineCodes \ {"RESET"}
    BY <1>5 DEF LineSends, IInv, Types
  <2>2. Told' => Told
    BY <1>1, <1>5 DEF Told, LineIn
  <2> QED
    BY <1>1, <1>5, <2>1, <2>2, GoesOn
<1> QED
  BY <1>2, <1>3, <1>4, <1>5 DEF LineReads

LEMMA HostPollsKeeps == ASSUME IInv, HostPolls PROVE IInv'
<1>1. /\ LineSide /\ UNCHANGED <<acked, line_mbx>> /\ line_mbx' \in Seq(Messages)
      /\ Tidings' \subseteq Tidings /\ line \in Lines
  BY DEF HostPolls, hostvars, LineSide, options, mvars, Tidings, IInv, Types
<1>2. (UNCHANGED main_mbx => LineSends({})) /\ {} \subseteq LineCodes \ {"RESET"}
  BY DEF LineSends
<1>3. CASE LineIn({"wait_pause"}) /\ Goes("pause") /\ UNCHANGED <<step, main_mbx>>
  <2>1. line' \in Lines /\ line'.mode = "pause" /\ "pause" \in Stacks
    BY <1>1, <1>3, LineTurns DEF Stacks
  <2>2. Told' => Told
    BY <1>1, <2>1 DEF Told, LineIn, Credited
  <2> QED
    BY <1>1, <1>2, <1>3, <2>1, <2>2, LineStays, GoesOn DEF LineIn
<1>4. ASSUME NEW next \in Credited \cup {"done"}, LineIn(Credited), Goes(next), UNCHANGED step,
             next \in {"stacked", "stacked_full", "done"} => LineIn({"stacked"}),
             NEW codes \in SUBSET {"ENABLE"}, LineSends(codes)
      PROVE  IInv'
  <2>1. line' \in Lines /\ line'.mode = next
    BY <1>1, <1>4, LineTurns
  <2>2. /\ Told /\ line.mode \notin {"error", "reject", "initial"}
        /\ next \in {"stacked", "stacked_full", "done"} => line.mode = "stacked"
    BY <1>4 DEF Told, LineIn, Credited
  <2>3. codes \subseteq LineCodes \ {"RESET"} /\ "ACCEPT_REQ" \notin codes
    BY DEF LineCodes
  <2> QED
    BY <1>1, <1>4, <2>1, <2>2, <2>3, LineStays, GoesOn
<1>5. CASE LineIn({"vend"}) /\ Goes("wait_ack") /\ UNCHANGED <<step, main_mbx>>
  BY <1>2, <1>4, <1>5 DEF LineIn, Credited
<1>6. CASE LineIn({"vend_full"}) /\ Goes("wait_ack_full") /\ UNCHANGED <<step, main_mbx>>
  BY <1>2, <1>4, <1>6 DEF LineIn, Credited
<1>7. CASE LineIn({"stacked", "stacked_full"}) /\ ToError /\ UNCHANGED main_mbx
  BY <1>1, <1>7, LineErrors
<1>8. CASE LineIn({"stacked"}) /\ Goes("done") /\ UNCHANGED step
           /\ (UNCHANGED main_mbx \/ Send(Msg("ENABLE", "none", "OTHER")))
  <2> DEFINE x == Msg("ENABLE", "none", "OTHER")
  <2>1. x \in Messages /\ x.code = "ENABLE" /\ x.arg = "OTHER"
    BY MsgType DEF Codes, Subs, Alarms
  <2>2. UNCHANGED main_mbx \/ Send(x)
    BY <1>8
  <2> HIDE DEF x
  <2>3. LineSends({"ENABLE"}) /\ LineIn(Credited)
    BY <1>8, <2>1, <2>2 DEF LineSends, LineIn, Credited
  <2> QED
    BY <1>4, <1>8, <2>3
<1> QED
  BY <1>3, <1>5, <1>6, <1>7, <1>8 DEF HostPolls, LineIn

LEMMA HostAcksKeeps == ASSUME IInv, HostAcks PROVE IInv'
<1> USE DEF IInv
<1>1. /\ LineSide /\ UNCHANGED line_mbx /\ line_mbx' \in Seq(Messages)
      /\ Tidings' = Tidings /\ line \in Lines
      /\ UNCHANGED <<mode, job, reset, second, note>>
      /\ acked' = TRUE /\ step' = "NON" /\ note \in {"escrow", "exit", "chamber", "past", "box"}
  BY DEF HostAcks, hostvars, LineSide, options, mvars, env, Tidings, Types
<1>2. acked' \in BOOLEAN
  BY <1>1
<1>3. /\ line' \in Lines /\ line'.mode \in {"stacked", "stacked_full"}
      /\ line.mode \in {"wait_ack", "wait_ack_full"}
  BY <1>1, LineTurns DEF HostAcks, LineIn, Credited
<1>4. Told
  BY <1>3 DEF Told, LineIn, Credited
<1>5. LineSends({"1ST_NOTE_DONE"})
  <2> DEFINE x == Msg("1ST_NOTE_DONE", "none", "OTHER")
  <2>1. x \in Messages /\ x.code = "1ST_NOTE_DONE" /\ x.arg = "OTHER"
    BY MsgType DEF Codes, Subs, Alarms
  <2>2. UNCHANGED main_mbx \/ Send(x)
    BY DEF HostAcks
  <2> HIDE DEF x
  <2> QED
    BY <2>1, <2>2 DEF LineSends
<1>6. /\ OneAnswer' /\ Joined'
      /\ main_mbx' \in Seq(Messages) /\ Len(main_mbx') <= MailBlocks
      /\ \A msg \in Posted' : msg \in Posted \/ (msg.code = "1ST_NOTE_DONE" /\ msg.arg # "FULL")
  BY <1>1, <1>5, LineSent DEF LineCodes
<1>7. Types'
  BY <1>1, <1>2, <1>3, <1>6, LineTypes
<1>8. Placed'
  BY <1>1, <1>6, LinePlaces DEF LineCodes
<1>9. StepGiven'
  BY <1>1 DEF StepGiven, Left
<1>10. CreditTold'
  <2>1. ~LineIn({"reject"})'
    BY <1>3 DEF LineIn
  <2>2. HandsOver'
    BY <1>1 DEF CreditTold, HandsOver
  <2>3. boxed' = boxed
    BY <1>1 DEF boxed
  <2> QED
    BY <1>1, <1>4, <2>1, <2>2, <2>3 DEF CreditTold, Stacking
<1>11. ResetKnown'
  <2>1. ~reset /\ \A msg \in Posted : msg.code # "RESET"
    BY <1>3 DEF ResetKnown, LineIn
  <2> QED
    BY <1>1, <1>6, <2>1 DEF ResetKnown, Stacking
<1> QED
  BY <1>6, <1>7, <1>8, <1>9, <1>10, <1>11

LEMMA HostResetsKeeps == ASSUME IInv, HostResets PROVE IInv'
<1> DEFINE x == Msg("RESET", "none", "OTHER")
<1>1. /\ LineSide /\ UNCHANGED <<line_mbx, acked>> /\ line_mbx' \in Seq(Messages)
      /\ Tidings' \subseteq Tidings /\ step' = "NON"
  BY DEF HostResets, hostvars, LineSide, options, mvars, Tidings, IInv, Types
<1>2. line' \in Lines /\ line'.mode = "initial"
  BY DEF HostResets, Lines
<1>3. /\ LineIn({"initial"})' /\ LineIn({"error", "initial"})'
      /\ LineIn({"error", "reject", "initial"})' /\ ~LineIn({"reject"})'
  BY <1>2 DEF LineIn
<1>4. x \in Messages /\ x.code = "RESET" /\ x.arg = "OTHER"
  BY MsgType DEF Codes, Subs, Alarms
<1>5. Send(x)
  BY DEF HostResets
<1> HIDE DEF x
<1> QED
  BY <1>1, <1>2, <1>3, <1>4, <1>5, GivesUp

LEMMA FaultsKeeps == ASSUME IInv, Faults PROVE IInv'
<1>1. /\ LineSide /\ UNCHANGED <<line_mbx, line, acked, step>> /\ line_mbx' \in Seq(Messages)
      /\ Tidings' \subseteq Tidings /\ line \in Lines
  BY DEF Faults, LineSide, options, mvars, lvars, Tidings, IInv, Types
<1>2. LineSends({"STATUS", "SENSOR"}) /\ {"STATUS", "SENSOR"} \subseteq LineCodes \ {"RESET"}
      /\ "ACCEPT_REQ" \notin {"STATUS", "SENSOR"}
  <2>1. ASSUME NEW code \in {"BOX", "OTHER"}, Send(Msg("STATUS", "ALARM", code))
        PROVE  LineSends({"STATUS"})
    <3> DEFINE x == Msg("STATUS", "ALARM", code)
    <3>1. "STATUS" \in Codes /\ "ALARM" \in Subs /\ code \in Alarms
      BY DEF Codes, Subs, Alarms
    <3>2. x \in Messages /\ x.code = "STATUS" /\ x.arg # "FULL"
      BY <3>1, MsgType
    <3>3. Send(x)
      BY <2>1
    <3> HIDE DEF x
    <3> QED
      BY <3>2, <3>3 DEF LineSends
  <2>2. ASSUME Send(Msg("SENSOR", "INFO", "OTHER")) PROVE LineSends({"SENSOR"})
    <3> DEFINE x == Msg("SENSOR", "INFO", "OTHER")
    <3>1. x \in Messages /\ x.code = "SENSOR" /\ x.arg = "OTHER"
      BY MsgType DEF Codes, Subs, Alarms
    <3>2. Send(x)
      BY <2>2
    <3> HIDE DEF x
    <3> QED
      BY <3>1, <3>2 DEF LineSends
  <2>3. LineSends({"STATUS"}) \/ LineSends({"SENSOR"})
    BY <2>1, <2>2 DEF Faults
  <2> QED
    BY <2>3 DEF LineSends, LineCodes
<1>3. Told' => Told
  BY <1>1 DEF Told, LineIn
<1> QED
  BY <1>1, <1>2, <1>3, GoesOn

\* Only the next note enters, or nothing happens.
LEMMA OthersStay ==
  ASSUME IInv, behind' \in BOOLEAN,
         UNCHANGED <<options, mvars, step, main_mbx, work, line_mbx, note, home, stacker, fvars,
                     lvars>>
  PROVE  IInv'
<1> USE DEF IInv, options, mvars, fvars, lvars
<1>1. Types'
  BY DEF Types
<1>2. OneAnswer' /\ Joined'
  <2>1. UNCHANGED <<Posted, Stacking>>
    BY DEF Posted, Stacking
  <2> QED
    BY Silent DEF Joined, Stacking
<1>3. Placed'
  BY DEF Placed, Posted, boxed, Stacking
<1>4. StepGiven'
  BY DEF StepGiven, LineIn
<1>5. CreditTold'
  BY DEF CreditTold, Told, HandsOver, LineIn, Tidings, Stacking, boxed
<1>6. ResetKnown'
  BY DEF ResetKnown, LineIn, Tidings, Posted, Stacking
<1> QED
  BY <1>1, <1>2, <1>3, <1>4, <1>5, <1>6

-----------------------------------------------------------------------------
(* The theorems.                                                             *)

LEMMA InitInv == Init => IInv
<1> SUFFICES ASSUME Init PROVE IInv
  OBVIOUS
<1>1. /\ main_mbx = << >> /\ line_mbx = << >> /\ Len(main_mbx) = 0
      /\ Posted = {} /\ Tidings = {}
      /\ mode \in FeedModes /\ job = [busy |-> {"FEED"}, alarm |-> {}, reject |-> {}]
      /\ reset = FALSE /\ step = "ESCROW" /\ note = "escrow" /\ acked = FALSE
      /\ stacker = NewStacker /\ line = [mode |-> "stack", error |-> FALSE, second |-> FALSE]
      /\ work = [d \in Devices |-> IF d = "FEED" THEN "FEED_APB" ELSE "none"]
  <2>1. main_mbx = << >> /\ line_mbx = << >>
    BY DEF Init, MainInit
  <2>2. Len(main_mbx) = 0 /\ Posted = {} /\ Tidings = {}
    BY <2>1 DEF Posted, Tidings
  <2>3. job = [busy |-> {"FEED"}, alarm |-> {}, reject |-> {}]
    BY DEF Init, MainInit, NoJob
  <2>4. mode \in FeedModes
    BY DEF Init, MainInit, FeedModes
  <2>5. /\ reset = FALSE /\ step = "ESCROW" /\ note = "escrow" /\ acked = FALSE
        /\ stacker = NewStacker
        /\ line = [mode |-> "stack", error |-> FALSE, second |-> FALSE]
        /\ work = [d \in Devices |-> IF d = "FEED" THEN "FEED_APB" ELSE "none"]
    BY DEF Init, MainInit
  <2> QED
    BY <2>1, <2>2, <2>3, <2>4, <2>5
<1>2. Types
  <2>1. job \in Jobs /\ "FEED" \in Devices
    BY <1>1 DEF Jobs, Devices
  <2>2. stacker \in Strokes /\ stacker.tries = 0
    BY <1>1 DEF NewStacker, Strokes, Alarms
  <2>3. line \in Lines
    BY <1>1 DEF Lines, Stacks
  <2>4. DOMAIN work = Devices /\ \A d \in Devices : work[d] \in Asked[d] \cup {"none"}
    BY <1>1 DEF Asked
  <2>5. /\ way \in Ways /\ icb \in Icb /\ home \in BOOLEAN
        /\ mode \in StackModes /\ second = 0
        /\ main_mbx \in Seq(Messages) /\ line_mbx \in Seq(Messages)
        /\ 0 <= MailBlocks /\ pauses \in 0 .. MaxPauses
    BY <1>1 DEF Init, MainInit, StackModes
  <2>6. /\ reset \in BOOLEAN /\ pause \in BOOLEAN /\ behind \in BOOLEAN
        /\ paused \in BOOLEAN /\ acked \in BOOLEAN
    BY DEF Init, MainInit
  <2> QED
    BY <1>1, <2>1, <2>2, <2>3, <2>4, <2>5, <2>6 DEF Types, Steps
<1>3. OneAnswer
  BY <1>1 DEF OneAnswer, Single, Answered
<1>4. Joined
  BY <1>1, DeviceNames DEF Joined, WaitsFor, FeedModes
<1>5. Placed
  BY <1>1 DEF Placed, NewStacker, FeedModes, StackModes, boxed
<1>6. StepGiven
  BY <1>1 DEF StepGiven, Left
<1>7. CreditTold
  BY <1>1 DEF CreditTold, Told, LineIn, Credited, HandsOver, FeedModes, RejectModes
<1>8. ResetKnown
  BY <1>1 DEF ResetKnown, FeedModes
<1> QED
  BY <1>2, <1>3, <1>4, <1>5, <1>6, <1>7, <1>8 DEF IInv

LEMMA StepInv == IInv /\ [Next]_vars => IInv'
<1> SUFFICES ASSUME IInv, [Next]_vars PROVE IInv'
  OBVIOUS
<1>1. CASE main
  BY <1>1, MainKeeps
<1>2. CASE \E d \in Devices \ {"STACKER"} : DeviceAnswers(d)
  BY <1>2, DeviceAnswersKeeps
<1>3. CASE FeedLeaves \/ FeedArrives
  BY <1>3, FeedMoves
<1>4. CASE FeedEnds
  BY <1>4, FeedEndsKeeps
<1>5. CASE FeedPauses \/ FeedResumes
  BY <1>5, FeedTells
<1>6. CASE Stacker
  BY <1>6, StackerKeeps
<1>7. CASE LineReads
  BY <1>7, LineReadsKeeps
<1>8. CASE HostPolls
  BY <1>8, HostPollsKeeps
<1>9. CASE HostAcks
  BY <1>9, HostAcksKeeps
<1>10. CASE HostResets
  BY <1>10, HostResetsKeeps
<1>11. CASE Faults
  BY <1>11, FaultsKeeps
<1>12. CASE NextNoteEnters
  <2>1. behind' \in BOOLEAN
    BY <1>12 DEF NextNoteEnters
  <2> QED
    BY <1>12, <2>1, OthersStay DEF NextNoteEnters
<1>13. CASE UNCHANGED vars
  BY <1>13, OthersStay DEF vars, env, IInv, Types
<1> QED
  BY <1>1, <1>2, <1>3, <1>4, <1>5, <1>6, <1>7, <1>8, <1>9, <1>10, <1>11, <1>12, <1>13
  DEF Next, Feed

\* The step, the place of the note, the jobs, the credit and the reset fit
\* together in every state: the inductive invariant.
THEOREM Invariance == Safety => []IInv
<1> QED
  BY InitInv, StepInv, PTL DEF Safety

\* The modes, the jobs of ex_multi_job, the requests, the recovery step and
\* the counters of the retries stay in their ranges, for every pool and every
\* limit of the retries.
THEOREM TypeCorrect == Safety => []TypeOK
<1>1. IInv => TypeOK
  <2> SUFFICES ASSUME IInv PROVE TypeOK
    OBVIOUS
  <2>1. job.busy \subseteq Devices /\ job.alarm \subseteq Devices /\ job.reject \subseteq {"STACKER"}
    BY DEF IInv, Types, Jobs
  <2>2. /\ stacker.seq \in {"new", "leaving", "pushing", "top", "back", "returning",
                            "pulling", "again"}
        /\ stacker.homes <= HomeRetries /\ stacker.tries <= PushRetries + 1
        /\ stacker.cause \in Alarms
    BY DEF IInv, Types, Strokes
  <2>3. line.mode \in Stacks \cup Credited \cup {"done", "reject", "error", "initial"}
    BY DEF IInv, Types, Lines
  <2>4. {reset, pause, behind, home, paused, acked} \subseteq BOOLEAN
    BY DEF IInv, Types
  <2> QED
    BY <2>1, <2>2, <2>3, <2>4 DEF IInv, Types, TypeOK
<1> QED
  BY <1>1, Invariance, PTL

\* Whenever the power fails with the note in the box, its credit owed and not
\* given up, the power up resumes the stacking; once the host acknowledged the
\* credit it does not.
THEOREM CreditSurvives == Safety => []Recoverable
<1>1. IInv => Recoverable
  BY DEF IInv, Types, StepGiven, Recoverable, LineIn, PowerUp, Stroked, Left, Steps
<1> QED
  BY <1>1, Invariance, PTL

\* Main, the feed, the stacker and the line task write one recovery step: it
\* fits the place of the note at every moment.
THEOREM StepFitsNote == Safety => []LeavesRecovery
<1>1. IInv => LeavesRecovery
  BY DEF IInv, StepGiven, LeavesRecovery
<1> QED
  BY <1>1, Invariance, PTL

\* MODE1_ACCEPT takes the next note in behind one that is in the box, with at
\* most the stacker still at work.
THEOREM NextNoteSafe == Safety => []HandsOver
<1>1. IInv => HandsOver
  BY DEF IInv, CreditTold
<1> QED
  BY <1>1, Invariance, PTL

\* Only the main task changes its mode, its job and the reset flag.
LEMMA MainOnly ==
  ASSUME IInv, [Next]_vars
  PROVE  (Reading /\ Handled) \/ UNCHANGED <<mode, job, reset>>
<1>1. CASE main
  BY <1>1, EveryHandler DEF main
<1>2. CASE \E d \in Devices \ {"STACKER"} : DeviceAnswers(d)
  BY <1>2 DEF DeviceAnswers, mvars
<1>3. CASE Feed \/ FeedPauses
  BY <1>3 DEF Feed, FeedLeaves, FeedArrives, FeedEnds, FeedPauses, FeedResumes, Feeds, others,
              mvars
<1>4. CASE Stacker
  BY <1>4 DEF Stacker, StackerStarts, StackerLeaves, StackerSticks, StackerTops, StackerStops,
              StackerBacks, StackerReturns, StackerRetries, StackerPulls, StackerAlarms,
              StackerIn, others, mvars
<1>5. CASE LineReads
  BY <1>5 DEF LineReads, mvars
<1>6. CASE HostPolls \/ HostAcks \/ HostResets
  BY <1>6 DEF HostPolls, HostAcks, HostResets, hostvars, mvars
<1>7. CASE Faults \/ NextNoteEnters \/ UNCHANGED vars
  BY <1>7 DEF Faults, NextNoteEnters, vars, mvars
<1> QED
  BY <1>1, <1>2, <1>3, <1>4, <1>5, <1>6, <1>7 DEF Next

\* A reset of the host that waits for a device is never lost by the main task,
\* but for the places that ResetForgotten names.
THEOREM ResetHonoured == Safety => ResetEndsNote
<1>1. IInv /\ [Next]_vars =>
        [reset /\ (~reset' \/ mode' \notin StackModes) /\ ~ResetForgotten
           => ~reset' /\ mode' \in {"INIT", "ALARM"} /\ job' = NoJob]_<<mode, reset, job>>
  BY MainOnly DEF Handled, Resetting
<1> QED
  BY <1>1, Invariance, PTL DEF Safety, ResetEndsNote

\* The plate is pulled out of the box only behind a note that is in it, with
\* APB, shutter and ICB at rest.
THEOREM PlateSafe == Safety => PulledClean
<1>1. IInv /\ [Next]_vars =>
        [mode # "STACK_HOME" /\ mode' = "STACK_HOME" =>
           /\ note \in {"past", "box"} /\ ~reset /\ job.alarm = {}
           /\ \A d \in Devices \ {"STACKER"} : work[d] = "none"]_<<mode, note, reset, job, work>>
  BY MainOnly DEF Handled, Pulling
<1> QED
  BY <1>1, Invariance, PTL DEF Safety, PulledClean

-----------------------------------------------------------------------------
(* The stacking implements NoteCredit.                                       *)

\* The line task has yet to read that the credit is owed.
Owing ==
  \E msg \in Tidings :
    msg.code = "STACK" /\ (\/ msg.sub = "VEND" /\ msg.arg = "OTHER"
                           \/ msg.sub = "ALARM" /\ msg.arg = "FULL")

Account ==
  IF acked THEN "given"
  ELSE IF LineIn({"initial", "error", "reject"}) THEN "void"
  ELSE IF LineIn({"wait_ack", "wait_ack_full"}) THEN "offered"
  ELSE IF LineIn({"vend", "vend_full"}) \/ Owing THEN "owed" ELSE "none"

LEMMA CreditIs == credit = Account /\ credit' = Account'
<1>1. tells("VEND", "OTHER") \/ tells("ALARM", "FULL") <=> Owing
  BY DEF tells, Owing, Tidings
<1>2. (tells("VEND", "OTHER") \/ tells("ALARM", "FULL") <=> Owing)'
  BY DEF tells, Owing, Tidings
<1> QED
  BY <1>1, <1>2 DEF credit, Account

Banking == [Bank!Next]_<<boxed, credit>>

\* The credit does not change, and a note in the box stays there.
LEMMA BankStays ==
  ASSUME boxed => boxed', UNCHANGED <<line_mbx, line, acked>>
  PROVE  Banking
<1>1. UNCHANGED credit
  BY DEF credit, tells, LineIn
<1>2. boxed \in BOOLEAN /\ boxed' \in BOOLEAN
  BY DEF boxed
<1> QED
  BY <1>1, <1>2 DEF Banking, Bank!Next, Bank!Push

\* The credit takes one of the steps of NoteCredit.
LEMMA BankSteps ==
  ASSUME UNCHANGED note,
         \/ Account' = Account
         \/ boxed /\ Account = "none" /\ Account' = "owed"
         \/ Account = "owed" /\ Account' = "offered"
         \/ Account = "offered" /\ Account' = "given"
         \/ Account \in {"none", "owed", "offered"} /\ Account' = "void"
  PROVE  Banking
<1>1. UNCHANGED boxed
  BY DEF boxed
<1> QED
  BY <1>1, CreditIs
  DEF Banking, Bank!Next, Bank!Owe, Bank!Offer, Bank!Give, Bank!Withdraw

LEMMA MainBanks == ASSUME IInv, main, IInv' PROVE Banking
<1>1. /\ UNCHANGED <<note, line, acked>> /\ Tidings \subseteq Tidings' /\ boxed' = boxed
  BY EveryHandler DEF main, env, lvars, Handled, Tales, boxed
<1>2. Owing => Owing'
  BY <1>1 DEF Owing
<1>3. Owing' => boxed
  BY <1>1 DEF Owing, IInv, CreditTold
<1>4. Account' = Account \/ (boxed /\ Account = "none" /\ Account' = "owed")
  BY <1>1, <1>2, <1>3 DEF Account, LineIn
<1> QED
  BY <1>1, <1>4, BankSteps

\* The line task loses the note, unless its credit was given.
LEMMA LineWithdraws ==
  ASSUME UNCHANGED acked, LineIn({"initial", "error", "reject"})'
  PROVE  Account' = Account \/ (Account \in {"none", "owed", "offered"} /\ Account' = "void")
BY DEF Account

LEMMA LineReadsBanks == ASSUME IInv, LineReads PROVE Banking
<1>1. /\ UNCHANGED <<acked, note>> /\ line \in Lines /\ CreditTold
      /\ Tidings' \subseteq Tidings /\ Tidings \subseteq Tidings' \cup {told}
      /\ told \in Tidings
  BY LineTakes DEF LineReads, env, IInv, Types
<1>2. ASSUME ToError \/ Goes("reject") PROVE Banking
  <2>1. line'.mode \in {"error", "reject"}
    BY <1>1, <1>2, LineTurns DEF ToError
  <2> QED
    BY <1>1, <2>1, LineWithdraws, BankSteps DEF LineIn
<1>3. ASSUME line'.mode = line.mode, LineIn(Stacks) => (Owing => Owing')
      PROVE  Banking
  <2>1. Owing' => Owing
    BY <1>1 DEF Owing
  <2>2. Account' = Account
    BY <1>1, <1>3, <2>1 DEF Account, LineIn, CreditTold, Lines, Credited
  <2> QED
    BY <1>1, <2>2, BankSteps
<1>4. CASE told.code = "STACK" /\ LineIn(Stacks) /\ stack_rsp_mode_stack
  <2>1. /\ line.mode \notin {"initial", "error", "reject", "wait_ack", "wait_ack_full",
                             "vend", "vend_full"}
    BY <1>4 DEF LineIn, Stacks
  <2>2. ASSUME line'.mode \in {"vend", "vend_full"}, told.sub = "VEND" \/ told.arg = "FULL"
        PROVE  Banking
    <3>1. boxed /\ Account \in {"given", "owed", "none"}
      BY <1>1, <1>4, <2>1, <2>2 DEF CreditTold, Account, LineIn
    <3>2. Account' = IF acked THEN "given" ELSE "owed"
      BY <1>1, <2>2 DEF Account, LineIn
    <3> QED
      BY <1>1, <3>1, <3>2, BankSteps DEF Account
  <2>3. ASSUME told.sub \in {"PAUSE", "RESUME", "ENTRY_ON"}, line'.mode \in Stacks
        PROVE  Banking
    <3>1. Owing <=> Owing'
      BY <1>1, <2>3 DEF Owing
    <3>2. Account' = Account
      BY <1>1, <2>1, <2>3, <3>1 DEF Account, LineIn, Stacks
    <3> QED
      BY <1>1, <3>2, BankSteps
  <2>4. CASE told.sub = "VEND" /\ Goes("vend")
    BY <1>1, <2>2, <2>4, LineTurns DEF Credited
  <2>5. CASE told.sub = "PAUSE" /\ (Goes("wait_pause") \/ UNCHANGED line)
    <3>1. line'.mode \in Stacks
      BY <1>1, <1>4, <2>5, LineTurns DEF Stacks, LineIn
    <3> QED
      BY <2>3, <2>5, <3>1
  <2>6. CASE told.sub = "RESUME" /\ (Goes("stack") \/ UNCHANGED line)
    <3>1. line'.mode \in Stacks
      BY <1>1, <1>4, <2>6, LineTurns DEF Stacks, LineIn
    <3> QED
      BY <2>3, <2>6, <3>1
  <2>7. CASE ToError \/ Goes("reject")
    BY <1>2, <2>7
  <2>8. CASE /\ told.sub = "ALARM" /\ told.arg = "FULL"
             /\ line' = [line EXCEPT !.mode = "vend_full", !.error = TRUE]
    BY <1>1, <2>2, <2>8, LineTurns
  <2>9. CASE told.sub = "ENTRY_ON" /\ line' = [line EXCEPT !.second = TRUE]
    BY <1>1, <1>4, <2>3, <2>9, LineTurns DEF LineIn
  <2> QED
    BY <1>4, <2>4, <2>5, <2>6, <2>7, <2>8, <2>9 DEF stack_rsp_mode_stack
<1>5. CASE told.code = "STACK" /\ LineIn(Credited) /\ stack_rsp_credited
  <2>1. ToError \/ line' = line \/ line' = [line EXCEPT !.error = TRUE]
    BY <1>5 DEF stack_rsp_credited
  <2>2. ~LineIn(Stacks)
    BY <1>5 DEF LineIn, Stacks, Credited
  <2> QED
    BY <1>1, <1>2, <1>3, <2>1, <2>2, LineTurns
<1>6. CASE ToError
  BY <1>2, <1>6
<1>7. CASE UNCHANGED line /\ (told.code # "STACK" \/ ~LineIn(Stacks))
  <2>1. LineIn(Stacks) => (Owing => Owing')
    BY <1>1, <1>7 DEF Owing
  <2> QED
    BY <1>3, <1>7, <2>1
<1>8. LineIn(Stacks) => LineIn(Stacks \cup Credited)
  BY DEF LineIn
<1> QED
  BY <1>4, <1>5, <1>6, <1>7, <1>8 DEF LineReads

LEMMA HostBanks == ASSUME IInv, HostPolls \/ HostAcks \/ HostResets PROVE Banking
<1>1. UNCHANGED <<note, line_mbx>> /\ line_mbx = << >> /\ line \in Lines /\ CreditTold
  BY DEF HostPolls, HostAcks, HostResets, hostvars, env, IInv, Types
<1>2. Tidings = {} /\ Tidings' = {} /\ ~Owing /\ ~Owing'
  BY <1>1 DEF Tidings, Owing
<1>3. CASE HostPolls
  <2>1. UNCHANGED acked
    BY <1>3 DEF HostPolls
  <2>2. CASE line.mode = "wait_pause" /\ Goes("pause")
    <3>1. line'.mode = "pause"
      BY <1>1, <2>2, LineTurns DEF Stacks
    <3> QED
      BY <1>1, <1>2, <2>1, <2>2, <3>1, BankSteps DEF Account, LineIn
  <2>3. CASE line.mode = "vend" /\ Goes("wait_ack")
    <3>1. line'.mode = "wait_ack"
      BY <1>1, <2>3, LineTurns DEF Credited
    <3> QED
      BY <1>1, <1>2, <2>1, <2>3, <3>1, BankSteps DEF Account, LineIn
  <2>4. CASE line.mode = "vend_full" /\ Goes("wait_ack_full")
    <3>1. line'.mode = "wait_ack_full"
      BY <1>1, <2>4, LineTurns DEF Credited
    <3> QED
      BY <1>1, <1>2, <2>1, <2>4, <3>1, BankSteps DEF Account, LineIn
  <2>5. CASE line.mode \in {"stacked", "stacked_full"}
    BY <1>1, <2>1, <2>5, BankSteps DEF Account, LineIn, CreditTold
  <2> QED
    BY <1>3, <2>2, <2>3, <2>4, <2>5 DEF HostPolls, LineIn
<1>4. CASE HostAcks
  BY <1>1, <1>4, BankSteps DEF HostAcks, Account, LineIn
<1>5. CASE HostResets
  <2>1. UNCHANGED acked /\ line'.mode = "initial"
    BY <1>5 DEF HostResets
  <2> QED
    BY <1>1, <2>1, LineWithdraws, BankSteps DEF LineIn
<1> QED
  BY <1>3, <1>4, <1>5

LEMMA StepBanks == ASSUME IInv, IInv', [Next]_vars PROVE Banking
<1>1. CASE main
  BY <1>1, MainBanks
<1>2. CASE LineReads
  BY <1>2, LineReadsBanks
<1>3. CASE HostPolls \/ HostAcks \/ HostResets
  BY <1>3, HostBanks
<1>4. CASE \E d \in Devices \ {"STACKER"} : DeviceAnswers(d)
  BY <1>4, BankStays DEF DeviceAnswers, env, lvars, boxed
<1>5. CASE Feed \/ FeedPauses
  BY <1>5, BankStays
  DEF Feed, FeedLeaves, FeedArrives, FeedEnds, FeedPauses, FeedResumes, Feeds, others, lvars, boxed
<1>6. CASE Stacker
  <2>1. UNCHANGED <<line_mbx, line, acked>>
    BY <1>6 DEF Stacker, StackerStarts, StackerLeaves, StackerSticks, StackerTops, StackerStops,
                StackerBacks, StackerReturns, StackerRetries, StackerPulls, StackerAlarms,
                StackerIn, others, lvars
  <2>2. note' = note \/ note' \in {"past", "box"}
    BY <1>6 DEF Stacker, StackerStarts, StackerLeaves, StackerSticks, StackerTops, StackerStops,
                StackerBacks, StackerReturns, StackerRetries, StackerPulls, StackerAlarms
  <2> QED
    BY <2>1, <2>2, BankStays DEF boxed
<1>7. CASE Faults \/ NextNoteEnters \/ UNCHANGED vars
  BY <1>7, BankStays DEF Faults, NextNoteEnters, vars, env, lvars, boxed
<1> QED
  BY <1>1, <1>2, <1>3, <1>4, <1>5, <1>6, <1>7 DEF Next

\* The stacking implements NoteCredit for every pool and every limit of the
\* retries: the credit is owed only for a note in the box, offered after that,
\* given once, and never comes back after it was given up.
THEOREM CreditOnce == Safety => Implements
<1>1. Init => Bank!Init
  <2> SUFFICES ASSUME Init PROVE Bank!Init
    OBVIOUS
  <2>1. line_mbx = << >> /\ ~acked /\ line.mode = "stack" /\ note = "escrow"
    BY DEF Init, MainInit
  <2>2. Tidings = {} /\ ~Owing
    BY <2>1 DEF Tidings, Owing
  <2>3. credit = "none" /\ boxed = FALSE
    BY <2>1, <2>2, CreditIs DEF Account, LineIn, boxed
  <2> QED
    BY <2>3 DEF Bank!Init
<1>2. IInv /\ IInv' /\ [Next]_vars => [Bank!Next]_<<boxed, credit>>
  BY StepBanks DEF Banking
<1> QED
  BY <1>1, <1>2, Invariance, PTL DEF Safety, Implements, Bank!Spec, Bank!vars

-----------------------------------------------------------------------------
(* Nobody is waited for in vain: what main waits for is on its way.          *)

\* The modes in which main waits for the line task.
Requests == {"WAIT_REQ", "WAIT_REQ_FIRST", "WAIT_REJECT_REQ"}

\* What may be under way in a mode: the answers it has a case for.
Fits ==
  [FEED_STACK |-> {"FEED_APB"}, FEED_STACK_LOW |-> {"FEED_APB", "APB_CLOSE", "SHUTTER_OPEN"},
   WAIT_STACK_START |-> {"STACKER_EXEC"},
   WAIT_STACK_TOP |-> {"STACKER_EXEC", "SHUTTER_OPEN", "APB_EXEC", "ICB_ACCEPT"},
   STACK_HOME |-> Pulls, WAIT_REQ_FIRST |-> Pulls,
   STACK_RETRY |-> {"STACKER_NG_PULL", "STACKER_EXEC_RE", "ICB_ACCEPT"},
   FEED_REV_REQ |-> {"FEED_REV"}, WAIT_REQ |-> {}, WAIT_REJECT_REQ |-> {},
   WAIT_REJECT_SHUTTER_OPEN |-> {"SHUTTER_OPEN"}]

\* A device that is busy works, or its answer is in the mailbox; where main does
\* not wait for the line task, a device is busy.
Owed ==
  Stacking =>
    /\ mode \notin Requests => job.busy # {}
    /\ \A d \in job.busy : work[d] # "none" \/ Answered(d)

\* No answer comes in a mode that has no case for it.
Fitting ==
  Stacking => \A d \in Devices :
    /\ work[d] \in Fits[mode] \cup {"none"}
    /\ \A msg \in Posted : Answers(d, msg) => msg.code \in Fits[mode] \ {"STACKER_PULL_HALF"}

Pausing(msg) == msg.code = "STACK" /\ msg.sub \in {"PAUSE", "RESUME"}

\* The line task reads sub next, but for pauses of the feed.
Coming(sub) ==
  \E i \in 1 .. Len(line_mbx) :
    /\ line_mbx[i].code = "STACK" /\ line_mbx[i].sub = sub
    /\ \A k \in 1 .. Len(line_mbx) : k < i => Pausing(line_mbx[k])

InMail(code) == \E msg \in Posted : msg.code = code

\* The line task was reset, or has an alarm, and knows of no note.
Apart == LineIn({"initial", "error"})

\* The host alone is waited for.
HostOwes == LineIn({"vend", "wait_ack", "stacked"})

\* Where main waits for the line task, that was told, will go on by itself or by
\* the host, or has sent the request.
Conversing ==
  Stacking /\ ~Apart =>
    /\ mode \notin Requests \cup RejectModes =>
         LineIn(Stacks) /\ \A msg \in Tidings : Pausing(msg)
    /\ mode = "WAIT_REJECT_REQ" => (LineIn(Stacks) /\ Coming("REJECT")) \/ InMail("REJECT_REQ")
    /\ mode = "WAIT_REQ_FIRST" => (LineIn(Stacks) /\ Coming("ENTRY_ON")) \/ InMail("ACCEPT_REQ")
    /\ mode = "WAIT_REQ" => (LineIn(Stacks) /\ Coming("VEND")) \/ HostOwes \/ InMail("ENABLE")
    /\ line.second => mode = "WAIT_REQ_FIRST"

\* A reset that meets a note on its way to the stacker, or one to be returned, is
\* flagged or in the mailbox.
ResetHeard ==
  mode \in FeedModes \cup {"WAIT_REJECT_REQ"} =>
    /\ \A msg \in Tidings : Pausing(msg) \/ (msg.code = "STACK" /\ msg.sub = "REJECT")
    /\ Apart => LineIn({"initial"}) /\ (reset \/ InMail("RESET"))

WInv == Owed /\ Fitting /\ Conversing /\ ResetHeard

Attending == Reading /\ WInv

Word(sub) == Msg("STACK", sub, "OTHER")

\* What a handler tells, and from which mode to which.
Speaking ==
  \/ UNCHANGED line_mbx /\ (mode' = mode \/ mode' \notin Requests)
  \/ mode' = mode /\ mode \in FeedModes /\ (Tell(<<Word("PAUSE")>>) \/ Tell(<<Word("RESUME")>>))
  \/ mode \in FeedModes /\ mode' = "WAIT_REJECT_REQ" /\ Tell(<<Word("REJECT")>>)
  \/ /\ mode \notin Requests \cup RejectModes \cup FeedModes /\ mode' = "WAIT_REQ"
     /\ Tell(Append(<<Word("VEND")>>, Word("SUCCESS")))
  \/ /\ mode = "WAIT_REQ_FIRST" /\ mode' = mode
     /\ Tell(Append(<<Word("VEND")>>, Word("SUCCESS")))
  \/ mode = "STACK_HOME" /\ mode' = "WAIT_REQ_FIRST" /\ Tell(<<Word("ENTRY_ON")>>)
  \/ mode = "FEED_STACK" /\ mode' = "WAIT_STACK_START" /\ reset

Onward ==
  Stacking' =>
    /\ mode' \notin Requests => job'.busy # {}
    /\ \A d \in job'.busy : work'[d] # "none" \/ (d \in job.busy /\ ~Answers(d, m))
    /\ \A d \in Devices : work'[d] = work[d] \/ work'[d] \in Fits[mode']
    /\ (\E d \in job.busy : ~Answers(d, m)) => Fits[mode] \subseteq Fits[mode']
    /\ Speaking
    /\ mode \in {"WAIT_REQ", "WAIT_REQ_FIRST"} => mode' = mode
    /\ mode' = "WAIT_REJECT_REQ" => m.code # "REJECT_REQ" \/ mode # "WAIT_REJECT_REQ"
    /\ mode' = "WAIT_REQ" => m.code # "ENABLE" \/ mode # "WAIT_REQ"
    /\ mode' = "WAIT_REQ_FIRST" => m.code # "ACCEPT_REQ" \/ mode # "WAIT_REQ_FIRST"
    /\ mode' \in FeedModes \cup {"WAIT_REJECT_REQ"} => (reset \/ m.code = "RESET" => reset')

LEMMA Quits == ASSUME mode' \in {"INIT", "ALARM", "ACCEPT", "IDLE", "REJECT"} PROVE Onward
BY DEF Onward, Stacking, StackModes, FeedModes

LEMMA InitQuits ==
  /\ \A s, words : SetInitAfter(s, words) => Onward
  /\ SetInit => Onward
<1>1. ASSUME NEW s, NEW words, SetInitAfter(s, words) PROVE Onward
  BY <1>1, Quits DEF SetInitAfter
<1> QED
  BY <1>1 DEF SetInit

LEMMA AlarmQuits ==
  /\ \A j, conn, code, s, words : AlarmAfter(j, conn, code, s, words) => Onward
  /\ \A j, code : AlarmSub(j, code) => Onward
  /\ \A j, code : InitOrAlarm(j, code) => Onward
<1>1. ASSUME NEW j, NEW conn, NEW code, NEW s, NEW words, AlarmAfter(j, conn, code, s, words)
      PROVE  Onward
  BY <1>1, Quits DEF AlarmAfter
<1>2. ASSUME NEW j, NEW code, AlarmSub(j, code) PROVE Onward
  BY <1>1, <1>2 DEF AlarmSub
<1>3. ASSUME NEW j, NEW code, InitOrAlarm(j, code) PROVE Onward
  BY <1>2, <1>3, InitQuits DEF InitOrAlarm
<1> QED
  BY <1>1, <1>2, <1>3

\* A code is the request of one device.
LEMMA OneAsked ==
  ASSUME NEW d \in Devices, NEW e \in Devices, NEW c, c \in Asked[d], c \in Asked[e]
  PROVE  d = e
BY DeviceNames DEF Asked

\* What is known of m, and of the device that it answers for.
LEMMA Attention ==
  ASSUME Attending
  PROVE  /\ Known /\ Types /\ job \in Jobs /\ Stacking
         /\ mode \notin Requests => job.busy # {}
         /\ \A d \in Devices : Answers(d, m) => m.code \in Fits[mode] \ {"STACKER_PULL_HALF"}
         /\ \A d \in Devices : Done(d).busy = job.busy \ {d} /\ Failed(d).busy = job.busy \ {d}
         /\ \A d, e \in Devices : Answers(d, m) /\ Answers(e, m) => d = e
         /\ mode # "WAIT_STACK_TOP" => \A d, e \in job.busy : d = e
         /\ job.busy \subseteq Devices
<1> USE DEF Attending, Reading
<1>1. Known /\ Types /\ job \in Jobs
  BY Given
<1>2. m \in Posted
  <2>1. main_mbx \in Seq(Messages) /\ main_mbx # << >>
    BY <1>1 DEF Types
  <2> QED
    BY <2>1, EmptySeq, LenProperties DEF Posted, m
<1>3. \A d \in Devices : Answers(d, m) => m.code \in Fits[mode] \ {"STACKER_PULL_HALF"}
  BY <1>2 DEF WInv, Fitting
<1>4. \A d \in Devices : Done(d).busy = job.busy \ {d} /\ Failed(d).busy = job.busy \ {d}
  BY <1>1, JobTypes
<1>5. \A d, e \in Devices : Answers(d, m) /\ Answers(e, m) => d = e
  BY OneAsked DEF Answers
<1>6. mode # "WAIT_STACK_TOP" => \A d, e \in job.busy : d = e
  BY DEF IInv, Joined
<1>7. job.busy \subseteq Devices
  BY <1>1 DEF Jobs
<1> QED
  BY <1>1, <1>3, <1>4, <1>5, <1>6, <1>7 DEF WInv, Owed

LEMMA StayOn ==
  ASSUME Attending, NEW j, Stay(j), j.busy \subseteq job.busy,
         mode \notin Requests => j.busy # {},
         \A d \in j.busy : ~Answers(d, m),
         m.code \notin {"RESET", "REJECT_REQ", "ENABLE", "ACCEPT_REQ"} \/ mode \notin FeedModes \cup Requests
  PROVE  Onward
<1>1. job' = j /\ UNCHANGED <<mode, reset, work, line_mbx>> /\ mode' = mode
  BY DEF Stay
<1>2. Speaking
  BY <1>1 DEF Speaking
<1>3. /\ mode' \notin Requests => job'.busy # {}
      /\ \A d \in job'.busy : d \in job.busy /\ ~Answers(d, m)
  BY <1>1
<1>4. /\ mode' = "WAIT_REJECT_REQ" => m.code # "REJECT_REQ"
      /\ mode' = "WAIT_REQ" => m.code # "ENABLE"
      /\ mode' = "WAIT_REQ_FIRST" => m.code # "ACCEPT_REQ"
      /\ mode' \in FeedModes \cup {"WAIT_REJECT_REQ"} => (reset \/ m.code = "RESET" => reset')
  BY <1>1 DEF Requests
<1> QED
  BY <1>1, <1>2, <1>3, <1>4 DEF Onward

LEMMA FlagOn == ASSUME Attending, Flag, m.code = "RESET", mode \notin Requests PROVE Onward
<1>1. \A d \in job.busy : ~Answers(d, m)
  BY Attention, DeviceNames DEF Answers, Asked
<1> QED
  BY <1>1, Attention DEF Flag, Onward, Speaking

\* A message without a case.
LEMMA DefaultOn ==
  ASSUME Attending, NEW cases, Default(cases), "RESET" \in cases,
         Fits[mode] \ {"STACKER_PULL_HALF"} \subseteq cases,
         mode = "WAIT_REQ" => "ENABLE" \in cases,
         mode = "WAIT_REQ_FIRST" => "ACCEPT_REQ" \in cases,
         mode = "WAIT_REJECT_REQ" => "REJECT_REQ" \in cases
  PROVE  Onward
<1>1. m.code \notin cases /\ Stay(job)
  BY DEF Default
<1>2. \A d \in job.busy : ~Answers(d, m)
  BY <1>1, Attention
<1> QED
  BY <1>1, <1>2, Attention DEF Stay, Onward, Speaking

LEMMA ProceedOn ==
  ASSUME Attending, NEW next \in StackModes, NEW j \in Jobs, NEW d \in Devices,
         NEW r \in Asked[d], NEW s, Proceed(next, j, d, r, s), r \in Fits[next],
         next \notin Requests, next \in FeedModes => m.code # "RESET",
         mode \notin {"WAIT_REQ", "WAIT_REQ_FIRST"},
         \A e \in j.busy : e \in job.busy /\ ~Answers(e, m),
         \A e \in job.busy : e \in j.busy \/ Answers(e, m),
         j.busy # {} => Fits[mode] \subseteq Fits[next]
  PROVE  Onward
<1>1. /\ mode' = next /\ UNCHANGED <<reset, line_mbx>>
      /\ job' = [j EXCEPT !.busy = @ \cup {d}]
      /\ work' = [work EXCEPT ![d] = r]
  BY DEF Proceed
<1>2. job'.busy = j.busy \cup {d}
  BY <1>1 DEF Jobs
<1>3. DOMAIN work = Devices /\ r # "none"
  BY Attention, DeviceNames DEF Types, Asked
<1>4. \A e \in Devices : work'[e] = IF e = d THEN r ELSE work[e]
  BY <1>1, <1>3
<1>5. Speaking
  BY <1>1 DEF Speaking
<1>6. \A e \in job'.busy : work'[e] # "none" \/ (e \in job.busy /\ ~Answers(e, m))
  BY <1>2, <1>3, <1>4
<1>7. \A e \in Devices : work'[e] = work[e] \/ work'[e] \in Fits[mode']
  BY <1>1, <1>4
<1>8. (\E e \in job.busy : ~Answers(e, m)) => Fits[mode] \subseteq Fits[mode']
  BY <1>1
<1>9. job'.busy # {}
  BY <1>2
<1>10. mode' \notin {"WAIT_REQ", "WAIT_REQ_FIRST", "WAIT_REJECT_REQ"}
  BY <1>1 DEF Requests
<1> QED
  BY <1>1, <1>5, <1>6, <1>7, <1>8, <1>9, <1>10 DEF Onward

LEMMA StatusOn ==
  ASSUME StatusOrInit \/ StatusAlarm PROVE Onward
BY AlarmQuits DEF StatusOrInit, StatusAlarm

LEMMA DeviceAlarmOn ==
  ASSUME Attending, NEW d \in Devices, m.code \in Asked[d], DeviceAlarm(d), mode \notin Requests
  PROVE  Onward
<1>1. Answers(d, m) /\ m.sub = "ALARM"
  BY DEF DeviceAlarm, Answers
<1>2. CASE Done(d).busy = {}
  BY <1>2, AlarmQuits DEF DeviceAlarm
<1>3. CASE Done(d).busy # {} /\ Stay(Failed(d))
  <2>1. Failed(d).busy = job.busy \ {d} /\ Failed(d).busy # {}
    BY <1>3, Attention
  <2>2. \A e \in Failed(d).busy : ~Answers(e, m)
    BY <1>1, <2>1, Attention
  <2>3. m.code \notin {"RESET", "REJECT_REQ", "ENABLE", "ACCEPT_REQ"}
    BY DeviceNames DEF Asked
  <2> QED
    BY <1>3, <2>1, <2>2, <2>3, StayOn
<1> QED
  BY <1>2, <1>3 DEF DeviceAlarm

-----------------------------------------------------------------------------
(* The handlers once more.                                                   *)

\* The answer of the only device that is busy.
LEMMA LastAnswer ==
  ASSUME Attending, mode \notin Requests \cup {"WAIT_STACK_TOP"}, NEW d \in Devices, Answers(d, m)
  PROVE  job.busy = {d} /\ Done(d).busy = {} /\ Done(d) \in Jobs /\ m.code \in Fits[mode]
<1>1. d \in job.busy /\ \A e \in job.busy : e = d
  BY Attention DEF Known
<1> QED
  BY <1>1, Attention, JobTypes

\* The next request to a device, when nothing else is busy.
LEMMA NextOn ==
  ASSUME Attending, mode \notin {"WAIT_REQ", "WAIT_REQ_FIRST"}, NEW next \in StackModes,
         NEW j \in Jobs, j.busy = {}, \A e \in job.busy : Answers(e, m),
         NEW d \in Devices, NEW r \in Asked[d], NEW s, Proceed(next, j, d, r, s), r \in Fits[next],
         next \notin Requests, next \in FeedModes => m.code # "RESET"
  PROVE  Onward
BY ProceedOn

\* The credit is told, or the mode left.
LEMMA CreditOn ==
  ASSUME Attending, NEW j, NEW next, Credit(j, next), j.busy = {},
         \A e \in job.busy : Answers(e, m),
         \/ next = "WAIT_REQ" /\ mode \notin Requests \cup RejectModes \cup FeedModes
         \/ next = "WAIT_REQ_FIRST" /\ mode = next /\ m.code # "ACCEPT_REQ"
  PROVE  Onward
<1> DEFINE vend == <<Msg("STACK", "VEND", "OTHER")>>
<1>1. CASE SetInitAfter("VEND", vend)
  BY <1>1, InitQuits
<1>2. CASE AlarmAfter(j, "STACK", "BOX", "VEND", vend)
  BY <1>2, AlarmQuits
<1>3. CASE /\ mode' = next /\ job' = j /\ Tell(Append(vend, Msg("STACK", "SUCCESS", "OTHER")))
           /\ UNCHANGED <<reset, work>>
  <2>1. Tell(Append(<<Word("VEND")>>, Word("SUCCESS")))
    BY <1>3 DEF Word
  <2>2. Speaking
    BY <1>3, <2>1 DEF Speaking
  <2>3. /\ mode' \in Requests /\ job'.busy = {} /\ mode' \notin FeedModes \cup {"WAIT_REJECT_REQ"}
        /\ work' = work
    BY <1>3 DEF Requests, FeedModes
  <2>4. mode \in {"WAIT_REQ", "WAIT_REQ_FIRST"} => mode' = mode
    BY <1>3 DEF Requests
  <2>5. /\ mode' = "WAIT_REQ" => mode # "WAIT_REQ"
        /\ mode' = "WAIT_REQ_FIRST" => m.code # "ACCEPT_REQ"
        /\ mode' # "WAIT_REJECT_REQ"
    BY <1>3 DEF Requests
  <2> QED
    BY <2>2, <2>3, <2>4, <2>5 DEF Onward
<1> QED
  BY <1>1, <1>2, <1>3 DEF Credit

LEMMA BoxedOn ==
  ASSUME Attending, NEW j \in Jobs, Boxed(j), j.busy = {}, \A e \in job.busy : Answers(e, m),
         mode \notin Requests \cup RejectModes \cup FeedModes
  PROVE  Onward
<1>1. CASE Proceed("FEED_REV_REQ", j, "FEED", "FEED_REV", step)
  <2>1. /\ "FEED_REV_REQ" \in StackModes /\ "FEED" \in Devices /\ "FEED_REV" \in Asked["FEED"]
        /\ "FEED_REV" \in Fits["FEED_REV_REQ"] /\ "FEED_REV_REQ" \notin Requests \cup FeedModes
    BY DeviceNames DEF StackModes, Asked, Fits, Requests, FeedModes
  <2> QED
    BY <1>1, <2>1, NextOn DEF Requests
<1>2. CASE Credit(j, "WAIT_REQ")
  BY <1>2, CreditOn
<1> QED
  BY <1>1, <1>2 DEF Boxed

LEMMA FeedResetOn ==
  ASSUME Attending, feed_reset, mode \in FeedModes PROVE Onward
<1>1. mode \notin Requests
  BY DEF FeedModes, Requests
<1> QED
  BY <1>1, FlagOn, InitQuits DEF feed_reset

LEMMA FeedingOn ==
  ASSUME Attending, feeding, m.code = "FEED_APB", mode \in FeedModes PROVE Onward
<1>1. mode \notin Requests /\ "FEED_APB" \in Asked["FEED"] /\ "FEED" \in Devices
  BY DeviceNames DEF FeedModes, Requests, Asked
<1>2. ASSUME m.sub \in {"PAUSE", "RESUME"}, Tell(<<Msg("STACK", m.sub, "OTHER")>>),
             UNCHANGED <<mode, job, reset, work>>
      PROVE  Onward
  <2>1. \A d \in Devices : ~Answers(d, m)
    BY <1>2 DEF Answers
  <2>2. mode' = mode /\ (Tell(<<Word("PAUSE")>>) \/ Tell(<<Word("RESUME")>>))
    BY <1>2 DEF Word
  <2>3. Speaking
    BY <2>2 DEF Speaking
  <2>4. job'.busy # {} /\ \A d \in job'.busy : d \in job.busy /\ ~Answers(d, m)
    BY <1>1, <1>2, <2>1, Attention
  <2>5. mode' \notin Requests
    BY <1>1, <1>2
  <2> QED
    BY <1>2, <2>3, <2>4, <2>5 DEF Onward, Requests
<1>3. CASE m.sub = "REJECT" /\ ~reset /\ RejectSub
  <2>1. Answers("FEED", m)
    BY <1>1, <1>3 DEF Answers
  <2>2. job.busy = {"FEED"} /\ mode # "WAIT_STACK_TOP"
    BY <1>1, <2>1, LastAnswer DEF FeedModes
  <2>3. /\ mode' = "WAIT_REJECT_REQ" /\ job'.busy = {} /\ Tell(<<Word("REJECT")>>)
        /\ UNCHANGED <<reset, work>>
    BY <1>3 DEF RejectSub, NoJob, Word
  <2>4. Speaking
    BY <2>3 DEF Speaking
  <2>5. mode' \in Requests /\ mode \notin Requests
    BY <1>1, <2>3 DEF Requests
  <2> QED
    BY <1>3, <2>1, <2>2, <2>3, <2>4, <2>5 DEF Onward, Requests
<1>4. CASE SetInit \/ InitOrAlarm(Done("FEED"), m.arg)
  BY <1>4, InitQuits, AlarmQuits
<1>5. CASE m.sub \in {"PAUSE", "RESUME"}
  BY <1>2, <1>4, <1>5 DEF feeding
<1> QED
  BY <1>3, <1>4, <1>5 DEF feeding

LEMMA FeedStackLowOn ==
  ASSUME Attending, mode = "FEED_STACK_LOW", feed_stack_low PROVE Onward
<1>1. /\ mode \in FeedModes /\ mode \notin Requests /\ mode \notin Requests \cup {"WAIT_STACK_TOP"}
      /\ mode \notin {"WAIT_REQ", "WAIT_REQ_FIRST"} /\ mode \in StackModes
      /\ Fits[mode] = {"FEED_APB", "APB_CLOSE", "SHUTTER_OPEN"}
      /\ "WAIT_STACK_TOP" \in StackModes /\ "WAIT_STACK_TOP" \notin Requests \cup FeedModes
      /\ "STACKER_EXEC" \in Fits["WAIT_STACK_TOP"]
  BY DEF FeedModes, Requests, StackModes, Fits
<1>2. /\ "FEED_APB" \in Asked["FEED"] /\ "APB_CLOSE" \in Asked["APB"]
      /\ "SHUTTER_OPEN" \in Asked["SHUTTER"] /\ "STACKER_EXEC" \in Asked["STACKER"]
      /\ "FEED" \in Devices /\ "APB" \in Devices /\ "SHUTTER" \in Devices /\ "STACKER" \in Devices
  BY DeviceNames DEF Asked
<1>3. ASSUME NEW d \in Devices, m.code \in Asked[d], m.sub = "SUCCESS"
      PROVE  Done(d).busy = {} /\ Done(d) \in Jobs /\ \A e \in job.busy : Answers(e, m)
  BY <1>1, <1>3, LastAnswer DEF Answers
<1>4. CASE feed_reset
  BY <1>1, <1>4, FeedResetOn
<1>5. CASE is("FEED_APB", "SUCCESS") /\ Proceed(mode, Done("FEED"), "APB", "APB_CLOSE", step)
  BY <1>1, <1>2, <1>3, <1>5, NextOn DEF is
<1>6. CASE is("APB_CLOSE", "SUCCESS")
           /\ Proceed(mode, Done("APB"), "SHUTTER", "SHUTTER_OPEN", step)
  BY <1>1, <1>2, <1>3, <1>6, NextOn DEF is
<1>7. CASE /\ is("SHUTTER_OPEN", "SUCCESS")
           /\ Proceed("WAIT_STACK_TOP", Done("SHUTTER"), "STACKER", "STACKER_EXEC", "STACKING")
  BY <1>1, <1>2, <1>3, <1>7, NextOn DEF is
<1>8. CASE SetInit \/ StatusOrInit
  BY <1>8, InitQuits, StatusOn
<1>9. CASE m.code = "FEED_APB" /\ feeding
  BY <1>1, <1>9, FeedingOn
<1>10. CASE \/ m.code = "APB_CLOSE" /\ DeviceAlarm("APB")
            \/ m.code = "SHUTTER_OPEN" /\ DeviceAlarm("SHUTTER")
  BY <1>1, <1>2, <1>10, DeviceAlarmOn
<1>11. CASE Default({"RESET", "FEED_APB", "APB_CLOSE", "SHUTTER_OPEN"})
  BY <1>1, <1>11, DefaultOn DEF Requests
<1> QED
  BY <1>4, <1>5, <1>6, <1>7, <1>8, <1>9, <1>10, <1>11 DEF feed_stack_low

LEMMA FeedStackOn ==
  ASSUME Attending, mode = "FEED_STACK", feed_stack PROVE Onward
<1>1. /\ mode \in FeedModes /\ mode \notin Requests /\ mode \notin Requests \cup {"WAIT_STACK_TOP"}
      /\ Fits[mode] = {"FEED_APB"} /\ "STACKER_EXEC" \in Fits["WAIT_STACK_START"]
      /\ "WAIT_STACK_START" \notin Requests \cup FeedModes
      /\ "FEED" \in Devices /\ "FEED_APB" \in Asked["FEED"] /\ "STACKER" \in Devices
      /\ "STACKER_EXEC" # "none"
  BY DeviceNames DEF FeedModes, Requests, Fits, Asked
<1>2. CASE feed_reset
  BY <1>1, <1>2, FeedResetOn
<1>3. CASE m.code = "FEED_APB" /\ feeding
  BY <1>1, <1>3, FeedingOn
<1>4. CASE StatusOrInit
  BY <1>4, StatusOn
<1>5. CASE Default({"RESET", "FEED_APB"})
  BY <1>1, <1>5, DefaultOn DEF Requests
<1>6. ASSUME is("FEED_APB", "SUCCESS"), mode' = "WAIT_STACK_START",
             job' = [NoJob EXCEPT !.busy = {"STACKER"}],
             work' = [work EXCEPT !["STACKER"] = "STACKER_EXEC"],
             UNCHANGED line_mbx \/ reset
      PROVE  Onward
  <2>1. job.busy = {"FEED"} /\ Answers("FEED", m)
    BY <1>1, <1>6, LastAnswer DEF Answers, is
  <2>2. job'.busy = {"STACKER"}
    BY <1>6 DEF NoJob
  <2>3. DOMAIN work = Devices
    BY Attention DEF Types
  <2>4. \A e \in Devices : work'[e] = IF e = "STACKER" THEN "STACKER_EXEC" ELSE work[e]
    BY <1>6, <2>3
  <2>5. Speaking
    BY <1>1, <1>6 DEF Speaking
  <2>6. /\ \A d \in job'.busy : work'[d] # "none"
        /\ \A d \in Devices : work'[d] = work[d] \/ work'[d] \in Fits[mode']
        /\ \A d \in job.busy : Answers(d, m)
    BY <1>1, <1>6, <2>1, <2>2, <2>4
  <2>7. mode' \notin Requests \cup FeedModes /\ mode \notin {"WAIT_REQ", "WAIT_REQ_FIRST"}
    BY <1>1, <1>6
  <2> QED
    BY <2>2, <2>5, <2>6, <2>7 DEF Onward, Requests
<1> QED
  BY <1>2, <1>3, <1>4, <1>5, <1>6 DEF feed_stack

LEMMA WaitStackStartOn ==
  ASSUME Attending, mode = "WAIT_STACK_START", wait_stack_start PROVE Onward
<1>1. /\ mode \notin Requests /\ mode \notin {"WAIT_REQ", "WAIT_REQ_FIRST"}
      /\ Fits[mode] = {"STACKER_EXEC"} /\ Fits[mode] \subseteq Fits["WAIT_STACK_TOP"]
      /\ "SHUTTER_OPEN" \in Fits["WAIT_STACK_TOP"] /\ "SHUTTER_OPEN" \in Asked["SHUTTER"]
      /\ "SHUTTER" \in Devices /\ "WAIT_STACK_TOP" \in StackModes
      /\ "WAIT_STACK_TOP" \notin Requests \cup FeedModes
  BY DeviceNames DEF FeedModes, Requests, Fits, Asked, StackModes
<1>2. CASE m.code = "RESET" /\ Flag
  BY <1>1, <1>2, FlagOn
<1>3. CASE is("STACKER_EXEC", "START")
           /\ Proceed("WAIT_STACK_TOP", job, "SHUTTER", "SHUTTER_OPEN", step)
  <2>1. \A e \in job.busy : ~Answers(e, m)
    BY <1>3 DEF is, Answers
  <2> QED
    BY <1>1, <1>3, <2>1, Attention, ProceedOn
<1>4. CASE InitOrAlarm(Done("STACKER"), m.arg) \/ StatusOrInit
  BY <1>4, AlarmQuits, StatusOn
<1>5. CASE Default({"RESET", "STACKER_EXEC"})
  BY <1>1, <1>5, DefaultOn DEF Requests
<1> QED
  BY <1>2, <1>3, <1>4, <1>5 DEF wait_stack_start

\* One of several answers: the others are waited for.
LEMMA PartOn ==
  ASSUME Attending, mode = "WAIT_STACK_TOP", NEW d \in Devices, Answers(d, m),
         NEW j, Stay(j), j.busy = job.busy \ {d}, j.busy # {}
  PROVE  Onward
<1>1. \A e \in j.busy : e \in job.busy /\ e \in Devices /\ e # d
  BY Attention
<1>2. \A e \in j.busy : ~Answers(e, m)
  BY <1>1, Attention
<1>3. mode \notin FeedModes \cup Requests
  BY DEF FeedModes, Requests
<1> QED
  BY <1>1, <1>2, <1>3, StayOn

LEMMA AgainOn ==
  ASSUME Attending, mode \in {"WAIT_STACK_TOP", "STACK_RETRY"}, NEW j \in Jobs, j.busy = {},
         \A e \in job.busy : Answers(e, m), NEW r \in {"STACKER_NG_PULL", "STACKER_EXEC_RE"},
         Retry(j, r)
  PROVE  Onward
<1>1. /\ "STACK_RETRY" \in StackModes /\ "STACKER" \in Devices /\ r \in Asked["STACKER"]
      /\ r \in Fits["STACK_RETRY"] /\ "STACK_RETRY" \notin Requests \cup FeedModes
      /\ mode \notin {"WAIT_REQ", "WAIT_REQ_FIRST"}
  BY DeviceNames DEF StackModes, Asked, Fits, Requests, FeedModes
<1> QED
  BY <1>1, NextOn DEF Retry

LEMMA FinishOn ==
  ASSUME Attending, mode = "WAIT_STACK_TOP", NEW d \in Devices, Answers(d, m), Finish(Done(d))
  PROVE  Onward
<1>1. Done(d).busy = job.busy \ {d} /\ Done(d) \in Jobs
  BY Attention, JobTypes
<1>2. CASE Done(d).busy # {}
  <2>1. Stay(Done(d))
    BY <1>2 DEF Finish, IfLast
  <2> QED
    BY <1>1, <1>2, <2>1, PartOn
<1>3. CASE Done(d).busy = {}
  <2>1. \A e \in job.busy : Answers(e, m)
    BY <1>1, <1>3
  <2>2. finish_stacker_pb_icb(Done(d))
    BY <1>3 DEF Finish, IfLast
  <2>3. \/ SetInit \/ AlarmSub(Done(d), "OTHER") \/ AlarmSub(Done(d), "BOX")
        \/ RetryRejected(Done(d)) \/ Pull(Done(d))
    BY <2>2 DEF finish_stacker_pb_icb
  <2>4. CASE SetInit \/ AlarmSub(Done(d), "OTHER") \/ AlarmSub(Done(d), "BOX")
    BY <2>4, InitQuits, AlarmQuits
  <2>5. CASE RetryRejected(Done(d))
    <3> DEFINE j == [Done(d) EXCEPT !.reject = @ \ {"STACKER"}]
    <3>1. j \in Jobs /\ j.busy = {} /\ Retry(j, "STACKER_NG_PULL")
      BY <1>1, <1>3, <2>5 DEF Jobs, RetryRejected
    <3> HIDE DEF j
    <3> QED
      BY <2>1, <3>1, AgainOn
  <2>6. CASE Pull(Done(d))
    <3>1. PICK r \in Pulls : Proceed("STACK_HOME", Done(d), "STACKER", r, step)
      BY <2>6 DEF Pull, Pulls
    <3>2. /\ "STACK_HOME" \in StackModes /\ "STACKER" \in Devices /\ r \in Asked["STACKER"]
          /\ r \in Fits["STACK_HOME"] /\ "STACK_HOME" \notin Requests \cup FeedModes
      BY DeviceNames DEF StackModes, Asked, Fits, Requests, FeedModes, Pulls
    <3> QED
      BY <1>1, <1>3, <2>1, <3>1, <3>2, NextOn
  <2> QED
    BY <2>3, <2>4, <2>5, <2>6
<1> QED
  BY <1>2, <1>3

LEMMA WaitStackTopOn ==
  ASSUME Attending, mode = "WAIT_STACK_TOP", stack_wait_stack_top PROVE Onward
<1>1. /\ mode \notin Requests \cup FeedModes /\ mode \in StackModes
      /\ Fits[mode] = {"STACKER_EXEC", "SHUTTER_OPEN", "APB_EXEC", "ICB_ACCEPT"}
  BY DEF FeedModes, Requests, StackModes, Fits
<1>2. /\ "STACKER" \in Devices /\ "SHUTTER" \in Devices /\ "APB" \in Devices /\ "ICB" \in Devices
      /\ "STACKER_EXEC" \in Asked["STACKER"] /\ "SHUTTER_OPEN" \in Asked["SHUTTER"]
      /\ "APB_EXEC" \in Asked["APB"] /\ "ICB_ACCEPT" \in Asked["ICB"]
  BY DeviceNames DEF Asked
<1>3. \A d \in Devices : Done(d) \in Jobs /\ Done(d).busy = job.busy \ {d}
  BY Attention, JobTypes
<1>4. CASE m.code = "RESET" /\ Flag
  BY <1>1, <1>4, FlagOn
<1>5. CASE is("STACKER_EXEC", "SUCCESS") /\ ToIcb(Done("STACKER"))
  <2>1. Answers("STACKER", m)
    BY <1>2, <1>5 DEF is, Answers
  <2>2. Proceed(mode, Done("STACKER"), "ICB", "ICB_ACCEPT", "ICB_ACCEPT")
    BY <1>5 DEF ToIcb
  <2>3. /\ \A e \in Done("STACKER").busy : e \in job.busy /\ e \in Devices /\ e # "STACKER"
        /\ \A e \in job.busy : e \in Done("STACKER").busy \/ Answers(e, m)
    BY <1>2, <1>3, <2>1, Attention
  <2>4. \A e \in Done("STACKER").busy : ~Answers(e, m)
    BY <1>2, <2>1, <2>3, Attention
  <2> QED
    BY <1>1, <1>2, <1>3, <2>2, <2>3, <2>4, ProceedOn
<1>6. CASE is("STACKER_EXEC", "SUCCESS") /\ Finish(Done("STACKER"))
  BY <1>2, <1>6, FinishOn DEF is, Answers
<1>7. CASE is("STACKER_EXEC", "REJECT")
           /\ IF Done("STACKER").busy = {} THEN PullBack(Done("STACKER"))
              ELSE Stay([Done("STACKER") EXCEPT !.reject = {"STACKER"}])
  <2>1. Answers("STACKER", m)
    BY <1>2, <1>7 DEF is, Answers
  <2>2. CASE Done("STACKER").busy = {}
    <3>1. \A e \in job.busy : Answers(e, m)
      BY <1>2, <1>3, <2>1, <2>2
    <3>2. PullBack(Done("STACKER"))
      BY <1>7, <2>2
    <3>3. \/ SetInit \/ AlarmSub(Done("STACKER"), "OTHER") \/ AlarmSub(Done("STACKER"), "BOX")
          \/ Retry(Done("STACKER"), "STACKER_NG_PULL")
      BY <3>2 DEF PullBack
    <3> QED
      BY <1>2, <1>3, <2>2, <3>1, <3>3, InitQuits, AlarmQuits, AgainOn
  <2>3. CASE Done("STACKER").busy # {}
    <3> DEFINE j == [Done("STACKER") EXCEPT !.reject = {"STACKER"}]
    <3>1. Stay(j) /\ j.busy = job.busy \ {"STACKER"} /\ j.busy # {}
      BY <1>2, <1>3, <1>7, <2>3 DEF Jobs
    <3> HIDE DEF j
    <3> QED
      BY <1>2, <2>1, <3>1, PartOn
  <2> QED
    BY <2>2, <2>3
<1>8. CASE \/ m.code = "STACKER_EXEC" /\ DeviceAlarm("STACKER")
           \/ m.code = "SHUTTER_OPEN" /\ DeviceAlarm("SHUTTER")
           \/ m.code = "APB_EXEC" /\ DeviceAlarm("APB")
           \/ m.code = "ICB_ACCEPT" /\ DeviceAlarm("ICB")
  BY <1>1, <1>2, <1>8, DeviceAlarmOn
<1>9. CASE is("STACKER_EXEC", "START") /\ Stay(job)
  <2>1. \A e \in job.busy : ~Answers(e, m)
    BY <1>9 DEF is, Answers
  <2> QED
    BY <1>1, <1>9, <2>1, Attention, StayOn
<1>10. CASE /\ is("SHUTTER_OPEN", "SUCCESS")
            /\ job' = [Done("SHUTTER") EXCEPT !.busy = @ \cup {"APB"}]
            /\ work' = [work EXCEPT !["APB"] = "APB_EXEC"]
            /\ UNCHANGED <<mode, reset, step, line_mbx>>
  <2>1. Answers("SHUTTER", m)
    BY <1>2, <1>10 DEF is, Answers
  <2>2. job'.busy = (job.busy \ {"SHUTTER"}) \cup {"APB"}
    BY <1>2, <1>3, <1>10 DEF Jobs
  <2>3. \A e \in Devices : work'[e] = IF e = "APB" THEN "APB_EXEC" ELSE work[e]
    BY <1>10, Attention DEF Types
  <2>4. \A e \in job.busy \ {"SHUTTER"} : ~Answers(e, m)
    BY <1>2, <2>1, Attention
  <2>5. Speaking
    BY <1>10 DEF Speaking
  <2>6. /\ job'.busy # {}
        /\ \A e \in job'.busy : work'[e] # "none" \/ (e \in job.busy /\ ~Answers(e, m))
        /\ \A e \in Devices : work'[e] = work[e] \/ work'[e] \in Fits[mode']
    BY <1>1, <1>2, <1>10, <2>2, <2>3, <2>4
  <2> QED
    BY <1>1, <1>10, <2>5, <2>6 DEF Onward, Requests, FeedModes
<1>11. CASE is("APB_EXEC", "SUCCESS") /\ Finish(Done("APB"))
  BY <1>2, <1>11, FinishOn DEF is, Answers
<1>12. CASE is("ICB_ACCEPT", "SUCCESS") /\ Finish(Done("ICB"))
  BY <1>2, <1>12, FinishOn DEF is, Answers
<1>13. CASE StatusOrInit
  BY <1>13, StatusOn
<1>14. CASE Default({"RESET", "STACKER_EXEC", "SHUTTER_OPEN", "APB_EXEC", "ICB_ACCEPT"})
  BY <1>1, <1>14, DefaultOn DEF Requests
<1> QED
  BY <1>4, <1>5, <1>6, <1>7, <1>8, <1>9, <1>10, <1>11, <1>12, <1>13, <1>14
     DEF stack_wait_stack_top

LEMMA WaitStackHomeOn ==
  ASSUME Attending, mode = "STACK_HOME", stack_wait_stack_home PROVE Onward
<1>1. /\ mode \notin Requests \cup {"WAIT_STACK_TOP"} /\ mode \notin Requests
      /\ mode \notin Requests \cup RejectModes \cup FeedModes
      /\ Fits[mode] \ {"STACKER_PULL_HALF"} = {"STACKER_PULL"}
      /\ Fits["WAIT_REQ_FIRST"] = Fits[mode]
      /\ "STACKER" \in Devices /\ "STACKER_PULL" \in Asked["STACKER"]
  BY DeviceNames DEF FeedModes, Requests, RejectModes, Fits, Asked, Pulls
<1>2. CASE m.code = "RESET" /\ Flag
  BY <1>1, <1>2, FlagOn
<1>3. ASSUME m.code = "STACKER_PULL", m.sub = "ENABLE_NEXT"
      PROVE  /\ \A e \in job.busy : ~Answers(e, m)
             /\ Stay(job) => Onward
  <2>1. \A e \in job.busy : ~Answers(e, m)
    BY <1>3 DEF Answers
  <2> QED
    BY <1>1, <1>3, <2>1, Attention, StayOn
<1>4. CASE /\ is("STACKER_PULL", "ENABLE_NEXT") /\ mode' = "WAIT_REQ_FIRST"
           /\ Tell(<<Msg("STACK", "ENTRY_ON", "OTHER")>>)
           /\ UNCHANGED <<job, reset, second, step, work>>
  <2>1. \A e \in job'.busy : e \in job.busy /\ ~Answers(e, m)
    BY <1>3, <1>4 DEF is
  <2>2. Tell(<<Word("ENTRY_ON")>>)
    BY <1>4 DEF Word
  <2>3. Speaking
    BY <1>4, <2>2 DEF Speaking
  <2> QED
    BY <1>1, <1>4, <2>1, <2>3 DEF Onward, Requests, FeedModes
<1>5. CASE is("STACKER_PULL", "SUCCESS") /\ Boxed(Done("STACKER"))
  <2>1. Answers("STACKER", m)
    BY <1>1, <1>5 DEF is, Answers
  <2>2. job.busy = {"STACKER"} /\ Done("STACKER").busy = {} /\ Done("STACKER") \in Jobs
    BY <1>1, <2>1, LastAnswer
  <2> QED
    BY <1>1, <1>5, <2>1, <2>2, BoxedOn
<1>6. CASE InitOrAlarm(Done("STACKER"), m.arg) \/ StatusOrInit
  BY <1>6, AlarmQuits, StatusOn
<1>7. CASE Default({"RESET", "STACKER_PULL"})
  BY <1>1, <1>7, DefaultOn DEF Requests
<1> QED
  BY <1>2, <1>3, <1>4, <1>5, <1>6, <1>7 DEF stack_wait_stack_home, is

LEMMA WaitReqFirstOn ==
  ASSUME Attending, mode = "WAIT_REQ_FIRST", stack_wait_req_first PROVE Onward
<1>1. /\ mode \in Requests /\ mode # "WAIT_STACK_TOP"
      /\ Fits[mode] \ {"STACKER_PULL_HALF"} = {"STACKER_PULL"}
      /\ "STACKER" \in Devices /\ "STACKER_PULL" \in Asked["STACKER"]
  BY DeviceNames DEF Requests, Fits, Asked, Pulls
<1>2. CASE SetInit \/ StatusAlarm \/ AlarmSub(job, "BOX")
  BY <1>2, InitQuits, AlarmQuits, StatusOn
<1>3. CASE set_accept
  BY <1>3, Quits, AlarmQuits DEF set_accept
<1>4. CASE Stay(job) /\ (m.code = "SENSOR" \/ is("STACKER_PULL", "ENABLE_NEXT"))
  <2>1. \A e \in Devices : ~Answers(e, m)
    BY <1>4, DeviceNames DEF is, Answers, Asked
  <2>2. m.code \notin {"RESET", "REJECT_REQ", "ENABLE", "ACCEPT_REQ"}
    BY <1>4 DEF is
  <2> QED
    BY <1>1, <1>4, <2>1, <2>2, Attention, StayOn
<1>5. CASE is("STACKER_PULL", "SUCCESS") /\ Credit(Done("STACKER"), mode)
  <2>1. Answers("STACKER", m)
    BY <1>1, <1>5 DEF is, Answers
  <2>2. "STACKER" \in job.busy /\ \A e \in job.busy : e = "STACKER"
    BY <1>1, <2>1, Attention DEF Known
  <2>3. Done("STACKER").busy = {} /\ m.code # "ACCEPT_REQ"
    BY <1>1, <1>5, <2>2, Attention DEF is
  <2> QED
    BY <1>5, <2>1, <2>2, <2>3, CreditOn
<1>6. CASE AlarmSub(Failed("STACKER"), m.arg)
  BY <1>6, AlarmQuits
<1>7. CASE Default({"RESET", "ACCEPT_REQ", "SENSOR", "STACKER_PULL"})
  BY <1>1, <1>7, DefaultOn
<1> QED
  BY <1>2, <1>3, <1>4, <1>5, <1>6, <1>7 DEF stack_wait_req_first

LEMMA StackExecRetryOn ==
  ASSUME Attending, mode = "STACK_RETRY", stack_exec_retry PROVE Onward
<1>1. /\ mode \notin Requests \cup {"WAIT_STACK_TOP"} /\ mode \notin Requests
      /\ mode \notin Requests \cup RejectModes \cup FeedModes /\ mode \notin FeedModes
      /\ mode \notin {"WAIT_REQ", "WAIT_REQ_FIRST"} /\ mode \in StackModes
      /\ Fits[mode] = {"STACKER_NG_PULL", "STACKER_EXEC_RE", "ICB_ACCEPT"}
      /\ "STACKER" \in Devices /\ "ICB" \in Devices
      /\ {"STACKER_NG_PULL", "STACKER_EXEC_RE"} \subseteq Asked["STACKER"]
      /\ "ICB_ACCEPT" \in Asked["ICB"]
  BY DeviceNames DEF FeedModes, Requests, RejectModes, Fits, Asked, StackModes
<1>2. ASSUME NEW d \in Devices, m.code \in Asked[d], m.sub \in {"SUCCESS", "ALARM"}
      PROVE  /\ Done(d).busy = {} /\ Done(d) \in Jobs
             /\ \A e \in job.busy : Answers(e, m)
  BY <1>1, <1>2, LastAnswer DEF Answers
<1>3. ASSUME NEW j \in Jobs, j.busy = {}, \A e \in job.busy : Answers(e, m), ToIcb(j)
      PROVE  Onward
  <2>1. Proceed(mode, j, "ICB", "ICB_ACCEPT", "ICB_ACCEPT") /\ "ICB_ACCEPT" \in Fits[mode]
    BY <1>1, <1>3 DEF ToIcb
  <2> QED
    BY <1>1, <1>3, <2>1, NextOn
<1>4. CASE m.code = "RESET" /\ Flag
  BY <1>1, <1>4, FlagOn
<1>5. CASE SetInit \/ AlarmSub(Done("STACKER"), "BOX") \/ StatusOrInit
           \/ InitOrAlarm(Done("STACKER"), m.arg) \/ InitOrAlarm(Done("ICB"), m.arg)
  BY <1>5, InitQuits, AlarmQuits, StatusOn
<1>6. CASE is("STACKER_NG_PULL", "SUCCESS") /\ Retry(Done("STACKER"), "STACKER_EXEC_RE")
  BY <1>1, <1>2, <1>6, AgainOn DEF is
<1>7. CASE /\ is("STACKER_EXEC_RE", "SUCCESS")
           /\ ToIcb(Done("STACKER")) \/ Boxed(Done("STACKER"))
  <2>1. /\ Done("STACKER").busy = {} /\ Done("STACKER") \in Jobs
        /\ \A e \in job.busy : Answers(e, m)
    BY <1>1, <1>2, <1>7 DEF is
  <2> QED
    BY <1>1, <1>3, <1>7, <2>1, BoxedOn
<1>8. CASE is("STACKER_EXEC_RE", "ALARM") /\ StackerFull(Done("STACKER"))
  <2> DEFINE f == [Done("STACKER") EXCEPT !.alarm = @ \cup {"STACKER"}]
  <2>1. /\ Done("STACKER").busy = {} /\ Done("STACKER") \in Jobs
        /\ \A e \in job.busy : Answers(e, m)
    BY <1>1, <1>2, <1>8 DEF is
  <2>2. f \in Jobs /\ f.busy = {}
    BY <1>1, <2>1 DEF Jobs
  <2>3. \/ InitOrAlarm(Done("STACKER"), m.arg) \/ ToIcb(f) \/ SetInitAfter("VEND", << >>)
        \/ AlarmAfter(f, "STACK", "FULL", "VEND", << >>)
    BY <1>8 DEF StackerFull
  <2> HIDE DEF f
  <2> QED
    BY <1>3, <2>1, <2>2, <2>3, InitQuits, AlarmQuits
<1>9. CASE is("ICB_ACCEPT", "SUCCESS") /\ RetryInformed(Done("ICB"))
  <2>1. /\ Done("ICB").busy = {} /\ Done("ICB") \in Jobs /\ \A e \in job.busy : Answers(e, m)
    BY <1>1, <1>2, <1>9 DEF is
  <2>2. \/ Boxed(Done("ICB")) \/ SetInitAfter("VEND", << >>)
        \/ AlarmAfter(Done("ICB"), "STACK", "FULL", "VEND", << >>)
    BY <1>9 DEF RetryInformed
  <2> QED
    BY <1>1, <2>1, <2>2, BoxedOn, InitQuits, AlarmQuits
<1>10. CASE Default({"RESET", "STACKER_NG_PULL", "STACKER_EXEC_RE", "ICB_ACCEPT"})
  BY <1>1, <1>10, DefaultOn DEF Requests
<1> QED
  BY <1>4, <1>5, <1>6, <1>7, <1>8, <1>9, <1>10 DEF stack_exec_retry

LEMMA FeedRevReqOn ==
  ASSUME Attending, mode = "FEED_REV_REQ", stack_feed_rev_req PROVE Onward
<1>1. /\ mode \notin Requests \cup {"WAIT_STACK_TOP"} /\ mode \notin Requests
      /\ mode \notin Requests \cup RejectModes \cup FeedModes
      /\ Fits[mode] = {"FEED_REV"} /\ "FEED" \in Devices /\ "FEED_REV" \in Asked["FEED"]
  BY DeviceNames DEF FeedModes, Requests, RejectModes, Fits, Asked
<1>2. CASE m.code = "RESET" /\ Flag
  BY <1>1, <1>2, FlagOn
<1>3. CASE is("FEED_REV", "SUCCESS") /\ Credit(Done("FEED"), "WAIT_REQ")
  <2>1. Answers("FEED", m)
    BY <1>1, <1>3 DEF is, Answers
  <2>2. job.busy = {"FEED"} /\ Done("FEED").busy = {}
    BY <1>1, <2>1, LastAnswer
  <2> QED
    BY <1>1, <1>3, <2>1, <2>2, CreditOn
<1>4. CASE InitOrAlarm(Done("FEED"), m.arg) \/ StatusOrInit
  BY <1>4, AlarmQuits, StatusOn
<1>5. CASE Default({"RESET", "FEED_REV"})
  BY <1>1, <1>5, DefaultOn DEF Requests
<1> QED
  BY <1>2, <1>3, <1>4, <1>5 DEF stack_feed_rev_req

LEMMA WaitReqOn ==
  ASSUME Attending, mode = "WAIT_REQ", stack_wait_req PROVE Onward
<1>1. CASE SetInit \/ StatusAlarm \/ AlarmAfter(job, "ENABLE", "OTHER", step, << >>)
  BY <1>1, InitQuits, AlarmQuits, StatusOn
<1>2. CASE mode' = "IDLE"
  BY <1>2, Quits
<1>3. CASE Default({"RESET", "ENABLE"})
  BY <1>3, DefaultOn DEF Fits
<1> QED
  BY <1>1, <1>2, <1>3 DEF stack_wait_req

\* A note that goes back keeps no device busy while the request is waited for.
LEMMA NobodyBusy ==
  ASSUME IInv, mode \in {"WAIT_REQ", "WAIT_REJECT_REQ"} PROVE job.busy = {}
<1>1. ASSUME NEW d \in job.busy PROVE FALSE
  <2>1. Stacking /\ job \in Jobs
    BY DEF IInv, Types, Stacking, StackModes
  <2>2. d \in Devices /\ mode \in WaitsFor[d]
    BY <1>1, <2>1 DEF IInv, Joined, Jobs
  <2> QED
    BY <2>2, DeviceNames DEF WaitsFor, FeedModes
<1> QED
  BY <1>1

LEMMA WaitRejectReqOn ==
  ASSUME Attending, mode = "WAIT_REJECT_REQ", stack_wait_reject_req PROVE Onward
<1>1. CASE SetInit \/ StatusAlarm
  BY <1>1, InitQuits, StatusOn
<1>2. CASE Proceed("WAIT_REJECT_SHUTTER_OPEN", job, "SHUTTER", "SHUTTER_OPEN", step)
  <2>1. job.busy = {} /\ job \in Jobs
    BY NobodyBusy, Attention DEF Attending, Reading
  <2>2. /\ "WAIT_REJECT_SHUTTER_OPEN" \in StackModes /\ "SHUTTER" \in Devices
        /\ "WAIT_REJECT_SHUTTER_OPEN" \notin Requests \cup FeedModes
        /\ "SHUTTER_OPEN" \in Asked["SHUTTER"]
        /\ "SHUTTER_OPEN" \in Fits["WAIT_REJECT_SHUTTER_OPEN"]
    BY DeviceNames DEF StackModes, FeedModes, Requests, Asked, Fits
  <2> QED
    BY <1>2, <2>1, <2>2, NextOn
<1>3. CASE Default({"RESET", "REJECT_REQ"})
  BY <1>3, DefaultOn DEF Fits
<1> QED
  BY <1>1, <1>2, <1>3 DEF stack_wait_reject_req

LEMMA WaitRejectShutterOpenOn ==
  ASSUME Attending, mode = "WAIT_REJECT_SHUTTER_OPEN", stack_wait_reject_shutter_open
  PROVE  Onward
<1>1. mode \notin Requests /\ Fits[mode] = {"SHUTTER_OPEN"}
  BY DEF Requests, Fits
<1>2. CASE m.code = "RESET" /\ Flag
  BY <1>1, <1>2, FlagOn
<1>3. CASE SetInit \/ StatusAlarm \/ InitOrAlarm(Failed("SHUTTER"), m.arg)
  BY <1>3, InitQuits, AlarmQuits, StatusOn
<1>4. CASE mode' = "REJECT"
  BY <1>4, Quits
<1>5. CASE Default({"RESET", "SHUTTER_OPEN"})
  BY <1>1, <1>5, DefaultOn DEF Requests
<1> QED
  BY <1>2, <1>3, <1>4, <1>5 DEF stack_wait_reject_shutter_open

LEMMA EveryOnward == ASSUME IInv, WInv, stack_msg_proc PROVE Attending /\ Onward
<1>1. Attending
  BY DEF stack_msg_proc, Attending, Reading
<1> QED
  BY <1>1, FeedStackOn, FeedStackLowOn, WaitStackStartOn, WaitStackTopOn, WaitStackHomeOn,
     WaitReqFirstOn, StackExecRetryOn, FeedRevReqOn, WaitReqOn, WaitRejectReqOn,
     WaitRejectShutterOpenOn
     DEF stack_msg_proc

-----------------------------------------------------------------------------
(* The mailboxes once more.                                                  *)

LEMMA ReadRest ==
  ASSUME Types, main_mbx # << >>, main_mbx' = Tail(main_mbx)
  PROVE  Posted = Posted' \cup {m}
<1>1. main_mbx \in Seq(Messages)
  BY DEF Types
<1>2. /\ main_mbx' \in Seq(Messages) /\ Len(main_mbx') = Len(main_mbx) - 1
      /\ Len(main_mbx) \in Nat /\ Len(main_mbx) >= 1
      /\ \A i \in 1 .. Len(main_mbx') : main_mbx'[i] = main_mbx[i + 1]
      /\ m = main_mbx[1]
  BY <1>1, HeadTailProperties, EmptySeq, LenProperties DEF m
<1>3. ASSUME NEW i \in 1 .. Len(main_mbx), i # 1 PROVE main_mbx[i] \in Posted'
  <2>1. i - 1 \in 1 .. Len(main_mbx') /\ (i - 1) + 1 = i
    BY <1>2, <1>3
  <2>2. main_mbx'[i - 1] = main_mbx[i]
    BY <1>2, <2>1
  <2> QED
    BY <2>1, <2>2 DEF Posted
<1>4. Posted' \subseteq Posted /\ m \in Posted
  BY <1>2 DEF Posted
<1> QED
  BY <1>2, <1>3, <1>4 DEF Posted

\* What is told comes behind what was told before, and next behind pauses.
LEMMA ToldNext ==
  ASSUME Types, NEW words \in Seq(Messages), Tell(words), NEW sub
  PROVE  /\ Coming(sub) => Coming(sub)'
         /\ /\ \A msg \in Tidings : Pausing(msg)
            /\ words # << >> /\ words[1] = Word(sub)
            => Coming(sub)'
<1>1. line_mbx \in Seq(Messages) /\ Len(line_mbx) \in Nat /\ Len(words) \in Nat
  BY LenProperties DEF Types
<1>2. /\ Len(line_mbx') = Len(line_mbx) + Len(words)
      /\ \A i \in 1 .. Len(line_mbx) : line_mbx'[i] = line_mbx[i]
      /\ \A i \in 1 .. Len(words) : line_mbx'[Len(line_mbx) + i] = words[i]
  BY <1>1, ConcatProperties DEF Tell
<1>3. ASSUME Coming(sub) PROVE Coming(sub)'
  <2>1. PICK i \in 1 .. Len(line_mbx) :
          /\ line_mbx[i].code = "STACK" /\ line_mbx[i].sub = sub
          /\ \A k \in 1 .. Len(line_mbx) : k < i => Pausing(line_mbx[k])
    BY <1>3 DEF Coming
  <2>2. i \in 1 .. Len(line_mbx') /\ line_mbx'[i] = line_mbx[i]
    BY <1>1, <1>2
  <2>3. ASSUME NEW k \in 1 .. Len(line_mbx'), k < i PROVE Pausing(line_mbx'[k])
    <3>1. k \in 1 .. Len(line_mbx) /\ line_mbx'[k] = line_mbx[k]
      BY <1>1, <1>2, <2>3
    <3> QED
      BY <2>1, <2>3, <3>1
  <2> QED
    BY <2>1, <2>2, <2>3 DEF Coming
<1>4. ASSUME \A msg \in Tidings : Pausing(msg), words # << >>, words[1] = Word(sub)
      PROVE  Coming(sub)'
  <2> DEFINE i == Len(line_mbx) + 1
  <2>1. Len(words) >= 1
    BY <1>1, <1>4, EmptySeq
  <2>2. i \in 1 .. Len(line_mbx') /\ line_mbx'[i] = Word(sub)
    BY <1>1, <1>2, <1>4, <2>1
  <2>3. Word(sub).code = "STACK" /\ Word(sub).sub = sub
    BY DEF Word, Msg
  <2>4. ASSUME NEW k \in 1 .. Len(line_mbx'), k < i PROVE Pausing(line_mbx'[k])
    <3>1. k \in 1 .. Len(line_mbx) /\ line_mbx'[k] = line_mbx[k]
      BY <1>1, <1>2, <2>4
    <3> QED
      BY <1>4, <3>1 DEF Tidings
  <2> HIDE DEF i
  <2> QED
    BY <2>2, <2>3, <2>4 DEF Coming
<1> QED
  BY <1>3, <1>4

\* The word that comes is read, or a pause before it.
LEMMA TakenNext ==
  ASSUME Types, line_mbx # << >>, line_mbx' = Tail(line_mbx), NEW sub, Coming(sub),
         sub \notin {"PAUSE", "RESUME"}
  PROVE  \/ told.code = "STACK" /\ told.sub = sub
         \/ Pausing(told) /\ Coming(sub)'
<1>1. line_mbx \in Seq(Messages)
  BY DEF Types
<1>2. /\ line_mbx' \in Seq(Messages) /\ Len(line_mbx') = Len(line_mbx) - 1
      /\ Len(line_mbx) \in Nat /\ Len(line_mbx) >= 1
      /\ \A i \in 1 .. Len(line_mbx') : line_mbx'[i] = line_mbx[i + 1]
      /\ told = line_mbx[1]
  BY <1>1, HeadTailProperties, EmptySeq, LenProperties DEF told
<1>3. PICK i \in 1 .. Len(line_mbx) :
        /\ line_mbx[i].code = "STACK" /\ line_mbx[i].sub = sub
        /\ \A k \in 1 .. Len(line_mbx) : k < i => Pausing(line_mbx[k])
  BY DEF Coming
<1>4. CASE i = 1
  BY <1>2, <1>3, <1>4
<1>5. CASE i # 1
  <2>1. i - 1 \in 1 .. Len(line_mbx') /\ (i - 1) + 1 = i /\ 1 < i /\ 1 \in 1 .. Len(line_mbx)
    BY <1>2, <1>5
  <2>2. line_mbx'[i - 1] = line_mbx[i] /\ Pausing(told)
    BY <1>2, <1>3, <2>1
  <2>3. ASSUME NEW k \in 1 .. Len(line_mbx'), k < i - 1 PROVE Pausing(line_mbx'[k])
    <3>1. k + 1 \in 1 .. Len(line_mbx) /\ k + 1 < i /\ line_mbx'[k] = line_mbx[k + 1]
      BY <1>2, <2>3
    <3> QED
      BY <1>3, <3>1
  <2>4. Coming(sub)'
    BY <1>3, <2>1, <2>2, <2>3 DEF Coming
  <2> QED
    BY <2>2, <2>4
<1> QED
  BY <1>4, <1>5

\* The words a handler says.
LEMMA Words ==
  ASSUME NEW sub \in Subs
  PROVE  /\ Word(sub) \in Messages /\ Word(sub).code = "STACK" /\ Word(sub).sub = sub
         /\ <<Word(sub)>> \in Seq(Messages) /\ <<Word(sub)>> # << >>
         /\ <<Word(sub)>>[1] = Word(sub)
<1>1. Word(sub) \in Messages /\ Word(sub).code = "STACK" /\ Word(sub).sub = sub
  BY MsgType DEF Word, Codes, Alarms
<1> QED
  BY <1>1

LEMMA TwoWords ==
  /\ Append(<<Word("VEND")>>, Word("SUCCESS")) \in Seq(Messages)
  /\ Append(<<Word("VEND")>>, Word("SUCCESS")) # << >>
  /\ Append(<<Word("VEND")>>, Word("SUCCESS"))[1] = Word("VEND")
<1>1. Word("VEND") \in Messages /\ Word("SUCCESS") \in Messages
  BY Words DEF Subs
<1> DEFINE v == Word("VEND")
           w == Word("SUCCESS")
<1>2. v \in Messages /\ w \in Messages
  BY <1>1
<1> HIDE DEF v, w
<1>3. /\ Append(<<v>>, w) \in Seq(Messages) /\ Append(<<v>>, w)[1] = v
      /\ Len(Append(<<v>>, w)) = 2
  BY <1>2
<1>4. Append(<<v>>, w) # << >>
  BY <1>3, EmptySeq
<1> QED
  BY <1>3, <1>4 DEF v, w

-----------------------------------------------------------------------------
(* The main task keeps what is waited for.                                   *)

\* No mode waits for "none", and what fits to half a pull fits to a whole one.
LEMMA FitsCodes ==
  ASSUME NEW md \in StackModes
  PROVE  "none" \notin Fits[md] /\ ("STACKER_PULL_HALF" \in Fits[md] => "STACKER_PULL" \in Fits[md])
BY DEF StackModes, FeedModes, Fits, Pulls

LEMMA MainOwes == ASSUME IInv, WInv, main PROVE Owed' /\ Fitting'
<1>1. /\ Attending /\ Onward /\ Known /\ Types
      /\ main_mbx # << >> /\ main_mbx' = Tail(main_mbx)
  BY EveryOnward, Attention DEF main, stack_msg_proc
<1>2. Posted = Posted' \cup {m} /\ \A d \in Devices : Answers(d, m) => ~Answered(d)'
  <2>1. \A d \in Devices : Single(d)
    BY DEF IInv, OneAnswer
  <2> QED
    BY <1>1, <2>1, ReadRest, Read
<1>3. Stacking
  BY <1>1 DEF Attending, Reading
<1>4. \A d \in Devices : d \in job.busy /\ ~Answers(d, m) => work[d] # "none" \/ Answered(d)'
  BY <1>2, <1>3 DEF WInv, Owed, Answered
<1>5. ASSUME Stacking' PROVE mode' \in StackModes
  BY <1>5 DEF Stacking
<1>6. ASSUME Stacking', NEW d \in Devices, d \in job'.busy PROVE work'[d] # "none" \/ Answered(d)'
  <2>1. work'[d] = work[d] \/ work'[d] # "none"
    BY <1>1, <1>5, <1>6, FitsCodes DEF Onward
  <2> QED
    BY <1>1, <1>4, <1>6, <2>1 DEF Onward
<1>7. Stacking' => job'.busy \subseteq Devices
  BY <1>1, EveryHandler DEF main, Handled, Kinds, Jobs
<1>8. Owed'
  BY <1>1, <1>6, <1>7 DEF Owed, Onward
<1>9. ASSUME Stacking', NEW d \in Devices
      PROVE  /\ work'[d] \in Fits[mode'] \cup {"none"}
             /\ \A msg \in Posted' :
                  Answers(d, msg) => msg.code \in Fits[mode'] \ {"STACKER_PULL_HALF"}
  <2>1. work'[d] = work[d] \/ work'[d] \in Fits[mode']
    BY <1>1, <1>9 DEF Onward
  <2>2. d \in job.busy /\ ~Answers(d, m) => Fits[mode] \subseteq Fits[mode']
    BY <1>1, <1>9 DEF Onward
  <2>3. ASSUME work'[d] = work[d], work[d] # "none" PROVE work'[d] \in Fits[mode']
    <3>1. work[d] \in Fits[mode] /\ d \in job.busy /\ ~Answers(d, m)
      BY <1>1, <1>3, <2>3 DEF WInv, Fitting, Known
    <3> QED
      BY <2>2, <2>3, <3>1
  <2>4. ASSUME NEW msg \in Posted', Answers(d, msg)
        PROVE  msg.code \in Fits[mode'] \ {"STACKER_PULL_HALF"}
    <3>1. msg \in Posted /\ ~Answers(d, m)
      BY <1>2, <2>4 DEF Answered
    <3>2. msg.code \in Fits[mode] \ {"STACKER_PULL_HALF"} /\ d \in job.busy
      BY <1>3, <2>4, <3>1 DEF WInv, Fitting, IInv, OneAnswer, Answered
    <3> QED
      BY <2>2, <3>1, <3>2
  <2> QED
    BY <2>1, <2>3, <2>4
<1>10. Fitting'
  BY <1>9 DEF Fitting
<1> QED
  BY <1>8, <1>10

LEMMA MainTalks == ASSUME IInv, WInv, main PROVE Conversing' /\ ResetHeard'
<1>1. /\ Attending /\ Onward /\ Handled /\ Types /\ Stacking
      /\ main_mbx # << >> /\ main_mbx' = Tail(main_mbx)
      /\ UNCHANGED <<line, Apart>>
  BY EveryOnward, EveryHandler, Attention DEF main, stack_msg_proc, lvars, Apart, LineIn
<1>2. \A code : InMail(code) => InMail(code)' \/ m.code = code
  BY <1>1, ReadRest DEF InMail
<1>3. /\ Conversing /\ ResetHeard
      /\ (LineIn(Stacks))' = LineIn(Stacks) /\ HostOwes' = HostOwes
      /\ LineIn({"initial"})' = LineIn({"initial"})
  BY <1>1 DEF WInv, LineIn, HostOwes
<1>4. ASSUME ~Stacking' PROVE Conversing' /\ ResetHeard'
  BY <1>4 DEF Conversing, ResetHeard, Stacking, StackModes
<1>5. \A sub \in Subs :
        /\ Tell(<<Word(sub)>>) =>
             /\ Tidings' = Tidings \cup {Word(sub)}
             /\ (\A msg \in Tidings : Pausing(msg)) => Coming(sub)'
             /\ \A c : Coming(c) => Coming(c)'
  BY <1>1, Words, Telling, ToldNext
<1>6. Tell(Append(<<Word("VEND")>>, Word("SUCCESS"))) =>
        /\ (\A msg \in Tidings : Pausing(msg)) => Coming("VEND")'
        /\ \A c : Coming(c) => Coming(c)'
  BY <1>1, TwoWords, ToldNext
<1>7. line_mbx' = line_mbx => UNCHANGED Tidings /\ \A c : Coming(c)' <=> Coming(c)
  BY DEF Tidings, Coming
<1>8. {"PAUSE", "RESUME", "REJECT", "VEND", "ENTRY_ON", "SUCCESS"} \subseteq Subs
  BY DEF Subs
<1>9. ASSUME Stacking', ~Apart' PROVE Conversing'
  <2>1. ~Apart /\ ~reset
    BY <1>1, <1>9 DEF IInv, ResetKnown, Apart, LineIn
  <2>2. /\ mode \notin Requests \cup RejectModes =>
             LineIn(Stacks) /\ \A msg \in Tidings : Pausing(msg)
        /\ mode = "WAIT_REJECT_REQ" => (LineIn(Stacks) /\ Coming("REJECT")) \/ InMail("REJECT_REQ")
        /\ mode = "WAIT_REQ_FIRST" => (LineIn(Stacks) /\ Coming("ENTRY_ON")) \/ InMail("ACCEPT_REQ")
        /\ mode = "WAIT_REQ" => (LineIn(Stacks) /\ Coming("VEND")) \/ HostOwes \/ InMail("ENABLE")
        /\ line.second => mode = "WAIT_REQ_FIRST"
    BY <1>1, <1>3, <2>1 DEF Conversing
  <2>3. /\ mode \in {"WAIT_REQ", "WAIT_REQ_FIRST"} => mode' = mode
        /\ mode' = "WAIT_REJECT_REQ" => m.code # "REJECT_REQ" \/ mode # "WAIT_REJECT_REQ"
        /\ mode' = "WAIT_REQ" => m.code # "ENABLE" \/ mode # "WAIT_REQ"
        /\ mode' = "WAIT_REQ_FIRST" => m.code # "ACCEPT_REQ" \/ mode # "WAIT_REQ_FIRST"
    BY <1>1, <1>9 DEF Onward
  <2>4. mode \in RejectModes => mode' \in RejectModes
    BY <1>1, <1>9 DEF Handled, Crediting, Stacking
  <2>5. line'.second => mode' = "WAIT_REQ_FIRST"
    BY <1>1, <2>2, <2>3
  <2>6. CASE line_mbx' = line_mbx /\ mode' = mode
    BY <1>1, <1>2, <1>3, <1>7, <2>2, <2>3, <2>5, <2>6 DEF Conversing
  <2>7. CASE line_mbx' = line_mbx /\ mode' \notin Requests
    BY <1>3, <1>7, <2>2, <2>3, <2>4, <2>5, <2>7 DEF Conversing, Requests, RejectModes
  <2>8. CASE mode' = mode /\ mode \in FeedModes /\ (Tell(<<Word("PAUSE")>>) \/ Tell(<<Word("RESUME")>>))
    <3>1. \A msg \in Tidings' : msg \in Tidings \/ msg \in {Word("PAUSE"), Word("RESUME")}
      BY <1>5, <1>8, <2>8
    <3>2. Pausing(Word("PAUSE")) /\ Pausing(Word("RESUME"))
      BY DEF Pausing, Word, Msg
    <3>3. mode' \notin Requests \cup RejectModes
      BY <2>8 DEF FeedModes, Requests, RejectModes
    <3>4. \A msg \in Tidings' : Pausing(msg)
      BY <2>2, <2>8, <3>1, <3>2, <3>3
    <3> QED
      BY <1>3, <2>2, <2>5, <2>8, <3>3, <3>4 DEF Conversing, Requests
  <2>9. CASE mode \in FeedModes /\ mode' = "WAIT_REJECT_REQ" /\ Tell(<<Word("REJECT")>>)
    <3>1. mode \notin Requests \cup RejectModes
      BY <2>9 DEF FeedModes, Requests, RejectModes
    <3> QED
      BY <1>3, <1>5, <1>8, <2>2, <2>5, <2>9, <3>1 DEF Conversing, Requests
  <2>10. CASE /\ mode \notin Requests \cup RejectModes \cup FeedModes /\ mode' = "WAIT_REQ"
              /\ Tell(Append(<<Word("VEND")>>, Word("SUCCESS")))
    BY <1>3, <1>6, <2>2, <2>5, <2>10 DEF Conversing, Requests
  <2>11. CASE /\ mode = "WAIT_REQ_FIRST" /\ mode' = mode
              /\ Tell(Append(<<Word("VEND")>>, Word("SUCCESS")))
    BY <1>2, <1>3, <1>6, <2>2, <2>3, <2>5, <2>11 DEF Conversing, Requests
  <2>12. CASE mode = "STACK_HOME" /\ mode' = "WAIT_REQ_FIRST" /\ Tell(<<Word("ENTRY_ON")>>)
    BY <1>3, <1>5, <1>8, <2>2, <2>5, <2>12 DEF Conversing, Requests, RejectModes
  <2> QED
    BY <1>1, <1>9, <2>1, <2>6, <2>7, <2>8, <2>9, <2>10, <2>11, <2>12 DEF Onward, Speaking
<1>10. ASSUME Stacking', mode' \in FeedModes \cup {"WAIT_REJECT_REQ"} PROVE ResetHeard'
  <2>1. mode' \in FeedModes => mode \in FeedModes
    BY <1>1 DEF Handled, Placing
  <2>2. /\ mode \in FeedModes \cup {"WAIT_REJECT_REQ"}
        /\ \/ UNCHANGED line_mbx
           \/ Tell(<<Word("PAUSE")>>) \/ Tell(<<Word("RESUME")>>) \/ Tell(<<Word("REJECT")>>)
    BY <1>1, <1>10, <2>1 DEF Onward, Speaking, FeedModes, Requests
  <2>3. \A msg \in Tidings' :
          \/ msg \in Tidings
          \/ msg \in {Word("PAUSE"), Word("RESUME"), Word("REJECT")}
    BY <1>5, <1>7, <1>8, <2>2
  <2>4. \A msg \in Tidings' : Pausing(msg) \/ (msg.code = "STACK" /\ msg.sub = "REJECT")
    BY <1>3, <2>2, <2>3 DEF ResetHeard, Pausing, Word, Msg
  <2>5. reset \/ m.code = "RESET" => reset'
    BY <1>1, <1>10 DEF Onward
  <2>6. Apart' => LineIn({"initial"})' /\ (reset' \/ InMail("RESET")')
    BY <1>1, <1>2, <1>3, <2>2, <2>5 DEF ResetHeard
  <2> QED
    BY <2>4, <2>6 DEF ResetHeard
<1>11. Apart' => Conversing'
  BY DEF Conversing
<1>12. Stacking' /\ mode' \notin FeedModes \cup {"WAIT_REJECT_REQ"} => ResetHeard'
  BY DEF ResetHeard
<1> QED
  BY <1>4, <1>9, <1>10, <1>11, <1>12

LEMMA MainWaits == ASSUME IInv, WInv, main PROVE WInv'
BY MainOwes, MainTalks DEF WInv

-----------------------------------------------------------------------------
(* The devices and the faults keep what is waited for.                       *)

Beyond == UNCHANGED <<mode, job, reset, line_mbx, line>>

\* A device works on or has answered, with an answer that fits.
LEMMA BesideWaits ==
  ASSUME IInv, WInv, Beyond, Posted \subseteq Posted',
         \A d \in Devices : work'[d] = work[d] \/ (work'[d] = "none" /\ Answered(d)'),
         Stacking => \A msg \in Posted' :
           \/ msg \in Posted
           \/ \A d \in Devices : Answers(d, msg) => msg.code \in Fits[mode] \ {"STACKER_PULL_HALF"}
  PROVE  WInv'
<1> USE DEF WInv
<1>1. /\ UNCHANGED <<mode, job, reset, line_mbx, line, Stacking, Tidings, Apart, HostOwes>>
      /\ LineIn(Stacks)' = LineIn(Stacks) /\ LineIn({"initial"})' = LineIn({"initial"})
      /\ \A sub : Coming(sub)' <=> Coming(sub)
      /\ \A code : InMail(code) => InMail(code)'
      /\ \A d \in Devices : Answered(d) => Answered(d)'
  BY DEF Beyond, Stacking, Tidings, Apart, HostOwes, LineIn, Coming, InMail, Answered
<1>2. Stacking => job.busy \subseteq Devices
  BY DEF IInv, Types, Jobs
<1>3. Owed'
  BY <1>1, <1>2 DEF Owed
<1>4. Fitting'
  BY <1>1 DEF Fitting
<1>5. Conversing' /\ ResetHeard'
  BY <1>1 DEF Conversing, ResetHeard
<1> QED
  BY <1>3, <1>4, <1>5

LEMMA SilenceWaits ==
  ASSUME IInv, WInv, Beyond, UNCHANGED <<work, main_mbx>> PROVE WInv'
BY BesideWaits DEF Posted

LEMMA NoticeWaits ==
  ASSUME IInv, WInv, Beyond, UNCHANGED work, NEW x \in Messages, Send(x),
         \A d \in Devices : ~Answers(d, x)
  PROVE  WInv'
<1>1. Posted' = Posted \cup {x}
  BY Sent DEF IInv
<1> QED
  BY <1>1, BesideWaits

LEMMA AnswerWaits ==
  ASSUME IInv, WInv, Beyond, Stacking, NEW d \in Devices, work[d] # "none",
         NEW sub \in {"SUCCESS", "REJECT", "ALARM"}, NEW arg \in Alarms, Answer(d, sub, arg)
  PROVE  WInv'
<1>1. PICK x \in Messages :
        /\ Posted' = Posted \cup {x} /\ x.sub = sub
        /\ x.code = IF work[d] = "STACKER_PULL_HALF" THEN "STACKER_PULL" ELSE work[d]
  BY Replied DEF Beyond
<1>2. work[d] \in Fits[mode] /\ work[d] \in Asked[d] /\ mode \in StackModes
  BY DEF WInv, Fitting, IInv, Types, Stacking
<1>3. x.code \in Fits[mode] \ {"STACKER_PULL_HALF"} /\ x.code \in Asked[d]
  BY <1>1, <1>2, FitsCodes, DeviceNames DEF Asked
<1>4. \A e \in Devices : work'[e] = work[e] \/ (e = d /\ work'[e] = "none")
  BY DEF Answer, IInv, Types
<1>5. Answered(d)'
  BY <1>1, <1>3 DEF Answered, Answers
<1> QED
  BY <1>1, <1>3, <1>4, <1>5, BesideWaits

\* What the stacker says to the main task in a step.
Speech ==
  \/ UNCHANGED <<work, main_mbx>>
  \/ \E sub \in {"SUCCESS", "REJECT", "ALARM"} : \E arg \in Alarms : Answer("STACKER", sub, arg)
  \/ \E code \in {"STACKER_EXEC", "STACKER_PULL"} : \E sub \in {"START", "ENABLE_NEXT"} :
       Send(Msg(code, sub, "OTHER")) /\ UNCHANGED work

LEMMA SpeechParts ==
  ASSUME stacker.cause \in Alarms
  PROVE  /\ \A sub \in {"SUCCESS", "REJECT", "ALARM"} : \A arg \in {"OTHER", stacker.cause} :
              Ends(sub, arg) => Speech
         /\ \A seq : Turn(seq) => Speech
         /\ \A seq : HomeCount(seq) => Speech
         /\ \A cause : PushFails(cause) => Speech
<1>1. ASSUME NEW sub \in {"SUCCESS", "REJECT", "ALARM"}, NEW arg \in {"OTHER", stacker.cause},
             Ends(sub, arg)
      PROVE  Speech
  <2>1. arg \in Alarms
    BY DEF Alarms
  <2> QED
    BY <1>1, <2>1 DEF Ends, Speech
<1>2. \A seq : Turn(seq) => Speech
  BY DEF Turn, Speech
<1>3. \A seq : HomeCount(seq) => Speech
  BY <1>1 DEF HomeCount, Speech
<1>4. \A cause : PushFails(cause) => Speech
  BY <1>1 DEF PushFails, Speech
<1> QED
  BY <1>1, <1>2, <1>3, <1>4

LEMMA StackerSpeaks ==
  ASSUME IInv, Stacker PROVE Stacking /\ Beyond /\ work["STACKER"] # "none" /\ Speech
<1>1. stacker.cause \in Alarms
  BY StackerState
<1>2. /\ Pushes \subseteq Asked["STACKER"] /\ Pulls \subseteq Asked["STACKER"]
      /\ \A r \in Asked["STACKER"] : r # "none"
  BY DEF Pushes, Pulls, Asked
<1>3. Stacking /\ work["STACKER"] \in Asked["STACKER"] /\ UNCHANGED others
  BY <1>2 DEF Stacker, StackerStarts, StackerLeaves, StackerSticks, StackerTops, StackerStops,
              StackerBacks, StackerReturns, StackerRetries, StackerPulls, StackerAlarms,
              StackerIn, Works, Asked
<1>4. Beyond
  BY <1>3 DEF Beyond, others, mvars, lvars
<1>5. Speech
  <2>1. CASE StackerStarts
    BY <1>1, <2>1, SpeechParts DEF StackerStarts, Speech
  <2>2. CASE StackerLeaves \/ StackerSticks \/ StackerTops
    BY <1>1, <2>2, SpeechParts DEF StackerLeaves, StackerSticks, StackerTops
  <2>3. CASE StackerStops \/ StackerBacks
    BY <1>1, <2>3, SpeechParts DEF StackerStops, StackerBacks
  <2>4. CASE StackerReturns \/ StackerRetries
    BY <1>1, <2>4, SpeechParts DEF StackerReturns, StackerRetries
  <2>5. CASE StackerPulls
    BY <1>1, <2>5, SpeechParts DEF StackerPulls, Speech
  <2>6. CASE StackerAlarms
    BY <1>1, <2>6, SpeechParts DEF StackerAlarms
  <2> QED
    BY <2>1, <2>2, <2>3, <2>4, <2>5, <2>6 DEF Stacker
<1> QED
  BY <1>2, <1>3, <1>4, <1>5

LEMMA StackerWaits == ASSUME IInv, WInv, Stacker PROVE WInv'
<1>1. Stacking /\ Beyond /\ work["STACKER"] # "none" /\ Speech /\ "STACKER" \in Devices
  BY StackerSpeaks, DeviceNames
<1>2. ASSUME NEW code \in {"STACKER_EXEC", "STACKER_PULL"}, NEW sub \in {"START", "ENABLE_NEXT"},
             Send(Msg(code, sub, "OTHER")), UNCHANGED work
      PROVE  WInv'
  <2> DEFINE x == Msg(code, sub, "OTHER")
  <2>1. x \in Messages /\ x.sub = sub
    <3>1. code \in Codes /\ sub \in Subs /\ "OTHER" \in Alarms
      BY DEF Codes, Subs, Alarms
    <3> QED
      BY <3>1, MsgType
  <2>2. Send(x)
    BY <1>2
  <2> HIDE DEF x
  <2>3. \A d \in Devices : ~Answers(d, x)
    BY <2>1 DEF Answers
  <2> QED
    BY <1>1, <1>2, <2>1, <2>2, <2>3, NoticeWaits
<1> QED
  BY <1>1, <1>2, SilenceWaits, AnswerWaits DEF Speech

LEMMA FeedWaits == ASSUME IInv, WInv, Feed \/ FeedPauses PROVE WInv'
<1>1. Feeds
  BY DEF Feed, FeedLeaves, FeedArrives, FeedEnds, FeedPauses, FeedResumes
<1>2. /\ Stacking /\ work["FEED"] # "none" /\ "FEED" \in Devices /\ Beyond /\ "OTHER" \in Alarms
  BY <1>1, FeedFacts DEF Beyond, Alarms
<1>3. CASE FeedLeaves \/ FeedArrives
  BY <1>2, <1>3, SilenceWaits DEF FeedLeaves, FeedArrives
<1>4. CASE FeedEnds
  <2>1. PICK sub \in {"SUCCESS", "REJECT", "ALARM"} : Answer("FEED", sub, "OTHER")
    BY <1>4 DEF FeedEnds
  <2> QED
    BY <1>2, <2>1, AnswerWaits
<1>5. CASE FeedPauses \/ FeedResumes
  <2>1. PICK sub \in {"PAUSE", "RESUME"} : Send(Msg("FEED_APB", sub, "OTHER"))
    BY <1>5 DEF FeedPauses, FeedResumes
  <2> DEFINE x == Msg("FEED_APB", sub, "OTHER")
  <2>2. x \in Messages /\ x.sub = sub
    <3>1. "FEED_APB" \in Codes /\ sub \in Subs
      BY DEF Codes, Subs
    <3> QED
      BY <1>2, <3>1, MsgType
  <2>3. Send(x) /\ UNCHANGED work
    BY <1>5, <2>1 DEF FeedPauses, FeedResumes
  <2> HIDE DEF x
  <2>4. \A d \in Devices : ~Answers(d, x)
    BY <2>2 DEF Answers
  <2> QED
    BY <1>2, <2>2, <2>3, <2>4, NoticeWaits
<1> QED
  BY <1>3, <1>4, <1>5 DEF Feed

LEMMA DeviceWaits ==
  ASSUME IInv, WInv, NEW d \in Devices \ {"STACKER"}, DeviceAnswers(d) PROVE WInv'
<1>1. /\ Stacking /\ work[d] # "none" /\ Beyond /\ "OTHER" \in Alarms
      /\ \E sub \in {"SUCCESS", "REJECT", "ALARM"} : Answer(d, sub, "OTHER")
  BY DeviceNames DEF DeviceAnswers, Works, Asked, Beyond, mvars, lvars, Alarms
<1> QED
  BY <1>1, AnswerWaits

LEMMA FaultsWait == ASSUME IInv, WInv, Faults PROVE WInv'
<1>1. Beyond /\ UNCHANGED work
  BY DEF Faults, Beyond, mvars, lvars
<1>2. ASSUME NEW code \in {"STATUS", "SENSOR"}, NEW sub \in Subs, NEW arg \in Alarms,
             Send(Msg(code, sub, arg))
      PROVE  WInv'
  <2> DEFINE x == Msg(code, sub, arg)
  <2>1. x \in Messages /\ x.code = code
    <3>1. code \in Codes
      BY DEF Codes
    <3> QED
      BY <3>1, MsgType
  <2>2. Send(x)
    BY <1>2
  <2> HIDE DEF x
  <2>3. \A d \in Devices : ~Answers(d, x)
    BY <2>1, DeviceNames DEF Answers, Asked
  <2> QED
    BY <1>1, <2>1, <2>2, <2>3, NoticeWaits
<1>3. "ALARM" \in Subs /\ "INFO" \in Subs /\ {"BOX", "OTHER"} \subseteq Alarms
  BY DEF Subs, Alarms
<1> QED
  BY <1>2, <1>3 DEF Faults

-----------------------------------------------------------------------------
(* The line task and the host keep what is waited for.                       *)

\* A step of the line task: it takes its words from the front and only adds to
\* the mailbox of the main task.
Lining ==
  /\ IInv /\ WInv /\ LineSide /\ Tidings' \subseteq Tidings /\ Posted \subseteq Posted'
  /\ \A msg \in Posted' : msg \in Posted \/ msg.code \in LineCodes

LEMMA LiningFacts ==
  ASSUME Lining
  PROVE  /\ UNCHANGED <<mode, reset, Stacking>>
         /\ \A code : InMail(code) => InMail(code)'
         /\ Owed' /\ Fitting'
<1> USE DEF Lining, WInv
<1>1. UNCHANGED <<mode, job, reset, work, Stacking>>
  BY DEF LineSide, Stacking
<1>2. \A code : InMail(code) => InMail(code)'
  BY DEF InMail
<1>3. Stacking => job.busy \subseteq Devices
  BY DEF IInv, Types, Jobs
<1>4. \A d \in Devices : Answered(d) => Answered(d)'
  BY DEF Answered
<1>5. Owed'
  BY <1>1, <1>3, <1>4 DEF Owed
<1>6. \A msg \in Posted' : msg \in Posted \/ \A d \in Devices : ~Answers(d, msg)
  BY DeviceNames DEF Answers, Asked, LineCodes
<1>7. Fitting'
  BY <1>1, <1>6 DEF Fitting
<1> QED
  BY <1>1, <1>2, <1>5, <1>7

\* The line task gives the note up.
LEMMA FallsSilent ==
  ASSUME Lining, Apart',
         mode \in FeedModes \cup {"WAIT_REJECT_REQ"} => LineIn({"initial"})' /\ InMail("RESET")'
  PROVE  WInv'
<1>1. UNCHANGED <<mode, Stacking>> /\ Owed' /\ Fitting'
  BY LiningFacts
<1>2. Conversing'
  BY DEF Conversing
<1>3. ResetHeard'
  BY <1>1 DEF ResetHeard, Lining, WInv
<1> QED
  BY <1>1, <1>2, <1>3 DEF WInv

\* The line task does not turn to another note.
LEMMA StaysApart == ASSUME Lining, UNCHANGED line, Apart PROVE WInv'
<1>1. UNCHANGED <<mode, reset, Stacking>> /\ Owed' /\ Fitting' /\ (InMail("RESET") => InMail("RESET")')
  BY LiningFacts
<1>2. Apart' /\ LineIn({"initial"})' = LineIn({"initial"})
  BY DEF Apart, LineIn
<1>3. Conversing'
  BY <1>2 DEF Conversing
<1>4. ResetHeard'
  BY <1>1, <1>2 DEF ResetHeard, Lining, WInv
<1> QED
  BY <1>1, <1>3, <1>4 DEF WInv

\* The line task goes on with the note.
LEMMA Converses ==
  ASSUME Lining, ~Apart, ~Apart',
         Stacking =>
           /\ mode \notin Requests \cup RejectModes => LineIn(Stacks)'
           /\ LineIn(Stacks) /\ mode = "WAIT_REJECT_REQ" /\ Coming("REJECT") =>
                (LineIn(Stacks)' /\ Coming("REJECT")') \/ InMail("REJECT_REQ")'
           /\ LineIn(Stacks) /\ mode = "WAIT_REQ_FIRST" /\ Coming("ENTRY_ON") =>
                (LineIn(Stacks)' /\ Coming("ENTRY_ON")') \/ InMail("ACCEPT_REQ")'
           /\ LineIn(Stacks) /\ mode = "WAIT_REQ" /\ Coming("VEND") =>
                (LineIn(Stacks)' /\ Coming("VEND")') \/ HostOwes'
           /\ HostOwes /\ mode = "WAIT_REQ" => HostOwes' \/ InMail("ENABLE")'
           /\ line'.second => line.second \/ mode = "WAIT_REQ_FIRST"
  PROVE  WInv'
<1>1. /\ UNCHANGED <<mode, reset, Stacking>> /\ Owed' /\ Fitting'
      /\ \A code : InMail(code) => InMail(code)'
  BY LiningFacts
<1>2. Conversing'
  <2> SUFFICES ASSUME Stacking PROVE Conversing'
    BY <1>1 DEF Conversing
  <2>1. /\ mode \notin Requests \cup RejectModes => \A msg \in Tidings : Pausing(msg)
        /\ mode = "WAIT_REJECT_REQ" => (LineIn(Stacks) /\ Coming("REJECT")) \/ InMail("REJECT_REQ")
        /\ mode = "WAIT_REQ_FIRST" => (LineIn(Stacks) /\ Coming("ENTRY_ON")) \/ InMail("ACCEPT_REQ")
        /\ mode = "WAIT_REQ" => (LineIn(Stacks) /\ Coming("VEND")) \/ HostOwes \/ InMail("ENABLE")
        /\ line.second => mode = "WAIT_REQ_FIRST"
    BY DEF Lining, WInv, Conversing
  <2>2. mode \notin Requests \cup RejectModes => \A msg \in Tidings' : Pausing(msg)
    BY <2>1 DEF Lining
  <2> QED
    BY <1>1, <2>1, <2>2 DEF Conversing
<1>3. ResetHeard'
  BY <1>1 DEF ResetHeard, Lining, WInv
<1> QED
  BY <1>1, <1>2, <1>3 DEF WInv

\* How a step of the line task begins and what it sends.
LEMMA LiningSends ==
  ASSUME IInv, WInv, LineSide, Tidings' \subseteq Tidings
  PROVE  /\ UNCHANGED main_mbx => Lining
         /\ \A code \in LineCodes :
              Send(Msg(code, "none", "OTHER")) => Lining /\ InMail(code)'
<1>1. UNCHANGED main_mbx => Lining
  BY DEF Lining, Posted
<1>2. ASSUME NEW code \in LineCodes, Send(Msg(code, "none", "OTHER")) PROVE Lining /\ InMail(code)'
  <2> DEFINE x == Msg(code, "none", "OTHER")
  <2>1. x \in Messages /\ x.code = code
    <3>1. code \in Codes /\ "none" \in Subs /\ "OTHER" \in Alarms
      BY DEF LineCodes, Codes, Subs, Alarms
    <3> QED
      BY <3>1, MsgType
  <2>2. Send(x)
    BY <1>2
  <2> HIDE DEF x
  <2>3. Posted' = Posted \cup {x}
    BY <2>1, <2>2, Sent DEF IInv
  <2>4. Lining
    BY <2>1, <2>3 DEF Lining
  <2>5. InMail(code)'
    BY <2>1, <2>3 DEF InMail
  <2> QED
    BY <2>4, <2>5
<1> QED
  BY <1>1, <1>2

LEMMA LineCodeNames == {"REJECT_REQ", "ACCEPT_REQ", "ENABLE", "1ST_NOTE_DONE", "RESET"} \subseteq LineCodes
BY DEF LineCodes

\* A word of the stacking, before the credit.
LEMMA StackWaits ==
  ASSUME IInv, WInv, LineSide, line_mbx # << >>, line_mbx' = Tail(line_mbx),
         told.code = "STACK", LineIn(Stacks), stack_rsp_mode_stack
  PROVE  WInv'
<1>1. /\ Types /\ Tidings' \subseteq Tidings /\ told \in Tidings /\ line \in Lines
  BY LineTakes DEF IInv, Types
<1>2. \A sub \in {"REJECT", "ENTRY_ON", "VEND"} :
        Coming(sub) => told.sub = sub \/ (Pausing(told) /\ Coming(sub)')
  BY <1>1, TakenNext
<1>3. /\ ~Apart /\ ~HostOwes
      /\ \A next \in Stacks \cup Credited \cup {"reject"} : line'.mode = next => ~Apart'
      /\ \A next \in Stacks : line'.mode = next => LineIn(Stacks)'
      /\ line'.mode = "vend" => HostOwes'
  BY DEF LineIn, Apart, HostOwes, Stacks, Credited
<1>4. /\ UNCHANGED main_mbx => Lining
      /\ Send(Msg("REJECT_REQ", "none", "OTHER")) => Lining /\ InMail("REJECT_REQ")'
      /\ Send(Msg("ACCEPT_REQ", "none", "OTHER")) => Lining /\ InMail("ACCEPT_REQ")'
  BY <1>1, LiningSends, LineCodeNames
<1>5. ASSUME Stacking, mode \notin Requests \cup RejectModes PROVE Pausing(told)
  BY <1>1, <1>3, <1>5 DEF WInv, Conversing
<1>6. CASE told.sub = "VEND" /\ Goes("vend") /\ UNCHANGED <<step, main_mbx>>
  <2>1. line'.mode = "vend" /\ line'.second = line.second
    BY <1>1, <1>6 DEF Goes, Lines
  <2>2. HostOwes' /\ ~Apart' /\ Lining /\ ~Pausing(told)
    BY <1>3, <1>4, <1>6, <2>1 DEF Credited, Pausing
  <2> QED
    BY <1>2, <1>3, <1>5, <1>6, <2>1, <2>2, Converses
<1>7. ASSUME told.sub \in {"PAUSE", "RESUME"}, UNCHANGED <<step, main_mbx>>,
             line' = line \/ Goes("wait_pause") \/ Goes("stack")
      PROVE  WInv'
  <2>1. line'.mode \in Stacks /\ line'.second = line.second
    BY <1>1, <1>7 DEF Goes, Lines, Stacks, LineIn
  <2>2. LineIn(Stacks)' /\ ~Apart' /\ Lining
    BY <1>3, <1>4, <1>7, <2>1
  <2> QED
    BY <1>2, <1>3, <1>7, <2>1, <2>2, Converses
<1>8. CASE told.sub = "REJECT" /\ Goes("reject") /\ Send(Msg("REJECT_REQ", "none", "OTHER"))
  <2>1. line'.mode = "reject" /\ line'.second = line.second
    BY <1>1, <1>8 DEF Goes, Lines
  <2>2. ~Apart' /\ Lining /\ InMail("REJECT_REQ")' /\ ~Pausing(told)
    BY <1>3, <1>4, <1>8, <2>1 DEF Pausing
  <2> QED
    BY <1>2, <1>3, <1>5, <1>8, <2>1, <2>2, Converses
<1>9. CASE told.sub = "ALARM" /\ told.arg # "FULL" /\ ToError /\ UNCHANGED main_mbx
  <2>1. Apart' /\ Lining
    BY <1>4, <1>9 DEF ToError, Apart, LineIn
  <2>2. mode \notin FeedModes \cup {"WAIT_REJECT_REQ"}
    BY <1>1, <1>9 DEF WInv, ResetHeard, Pausing
  <2> QED
    BY <2>1, <2>2, FallsSilent
<1>10. CASE /\ told.sub = "ALARM" /\ told.arg = "FULL"
            /\ line' = [line EXCEPT !.mode = "vend_full", !.error = TRUE]
            /\ UNCHANGED <<step, main_mbx>>
  <2>1. line'.mode = "vend_full" /\ line'.second = line.second
    BY <1>1, <1>10 DEF Lines
  <2>2. ~Apart' /\ Lining /\ ~Pausing(told)
    BY <1>3, <1>4, <1>10, <2>1 DEF Pausing, Credited
  <2> QED
    BY <1>2, <1>3, <1>5, <1>10, <2>1, <2>2, Converses
<1>11. CASE /\ told.sub = "ENTRY_ON" /\ line' = [line EXCEPT !.second = TRUE]
            /\ Send(Msg("ACCEPT_REQ", "none", "OTHER"))
  <2>1. line'.mode = line.mode /\ line.mode \in Stacks
    BY <1>1, <1>11 DEF Lines, LineIn
  <2>2. ~Apart' /\ LineIn(Stacks)' /\ Lining /\ InMail("ACCEPT_REQ")' /\ ~Pausing(told)
    BY <1>3, <1>4, <1>11, <2>1 DEF Pausing
  <2>3. Stacking => mode = "WAIT_REQ_FIRST"
    BY <1>1, <1>11 DEF IInv, ResetKnown
  <2> QED
    BY <1>2, <1>3, <1>5, <1>11, <2>1, <2>2, <2>3, Converses
<1> QED
  BY <1>6, <1>7, <1>8, <1>9, <1>10, <1>11 DEF stack_rsp_mode_stack

\* A word once the credit is told.
LEMMA CreditWaits ==
  ASSUME IInv, WInv, LineSide, line_mbx # << >>, line_mbx' = Tail(line_mbx),
         told.code = "STACK", LineIn(Credited), stack_rsp_credited
  PROVE  WInv'
<1>1. /\ Types /\ Tidings' \subseteq Tidings /\ told \in Tidings /\ line \in Lines
      /\ UNCHANGED main_mbx
  BY LineTakes DEF IInv, Types, stack_rsp_credited
<1>2. Lining /\ ~Apart /\ ~LineIn(Stacks)
  BY <1>1, LiningSends DEF LineIn, Apart, Credited, Stacks
<1>3. CASE ToError /\ told.sub = "ALARM"
  <2>1. Apart'
    BY <1>3 DEF ToError, Apart, LineIn
  <2>2. mode \notin FeedModes \cup {"WAIT_REJECT_REQ"}
    BY <1>1, <1>3 DEF WInv, ResetHeard, Pausing
  <2> QED
    BY <1>2, <2>1, <2>2, FallsSilent
<1>4. CASE line' = line \/ line' = [line EXCEPT !.error = TRUE]
  <2>1. line'.mode = line.mode /\ line'.second = line.second
    BY <1>1, <1>4 DEF Lines
  <2>2. ~Apart' /\ (HostOwes => HostOwes')
    BY <1>2, <2>1 DEF Apart, HostOwes, LineIn
  <2>3. Stacking => mode \in Requests \cup RejectModes
    BY <1>2 DEF WInv, Conversing
  <2> QED
    BY <1>2, <2>1, <2>2, <2>3, Converses
<1> QED
  BY <1>3, <1>4 DEF stack_rsp_credited

LEMMA LineReadsWaits == ASSUME IInv, WInv, LineReads PROVE WInv'
<1>1. /\ LineSide /\ line_mbx # << >> /\ line_mbx' = Tail(line_mbx)
      /\ Types /\ Tidings' \subseteq Tidings /\ told \in Tidings
  BY LineTakes DEF LineReads, LineSide, options, mvars, IInv
<1>2. CASE told.code = "STACK" /\ LineIn(Stacks) /\ stack_rsp_mode_stack
  BY <1>1, <1>2, StackWaits
<1>3. CASE told.code = "STACK" /\ LineIn(Credited) /\ stack_rsp_credited
  BY <1>1, <1>3, CreditWaits
<1>4. CASE told.code # "STACK" /\ ToError /\ UNCHANGED main_mbx
  <2>1. Apart' /\ Lining
    BY <1>1, <1>4, LiningSends DEF ToError, Apart, LineIn
  <2>2. mode \notin FeedModes \cup {"WAIT_REJECT_REQ"}
    BY <1>1, <1>4 DEF WInv, ResetHeard, Pausing
  <2> QED
    BY <2>1, <2>2, FallsSilent
<1>5. CASE /\ told.code = "STACK" => ~LineIn(Stacks)
           /\ UNCHANGED <<line, main_mbx>>
  <2>1. Lining /\ Apart' = Apart /\ LineIn(Stacks)' = LineIn(Stacks) /\ HostOwes' = HostOwes
    BY <1>1, <1>5, LiningSends DEF Apart, LineIn, HostOwes
  <2>2. LineIn(Stacks) => \A sub \in {"REJECT", "ENTRY_ON", "VEND"} : ~Coming(sub)
    BY <1>1, <1>5, TakenNext DEF Pausing
  <2>3. CASE Apart
    BY <1>5, <2>1, <2>3, StaysApart
  <2>4. CASE ~Apart
    <3>1. Stacking /\ mode \notin Requests \cup RejectModes => LineIn(Stacks)
      BY <2>4 DEF WInv, Conversing
    <3>2. line'.second = line.second
      BY <1>5
    <3> QED
      BY <2>1, <2>2, <2>4, <3>1, <3>2, Converses
  <2> QED
    BY <2>3, <2>4
<1>6. \/ told.code = "STACK" /\ LineIn(Stacks) /\ stack_rsp_mode_stack
      \/ told.code = "STACK" /\ LineIn(Credited) /\ stack_rsp_credited
      \/ told.code # "STACK" /\ ToError /\ UNCHANGED main_mbx
      \/ (told.code = "STACK" => ~LineIn(Stacks)) /\ UNCHANGED <<line, main_mbx>>
  BY DEF LineReads, LineIn
<1> QED
  BY <1>2, <1>3, <1>4, <1>5, <1>6

\* The host finds the line task with nothing to read.
LEMMA NothingComes ==
  ASSUME line_mbx = << >> PROVE \A sub : ~Coming(sub)
BY DEF Coming

LEMMA HostPollsWaits == ASSUME IInv, WInv, HostPolls PROVE WInv'
<1>1. /\ LineSide /\ line_mbx = << >> /\ Tidings' \subseteq Tidings /\ line \in Lines
      /\ \A sub : ~Coming(sub)
  BY NothingComes DEF HostPolls, hostvars, LineSide, options, mvars, Tidings, IInv, Types
<1>2. UNCHANGED main_mbx => Lining
  BY <1>1, LiningSends
<1>3. Stacking /\ ~Apart /\ ~LineIn(Stacks) => mode \in Requests \cup RejectModes
  BY DEF WInv, Conversing
<1>4. CASE LineIn({"wait_pause"}) /\ Goes("pause") /\ UNCHANGED main_mbx
  <2>1. line'.mode = "pause" /\ line'.second = line.second
    BY <1>1, <1>4 DEF Goes, Lines
  <2>2. ~Apart /\ ~Apart' /\ LineIn(Stacks)' /\ ~HostOwes
    BY <1>4, <2>1 DEF Apart, LineIn, Stacks, HostOwes
  <2> QED
    BY <1>1, <1>2, <1>4, <2>1, <2>2, Converses
<1>5. CASE \/ LineIn({"vend"}) /\ Goes("wait_ack") /\ UNCHANGED main_mbx
           \/ LineIn({"vend_full"}) /\ Goes("wait_ack_full") /\ UNCHANGED main_mbx
  <2>1. /\ line'.mode \in {"wait_ack", "wait_ack_full"} /\ line'.second = line.second
        /\ line.mode = "vend" => line'.mode = "wait_ack"
    BY <1>1, <1>5 DEF Goes, Lines, LineIn
  <2>2. ~Apart /\ ~Apart' /\ ~LineIn(Stacks) /\ (HostOwes => HostOwes')
    BY <1>5, <2>1 DEF Apart, LineIn, Stacks, HostOwes
  <2> QED
    BY <1>1, <1>2, <1>3, <1>5, <2>1, <2>2, Converses
<1>6. LineIn({"stacked", "stacked_full"}) =>
        /\ ~Apart /\ ~LineIn(Stacks)
        /\ mode \notin FeedModes \cup {"WAIT_REJECT_REQ"}
  <2> SUFFICES ASSUME LineIn({"stacked", "stacked_full"})
               PROVE  ~Apart /\ ~LineIn(Stacks) /\ mode \notin FeedModes \cup {"WAIT_REJECT_REQ"}
    OBVIOUS
  <2>1. Told /\ ~Apart /\ ~LineIn(Stacks)
    BY DEF Told, LineIn, Credited, Apart, Stacks
  <2> QED
    BY <2>1 DEF IInv, CreditTold, Stacking, StackModes, FeedModes
<1>7. CASE LineIn({"stacked", "stacked_full"}) /\ ToError /\ UNCHANGED main_mbx
  <2>1. Apart'
    BY <1>7 DEF ToError, Apart, LineIn
  <2> QED
    BY <1>2, <1>6, <1>7, <2>1, FallsSilent
<1>8. CASE /\ LineIn({"stacked"}) /\ Goes("done")
           /\ IF line.second THEN UNCHANGED main_mbx ELSE Send(Msg("ENABLE", "none", "OTHER"))
  <2>1. line'.mode = "done" /\ line'.second = line.second
    BY <1>1, <1>8 DEF Goes, Lines
  <2>2. ~Apart /\ ~Apart' /\ ~LineIn(Stacks)
    BY <1>6, <1>8, <2>1 DEF Apart, LineIn
  <2>3. Stacking /\ line.second => mode = "WAIT_REQ_FIRST"
    BY <2>2 DEF WInv, Conversing
  <2>4. Lining /\ (line.second \/ InMail("ENABLE")')
    BY <1>1, <1>2, <1>8, LiningSends, LineCodeNames
  <2> QED
    BY <1>1, <1>3, <2>1, <2>2, <2>3, <2>4, Converses
<1> QED
  BY <1>4, <1>5, <1>7, <1>8 DEF HostPolls, LineIn

LEMMA HostAcksWaits == ASSUME IInv, WInv, HostAcks PROVE WInv'
<1>1. /\ LineSide /\ line_mbx = << >> /\ Tidings' \subseteq Tidings /\ line \in Lines
      /\ \A sub : ~Coming(sub)
  BY NothingComes DEF HostAcks, hostvars, LineSide, options, mvars, Tidings, IInv, Types
<1>2. Lining
  BY <1>1, LiningSends, LineCodeNames DEF HostAcks
<1>3. /\ line.mode \in {"wait_ack", "wait_ack_full"}
      /\ line'.mode \in {"stacked", "stacked_full"} /\ line'.second = line.second
      /\ line.mode = "wait_ack" => line'.mode = "stacked"
  BY <1>1 DEF HostAcks, Goes, Lines, LineIn
<1>4. ~Apart /\ ~Apart' /\ ~LineIn(Stacks) /\ (HostOwes => HostOwes')
  BY <1>3 DEF Apart, LineIn, Stacks, HostOwes
<1>5. Stacking => mode \in Requests \cup RejectModes
  BY <1>4 DEF WInv, Conversing
<1> QED
  BY <1>1, <1>2, <1>3, <1>4, <1>5, Converses

LEMMA HostResetsWaits == ASSUME IInv, WInv, HostResets PROVE WInv'
<1>1. LineSide /\ Tidings' \subseteq Tidings
  BY DEF HostResets, hostvars, LineSide, options, mvars, Tidings
<1>2. Lining /\ InMail("RESET")'
  BY <1>1, LiningSends, LineCodeNames DEF HostResets
<1>3. LineIn({"initial"})' /\ Apart'
  BY DEF HostResets, LineIn, Apart
<1> QED
  BY <1>2, <1>3, FallsSilent

LEMMA StepWaits == IInv /\ WInv /\ [Next]_vars => WInv'
<1> SUFFICES ASSUME IInv, WInv, [Next]_vars PROVE WInv'
  OBVIOUS
<1>1. CASE main
  BY <1>1, MainWaits
<1>2. CASE \E d \in Devices \ {"STACKER"} : DeviceAnswers(d)
  BY <1>2, DeviceWaits
<1>3. CASE Feed \/ FeedPauses
  BY <1>3, FeedWaits
<1>4. CASE Stacker
  BY <1>4, StackerWaits
<1>5. CASE LineReads
  BY <1>5, LineReadsWaits
<1>6. CASE HostPolls
  BY <1>6, HostPollsWaits
<1>7. CASE HostAcks
  BY <1>7, HostAcksWaits
<1>8. CASE HostResets
  BY <1>8, HostResetsWaits
<1>9. CASE Faults
  BY <1>9, FaultsWait
<1>10. CASE NextNoteEnters \/ UNCHANGED vars
  <2>1. Beyond /\ UNCHANGED <<work, main_mbx>>
    BY <1>10 DEF NextNoteEnters, vars, mvars, lvars, Beyond
  <2> QED
    BY <2>1, SilenceWaits
<1> QED
  BY <1>1, <1>2, <1>3, <1>4, <1>5, <1>6, <1>7, <1>8, <1>9, <1>10 DEF Next

LEMMA InitWaits == Init => WInv
<1> SUFFICES ASSUME Init PROVE WInv
  OBVIOUS
<1>1. main_mbx = << >> /\ line_mbx = << >> /\ Posted = {} /\ Tidings = {}
  BY DEF Init, MainInit, Posted, Tidings
<1>2. /\ mode \in FeedModes /\ mode \notin Requests \cup RejectModes /\ job.busy = {"FEED"}
      /\ "FEED_APB" \in Fits[mode]
      /\ \A d \in Devices : work[d] = IF d = "FEED" THEN "FEED_APB" ELSE "none"
      /\ line.mode = "stack" /\ line.second = FALSE
  BY DEF Init, MainInit, FeedModes, Requests, RejectModes, NoJob, Fits
<1>3. Owed /\ Fitting
  BY <1>1, <1>2, DeviceNames DEF Owed, Fitting
<1>4. Conversing /\ ResetHeard
  BY <1>1, <1>2 DEF Conversing, ResetHeard, Apart, LineIn, Stacks, Requests, RejectModes
<1> QED
  BY <1>3, <1>4 DEF WInv

\* What main waits for is on its way: the second half of the invariant.
THEOREM WaitInvariance == Safety => [](IInv /\ WInv)
<1> QED
  BY InitInv, InitWaits, StepInv, StepWaits, PTL DEF Safety

\* A device that ex_multi_job.busy counts has the request or has put its answer
\* into the mailbox, and where main waits for no word of the line task, there is
\* such a device: no answer is lost, and none is waited for that never comes.
THEOREM AnswersCome == Safety => []Owed
<1>1. IInv /\ WInv => Owed
  BY DEF WInv
<1> QED
  BY <1>1, WaitInvariance, PTL

\* Nothing to read, no device at work: then main waits for the host, in WAIT_REQ,
\* whose credit the line task still has to have acknowledged; or for a line task
\* that a reset took away.
AwaitsHost ==
  /\ Stacking /\ main_mbx = << >> /\ line_mbx = << >>
  /\ \A d \in Devices : work[d] = "none"
  => Forgotten \/ (mode = "WAIT_REQ" /\ HostOwes)

\* The safety half of Finishes: the stacking stands still only where the host
\* has to go on, or where the reset was lost (mode_stack_uba.c, feed_stack).
THEOREM NoVainWait == Safety => []AwaitsHost
<1>1. IInv /\ WInv => AwaitsHost
  <2> SUFFICES ASSUME IInv, WInv, Stacking, main_mbx = << >>, line_mbx = << >>,
                      \A d \in Devices : work[d] = "none"
               PROVE  Forgotten \/ (mode = "WAIT_REQ" /\ HostOwes)
    BY DEF AwaitsHost
  <2>1. /\ Posted = {} /\ \A sub : ~Coming(sub)
        /\ \A code : ~InMail(code) /\ \A d \in Devices : ~Answered(d)
        /\ job.busy \subseteq Devices
    BY DEF Posted, Coming, InMail, Answered, IInv, Types, Jobs
  <2>2. mode \in Requests
    BY <2>1 DEF WInv, Owed
  <2>3. CASE Apart
    <3>1. mode # "WAIT_REJECT_REQ"
      BY <2>1, <2>3 DEF WInv, ResetHeard, IInv, ResetKnown
    <3> QED
      BY <2>2, <2>3, <3>1 DEF Requests, Forgotten, Apart, LineIn
  <2>4. CASE ~Apart
    BY <2>1, <2>2, <2>4 DEF WInv, Conversing, Requests
  <2> QED
    BY <2>3, <2>4
<1> QED
  BY <1>1, WaitInvariance, PTL

-----------------------------------------------------------------------------
(* Every answer has a case.                                                  *)

DeviceCodes == Codes \ (LineCodes \cup {"STACK", "ACCEPT"})

\* What a device may say of a request.
Sayable(msg) ==
  \/ msg.sub \in {"SUCCESS", "ALARM"}
  \/ msg.sub = "REJECT" /\ msg.code \in {"FEED_APB", "STACKER_EXEC"}
  \/ msg.sub \in {"PAUSE", "RESUME"} /\ msg.code = "FEED_APB"
  \/ msg.sub = "START" /\ msg.code = "STACKER_EXEC"
  \/ msg.sub = "ENABLE_NEXT" /\ msg.code = "STACKER_PULL"

Unstruck == \A msg \in Posted : msg.code # "STACKER_EXEC"

\* The first that main hears of the stroke is that it began, or an alarm.
BeginsWell ==
  \E i \in 1 .. Len(main_mbx) :
    /\ main_mbx[i].code = "STACKER_EXEC" /\ main_mbx[i].sub \in {"START", "ALARM"}
    /\ \A k \in 1 .. Len(main_mbx) : k < i => main_mbx[k].code # "STACKER_EXEC"

\* Where main waits for the START of the stroke, it comes before the end of it.
Started ==
  /\ \A msg \in Posted : msg.code \in DeviceCodes => Sayable(msg)
  /\ work["STACKER"] = "none" => stacker.seq = "new"
  /\ mode \in FeedModes => Unstruck
  /\ mode = "WAIT_STACK_START" =>
       \/ stacker.seq \in {"new", "back"} /\ work["STACKER"] = "STACKER_EXEC" /\ Unstruck
       \/ BeginsWell

SInv == IInv /\ WInv /\ Started

LEMMA BeginsOn ==
  ASSUME Types, NEW x \in Messages, Send(x)
  PROVE  /\ BeginsWell => BeginsWell'
         /\ Unstruck /\ x.code = "STACKER_EXEC" /\ x.sub \in {"START", "ALARM"} => BeginsWell'
         /\ Unstruck /\ x.code # "STACKER_EXEC" => Unstruck'
<1>1. main_mbx \in Seq(Messages) /\ main_mbx' = Append(main_mbx, x) /\ Len(main_mbx) \in Nat
  BY LenProperties DEF Types, Send
<1>2. /\ Len(main_mbx') = Len(main_mbx) + 1
      /\ \A i \in 1 .. Len(main_mbx) : main_mbx'[i] = main_mbx[i]
      /\ main_mbx'[Len(main_mbx) + 1] = x
  BY <1>1, AppendProperties
<1>3. ASSUME BeginsWell PROVE BeginsWell'
  <2>1. PICK i \in 1 .. Len(main_mbx) :
          /\ main_mbx[i].code = "STACKER_EXEC" /\ main_mbx[i].sub \in {"START", "ALARM"}
          /\ \A k \in 1 .. Len(main_mbx) : k < i => main_mbx[k].code # "STACKER_EXEC"
    BY <1>3 DEF BeginsWell
  <2>2. i \in 1 .. Len(main_mbx') /\ main_mbx'[i] = main_mbx[i]
    BY <1>1, <1>2
  <2>3. ASSUME NEW k \in 1 .. Len(main_mbx'), k < i PROVE main_mbx'[k].code # "STACKER_EXEC"
    <3>1. k \in 1 .. Len(main_mbx) /\ main_mbx'[k] = main_mbx[k]
      BY <1>1, <1>2, <2>3
    <3> QED
      BY <2>1, <2>3, <3>1
  <2> QED
    BY <2>1, <2>2, <2>3 DEF BeginsWell
<1>4. ASSUME Unstruck, x.code = "STACKER_EXEC", x.sub \in {"START", "ALARM"} PROVE BeginsWell'
  <2> DEFINE i == Len(main_mbx) + 1
  <2>1. i \in 1 .. Len(main_mbx') /\ main_mbx'[i] = x
    BY <1>1, <1>2
  <2>2. ASSUME NEW k \in 1 .. Len(main_mbx'), k < i PROVE main_mbx'[k].code # "STACKER_EXEC"
    <3>1. k \in 1 .. Len(main_mbx) /\ main_mbx'[k] = main_mbx[k]
      BY <1>1, <1>2, <2>2
    <3> QED
      BY <1>4, <3>1 DEF Unstruck, Posted
  <2> HIDE DEF i
  <2> QED
    BY <1>4, <2>1, <2>2 DEF BeginsWell
<1>5. Unstruck /\ x.code # "STACKER_EXEC" => Unstruck'
  BY Sent DEF Unstruck
<1> QED
  BY <1>3, <1>4, <1>5

LEMMA BeginsRead ==
  ASSUME Types, main_mbx # << >>, main_mbx' = Tail(main_mbx), BeginsWell
  PROVE  /\ m.code = "STACKER_EXEC" => m.sub \in {"START", "ALARM"}
         /\ m.code # "STACKER_EXEC" => BeginsWell'
<1>1. main_mbx \in Seq(Messages)
  BY DEF Types
<1>2. /\ main_mbx' \in Seq(Messages) /\ Len(main_mbx') = Len(main_mbx) - 1
      /\ Len(main_mbx) \in Nat /\ Len(main_mbx) >= 1
      /\ \A i \in 1 .. Len(main_mbx') : main_mbx'[i] = main_mbx[i + 1]
      /\ m = main_mbx[1]
  BY <1>1, HeadTailProperties, EmptySeq, LenProperties DEF m
<1>3. PICK i \in 1 .. Len(main_mbx) :
        /\ main_mbx[i].code = "STACKER_EXEC" /\ main_mbx[i].sub \in {"START", "ALARM"}
        /\ \A k \in 1 .. Len(main_mbx) : k < i => main_mbx[k].code # "STACKER_EXEC"
  BY DEF BeginsWell
<1>4. CASE i = 1
  BY <1>2, <1>3, <1>4
<1>5. CASE i # 1
  <2>1. i - 1 \in 1 .. Len(main_mbx') /\ (i - 1) + 1 = i /\ 1 < i /\ 1 \in 1 .. Len(main_mbx)
    BY <1>2, <1>5
  <2>2. main_mbx'[i - 1] = main_mbx[i] /\ m.code # "STACKER_EXEC"
    BY <1>2, <1>3, <2>1
  <2>3. ASSUME NEW k \in 1 .. Len(main_mbx'), k < i - 1
        PROVE  main_mbx'[k].code # "STACKER_EXEC"
    <3>1. k + 1 \in 1 .. Len(main_mbx) /\ k + 1 < i /\ main_mbx'[k] = main_mbx[k + 1]
      BY <1>2, <2>3
    <3> QED
      BY <1>3, <3>1
  <2>4. BeginsWell'
    BY <1>3, <2>1, <2>2, <2>3 DEF BeginsWell
  <2> QED
    BY <2>2, <2>4
<1> QED
  BY <1>4, <1>5

\* The ways a handler ends, but for feed_stack, do not lead to WAIT_STACK_START.
Elsewhere == mode' # "WAIT_STACK_START"

LEMMA EndsElsewhere ==
  ASSUME mode # "WAIT_STACK_START"
  PROVE  /\ \A j : Stay(j) => Elsewhere
         /\ \A j : Finish(j) => Elsewhere
         /\ \A j : PullBack(j) => Elsewhere
         /\ \A j : Boxed(j) => Elsewhere
         /\ \A j : ToIcb(j) => Elsewhere
         /\ \A j : StackerFull(j) => Elsewhere
         /\ \A j : RetryInformed(j) => Elsewhere
         /\ \A j, code : AlarmSub(j, code) => Elsewhere
         /\ \A j, code : InitOrAlarm(j, code) => Elsewhere
         /\ \A j, r : Retry(j, r) => Elsewhere
         /\ \A j, next : Credit(j, next) => Elsewhere \/ mode' = next
         /\ \A next, j, d, r, s : Proceed(next, j, d, r, s) => mode' = next
         /\ \A d : DeviceAlarm(d) => Elsewhere
         /\ \A cases : Default(cases) => Elsewhere
         /\ Flag \/ SetInit \/ StatusOrInit \/ StatusAlarm \/ set_accept => Elsewhere
         /\ \A j, conn, code, s, words : AlarmAfter(j, conn, code, s, words) => Elsewhere
<1>1. /\ \A j : Stay(j) => Elsewhere
      /\ \A next, j, d, r, s : Proceed(next, j, d, r, s) => mode' = next
      /\ \A s, words : SetInitAfter(s, words) => Elsewhere
      /\ \A j, conn, code, s, words : AlarmAfter(j, conn, code, s, words) => Elsewhere
      /\ Flag => Elsewhere
  BY DEF Stay, Proceed, SetInitAfter, AlarmAfter, Flag, Elsewhere
<1>2. /\ SetInit => Elsewhere
      /\ \A j, code : AlarmSub(j, code) => Elsewhere
  BY <1>1 DEF SetInit, AlarmSub
<1>3. \A j, code : InitOrAlarm(j, code) => Elsewhere
  BY <1>2 DEF InitOrAlarm
<1>4. /\ \A d : DeviceAlarm(d) => Elsewhere
      /\ \A cases : Default(cases) => Elsewhere
      /\ StatusOrInit \/ StatusAlarm => Elsewhere
  BY <1>1, <1>2, <1>3 DEF DeviceAlarm, Default, StatusOrInit, StatusAlarm
<1>5. set_accept => Elsewhere
  BY <1>1 DEF set_accept, Elsewhere
<1>6. /\ \A j, r : Retry(j, r) => Elsewhere
      /\ \A j : ToIcb(j) => Elsewhere
  BY <1>1 DEF Retry, ToIcb, Elsewhere
<1>7. \A j, next : Credit(j, next) => Elsewhere \/ mode' = next
  BY <1>1 DEF Credit
<1>8. \A j : Boxed(j) => Elsewhere
  BY <1>1, <1>7 DEF Boxed, Elsewhere
<1>9. ASSUME NEW j, finish_stacker_pb_icb(j) PROVE Elsewhere
  <2>1. SetInit \/ AlarmSub(j, "OTHER") \/ RetryRejected(j) \/ AlarmSub(j, "BOX") \/ Pull(j)
    BY <1>9 DEF finish_stacker_pb_icb
  <2> QED
    BY <1>1, <1>2, <1>6, <2>1 DEF RetryRejected, Pull, Elsewhere
<1>10. \A j : Finish(j) => Elsewhere
  BY <1>1, <1>9 DEF Finish, IfLast
<1>11. \A j : PullBack(j) => Elsewhere
  BY <1>2, <1>6 DEF PullBack
<1>12. /\ \A j : StackerFull(j) => Elsewhere
       /\ \A j : RetryInformed(j) => Elsewhere
  BY <1>1, <1>3, <1>6, <1>8 DEF StackerFull, RetryInformed
<1> QED
  BY <1>1, <1>2, <1>3, <1>4, <1>5, <1>6, <1>7, <1>8, <1>10, <1>11, <1>12

\* Main comes to WAIT_STACK_START with the request for the stroke, and leaves it
\* with what it hears of it.
LEMMA Striking ==
  ASSUME stack_msg_proc, mode' = "WAIT_STACK_START"
  PROVE  \/ mode = "WAIT_STACK_START" /\ UNCHANGED work /\ m.code # "STACKER_EXEC"
         \/ mode = "FEED_STACK" /\ work' = [work EXCEPT !["STACKER"] = "STACKER_EXEC"]
<1> USE EndsElsewhere DEF Elsewhere
<1>1. CASE mode = "WAIT_STACK_START"
  <2>1. wait_stack_start
    BY <1>1 DEF stack_msg_proc
  <2>2. /\ ~SetInit /\ \A j, code : ~AlarmSub(j, code) /\ ~InitOrAlarm(j, code)
        /\ ~StatusOrInit
        /\ \A j, d, r, s : ~Proceed("WAIT_STACK_TOP", j, d, r, s)
    BY DEF SetInit, SetInitAfter, AlarmSub, AlarmAfter, InitOrAlarm, StatusOrInit, Proceed
  <2> QED
    BY <1>1, <2>1, <2>2 DEF wait_stack_start, Flag, Default, Stay
<1>2. CASE mode = "FEED_STACK"
  <2>1. feed_stack
    BY <1>2 DEF stack_msg_proc
  <2>2. ~feeding
    BY <1>2 DEF feeding, RejectSub
  <2> QED
    BY <1>2, <2>1, <2>2 DEF feed_stack, feed_reset
<1>3. CASE mode = "FEED_STACK_LOW" /\ feed_stack_low
  <2>1. ~feeding
    BY <1>3 DEF feeding, RejectSub
  <2> QED
    BY <1>3, <2>1 DEF feed_stack_low, feed_reset
<1>4. CASE mode = "WAIT_STACK_TOP" /\ stack_wait_stack_top
  BY <1>4 DEF stack_wait_stack_top
<1>5. CASE mode = "STACK_HOME" /\ stack_wait_stack_home
  BY <1>5 DEF stack_wait_stack_home
<1>6. CASE mode = "WAIT_REQ_FIRST" /\ stack_wait_req_first
  BY <1>6 DEF stack_wait_req_first
<1>7. CASE mode = "STACK_RETRY" /\ stack_exec_retry
  BY <1>7 DEF stack_exec_retry
<1>8. CASE mode = "FEED_REV_REQ" /\ stack_feed_rev_req
  BY <1>8 DEF stack_feed_rev_req
<1>9. CASE mode = "WAIT_REQ" /\ stack_wait_req
  BY <1>9 DEF stack_wait_req
<1>10. CASE mode = "WAIT_REJECT_REQ" /\ stack_wait_reject_req
  BY <1>10 DEF stack_wait_reject_req
<1>11. CASE mode = "WAIT_REJECT_SHUTTER_OPEN" /\ stack_wait_reject_shutter_open
  BY <1>11 DEF stack_wait_reject_shutter_open
<1> QED
  BY <1>1, <1>2, <1>3, <1>4, <1>5, <1>6, <1>7, <1>8, <1>9, <1>10, <1>11 DEF stack_msg_proc

LEMMA MainStarts == ASSUME SInv, main PROVE Started'
<1>1. /\ IInv /\ WInv /\ Started /\ Types /\ stack_msg_proc /\ Stacking /\ Handled
      /\ main_mbx # << >> /\ main_mbx' = Tail(main_mbx) /\ UNCHANGED stacker
      /\ Posted' \subseteq Posted
  BY EveryHandler, Read DEF SInv, IInv, main, stack_msg_proc
<1>2. \A msg \in Posted' : msg.code \in DeviceCodes => Sayable(msg)
  BY <1>1 DEF Started
<1>3. work'["STACKER"] = "none" => work["STACKER"] = "none"
  BY <1>1, DeviceNames DEF Handled, Asking, Asked
<1>4. (Unstruck => Unstruck') /\ (mode' \in FeedModes => mode \in FeedModes)
  BY <1>1 DEF Unstruck, Handled, Placing
<1>5. ASSUME mode' = "WAIT_STACK_START"
      PROVE  \/ stacker.seq \in {"new", "back"} /\ work'["STACKER"] = "STACKER_EXEC" /\ Unstruck'
             \/ BeginsWell'
  <2>1. CASE mode = "WAIT_STACK_START" /\ UNCHANGED work /\ m.code # "STACKER_EXEC"
    BY <1>1, <1>4, <2>1, BeginsRead DEF Started
  <2>2. CASE mode = "FEED_STACK" /\ work' = [work EXCEPT !["STACKER"] = "STACKER_EXEC"]
    <3>1. work["STACKER"] \in Asked["STACKER"] \cup {"none"} /\ "STACKER" \in DOMAIN work
      BY <1>1, DeviceNames DEF Types
    <3>2. work["STACKER"] \in {"FEED_APB", "none"}
      BY <1>1, <2>2, DeviceNames DEF WInv, Fitting, Fits
    <3>3. work["STACKER"] = "none" /\ work'["STACKER"] = "STACKER_EXEC"
      BY <2>2, <3>1, <3>2 DEF Asked
    <3> QED
      BY <1>1, <1>4, <2>2, <3>3 DEF Started, FeedModes
  <2> QED
    BY <1>1, <1>5, <2>1, <2>2, Striking
<1> QED
  BY <1>1, <1>2, <1>3, <1>4, <1>5 DEF Started

\* A step beside main that says x: the stroke is new, or x tells that it began.
LEMMA SaysStart ==
  ASSUME IInv, Started, mode' = mode, NEW x \in Messages, Send(x),
         x.code \in DeviceCodes => Sayable(x),
         work'["STACKER"] = "none" => stacker'.seq = "new",
         mode \in FeedModes => x.code # "STACKER_EXEC",
         mode = "WAIT_STACK_START" /\ stacker.seq \in {"new", "back"} /\ work["STACKER"] = "STACKER_EXEC" =>
           \/ x.code = "STACKER_EXEC" /\ x.sub \in {"START", "ALARM"}
           \/ /\ x.code # "STACKER_EXEC"
              /\ stacker'.seq \in {"new", "back"} /\ work'["STACKER"] = "STACKER_EXEC"
  PROVE  Started'
<1>1. Types /\ Posted' = Posted \cup {x}
  BY Sent DEF IInv
<1>2. /\ BeginsWell => BeginsWell'
      /\ Unstruck /\ x.code = "STACKER_EXEC" /\ x.sub \in {"START", "ALARM"} => BeginsWell'
      /\ Unstruck /\ x.code # "STACKER_EXEC" => Unstruck'
  BY <1>1, BeginsOn
<1>3. \A msg \in Posted' : msg.code \in DeviceCodes => Sayable(msg)
  BY <1>1 DEF Started
<1>4. mode' \in FeedModes => Unstruck'
  BY <1>2 DEF Started
<1>5. ASSUME mode' = "WAIT_STACK_START"
      PROVE  \/ stacker'.seq \in {"new", "back"} /\ work'["STACKER"] = "STACKER_EXEC" /\ Unstruck'
             \/ BeginsWell'
  BY <1>2, <1>5 DEF Started
<1> QED
  BY <1>3, <1>4, <1>5 DEF Started

LEMMA SilentStart ==
  ASSUME Started, UNCHANGED <<mode, main_mbx>>,
         work'["STACKER"] = work["STACKER"],
         work["STACKER"] = "none" => stacker'.seq = "new",
         work["STACKER"] = "STACKER_EXEC" /\ stacker.seq \in {"new", "back"} =>
           stacker'.seq \in {"new", "back"}
  PROVE  Started'
<1>1. Posted' = Posted /\ BeginsWell' = BeginsWell /\ Unstruck' = Unstruck
  BY DEF Posted, BeginsWell, Unstruck
<1> QED
  BY <1>1 DEF Started

\* What is not the stacker's.
LEMMA AsideStart ==
  ASSUME IInv, Started, UNCHANGED <<mode, stacker>>, work'["STACKER"] = work["STACKER"],
         NEW x \in Messages, Send(x), x.code # "STACKER_EXEC",
         x.code \in DeviceCodes => Sayable(x)
  PROVE  Started'
<1>1. work'["STACKER"] = "none" => stacker'.seq = "new"
  BY DEF Started
<1> QED
  BY <1>1, SaysStart

\* What the stacker does and says in a step of a stroke or a pull.
Stroke ==
  \/ /\ UNCHANGED <<work, main_mbx>>
     /\ work["STACKER"] = "STACKER_EXEC" /\ stacker.seq \in {"new", "back"} =>
          stacker'.seq \in {"new", "back"}
  \/ \E sub \in {"SUCCESS", "REJECT", "ALARM"} : \E arg \in Alarms :
       /\ Answer("STACKER", sub, arg) /\ stacker'.seq = "new"
       /\ sub = "REJECT" => work["STACKER"] = "STACKER_EXEC"
       /\ work["STACKER"] = "STACKER_EXEC" /\ stacker.seq \in {"new", "back"} => sub = "ALARM"
  \/ Send(Msg("STACKER_EXEC", "START", "OTHER")) /\ UNCHANGED work /\ work["STACKER"] \in Pushes
  \/ Send(Msg("STACKER_PULL", "ENABLE_NEXT", "OTHER")) /\ UNCHANGED work
     /\ work["STACKER"] = "STACKER_PULL"

LEMMA StrokeParts ==
  ASSUME stacker \in Strokes
  PROVE  /\ \A arg \in {"OTHER", stacker.cause} : Ends("ALARM", arg) => Stroke
         /\ \A arg \in {"OTHER", stacker.cause} :
              Ends("SUCCESS", arg) /\ (work["STACKER"] = "STACKER_EXEC" => stacker.seq = "top") => Stroke
         /\ \A seq : Turn(seq) /\ (work["STACKER"] = "STACKER_EXEC" /\ stacker.seq \in {"new", "back"} =>
                                     seq \in {"new", "back"}) => Stroke
         /\ \A seq : HomeCount(seq) /\ (work["STACKER"] = "STACKER_EXEC" => seq = "new") => Stroke
         /\ \A cause : PushFails(cause) /\ stacker.seq \notin {"new", "back"} => Stroke
<1>0. stacker.cause \in Alarms /\ "OTHER" \in Alarms
  BY DEF Strokes, Alarms
<1>1. ASSUME NEW sub \in {"SUCCESS", "REJECT", "ALARM"}, NEW arg \in {"OTHER", stacker.cause},
             Ends(sub, arg), sub = "REJECT" => work["STACKER"] = "STACKER_EXEC",
             work["STACKER"] = "STACKER_EXEC" /\ stacker.seq \in {"new", "back"} => sub = "ALARM"
      PROVE  Stroke
  <2>1. arg \in Alarms /\ Answer("STACKER", sub, arg) /\ stacker'.seq = "new"
    BY <1>0, <1>1 DEF Ends, NewStacker
  <2> QED
    BY <1>1, <2>1 DEF Stroke
<1>2. \A arg \in {"OTHER", stacker.cause} : Ends("ALARM", arg) => Stroke
  BY <1>1
<1>3. ASSUME NEW arg \in {"OTHER", stacker.cause}, Ends("SUCCESS", arg),
             work["STACKER"] = "STACKER_EXEC" => stacker.seq = "top"
      PROVE  Stroke
  BY <1>1, <1>3
<1>4. ASSUME NEW seq, Turn(seq),
             work["STACKER"] = "STACKER_EXEC" /\ stacker.seq \in {"new", "back"} =>
               seq \in {"new", "back"}
      PROVE  Stroke
  <2>1. stacker'.seq = seq /\ UNCHANGED <<work, main_mbx>>
    BY <1>4 DEF Turn, Strokes
  <2> QED
    BY <1>4, <2>1 DEF Stroke
<1>5. ASSUME NEW seq, HomeCount(seq), work["STACKER"] = "STACKER_EXEC" => seq = "new" PROVE Stroke
  <2>1. CASE Ends("ALARM", "OTHER")
    BY <1>2, <2>1
  <2>2. CASE /\ stacker' = [stacker EXCEPT !.seq = seq, !.homes = @ + 1, !.cause = "OTHER"]
             /\ UNCHANGED <<main_mbx, work>>
    <3>1. stacker'.seq = seq
      BY <2>2 DEF Strokes
    <3> QED
      BY <1>5, <2>2, <3>1 DEF Stroke
  <2> QED
    BY <1>5, <2>1, <2>2 DEF HomeCount
<1>6. ASSUME NEW cause, PushFails(cause), stacker.seq \notin {"new", "back"} PROVE Stroke
  <2>1. CASE work["STACKER"] = "STACKER_EXEC" /\ Ends("REJECT", "OTHER")
    BY <1>1, <1>6, <2>1
  <2>2. CASE work["STACKER"] # "STACKER_EXEC" /\ UNCHANGED <<main_mbx, work>>
    BY <2>2 DEF Stroke
  <2> QED
    BY <1>6, <2>1, <2>2 DEF PushFails
<1> QED
  BY <1>2, <1>3, <1>4, <1>5, <1>6

LEMMA StackerStrikes == ASSUME IInv, Stacker PROVE Stroke
<1>1. stacker \in Strokes
  BY StackerState
<1>2. CASE StackerStarts
  <2>1. CASE Send(Msg("STACKER_EXEC", "START", "OTHER")) /\ UNCHANGED work
    BY <1>2, <2>1 DEF StackerStarts, StackerIn, Works, Stroke
  <2>2. CASE Turn(IF work["STACKER"] = "STACKER_EXEC" THEN "back" ELSE "again")
    BY <1>1, <2>2, StrokeParts
  <2> QED
    BY <1>2, <2>1, <2>2 DEF StackerStarts
<1>3. CASE StackerLeaves \/ StackerSticks \/ StackerTops
  <2>1. stacker.seq \in {"leaving", "pushing"}
    BY <1>3 DEF StackerLeaves, StackerSticks, StackerTops, StackerIn
  <2>2. (\E seq : Turn(seq)) \/ (\E cause : PushFails(cause))
    BY <1>3 DEF StackerLeaves, StackerSticks, StackerTops
  <2> QED
    BY <1>1, <2>1, <2>2, StrokeParts
<1>4. CASE StackerStops
  <2>1. stacker.seq = "top"
    BY <1>4 DEF StackerStops, StackerIn
  <2>2. (\E cause : PushFails(cause)) \/ Ends("SUCCESS", "OTHER") \/ Turn("returning")
    BY <1>4 DEF StackerStops
  <2> QED
    BY <1>1, <2>1, <2>2, StrokeParts
<1>5. CASE StackerBacks
  <2>1. HomeCount("new")
    BY <1>5 DEF StackerBacks
  <2> QED
    BY <1>1, <2>1, StrokeParts
<1>6. CASE StackerReturns \/ StackerRetries \/ StackerPulls
  <2>1. work["STACKER"] # "STACKER_EXEC"
    BY <1>6 DEF StackerReturns, StackerRetries, StackerPulls, StackerIn, Works, Pulls
  <2>2. \/ \E sub \in {"SUCCESS", "ALARM"} : \E arg \in {"OTHER", stacker.cause} : Ends(sub, arg)
        \/ \E seq : Turn(seq) \/ HomeCount(seq)
        \/ /\ Send(Msg("STACKER_PULL", "ENABLE_NEXT", "OTHER")) /\ UNCHANGED work
           /\ work["STACKER"] = "STACKER_PULL"
    BY <1>6 DEF StackerReturns, StackerRetries, StackerPulls
  <2>3. (\E sub \in {"SUCCESS", "ALARM"} : \E arg \in {"OTHER", stacker.cause} : Ends(sub, arg)) => Stroke
    BY <1>1, <2>1, StrokeParts
  <2>4. (\E seq : Turn(seq) \/ HomeCount(seq)) => Stroke
    BY <1>1, <2>1, StrokeParts
  <2> QED
    BY <2>2, <2>3, <2>4 DEF Stroke
<1>7. CASE StackerAlarms
  BY <1>1, <1>7, StrokeParts DEF StackerAlarms
<1> QED
  BY <1>2, <1>3, <1>4, <1>5, <1>6, <1>7 DEF Stacker

LEMMA StackerSaysStart == ASSUME SInv, Stacker PROVE Started'
<1> USE DEF SInv
<1>1. /\ Stacking /\ UNCHANGED <<mode, job>> /\ work["STACKER"] # "none" /\ Stroke
      /\ Types /\ "STACKER" \in Devices
  BY StackerSpeaks, StackerStrikes, DeviceNames DEF Beyond, IInv
<1>2. /\ mode \notin FeedModes
      /\ mode = "WAIT_STACK_START" => work["STACKER"] = "STACKER_EXEC"
  <2>1. work["STACKER"] \in Fits[mode] /\ work["STACKER"] \in Asked["STACKER"]
    BY <1>1 DEF WInv, Fitting, Types
  <2> QED
    BY <2>1 DEF Fits, Asked, FeedModes
<1>3. CASE /\ UNCHANGED <<work, main_mbx>>
           /\ work["STACKER"] = "STACKER_EXEC" /\ stacker.seq \in {"new", "back"} =>
                stacker'.seq \in {"new", "back"}
  BY <1>1, <1>3, SilentStart
<1>4. ASSUME NEW sub \in {"SUCCESS", "REJECT", "ALARM"}, NEW arg \in Alarms,
             Answer("STACKER", sub, arg), stacker'.seq = "new",
             sub = "REJECT" => work["STACKER"] = "STACKER_EXEC",
             work["STACKER"] = "STACKER_EXEC" /\ stacker.seq \in {"new", "back"} => sub = "ALARM"
      PROVE  Started'
  <2>1. PICK x \in Messages :
          /\ Send(x) /\ x.sub = sub
          /\ x.code = IF work["STACKER"] = "STACKER_PULL_HALF" THEN "STACKER_PULL"
                      ELSE work["STACKER"]
    BY <1>1, <1>4, Replied
  <2>2. Sayable(x)
    BY <1>4, <2>1 DEF Sayable
  <2>3. mode = "WAIT_STACK_START" /\ stacker.seq \in {"new", "back"} /\ work["STACKER"] = "STACKER_EXEC" =>
          x.code = "STACKER_EXEC" /\ x.sub \in {"START", "ALARM"}
    BY <1>4, <2>1
  <2> QED
    BY <1>1, <1>2, <1>4, <2>1, <2>2, <2>3, SaysStart
<1>5. ASSUME NEW code \in {"STACKER_EXEC", "STACKER_PULL"}, NEW sub \in {"START", "ENABLE_NEXT"},
             Send(Msg(code, sub, "OTHER")), UNCHANGED work,
             \/ code = "STACKER_EXEC" /\ sub = "START"
             \/ code = "STACKER_PULL" /\ sub = "ENABLE_NEXT" /\ work["STACKER"] = "STACKER_PULL"
      PROVE  Started'
  <2> DEFINE x == Msg(code, sub, "OTHER")
  <2>1. x \in Messages /\ x.code = code /\ x.sub = sub
    <3>1. code \in Codes /\ sub \in Subs /\ "OTHER" \in Alarms
      BY DEF Codes, Subs, Alarms
    <3> QED
      BY <3>1, MsgType
  <2>2. Send(x)
    BY <1>5
  <2> HIDE DEF x
  <2>3. Sayable(x)
    BY <1>5, <2>1 DEF Sayable
  <2>4. mode = "WAIT_STACK_START" => x.code = "STACKER_EXEC" /\ x.sub = "START"
    BY <1>2, <1>5, <2>1
  <2> QED
    BY <1>1, <1>2, <1>5, <2>1, <2>2, <2>3, <2>4, SaysStart
<1>6. Send(Msg("STACKER_EXEC", "START", "OTHER")) /\ UNCHANGED work => Started'
  BY <1>5
<1>7. /\ Send(Msg("STACKER_PULL", "ENABLE_NEXT", "OTHER")) /\ UNCHANGED work
      /\ work["STACKER"] = "STACKER_PULL"
      => Started'
  BY <1>5
<1> QED
  BY <1>1, <1>3, <1>4, <1>6, <1>7 DEF Stroke

LEMMA FeedSaysStart == ASSUME SInv, Feed \/ FeedPauses PROVE Started'
<1> USE DEF SInv
<1>1. Feeds
  BY DEF Feed, FeedLeaves, FeedArrives, FeedEnds, FeedPauses, FeedResumes
<1>2. /\ Stacking /\ work["FEED"] = "FEED_APB" /\ "FEED" \in Devices /\ "OTHER" \in Alarms
      /\ UNCHANGED <<mode, job, stacker>>
  BY <1>1, FeedFacts DEF Alarms
<1>3. CASE FeedLeaves \/ FeedArrives
  <2>1. UNCHANGED <<mode, main_mbx, work, stacker>>
    BY <1>2, <1>3 DEF FeedLeaves, FeedArrives
  <2>2. work["STACKER"] = "none" => stacker'.seq = "new"
    BY <2>1 DEF Started
  <2> QED
    BY <2>1, <2>2, SilentStart
<1>4. CASE FeedEnds
  <2>1. PICK sub \in {"SUCCESS", "REJECT", "ALARM"} : Answer("FEED", sub, "OTHER")
    BY <1>4 DEF FeedEnds
  <2>2. PICK x \in Messages : Send(x) /\ x.sub = sub /\ x.code = "FEED_APB"
    BY <1>2, <2>1, Replied
  <2>3. work'["STACKER"] = work["STACKER"]
    BY <2>1, DeviceNames DEF Answer, IInv, Types
  <2>4. Sayable(x)
    BY <2>2 DEF Sayable
  <2> QED
    BY <1>2, <2>2, <2>3, <2>4, AsideStart
<1>5. CASE FeedPauses \/ FeedResumes
  <2>1. PICK sub \in {"PAUSE", "RESUME"} : Send(Msg("FEED_APB", sub, "OTHER"))
    BY <1>5 DEF FeedPauses, FeedResumes
  <2> DEFINE x == Msg("FEED_APB", sub, "OTHER")
  <2>2. x \in Messages /\ x.sub = sub /\ x.code = "FEED_APB"
    <3>1. "FEED_APB" \in Codes /\ sub \in Subs
      BY DEF Codes, Subs
    <3> QED
      BY <1>2, <3>1, MsgType
  <2>3. Send(x) /\ UNCHANGED work
    BY <1>5, <2>1 DEF FeedPauses, FeedResumes
  <2> HIDE DEF x
  <2>4. Sayable(x) /\ x.code # "STACKER_EXEC"
    BY <2>2 DEF Sayable
  <2> QED
    BY <1>2, <2>2, <2>3, <2>4, AsideStart
<1> QED
  BY <1>3, <1>4, <1>5 DEF Feed

LEMMA DeviceSaysStart ==
  ASSUME SInv, NEW d \in Devices \ {"STACKER"}, DeviceAnswers(d) PROVE Started'
<1> USE DEF SInv
<1>1. /\ Stacking /\ work[d] # "none" /\ work[d] \in Asked[d] /\ UNCHANGED <<mode, job, stacker>>
      /\ "OTHER" \in Alarms
  BY DeviceNames DEF DeviceAnswers, Works, Asked, mvars, Alarms
<1>2. PICK sub \in {"SUCCESS", "ALARM"} : Answer(d, sub, "OTHER")
  BY DEF DeviceAnswers
<1>3. PICK x \in Messages :
        /\ Send(x) /\ x.sub = sub
        /\ x.code = IF work[d] = "STACKER_PULL_HALF" THEN "STACKER_PULL" ELSE work[d]
  BY <1>1, <1>2, Replied
<1>4. x.code # "STACKER_EXEC" /\ Sayable(x)
  BY <1>1, <1>3, DeviceNames DEF Asked, Sayable
<1>5. work'["STACKER"] = work["STACKER"]
  BY <1>2, DeviceNames DEF Answer, IInv, Types
<1> QED
  BY <1>1, <1>3, <1>4, <1>5, AsideStart

\* The line task, the host and the faults.
LEMMA LineSaysStart ==
  ASSUME SInv, UNCHANGED <<mode, work, stacker>>,
         \/ UNCHANGED main_mbx
         \/ \E code \in LineCodes : \E sub \in {"none", "INFO", "ALARM"} : \E arg \in Alarms :
              Send(Msg(code, sub, arg))
  PROVE  Started'
<1> USE DEF SInv
<1>1. CASE UNCHANGED main_mbx
  BY <1>1, SilentStart DEF Started
<1>2. ASSUME NEW code \in LineCodes, NEW sub \in {"none", "INFO", "ALARM"}, NEW arg \in Alarms,
             Send(Msg(code, sub, arg))
      PROVE  Started'
  <2> DEFINE x == Msg(code, sub, arg)
  <2>1. x \in Messages /\ x.code = code
    <3>1. code \in Codes /\ sub \in Subs
      BY DEF LineCodes, Codes, Subs
    <3> QED
      BY <3>1, MsgType
  <2>2. Send(x)
    BY <1>2
  <2> HIDE DEF x
  <2>3. x.code \notin DeviceCodes /\ x.code # "STACKER_EXEC"
    BY <2>1 DEF DeviceCodes, LineCodes
  <2> QED
    BY <2>1, <2>2, <2>3, AsideStart
<1> QED
  BY <1>1, <1>2

LEMMA StepStarts == SInv /\ [Next]_vars => Started'
<1> SUFFICES ASSUME SInv, [Next]_vars PROVE Started'
  OBVIOUS
<1>0. {"none", "INFO", "ALARM"} \subseteq Subs /\ {"BOX", "OTHER"} \subseteq Alarms
  BY DEF Subs, Alarms
<1>1. CASE main
  BY <1>1, MainStarts
<1>2. CASE \E d \in Devices \ {"STACKER"} : DeviceAnswers(d)
  BY <1>2, DeviceSaysStart
<1>3. CASE Feed \/ FeedPauses
  BY <1>3, FeedSaysStart
<1>4. CASE Stacker
  BY <1>4, StackerSaysStart
<1>5. CASE LineReads
  <2>1. UNCHANGED <<mode, work, stacker>>
    BY <1>5 DEF LineReads, mvars
  <2>2. \/ UNCHANGED main_mbx
        \/ \E code \in LineCodes : Send(Msg(code, "none", "OTHER"))
    BY <1>5, LineCodeNames DEF LineReads, stack_rsp_mode_stack, stack_rsp_credited
  <2> QED
    BY <1>0, <2>1, <2>2, LineSaysStart
<1>6. CASE HostPolls \/ HostAcks \/ HostResets
  <2>1. UNCHANGED <<mode, work, stacker>>
    BY <1>6 DEF HostPolls, HostAcks, HostResets, hostvars, mvars
  <2>2. \/ UNCHANGED main_mbx
        \/ \E code \in LineCodes : Send(Msg(code, "none", "OTHER"))
    BY <1>6, LineCodeNames DEF HostPolls, HostAcks, HostResets
  <2> QED
    BY <1>0, <2>1, <2>2, LineSaysStart
<1>7. CASE Faults
  <2>1. UNCHANGED <<mode, work, stacker>> /\ {"STATUS", "SENSOR"} \subseteq LineCodes
    BY <1>7 DEF Faults, mvars, LineCodes
  <2>2. \E code \in LineCodes : \E sub \in {"none", "INFO", "ALARM"} : \E arg \in Alarms :
          Send(Msg(code, sub, arg))
    BY <1>0, <1>7, <2>1 DEF Faults
  <2> QED
    BY <2>1, <2>2, LineSaysStart
<1>8. CASE NextNoteEnters \/ UNCHANGED vars
  <2>1. UNCHANGED <<mode, work, stacker, main_mbx>>
    BY <1>8 DEF NextNoteEnters, vars, mvars
  <2> QED
    BY <2>1, LineSaysStart
<1> QED
  BY <1>1, <1>2, <1>3, <1>4, <1>5, <1>6, <1>7, <1>8 DEF Next

LEMMA InitStarts == Init => Started
<1> SUFFICES ASSUME Init PROVE Started
  OBVIOUS
<1>1. Posted = {} /\ mode \in FeedModes /\ mode # "WAIT_STACK_START" /\ stacker.seq = "new"
  BY DEF Init, MainInit, Posted, FeedModes, NewStacker
<1> QED
  BY <1>1 DEF Started, Unstruck

\* main reads what it hears of the stroke in the order in which it was said.
LEMMA BeginsFirst ==
  ASSUME Types, main_mbx # << >>, BeginsWell, m.code = "STACKER_EXEC"
  PROVE  m.sub \in {"START", "ALARM"}
<1>1. Len(main_mbx) \in Nat /\ Len(main_mbx) >= 1 /\ m = main_mbx[1]
  BY HeadTailProperties, EmptySeq, LenProperties DEF m, Types
<1>2. PICK i \in 1 .. Len(main_mbx) :
        /\ main_mbx[i].sub \in {"START", "ALARM"}
        /\ \A k \in 1 .. Len(main_mbx) : k < i => main_mbx[k].code # "STACKER_EXEC"
  BY DEF BeginsWell
<1>3. i = 1
  BY <1>1, <1>2
<1> QED
  BY <1>1, <1>2, <1>3

\* The last answers that the handlers of mode_stack_uba.c have a case for.
HasCase ==
  \/ m.sub = "SUCCESS" /\ mode # "WAIT_STACK_START"
  \/ m.sub = "ALARM"
  \/ is("FEED_APB", "REJECT")
  \/ is("STACKER_EXEC", "REJECT") /\ mode = "WAIT_STACK_TOP"

NoneDropped ==
  Stacking /\ main_mbx # << >> /\ (\E d \in Devices : Answers(d, m)) =>
    m.code \in Fits[mode] /\ HasCase

\* No last answer of a device falls into a default branch: it comes in a mode
\* that waits for it, and says what that mode has a case for.
THEOREM EveryAnswerHasACase == Safety => []NoneDropped
<1>1. SInv /\ [Next]_vars => SInv'
  BY StepInv, StepWaits, StepStarts DEF SInv
<1>2. Init => SInv
  BY InitInv, InitWaits, InitStarts DEF SInv
<1>3. SInv => NoneDropped
  <2> SUFFICES ASSUME SInv, Stacking, main_mbx # << >>, NEW d \in Devices, Answers(d, m)
               PROVE  m.code \in Fits[mode] /\ HasCase
    BY DEF NoneDropped
  <2>1. Types /\ WInv /\ Started /\ main_mbx \in Seq(Messages)
    BY DEF SInv, IInv, Types
  <2>2. m \in Posted /\ m \in Messages
    BY <2>1, HeadTailProperties, EmptySeq, LenProperties DEF m, Posted
  <2>3. m.code \in Fits[mode] /\ m.code \in Asked[d] /\ mode \in StackModes
    BY <2>1, <2>2 DEF WInv, Fitting, Stacking, Answers
  <2>4. m.code \in DeviceCodes
    BY <2>2, <2>3, DeviceNames DEF Messages, DeviceCodes, Codes, LineCodes, Asked
  <2>5. Sayable(m) /\ m.sub \in {"SUCCESS", "REJECT", "ALARM"}
    BY <2>1, <2>2, <2>4 DEF Started, Answers
  <2>6. CASE mode = "WAIT_STACK_START"
    <3>1. m.code = "STACKER_EXEC"
      BY <2>3, <2>6 DEF Fits
    <3>2. BeginsWell
      BY <2>1, <2>2, <2>6, <3>1 DEF Started, Unstruck
    <3>3. m.sub = "ALARM"
      BY <2>1, <2>5, <3>1, <3>2, BeginsFirst
    <3> QED
      BY <2>3, <3>3 DEF HasCase
  <2>7. CASE mode # "WAIT_STACK_START"
    <3>1. m.code = "STACKER_EXEC" => mode = "WAIT_STACK_TOP"
      BY <2>3, <2>7 DEF Fits, StackModes, FeedModes, Pulls
    <3> QED
      BY <2>3, <2>5, <2>7, <3>1 DEF HasCase, Sayable, is
  <2> QED
    BY <2>3, <2>6, <2>7
<1> QED
  BY <1>1, <1>2, <1>3, PTL DEF Safety
=============================================================================
