-------------------------- MODULE AcceptJobProofs ---------------------------
(***************************************************************************)
(* Theorems about how AcceptMode joins the answers of its devices, for     *)
(* every set of denominations and every pool size: no busy bit waits for   *)
(* nothing, a note is offered only when the devices are at rest and have   *)
(* refused nothing, and it leaves only when its path is clear.             *)
(***************************************************************************)
EXTENDS AcceptModeProofs

\* The answers that clear a bit of ex_multi_job.busy in each mode2.
Expected ==
  [SENSOR_ACTIVE |-> {"CIS_INITIALIZE", "STACKER_PULL"},
   PB_CENTERING_HOME |-> {"CENTERING_HOME", "STACKER_PULL"},
   WAIT_PB_START |-> {"APB_HOME", "STACKER_PULL"},
   WAIT_FEED_START |-> {"FEED_CENTERING", "APB_HOME", "STACKER_PULL"},
   FEED_CENTERING |-> {"FEED_CENTERING", "APB_HOME", "STACKER_PULL"},
   CENTERING |-> {"CENTERING_EXEC", "STACKER_PULL", "STACKER_HOME"},
   FEED_ESCROW |-> {"FEED_ESCROW"},
   WAIT_ACCEPT_REQ |-> {},
   DISCRIMINATION |-> {"MGU_READ", "VALIDATION", "SHUTTER_CLOSE"},
   WAIT_REQ |-> {"ICB_REJECT", "SHUTTER_OPEN", "CENTERING_HOME"},
   WAIT_REJECT_REQ |-> {"ICB_REJECT", "SHUTTER_OPEN", "CENTERING_HOME"}]

LeavingModes == {"WAIT_REQ", "WAIT_REJECT_REQ"}
TakingModes  == AcceptModes \ LeavingModes
EarlyModes   == {"SENSOR_ACTIVE", "PB_CENTERING_HOME", "WAIT_PB_START",
                 "WAIT_FEED_START", "FEED_CENTERING"}
Movers       == {"CENTERING", "SHUTTER", "FEED"}
Alone        == Movers \cup {"DISCRIMINATION"}

\* Messages to main, and where those of a set lie in the mailbox.
Finals(t) == {x \in Messages : x.code \in Asked[t] /\ x.sub # "START"}
Ends(r)   == {x \in Messages : x.code = r /\ x.sub # "START"}
Starts(r) == {x \in Messages : x.code = r /\ x.sub = "START"}
Coded(c)  == {x \in Messages : x.code \in c}

At(S)  == {i \in 1 .. Len(main_mbx) : main_mbx[i] \in S}
One(S) == \A i, j \in S : i = j

\* A busy bit is owed one of the answers that clear it in this mode.
Waits(t, r) == (\E i \in 1 .. Len(work[t]) : work[t][i] = r) \/ At(Ends(r)) # {}

Answering ==
  Accepting => \A t \in job.busy : \E r \in Expected[mode] \cap Asked[t] : Waits(t, r)

\* The other way round for the motors on the note's path, the validation, and
\* the stacker of a first note: they owe one answer at most, and the bit stands
\* for it.
Bound(t) ==
  /\ work[t] # << >> \/ At(Finals(t)) # {} => t \in job.busy
  /\ work[t] # << >> => Len(work[t]) = 1 /\ At(Finals(t)) = {}
  /\ One(At(Finals(t)))

Moving ==
  /\ Accepting => \A t \in Alone : Bound(t)
  /\ mode \in TakingModes /\ second = 0 => Bound("STACKER")

\* In WAIT_FEED_START main ignores a success of the feed: the feed says START
\* before, and then main is in that mode no longer.
Success == {x \in Messages : x.code = "FEED_CENTERING" /\ x.sub = "SUCCESS"}

StartFirst ==
  mode = "WAIT_FEED_START" =>
    /\ work["FEED"] # << >> /\ stage["FEED"] = "moving" => At(Starts("FEED_CENTERING")) # {}
    /\ \A i \in At(Success) : \E k \in At(Starts("FEED_CENTERING")) : k < i

\* The stacker of a first note is asked to go home once.
Begins == work["CENTERING"] # << >> /\ stage["CENTERING"] # "moving"

HomeOnce ==
  /\ mode \in EarlyModes =>
       /\ At(Starts("CENTERING_EXEC")) = {}
       /\ work["CENTERING"] \in {<< >>, <<"CENTERING_HOME">>}
       /\ second = 0 => "STACKER" \notin job.busy
  /\ mode = "CENTERING" =>
       /\ One(At(Starts("CENTERING_EXEC")))
       /\ Begins => At(Starts("CENTERING_EXEC")) = {}
       /\ second = 0 /\ (Begins \/ At(Starts("CENTERING_EXEC")) # {})
          => "STACKER" \notin job.busy

\* Main sends the note back for one request of the line task, which passes
\* its turn to the ICB and that to centering and shutter.
Back    == line \in {"reject", "initial"}
Refusal == Coded({"REJECT", "ICB_REJECT"})
NoREQ   == {x \in Messages : x.code = "REJECT" /\ x.sub # "REQ"}

Backward ==
  /\ At(Refusal) # {} \/ work["ICB"] # << >> =>
       Back /\ mode \in LeavingModes /\ job.busy \cap Movers = {}
  /\ One(At(Refusal)) /\ Len(work["ICB"]) \in {0, 1}
  /\ work["ICB"] # << >> => At(Refusal) = {}
  /\ At(NoREQ) = {}
  /\ mode \in LeavingModes /\ job.busy # {} => Back

Onward ==
  /\ At(Coded({"STACK"})) # {} =>
       /\ line \in {"stack", "initial"} /\ mode = "WAIT_REQ" /\ job.busy = {}
       /\ At(Refusal) = {} /\ work["ICB"] = << >>
  /\ line \in {"escrow", "stack"} => mode = "WAIT_REQ"

\* The validation records a refusal, or the denomination, when the other two
\* still work; nothing is refused once the note is offered.
Clear(md, j) ==
  /\ md = "WAIT_REQ" => j.reject = {} /\ "STACKER" \notin j.alarm
  /\ md = "WAIT_ACCEPT_REQ" => j.reject = {}
  /\ md = "DISCRIMINATION" =>
       /\ j.reject = {} \/ "DISCRIMINATION" \notin j.busy
       /\ "DISCRIMINATION" \in j.busy \/ j.reject # {} \/ j.denomi \in Accepted

\* What the line task has heard, and is about to, of this note and the first.
Vends == {i \in 1 .. Len(line_mbx) : line_mbx[i].sub = "VEND"}

Accord ==
  /\ \A i \in Vends : i = 1
  /\ Vends # {} => line \in {"second", "initial"}
  /\ \A i \in 1 .. Len(line_mbx) : line_mbx[i].sub = "SUCCESS" => mode = "WAIT_REQ"
  /\ mode \in TakingModes =>
       /\ \A i \in 1 .. Len(line_mbx) : i \in Vends
       /\ line \in {"accept", "second", "initial"}
       /\ line = "accept" => second = 0
       /\ second = 0 => /\ work["STACKER"] # <<"STACKER_PULL">> /\ Vends = {}
                        /\ At(Coded({"STACKER_PULL"})) = {}
  /\ mode = "WAIT_REJECT_REQ" => second = 0

JInv ==
  /\ Answering /\ Moving /\ StartFirst /\ HomeOnce /\ Clear(mode, job)
  /\ Accepting => Backward /\ Onward /\ Accord

Joining == Reading /\ JInv /\ Accepting

------------------------------------------------------------------------------
(* What a handler does to the bits, the requests and the line task.           *)

\* The message read is an answer of t that ends its work.
Fin(t) == m.code \in Asked[t] /\ m.sub # "START"

\* j is ex_multi_job after the message was taken into account.
Settled(j) ==
  /\ j.busy \subseteq job.busy
  /\ \A t \in job.busy \ j.busy : Fin(t)
  /\ \A t \in j.busy : m.code \in Expected[mode] \cap Asked[t] => m.sub = "START"

\* A bit that is set was so before and is still owed, or its task was asked.
BitKept(t) ==
  \/ \E i \in 1 .. Len(work'[t]) : work'[t][i] \in Expected[mode']
  \/ /\ t \in job.busy /\ work'[t] = work[t]
     /\ Expected[mode] \cap Asked[t] \subseteq Expected[mode']
     /\ m.code \in Expected[mode] \cap Asked[t] => m.sub = "START"

\* A motor is asked when it owes no answer, and its bit cleared by the answer.
BoundKept(t) ==
  \/ work'[t] = work[t] /\ (t \in job.busy => t \in job'.busy \/ Fin(t))
  \/ /\ \E r \in Requests : work'[t] = << r >>
     /\ t \in job'.busy /\ (t \in job.busy => Fin(t))

FeedKept ==
  mode' = "WAIT_FEED_START" =>
    \/ mode = "WAIT_FEED_START" /\ work'["FEED"] = work["FEED"]
       /\ ~(m.code = "FEED_CENTERING" /\ m.sub = "START")
    \/ /\ mode \in {"SENSOR_ACTIVE", "PB_CENTERING_HOME", "WAIT_PB_START"}
       /\ work'["FEED"] = <<"FEED_CENTERING">>

HomeKept ==
  /\ mode' \in EarlyModes =>
       /\ mode \in EarlyModes
       /\ work'["CENTERING"] \in {work["CENTERING"], <<"CENTERING_HOME">>}
       /\ "STACKER" \in job'.busy => "STACKER" \in job.busy
  /\ mode' = "CENTERING" =>
       \/ mode = "FEED_CENTERING" /\ ("STACKER" \in job'.busy => "STACKER" \in job.busy)
       \/ /\ mode = "CENTERING" /\ work'["CENTERING"] = work["CENTERING"]
          /\ \/ "STACKER" \in job'.busy => "STACKER" \in job.busy
             \/ m.code = "CENTERING_EXEC" /\ m.sub = "START"

TakingKept ==
  mode' \in TakingModes =>
    /\ mode \in TakingModes /\ work'["ICB"] = work["ICB"]
    /\ second' = 0 => second = 0 /\ BoundKept("STACKER")
    /\ FeedKept /\ HomeKept

LeavingKept ==
  mode' \in LeavingModes =>
    /\ mode' # mode => mode \in TakingModes /\ job'.busy = {} /\ work'["ICB"] = work["ICB"]
    /\ mode' = mode =>
         \/ /\ job'.busy \cap Movers \subseteq job.busy
            /\ work'["ICB"] = work["ICB"]
         \/ /\ m.code \in {"REJECT", "ICB_REJECT"} /\ m.sub # "START"
            /\ work'["ICB"] = work["ICB"]
         \/ /\ m.code = "REJECT" /\ work'["ICB"] = Append(work["ICB"], "ICB_REJECT")
            /\ job'.busy \cap Movers \subseteq job.busy
    /\ job'.busy # {} => job.busy # {} \/ m.code \in {"REJECT", "ICB_REJECT"}
    /\ mode' = "WAIT_REJECT_REQ" => second' = 0

\* What main tells the line task follows the credit.
TellKept ==
  \E told \in Tales :
    /\ line_mbx' = line_mbx \o (Credit \o told)
    /\ mode' \in TakingModes => told = << >>
    /\ mode' \in AcceptModes \ {"WAIT_REQ"} =>
         \A i \in 1 .. Len(told) : told[i].sub # "SUCCESS"

\* The note is offered, or let out, by the answer main waited for last.
OutKept ==
  /\ second = 0 => second' = 0
  /\ mode' \in TakingModes \cup {"WAIT_REQ"} => (second' = 0 => second = 0)
  /\ mode # "WAIT_REQ" /\ mode' = "WAIT_REQ" =>
       /\ mode = "DISCRIMINATION" /\ ~reset /\ job.alarm = {} /\ job.reject = {}
       /\ \E d \in Accepted : Tell(<<Msg("ACCEPT", "SUCCESS", d)>>)
       /\ \A t \in Alone \cap job.busy : Fin(t)
  /\ mode' \in {"REJECT", "STACK"} =>
       /\ mode \in LeavingModes /\ \A t \in Movers \cap job.busy : Fin(t)
       /\ mode' = "REJECT" => Back
       /\ mode' = "STACK" => mode = "WAIT_REQ" /\ second' = 0 /\ line \in {"stack", "initial"}

Joined ==
  /\ mode' \in AcceptModes => /\ \A t \in job'.busy : BitKept(t)
                              /\ \A t \in Alone : BoundKept(t)
                              /\ Clear(mode', job')
  /\ TakingKept /\ LeavingKept /\ TellKept /\ OutKept

------------------------------------------------------------------------------
(* The modes, and what the invariant says of the message that is read.        *)

LEMMA Modes ==
  /\ AcceptModes = TakingModes \cup LeavingModes
  /\ TakingModes \cap LeavingModes = {}
  /\ EarlyModes \subseteq TakingModes
  /\ {"INIT", "ALARM", "REJECT", "STACK"} \cap AcceptModes = {}
  /\ TakingModes = EarlyModes \cup
       {"CENTERING", "FEED_ESCROW", "WAIT_ACCEPT_REQ", "DISCRIMINATION"}
  /\ EarlyModes \cap {"CENTERING", "FEED_ESCROW", "WAIT_ACCEPT_REQ", "DISCRIMINATION"} = {}
BY DEF AcceptModes, TakingModes, LeavingModes, EarlyModes

LEMMA AskedApart ==
  \A t, u \in Tasks : Asked[t] \cap Asked[u] # {} => t = u
BY DEF Tasks, Asked

LEMMA SettledOne ==
  ASSUME Joining, NEW t \in Tasks, m.code \in Asked[t], m.sub # "START",
         NEW j \in Jobs, j.busy = job.busy \ {t}
  PROVE  Settled(j)
<1>1. \A u \in Tasks : m.code \in Asked[u] => u = t
  BY AskedApart
<1>2. job.busy \subseteq Tasks
  BY Same DEF Joining, Jobs
<1> QED
  BY <1>1, <1>2 DEF Settled, Fin

LEMMA SettledNone ==
  ASSUME Joining, m.code \notin Expected[mode] \/ m.sub = "START", NEW j \in Jobs, j.busy = job.busy
  PROVE  Settled(j)
BY DEF Settled

\* The tasks main may be waiting for.
LEMMA BusyTasks ==
  ASSUME Joining
  PROVE  /\ mode = "SENSOR_ACTIVE" => job.busy \subseteq {"CIS_INIT", "STACKER"}
         /\ mode = "PB_CENTERING_HOME" => job.busy \subseteq {"CENTERING", "STACKER"}
         /\ mode = "WAIT_PB_START" => job.busy \subseteq {"APB", "STACKER"}
         /\ mode \in {"WAIT_FEED_START", "FEED_CENTERING"} =>
              job.busy \subseteq {"FEED", "APB", "STACKER"}
         /\ mode = "CENTERING" => job.busy \subseteq {"CENTERING", "STACKER"}
         /\ mode = "FEED_ESCROW" => job.busy \subseteq {"FEED"}
         /\ mode = "WAIT_ACCEPT_REQ" => job.busy = {}
         /\ mode = "DISCRIMINATION" => job.busy \subseteq {"MGU", "DISCRIMINATION", "SHUTTER"}
         /\ mode \in LeavingModes => job.busy \subseteq {"ICB", "SHUTTER", "CENTERING"}
<1>1. \A t \in job.busy : t \in Tasks /\ Expected[mode] \cap Asked[t] # {}
  BY Same DEF Joining, JInv, Answering, Jobs
<1> QED
  BY <1>1 DEF Expected, Asked, Tasks, LeavingModes

\* The message read lies at the head.
LEMMA ReadAt ==
  ASSUME IInv, main_mbx # << >>
  PROVE  /\ m \in Messages /\ Len(main_mbx) \in Nat /\ 1 \in 1 .. Len(main_mbx)
         /\ m = main_mbx[1]
         /\ \A S : m \in S => 1 \in At(S)
<1>1. main_mbx \in Seq(Messages) /\ m \in Messages /\ Len(main_mbx) \in Nat
  BY BoxTypes, ReadType DEF Reading
<1>2. 1 \in 1 .. Len(main_mbx) /\ m = main_mbx[1]
  BY <1>1, EmptySeq DEF m
<1> QED
  BY <1>1, <1>2 DEF At

------------------------------------------------------------------------------
(* The ways in which a handler ends, by what they do to bits and requests.    *)

LEMMA TellKeeps ==
  ASSUME Joining, NEW told \in Tales, Tell(told),
         mode' \in TakingModes => told = << >>,
         mode' \in AcceptModes \ {"WAIT_REQ"} =>
           \A i \in 1 .. Len(told) : told[i].sub # "SUCCESS"
  PROVE  TellKept
<1>1. line_mbx \in Seq(LineMessages) /\ Credit \in Seq(LineMessages) /\ told \in Seq(LineMessages)
  <2>1. line_mbx \in Seq(LineMessages)
    BY BoxTypes DEF Joining, Reading
  <2>2. Credit \in {<< >>, <<Msg("STACK", "VEND", NoDenomi)>>}
    BY DEF Credit
  <2>3. Msg("STACK", "VEND", NoDenomi) \in LineMessages
    BY DEF Msg, LineMessages, ToldArgs
  <2>4. << >> \in Seq(LineMessages) /\ <<Msg("STACK", "VEND", NoDenomi)>> \in Seq(LineMessages)
    BY <2>3, OneRequest
  <2>5. told \in Seq(LineMessages)
    BY <2>4, OneRequest DEF Tales
  <2> QED
    BY <2>1, <2>2, <2>4, <2>5
<1>2. (line_mbx \o Credit) \o told = line_mbx \o (Credit \o told)
  BY <1>1, ConcatAssociative
<1> QED
  BY <1>2 DEF Tell, TellKept

LEMMA TaleTypes ==
  /\ << >> \in Tales /\ \A i \in 1 .. Len(<< >>) : FALSE
  /\ \A a \in ToldArgs :
       /\ <<Msg("ACCEPT", "REJECT", a)>> \in Tales
       /\ \A i \in 1 .. Len(<<Msg("ACCEPT", "REJECT", a)>>) :
            <<Msg("ACCEPT", "REJECT", a)>>[i].sub # "SUCCESS"
<1>1. \A x : Len(<<x>>) = 1 /\ <<x>>[1] = x
  OBVIOUS
<1>2. \A a : Msg("ACCEPT", "REJECT", a).sub # "SUCCESS"
  BY DEF Msg
<1>3. \A a : \A i \in 1 .. Len(<<Msg("ACCEPT", "REJECT", a)>>) :
             <<Msg("ACCEPT", "REJECT", a)>>[i].sub # "SUCCESS"
  <2> SUFFICES ASSUME NEW a, NEW i \in 1 .. Len(<<Msg("ACCEPT", "REJECT", a)>>)
               PROVE  <<Msg("ACCEPT", "REJECT", a)>>[i].sub # "SUCCESS"
    OBVIOUS
  <2>1. i = 1
    BY <1>1
  <2> QED
    BY <1>1, <1>2, <2>1
<1>4. << >> \in Tales /\ \A i \in 1 .. Len(<< >>) : FALSE
  BY ToldTypes
<1> QED
  BY <1>3, <1>4, ToldTypes

\* Nothing is told: the mode does not matter.
LEMMA TellsNothing ==
  ASSUME Joining, Tell(<< >>) PROVE TellKept
BY TellKeeps, TaleTypes

LEMMA SecondKept ==
  ASSUME Joining
  PROVE  /\ NextSecond = 0 <=> second = 0
         /\ mode = "WAIT_REJECT_REQ" => second = 0
BY DEF NextSecond, Joining, JInv, Onward, Accord

\* A handler that leaves the accept mode.
LEMMA LeaveJoins ==
  ASSUME Joining, mode' \notin AcceptModes, NEW told \in Tales, Tell(told), OutKept
  PROVE  Joined
<1>1. mode' \notin TakingModes /\ mode' \notin LeavingModes
  BY Modes
<1>2. TellKept
  BY <1>1, TellKeeps
<1> QED
  BY <1>1, <1>2 DEF Joined, TakingKept, LeavingKept

LEMMA AlarmJoins ==
  ASSUME Joining, NEW j, AlarmSub(j) PROVE Joined
<1>1. mode' \notin AcceptModes /\ Tell(<<Msg("ACCEPT", "ALARM", NoDenomi)>>)
  BY Modes DEF AlarmSub
<1>2. OutKept
  BY Modes DEF OutKept, AlarmSub, AcceptModes
<1> QED
  BY <1>1, <1>2, LeaveJoins, ToldTypes DEF ToldArgs

LEMMA InitJoins ==
  ASSUME Joining, SetInit PROVE Joined
<1>1. mode' \notin AcceptModes
  BY Modes DEF SetInit
<1>2. PICK told \in {<< >>, <<Msg("RESET", "ALARM", NoDenomi)>>} : Tell(told)
  BY DEF SetInit
<1>3. told \in Tales
  BY <1>2, ToldTypes DEF ToldArgs
<1>4. OutKept
  BY Modes DEF OutKept, SetInit, AcceptModes
<1> QED
  BY <1>1, <1>2, <1>3, <1>4, LeaveJoins

\* The handler goes on in its mode, and asks nothing.
LEMMA RestJoins ==
  ASSUME Joining, NEW j \in Jobs, Settled(j), mode' = mode, job' = j, work' = work,
         second' = NextSecond \/ second' = second, TellKept,
         ~(mode = "WAIT_FEED_START" /\ m.code = "FEED_CENTERING" /\ m.sub = "START"),
         Clear(mode, j)
  PROVE  Joined
<1>1. \A t \in job'.busy : BitKept(t)
  BY DEF BitKept, Settled
<1>2. \A t \in Tasks : BoundKept(t)
  BY DEF BoundKept, Settled
<1>3. job'.busy \subseteq job.busy /\ Alone \subseteq Tasks /\ "STACKER" \in Tasks
  BY TaskNames DEF Settled, Movers, Alone
<1>4. second' = 0 <=> second = 0
  BY SecondKept
<1>5. TakingKept
  BY <1>2, <1>3, <1>4, Modes DEF TakingKept, FeedKept, HomeKept, EarlyModes
<1>6. LeavingKept
  BY <1>3, <1>4, SecondKept, Modes DEF LeavingKept
<1>7. OutKept
  BY <1>4, Modes DEF OutKept, Joining, Accepting
<1> QED
  BY <1>1, <1>2, <1>3, <1>5, <1>6, <1>7 DEF Joined

LEMMA StayJoins ==
  ASSUME Joining, NEW j \in Jobs, Settled(j), Stay(j),
         ~(mode = "WAIT_FEED_START" /\ m.code = "FEED_CENTERING" /\ m.sub = "START"),
         Clear(mode, j)
  PROVE  Joined
BY RestJoins, TellsNothing DEF Stay

LEMMA FlagJoins ==
  ASSUME Joining, m.code = "RESET", mode \in TakingModes, Flag PROVE Joined
<1>1. job \in Jobs /\ Settled(job)
  BY Same, SettledNone DEF Expected, Joining, TakingModes, AcceptModes, LeavingModes
<1>2. TellKept
  <2>1. Credit = << >> /\ line_mbx \in Seq(LineMessages)
    BY BoxTypes DEF Credit, Joining, Reading
  <2>2. line_mbx \o (<< >> \o << >>) = line_mbx
    BY <2>1
  <2>3. Tell(<< >>)
    BY <2>1, <2>2 DEF Tell, Flag
  <2> QED
    BY <2>3, TellsNothing
<1>3. Clear(mode, job)
  BY DEF Joining, JInv
<1> QED
  BY <1>1, <1>2, <1>3, RestJoins DEF Flag

\* A refusal, when no motor on the note's path owes an answer any more.
LEMMA RejectJoins ==
  ASSUME Joining, mode # "WAIT_REQ", \A t \in Alone \cap job.busy : Fin(t),
         NEW code \in ToldArgs, RejectSub("WAIT_REJECT_REQ", code)
  PROVE  Joined
<1>1. TellKept
  <2>1. mode' = "WAIT_REJECT_REQ" /\ Tell(<<Msg("ACCEPT", "REJECT", code)>>)
    BY DEF RejectSub
  <2>2. mode' \notin TakingModes
    BY <2>1 DEF TakingModes, LeavingModes
  <2> QED
    BY <2>1, <2>2, TellKeeps, TaleTypes
<1>2. job'.busy = {} /\ work' = work /\ mode' = "WAIT_REJECT_REQ" /\ second' = 0
  BY DEF RejectSub, NoJob
<1>3. \A t \in Alone : BoundKept(t)
  BY <1>2 DEF BoundKept
<1>4. TakingKept /\ LeavingKept
  <2>1. mode \in TakingModes \/ mode = "WAIT_REJECT_REQ"
    BY Modes DEF Joining, Accepting, LeavingModes
  <2>2. mode' \notin TakingModes
    BY <1>2 DEF TakingModes, LeavingModes
  <2> QED
    BY <1>2, <2>1, <2>2 DEF TakingKept, LeavingKept
<1>5. OutKept
  BY <1>2 DEF OutKept, TakingModes, LeavingModes
<1> QED
  BY <1>1, <1>2, <1>3, <1>4, <1>5 DEF Joined, Clear

LEMMA WaitRejectJoins ==
  ASSUME Joining, mode # "WAIT_REQ", \A t \in Alone \cap job.busy : Fin(t),
         WaitReject \/ StackerNotHome
  PROVE  Joined
BY RejectJoins DEF WaitReject, StackerNotHome, ToldArgs

\* What a request makes of the work of its task.
LEMMA Asks ==
  ASSUME Joining, NEW reqs, ReqsOK(reqs), Ask(reqs), NEW t \in Tasks
  PROVE  /\ t \notin DOMAIN reqs => work'[t] = work[t]
         /\ t \in DOMAIN reqs \cap Motors => work'[t] = << reqs[t] >>
         /\ t = "STACKER" /\ t \in DOMAIN reqs /\ work[t] # << >> => work'[t] = work[t]
         /\ t = "STACKER" /\ t \in DOMAIN reqs /\ work[t] = << >> =>
              work'[t] = <<"STACKER_HOME">>
         /\ t \in DOMAIN reqs \ (Motors \cup {"STACKER"}) =>
              work'[t] = Append(work[t], reqs[t])
<1>1. "STACKER" \notin Motors
  BY DEF Motors
<1>2. Append(<< >>, "STACKER_HOME") = <<"STACKER_HOME">>
  OBVIOUS
<1>3. t = "STACKER" /\ t \in DOMAIN reqs => reqs[t] = "STACKER_HOME"
  BY DEF ReqsOK
<1> QED
  BY <1>1, <1>2, <1>3 DEF Ask

LEMMA AskedIn ==
  ASSUME Joining, NEW reqs, ReqsOK(reqs), Ask(reqs), NEW E, NEW t \in DOMAIN reqs,
         reqs[t] \in E, t # "STACKER"
  PROVE  \E i \in 1 .. Len(work'[t]) : work'[t][i] \in E
<1>1. t \in Tasks /\ work[t] \in Seq(Asked[t])
  BY Same DEF ReqsOK, Joining
<1>2. CASE t \in Motors
  <2>1. work'[t] = << reqs[t] >>
    BY <1>1, <1>2, Asks
  <2>2. Len(<< reqs[t] >>) = 1 /\ << reqs[t] >>[1] = reqs[t]
    OBVIOUS
  <2>3. 1 \in 1 .. Len(work'[t]) /\ work'[t][1] = reqs[t]
    BY <2>1, <2>2
  <2> QED
    BY <2>3
<1>3. CASE t \notin Motors
  <2>1. work'[t] = Append(work[t], reqs[t])
    BY <1>1, <1>3, Asks
  <2>2. reqs[t] \in Asked[t] /\ Len(work[t]) \in Nat
    BY <1>1, LenProperties DEF ReqsOK
  <2>3. Len(work'[t]) = Len(work[t]) + 1 /\ work'[t][Len(work[t]) + 1] = reqs[t]
    BY <1>1, <2>1, <2>2, AppendProperties
  <2>4. Len(work[t]) + 1 \in 1 .. Len(work'[t])
    BY <2>2, <2>3
  <2> QED
    BY <2>3, <2>4
<1> QED
  BY <1>2, <1>3

\* A task whose bit is clear, or cleared by the answer read, has no work.
LEMMA FreeOrDone ==
  ASSUME Joining, NEW t \in Alone, t \in job.busy => Fin(t)
  PROVE  work[t] = << >>
<1>1. Bound(t)
  BY DEF Joining, JInv, Moving
<1>2. CASE t \in job.busy
  <2>1. m \in Finals(t) /\ 1 \in At(Finals(t))
    BY <1>2, ReadAt DEF Joining, Reading, Finals, Fin
  <2> QED
    BY <1>1, <2>1 DEF Bound
<1> QED
  BY <1>1, <1>2 DEF Bound

\* On to the next mode, with requests to tasks that owe nothing.
LEMMA ProceedJoins ==
  ASSUME Joining, NEW j \in Jobs, Settled(j), NEW reqs, ReqsOK(reqs),
         mode \in TakingModes, NEW next \in TakingModes, Proceed(next, j, reqs),
         DOMAIN reqs \cap ({"ICB", "STACKER"} \cup j.busy) = {},
         \A t \in DOMAIN reqs : reqs[t] \in Expected[next],
         \A t \in j.busy : Expected[mode] \cap Asked[t] \subseteq Expected[next],
         next = "WAIT_FEED_START" =>
           /\ mode \in {"SENSOR_ACTIVE", "PB_CENTERING_HOME", "WAIT_PB_START"}
           /\ "FEED" \in DOMAIN reqs /\ reqs["FEED"] = "FEED_CENTERING",
         next \in EarlyModes =>
           /\ mode \in EarlyModes
           /\ "CENTERING" \in DOMAIN reqs => reqs["CENTERING"] = "CENTERING_HOME",
         next = "CENTERING" => mode = "FEED_CENTERING",
         next \in {"WAIT_ACCEPT_REQ", "DISCRIMINATION"} => j.reject = {},
         next = "DISCRIMINATION" => "DISCRIMINATION" \in DOMAIN reqs
  PROVE  Joined
<1>1. /\ Ask(reqs) /\ Tell(<< >>) /\ mode' = next /\ second' = NextSecond
      /\ job'.busy = j.busy \cup DOMAIN reqs
  BY DEF Proceed, Jobs
<1>2. DOMAIN reqs \subseteq Tasks /\ \A t \in DOMAIN reqs : reqs[t] \in Requests
  BY DEF ReqsOK, Requests
<1>3. ASSUME NEW t \in job'.busy PROVE BitKept(t)
  <2>1. CASE t \in DOMAIN reqs
    <3>1. t # "STACKER"
      BY <2>1
    <3> QED
      BY <1>1, <2>1, <3>1, AskedIn DEF BitKept
  <2>2. CASE t \notin DOMAIN reqs
    <3>1. t \in j.busy /\ t \in job.busy /\ t \in Tasks
      BY <1>1, <2>2, Same DEF Settled, Jobs, Joining
    <3>2. work'[t] = work[t]
      BY <1>1, <2>2, <3>1, Asks
    <3> QED
      BY <1>1, <3>1, <3>2 DEF BitKept, Settled
  <2> QED
    BY <2>1, <2>2
<1>4. ASSUME NEW t \in Alone \cup {"STACKER"} PROVE BoundKept(t)
  <2>1. t \in Tasks /\ t \in Motors \cup {"DISCRIMINATION", "STACKER"}
    BY TaskNames DEF Alone, Movers, Motors
  <2>2. CASE t \in DOMAIN reqs
    <3>1. t \in Motors \cup {"DISCRIMINATION"} /\ t \in Alone /\ t \notin j.busy
      BY <2>1, <2>2
    <3>2. work'[t] = << reqs[t] >>
      <4>1. CASE t \in Motors
        BY <1>1, <2>1, <2>2, <4>1, Asks
      <4>2. CASE t = "DISCRIMINATION"
        <5>1. work[t] = << >>
          BY <3>1, FreeOrDone DEF Settled
        <5>2. Append(<< >>, reqs[t]) = << reqs[t] >>
          OBVIOUS
        <5>3. t \notin Motors
          BY <4>2 DEF Motors
        <5> QED
          BY <1>1, <2>1, <2>2, <4>2, <5>1, <5>2, <5>3, Asks
      <4> QED
        BY <3>1, <4>1, <4>2
    <3> QED
      BY <1>1, <1>2, <2>2, <3>1, <3>2 DEF BoundKept, Settled
  <2>3. CASE t \notin DOMAIN reqs
    <3>1. work'[t] = work[t]
      BY <1>1, <2>1, <2>3, Asks
    <3> QED
      BY <1>1, <3>1 DEF BoundKept, Settled
  <2> QED
    BY <2>2, <2>3
<1>5. work'["ICB"] = work["ICB"] /\ (second' = 0 <=> second = 0)
  BY <1>1, Asks, SecondKept, TaskNames
<1>6. FeedKept
  BY <1>1, Asks, TaskNames DEF FeedKept, Motors
<1>7. "STACKER" \in job'.busy => "STACKER" \in job.busy
  BY <1>1 DEF Settled
<1>8. HomeKept
  <2>1. CASE next \in EarlyModes
    <3>1. work'["CENTERING"] \in {work["CENTERING"], <<"CENTERING_HOME">>}
      BY <1>1, <2>1, Asks, TaskNames DEF Motors
    <3> QED
      BY <1>1, <1>7, <2>1, <3>1, Modes DEF HomeKept
  <2>2. CASE next \notin EarlyModes
    BY <1>1, <1>7, <2>2 DEF HomeKept
  <2> QED
    BY <2>1, <2>2
<1>9. TakingKept /\ LeavingKept
  BY <1>1, <1>4, <1>5, <1>6, <1>8, Modes DEF TakingKept, LeavingKept
<1>10. TellKept
  BY <1>1, TellsNothing
<1>11. Clear(next, job')
  <2>1. job'.reject = j.reject /\ next # "WAIT_REQ"
    BY Modes DEF Proceed, Jobs, LeavingModes
  <2> QED
    BY <1>1, <2>1 DEF Clear
<1>12. OutKept
  BY <1>1, <1>5, Modes DEF OutKept, AcceptModes, LeavingModes
<1> QED
  BY <1>1, <1>3, <1>4, <1>9, <1>10, <1>11, <1>12 DEF Joined

------------------------------------------------------------------------------
(* An answer is recorded and main waits on.                                   *)

LEMMA Recorded ==
  ASSUME Joining, NEW t \in Tasks, m.code \in Asked[t], m.sub # "START"
  PROVE  /\ \A j \in {Done(t), Failed(t), Refused(t)} :
              j \in Jobs /\ j.busy = job.busy \ {t} /\ Settled(j)
         /\ Done(t).alarm = job.alarm /\ Done(t).reject = job.reject
         /\ Failed(t).alarm = job.alarm \cup {t} /\ Failed(t).reject = job.reject
<1>1. job \in Jobs
  BY Same DEF Joining
<1>2. \A j \in {Done(t), Failed(t), Refused(t)} : j \in Jobs /\ j.busy = job.busy \ {t}
  BY <1>1, JobTypes DEF Done, Failed, Refused, Jobs
<1>3. /\ Done(t).alarm = job.alarm /\ Done(t).reject = job.reject
      /\ Failed(t).alarm = job.alarm \cup {t} /\ Failed(t).reject = job.reject
  BY <1>1 DEF Done, Failed, Jobs
<1> QED
  BY <1>2, <1>3, SettledOne

LEMMA RecordJoins ==
  ASSUME Joining, NEW t \in Tasks, m.code \in Asked[t], m.sub # "START",
         NEW j \in Jobs, j.busy = job.busy \ {t}, Clear(mode, j), Stay(j)
  PROVE  Joined
<1>1. Settled(j)
  BY SettledOne
<1> QED
  BY <1>1, StayJoins DEF Clear

\* What has no case is no answer main waits for.
LEMMA IgnoreJoins ==
  ASSUME Joining, m.code \notin Expected[mode], Stay(job),
         ~(mode = "WAIT_FEED_START" /\ m.code = "FEED_CENTERING" /\ m.sub = "START")
  PROVE  Joined
<1>1. job \in Jobs /\ Settled(job)
  BY Same, SettledNone DEF Joining
<1>2. Clear(mode, job)
  BY DEF Joining, JInv
<1> QED
  BY <1>1, <1>2, StayJoins DEF Clear

LEMMA DefaultJoins ==
  ASSUME Joining, NEW cases, Default(cases), Expected[mode] \subseteq cases
  PROVE  Joined
<1>1. m.code \notin Expected[mode] /\ Stay(job)
  BY DEF Default
<1>2. ~(mode = "WAIT_FEED_START" /\ m.code = "FEED_CENTERING" /\ m.sub = "START")
  BY <1>1 DEF Expected
<1> QED
  BY <1>1, <1>2, IgnoreJoins

LEMMA StatusJoins ==
  ASSUME Joining, StatusAlarm \/ StatusOrInit PROVE Joined
BY AlarmJoins, InitJoins DEF StatusAlarm, StatusOrInit

\* The last answer: what the devices recorded ends the intake.
LEMMA EndJoins ==
  ASSUME Joining, mode # "WAIT_REQ", NEW j,
         SetInit \/ AlarmSub(j) \/ ((WaitReject \/ StackerNotHome)
                                    /\ \A t \in Alone \cap job.busy : Fin(t))
  PROVE  Joined
BY InitJoins, AlarmJoins, WaitRejectJoins

LEMMA PullJoins ==
  ASSUME Joining, m.code \in {"STACKER_PULL", "STACKER_HOME"},
         NEW run \in {0, 1}, run = 1 <=> mode = "CENTERING",
         mode \in EarlyModes \cup {"CENTERING"}, uba_stack(run)
  PROVE  Joined
<1>1. /\ "STACKER" \in Tasks /\ m.code \in Asked["STACKER"]
      /\ mode \in TakingModes /\ mode # "WAIT_REQ"
  BY TaskNames, Modes DEF Asked, LeavingModes
<1>2. m.sub # "START"
  BY DEF uba_stack
<1>3. /\ Done("STACKER") \in Jobs /\ Done("STACKER").busy = job.busy \ {"STACKER"}
      /\ Settled(Done("STACKER"))
      /\ Failed("STACKER") \in Jobs /\ Failed("STACKER").busy = job.busy \ {"STACKER"}
  BY <1>1, <1>2, Recorded
<1>4. CASE Stay(Done("STACKER")) \/ Stay(Failed("STACKER"))
  BY <1>1, <1>2, <1>3, <1>4, RecordJoins DEF Clear, EarlyModes
<1>5. ASSUME job.busy \ {"STACKER"} = {} PROVE \A t \in Alone \cap job.busy : Fin(t)
  BY <1>5 DEF Alone, Movers
<1>6. CASE SetInit \/ ((WaitReject \/ StackerNotHome) /\ job.busy \ {"STACKER"} = {})
           \/ AlarmSub(Done("STACKER")) \/ AlarmSub(Failed("STACKER"))
  BY <1>1, <1>5, <1>6, EndJoins
<1>7. CASE /\ run = 1 /\ job.busy \ {"STACKER"} = {}
           /\ Proceed("FEED_ESCROW", Done("STACKER"), [FEED |-> "FEED_ESCROW"])
  <2>1. "FEED_ESCROW" \in TakingModes /\ "FEED_ESCROW" \notin EarlyModes
    BY Modes
  <2>2. DOMAIN [FEED |-> "FEED_ESCROW"] = {"FEED"} /\ [FEED |-> "FEED_ESCROW"]["FEED"] = "FEED_ESCROW"
    OBVIOUS
  <2>3. "FEED_ESCROW" \in Expected["FEED_ESCROW"]
    BY DEF Expected
  <2> QED
    BY <1>1, <1>3, <1>7, <2>1, <2>2, <2>3, ProceedJoins, RequestTypes
<1> QED
  BY <1>3, <1>4, <1>6, <1>7 DEF uba_stack, IfLast, AlarmFirst

LEMMA StartCheckJoins ==
  ASSUME Joining, mode \in {"SENSOR_ACTIVE", "PB_CENTERING_HOME"},
         NEW j \in Jobs, Settled(j), j.busy \subseteq {"STACKER"},
         \A t \in Alone \cap job.busy : Fin(t), start_check(j)
  PROVE  Joined
<1>0. /\ mode \in TakingModes /\ mode \in EarlyModes /\ mode # "WAIT_REQ"
      /\ "WAIT_FEED_START" \in TakingModes /\ "WAIT_PB_START" \in TakingModes
      /\ Expected[mode] \cap Asked["STACKER"] = {"STACKER_PULL"}
      /\ "STACKER_PULL" \in Expected["WAIT_FEED_START"]
      /\ "STACKER_PULL" \in Expected["WAIT_PB_START"]
      /\ "FEED_CENTERING" \in Expected["WAIT_FEED_START"]
      /\ "APB_HOME" \in Expected["WAIT_PB_START"]
  BY Modes DEF Expected, Asked, EarlyModes, LeavingModes
<1>1. CASE Proceed("WAIT_FEED_START", j, [FEED |-> "FEED_CENTERING"])
  BY <1>0, <1>1, ProceedJoins, RequestTypes
<1>2. CASE Proceed("WAIT_PB_START", j, [APB |-> "APB_HOME"])
  BY <1>0, <1>2, ProceedJoins, RequestTypes
<1>3. CASE WaitReject \/ AlarmSub(j)
  BY <1>0, <1>3, EndJoins
<1> QED
  BY <1>1, <1>2, <1>3 DEF start_check

------------------------------------------------------------------------------
(* The handlers of the taking modes.                                          *)

LEMMA SensorActiveJoins ==
  ASSUME Joining, mode = "SENSOR_ACTIVE", accept_sensor_active PROVE Joined
<1>0. /\ mode \in TakingModes /\ mode \in EarlyModes /\ "PB_CENTERING_HOME" \in TakingModes
      /\ "PB_CENTERING_HOME" \in EarlyModes /\ "CIS_INIT" \in Tasks
      /\ Expected[mode] = {"CIS_INITIALIZE", "STACKER_PULL"}
      /\ Asked["CIS_INIT"] = {"CIS_INITIALIZE"} /\ Asked["STACKER"] = {"STACKER_HOME", "STACKER_PULL"}
      /\ Expected["PB_CENTERING_HOME"] = {"CENTERING_HOME", "STACKER_PULL"}
      /\ job \in Jobs /\ job.busy \subseteq {"CIS_INIT", "STACKER"}
      /\ \A t \in Alone \cap job.busy : Fin(t)
  BY Modes, TaskNames, Same, BusyTasks DEF Joining, Expected, Asked, EarlyModes, Alone, Movers
<1>1. CASE /\ m.code \in {"SENSOR_ACTIVE", "CIS_INITIALIZE"} /\ m.sub = "SUCCESS"
           /\ LET j == IF m.code = "CIS_INITIALIZE" THEN Done("CIS_INIT") ELSE job IN
              IF j.busy = {} \/ (j.busy = {"STACKER"} /\ second = 1)
              THEN \/ Proceed("PB_CENTERING_HOME", j, [CENTERING |-> "CENTERING_HOME"])
                   \/ start_check(j)
              ELSE Stay(j)
  <2> DEFINE j == IF m.code = "CIS_INITIALIZE" THEN Done("CIS_INIT") ELSE job
  <2>1. j \in Jobs /\ Settled(j)
    BY <1>0, <1>1, Recorded, SettledNone
  <2> HIDE DEF j
  <2>2. CASE Stay(j)
    BY <1>0, <2>1, <2>2, StayJoins DEF Clear
  <2>3. CASE j.busy \subseteq {"STACKER"} /\ start_check(j)
    BY <1>0, <2>1, <2>3, StartCheckJoins
  <2>4. CASE /\ j.busy \subseteq {"STACKER"}
             /\ Proceed("PB_CENTERING_HOME", j, [CENTERING |-> "CENTERING_HOME"])
    <3> DEFINE reqs == [CENTERING |-> "CENTERING_HOME"]
    <3>1. DOMAIN reqs = {"CENTERING"} /\ reqs["CENTERING"] = "CENTERING_HOME" /\ ReqsOK(reqs)
      BY RequestTypes
    <3> HIDE DEF reqs
    <3>2. /\ \A t \in DOMAIN reqs : reqs[t] \in Expected["PB_CENTERING_HOME"]
          /\ DOMAIN reqs \cap ({"ICB", "STACKER"} \cup j.busy) = {}
          /\ \A t \in j.busy : Expected[mode] \cap Asked[t] \subseteq Expected["PB_CENTERING_HOME"]
      BY <1>0, <2>4, <3>1
    <3> QED
      BY <1>0, <2>1, <2>4, <3>1, <3>2, ProceedJoins DEF reqs
  <2> QED
    BY <1>1, <2>2, <2>3, <2>4 DEF j
<1>2. CASE /\ m.code = "CIS_INITIALIZE" /\ m.sub = "ALARM"
           /\ Stay([Done("CIS_INIT") EXCEPT !.alarm = IF @ = {} THEN {"CIS_INIT"} ELSE @])
  <2> DEFINE j == [Done("CIS_INIT") EXCEPT !.alarm = IF @ = {} THEN {"CIS_INIT"} ELSE @]
  <2>1. j \in Jobs /\ j.busy = job.busy \ {"CIS_INIT"}
    BY <1>0 DEF Jobs, Done
  <2> HIDE DEF j
  <2>2. Stay(j)
    BY <1>2 DEF j
  <2> QED
    BY <1>0, <1>2, <2>1, <2>2, RecordJoins DEF Clear
<1>3. CASE SetInit \/ StatusAlarm
           \/ Default({"RESET", "SENSOR_ACTIVE", "CIS_INITIALIZE", "STACKER_PULL"})
  BY <1>0, <1>3, InitJoins, StatusJoins, DefaultJoins
<1>4. CASE m.code = "STACKER_PULL" /\ uba_stack(0)
  BY <1>0, <1>4, PullJoins
<1> QED
  BY <1>1, <1>2, <1>3, <1>4 DEF accept_sensor_active

LEMMA PbCenteringHomeJoins ==
  ASSUME Joining, mode = "PB_CENTERING_HOME", pb_centering_home PROVE Joined
<1>0. /\ mode \in TakingModes /\ mode \in EarlyModes /\ mode # "WAIT_REQ"
      /\ Expected[mode] = {"CENTERING_HOME", "STACKER_PULL"}
      /\ "CENTERING" \in Tasks /\ "CENTERING_HOME" \in Asked["CENTERING"]
      /\ job.busy \subseteq {"CENTERING", "STACKER"}
  BY Modes, TaskNames, BusyTasks DEF Expected, Asked, EarlyModes
<1>1. CASE m.code = "RESET" /\ Flag
  BY <1>0, <1>1, FlagJoins
<1>2. CASE m.code = "STACKER_PULL" /\ uba_stack(0)
  BY <1>0, <1>2, PullJoins
<1>3. CASE StatusOrInit \/ Default({"RESET", "CENTERING_HOME", "STACKER_PULL"})
  BY <1>0, <1>3, StatusJoins, DefaultJoins
<1>4. CASE m.code = "CENTERING_HOME" /\ m.sub \in {"SUCCESS", "ALARM"}
  <2>1. \A j \in {Done("CENTERING"), Failed("CENTERING")} :
          j \in Jobs /\ j.busy = job.busy \ {"CENTERING"} /\ Settled(j)
    BY <1>0, <1>4, Recorded
  <2>2. \A t \in Alone \cap job.busy : Fin(t)
    BY <1>0, <1>4 DEF Alone, Movers, Fin
  <2>3. CASE Stay(Done("CENTERING")) \/ Stay(Failed("CENTERING"))
    BY <1>0, <1>4, <2>1, <2>3, RecordJoins DEF Clear
  <2>4. CASE SetInit \/ AlarmSub(Done("CENTERING")) \/ AlarmSub(Failed("CENTERING"))
    BY <1>0, <2>4, EndJoins
  <2>5. CASE start_check(Done("CENTERING"))
    BY <1>0, <2>1, <2>2, <2>5, StartCheckJoins
  <2> QED
    BY <1>4, <2>3, <2>4, <2>5 DEF pb_centering_home, IfLast, StatusOrInit, Default
<1> QED
  BY <1>1, <1>2, <1>3, <1>4 DEF pb_centering_home

LEMMA WaitPbStartJoins ==
  ASSUME Joining, mode = "WAIT_PB_START", wait_pb_start PROVE Joined
<1>0. /\ mode \in TakingModes /\ mode \in EarlyModes /\ mode # "WAIT_REQ"
      /\ Expected[mode] = {"APB_HOME", "STACKER_PULL"}
      /\ Expected["WAIT_FEED_START"] = {"FEED_CENTERING", "APB_HOME", "STACKER_PULL"}
      /\ "WAIT_FEED_START" \in TakingModes
      /\ "APB" \in Tasks /\ "APB_HOME" \in Asked["APB"]
      /\ job \in Jobs /\ job.busy \subseteq {"APB", "STACKER"}
  BY Modes, TaskNames, BusyTasks, Same DEF Joining, Expected, Asked, EarlyModes, LeavingModes
<1>1. CASE m.code = "RESET" /\ Flag
  BY <1>0, <1>1, FlagJoins
<1>2. CASE m.code = "STACKER_PULL" /\ uba_stack(0)
  BY <1>0, <1>2, PullJoins
<1>3. CASE StatusOrInit \/ Default({"RESET", "APB_HOME", "STACKER_PULL"})
  BY <1>0, <1>3, StatusJoins, DefaultJoins
<1>4. ASSUME NEW j \in Jobs, Settled(j), j.busy \subseteq job.busy,
             Proceed("WAIT_FEED_START", j, [FEED |-> "FEED_CENTERING"])
      PROVE  Joined
  <2> DEFINE reqs == [FEED |-> "FEED_CENTERING"]
  <2>1. DOMAIN reqs = {"FEED"} /\ reqs["FEED"] = "FEED_CENTERING" /\ ReqsOK(reqs)
    BY RequestTypes
  <2> HIDE DEF reqs
  <2>2. /\ \A t \in DOMAIN reqs : reqs[t] \in Expected["WAIT_FEED_START"]
        /\ DOMAIN reqs \cap ({"ICB", "STACKER"} \cup j.busy) = {}
        /\ \A t \in j.busy : Expected[mode] \cap Asked[t] \subseteq Expected["WAIT_FEED_START"]
    BY <1>0, <1>4, <2>1
  <2> QED
    BY <1>0, <1>4, <2>1, <2>2, ProceedJoins DEF reqs
<1>5. CASE m.code = "APB_HOME" /\ m.sub \in {"SUCCESS", "ALARM"}
  <2>1. \A j \in {Done("APB"), Failed("APB")} :
          j \in Jobs /\ j.busy = job.busy \ {"APB"} /\ Settled(j)
    BY <1>0, <1>5, Recorded
  <2>2. CASE Stay(Done("APB")) \/ Stay(Failed("APB"))
    BY <1>0, <1>5, <2>1, <2>2, RecordJoins DEF Clear
  <2>3. CASE SetInit \/ AlarmSub(Done("APB")) \/ AlarmSub(Failed("APB"))
    BY <1>0, <2>3, EndJoins
  <2>4. CASE Proceed("WAIT_FEED_START", Done("APB"), [FEED |-> "FEED_CENTERING"])
    BY <1>4, <2>1, <2>4
  <2> QED
    BY <1>5, <2>2, <2>3, <2>4 DEF wait_pb_start, IfLast, StatusOrInit, Default
<1>6. CASE /\ m.code = "APB_HOME" /\ m.sub = "START"
           /\ Proceed("WAIT_FEED_START", job, [FEED |-> "FEED_CENTERING"])
  BY <1>0, <1>4, <1>6, SettledNone
<1> QED
  BY <1>1, <1>2, <1>3, <1>5, <1>6 DEF wait_pb_start

\* The success of the feed that main would ignore is not there to be read.
LEMMA NoEarlySuccess ==
  ASSUME Joining, mode = "WAIT_FEED_START", m.code = "FEED_CENTERING"
  PROVE  m.sub # "SUCCESS"
<1> SUFFICES ASSUME m.sub = "SUCCESS" PROVE FALSE
  OBVIOUS
<1>1. 1 \in At(Success) /\ Len(main_mbx) \in Nat
  BY ReadAt DEF Joining, Reading, Success
<1>2. \E k \in 1 .. Len(main_mbx) : k < 1
  BY <1>1 DEF Joining, JInv, StartFirst, At
<1> QED
  BY <1>1, <1>2

\* FEED_CENTERING_RSP and APB_HOME_RSP with a failure.
LEMMA FailedJoins ==
  ASSUME Joining, mode \in {"WAIT_FEED_START", "FEED_CENTERING"},
         \/ m.code = "FEED_CENTERING" /\ feed_failed
         \/ m.code = "APB_HOME" /\ apb_failed
  PROVE  Joined
<1>0. /\ mode # "WAIT_REQ" /\ {"APB", "FEED"} \subseteq Tasks
      /\ "APB_HOME" \in Asked["APB"] /\ "FEED_CENTERING" \in Asked["FEED"]
  BY TaskNames DEF Asked
<1>1. CASE m.code = "FEED_CENTERING" /\ feed_failed
  <2>1. m.sub # "START"
    BY <1>1 DEF feed_failed
  <2>2. \A j \in {Refused("FEED"), Failed("FEED")} : j \in Jobs /\ j.busy = job.busy \ {"FEED"}
    BY <1>0, <1>1, <2>1, Recorded
  <2>3. CASE Stay(Refused("FEED")) \/ Stay(Failed("FEED"))
    BY <1>0, <1>1, <2>1, <2>2, <2>3, RecordJoins DEF Clear
  <2>4. CASE /\ job.busy \ {"FEED"} = {}
             /\ SetInit \/ StackerNotHome \/ WaitReject \/ AlarmSub(Failed("FEED"))
    <3>1. \A t \in Alone \cap job.busy : Fin(t)
      BY <1>0, <1>1, <2>1, <2>4 DEF Fin
    <3> QED
      BY <1>0, <2>4, <3>1, EndJoins
  <2> QED
    BY <1>1, <2>2, <2>3, <2>4 DEF feed_failed, IfLast, StackerFirst
<1>2. CASE m.code = "APB_HOME" /\ apb_failed
  <2>1. m.sub # "START"
    BY <1>2 DEF apb_failed
  <2>2. Failed("APB") \in Jobs /\ Failed("APB").busy = job.busy \ {"APB"}
    BY <1>0, <1>2, <2>1, Recorded
  <2>3. CASE Stay(Failed("APB"))
    BY <1>0, <1>2, <2>1, <2>2, <2>3, RecordJoins DEF Clear
  <2>4. CASE job.busy \ {"APB"} = {} /\ (SetInit \/ WaitReject)
    <3>1. \A t \in Alone \cap job.busy : Fin(t)
      BY <2>4 DEF Alone, Movers
    <3> QED
      BY <1>0, <2>4, <3>1, EndJoins
  <2> QED
    BY <1>2, <2>2, <2>3, <2>4 DEF apb_failed, IfLast
<1> QED
  BY <1>1, <1>2

LEMMA WaitFeedStartJoins ==
  ASSUME Joining, mode = "WAIT_FEED_START", wait_feed_start PROVE Joined
<1>0. /\ mode \in TakingModes /\ mode \in EarlyModes /\ mode # "WAIT_REQ"
      /\ Expected[mode] = {"FEED_CENTERING", "APB_HOME", "STACKER_PULL"}
      /\ Expected["FEED_CENTERING"] = Expected[mode]
      /\ "APB" \in Tasks /\ "APB_HOME" \in Asked["APB"] /\ job \in Jobs
  BY Modes, TaskNames, Same DEF Joining, Expected, Asked, EarlyModes
<1>1. CASE m.code = "RESET" /\ Flag
  BY <1>0, <1>1, FlagJoins
<1>2. CASE m.code = "STACKER_PULL" /\ uba_stack(0)
  BY <1>0, <1>2, PullJoins
<1>3. CASE SetInit \/ StatusOrInit
           \/ Default({"RESET", "FEED_CENTERING", "APB_HOME", "STACKER_PULL"})
  BY <1>0, <1>3, InitJoins, StatusJoins, DefaultJoins
<1>4. CASE /\ m.code = "FEED_CENTERING" /\ m.sub = "START"
           /\ mode' = "FEED_CENTERING" /\ Tell(<< >>)
           /\ UNCHANGED <<job, reset, second, work>>
  <2>1. /\ mode' \in TakingModes /\ mode' \in EarlyModes /\ mode' \notin LeavingModes
        /\ mode' # "WAIT_FEED_START" /\ mode' # "CENTERING"
    BY <1>4, Modes DEF EarlyModes
  <2>2. \A t \in job'.busy : BitKept(t)
    BY <1>0, <1>4 DEF BitKept
  <2>3. \A t \in Tasks : BoundKept(t)
    BY <1>4 DEF BoundKept
  <2>4. TakingKept /\ LeavingKept
    BY <1>0, <1>4, <2>1, <2>3, TaskNames DEF TakingKept, FeedKept, HomeKept, LeavingKept
  <2>5. TellKept
    BY <1>4, TellsNothing
  <2>6. OutKept
    BY <1>4 DEF OutKept
  <2> QED
    BY <1>4, <2>2, <2>3, <2>4, <2>5, <2>6, TaskNames DEF Joined, Alone, Movers, Clear
<1>5. CASE (m.code = "FEED_CENTERING" /\ feed_failed) \/ (m.code = "APB_HOME" /\ apb_failed)
  BY <1>5, FailedJoins
<1>6. CASE m.code = "APB_HOME" /\ m.sub = "START" /\ Stay(job)
  BY <1>0, <1>6, SettledNone, StayJoins DEF Clear
<1>7. CASE m.code = "APB_HOME" /\ m.sub = "SUCCESS" /\ Stay(Done("APB"))
  <2>1. Done("APB") \in Jobs /\ Done("APB").busy = job.busy \ {"APB"}
    BY <1>0, <1>7, Recorded
  <2> QED
    BY <1>0, <1>7, <2>1, RecordJoins DEF Clear
<1> QED
  BY <1>1, <1>2, <1>3, <1>4, <1>5, <1>6, <1>7, NoEarlySuccess DEF wait_feed_start

\* The note is under the centering: nothing but the stacker may be busy.
LEMMA ToCenteringJoins ==
  ASSUME Joining, mode = "FEED_CENTERING", NEW j \in Jobs, Settled(j),
         j.busy \subseteq {"STACKER"}, to_centering(j)
  PROVE  Joined
<1> DEFINE reqs == [CENTERING |-> "CENTERING_EXEC"]
<1>1. DOMAIN reqs = {"CENTERING"} /\ reqs["CENTERING"] = "CENTERING_EXEC" /\ ReqsOK(reqs)
  BY RequestTypes
<1> HIDE DEF reqs
<1>2. /\ mode \in TakingModes /\ "CENTERING" \in TakingModes /\ "CENTERING" \notin EarlyModes
      /\ Expected["CENTERING"] = {"CENTERING_EXEC", "STACKER_PULL", "STACKER_HOME"}
      /\ Asked["STACKER"] \subseteq Expected["CENTERING"]
  BY Modes DEF Expected, Asked, EarlyModes
<1>3. /\ \A t \in DOMAIN reqs : reqs[t] \in Expected["CENTERING"]
      /\ DOMAIN reqs \cap ({"ICB", "STACKER"} \cup j.busy) = {}
      /\ \A t \in j.busy : Expected[mode] \cap Asked[t] \subseteq Expected["CENTERING"]
  BY <1>1, <1>2
<1> QED
  BY <1>1, <1>2, <1>3, ProceedJoins DEF to_centering, reqs

LEMMA FeedCenteringJoins ==
  ASSUME Joining, mode = "FEED_CENTERING", feed_centering PROVE Joined
<1>0. /\ mode \in TakingModes /\ mode \in EarlyModes /\ mode # "WAIT_REQ"
      /\ Expected[mode] = {"FEED_CENTERING", "APB_HOME", "STACKER_PULL"}
      /\ {"APB", "FEED"} \subseteq Tasks /\ job \in Jobs
      /\ "APB_HOME" \in Asked["APB"] /\ "FEED_CENTERING" \in Asked["FEED"]
      /\ job.busy \subseteq {"FEED", "APB", "STACKER"}
  BY Modes, TaskNames, Same, BusyTasks DEF Joining, Expected, Asked, EarlyModes
<1>1. CASE m.code = "RESET" /\ Flag
  BY <1>0, <1>1, FlagJoins
<1>2. CASE m.code = "STACKER_PULL" /\ uba_stack(0)
  BY <1>0, <1>2, PullJoins
<1>3. CASE StatusOrInit \/ Default({"RESET", "FEED_CENTERING", "APB_HOME", "STACKER_PULL"})
  BY <1>0, <1>3, StatusJoins, DefaultJoins
<1>4. CASE (m.code = "FEED_CENTERING" /\ feed_failed) \/ (m.code = "APB_HOME" /\ apb_failed)
  BY <1>4, FailedJoins
<1>5. CASE m.code = "APB_HOME" /\ m.sub = "START" /\ Stay(job)
  BY <1>0, <1>5, SettledNone, StayJoins DEF Clear
<1>6. CASE /\ m.code = "FEED_CENTERING" /\ m.sub = "SUCCESS"
           /\ LET j == Done("FEED") IN
              IF reset THEN SetInit
              ELSE IF "APB" \in j.busy THEN Stay(j)
              ELSE IF "STACKER" \in j.alarm THEN StackerNotHome
              ELSE IF "APB" \in j.alarm THEN WaitReject
              ELSE to_centering(j)
  <2>1. Done("FEED") \in Jobs /\ Done("FEED").busy = job.busy \ {"FEED"} /\ Settled(Done("FEED"))
    BY <1>0, <1>6, Recorded
  <2>2. \A t \in Alone \cap job.busy : Fin(t)
    BY <1>0, <1>6 DEF Alone, Movers, Fin
  <2>3. CASE SetInit \/ StackerNotHome \/ WaitReject
    BY <1>0, <2>2, <2>3, EndJoins
  <2>4. CASE Stay(Done("FEED"))
    BY <1>0, <1>6, <2>1, <2>4, RecordJoins DEF Clear
  <2>5. CASE "APB" \notin Done("FEED").busy /\ to_centering(Done("FEED"))
    BY <1>0, <2>1, <2>5, ToCenteringJoins
  <2> QED
    BY <1>6, <2>3, <2>4, <2>5
<1>7. CASE /\ m.code = "APB_HOME" /\ m.sub = "SUCCESS"
           /\ LET j == Done("APB") IN
              IF "FEED" \in j.busy THEN Stay(j)
              ELSE IF "STACKER" \in j.alarm THEN StackerNotHome
              ELSE to_centering(j)
  <2>1. Done("APB") \in Jobs /\ Done("APB").busy = job.busy \ {"APB"} /\ Settled(Done("APB"))
    BY <1>0, <1>7, Recorded
  <2>2. CASE Stay(Done("APB"))
    BY <1>0, <1>7, <2>1, <2>2, RecordJoins DEF Clear
  <2>3. CASE "FEED" \notin Done("APB").busy /\ StackerNotHome
    <3>1. \A t \in Alone \cap job.busy : Fin(t)
      BY <1>0, <2>1, <2>3 DEF Alone, Movers
    <3> QED
      BY <1>0, <2>3, <3>1, EndJoins
  <2>4. CASE "FEED" \notin Done("APB").busy /\ to_centering(Done("APB"))
    BY <1>0, <2>1, <2>4, ToCenteringJoins
  <2> QED
    BY <1>7, <2>2, <2>3, <2>4
<1> QED
  BY <1>1, <1>2, <1>3, <1>4, <1>5, <1>6, <1>7 DEF feed_centering

\* The stacker goes home while the note is centred.
LEMMA StackerAskedJoins ==
  ASSUME Joining, mode = "CENTERING", m.code = "CENTERING_EXEC", m.sub = "START",
         Proceed(mode, job, [STACKER |-> "STACKER_HOME"])
  PROVE  Joined
<1> DEFINE reqs == [STACKER |-> "STACKER_HOME"]
<1>1. DOMAIN reqs = {"STACKER"} /\ ReqsOK(reqs)
  BY RequestTypes
<1>2. /\ Ask(reqs) /\ Tell(<< >>) /\ mode' = mode /\ second' = NextSecond
      /\ job' = [job EXCEPT !.busy = @ \cup {"STACKER"}]
  BY DEF Proceed
<1> HIDE DEF reqs
<1>3. job'.busy = job.busy \cup {"STACKER"} /\ job'.reject = job.reject
  BY <1>2, Same DEF Joining, Jobs
<1>4. \A t \in Tasks \ {"STACKER"} : work'[t] = work[t]
  BY <1>1, <1>2, Asks
<1>5. /\ work["STACKER"] # << >> => work'["STACKER"] = work["STACKER"]
      /\ work["STACKER"] = << >> => work'["STACKER"] = <<"STACKER_HOME">>
  BY <1>1, <1>2, Asks, TaskNames
<1>6. ASSUME NEW t \in job'.busy PROVE BitKept(t)
  <2>1. CASE t = "STACKER"
    <3>1. work[t] \in {<< >>, <<"STACKER_PULL">>, <<"STACKER_HOME">>}
      BY <2>1 DEF Joining, Reading, IInv, OneCredit
    <3>2. work'[t] \in {<<"STACKER_PULL">>, <<"STACKER_HOME">>}
      BY <1>5, <2>1, <3>1
    <3>3. {"STACKER_PULL", "STACKER_HOME"} \subseteq Expected[mode']
      BY <1>2 DEF Expected
    <3>4. /\ Len(<<"STACKER_PULL">>) = 1 /\ <<"STACKER_PULL">>[1] = "STACKER_PULL"
          /\ Len(<<"STACKER_HOME">>) = 1 /\ <<"STACKER_HOME">>[1] = "STACKER_HOME"
      OBVIOUS
    <3>5. 1 \in 1 .. Len(work'[t]) /\ work'[t][1] \in Expected[mode']
      BY <3>2, <3>3, <3>4
    <3> QED
      BY <3>5 DEF BitKept
  <2>2. CASE t # "STACKER"
    <3>1. t \in job.busy /\ t \in Tasks
      BY <1>3, <2>2, Same DEF Joining, Jobs
    <3> QED
      BY <1>2, <1>4, <2>2, <3>1 DEF BitKept
  <2> QED
    BY <2>1, <2>2
<1>7. \A t \in Alone : BoundKept(t)
  BY <1>3, <1>4, TaskNames DEF BoundKept, Alone, Movers
<1>8. second = 0 => "STACKER" \notin job.busy /\ work["STACKER"] = << >>
  <2>1. m \in Starts("CENTERING_EXEC") /\ 1 \in At(Starts("CENTERING_EXEC"))
    BY ReadAt DEF Joining, Reading, Starts
  <2>2. mode \in TakingModes
    BY Modes
  <2> QED
    BY <2>1, <2>2 DEF Joining, JInv, HomeOnce, Moving, Bound
<1>9. second' = 0 => second = 0 /\ BoundKept("STACKER")
  <2>1. "STACKER_HOME" \in Requests
    BY TaskNames DEF Requests, Asked
  <2> QED
    BY <1>2, <1>3, <1>5, <1>8, <2>1, SecondKept DEF BoundKept
<1>10. TakingKept /\ LeavingKept
  BY <1>2, <1>4, <1>9, Modes, TaskNames DEF TakingKept, LeavingKept, FeedKept, HomeKept
<1>11. TellKept /\ Clear(mode', job')
  BY <1>2, TellsNothing DEF Clear
<1>12. OutKept
  BY <1>2, SecondKept DEF OutKept
<1> QED
  BY <1>6, <1>7, <1>10, <1>11, <1>12 DEF Joined

LEMMA CenteringExecJoins ==
  ASSUME Joining, mode = "CENTERING", centering_exec PROVE Joined
<1>0. /\ mode \in TakingModes /\ mode # "WAIT_REQ" /\ mode \notin EarlyModes
      /\ Expected[mode] = {"CENTERING_EXEC", "STACKER_PULL", "STACKER_HOME"}
      /\ "CENTERING" \in Tasks /\ "CENTERING_EXEC" \in Asked["CENTERING"]
  BY Modes, TaskNames DEF Expected, Asked
<1>1. CASE m.code = "RESET" /\ Flag
  BY <1>0, <1>1, FlagJoins
<1>2. CASE m.code \in {"STACKER_PULL", "STACKER_HOME"} /\ uba_stack(1)
  BY <1>0, <1>2, PullJoins
<1>3. CASE \/ StatusOrInit
           \/ Default({"RESET", "CENTERING_EXEC", "STACKER_PULL", "STACKER_HOME"})
  BY <1>0, <1>3, StatusJoins, DefaultJoins
<1>4. CASE m.code = "CENTERING_EXEC" /\ m.sub \in {"SUCCESS", "ALARM"}
  <2>1. \A j \in {Done("CENTERING"), Refused("CENTERING")} :
          j \in Jobs /\ j.busy = job.busy \ {"CENTERING"} /\ Settled(j)
    BY <1>0, <1>4, Recorded
  <2>2. CASE Stay(Done("CENTERING")) \/ Stay(Refused("CENTERING"))
    BY <1>0, <1>4, <2>1, <2>2, RecordJoins DEF Clear
  <2>3. ASSUME job.busy \ {"CENTERING"} = {}
        PROVE  \A t \in Alone \cap job.busy : Fin(t)
    BY <1>0, <1>4, <2>3 DEF Fin
  <2>4. CASE /\ job.busy \ {"CENTERING"} = {}
             /\ SetInit \/ StackerNotHome \/ WaitReject \/ AlarmSub(Done("CENTERING"))
    BY <1>0, <2>3, <2>4, EndJoins
  <2>5. CASE /\ job.busy \ {"CENTERING"} = {}
             /\ Proceed("FEED_ESCROW", Done("CENTERING"), [FEED |-> "FEED_ESCROW"])
    <3>1. "FEED_ESCROW" \in TakingModes /\ "FEED_ESCROW" \notin EarlyModes
      BY Modes
    <3>2. DOMAIN [FEED |-> "FEED_ESCROW"] = {"FEED"} /\ [FEED |-> "FEED_ESCROW"]["FEED"] = "FEED_ESCROW"
      OBVIOUS
    <3>3. "FEED_ESCROW" \in Expected["FEED_ESCROW"]
      BY DEF Expected
    <3> QED
      BY <1>0, <2>1, <2>5, <3>1, <3>2, <3>3, ProceedJoins, RequestTypes
  <2> QED
    BY <1>4, <2>1, <2>2, <2>4, <2>5
       DEF centering_exec, IfLast, StackerFirst, AlarmFirst, StatusOrInit, Default
<1>5. CASE /\ m.code = "CENTERING_EXEC" /\ m.sub = "START"
           /\ Proceed(mode, job, [STACKER |-> "STACKER_HOME"])
  BY <1>5, StackerAskedJoins
<1> QED
  BY <1>1, <1>2, <1>3, <1>4, <1>5 DEF centering_exec

LEMMA EscrowReachedJoins ==
  ASSUME Joining, mode = "FEED_ESCROW", NEW j \in Jobs, Settled(j), j.busy = {}, j.reject = {},
         EscrowReached(j)
  PROVE  Joined
<1>0. /\ {mode, "DISCRIMINATION", "WAIT_ACCEPT_REQ"} \subseteq TakingModes
      /\ {"DISCRIMINATION", "WAIT_ACCEPT_REQ"} \cap EarlyModes = {}
  BY Modes
<1>1. CASE Identify(j)
  <2> DEFINE reqs == [MGU |-> "MGU_READ", DISCRIMINATION |-> "VALIDATION",
                      SHUTTER |-> "SHUTTER_CLOSE"]
  <2>1. /\ DOMAIN reqs = {"MGU", "DISCRIMINATION", "SHUTTER"} /\ ReqsOK(reqs)
        /\ \A t \in DOMAIN reqs : reqs[t] \in Expected["DISCRIMINATION"]
    BY RequestTypes DEF Expected
  <2>2. Proceed("DISCRIMINATION", j, reqs)
    BY <1>1 DEF Identify
  <2> HIDE DEF reqs
  <2> QED
    BY <1>0, <2>1, <2>2, ProceedJoins
<1>2. CASE Proceed("WAIT_ACCEPT_REQ", j, << >>)
  <2> DEFINE reqs == << >>
  <2>1. DOMAIN reqs = {} /\ ReqsOK(reqs)
    BY RequestTypes
  <2> HIDE DEF reqs
  <2>2. Proceed("WAIT_ACCEPT_REQ", j, reqs)
    BY <1>2 DEF reqs
  <2> QED
    BY <1>0, <2>1, <2>2, ProceedJoins
<1> QED
  BY <1>1, <1>2 DEF EscrowReached

LEMMA FeedEscrowJoins ==
  ASSUME Joining, mode = "FEED_ESCROW", feed_escrow PROVE Joined
<1> DEFINE late == [Done("FEED") EXCEPT !.alarm = IF @ = {} THEN {"FEED"} ELSE @]
<1>0. /\ mode \in TakingModes /\ mode # "WAIT_REQ" /\ Expected[mode] = {"FEED_ESCROW"}
      /\ "FEED" \in Tasks /\ "FEED_ESCROW" \in Asked["FEED"] /\ job.busy \subseteq {"FEED"}
  BY Modes, TaskNames, BusyTasks DEF Expected, Asked
<1>1. CASE m.code = "RESET" /\ Flag
  BY <1>0, <1>1, FlagJoins
<1>2. CASE StatusOrInit \/ Default({"RESET", "FEED_ESCROW"})
  BY <1>0, <1>2, StatusJoins, DefaultJoins
<1>3. CASE m.code = "FEED_ESCROW" /\ m.sub \in {"SUCCESS", "REJECT", "ALARM"}
  <2>1. \A j \in {Done("FEED"), Refused("FEED")} :
          j \in Jobs /\ j.busy = job.busy \ {"FEED"} /\ Settled(j)
    BY <1>0, <1>3, Recorded
  <2>2. late \in Jobs /\ late.busy = job.busy \ {"FEED"}
    BY <1>0, <2>1 DEF Jobs
  <2> HIDE DEF late
  <2>3. CASE Stay(Done("FEED")) \/ Stay(Refused("FEED")) \/ Stay(late)
    BY <1>0, <1>3, <2>1, <2>2, <2>3, RecordJoins DEF Clear
  <2>4. \A t \in Alone \cap job.busy : Fin(t)
    BY <1>0, <1>3 DEF Fin
  <2>5. CASE SetInit \/ WaitReject \/ AlarmSub(Done("FEED"))
    BY <1>0, <2>4, <2>5, EndJoins
  <2>6. CASE Done("FEED").reject = {} /\ EscrowReached(Done("FEED"))
    BY <1>0, <2>1, <2>6, EscrowReachedJoins
  <2> QED
    BY <1>3, <2>3, <2>5, <2>6
       DEF feed_escrow, IfLast, AlarmFirst, late, StatusOrInit, Default
<1> QED
  BY <1>1, <1>2, <1>3 DEF feed_escrow

LEMMA WaitAcceptReqJoins ==
  ASSUME Joining, mode = "WAIT_ACCEPT_REQ", accept_wait_accept_req PROVE Joined
<1>0. /\ mode \in TakingModes /\ mode # "WAIT_REQ" /\ Expected[mode] = {} /\ job.busy = {}
      /\ job \in Jobs /\ "DISCRIMINATION" \in TakingModes /\ "DISCRIMINATION" \notin EarlyModes
  BY Modes, BusyTasks, Same DEF Joining, Expected
<1>1. CASE SetInit \/ StatusAlarm \/ Default({"RESET", "1ST_NOTE_DONE"})
  BY <1>0, <1>1, InitJoins, StatusJoins, DefaultJoins
<1>2. CASE /\ m.code = "1ST_NOTE_DONE"
           /\ mode' = "DISCRIMINATION" /\ second' = NextSecond
           /\ job' = [job EXCEPT !.busy = @ \cup {"MGU", "DISCRIMINATION", "SHUTTER"}]
           /\ work' = [work EXCEPT !["MGU"] = @ \o <<"MGU_READ", "MGU_READ">>,
                                   !["DISCRIMINATION"] = Append(@, "VALIDATION"),
                                   !["SHUTTER"] = <<"SHUTTER_CLOSE">>]
           /\ Tell(<< >>) /\ UNCHANGED reset
  <2>1. /\ work'["MGU"] = work["MGU"] \o <<"MGU_READ", "MGU_READ">>
        /\ work'["DISCRIMINATION"] = Append(work["DISCRIMINATION"], "VALIDATION")
        /\ work'["SHUTTER"] = <<"SHUTTER_CLOSE">>
        /\ \A t \in Tasks \ {"MGU", "DISCRIMINATION", "SHUTTER"} : work'[t] = work[t]
    BY <1>2, Same, TaskNames DEF Joining
  <2>2. work["DISCRIMINATION"] = << >>
    BY <1>0, FreeOrDone DEF Alone
  <2>3. work'["DISCRIMINATION"] = <<"VALIDATION">>
    BY <2>1, <2>2
  <2>4. \E i \in 1 .. Len(work'["MGU"]) : work'["MGU"][i] = "MGU_READ"
    <3>1. work["MGU"] \in Seq(Asked["MGU"]) /\ Len(work["MGU"]) \in Nat
      BY Same, TaskNames, LenProperties DEF Joining
    <3>2. /\ <<"MGU_READ", "MGU_READ">> \in Seq(Asked["MGU"])
          /\ Len(<<"MGU_READ", "MGU_READ">>) = 2 /\ <<"MGU_READ", "MGU_READ">>[1] = "MGU_READ"
      BY TaskNames DEF Asked
    <3>3. /\ Len(work'["MGU"]) = Len(work["MGU"]) + 2
          /\ work'["MGU"][Len(work["MGU"]) + 1] = "MGU_READ"
      BY <2>1, <3>1, <3>2, ConcatProperties
    <3> QED
      BY <3>1, <3>3
  <2>5. job'.busy = {"MGU", "DISCRIMINATION", "SHUTTER"} /\ job'.reject = job.reject
    BY <1>0, <1>2 DEF Jobs
  <2>6. ASSUME NEW t \in job'.busy PROVE BitKept(t)
    <3>1. Expected[mode'] = {"MGU_READ", "VALIDATION", "SHUTTER_CLOSE"}
      BY <1>2 DEF Expected
    <3>2. /\ Len(<<"VALIDATION">>) = 1 /\ <<"VALIDATION">>[1] = "VALIDATION"
          /\ Len(<<"SHUTTER_CLOSE">>) = 1 /\ <<"SHUTTER_CLOSE">>[1] = "SHUTTER_CLOSE"
      OBVIOUS
    <3>3. \E i \in 1 .. Len(work'[t]) : work'[t][i] \in {"MGU_READ", "VALIDATION", "SHUTTER_CLOSE"}
      <4>1. CASE t = "MGU"
        BY <2>4, <4>1
      <4>2. CASE t \in {"DISCRIMINATION", "SHUTTER"}
        <5>1. Len(work'[t]) = 1 /\ work'[t][1] \in {"VALIDATION", "SHUTTER_CLOSE"}
          BY <2>1, <2>3, <3>2, <4>2
        <5> QED
          BY <5>1
      <4> QED
        BY <2>5, <4>1, <4>2
    <3> QED
      BY <3>1, <3>3 DEF BitKept
  <2>7. \A t \in Alone \cup {"STACKER"} : BoundKept(t)
    <3>1. "VALIDATION" \in Requests /\ "SHUTTER_CLOSE" \in Requests
      BY TaskNames DEF Requests, Asked
    <3> QED
      BY <1>0, <2>1, <2>3, <2>5, <3>1, TaskNames DEF BoundKept, Alone, Movers
  <2>8. TakingKept /\ LeavingKept
    BY <1>0, <1>2, <2>1, <2>7, SecondKept, TaskNames, Modes
       DEF TakingKept, LeavingKept, FeedKept, HomeKept
  <2>9. Clear(mode', job')
    BY <1>2, <2>5 DEF Joining, JInv, Clear
  <2>10. TellKept /\ OutKept
    BY <1>2, TellsNothing, SecondKept DEF OutKept
  <2> QED
    BY <2>6, <2>7, <2>8, <2>9, <2>10 DEF Joined
<1> QED
  BY <1>1, <1>2 DEF accept_wait_accept_req

\* The note is offered: all three have answered, and none refused.
LEMMA OfferJoins ==
  ASSUME Joining, mode = "DISCRIMINATION", NEW j \in Jobs, j.busy = {}, j.reject = {},
         j.alarm = {}, \A t \in Alone \cap job.busy : Fin(t),
         ~reset, job.alarm = {}, job.reject = {},
         NEW denomi \in Accepted, Offer(j, denomi)
  PROVE  Joined
<1>1. /\ mode' = "WAIT_REQ" /\ job' = j /\ work' = work /\ second' = NextSecond
      /\ Tell(<<Msg("ACCEPT", "SUCCESS", denomi)>>)
      /\ mode' \in LeavingModes /\ mode' \notin TakingModes /\ mode \in TakingModes
  BY Modes DEF Offer, LeavingModes, TakingModes
<1>2. TellKept
  BY <1>1, TellKeeps, ToldTypes DEF ToldArgs
<1>3. \A t \in Alone : BoundKept(t)
  BY <1>1 DEF BoundKept
<1>4. TakingKept /\ LeavingKept
  BY <1>1 DEF TakingKept, LeavingKept
<1>5. OutKept
  BY <1>1, SecondKept DEF OutKept
<1> QED
  BY <1>1, <1>2, <1>3, <1>4, <1>5 DEF Joined, Clear

LEMMA ValidatedJoins ==
  ASSUME Joining, mode = "DISCRIMINATION", m.code = "VALIDATION", m.sub = "SUCCESS", validated
  PROVE  Joined
<1> DEFINE j == Done("DISCRIMINATION")
           kept == [j EXCEPT !.denomi = m.arg]
           dropped == [j EXCEPT !.reject = {"DISCRIMINATION"}]
<1>0. mode # "WAIT_REQ" /\ "DISCRIMINATION" \in Tasks /\ "VALIDATION" \in Asked["DISCRIMINATION"]
  BY TaskNames DEF Asked
<1>1. /\ j \in Jobs /\ j.busy = job.busy \ {"DISCRIMINATION"}
      /\ j.alarm = job.alarm /\ j.reject = job.reject
  BY <1>0, Recorded
<1>2. /\ dropped \in Jobs /\ (m.arg \in Accepted => kept \in Jobs)
      /\ dropped.busy = j.busy /\ kept.busy = j.busy /\ kept.reject = j.reject
      /\ dropped.reject = {"DISCRIMINATION"} /\ (m.arg \in Accepted => kept.denomi = m.arg)
  BY <1>0, <1>1 DEF Jobs
<1>3. "DISCRIMINATION" \in job.busy /\ job.reject = {}
  <2>1. m \in Finals("DISCRIMINATION") /\ 1 \in At(Finals("DISCRIMINATION"))
    BY <1>0, ReadAt DEF Joining, Reading, Finals
  <2>2. Bound("DISCRIMINATION")
    BY DEF Joining, JInv, Moving, Alone
  <2> QED
    BY <2>1, <2>2 DEF Bound, Joining, JInv, Clear
<1> HIDE DEF j, kept, dropped
<1>4. CASE SetInit \/ AlarmSub(j)
  BY <1>0, <1>4, EndJoins
<1>5. CASE (m.arg \in Accepted /\ Stay(kept)) \/ Stay(dropped)
  <2>1. (m.arg \in Accepted => Clear(mode, kept)) /\ Clear(mode, dropped)
    BY <1>1, <1>2, <1>3 DEF Clear
  <2> QED
    BY <1>0, <1>1, <1>2, <1>5, <2>1, RecordJoins
<1>6. CASE j.busy = {} /\ (WaitReject \/ (m.arg \in Accepted /\ ~reset /\ j.alarm = {} /\ Offer(j, m.arg)))
  <2>1. \A t \in Alone \cap job.busy : Fin(t)
    BY <1>0, <1>1, <1>6 DEF Fin
  <2> QED
    BY <1>0, <1>1, <1>3, <1>6, <2>1, EndJoins, OfferJoins
<1> QED
  BY <1>1, <1>3, <1>4, <1>5, <1>6 DEF validated, RejectFirst, j, kept, dropped

LEMMA DiscriminationJoins ==
  ASSUME Joining, mode = "DISCRIMINATION", discrimination PROVE Joined
<1> DEFINE late == [Done("MGU") EXCEPT !.alarm = IF @ = {} THEN {"MGU"} ELSE @]
           dropped == [Done("DISCRIMINATION") EXCEPT !.reject = {"DISCRIMINATION"}]
<1>0. /\ mode \in TakingModes /\ mode # "WAIT_REQ"
      /\ Expected[mode] = {"MGU_READ", "VALIDATION", "SHUTTER_CLOSE"}
      /\ {"SHUTTER", "MGU", "DISCRIMINATION"} \subseteq Tasks
      /\ "SHUTTER_CLOSE" \in Asked["SHUTTER"] /\ "MGU_READ" \in Asked["MGU"]
      /\ "VALIDATION" \in Asked["DISCRIMINATION"]
  BY Modes, TaskNames DEF Expected, Asked
<1>1. CASE m.code = "RESET" /\ Flag
  BY <1>0, <1>1, FlagJoins
<1>2. CASE StatusOrInit \/ Default({"RESET", "SHUTTER_CLOSE", "MGU_READ", "VALIDATION"})
  BY <1>0, <1>2, StatusJoins, DefaultJoins
<1>3. CASE m.code = "VALIDATION" /\ m.sub = "SUCCESS" /\ validated
  BY <1>3, ValidatedJoins
<1>4. CASE /\ m.code = "VALIDATION" /\ m.sub = "REJECT"
           /\ LET j == Done("DISCRIMINATION") IN
              IF j.busy = {} THEN WaitReject ELSE Stay([j EXCEPT !.reject = {"DISCRIMINATION"}])
  <2>1. Done("DISCRIMINATION") \in Jobs /\ Done("DISCRIMINATION").busy = job.busy \ {"DISCRIMINATION"}
    BY <1>0, <1>4, Recorded
  <2>2. /\ dropped \in Jobs /\ dropped.busy = job.busy \ {"DISCRIMINATION"}
        /\ dropped.reject = {"DISCRIMINATION"}
    BY <1>0, <2>1 DEF Jobs
  <2> HIDE DEF dropped
  <2>3. CASE Stay(dropped)
    BY <1>0, <1>4, <2>2, <2>3, RecordJoins DEF Clear
  <2>4. CASE job.busy \ {"DISCRIMINATION"} = {} /\ WaitReject
    <3>1. \A t \in Alone \cap job.busy : Fin(t)
      BY <1>0, <1>4, <2>4 DEF Fin
    <3> QED
      BY <1>0, <2>4, <3>1, EndJoins
  <2> QED
    BY <1>4, <2>1, <2>3, <2>4 DEF dropped
<1>5. CASE m.code = "MGU_READ" /\ m.sub \in {"SUCCESS", "ALARM"}
  <2>1. /\ Done("MGU") \in Jobs /\ Done("MGU").busy = job.busy \ {"MGU"}
        /\ Done("MGU").reject = job.reject /\ Done("MGU").alarm = job.alarm
        /\ Done("MGU").denomi = job.denomi
    BY <1>0, <1>5, Recorded, Same DEF Joining, Done, Jobs
  <2>2. /\ late \in Jobs /\ late.busy = job.busy \ {"MGU"} /\ late.reject = job.reject
        /\ late.denomi = job.denomi
    BY <1>0, <2>1 DEF Jobs
  <2> HIDE DEF late
  <2>3. CASE Stay(Done("MGU")) \/ Stay(late)
    <3>1. Clear(mode, Done("MGU")) /\ Clear(mode, late)
      BY <2>1, <2>2 DEF Joining, JInv, Clear
    <3> QED
      BY <1>0, <1>5, <2>1, <2>2, <2>3, <3>1, RecordJoins
  <2>4. CASE job.busy \ {"MGU"} = {} /\ (SetInit \/ WaitReject \/ AlarmSub(Done("MGU")))
    <3>1. \A t \in Alone \cap job.busy : Fin(t)
      BY <2>4 DEF Alone, Movers
    <3> QED
      BY <1>0, <2>4, <3>1, EndJoins
  <2>5. CASE /\ job.busy \ {"MGU"} = {} /\ Done("MGU").reject = {} /\ Done("MGU").alarm = {}
             /\ ~reset /\ Offer(Done("MGU"), Done("MGU").denomi)
    <3>1. \A t \in Alone \cap job.busy : Fin(t)
      BY <2>5 DEF Alone, Movers
    <3>2. Done("MGU").denomi \in Accepted
      BY <2>1, <2>5 DEF Joining, JInv, Clear
    <3> QED
      BY <2>1, <2>5, <3>1, <3>2, OfferJoins
  <2> QED
    BY <1>5, <2>1, <2>3, <2>4, <2>5
       DEF discrimination, IfLast, AlarmFirst, late, StatusOrInit, Default
<1>6. CASE m.code = "SHUTTER_CLOSE" /\ m.sub \in {"SUCCESS", "ALARM"}
  <2>1. /\ Done("SHUTTER") \in Jobs /\ Done("SHUTTER").busy = job.busy \ {"SHUTTER"}
        /\ Done("SHUTTER").reject = job.reject /\ Done("SHUTTER").alarm = job.alarm
        /\ Done("SHUTTER").denomi = job.denomi
    BY <1>0, <1>6, Recorded, Same DEF Joining, Done, Jobs
  <2>2. CASE Stay(Done("SHUTTER"))
    <3>1. Clear(mode, Done("SHUTTER"))
      BY <2>1 DEF Joining, JInv, Clear
    <3> QED
      BY <1>0, <1>6, <2>1, <2>2, <3>1, RecordJoins
  <2>3. CASE AlarmSub(Done("SHUTTER")) \/ AlarmSub(Failed("SHUTTER")) \/ SetInit
    BY <1>0, <2>3, EndJoins
  <2>4. CASE job.busy \ {"SHUTTER"} = {} /\ WaitReject
    <3>1. \A t \in Alone \cap job.busy : Fin(t)
      BY <1>0, <1>6, <2>4 DEF Fin
    <3> QED
      BY <1>0, <2>4, <3>1, EndJoins
  <2>5. CASE /\ job.busy \ {"SHUTTER"} = {} /\ Done("SHUTTER").reject = {} /\ Done("SHUTTER").alarm = {}
             /\ ~reset /\ Offer(Done("SHUTTER"), Done("SHUTTER").denomi)
    <3>1. \A t \in Alone \cap job.busy : Fin(t)
      BY <1>0, <1>6, <2>5 DEF Fin
    <3>2. Done("SHUTTER").denomi \in Accepted
      BY <2>1, <2>5 DEF Joining, JInv, Clear
    <3> QED
      BY <2>1, <2>5, <3>1, <3>2, OfferJoins
  <2> QED
    BY <1>6, <2>1, <2>2, <2>3, <2>4, <2>5
       DEF discrimination, IfLast, AlarmFirst, RejectFirst, StatusOrInit, Default
<1> QED
  BY <1>1, <1>2, <1>3, <1>4, <1>5, <1>6 DEF discrimination

------------------------------------------------------------------------------
(* The handlers of the leaving modes.                                         *)

LEMMA GiveBackJoins ==
  ASSUME Joining, mode \in LeavingModes, Back, \A t \in Movers \cap job.busy : Fin(t),
         NEW j, GiveBack(j)
  PROVE  Joined
<1>1. mode' = "REJECT" /\ mode' \notin AcceptModes
  BY Modes DEF GiveBack
<1>2. PICK told \in {<< >>, <<Msg("ACCEPT", "REJECT", NoDenomi)>>} : Tell(told)
  BY DEF GiveBack
<1>3. told \in Tales
  BY <1>2, ToldTypes DEF ToldArgs
<1>4. OutKept
  BY <1>1, SecondKept DEF OutKept, GiveBack, TakingModes, AcceptModes
<1> QED
  BY <1>1, <1>2, <1>3, <1>4, LeaveJoins

LEMMA LeavingFacts ==
  ASSUME Joining, mode \in LeavingModes
  PROVE  /\ mode \in AcceptModes /\ mode \notin TakingModes
         /\ Expected[mode] = {"ICB_REJECT", "SHUTTER_OPEN", "CENTERING_HOME"}
         /\ job \in Jobs /\ job.busy \subseteq {"ICB", "SHUTTER", "CENTERING"}
         /\ {"ICB", "SHUTTER", "CENTERING", "FEED"} \subseteq Tasks
         /\ "ICB_REJECT" \in Asked["ICB"] /\ "SHUTTER_OPEN" \in Asked["SHUTTER"]
         /\ "CENTERING_HOME" \in Asked["CENTERING"]
         /\ mode = "WAIT_REQ" => job.reject = {} /\ "STACKER" \notin job.alarm
         /\ mode = "WAIT_REJECT_REQ" => NextSecond = 0
<1>1. Expected[mode] = {"ICB_REJECT", "SHUTTER_OPEN", "CENTERING_HOME"}
  BY DEF Expected, LeavingModes
<1>2. mode = "WAIT_REQ" => job.reject = {} /\ "STACKER" \notin job.alarm
  BY DEF Joining, JInv, Clear
<1>3. mode \in AcceptModes /\ mode \notin TakingModes
  BY Modes
<1> QED
  BY <1>1, <1>2, <1>3, TaskNames, Same, BusyTasks, SecondKept DEF Joining, Asked

\* The turn to send the note back is taken: no motor on its path is busy.
LEMMA TurnTaken ==
  ASSUME Joining, m.code \in {"REJECT", "ICB_REJECT"}
  PROVE  mode \in LeavingModes /\ job.busy \cap Movers = {} /\ Back
<1>1. 1 \in At(Refusal)
  BY ReadAt DEF Joining, Reading, Refusal, Coded
<1> QED
  BY <1>1 DEF Joining, JInv, Backward

\* Main asks without leaving its mode.
LEMMA OpenJoins ==
  ASSUME Joining, m.code \in {"REJECT", "ICB_REJECT"}, m.sub # "START",
         NEW j \in Jobs, j.reject = job.reject, j.alarm = job.alarm,
         NEW h \in SUBSET {"CENTERING", "SHUTTER"},
         Proceed(mode, [j EXCEPT !.busy = {}], OpenWay(h))
  PROVE  Joined
<1> DEFINE reqs == OpenWay(h)
<1>0. mode \in LeavingModes /\ job.busy \cap Movers = {}
  BY TurnTaken
<1>1. /\ DOMAIN reqs = h /\ ReqsOK(reqs)
      /\ \A t \in h : reqs[t] \in {"SHUTTER_OPEN", "CENTERING_HOME"}
  BY RequestTypes DEF OpenWay
<1>2. /\ Ask(reqs) /\ Tell(<< >>) /\ mode' = mode /\ second' = NextSecond
      /\ job'.busy = h /\ job'.reject = job.reject /\ job'.alarm = job.alarm
  BY <1>1 DEF Proceed, Jobs
<1> HIDE DEF reqs
<1>3. ASSUME NEW t \in job'.busy PROVE BitKept(t)
  <2>1. t \in DOMAIN reqs /\ reqs[t] \in Expected[mode'] /\ t # "STACKER"
    BY <1>0, <1>1, <1>2, LeavingFacts
  <2> QED
    BY <1>1, <1>2, <2>1, AskedIn DEF BitKept
<1>4. ASSUME NEW t \in Alone PROVE BoundKept(t)
  <2>1. t \in Tasks /\ t \notin job.busy
    BY <1>0, LeavingFacts, TaskNames DEF Alone, Movers
  <2>2. CASE t \in h
    <3>1. work'[t] = << reqs[t] >>
      BY <1>1, <1>2, <2>1, <2>2, Asks DEF Motors
    <3>2. reqs[t] \in Requests
      BY <1>1, <2>1, <2>2 DEF ReqsOK, Requests
    <3> QED
      BY <1>2, <2>1, <2>2, <3>1, <3>2 DEF BoundKept
  <2>3. CASE t \notin h
    BY <1>1, <1>2, <2>1, <2>3, Asks DEF BoundKept
  <2> QED
    BY <2>2, <2>3
<1>5. work'["ICB"] = work["ICB"]
  BY <1>0, <1>1, <1>2, Asks, LeavingFacts
<1>6. LeavingKept /\ TakingKept
  BY <1>0, <1>2, <1>5, LeavingFacts DEF LeavingKept, TakingKept
<1>7. TellKept /\ Clear(mode', job')
  BY <1>0, <1>2, TellsNothing, LeavingFacts DEF Clear, LeavingModes
<1>8. OutKept
  BY <1>0, <1>2, SecondKept, LeavingFacts DEF OutKept, LeavingModes
<1> QED
  BY <1>3, <1>4, <1>6, <1>7, <1>8 DEF Joined

LEMMA InhibitJoins ==
  ASSUME Joining, m.code = "REJECT", Proceed(mode, job, [ICB |-> "ICB_REJECT"])
  PROVE  Joined
<1> DEFINE reqs == [ICB |-> "ICB_REJECT"]
<1>0. mode \in LeavingModes
  BY TurnTaken
<1>1. DOMAIN reqs = {"ICB"} /\ reqs["ICB"] = "ICB_REJECT" /\ ReqsOK(reqs)
  BY RequestTypes
<1>2. /\ Ask(reqs) /\ Tell(<< >>) /\ mode' = mode /\ second' = NextSecond
      /\ job'.busy = job.busy \cup {"ICB"} /\ job'.reject = job.reject /\ job'.alarm = job.alarm
  BY <1>0, LeavingFacts DEF Proceed, Jobs
<1> HIDE DEF reqs
<1>3. /\ \A t \in Tasks \ {"ICB"} : work'[t] = work[t]
      /\ work'["ICB"] = Append(work["ICB"], "ICB_REJECT")
  BY <1>0, <1>1, <1>2, Asks, LeavingFacts DEF Motors
<1>4. ASSUME NEW t \in job'.busy PROVE BitKept(t)
  <2>1. CASE t = "ICB"
    <3>1. t \in DOMAIN reqs /\ reqs[t] \in Expected[mode']
      BY <1>0, <1>1, <1>2, <2>1, LeavingFacts
    <3> QED
      BY <1>1, <1>2, <2>1, <3>1, AskedIn DEF BitKept
  <2>2. CASE t # "ICB"
    <3>1. t \in job.busy /\ t \in Tasks /\ m.code \notin Expected[mode]
      BY <1>0, <1>2, <2>2, LeavingFacts
    <3> QED
      BY <1>2, <1>3, <2>2, <3>1 DEF BitKept
  <2> QED
    BY <2>1, <2>2
<1>5. \A t \in Alone : BoundKept(t)
  BY <1>2, <1>3, TaskNames DEF BoundKept, Alone, Movers
<1>6. LeavingKept /\ TakingKept
  BY <1>0, <1>2, <1>3, LeavingFacts DEF LeavingKept, TakingKept, Movers
<1>7. TellKept /\ Clear(mode', job')
  BY <1>0, <1>2, TellsNothing, LeavingFacts DEF Clear, LeavingModes
<1>8. OutKept
  BY <1>0, <1>2, SecondKept, LeavingFacts DEF OutKept, LeavingModes
<1> QED
  BY <1>4, <1>5, <1>6, <1>7, <1>8 DEF Joined

LEMMA ReturnJoins ==
  ASSUME Joining, m.code \in {"REJECT", "ICB_REJECT"}, m.sub # "START",
         NEW j \in Jobs, j.reject = job.reject, j.alarm = job.alarm, Return(j)
  PROVE  Joined
BY OpenJoins, GiveBackJoins, TurnTaken DEF Return

\* Only main sends no START of these, and the line task asks by REQ alone.
LEMMA ReturningJoins ==
  ASSUME Joining, mode \in LeavingModes, m.code = "REJECT" => m.sub = "REQ", returning
  PROVE  Joined
<1>0. /\ {"ICB", "SHUTTER", "CENTERING"} \subseteq Tasks
      /\ "ICB_REJECT" \in Asked["ICB"] /\ "SHUTTER_OPEN" \in Asked["SHUTTER"]
      /\ "CENTERING_HOME" \in Asked["CENTERING"]
      /\ job \in Jobs /\ job.busy \subseteq {"ICB", "SHUTTER", "CENTERING"}
  BY LeavingFacts
<1>1. CASE m.code = "REJECT" /\ (Return(job) \/ Proceed(mode, job, [ICB |-> "ICB_REJECT"]))
  BY <1>0, <1>1, ReturnJoins, InhibitJoins
<1>2. ASSUME NEW t \in {"ICB", "SHUTTER", "CENTERING"}, m.code \in Asked[t], m.sub # "START"
      PROVE  /\ Done(t) \in Jobs /\ Failed(t) \in Jobs
             /\ Done(t).alarm = job.alarm /\ Done(t).reject = job.reject
             /\ Stay(Done(t)) \/ Stay(Failed(t)) => Joined
             /\ SetInit \/ AlarmSub(Done(t)) \/ AlarmSub(Failed(t)) => Joined
             /\ Done(t).busy = {} /\ Done(t).reject # {} /\ WaitReject => Joined
             /\ Failed(t).busy = {} /\ "STACKER" \in Failed(t).alarm /\ StackerNotHome => Joined
             /\ t # "ICB" /\ Done(t).busy = {} /\ GiveBack(Done(t)) => Joined
  <2>1. /\ \A j \in {Done(t), Failed(t)} : j \in Jobs /\ j.busy = job.busy \ {t} /\ Settled(j)
        /\ Done(t).alarm = job.alarm /\ Done(t).reject = job.reject
        /\ Failed(t).alarm = job.alarm \cup {t} /\ Failed(t).reject = job.reject
    BY <1>0, <1>2, Recorded
  <2>2. Clear(mode, Done(t)) /\ Clear(mode, Failed(t))
    BY <2>1, LeavingFacts DEF Clear, LeavingModes
  <2>3. Stay(Done(t)) \/ Stay(Failed(t)) => Joined
    BY <1>0, <1>2, <2>1, <2>2, RecordJoins
  <2>4. SetInit \/ AlarmSub(Done(t)) \/ AlarmSub(Failed(t)) => Joined
    BY InitJoins, AlarmJoins
  <2>5. job.busy \ {t} = {} => \A u \in Alone \cap job.busy : Fin(u)
    BY <1>2 DEF Fin
  <2>6. Done(t).busy = {} /\ Done(t).reject # {} /\ WaitReject => Joined
    BY <2>1, <2>5, LeavingFacts, WaitRejectJoins
  <2>7. Failed(t).busy = {} /\ "STACKER" \in Failed(t).alarm /\ StackerNotHome => Joined
    BY <2>1, <2>5, LeavingFacts, WaitRejectJoins
  <2>8. t # "ICB" /\ Done(t).busy = {} /\ GiveBack(Done(t)) => Joined
    <3> SUFFICES ASSUME t # "ICB", Done(t).busy = {}, GiveBack(Done(t)) PROVE Joined
      OBVIOUS
    <3>1. m \in Finals(t) /\ 1 \in At(Finals(t)) /\ t \in Alone
      BY <1>2, ReadAt DEF Joining, Reading, Finals, Alone, Movers
    <3>2. t \in job.busy
      BY <3>1 DEF Joining, JInv, Moving, Bound
    <3>3. Back
      BY <3>2 DEF Joining, JInv, Backward
    <3> QED
      BY <2>1, <2>5, <3>3, GiveBackJoins DEF Alone
  <2> QED
    BY <2>1, <2>3, <2>4, <2>6, <2>7, <2>8
<1>3. CASE /\ m.code = "ICB_REJECT" /\ m.sub = "SUCCESS"
           /\ IF reset THEN SetInit ELSE Return(Done("ICB"))
  <2>1. /\ Done("ICB") \in Jobs /\ Done("ICB").alarm = job.alarm
        /\ Done("ICB").reject = job.reject /\ (SetInit => Joined)
    BY <1>0, <1>2, <1>3
  <2> QED
    BY <1>3, <2>1, ReturnJoins
<1>4. CASE /\ m.code = "ICB_REJECT" /\ m.sub = "ALARM"
           /\ LET j == Done("ICB") IN IfLast(j, IF reset THEN SetInit ELSE AlarmSub(j))
  BY <1>0, <1>2, <1>4 DEF IfLast
<1>5. CASE /\ m.code = "SHUTTER_OPEN" /\ m.sub = "SUCCESS"
           /\ LET j == Done("SHUTTER") IN
              IfLast(j, IF reset THEN SetInit
                        ELSE IF j.alarm # {} THEN AlarmSub(j) ELSE GiveBack(j))
  BY <1>0, <1>2, <1>5 DEF IfLast
<1>6. CASE /\ m.code = "SHUTTER_OPEN" /\ m.sub = "ALARM"
           /\ LET j == Failed("SHUTTER") IN IfLast(j, StackerFirst(j, AlarmSub(j)))
  BY <1>0, <1>2, <1>6 DEF IfLast, StackerFirst
<1>7. CASE /\ m.code = "CENTERING_HOME" /\ m.sub = "SUCCESS"
           /\ LET j == Done("CENTERING") IN IfLast(j, AlarmFirst(j, GiveBack(j)))
  BY <1>0, <1>2, <1>7 DEF IfLast, AlarmFirst
<1>8. CASE /\ m.code = "CENTERING_HOME" /\ m.sub = "ALARM"
           /\ LET j == Failed("CENTERING") IN IfLast(j, StackerFirst(j, AlarmSub(j)))
  BY <1>0, <1>2, <1>8 DEF IfLast, StackerFirst
<1> QED
  BY <1>1, <1>3, <1>4, <1>5, <1>6, <1>7, <1>8 DEF returning

LEMMA WaitReqJoins ==
  ASSUME Joining, mode = "WAIT_REQ", m.code = "REJECT" => m.sub = "REQ", accept_wait_req
  PROVE  Joined
<1>0. /\ mode \in LeavingModes
      /\ Expected[mode] \subseteq {"RESET", "STACK", "SENSOR"} \cup ReturnCases
  BY DEF LeavingModes, Expected, ReturnCases
<1>1. CASE SetInit \/ StatusAlarm \/ Default({"RESET", "STACK", "SENSOR"} \cup ReturnCases)
  BY <1>0, <1>1, InitJoins, StatusJoins, DefaultJoins
<1>2. CASE m.code = "STACK" /\ mode' = "STACK" /\ second' = 0
           /\ (Tell(<<Msg("ACCEPT", "REJECT", NoDenomi)>>) \/ Tell(<< >>))
  <2>1. << >> \in Tales /\ <<Msg("ACCEPT", "REJECT", NoDenomi)>> \in Tales
    BY ToldTypes DEF ToldArgs
  <2>2. mode' \notin AcceptModes
    BY <1>2, Modes
  <2>3. 1 \in At(Coded({"STACK"}))
    BY <1>2, ReadAt DEF Joining, Reading, Coded
  <2>4. job.busy = {} /\ line \in {"stack", "initial"}
    BY <2>3 DEF Joining, JInv, Onward
  <2>5. OutKept
    BY <1>0, <1>2, <2>4 DEF OutKept, TakingModes, AcceptModes
  <2> QED
    BY <1>2, <2>1, <2>2, <2>5, LeaveJoins
<1>3. CASE returning
  BY <1>0, <1>3, ReturningJoins
<1>4. CASE /\ m.code = "SENSOR" /\ UNCHANGED <<mvars, work>>
           /\ Tell(<<Msg("ACCEPT", "REJECT", NoDenomi)>>)
  <2>1. TellKept
    <3>1. mode' = mode /\ mode' \notin TakingModes
      BY <1>0, <1>4, LeavingFacts DEF mvars
    <3> QED
      BY <1>4, <3>1, TellKeeps, TaleTypes DEF ToldArgs
  <2>2. job \in Jobs /\ Settled(job) /\ Clear(mode, job)
    <3>1. job \in Jobs /\ m.code \notin Expected[mode]
      BY <1>0, <1>4, LeavingFacts
    <3> QED
      BY <3>1, SettledNone DEF Joining, JInv
  <2> QED
    BY <1>4, <2>1, <2>2, RestJoins DEF mvars
<1> QED
  BY <1>1, <1>2, <1>3, <1>4 DEF accept_wait_req, RejectSub

LEMMA WaitRejectReqJoins ==
  ASSUME Joining, mode = "WAIT_REJECT_REQ", m.code = "REJECT" => m.sub = "REQ",
         accept_wait_reject_req
  PROVE  Joined
<1>0. mode \in LeavingModes /\ Expected[mode] \subseteq {"RESET"} \cup ReturnCases
  BY DEF LeavingModes, Expected, ReturnCases
<1> QED
  BY <1>0, InitJoins, StatusJoins, DefaultJoins, ReturningJoins DEF accept_wait_reject_req

------------------------------------------------------------------------------
(* The mailbox, after a message is read and after one is sent.                *)

LEMMA AtRead ==
  ASSUME IInv, main_mbx # << >>, main_mbx' = Tail(main_mbx), NEW S
  PROVE  \A i \in Nat : i \in At(S)' <=> i >= 1 /\ i + 1 \in At(S)
<1>1. main_mbx \in Seq(Messages) /\ Len(main_mbx) \in Nat
  BY BoxTypes, ReadAt
<1>2. /\ Len(main_mbx') = Len(main_mbx) - 1
      /\ \A i \in 1 .. Len(main_mbx') : main_mbx'[i] = main_mbx[i + 1]
  BY <1>1, HeadTailProperties
<1> QED
  BY <1>1, <1>2 DEF At

\* Reading takes nothing but the head away.
LEMMA ReadKeeps ==
  ASSUME IInv, main_mbx # << >>, main_mbx' = Tail(main_mbx), NEW S
  PROVE  /\ At(S) = {} => At(S)' = {}
         /\ One(At(S)) => One(At(S)')
         /\ m \in S /\ One(At(S)) => At(S)' = {}
         /\ m \notin S /\ At(S) # {} => At(S)' # {}
<1>1. \A i \in Nat : i \in At(S)' <=> i >= 1 /\ i + 1 \in At(S)
  BY AtRead
<1>2. At(S) \subseteq Nat /\ At(S)' \subseteq Nat /\ \A i \in At(S) : i >= 1
  BY DEF At
<1>3. m \in S => 1 \in At(S)
  BY ReadAt
<1>4. m \notin S => 1 \notin At(S)
  BY ReadAt DEF At
<1>5. One(At(S)) => One(At(S)')
  BY <1>1, <1>2 DEF One
<1>6. m \in S /\ One(At(S)) => At(S)' = {}
  BY <1>1, <1>2, <1>3 DEF One
<1>7. ASSUME m \notin S, At(S) # {} PROVE At(S)' # {}
  <2>1. PICK i \in At(S) : i # 1
    BY <1>4, <1>7
  <2>2. i \in Nat /\ i >= 1
    BY <1>2, <2>1
  <2>3. i - 1 \in Nat /\ i - 1 >= 1 /\ (i - 1) + 1 = i
    BY <2>1, <2>2
  <2> QED
    BY <1>1, <2>1, <2>3
<1> QED
  BY <1>1, <1>2, <1>5, <1>6, <1>7

------------------------------------------------------------------------------
(* A handler keeps the invariant.                                             *)

LEMMA HandlerJoins ==
  ASSUME IInv, JInv, accept_msg_proc PROVE Joining /\ Joined
<1>1. main_mbx # << >> /\ Accepting
  BY DEF accept_msg_proc, Accepting, AcceptModes
<1>2. Joining
  BY <1>1 DEF Joining, Reading
<1>3. m.code = "REJECT" => m.sub = "REQ"
  <2>1. At(NoREQ) = {}
    BY <1>1 DEF JInv, Backward
  <2> QED
    BY <1>1, <2>1, ReadAt DEF NoREQ
<1> QED
  BY <1>2, <1>3, SensorActiveJoins, PbCenteringHomeJoins, WaitPbStartJoins, WaitFeedStartJoins,
     FeedCenteringJoins, CenteringExecJoins, FeedEscrowJoins, WaitAcceptReqJoins,
     DiscriminationJoins, WaitReqJoins, WaitRejectReqJoins DEF accept_msg_proc

\* A handler that stays in the accept mode.
Handled ==
  /\ Joining /\ accept_msg_proc /\ Joined
  /\ IInv' /\ mode' \in AcceptModes

LEMMA Handling ==
  ASSUME Handled
  PROVE  /\ IInv /\ main_mbx # << >> /\ main_mbx' = Tail(main_mbx)
         /\ JInv /\ mode \in AcceptModes /\ m \in Messages
         /\ \A t \in Tasks : work'[t] = work[t] => stage'[t] = stage[t]
         /\ \A t \in Tasks : work'[t] # work[t] => stage'[t] = "new"
         /\ UNCHANGED <<line, vend>>
BY ReadAt DEF Handled, Joining, Reading, accept_msg_proc, lvars, Accepting

LEMMA HandledAnswering ==
  ASSUME Handled PROVE Answering'
<1>1. ASSUME NEW t \in job'.busy
      PROVE  \E r \in Expected[mode'] \cap Asked[t] : Waits(t, r)'
  <2>1. t \in Tasks /\ work'[t] \in Seq(Asked[t])
    BY DEF Handled, IInv, TypeOK, MainOK, WorkOK
  <2>2. BitKept(t)
    BY DEF Handled, Joined
  <2>3. CASE \E i \in 1 .. Len(work'[t]) : work'[t][i] \in Expected[mode']
    <3> PICK i \in 1 .. Len(work'[t]) : work'[t][i] \in Expected[mode']
      BY <2>3
    <3>1. work'[t][i] \in Asked[t]
      BY <2>1
    <3> QED
      BY <3>1 DEF Waits
  <2>4. CASE /\ t \in job.busy /\ work'[t] = work[t]
             /\ Expected[mode] \cap Asked[t] \subseteq Expected[mode']
             /\ m.code \in Expected[mode] \cap Asked[t] => m.sub = "START"
    <3>1. PICK r \in Expected[mode] \cap Asked[t] : Waits(t, r)
      BY <2>4, Handling DEF JInv, Answering, Accepting
    <3>2. m \notin Ends(r)
      BY <2>4, <3>1 DEF Ends
    <3>3. At(Ends(r)) # {} => At(Ends(r))' # {}
      BY <3>2, ReadKeeps, Handling
    <3> QED
      BY <2>4, <3>1, <3>3 DEF Waits
  <2> QED
    BY <2>2, <2>3, <2>4 DEF BitKept
<1> QED
  BY <1>1 DEF Answering

LEMMA HandledBound ==
  ASSUME Handled, NEW t \in Tasks, Bound(t), BoundKept(t) PROVE Bound(t)'
<1>1. Fin(t) => m \in Finals(t) /\ At(Finals(t)) # {}
  BY Handling, ReadAt DEF Fin, Finals
<1>2. /\ At(Finals(t)) = {} => At(Finals(t))' = {}
      /\ One(At(Finals(t)))'
      /\ Fin(t) => At(Finals(t))' = {} /\ work[t] = << >>
  <2>1. One(At(Finals(t)))
    BY DEF Bound
  <2> QED
    BY <1>1, <2>1, ReadKeeps, Handling DEF Bound, One
<1>3. CASE work'[t] = work[t] /\ (t \in job.busy => t \in job'.busy \/ Fin(t))
  BY <1>2, <1>3 DEF Bound
<1>4. CASE /\ \E r \in Requests : work'[t] = << r >>
           /\ t \in job'.busy /\ (t \in job.busy => Fin(t))
  <2>1. Len(work'[t]) = 1
    BY <1>4
  <2>2. At(Finals(t))' = {}
    BY <1>2, <1>4 DEF Bound
  <2> QED
    BY <1>2, <1>4, <2>1, <2>2 DEF Bound
<1> QED
  BY <1>3, <1>4 DEF BoundKept

LEMMA HandledMoving ==
  ASSUME Handled PROVE Moving'
<1>1. Alone \subseteq Tasks /\ "STACKER" \in Tasks
  BY TaskNames DEF Alone, Movers
<1>2. ASSUME NEW t \in Alone PROVE Bound(t)'
  <2>1. Bound(t) /\ BoundKept(t)
    BY Handling DEF JInv, Moving, Accepting, Handled, Joined
  <2> QED
    BY <1>1, <2>1, HandledBound
<1>3. ASSUME mode' \in TakingModes, second' = 0 PROVE Bound("STACKER")'
  <2>1. mode \in TakingModes /\ second = 0 /\ BoundKept("STACKER")
    BY <1>3 DEF Handled, Joined, TakingKept
  <2>2. Bound("STACKER")
    BY <2>1, Handling DEF JInv, Moving
  <2> QED
    BY <1>1, <2>1, <2>2, HandledBound
<1> QED
  BY <1>2, <1>3 DEF Moving

LEMMA HandledStart ==
  ASSUME Handled PROVE StartFirst'
<1> SUFFICES ASSUME mode' = "WAIT_FEED_START"
             PROVE  /\ work'["FEED"] # << >> /\ stage'["FEED"] = "moving"
                         => At(Starts("FEED_CENTERING"))' # {}
                    /\ \A i \in At(Success)' : \E k \in At(Starts("FEED_CENTERING"))' : k < i
  BY DEF StartFirst
<1>0. mode' \in TakingModes /\ "FEED" \in Tasks
  BY TaskNames DEF TakingModes, AcceptModes, LeavingModes
<1>1. FeedKept
  BY <1>0 DEF Handled, Joined, TakingKept
<1>2. CASE /\ mode = "WAIT_FEED_START" /\ work'["FEED"] = work["FEED"]
           /\ ~(m.code = "FEED_CENTERING" /\ m.sub = "START")
  <2>1. m \notin Starts("FEED_CENTERING")
    BY <1>2 DEF Starts
  <2>2. ASSUME NEW i \in At(Success)'
        PROVE  \E k \in At(Starts("FEED_CENTERING"))' : k < i
    <3>1. i \in Nat /\ i + 1 \in At(Success)
      <4>1. i \in Nat
        BY DEF At
      <4> QED
        BY <4>1, AtRead, Handling
    <3>2. PICK k \in At(Starts("FEED_CENTERING")) : k < i + 1
      BY <1>2, <3>1, Handling DEF JInv, StartFirst
    <3>3. k \in Nat /\ k >= 1 /\ k # 1
      BY <2>1, ReadAt, Handling DEF At
    <3>4. k - 1 \in Nat /\ k - 1 >= 1 /\ (k - 1) + 1 = k /\ k - 1 < i
      BY <3>1, <3>2, <3>3
    <3>5. k - 1 \in At(Starts("FEED_CENTERING"))'
      BY <3>2, <3>4, AtRead, Handling
    <3> QED
      BY <3>4, <3>5
  <2>3. At(Starts("FEED_CENTERING")) # {} => At(Starts("FEED_CENTERING"))' # {}
    BY <2>1, ReadKeeps, Handling
  <2> QED
    BY <1>0, <1>2, <2>2, <2>3, Handling DEF JInv, StartFirst
<1>3. CASE /\ mode \in {"SENSOR_ACTIVE", "PB_CENTERING_HOME", "WAIT_PB_START"}
           /\ work'["FEED"] = <<"FEED_CENTERING">>
  <2>1. "FEED" \notin job.busy /\ Bound("FEED")
    BY <1>3, BusyTasks, Handling DEF Handled, JInv, Moving, Accepting, Alone, Movers
  <2>2. work["FEED"] = << >> /\ At(Finals("FEED")) = {}
    BY <2>1 DEF Bound
  <2>3. stage'["FEED"] = "new"
    BY <1>0, <1>3, <2>2, Handling
  <2>4. At(Success)' = {}
    <3>1. Success \subseteq Finals("FEED")
      BY DEF Success, Finals, Asked
    <3>2. At(Success) = {}
      BY <2>2, <3>1 DEF At
    <3> QED
      BY <3>2, ReadKeeps, Handling
  <2> QED
    BY <2>3, <2>4
<1> QED
  BY <1>1, <1>2, <1>3 DEF FeedKept

LEMMA HandledHome ==
  ASSUME Handled PROVE HomeOnce'
<1> DEFINE S == Starts("CENTERING_EXEC")
<1>1. /\ At(S) = {} => At(S)' = {}
      /\ One(At(S)) => One(At(S))'
      /\ m \in S /\ One(At(S)) => At(S)' = {}
      /\ m \in S => At(S) # {}
  BY ReadKeeps, ReadAt, Handling DEF One
<1>2. mode' \in EarlyModes \cup {"CENTERING"} => mode' \in TakingModes
  BY Modes
<1>3. mode' \in EarlyModes \cup {"CENTERING"} => HomeKept /\ (second' = 0 => second = 0)
  BY <1>2 DEF Handled, Joined, TakingKept
<1>4. HomeOnce
  BY Handling DEF JInv
<1>5. ASSUME mode' \in EarlyModes
      PROVE  /\ At(S)' = {} /\ work'["CENTERING"] \in {<< >>, <<"CENTERING_HOME">>}
             /\ second' = 0 => "STACKER" \notin job'.busy
  <2>1. /\ mode \in EarlyModes
        /\ work'["CENTERING"] \in {work["CENTERING"], <<"CENTERING_HOME">>}
        /\ "STACKER" \in job'.busy => "STACKER" \in job.busy
    BY <1>3, <1>5 DEF HomeKept
  <2> QED
    BY <1>1, <1>3, <1>4, <1>5, <2>1 DEF HomeOnce
<1>6. ASSUME mode' = "CENTERING"
      PROVE  /\ One(At(S))' /\ (Begins' => At(S)' = {})
             /\ second' = 0 /\ (Begins' \/ At(S)' # {}) => "STACKER" \notin job'.busy
  <2>1. CASE /\ mode = "FEED_CENTERING" /\ ("STACKER" \in job'.busy => "STACKER" \in job.busy)
    <3>1. mode \in EarlyModes
      BY <2>1 DEF EarlyModes
    <3>2. At(S)' = {} /\ One(At(S))'
      BY <1>1, <1>4, <3>1 DEF HomeOnce, One
    <3> QED
      BY <1>3, <1>4, <1>6, <2>1, <3>1, <3>2 DEF HomeOnce
  <2>2. CASE /\ mode = "CENTERING" /\ work'["CENTERING"] = work["CENTERING"]
             /\ \/ "STACKER" \in job'.busy => "STACKER" \in job.busy
                \/ m.code = "CENTERING_EXEC" /\ m.sub = "START"
    <3>1. Begins' => Begins
      BY <2>2, TaskNames, Handling DEF Begins
    <3>2. m.code = "CENTERING_EXEC" /\ m.sub = "START" => m \in S
      BY Handling DEF Starts
    <3> QED
      BY <1>1, <1>3, <1>4, <1>6, <2>2, <3>1, <3>2 DEF HomeOnce
  <2> QED
    BY <1>3, <1>6, <2>1, <2>2 DEF HomeKept
<1> QED
  BY <1>5, <1>6 DEF HomeOnce

\* The turn stays where it is, or the message read takes it on.
LEMMA HandledTurn ==
  ASSUME Handled
  PROVE  \/ mode' \in TakingModes /\ At(Refusal)' = {} /\ work'["ICB"] = << >>
         \/ /\ mode' \in LeavingModes /\ mode' # mode /\ mode \in TakingModes /\ job'.busy = {}
            /\ At(Refusal)' = {} /\ work'["ICB"] = << >>
         \/ /\ mode' \in LeavingModes /\ mode' = mode
            /\ job'.busy # {} => job.busy # {} \/ At(Refusal) # {}
            /\ \/ job'.busy \cap Movers \subseteq job.busy /\ work'["ICB"] = work["ICB"]
               \/ At(Refusal) # {} /\ At(Refusal)' = {} /\ work'["ICB"] = << >>
               \/ /\ At(Refusal) # {} /\ At(Refusal)' = {} /\ Len(work'["ICB"]) = 1
                  /\ job'.busy \cap Movers \subseteq job.busy
<1>0. Backward /\ Accepting
  BY Handling DEF JInv, Accepting
<1>1. mode \in TakingModes => At(Refusal)' = {} /\ work["ICB"] = << >>
  BY <1>0, Modes, ReadKeeps, Handling DEF Backward
<1>2. CASE mode' \in TakingModes
  <2>1. mode \in TakingModes /\ work'["ICB"] = work["ICB"]
    BY <1>2 DEF Handled, Joined, TakingKept
  <2> QED
    BY <1>1, <1>2, <2>1
<1>3. CASE mode' \in LeavingModes /\ mode' # mode
  BY <1>1, <1>3 DEF Handled, Joined, LeavingKept
<1>4. CASE mode' \in LeavingModes /\ mode' = mode
  <2>1. m.code \in {"REJECT", "ICB_REJECT"} =>
          At(Refusal) # {} /\ At(Refusal)' = {} /\ work["ICB"] = << >>
    <3>1. m.code \in {"REJECT", "ICB_REJECT"} => m \in Refusal
      BY Handling DEF Refusal, Coded
    <3>2. m \in Refusal => At(Refusal) # {}
      BY ReadAt, Handling
    <3>3. m \in Refusal => At(Refusal)' = {}
      BY <1>0, ReadKeeps, Handling DEF Backward
    <3> QED
      BY <1>0, <3>1, <3>2, <3>3 DEF Backward
  <2>2. Len(Append(<< >>, "ICB_REJECT")) = 1
    OBVIOUS
  <2> QED
    BY <1>4, <2>1, <2>2 DEF Handled, Joined, LeavingKept
<1> QED
  BY <1>2, <1>3, <1>4, Modes DEF Handled

LEMMA HandledBackward ==
  ASSUME Handled PROVE Backward'
<1>0. /\ Backward /\ line' = line
      /\ Len(<< >>) = 0 /\ (Back' <=> Back)
      /\ TakingModes \cap LeavingModes = {}
  BY Modes, Handling DEF JInv, Accepting, Back
<1>1. At(NoREQ)' = {}
  BY <1>0, ReadKeeps, Handling DEF Backward
<1>2. /\ At(Refusal) = {} => At(Refusal)' = {}
      /\ One(At(Refusal))'
  BY <1>0, ReadKeeps, Handling DEF Backward
<1>3. CASE mode' \in TakingModes /\ At(Refusal)' = {} /\ work'["ICB"] = << >>
  BY <1>0, <1>1, <1>2, <1>3 DEF Backward
<1>4. CASE /\ mode' \in LeavingModes /\ job'.busy = {}
           /\ At(Refusal)' = {} /\ work'["ICB"] = << >>
  BY <1>0, <1>1, <1>2, <1>4 DEF Backward
<1>5. CASE /\ mode' \in LeavingModes /\ mode' = mode
           /\ job'.busy # {} => job.busy # {} \/ At(Refusal) # {}
           /\ \/ job'.busy \cap Movers \subseteq job.busy /\ work'["ICB"] = work["ICB"]
              \/ At(Refusal) # {} /\ At(Refusal)' = {} /\ work'["ICB"] = << >>
              \/ /\ At(Refusal) # {} /\ At(Refusal)' = {} /\ Len(work'["ICB"]) = 1
                 /\ job'.busy \cap Movers \subseteq job.busy
  BY <1>0, <1>1, <1>2, <1>5 DEF Backward
<1> QED
  BY <1>3, <1>4, <1>5, HandledTurn

LEMMA HandledOnward ==
  ASSUME Handled PROVE Onward'
<1>0. Onward /\ line' = line /\ "WAIT_REQ" \in LeavingModes
  BY Handling DEF JInv, Accepting, LeavingModes
<1>1. mode = "WAIT_REQ" =>
        /\ mode' = "WAIT_REQ"
        /\ job'.busy # {} => job.busy # {} \/ At(Refusal) # {}
        /\ At(Refusal) = {} => work'["ICB"] = work["ICB"]
  <2>1. mode = "WAIT_REQ" => mode \notin TakingModes
    BY <1>0, Modes
  <2>2. mode' \in TakingModes => mode \in TakingModes
    BY DEF Handled, Joined, TakingKept
  <2> QED
    BY <2>1, <2>2, HandledTurn
<1>2. /\ At(Coded({"STACK"})) = {} => At(Coded({"STACK"}))' = {}
      /\ At(Refusal) = {} => At(Refusal)' = {}
  BY ReadKeeps, Handling
<1> QED
  BY <1>0, <1>1, <1>2 DEF Onward

\* What lies before the line task afterwards: what did, the credit, and what
\* the handler had to tell.
LEMMA LineGrows ==
  ASSUME Joining, TellKept
  PROVE  \A i \in 1 .. Len(line_mbx') :
           \/ i \in 1 .. Len(line_mbx) /\ line_mbx'[i] = line_mbx[i]
           \/ Credit # << >> /\ i = Len(line_mbx) + 1 /\ line_mbx'[i].sub = "VEND"
           \/ /\ line_mbx'[i].sub # "VEND" /\ mode' \notin TakingModes
              /\ mode' \in AcceptModes \ {"WAIT_REQ"} => line_mbx'[i].sub # "SUCCESS"
<1>1. PICK told \in Tales :
        /\ line_mbx' = line_mbx \o (Credit \o told)
        /\ mode' \in TakingModes => told = << >>
        /\ mode' \in AcceptModes \ {"WAIT_REQ"} =>
             \A i \in 1 .. Len(told) : told[i].sub # "SUCCESS"
  BY DEF TellKept
<1>2. line_mbx \in Seq(LineMessages) /\ Len(line_mbx) \in Nat
  BY BoxTypes DEF Joining, Reading
<1>3. /\ Credit \in Seq(LineMessages) /\ Len(Credit) \in {0, 1}
      /\ Len(Credit) = 1 => Credit # << >> /\ Credit[1].sub = "VEND"
  <2>1. Credit \in {<< >>, <<Msg("STACK", "VEND", NoDenomi)>>}
    BY DEF Credit
  <2>2. Msg("STACK", "VEND", NoDenomi) \in LineMessages /\ Msg("STACK", "VEND", NoDenomi).sub = "VEND"
    BY DEF Msg, LineMessages, ToldArgs
  <2>3. /\ Len(<< >>) = 0 /\ << >> \in Seq(LineMessages)
        /\ \A x \in LineMessages : /\ <<x>> \in Seq(LineMessages) /\ Len(<<x>>) = 1
                                   /\ <<x>>[1] = x /\ <<x>> # << >>
    OBVIOUS
  <2>4. CASE Credit = << >>
    BY <2>3, <2>4
  <2>5. CASE Credit = <<Msg("STACK", "VEND", NoDenomi)>>
    BY <2>2, <2>3, <2>5
  <2> QED
    BY <2>1, <2>4, <2>5
<1>4. /\ told \in Seq(LineMessages) /\ Len(told) \in {0, 1} /\ (told = << >> => Len(told) = 0)
      /\ \A i \in 1 .. Len(told) : told[i].sub # "VEND"
  <2>1. CASE told = << >>
    BY <2>1
  <2>2. CASE told # << >>
    <3> PICK x \in {y \in LineMessages : y.sub # "VEND"} : told = <<x>>
      BY <2>2 DEF Tales
    <3>1. <<x>> \in Seq(LineMessages) /\ Len(<<x>>) = 1 /\ <<x>>[1] = x
      OBVIOUS
    <3> QED
      BY <3>1, <2>2
  <2> QED
    BY <2>1, <2>2
<1> DEFINE more == Credit \o told
<1>5. /\ more \in Seq(LineMessages) /\ Len(more) = Len(Credit) + Len(told)
      /\ \A i \in 1 .. Len(more) :
           more[i] = IF i <= Len(Credit) THEN Credit[i] ELSE told[i - Len(Credit)]
  BY <1>3, <1>4, ConcatProperties
<1> HIDE DEF more
<1>6. /\ Len(line_mbx') = Len(line_mbx) + Len(more)
      /\ \A i \in 1 .. Len(line_mbx') :
           line_mbx'[i] = IF i <= Len(line_mbx) THEN line_mbx[i] ELSE more[i - Len(line_mbx)]
  BY <1>1, <1>2, <1>5, ConcatProperties DEF more
<1> TAKE i \in 1 .. Len(line_mbx')
<1>7. CASE i <= Len(line_mbx)
  BY <1>2, <1>6, <1>7
<1>8. CASE i > Len(line_mbx)
  <2> DEFINE k == i - Len(line_mbx)
  <2>1. k \in 1 .. Len(more) /\ line_mbx'[i] = more[k]
    BY <1>2, <1>3, <1>4, <1>5, <1>6, <1>8
  <2>2. CASE k <= Len(Credit)
    <3>1. k = 1 /\ Len(Credit) = 1 /\ more[k] = Credit[1] /\ i = Len(line_mbx) + 1
      BY <1>2, <1>3, <1>5, <2>1, <2>2
    <3> QED
      BY <1>3, <2>1, <3>1
  <2>3. CASE k > Len(Credit)
    <3>1. k - Len(Credit) \in 1 .. Len(told) /\ more[k] = told[k - Len(Credit)]
      BY <1>3, <1>4, <1>5, <2>1, <2>3
    <3>2. told # << >>
      BY <1>4, <3>1
    <3> QED
      BY <1>1, <1>4, <2>1, <3>1, <3>2
  <2> QED
    BY <1>3, <2>1, <2>2, <2>3
<1> QED
  BY <1>2, <1>7, <1>8

\* The credit is told while the note is taken in, once, and for a note ahead.
LEMMA CreditDue ==
  ASSUME Joining, Credit # << >>
  PROVE  /\ mode \in TakingModes /\ second # 0 /\ line \in {"second", "initial"}
         /\ vend = "none" /\ line_mbx = << >> /\ Vends = {}
<1>1. mode \in TakingModes /\ m.code = "STACKER_PULL"
  BY Modes DEF Credit, PullModes, EarlyModes
<1>2. 1 \in At(Coded({"STACKER_PULL"}))
  BY <1>1, ReadAt DEF Joining, Reading, Coded
<1>3. second # 0 /\ line \in {"second", "initial"}
  BY <1>1, <1>2 DEF Joining, JInv, Accord
<1>4. Pulled /\ vend = "none" /\ Vends = {}
  BY <1>1, ReadAt DEF Joining, Reading, Pulled, IInv, OneCredit, Vended, Vends
<1>5. line_mbx = << >>
  <2>1. line_mbx \in Seq(LineMessages) /\ Len(line_mbx) \in Nat
    BY BoxTypes DEF Joining, Reading
  <2>2. \A i \in 1 .. Len(line_mbx) : FALSE
    BY <1>1, <1>4 DEF Joining, JInv, Accord
  <2>3. Len(line_mbx) = 0
    BY <2>1, <2>2
  <2> QED
    BY <2>1, <2>3, EmptySeq
<1> QED
  BY <1>1, <1>3, <1>4, <1>5

LEMMA HandledAccord ==
  ASSUME Handled PROVE Accord'
<1>0. /\ Accord /\ line' = line /\ Joining /\ TellKept /\ TakingKept /\ LeavingKept /\ OutKept
      /\ Len(line_mbx) \in Nat
  BY Handling, BoxTypes DEF Handled, Joined, JInv, Accepting
<1>1. \A i \in 1 .. Len(line_mbx') :
        \/ i \in 1 .. Len(line_mbx) /\ line_mbx'[i] = line_mbx[i]
        \/ Credit # << >> /\ i = Len(line_mbx) + 1 /\ line_mbx'[i].sub = "VEND"
        \/ /\ line_mbx'[i].sub # "VEND" /\ mode' \notin TakingModes
           /\ mode' \in AcceptModes \ {"WAIT_REQ"} => line_mbx'[i].sub # "SUCCESS"
  BY <1>0, LineGrows
<1>2. ASSUME NEW i \in Vends'
      PROVE  i \in Vends \/ (Credit # << >> /\ i = Len(line_mbx) + 1)
  <2>1. i \in 1 .. Len(line_mbx') /\ line_mbx'[i].sub = "VEND"
    BY DEF Vends
  <2>2. i \in 1 .. Len(line_mbx) /\ line_mbx'[i] = line_mbx[i] => i \in Vends
    BY <2>1 DEF Vends
  <2> QED
    BY <1>1, <2>1, <2>2
<1>3. \A i \in Vends' : i = 1
  <2>1. Credit # << >> => Len(line_mbx) + 1 = 1
    BY <1>0, CreditDue
  <2> QED
    BY <1>0, <1>2, <2>1 DEF Accord
<1>4. Vends' # {} => line' \in {"second", "initial"}
  BY <1>0, <1>2, CreditDue DEF Accord
<1>5. ASSUME NEW i \in 1 .. Len(line_mbx'), line_mbx'[i].sub = "SUCCESS"
      PROVE  mode' = "WAIT_REQ"
  <2>1. mode = "WAIT_REQ" => mode' = "WAIT_REQ"
    <3>1. mode = "WAIT_REQ" => mode \notin TakingModes /\ mode' \notin TakingModes
      BY <1>0 DEF TakingKept, TakingModes, LeavingModes
    <3> QED
      BY <1>0, <3>1, Modes DEF LeavingKept, Handled
  <2>2. mode' \in AcceptModes /\ "VEND" # "SUCCESS"
    BY DEF Handled
  <2> QED
    BY <1>0, <1>1, <1>5, <2>1, <2>2 DEF Accord
<1>6. ASSUME mode' \in TakingModes
      PROVE  /\ \A i \in 1 .. Len(line_mbx') : i \in Vends'
             /\ line' \in {"accept", "second", "initial"}
             /\ line' = "accept" => second' = 0
             /\ second' = 0 => /\ work'["STACKER"] # <<"STACKER_PULL">> /\ Vends' = {}
                               /\ At(Coded({"STACKER_PULL"}))' = {}
  <2>1. mode \in TakingModes /\ (second' = 0 <=> second = 0)
    BY <1>0, <1>6 DEF TakingKept, OutKept
  <2>2. \A i \in 1 .. Len(line_mbx') : i \in Vends'
    <3>1. \A i \in 1 .. Len(line_mbx) : line_mbx[i].sub = "VEND"
      BY <1>0, <2>1 DEF Accord, Vends
    <3> QED
      BY <1>1, <1>6, <3>1 DEF Vends
  <2>3. ASSUME second' = 0
        PROVE  /\ work'["STACKER"] # <<"STACKER_PULL">> /\ Vends' = {}
               /\ At(Coded({"STACKER_PULL"}))' = {}
    <3>1. /\ work["STACKER"] # <<"STACKER_PULL">> /\ Vends = {}
          /\ At(Coded({"STACKER_PULL"})) = {}
      BY <1>0, <2>1, <2>3 DEF Accord
    <3>2. work'["STACKER"] \in {work["STACKER"], <<"STACKER_HOME">>}
      BY HandlerEffect, Handling DEF Handled, Effect, WorkKept
    <3>3. <<"STACKER_HOME">> # <<"STACKER_PULL">>
      OBVIOUS
    <3>4. Credit = << >>
      BY <1>0, <2>1, <2>3, CreditDue
    <3>5. At(Coded({"STACKER_PULL"}))' = {}
      BY <3>1, ReadKeeps, Handling
    <3> QED
      BY <1>2, <3>1, <3>2, <3>3, <3>4, <3>5
  <2> QED
    BY <1>0, <2>1, <2>2, <2>3 DEF Accord
<1>7. mode' = "WAIT_REJECT_REQ" => second' = 0
  BY <1>0 DEF LeavingKept, LeavingModes
<1> QED
  BY <1>3, <1>4, <1>5, <1>6, <1>7 DEF Accord

LEMMA HandlerJInv ==
  ASSUME IInv, JInv, accept_msg_proc PROVE JInv'
<1>1. Joining /\ Joined /\ IInv'
  BY HandlerJoins, HandlerInv
<1>2. CASE mode' \in AcceptModes
  <2>1. Handled
    BY <1>1, <1>2 DEF Handled
  <2>2. Clear(mode, job)'
    BY <1>1, <1>2 DEF Joined, Clear
  <2> QED
    BY <2>1, <2>2, HandledAnswering, HandledMoving, HandledStart, HandledHome,
       HandledBackward, HandledOnward, HandledAccord DEF JInv
<1>3. CASE mode' \notin AcceptModes
  <2>1. /\ ~Accepting' /\ mode' \notin TakingModes /\ mode' \notin EarlyModes
        /\ mode' \notin {"WAIT_FEED_START", "CENTERING", "WAIT_REQ", "WAIT_ACCEPT_REQ",
                         "DISCRIMINATION"}
    BY <1>3, Modes DEF Accepting, AcceptModes
  <2> QED
    BY <2>1 DEF JInv, Answering, Moving, StartFirst, HomeOnce, Clear
<1> QED
  BY <1>2, <1>3

------------------------------------------------------------------------------
(* What the device and line tasks send keeps the invariant.                   *)

LEMMA SendAt ==
  ASSUME IInv, NEW msg \in Messages, Send(msg), NEW S
  PROVE  /\ msg \notin S => At(S)' = At(S)
         /\ msg \in S => At(S)' = At(S) \cup {Len(main_mbx) + 1}
         /\ Len(main_mbx) \in Nat /\ \A i \in At(S) : i \in Nat /\ i < Len(main_mbx) + 1
<1>1. main_mbx \in Seq(Messages) /\ Len(main_mbx) \in Nat
  BY BoxTypes
<1>2. /\ Len(main_mbx') = Len(main_mbx) + 1
      /\ \A i \in 1 .. Len(main_mbx) : main_mbx'[i] = main_mbx[i]
      /\ main_mbx'[Len(main_mbx) + 1] = msg
  BY <1>1, AppendProperties DEF Send
<1>3. /\ \A i \in 1 .. Len(main_mbx') : i \in 1 .. Len(main_mbx) \/ i = Len(main_mbx) + 1
      /\ 1 .. Len(main_mbx) \subseteq 1 .. Len(main_mbx')
      /\ Len(main_mbx) + 1 \in 1 .. Len(main_mbx') /\ Len(main_mbx) + 1 \notin 1 .. Len(main_mbx)
  BY <1>1, <1>2
<1>4. msg \notin S => At(S)' = At(S)
  BY <1>2, <1>3 DEF At
<1>5. msg \in S => At(S)' = At(S) \cup {Len(main_mbx) + 1}
  BY <1>2, <1>3 DEF At
<1>6. \A i \in At(S) : i \in Nat /\ i < Len(main_mbx) + 1
  BY <1>1 DEF At
<1> QED
  BY <1>1, <1>4, <1>5, <1>6

LEMMA SendKeepsAt ==
  ASSUME IInv, NEW msg \in Messages, Send(msg), NEW S
  PROVE  /\ msg \notin S => At(S)' = At(S)
         /\ At(S) # {} => At(S)' # {}
         /\ msg \in S => At(S)' # {}
         /\ msg \in S /\ At(S) = {} => One(At(S))'
         /\ msg \notin S /\ One(At(S)) => One(At(S))'
<1>1. msg \notin S => At(S)' = At(S)
  BY SendAt
<1>2. msg \in S => At(S)' = At(S) \cup {Len(main_mbx) + 1}
  BY SendAt
<1> QED
  BY <1>1, <1>2 DEF One

LEMMA SendAnswering ==
  ASSUME IInv, JInv, NEW msg \in Messages, Send(msg), mode' = mode, job' = job,
         \A t \in Tasks, r \in Requests :
           (\E i \in 1 .. Len(work[t]) : work[t][i] = r) =>
             (\E i \in 1 .. Len(work'[t]) : work'[t][i] = r) \/ msg \in Ends(r)
  PROVE  Answering'
<1> SUFFICES ASSUME Accepting, NEW t \in job.busy
             PROVE  \E r \in Expected[mode] \cap Asked[t] : Waits(t, r)'
  BY DEF Answering, Accepting
<1>1. PICK r \in Expected[mode] \cap Asked[t] : Waits(t, r)
  BY DEF JInv, Answering
<1>2. t \in Tasks /\ r \in Requests
  BY Same DEF Jobs, Requests, IInv, TypeOK, MainOK
<1>3. /\ At(Ends(r)) # {} => At(Ends(r))' # {}
      /\ msg \in Ends(r) => At(Ends(r))' # {}
  BY SendKeepsAt
<1> QED
  BY <1>1, <1>2, <1>3 DEF Waits

LEMMA SendBound ==
  ASSUME IInv, NEW msg \in Messages, Send(msg), NEW t, Bound(t), msg \notin Finals(t),
         work'[t] = work[t], job' = job
  PROVE  Bound(t)'
<1>1. At(Finals(t))' = At(Finals(t)) /\ (One(At(Finals(t))) => One(At(Finals(t)))')
  BY SendKeepsAt
<1> QED
  BY <1>1 DEF Bound

LEMMA SendStart ==
  ASSUME IInv, JInv, NEW msg \in Messages, Send(msg), mode' = mode, msg \notin Success,
         \/ work'["FEED"] = work["FEED"] /\ stage'["FEED"] = stage["FEED"]
         \/ msg \in Starts("FEED_CENTERING")
  PROVE  StartFirst'
<1>1. At(Success)' = At(Success)
  BY SendKeepsAt
<1>2. /\ At(Starts("FEED_CENTERING")) \subseteq At(Starts("FEED_CENTERING"))'
      /\ msg \in Starts("FEED_CENTERING") => At(Starts("FEED_CENTERING"))' # {}
  BY SendAt
<1> QED
  BY <1>1, <1>2 DEF JInv, StartFirst

LEMMA SendHome ==
  ASSUME IInv, JInv, NEW msg \in Messages, Send(msg), UNCHANGED mvars,
         msg \notin Starts("CENTERING_EXEC"), work'["CENTERING"] = work["CENTERING"],
         stage'["CENTERING"] \in {stage["CENTERING"], "moving"}
  PROVE  HomeOnce'
<1>1. /\ At(Starts("CENTERING_EXEC"))' = At(Starts("CENTERING_EXEC"))
      /\ One(At(Starts("CENTERING_EXEC"))) => One(At(Starts("CENTERING_EXEC")))'
  BY SendKeepsAt
<1>2. Begins' => Begins
  BY DEF Begins
<1> QED
  BY <1>1, <1>2 DEF JInv, HomeOnce, mvars

\* A message about nothing main waits for, or asked itself for.
LEMMA SendBeside ==
  ASSUME IInv, JInv, Accepting, NEW msg \in Messages, Send(msg),
         \/ msg.code \in {"STATUS", "SENSOR", "1ST_NOTE_DONE", "RESET", "APB_HOME"}
         \/ msg.code = "FEED_CENTERING" /\ msg.sub = "START",
         UNCHANGED <<mvars, work, line_mbx>>, line' \in {line, "initial"},
         stage'["CENTERING"] \in {stage["CENTERING"], "moving"},
         \/ stage'["FEED"] = stage["FEED"]
         \/ msg.code = "FEED_CENTERING" /\ msg.sub = "START"
  PROVE  JInv'
<1>1. mode' = mode /\ job' = job /\ second' = second /\ work' = work /\ line_mbx' = line_mbx
  BY DEF mvars
<1>2. Answering'
  BY <1>1, SendAnswering
<1>3. ASSUME NEW t \in Alone \cup {"STACKER"} PROVE msg \notin Finals(t)
  <2>1. "APB_HOME" \notin Asked[t]
    BY DEF Alone, Movers, Asked
  <2>2. {"STATUS", "SENSOR", "1ST_NOTE_DONE", "RESET"} \cap Asked[t] = {}
    BY DEF Alone, Movers, Asked
  <2> QED
    BY <2>1, <2>2 DEF Finals
<1>4. Moving'
  <2>1. ASSUME NEW t \in Alone \cup {"STACKER"}, Bound(t) PROVE Bound(t)'
    BY <1>1, <1>3, <2>1, SendBound
  <2> QED
    BY <1>1, <2>1 DEF JInv, Moving, Accepting
<1>5. StartFirst'
  <2>1. msg \notin Success
    BY DEF Success
  <2>2. msg.code = "FEED_CENTERING" /\ msg.sub = "START" => msg \in Starts("FEED_CENTERING")
    BY DEF Starts
  <2> QED
    BY <1>1, <2>1, <2>2, SendStart
<1>6. HomeOnce'
  <2>1. msg \notin Starts("CENTERING_EXEC")
    BY DEF Starts
  <2> QED
    BY <1>1, <2>1, SendHome
<1>7. /\ At(Refusal)' = At(Refusal) /\ At(NoREQ)' = At(NoREQ)
      /\ At(Coded({"STACK"}))' = At(Coded({"STACK"}))
      /\ At(Coded({"STACKER_PULL"}))' = At(Coded({"STACKER_PULL"}))
  <2>1. /\ msg \notin Refusal /\ msg \notin NoREQ /\ msg \notin Coded({"STACK"})
        /\ msg \notin Coded({"STACKER_PULL"})
    BY DEF Refusal, NoREQ, Coded
  <2> QED
    BY <2>1, SendKeepsAt
<1>8. Backward' /\ Onward' /\ Accord'
  BY <1>1, <1>7 DEF JInv, Backward, Onward, Accord, Back, Vends, One
<1>9. Clear(mode, job)'
  BY <1>1 DEF JInv, Clear
<1> QED
  BY <1>2, <1>4, <1>5, <1>6, <1>8, <1>9 DEF JInv

LEMMA StartJInv ==
  ASSUME IInv, JInv, NEW t \in Tasks, Start(t) PROVE JInv'
<1> DEFINE r == Head(work[t])
           msg == Msg(Head(work[t]), "START", NoDenomi)
<1>1. /\ Accepting /\ work[t] # << >> /\ r \in Asked[t] /\ stage[t] # "moving"
      /\ Send(msg) /\ UNCHANGED <<mvars, work, line_mbx, lvars>>
      /\ stage' = [stage EXCEPT ![t] = "moving"]
      /\ r \in {"FEED_CENTERING", "CENTERING_EXEC", "APB_HOME"}
  BY HeadOfWork DEF Start, Busy, Unstarted
<1>2. msg \in Messages /\ msg.code = r /\ msg.sub = "START"
  BY <1>1, AnswerTypes DEF Msg, Messages, Denominations
<1>3. /\ stage'[t] = "moving" /\ \A u \in Tasks \ {t} : stage'[u] = stage[u]
  BY <1>1 DEF IInv, TypeOK, WorkOK
<1>4. /\ r = "FEED_CENTERING" <=> t = "FEED"
      /\ r = "CENTERING_EXEC" <=> t = "CENTERING"
  <2>1. \A u \in Tasks : /\ "FEED_CENTERING" \in Asked[u] => u = "FEED"
                         /\ "CENTERING_EXEC" \in Asked[u] => u = "CENTERING"
                         /\ "APB_HOME" \in Asked[u] => u = "APB"
    BY DEF Tasks, Asked
  <2> QED
    BY <1>1, <2>1
<1> HIDE DEF r, msg
<1>5. CASE t # "CENTERING"
  <2>1. \/ msg.code \in {"STATUS", "SENSOR", "1ST_NOTE_DONE", "RESET", "APB_HOME"}
        \/ msg.code = "FEED_CENTERING" /\ msg.sub = "START"
    BY <1>1, <1>2, <1>4, <1>5
  <2>2. \/ stage'["FEED"] = stage["FEED"]
        \/ msg.code = "FEED_CENTERING" /\ msg.sub = "START"
    BY <1>2, <1>3, <1>4, TaskNames
  <2>3. stage'["CENTERING"] \in {stage["CENTERING"], "moving"}
    BY <1>3, TaskNames
  <2>4. UNCHANGED <<mvars, work, line_mbx>> /\ line' = line
    BY <1>1 DEF lvars
  <2> QED
    BY <1>1, <1>2, <2>1, <2>2, <2>3, <2>4, SendBeside
<1>6. CASE t = "CENTERING"
  <2>0. /\ mode' = mode /\ job' = job /\ second' = second /\ work' = work
        /\ line_mbx' = line_mbx /\ line' = line
        /\ stage'["FEED"] = stage["FEED"] /\ msg.code = "CENTERING_EXEC"
        /\ Begins /\ ~Begins'
    BY <1>1, <1>2, <1>3, <1>4, <1>6, TaskNames DEF mvars, lvars, Begins
  <2>1. Answering'
    BY <1>1, <1>2, <2>0, SendAnswering
  <2>2. Moving'
    <3>1. ASSUME NEW u \in Alone \cup {"STACKER"}, Bound(u) PROVE Bound(u)'
      <4>1. msg \notin Finals(u)
        BY <1>2 DEF Finals
      <4> QED
        BY <1>1, <1>2, <2>0, <3>1, <4>1, SendBound
    <3> QED
      BY <2>0, <3>1 DEF JInv, Moving, Accepting
  <2>3. StartFirst'
    <3>1. msg \notin Success
      BY <1>2 DEF Success
    <3> QED
      BY <1>1, <1>2, <2>0, <3>1, SendStart
  <2>4. HomeOnce'
    <3>1. mode \notin EarlyModes
      <4>1. Head(<<"CENTERING_HOME">>) = "CENTERING_HOME"
        OBVIOUS
      <4> QED
        BY <1>1, <1>4, <1>6, <4>1 DEF JInv, HomeOnce, r
    <3>2. msg \in Starts("CENTERING_EXEC")
      BY <1>2, <2>0 DEF Starts
    <3>3. At(Starts("CENTERING_EXEC")) = {} => One(At(Starts("CENTERING_EXEC")))'
      BY <1>1, <1>2, <3>2, SendKeepsAt
    <3> QED
      BY <2>0, <3>1, <3>3 DEF JInv, HomeOnce
  <2>5. /\ At(Refusal)' = At(Refusal) /\ At(NoREQ)' = At(NoREQ)
        /\ At(Coded({"STACK"}))' = At(Coded({"STACK"}))
        /\ At(Coded({"STACKER_PULL"}))' = At(Coded({"STACKER_PULL"}))
    <3>1. /\ msg \notin Refusal /\ msg \notin NoREQ /\ msg \notin Coded({"STACK"})
          /\ msg \notin Coded({"STACKER_PULL"})
      BY <2>0 DEF Refusal, NoREQ, Coded
    <3> QED
      BY <1>1, <1>2, <3>1, SendKeepsAt
  <2>6. Backward' /\ Onward' /\ Accord'
    BY <1>1, <2>0, <2>5 DEF JInv, Backward, Onward, Accord, Back, Vends, One
  <2>7. Clear(mode, job)'
    BY <2>0 DEF JInv, Clear
  <2> QED
    BY <2>1, <2>2, <2>3, <2>4, <2>6, <2>7 DEF JInv
<1> QED
  BY <1>5, <1>6

LEMMA AsideJInv ==
  ASSUME IInv, JInv, HomeAlready \/ Fault \/ PaperMoved \/ HostAcks \/ HostResets PROVE JInv'
<1>1. "APB_HOME" \in Requests
  BY AnswerTypes, TaskNames DEF Asked
<1>2. /\ Accepting /\ UNCHANGED <<mvars, work, line_mbx>> /\ line' \in {line, "initial"}
  BY DEF HomeAlready, Fault, PaperMoved, HostAcks, HostResets, Busy, Accepting, AcceptModes,
         lvars, dvars
<1>3. stage'["CENTERING"] = stage["CENTERING"] /\ stage'["FEED"] = stage["FEED"]
  <2>1. CASE HomeAlready
    BY <2>1, TaskNames DEF HomeAlready, IInv, TypeOK, WorkOK
  <2>2. CASE Fault \/ PaperMoved \/ HostAcks \/ HostResets
    BY <2>2 DEF Fault, PaperMoved, HostAcks, HostResets, dvars
  <2> QED
    BY <2>1, <2>2
<1>4. PICK msg \in Messages :
        /\ Send(msg)
        /\ msg.code \in {"STATUS", "SENSOR", "1ST_NOTE_DONE", "RESET", "APB_HOME"}
  BY <1>1 DEF HomeAlready, Fault, PaperMoved, HostAcks, HostResets, Msg, Messages, Denominations
<1> QED
  BY <1>2, <1>3, <1>4, SendBeside

\* The MGU clears its own bit, which stands for nothing else.
LEMMA ClearsBusyJInv ==
  ASSUME IInv, JInv, ClearsBusy PROVE JInv'
<1>1. /\ UNCHANGED <<mode, reset, second, main_mbx, dvars, line_mbx, lvars>>
      /\ job' = Done("MGU") /\ job \in Jobs
  BY Same DEF ClearsBusy, Jobs, IInv, TypeOK, MainOK
<1>2. /\ job'.busy = job.busy \ {"MGU"} /\ job'.reject = job.reject
      /\ job'.alarm = job.alarm /\ job'.denomi = job.denomi
  BY <1>1 DEF Done, Jobs
<1>3. "MGU" \notin Alone \cup {"STACKER"} \cup Movers
  BY DEF Alone, Movers
<1>4. UNCHANGED <<mode, second, main_mbx, work, stage, line_mbx, line>>
  BY <1>1 DEF dvars, lvars
<1>5. Answering' /\ StartFirst'
  BY <1>2, <1>4 DEF JInv, Answering, Accepting, Waits, At, StartFirst
<1>6. ASSUME NEW t \in Alone \cup {"STACKER"}, Bound(t) PROVE Bound(t)'
  BY <1>2, <1>3, <1>4, <1>6 DEF Bound, At, One
<1>7. Moving'
  BY <1>4, <1>6 DEF JInv, Moving, Accepting
<1>8. HomeOnce'
  BY <1>2, <1>4 DEF JInv, HomeOnce, At, One, Begins
<1>9. Clear(mode, job)'
  BY <1>2, <1>4 DEF JInv, Clear
<1>10. Accepting' => Backward' /\ Onward' /\ Accord'
  BY <1>2, <1>4 DEF JInv, Backward, Onward, Accord, Back, Accepting, Vends, One, At
<1> QED
  BY <1>5, <1>7, <1>8, <1>9, <1>10 DEF JInv

\* A task answers: what was its oldest request is its answer now.
Answers(t, msg) ==
  /\ IInv /\ JInv /\ t \in Tasks /\ Accepting /\ work[t] # << >>
  /\ msg \in Messages /\ Send(msg) /\ msg.code = Head(work[t]) /\ msg.code \in Asked[t]
  /\ msg.sub # "START"
  /\ msg.code = "FEED_CENTERING" /\ msg.sub = "SUCCESS" => stage[t] = "moving"
  /\ work'[t] = Tail(work[t]) /\ \A u \in Tasks \ {t} : work'[u] = work[u]
  /\ stage'[t] = "new" /\ \A u \in Tasks \ {t} : stage'[u] = stage[u]
  /\ UNCHANGED <<mvars, line_mbx, lvars>>

LEMMA FinishAnswers ==
  ASSUME IInv, JInv, NEW t \in Tasks, Finish(t)
  PROVE  \E msg \in Messages : Answers(t, msg)
<1>1. /\ Accepting /\ work[t] # << >> /\ Head(work[t]) \in Asked[t]
      /\ work' = [work EXCEPT ![t] = Tail(@)] /\ stage' = [stage EXCEPT ![t] = "new"]
      /\ UNCHANGED <<mvars, line_mbx, lvars>>
  BY HeadOfWork DEF Finish, Busy
<1>2. PICK sub \in IF Head(work[t]) \in DOMAIN Unstarted /\ stage[t] # "moving"
                   THEN Unstarted[Head(work[t])] ELSE Results(Head(work[t])),
           arg \in Denominations :
             Send(Msg(Head(work[t]), sub, arg))
  BY DEF Finish, Denominations
<1>3. sub \in {"SUCCESS", "REJECT", "ALARM"}
  BY <1>1, <1>2, AnswerTypes
<1>4. Head(work[t]) = "FEED_CENTERING" /\ sub = "SUCCESS" => stage[t] = "moving"
  BY <1>2 DEF Unstarted
<1>5. /\ Msg(Head(work[t]), sub, arg) \in Messages
      /\ Msg(Head(work[t]), sub, arg).code = Head(work[t])
      /\ Msg(Head(work[t]), sub, arg).sub = sub
  BY <1>1, <1>3, AnswerTypes DEF Msg, Messages
<1>6. /\ work'[t] = Tail(work[t]) /\ \A u \in Tasks \ {t} : work'[u] = work[u]
      /\ stage'[t] = "new" /\ \A u \in Tasks \ {t} : stage'[u] = stage[u]
  BY <1>1 DEF IInv, TypeOK, WorkOK
<1> QED
  BY <1>1, <1>2, <1>3, <1>4, <1>5, <1>6 DEF Answers

LEMMA AnswersAnswering ==
  ASSUME NEW t, NEW msg, Answers(t, msg) PROVE Answering'
<1>1. mode' = mode /\ job' = job
  BY DEF Answers, mvars
<1>2. ASSUME NEW u \in Tasks, NEW r \in Requests, NEW i \in 1 .. Len(work[u]), work[u][i] = r
      PROVE  (\E k \in 1 .. Len(work'[u]) : work'[u][k] = r) \/ msg \in Ends(r)
  <2>1. CASE u # t
    BY <1>2, <2>1 DEF Answers
  <2>2. CASE u = t /\ i = 1
    <3>1. work[t] \in Seq(Asked[t]) /\ work[t] # << >>
      BY DEF Answers, IInv, TypeOK, WorkOK
    <3>2. msg.code = r
      BY <1>2, <2>2, <3>1 DEF Answers
    <3> QED
      BY <3>2 DEF Answers, Ends
  <2>3. CASE u = t /\ i # 1
    <3>1. work[t] \in Seq(Asked[t]) /\ work[t] # << >> /\ Len(work[t]) \in Nat
      BY LenProperties DEF Answers, IInv, TypeOK, WorkOK
    <3>2. /\ Len(Tail(work[t])) = Len(work[t]) - 1
          /\ \A k \in 1 .. Len(Tail(work[t])) : Tail(work[t])[k] = work[t][k + 1]
      BY <3>1, HeadTailProperties
    <3>3. i - 1 \in 1 .. Len(Tail(work[t])) /\ (i - 1) + 1 = i
      BY <2>3, <3>1, <3>2
    <3>4. Tail(work[t])[i - 1] = r
      BY <1>2, <2>3, <3>2, <3>3
    <3> QED
      BY <2>3, <3>3, <3>4 DEF Answers
  <2> QED
    BY <2>1, <2>2, <2>3
<1> QED
  BY <1>1, <1>2, SendAnswering DEF Answers

\* A bound task turns its one request into its one answer.
LEMMA AnswersBound ==
  ASSUME NEW t, NEW msg, Answers(t, msg), NEW u \in Tasks, Bound(u)
  PROVE  /\ Bound(u)' /\ (u = t => work'[u] = << >> /\ u \in job.busy)
<1>1. job' = job
  BY DEF Answers, mvars
<1>2. CASE u # t
  <2>1. msg \notin Finals(u)
    BY <1>2, AskedApart DEF Answers, Finals
  <2> QED
    BY <1>1, <1>2, <2>1, SendBound DEF Answers
<1>3. CASE u = t
  <2>1. Len(work[t]) = 1 /\ At(Finals(t)) = {} /\ t \in job.busy
    BY <1>3 DEF Answers, Bound
  <2>2. work'[t] = << >>
    <3>1. work[t] \in Seq(Asked[t]) /\ work[t] # << >>
      BY DEF Answers, IInv, TypeOK, WorkOK
    <3>2. Tail(work[t]) \in Seq(Asked[t]) /\ Len(Tail(work[t])) = Len(work[t]) - 1
      BY <3>1, HeadTailProperties
    <3>3. Len(Tail(work[t])) = 0
      BY <2>1, <3>2
    <3>4. Tail(work[t]) = << >>
      BY <3>2, <3>3, EmptySeq
    <3> QED
      BY <3>4 DEF Answers
  <2>3. msg \in Finals(t)
    BY DEF Answers, Finals
  <2>4. One(At(Finals(t)))'
    BY <2>1, <2>3, SendKeepsAt DEF Answers
  <2> QED
    BY <1>1, <1>3, <2>1, <2>2, <2>4 DEF Bound
<1> QED
  BY <1>2, <1>3

LEMMA AnswersMoving ==
  ASSUME NEW t, NEW msg, Answers(t, msg) PROVE Moving'
<1>1. Alone \subseteq Tasks /\ "STACKER" \in Tasks
  BY TaskNames DEF Alone, Movers
<1>2. mode' = mode /\ second' = second
  BY DEF Answers, mvars
<1>3. Moving
  BY DEF Answers, JInv
<1> QED
  BY <1>1, <1>2, <1>3, AnswersBound DEF Moving, Accepting

LEMMA AnswersStart ==
  ASSUME NEW t, NEW msg, Answers(t, msg) PROVE StartFirst'
<1>1. CASE msg \notin Success /\ t # "FEED"
  BY <1>1, TaskNames, SendStart DEF Answers, mvars
<1>2. CASE t = "FEED"
  <2> DEFINE S == Starts("FEED_CENTERING")
  <2>1. Bound("FEED") /\ mode' = mode /\ "FEED" \in Tasks /\ StartFirst
    BY TaskNames DEF Answers, JInv, Moving, Alone, Movers, mvars
  <2>2. work'["FEED"] = << >>
    BY <1>2, <2>1, AnswersBound
  <2>3. msg \notin S
    BY DEF Answers, Starts
  <2>4. At(S)' = At(S)
    BY <2>3, SendKeepsAt DEF Answers
  <2>5. /\ msg \notin Success => At(Success)' = At(Success)
        /\ msg \in Success => At(Success)' = At(Success) \cup {Len(main_mbx) + 1}
        /\ \A k \in At(S) : k < Len(main_mbx) + 1
    BY SendAt DEF Answers
  <2>6. mode = "WAIT_FEED_START" /\ msg \in Success => At(S) # {}
    BY <1>2, <2>1 DEF Answers, Success, StartFirst
  <2> QED
    BY <2>1, <2>2, <2>4, <2>5, <2>6 DEF StartFirst
<1>3. msg \in Success => t = "FEED"
  BY TaskNames, AskedApart DEF Answers, Success, Asked
<1> QED
  BY <1>1, <1>2, <1>3

LEMMA AnswersHome ==
  ASSUME NEW t, NEW msg, Answers(t, msg) PROVE HomeOnce'
<1> DEFINE S == Starts("CENTERING_EXEC")
<1>0. msg \notin S
  BY DEF Answers, Starts
<1>1. CASE t # "CENTERING"
  BY <1>0, <1>1, TaskNames, SendHome DEF Answers
<1>2. CASE t = "CENTERING"
  <2>1. /\ mode' = mode /\ job' = job /\ second' = second /\ HomeOnce
        /\ Bound("CENTERING") /\ "CENTERING" \in Tasks
    BY TaskNames DEF Answers, JInv, Moving, Alone, Movers, mvars
  <2>2. work'["CENTERING"] = << >>
    BY <1>2, <2>1, AnswersBound
  <2>3. At(S)' = At(S) /\ (One(At(S)) => One(At(S))')
    BY <1>0, SendKeepsAt DEF Answers
  <2>4. ~Begins'
    BY <2>2 DEF Begins
  <2> QED
    BY <2>1, <2>2, <2>3, <2>4 DEF HomeOnce
<1> QED
  BY <1>1, <1>2

LEMMA AnswersRest ==
  ASSUME NEW t, NEW msg, Answers(t, msg)
  PROVE  Clear(mode, job)' /\ Backward' /\ Onward' /\ Accord'
<1>0. /\ mode' = mode /\ job' = job /\ second' = second /\ line' = line /\ line_mbx' = line_mbx
      /\ JInv /\ Accepting /\ "ICB" \in Tasks /\ "STACKER" \in Tasks
      /\ Backward /\ Onward /\ Accord
  BY TaskNames DEF Answers, mvars, lvars, JInv
<1>1. Clear(mode, job)'
  BY <1>0 DEF JInv, Clear
<1>2. /\ \A u \in Tasks : msg.code \in Asked[u] => u = t
      /\ msg.code \notin {"REJECT", "STACK"} /\ (msg.code = "ICB_REJECT" => t = "ICB")
      /\ msg.code = "STACKER_PULL" => t = "STACKER"
      /\ t = "ICB" => msg.code = "ICB_REJECT"
  <2>1. \A u \in Tasks : msg.code \in Asked[u] => u = t
    BY AskedApart DEF Answers
  <2>2. {"REJECT", "STACK"} \cap Asked[t] = {}
    BY DEF Answers, Tasks, Asked
  <2>3. /\ "ICB_REJECT" \in Asked["ICB"] /\ "STACKER_PULL" \in Asked["STACKER"]
        /\ Asked["ICB"] = {"ICB_REJECT"}
    BY DEF Asked, Tasks
  <2> QED
    BY <1>0, <2>1, <2>2, <2>3 DEF Answers
<1>3. /\ At(NoREQ)' = At(NoREQ) /\ At(Coded({"STACK"}))' = At(Coded({"STACK"}))
  <2>1. msg \notin NoREQ /\ msg \notin Coded({"STACK"})
    BY <1>2 DEF NoREQ, Coded
  <2> QED
    BY <2>1, SendKeepsAt DEF Answers
<1>4. Backward' /\ Onward'
  <2>1. CASE t # "ICB"
    <3>1. msg \notin Refusal /\ work'["ICB"] = work["ICB"]
      BY <1>0, <1>2, <2>1 DEF Refusal, Coded, Answers
    <3>2. At(Refusal)' = At(Refusal) /\ (One(At(Refusal)) => One(At(Refusal))')
      BY <3>1, SendKeepsAt DEF Answers
    <3> QED
      BY <1>0, <1>3, <3>1, <3>2 DEF Backward, Onward, Back
  <2>2. CASE t = "ICB"
    <3>1. work["ICB"] # << >> /\ At(Refusal) = {} /\ Len(work["ICB"]) = 1
      <4>1. work["ICB"] \in Seq(Asked["ICB"]) /\ work["ICB"] # << >>
        BY <2>2 DEF Answers, IInv, TypeOK, WorkOK
      <4>2. Len(work["ICB"]) # 0
        BY <4>1, EmptySeq
      <4> QED
        BY <1>0, <4>1, <4>2 DEF Backward
    <3>2. msg \in Refusal
      BY <1>2, <2>2 DEF Refusal, Coded, Answers
    <3>3. One(At(Refusal))'
      BY <3>1, <3>2, SendKeepsAt DEF Answers
    <3>4. work'["ICB"] = << >> /\ Len(<< >>) = 0
      <4>1. work["ICB"] \in Seq(Asked["ICB"]) /\ work["ICB"] # << >>
        BY <2>2 DEF Answers, IInv, TypeOK, WorkOK
      <4>2. /\ Tail(work["ICB"]) \in Seq(Asked["ICB"])
            /\ Len(Tail(work["ICB"])) = Len(work["ICB"]) - 1
        BY <4>1, HeadTailProperties
      <4>3. Len(Tail(work["ICB"])) = 0
        BY <3>1, <4>2
      <4>4. Tail(work["ICB"]) = << >>
        BY <4>2, <4>3, EmptySeq
      <4> QED
        BY <2>2, <4>4 DEF Answers
    <3> QED
      BY <1>0, <1>3, <3>1, <3>3, <3>4 DEF Backward, Onward, Back
  <2> QED
    BY <2>1, <2>2
<1>5. Accord'
  <2>1. work["STACKER"] # <<"STACKER_PULL">> => msg.code # "STACKER_PULL"
    <3>1. work["STACKER"] \in {<< >>, <<"STACKER_PULL">>, <<"STACKER_HOME">>}
      BY DEF Answers, IInv, OneCredit
    <3>2. Head(<<"STACKER_HOME">>) = "STACKER_HOME"
      OBVIOUS
    <3> QED
      BY <1>2, <3>1, <3>2 DEF Answers
  <2>2. msg.code # "STACKER_PULL" =>
          At(Coded({"STACKER_PULL"}))' = At(Coded({"STACKER_PULL"}))
    <3>1. msg.code # "STACKER_PULL" => msg \notin Coded({"STACKER_PULL"})
      BY DEF Coded
    <3> QED
      BY <3>1, SendKeepsAt DEF Answers
  <2>3. work["STACKER"] # <<"STACKER_PULL">> => work'["STACKER"] # <<"STACKER_PULL">>
    <3>1. work["STACKER"] \in {<< >>, <<"STACKER_PULL">>, <<"STACKER_HOME">>}
      BY DEF Answers, IInv, OneCredit
    <3>2. Tail(<<"STACKER_HOME">>) = << >> /\ << >> # <<"STACKER_PULL">>
      OBVIOUS
    <3>3. \/ work'["STACKER"] = work["STACKER"]
          \/ work["STACKER"] # << >> /\ work'["STACKER"] = Tail(work["STACKER"])
      BY <1>0 DEF Answers
    <3> QED
      BY <3>1, <3>2, <3>3
  <2> QED
    BY <1>0, <2>1, <2>2, <2>3 DEF Accord, Vends
<1> QED
  BY <1>1, <1>4, <1>5

LEMMA FinishJInv ==
  ASSUME IInv, JInv, NEW t \in Tasks, Finish(t) PROVE JInv'
<1> PICK msg \in Messages : Answers(t, msg)
  BY FinishAnswers
<1> QED
  BY AnswersAnswering, AnswersMoving, AnswersStart, AnswersHome, AnswersRest DEF JInv

\* The line task or the host sends the note back, or takes it: nobody did so
\* before, and main waits for nothing else.
SendsOn(msg) ==
  /\ IInv /\ JInv /\ Accepting /\ line \in {"accept", "second", "refused", "escrow"}
  /\ mode \in LeavingModes
  /\ msg \in {Msg("REJECT", "REQ", NoDenomi), Msg("STACK", "REQ", NoDenomi)} /\ Send(msg)
  /\ msg.code = "STACK" => mode = "WAIT_REQ" /\ line' = "stack"
  /\ msg.code = "REJECT" => line' = "reject"
  /\ UNCHANGED <<mvars, dvars>>
  /\ \/ line \in {"refused", "escrow"} /\ line_mbx' = line_mbx
     \/ line_mbx # << >> /\ line_mbx' = Tail(line_mbx)

\* The line task has read what lay first.
LEMMA LineTail ==
  ASSUME IInv, line_mbx # << >>, line_mbx' = Tail(line_mbx)
  PROVE  /\ 1 \in 1 .. Len(line_mbx) /\ Head(line_mbx) = line_mbx[1]
         /\ \A i \in 1 .. Len(line_mbx') :
              i + 1 \in 1 .. Len(line_mbx) /\ line_mbx'[i] = line_mbx[i + 1] /\ i + 1 # 1
<1>1. line_mbx \in Seq(LineMessages) /\ Len(line_mbx) \in Nat /\ Len(line_mbx') \in Nat
  BY BoxTypes, TailIsOld, LenProperties
<1>2. 1 \in 1 .. Len(line_mbx)
  BY <1>1, EmptySeq
<1>3. Head(line_mbx) = line_mbx[1]
  BY <1>1, HeadTailProperties
<1>4. ASSUME NEW i \in 1 .. Len(line_mbx')
      PROVE  i + 1 \in 1 .. Len(line_mbx) /\ line_mbx'[i] = line_mbx[i + 1] /\ i + 1 # 1
  <2>1. i + 1 \in 1 .. Len(line_mbx) /\ line_mbx'[i] = line_mbx[i + 1]
    BY <1>1, TailIsOld
  <2> QED
    BY <1>1, <2>1
<1> QED
  BY <1>2, <1>3, <1>4

LEMMA SendsOnJInv ==
  ASSUME NEW msg, SendsOn(msg) PROVE JInv'
<1>0. /\ mode' = mode /\ job' = job /\ second' = second /\ work' = work /\ stage' = stage
      /\ mode \notin TakingModes /\ Backward /\ Onward /\ Accord /\ ~Back
      /\ JInv /\ IInv /\ Accepting
  BY Modes DEF SendsOn, mvars, dvars, JInv, Back
<1>1. /\ msg \in Messages /\ Send(msg) /\ msg.sub = "REQ" /\ msg.code \in {"REJECT", "STACK"}
  BY DEF SendsOn, Msg, Messages, Denominations
<1>2. /\ job.busy = {} /\ At(Refusal) = {} /\ work["ICB"] = << >> /\ At(NoREQ) = {}
      /\ At(Coded({"STACK"})) = {}
  BY <1>0 DEF Backward, Onward, SendsOn
<1>3. Answering'
  BY <1>0, <1>1, SendAnswering
<1>4. Moving'
  <2>1. ASSUME NEW t \in Alone \cup {"STACKER"}, Bound(t) PROVE Bound(t)'
    <3>1. {"REJECT", "STACK"} \cap Asked[t] = {}
      BY DEF Alone, Movers, Asked
    <3>2. msg \notin Finals(t)
      BY <1>1, <3>1 DEF Finals
    <3> QED
      BY <1>0, <1>1, <2>1, <3>2, SendBound
  <2> QED
    BY <1>0, <2>1 DEF JInv, Moving, Accepting
<1>5. StartFirst'
  <2>1. msg \notin Success
    BY <1>1 DEF Success
  <2> QED
    BY <1>0, <1>1, <2>1, SendStart
<1>6. HomeOnce'
  <2>1. msg \notin Starts("CENTERING_EXEC")
    BY <1>1 DEF Starts
  <2> QED
    BY <1>0, <1>1, <2>1, SendHome DEF SendsOn
<1>7. Clear(mode, job)'
  BY <1>0 DEF JInv, Clear
<1>8. Backward' /\ Onward'
  <2>1. At(NoREQ)' = {}
    <3>1. msg \notin NoREQ
      BY <1>1 DEF NoREQ
    <3> QED
      BY <1>0, <1>1, <1>2, <3>1, SendKeepsAt
  <2>2. CASE msg.code = "REJECT"
    <3>1. msg \in Refusal /\ msg \notin Coded({"STACK"})
      BY <1>1, <2>2 DEF Refusal, Coded
    <3>2. One(At(Refusal))' /\ At(Coded({"STACK"}))' = {}
      BY <1>0, <1>1, <1>2, <3>1, SendKeepsAt
    <3>3. line' = "reject" /\ mode' \in LeavingModes
      BY <1>0, <2>2 DEF SendsOn
    <3> QED
      BY <1>0, <1>2, <2>1, <3>2, <3>3 DEF Backward, Onward, Back
  <2>3. CASE msg.code = "STACK"
    <3>1. msg \notin Refusal
      BY <1>1, <2>3 DEF Refusal, Coded
    <3>2. At(Refusal)' = {} /\ One(At(Refusal))'
      <4>1. At(Refusal)' = {}
        BY <1>0, <1>1, <1>2, <3>1, SendKeepsAt
      <4> QED
        BY <4>1 DEF One
    <3>3. line' = "stack" /\ mode' = "WAIT_REQ"
      BY <1>0, <2>3 DEF SendsOn
    <3> QED
      BY <1>0, <1>2, <2>1, <3>2, <3>3 DEF Backward, Onward, Back
  <2> QED
    BY <1>1, <2>2, <2>3
<1>9. Accord'
  <2>1. CASE line \in {"refused", "escrow"} /\ line_mbx' = line_mbx
    <3>1. Vends = {} /\ Vends' = {}
      BY <1>0, <2>1 DEF Accord, Vends
    <3> QED
      BY <1>0, <2>1, <3>1 DEF Accord
  <2>2. CASE line_mbx # << >> /\ line_mbx' = Tail(line_mbx)
    <3>1. Vends' = {} /\ \A i \in 1 .. Len(line_mbx') : line_mbx'[i].sub = "SUCCESS" => mode' = "WAIT_REQ"
      BY <1>0, <2>2, LineTail DEF Accord, Vends
    <3> QED
      BY <1>0, <3>1 DEF Accord
  <2> QED
    BY <2>1, <2>2 DEF SendsOn
<1> QED
  BY <1>3, <1>4, <1>5, <1>6, <1>7, <1>8, <1>9 DEF JInv

LEMMA LineReadsJInv ==
  ASSUME IInv, JInv, LineReads PROVE JInv'
<1> DEFINE x == Head(line_mbx)
<1>0. /\ mode' = mode /\ job' = job /\ second' = second /\ work' = work /\ stage' = stage
      /\ line_mbx # << >> /\ line_mbx' = Tail(line_mbx)
      /\ Accepting /\ Backward /\ Onward /\ Accord /\ UNCHANGED <<mvars, dvars>>
  BY DEF LineReads, mvars, dvars, JInv
<1>1. /\ 1 \in 1 .. Len(line_mbx) /\ x = line_mbx[1]
      /\ \A i \in 1 .. Len(line_mbx') :
           i + 1 \in 1 .. Len(line_mbx) /\ line_mbx'[i] = line_mbx[i + 1] /\ i + 1 # 1
  BY <1>0, LineTail
<1>2. mode \in TakingModes => x.sub = "VEND" /\ 1 .. Len(line_mbx') = {}
  BY <1>0, <1>1 DEF Accord, Vends
<1>3. x.sub = "SUCCESS" => mode = "WAIT_REQ"
  BY <1>0, <1>1 DEF Accord
<1> HIDE DEF x
<1>4. CASE /\ x.sub = "REJECT" /\ line \in {"accept", "second", "escrow"}
           /\ line' = "reject" /\ Send(Msg("REJECT", "REQ", NoDenomi))
  <2>1. mode \in LeavingModes
    BY <1>0, <1>2, <1>4, Modes DEF Accepting
  <2>2. Msg("REJECT", "REQ", NoDenomi).code = "REJECT"
    BY DEF Msg
  <2>3. SendsOn(Msg("REJECT", "REQ", NoDenomi))
    BY <1>0, <1>4, <2>1, <2>2 DEF SendsOn
  <2> QED
    BY <2>3, SendsOnJInv
<1>5. CASE /\ main_mbx' = main_mbx
           /\ \/ line' = line
              \/ x.sub = "SUCCESS" /\ line \in {"accept", "second"} /\ line' = "escrow"
              \/ x.sub = "REJECT" /\ line = "second" /\ line' = "refused"
  <2>1. Answering' /\ StartFirst' /\ HomeOnce' /\ Moving' /\ Clear(mode, job)'
    <3>1. \A S : At(S)' = At(S)
      BY <1>5 DEF At
    <3>2. Answering' /\ StartFirst' /\ HomeOnce'
      BY <1>0, <1>5 DEF JInv, Answering, Waits, At, Accepting, StartFirst, HomeOnce, Begins, One
    <3>3. ASSUME NEW t \in Alone \cup {"STACKER"}, Bound(t) PROVE Bound(t)'
      BY <1>0, <1>5, <3>3 DEF Bound, At, One
    <3>4. Moving' /\ Clear(mode, job)'
      BY <1>0, <3>3 DEF JInv, Moving, Accepting, Clear
    <3> QED
      BY <3>2, <3>4
  <2>2. /\ At(Refusal)' = At(Refusal) /\ At(NoREQ)' = At(NoREQ)
        /\ At(Coded({"STACK"}))' = At(Coded({"STACK"}))
        /\ At(Coded({"STACKER_PULL"}))' = At(Coded({"STACKER_PULL"}))
    BY <1>5 DEF At
  <2>3. Back => line' = line
    BY <1>5 DEF Back
  <2>4. mode \in TakingModes => line' = line
    BY <1>2, <1>5
  <2>5. Backward' /\ Onward'
    BY <1>0, <1>3, <1>5, <2>2, <2>3 DEF Backward, Onward, Back, One
  <2>6. Vends' = {} /\ \A i \in 1 .. Len(line_mbx') : line_mbx'[i].sub = "SUCCESS" => mode = "WAIT_REQ"
    BY <1>0, <1>1 DEF Accord, Vends
  <2>7. Accord'
    BY <1>0, <1>2, <2>2, <2>4, <2>6 DEF Accord
  <2> QED
    BY <2>1, <2>5, <2>7 DEF JInv
<1> QED
  BY <1>4, <1>5 DEF LineReads, lvars, x

LEMMA HostJInv ==
  ASSUME IInv, JInv, HostPolls \/ HostDecides PROVE JInv'
<1>0. Accepting /\ Onward /\ Accord /\ UNCHANGED <<mvars, dvars, line_mbx>>
  BY DEF HostPolls, HostDecides, JInv
<1>1. mode \in LeavingModes /\ (line = "escrow" => mode = "WAIT_REQ")
  <2>1. line \in {"refused", "escrow"}
    BY DEF HostPolls, HostDecides
  <2>2. mode \notin TakingModes
    BY <1>0, <2>1 DEF Accord
  <2> QED
    BY <1>0, <2>2, Modes DEF Accepting, Onward
<1>2. Msg("REJECT", "REQ", NoDenomi).code = "REJECT" /\ Msg("STACK", "REQ", NoDenomi).code = "STACK"
  BY DEF Msg
<1>3. CASE /\ line \in {"refused", "escrow"} /\ line' = "reject"
           /\ Send(Msg("REJECT", "REQ", NoDenomi))
  <2>1. SendsOn(Msg("REJECT", "REQ", NoDenomi))
    BY <1>0, <1>1, <1>2, <1>3 DEF SendsOn
  <2> QED
    BY <2>1, SendsOnJInv
<1>4. CASE line = "escrow" /\ line' = "stack" /\ Send(Msg("STACK", "REQ", NoDenomi))
  <2>1. SendsOn(Msg("STACK", "REQ", NoDenomi))
    BY <1>0, <1>1, <1>2, <1>4 DEF SendsOn
  <2> QED
    BY <2>1, SendsOnJInv
<1> QED
  BY <1>3, <1>4 DEF HostPolls, HostDecides

------------------------------------------------------------------------------
(* The invariant holds at the start and is kept by every step.                *)

LEMMA InitJInv == Init => JInv
<1> SUFFICES ASSUME Init PROVE JInv
  OBVIOUS
<1> DEFINE first == Msg("SENSOR_ACTIVE", "SUCCESS", NoDenomi)
<1>1. main_mbx = <<first>> /\ first.code = "SENSOR_ACTIVE" /\ first.sub = "SUCCESS"
  BY DEF Init, Msg
<1> PICK n \in {"first", "pulling", "pulled"} :
      /\ second = IF n = "first" THEN 0 ELSE 1
      /\ line = IF n = "first" THEN "accept" ELSE "second"
      /\ job = [NoJob EXCEPT !.busy =
                  {"CIS_INIT"} \cup IF n = "pulling" THEN {"STACKER"} ELSE {}]
      /\ line_mbx = IF n = "pulled" THEN <<Msg("STACK", "VEND", NoDenomi)>> ELSE << >>
      /\ work = [t \in Tasks |->
                   CASE t = "CIS_INIT" -> <<"CIS_INITIALIZE">>
                     [] t = "STACKER" /\ n = "pulling" -> <<"STACKER_PULL">>
                     [] OTHER -> << >>]
  BY DEF Init
<1>2. \A S : first \notin S => At(S) = {}
  <2>1. Len(<<first>>) = 1 /\ <<first>>[1] = first
    OBVIOUS
  <2> QED
    BY <1>1, <2>1 DEF At
<1>3. /\ \A t \in Alone \cup {"STACKER"} : first \notin Finals(t)
      /\ first \notin Success /\ first \notin Starts("CENTERING_EXEC")
      /\ first \notin Refusal /\ first \notin NoREQ
      /\ first \notin Coded({"STACK"}) /\ first \notin Coded({"STACKER_PULL"})
  <2>1. \A t \in Alone \cup {"STACKER"} : "SENSOR_ACTIVE" \notin Asked[t]
    BY DEF Alone, Movers, Asked
  <2> QED
    BY <1>1, <2>1 DEF Finals, Success, Starts, Refusal, NoREQ, Coded
<1> HIDE DEF first
<1>4. /\ mode = "SENSOR_ACTIVE" /\ mode \in EarlyModes /\ mode \in TakingModes
      /\ Accepting /\ mode \notin LeavingModes
  BY DEF Init, EarlyModes, TakingModes, LeavingModes, AcceptModes, Accepting
<1>5. job.busy = {"CIS_INIT"} \cup IF n = "pulling" THEN {"STACKER"} ELSE {}
  BY DEF NoJob
<1>6. /\ work["CIS_INIT"] = <<"CIS_INITIALIZE">>
      /\ work["STACKER"] = IF n = "pulling" THEN <<"STACKER_PULL">> ELSE << >>
      /\ work["ICB"] = << >> /\ work["CENTERING"] = << >> /\ work["FEED"] = << >>
      /\ work["SHUTTER"] = << >> /\ work["DISCRIMINATION"] = << >>
  BY TaskNames
<1>7. Answering
  <2>1. \A x : Len(<<x>>) = 1 /\ <<x>>[1] = x /\ 1 \in 1 .. 1
    OBVIOUS
  <2>2. Waits("CIS_INIT", "CIS_INITIALIZE")
    BY <1>6, <2>1 DEF Waits
  <2>3. n = "pulling" => Waits("STACKER", "STACKER_PULL")
    BY <1>6, <2>1 DEF Waits
  <2>4. /\ "CIS_INITIALIZE" \in Expected[mode] \cap Asked["CIS_INIT"]
        /\ "STACKER_PULL" \in Expected[mode] \cap Asked["STACKER"]
    BY <1>4 DEF Expected, Asked
  <2> QED
    BY <1>5, <2>2, <2>3, <2>4 DEF Answering
<1>8. Moving
  <2>1. ASSUME NEW t \in Alone \cup {"STACKER"}, work[t] = << >> PROVE Bound(t)
    BY <1>2, <1>3, <2>1 DEF Bound, One
  <2>2. \A t \in Alone : work[t] = << >>
    BY <1>6 DEF Alone, Movers
  <2>3. second = 0 => work["STACKER"] = << >>
    BY <1>6
  <2> QED
    BY <2>1, <2>2, <2>3 DEF Moving
<1>9. StartFirst
  BY <1>4 DEF StartFirst
<1>10. HomeOnce
  BY <1>2, <1>3, <1>4, <1>5, <1>6 DEF HomeOnce
<1>11. Clear(mode, job)
  BY <1>4 DEF Clear
<1>12. Len(<< >>) = 0
  OBVIOUS
<1>13. Backward /\ Onward
  <2>1. At(Refusal) = {} /\ At(NoREQ) = {} /\ At(Coded({"STACK"})) = {}
    BY <1>2, <1>3
  <2> QED
    BY <1>4, <1>6, <1>12, <2>1 DEF Backward, Onward, One
<1>14. Accord
  <2>1. At(Coded({"STACKER_PULL"})) = {}
    BY <1>2, <1>3
  <2>2. CASE n = "pulled"
    <3>1. Len(line_mbx) = 1 /\ line_mbx[1].sub = "VEND"
      BY <2>2 DEF Msg
    <3> QED
      BY <1>4, <2>2, <3>1 DEF Accord, Vends
  <2>3. CASE n # "pulled"
    <3>1. 1 .. Len(line_mbx) = {} /\ Vends = {}
      BY <1>12, <2>3 DEF Vends
    <3> QED
      BY <1>4, <1>6, <2>1, <2>3, <3>1 DEF Accord
  <2> QED
    BY <2>2, <2>3
<1> QED
  BY <1>7, <1>8, <1>9, <1>10, <1>11, <1>13, <1>14 DEF JInv

LEMMA StepJInv == IInv /\ JInv /\ [Next]_vars => JInv'
<1> SUFFICES ASSUME IInv, JInv, [Next]_vars PROVE JInv'
  OBVIOUS
<1>1. CASE Next
  BY <1>1, HandlerJInv, StartJInv, FinishJInv, AsideJInv, ClearsBusyJInv, LineReadsJInv,
     HostJInv DEF Next
<1>2. CASE UNCHANGED vars
  <2>1. UNCHANGED <<mode, job, reset, second, main_mbx, work, stage, line_mbx, line, vend>>
    BY <1>2 DEF vars, mvars, dvars, lvars
  <2>2. Answering' /\ Moving' /\ StartFirst' /\ HomeOnce' /\ Clear(mode, job)'
    BY <2>1 DEF JInv, Answering, Waits, At, Accepting, Moving, Bound, One, StartFirst,
       HomeOnce, Begins, Clear
  <2>3. Accepting' => Backward' /\ Onward' /\ Accord'
    BY <2>1 DEF JInv, Backward, Onward, Accord, Back, Accepting, Vends, One, At
  <2> QED
    BY <2>2, <2>3 DEF JInv
<1> QED
  BY <1>1, <1>2

\* What main waits for, what the devices owe, which turn the note's way out has
\* taken and what the line task has heard of it agree, in every state.
THEOREM JoinInvariance == Safety => [](IInv /\ JInv)
<1>1. Init => IInv /\ JInv
  BY InitInv, InitJInv
<1>2. (IInv /\ JInv) /\ [Next]_vars => (IInv /\ JInv)'
  BY StepInv, StepJInv
<1> QED
  BY <1>1, <1>2, PTL DEF Safety

------------------------------------------------------------------------------
(* What follows for the note.                                                 *)

\* Only main changes the mode.
LEMMA ModeSteps == [Next]_vars => mode' = mode \/ accept_msg_proc
<1> SUFFICES ASSUME [Next]_vars, ~accept_msg_proc PROVE mode' = mode
  OBVIOUS
<1>1. CASE \E t \in Tasks : Start(t) \/ Finish(t)
  BY <1>1 DEF Start, Finish, mvars
<1>2. CASE HomeAlready \/ ClearsBusy \/ Fault \/ PaperMoved
  BY <1>2 DEF HomeAlready, ClearsBusy, Fault, PaperMoved, mvars
<1>3. CASE LineReads \/ HostAcks \/ HostPolls \/ HostDecides \/ HostResets
  BY <1>3 DEF LineReads, HostAcks, HostPolls, HostDecides, HostResets, mvars
<1>4. CASE UNCHANGED vars
  BY <1>4 DEF vars, mvars
<1> QED
  BY <1>1, <1>2, <1>3, <1>4 DEF Next

\* A bit of ex_multi_job.busy never waits for nothing: a join of accept mode
\* counts only on answers that are still to come or lie unread in the mailbox.
THEOREM NoBitIsForgotten == Safety => []Answered
<1>1. ASSUME IInv, JInv PROVE Answered
  <2> SUFFICES ASSUME Accepting, NEW t \in job.busy PROVE Owed(t)
    BY DEF Answered
  <2>1. PICK r \in Expected[mode] \cap Asked[t] : Waits(t, r)
    BY <1>1 DEF JInv, Answering
  <2>2. CASE \E i \in 1 .. Len(work[t]) : work[t][i] = r
    <3>1. work[t] # << >>
      <4>1. \A i \in 1 .. Len(<< >>) : FALSE
        OBVIOUS
      <4> QED
        BY <2>2, <4>1
    <3> QED
      BY <3>1 DEF Owed
  <2>3. CASE At(Ends(r)) # {}
    BY <2>1, <2>3 DEF At, Ends, Owed
  <2> QED
    BY <2>1, <2>2, <2>3 DEF Waits
<1> QED
  BY <1>1, JoinInvariance, PTL

LEMMA OfferStep ==
  ASSUME IInv, JInv, [Next]_vars, mode # "WAIT_REQ", mode' = "WAIT_REQ"
  PROVE  /\ ~reset /\ job.alarm = {} /\ job.reject = {}
         /\ \E d \in Accepted : line_mbx' = line_mbx \o <<Msg("ACCEPT", "SUCCESS", d)>>
         /\ AtRest({"CENTERING", "FEED", "SHUTTER"})
         /\ second = 0 => AtRest({"STACKER"})
<1>1. Joining /\ OutKept
  BY ModeSteps, HandlerJoins DEF Joined
<1>2. /\ mode = "DISCRIMINATION" /\ ~reset /\ job.alarm = {} /\ job.reject = {}
      /\ \A t \in Alone \cap job.busy : Fin(t)
  BY <1>1 DEF OutKept
<1>3. \E d \in Accepted : line_mbx' = line_mbx \o <<Msg("ACCEPT", "SUCCESS", d)>>
  <2>1. PICK d \in Accepted : Tell(<<Msg("ACCEPT", "SUCCESS", d)>>)
    BY <1>1 DEF OutKept
  <2>2. Credit = << >>
    BY <1>2 DEF Credit, PullModes
  <2>3. line_mbx \o << >> = line_mbx
    BY <1>1, BoxTypes, ConcatEmptySeq DEF Joining, Reading
  <2> QED
    BY <2>1, <2>2, <2>3 DEF Tell
<1>4. AtRest({"CENTERING", "FEED", "SHUTTER"})
  BY <1>1, <1>2, FreeOrDone DEF AtRest, Alone, Movers
<1>5. ASSUME second = 0 PROVE AtRest({"STACKER"})
  <2>1. Bound("STACKER")
    BY <1>1, <1>2, <1>5, Modes DEF Joining, JInv, Moving
  <2>2. "STACKER" \notin job.busy
    BY <1>1, <1>2, BusyTasks
  <2> QED
    BY <2>1, <2>2 DEF Bound, AtRest
<1> QED
  BY <1>2, <1>3, <1>4, <1>5

\* A note is offered to the host only when nothing was refused and nothing
\* failed, its denomination was accepted, and the motors on its way are at
\* rest; for a first note the stacker too, which must be home to take it.
THEOREM OfferIsClean == Safety => OfferedClean
<1>1. IInv /\ JInv /\ [Next]_vars =>
        [mode # "WAIT_REQ" /\ mode' = "WAIT_REQ" =>
           /\ ~reset /\ job.alarm = {} /\ job.reject = {}
           /\ \E d \in Accepted : line_mbx' = line_mbx \o <<Msg("ACCEPT", "SUCCESS", d)>>
           /\ AtRest({"CENTERING", "FEED", "SHUTTER"})
           /\ second = 0 => AtRest({"STACKER"})]_vars
  BY OfferStep
<1> QED
  BY <1>1, JoinInvariance, PTL DEF Safety, OfferedClean

LEMMA LeaveStep ==
  ASSUME IInv, JInv, [Next]_vars, Accepting, mode' \in {"REJECT", "STACK"}
  PROVE  AtRest({"CENTERING", "SHUTTER", "FEED"})
<1>1. mode' # mode
  BY Modes DEF Accepting
<1>2. Joining /\ OutKept
  BY <1>1, ModeSteps, HandlerJoins DEF Joined
<1> QED
  BY <1>2, FreeOrDone DEF OutKept, AtRest, Alone, Movers

\* A note leaves the validator, inward or outward, only after centering,
\* shutter and feed have stopped.
THEOREM PathIsClear == Safety => PathClear
<1>1. IInv /\ JInv /\ [Next]_vars =>
        [Accepting /\ mode' \in {"REJECT", "STACK"} =>
           AtRest({"CENTERING", "SHUTTER", "FEED"})]_vars
  BY LeaveStep
<1> QED
  BY <1>1, JoinInvariance, PTL DEF Safety, PathClear

=============================================================================
