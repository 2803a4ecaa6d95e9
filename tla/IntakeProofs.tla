---------------------------- MODULE IntakeProofs -----------------------------
(***************************************************************************)
(* AcceptMode implements NoteIntake, for every set of denominations and    *)
(* every pool size: each step of main, of a device, of the line task or of *)
(* the host is a step of the promised intake, or changes nothing of it.    *)
(***************************************************************************)
EXTENDS AcceptJobProofs

Intaking == Intake!Next \/ UNCHANGED Intake!vars

------------------------------------------------------------------------------
(* The mapping.                                                               *)

LEMMA Phases ==
  /\ mode \in TakingModes => phase = "taking"
  /\ mode = "WAIT_REQ" => phase = "offered"
  /\ mode = "WAIT_REJECT_REQ" => phase = "held"
  /\ mode = "STACK" => phase = "stacked"
  /\ mode = "REJECT" => phase = "returned"
  /\ mode \in {"INIT", "ALARM"} => phase = "aborted"
  /\ Accepting => Intake!Inside
<1>1. /\ TakingModes = AcceptModes \ {"WAIT_REQ", "WAIT_REJECT_REQ"}
      /\ {"WAIT_REQ", "WAIT_REJECT_REQ", "STACK", "REJECT", "INIT", "ALARM"}
           \cap TakingModes = {}
  BY DEF TakingModes, LeavingModes, AcceptModes
<1>2. mode \in TakingModes => phase = "taking"
  BY <1>1 DEF phase
<1>3. /\ mode = "WAIT_REQ" => phase = "offered"
      /\ mode = "WAIT_REJECT_REQ" => phase = "held"
      /\ mode = "STACK" => phase = "stacked"
      /\ mode = "REJECT" => phase = "returned"
      /\ mode \in {"INIT", "ALARM"} => phase = "aborted"
  BY <1>1 DEF phase
<1>4. Accepting => mode \in TakingModes \cup {"WAIT_REQ", "WAIT_REJECT_REQ"}
  BY Modes DEF Accepting, LeavingModes
<1> QED
  BY <1>2, <1>3, <1>4 DEF Intake!Inside

LEMMA ToldMeans == Told <=> vend # "none" \/ Vends # {}
BY DEF Told, Vends

\* A step that changes nothing of what was promised.
LEMMA SameIntake ==
  ASSUME UNCHANGED <<phase, credit, verdict>>, second' = 0 <=> second = 0
  PROVE  Intaking
<1>1. (second # 0)' = (second # 0)
  OBVIOUS
<1> QED
  BY <1>1 DEF Intaking, Intake!vars

LEMMA AsideIntake ==
  ASSUME UNCHANGED <<mode, second, line_mbx, line, vend>> PROVE Intaking
<1>1. UNCHANGED <<phase, credit, verdict>>
  BY DEF phase, credit, Told, verdict
<1> QED
  BY <1>1, SameIntake

------------------------------------------------------------------------------
(* What main does.                                                            *)

\* Main takes back nothing of what it told the line task.
LEMMA VendsGrow ==
  ASSUME Joining, TellKept PROVE Vends' # {} <=> Vends # {} \/ Credit # << >>
<1>1. PICK told \in Tales : line_mbx' = line_mbx \o (Credit \o told)
  BY DEF TellKept
<1>2. line_mbx \in Seq(LineMessages) /\ Len(line_mbx) \in Nat
  BY BoxTypes DEF Joining, Reading
<1>3. told \in Seq(LineMessages)
  <2>1. << >> \in Seq(LineMessages) /\ \A x \in LineMessages : <<x>> \in Seq(LineMessages)
    BY OneRequest
  <2> QED
    BY <2>1 DEF Tales
<1>4. ASSUME Credit = << >>, Vends # {} PROVE Vends' # {}
  <2>1. Credit \o told \in Seq(LineMessages)
    BY <1>3, <1>4, ConcatEmptySeq
  <2>2. /\ Len(line_mbx') = Len(line_mbx) + Len(Credit \o told) /\ Len(Credit \o told) \in Nat
        /\ \A i \in 1 .. Len(line_mbx) : line_mbx'[i] = line_mbx[i]
    BY <1>1, <1>2, <2>1, ConcatProperties, LenProperties
  <2>3. \A i \in 1 .. Len(line_mbx) : i \in 1 .. Len(line_mbx')
    BY <1>2, <2>2
  <2> QED
    BY <1>4, <2>2, <2>3 DEF Vends
<1>5. ASSUME Credit # << >> PROVE Vends' # {}
  <2> DEFINE x == Msg("STACK", "VEND", NoDenomi)
  <2>1. x \in LineMessages /\ x.sub = "VEND" /\ Credit = <<x>>
    BY <1>5 DEF Msg, LineMessages, ToldArgs, Credit
  <2>2. line_mbx = << >>
    BY <1>5, CreditDue
  <2> HIDE DEF x
  <2>3. <<x>> \in Seq(LineMessages) /\ Len(<<x>>) = 1 /\ <<x>>[1] = x
    BY <2>1
  <2>4. line_mbx' = <<x>> \o told
    BY <1>1, <1>3, <2>1, <2>2, <2>3, ConcatProperties, ConcatEmptySeq
  <2>5. /\ Len(line_mbx') = 1 + Len(told) /\ Len(told) \in Nat
        /\ line_mbx'[1] = x
    <3>1. Len(told) \in Nat
      BY <1>3, LenProperties
    <3>2. /\ Len(line_mbx') = Len(<<x>>) + Len(told)
          /\ \A i \in 1 .. Len(<<x>>) + Len(told) :
               line_mbx'[i] = IF i <= Len(<<x>>) THEN <<x>>[i] ELSE told[i - Len(<<x>>)]
      BY <1>3, <2>3, <2>4, ConcatProperties
    <3> QED
      BY <2>3, <3>1, <3>2
  <2>6. 1 \in 1 .. Len(line_mbx')
    BY <2>5
  <2> QED
    BY <2>1, <2>5, <2>6 DEF Vends
<1>6. ASSUME Vends' # {}, Credit = << >> PROVE Vends # {}
  <2>1. PICK i \in 1 .. Len(line_mbx') : line_mbx'[i].sub = "VEND"
    BY <1>6 DEF Vends
  <2>2. i \in 1 .. Len(line_mbx) /\ line_mbx'[i] = line_mbx[i]
    BY <1>6, <2>1, LineGrows
  <2> QED
    BY <2>1, <2>2 DEF Vends
<1> QED
  BY <1>4, <1>5, <1>6

\* The credit changes only where the promise lets it.
LEMMA CreditIntake ==
  ASSUME Joining, TellKept, UNCHANGED <<line, vend>>
  PROVE  /\ credit' = credit \/ Intake!TellCredit
         /\ mode \notin TakingModes => credit' = credit
         /\ Credit = << >> => credit' = credit
<1>1. Vends' # {} <=> Vends # {} \/ Credit # << >>
  BY VendsGrow
<1>2. Told <=> vend # "none" \/ Vends # {}
  BY ToldMeans
<1>3. Told' <=> vend # "none" \/ Vends' # {}
  BY DEF Told, Vends
<1>4. CASE Credit = << >>
  BY <1>1, <1>2, <1>3, <1>4 DEF credit
<1>5. CASE Credit # << >>
  <2>1. /\ mode \in TakingModes /\ second # 0 /\ line \in {"second", "initial"}
        /\ vend = "none" /\ Vends = {}
    BY <1>5, CreditDue
  <2>2. CASE line = "initial"
    BY <1>5, <2>1, <2>2 DEF credit
  <2>3. CASE line = "second"
    <3>1. phase = "taking" /\ credit = "none" /\ credit' = "told" /\ verdict # "reset"
      BY <1>1, <1>2, <1>3, <1>5, <2>1, <2>3, Phases DEF credit, verdict
    <3> QED
      BY <1>5, <2>1, <3>1 DEF Intake!TellCredit
  <2> QED
    BY <1>5, <2>1, <2>2, <2>3
<1> QED
  BY <1>4, <1>5

LEMMA NextPhase ==
  ASSUME NEW p, NEW md, mode' = md,
         \/ p = "taking" /\ md \in TakingModes
         \/ p = "offered" /\ md = "WAIT_REQ"
         \/ p = "held" /\ md = "WAIT_REJECT_REQ"
         \/ p = "stacked" /\ md = "STACK"
         \/ p = "returned" /\ md = "REJECT"
         \/ p = "aborted" /\ md \in {"INIT", "ALARM"}
  PROVE  phase' = p
<1>1. /\ TakingModes = AcceptModes \ {"WAIT_REQ", "WAIT_REJECT_REQ"}
      /\ {"WAIT_REQ", "WAIT_REJECT_REQ", "STACK", "REJECT", "INIT", "ALARM"}
           \cap TakingModes = {}
  BY DEF TakingModes, LeavingModes, AcceptModes
<1>2. CASE p = "taking" /\ md \in TakingModes
  BY <1>1, <1>2 DEF phase
<1>3. CASE md \notin TakingModes
  BY <1>1, <1>3 DEF phase
<1> QED
  BY <1>1, <1>2, <1>3

LEMMA HandlerIntake ==
  ASSUME IInv, JInv, accept_msg_proc PROVE Intaking
<1>0. /\ Joining /\ IInv' /\ TellKept /\ TakingKept /\ LeavingKept /\ OutKept
      /\ mode \in AcceptModes /\ UNCHANGED <<line, vend>>
      /\ second \in 0 .. 2 /\ second' \in 0 .. 2
  BY HandlerJoins, HandlerInv DEF Joined, Joining, Accepting, accept_msg_proc, lvars,
     IInv, TypeOK, MainOK
<1>1. /\ verdict' = verdict
      /\ credit' = credit \/ Intake!TellCredit
      /\ mode \notin TakingModes => credit' = credit
      /\ Credit = << >> => credit' = credit
      /\ (second # 0)' \in {second # 0, FALSE}
  BY <1>0, CreditIntake DEF verdict, OutKept
<1>2. Backward /\ Onward /\ Accord /\ TakingModes \cap LeavingModes = {}
  BY <1>0, Modes DEF Joining, JInv
<1>3. CASE mode' \in TakingModes
  <2>1. mode \in TakingModes /\ (second' = 0 <=> second = 0)
    BY <1>0, <1>3 DEF TakingKept, OutKept
  <2>2. phase = "taking" /\ phase' = phase
    BY <1>3, <2>1, Phases, NextPhase
  <2>3. CASE credit' = credit
    BY <1>1, <2>1, <2>2, <2>3, SameIntake
  <2>4. CASE Intake!TellCredit
    BY <1>1, <2>1, <2>2, <2>4 DEF Intaking, Intake!Next, Intake!Tell
  <2> QED
    BY <1>1, <2>3, <2>4
<1>4. CASE mode' = "WAIT_REQ"
  <2>1. phase' = "offered" /\ (second' = 0 <=> second = 0)
    BY <1>0, <1>4, NextPhase DEF OutKept
  <2>2. CASE mode = "WAIT_REQ"
    <3>1. mode \notin TakingModes
      BY <2>2 DEF TakingModes, LeavingModes
    <3> QED
      BY <1>1, <2>1, <2>2, <3>1, Phases, SameIntake
  <2>3. CASE mode # "WAIT_REQ"
    <3>1. mode = "DISCRIMINATION" /\ mode \in TakingModes
      BY <1>0, <1>4, <2>3, Modes DEF OutKept
    <3>2. phase = "taking" /\ credit' = credit
      BY <1>1, <3>1, Phases DEF Credit, PullModes
    <3>3. CASE line = "initial"
      <4>1. verdict = "reset"
        BY <3>3 DEF verdict
      <4> QED
        BY <1>1, <2>1, <3>2, <4>1 DEF Intaking, Intake!Next, Intake!Offer
    <3>4. CASE line # "initial"
      <4>1. line \in {"accept", "second"}
        BY <1>2, <3>1, <3>4 DEF Accord
      <4>2. verdict = "none"
        BY <4>1 DEF verdict
      <4>3. second # 0 => credit = "acked"
        <5>1. second # 0 => vend = "acked"
          BY <1>0, <3>1 DEF Joining, Reading, IInv, AckedBefore
        <5>2. vend = "acked" => Told
          BY DEF Told
        <5> QED
          BY <3>4, <5>1, <5>2 DEF credit
      <4> QED
        BY <1>1, <2>1, <3>2, <4>2, <4>3 DEF Intaking, Intake!Next, Intake!Offer
    <3> QED
      BY <3>3, <3>4
  <2> QED
    BY <2>2, <2>3
<1>5. CASE mode' = "WAIT_REJECT_REQ"
  <2>1. phase' = "held" /\ second' = 0 /\ mode' \in LeavingModes
    BY <1>0, <1>5, NextPhase DEF LeavingKept, LeavingModes
  <2>2. CASE mode = "WAIT_REJECT_REQ"
    <3>1. second = 0 /\ mode \notin TakingModes
      BY <1>2, <2>2 DEF Accord, LeavingModes
    <3> QED
      BY <1>1, <2>1, <2>2, <3>1, Phases, SameIntake
  <2>3. CASE mode # "WAIT_REJECT_REQ"
    <3>1. phase = "taking"
      BY <1>0, <1>5, <2>1, <2>3, Phases DEF LeavingKept
    <3> QED
      BY <1>1, <2>1, <3>1 DEF Intaking, Intake!Next, Intake!Hold, Intake!MayTellCredit
  <2> QED
    BY <2>2, <2>3
<1>6. CASE mode' \in {"INIT", "ALARM"}
  <2>1. phase' = "aborted" /\ Intake!Inside
    BY <1>0, <1>6, NextPhase, Phases DEF Accepting
  <2> QED
    BY <1>1, <2>1 DEF Intaking, Intake!Next, Intake!Abort, Intake!MayTellCredit
<1>7. CASE mode' = "STACK"
  <2>1. phase' = "stacked" /\ mode = "WAIT_REQ" /\ second' = 0 /\ line \in {"stack", "initial"}
    BY <1>0, <1>7, NextPhase DEF OutKept
  <2>2. phase = "offered" /\ verdict \in {"stack", "reset"} /\ credit' = credit
    BY <1>1, <2>1, Phases DEF verdict, TakingModes, LeavingModes
  <2> QED
    BY <1>1, <2>1, <2>2 DEF Intaking, Intake!Next, Intake!Stack
<1>8. CASE mode' = "REJECT"
  <2>1. phase' = "returned" /\ mode \in LeavingModes /\ Back
    BY <1>0, <1>8, NextPhase DEF OutKept
  <2>2. /\ phase \in {"offered", "held"} /\ verdict \in {"return", "reset"}
        /\ credit' = credit
    BY <1>1, <1>2, <2>1, Phases DEF verdict, LeavingModes, Back
  <2> QED
    BY <1>1, <2>1, <2>2 DEF Intaking, Intake!Next, Intake!Return
<1> QED
  <2>1. mode' \in AcceptModes \cup {"INIT", "ALARM", "REJECT", "STACK"}
    BY <1>0 DEF IInv, TypeOK, MainOK
  <2> QED
    BY <1>3, <1>4, <1>5, <1>6, <1>7, <1>8, <2>1, Modes DEF LeavingModes

------------------------------------------------------------------------------
(* What the line task and the host do.                                        *)

LEMMA LineReadsIntake ==
  ASSUME IInv, JInv, LineReads PROVE Intaking
<1> DEFINE x == Head(line_mbx)
<1>0. /\ Accepting /\ Accord /\ UNCHANGED <<mode, second>>
      /\ line_mbx # << >> /\ line_mbx' = Tail(line_mbx)
  BY DEF LineReads, JInv, mvars
<1>1. /\ 1 \in 1 .. Len(line_mbx) /\ x = line_mbx[1]
      /\ \A i \in 1 .. Len(line_mbx') :
           i + 1 \in 1 .. Len(line_mbx) /\ line_mbx'[i] = line_mbx[i + 1] /\ i + 1 # 1
  BY <1>0, LineTail
<1>2. phase' = phase /\ Intake!Inside
  BY <1>0, Phases DEF phase
<1>3. x.sub = "VEND" => vend = "none" /\ Vends # {} /\ line \in {"second", "initial"}
  <2>1. x.sub = "VEND" => Vended /\ 1 \in Vends
    BY <1>1 DEF Vended, Vends
  <2> QED
    BY <1>0, <2>1 DEF IInv, OneCredit, Accord
<1>4. x.sub # "VEND" => (Vends' # {} <=> Vends # {})
  <2>1. ASSUME x.sub # "VEND", Vends # {} PROVE FALSE
    BY <1>0, <1>1, <2>1 DEF Accord, Vends
  <2>2. Vends' # {} => Vends # {}
    BY <1>1 DEF Vends
  <2> QED
    BY <2>1, <2>2
<1>5. /\ Told <=> vend # "none" \/ Vends # {}
      /\ Told' <=> vend' # "none" \/ Vends' # {}
  <2>1. Told' <=> vend' # "none" \/ Vends' # {}
    BY DEF Told, Vends
  <2> QED
    BY <2>1, ToldMeans
<1> HIDE DEF x
<1>6. CASE x.sub = "VEND" /\ line = "second" /\ vend' = "sent" /\ UNCHANGED line
  <2>1. credit = "told" /\ credit' = "told"
    BY <1>3, <1>5, <1>6 DEF credit
  <2>2. verdict' = verdict
    BY <1>6 DEF verdict
  <2> QED
    BY <1>0, <1>2, <2>1, <2>2, SameIntake
<1>7. CASE x.sub = "VEND" /\ line # "second" /\ UNCHANGED lvars
  <2>1. line = "initial" /\ UNCHANGED <<line, vend>>
    BY <1>3, <1>7 DEF lvars
  <2>2. credit' = credit /\ verdict' = verdict
    BY <2>1 DEF credit, verdict
  <2> QED
    BY <1>0, <1>2, <2>2, SameIntake
<1>8. CASE /\ x.sub # "VEND" /\ vend' = vend
           /\ \/ line' = line
              \/ line \in {"accept", "second", "escrow"} /\ line' \in {"escrow", "refused", "reject"}
  <2>1. credit' = credit
    <3>1. Told' <=> Told
      BY <1>4, <1>5, <1>8
    <3> QED
      BY <1>8, <3>1 DEF credit
  <2>2. CASE verdict' = verdict
    BY <1>0, <1>2, <2>1, <2>2, SameIntake
  <2>3. CASE verdict' # verdict
    <3>1. verdict = "none" /\ verdict' = "return"
      BY <1>8, <2>3 DEF verdict
    <3> QED
      BY <1>0, <1>2, <2>1, <3>1 DEF Intaking, Intake!Next, Intake!Decide
  <2> QED
    BY <2>2, <2>3
<1> QED
  BY <1>6, <1>7, <1>8 DEF LineReads, lvars, x

LEMMA HostIntake ==
  ASSUME IInv, JInv, HostAcks \/ HostPolls \/ HostDecides \/ HostResets PROVE Intaking
<1>1. /\ Accepting /\ Onward /\ Intake!Inside
      /\ UNCHANGED <<mode, second, line_mbx>> /\ phase' = phase
  BY Phases DEF HostAcks, HostPolls, HostDecides, HostResets, JInv, mvars, phase
<1>2. CASE HostAcks
  <2>1. UNCHANGED <<line>> /\ line # "initial" /\ vend = "sent" /\ vend' = "acked"
    BY <1>2 DEF HostAcks
  <2>2. Told /\ Told'
    BY <2>1 DEF Told
  <2>3. credit = "told" /\ credit' = "acked" /\ verdict' = verdict
    BY <2>1, <2>2 DEF credit, verdict
  <2> QED
    BY <1>1, <2>3 DEF Intaking, Intake!Next, Intake!Ack
<1>3. CASE HostPolls \/ HostDecides
  <2>1. /\ line \in {"refused", "escrow"} /\ line' \in {"stack", "reject"} /\ vend' = vend
        /\ line' = "stack" => line = "escrow"
    BY <1>3 DEF HostPolls, HostDecides
  <2>2. Told' <=> Told
    BY <1>1, <2>1 DEF Told
  <2>3. credit' = credit /\ verdict = "none"
    BY <2>1, <2>2 DEF credit, verdict
  <2>4. \/ phase = "offered" /\ verdict' = "stack"
        \/ verdict' = "return"
    BY <1>1, <2>1, Phases DEF Onward, verdict
  <2> QED
    BY <1>1, <2>3, <2>4 DEF Intaking, Intake!Next, Intake!Decide
<1>4. CASE HostResets
  <2>1. line # "initial" /\ line' = "initial"
    BY <1>4 DEF HostResets
  <2>2. verdict # "reset" /\ verdict' = "reset" /\ credit' = "none"
    BY <2>1 DEF verdict, credit
  <2> QED
    BY <1>1, <2>2 DEF Intaking, Intake!Next, Intake!Reset
<1> QED
  BY <1>1, <1>2, <1>3, <1>4

LEMMA StepIntake == IInv /\ JInv /\ [Next]_vars => Intaking
<1> SUFFICES ASSUME IInv, JInv, [Next]_vars PROVE Intaking
  OBVIOUS
<1>1. CASE accept_msg_proc
  BY <1>1, HandlerIntake
<1>2. CASE \E t \in Tasks : Start(t) \/ Finish(t)
  BY <1>2, AsideIntake DEF Start, Finish, mvars, lvars
<1>3. CASE HomeAlready \/ ClearsBusy \/ Fault \/ PaperMoved
  BY <1>3, AsideIntake DEF HomeAlready, ClearsBusy, Fault, PaperMoved, mvars, lvars
<1>4. CASE LineReads \/ HostAcks \/ HostPolls \/ HostDecides \/ HostResets
  BY <1>4, LineReadsIntake, HostIntake
<1>5. CASE UNCHANGED vars
  BY <1>5, AsideIntake DEF vars, mvars, lvars
<1> QED
  BY <1>1, <1>2, <1>3, <1>4, <1>5 DEF Next

LEMMA InitIntake == Init => Intake!Init
<1> SUFFICES ASSUME Init PROVE Intake!Init
  OBVIOUS
<1> PICK n \in {"first", "pulling", "pulled"} :
      /\ second = IF n = "first" THEN 0 ELSE 1
      /\ line = IF n = "first" THEN "accept" ELSE "second"
      /\ line_mbx = IF n = "pulled" THEN <<Msg("STACK", "VEND", NoDenomi)>> ELSE << >>
  BY DEF Init
<1>1. mode = "SENSOR_ACTIVE" /\ vend = "none"
  BY DEF Init
<1>2. phase = "taking"
  BY <1>1, Phases DEF TakingModes, AcceptModes, LeavingModes
<1>3. verdict = "none"
  BY DEF verdict
<1>4. credit \in {"none", "told"} /\ (second = 0 => credit = "none")
  <2>1. n # "pulled" => Vends = {}
    <3>1. Len(<< >>) = 0
      OBVIOUS
    <3> QED
      BY <3>1 DEF Vends
  <2>2. second = 0 => ~Told
    BY <1>1, <2>1, ToldMeans
  <2> QED
    BY <1>1, <2>2 DEF credit
<1> QED
  BY <1>2, <1>3, <1>4 DEF Intake!Init

\* Accept mode keeps the promise of NoteIntake: the credit of the note ahead is
\* told once and by the answer of the pull only, a note is offered after the
\* host acknowledged that credit, and it leaves as the host decided.
THEOREM IntakeKept == Safety => Implements
<1>1. IInv /\ JInv /\ [Next]_vars => [Intake!Next]_(Intake!vars)
  BY StepIntake DEF Intaking
<1> QED
  BY <1>1, InitIntake, JoinInvariance, PTL DEF Safety, Implements, Intake!Spec

=============================================================================
