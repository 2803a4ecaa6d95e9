-------------------------- MODULE CdcBufferProofs ---------------------------
(***************************************************************************)
(* Theorems about CdcBuffer for every buffer size, command size and number *)
(* of ports: type correctness, the fill level is what is unread, the count *)
(* taken with the interrupt on is never too large, and the rings implement *)
(* ByteStream although they share one memory.                              *)
(***************************************************************************)
EXTENDS CdcBuffer, TLAPS

Unread(p) == written[p] - read[p]

\* Where the byte k places after the next one to read lies.
Place(p, k) == IF start[p] + k >= Length THEN start[p] + k - Length ELSE start[p] + k

\* Every unread byte lies in its place.
Held == \A p \in Ports : \A k \in 0 .. Size :
          k < Unread(p) => mem[Place(p, k)] = <<p, read[p] + k + 1>>

\* No two ports have unread bytes at a time.
Alone == \A p, q \in Ports : p # q => Unread(p) = 0 \/ Unread(q) = 0

\* A host waits for its answer.
Waits == \A p \in Ports : Unread(p) \in 0 .. Size

\* While the reader holds a comparison, an end that was below start stays
\* below it; the other may have wrapped, and the count will be negative.
Compared == pc = "compared" /\ look = "behind" => end[port] < start[port]

IInv == TypeOK /\ FillLevel /\ Waits /\ Alone /\ Held /\ Compared /\ NeverTooMuch

USE SizeAssumption, ReaderAssumption

------------------------------------------------------------------------------
\* An index never moves past Length twice.
LEMMA Wraps == ASSUME NEW x \in 0 .. 2 * Length - 1
               PROVE  Moved(x) = IF x > Length THEN x - Length ELSE x
<1>1. CASE x > Length
  <2>1. x - Length \in 0 .. Length - 1 /\ x = 1 * Length + (x - Length)
    BY <1>1 DEF Length
  <2>2. x % Length = x - Length
    BY <2>1, Z3 DEF Length
  <2> QED
    BY <1>1, <2>2 DEF Moved
<1> QED
  BY <1>1 DEF Moved

LEMMA InitInv == Init => IInv
BY DEF Init, IInv, TypeOK, FillLevel, Waits, Alone, Held, Compared, NeverTooMuch,
       AvailableBytes, Unread, Length, Byte

------------------------------------------------------------------------------
\* What the interrupt stores fits, and is stored behind the unread bytes.
LEMMA WriteFits ==
  ASSUME IInv, NEW p \in Ports, NEW n \in 1 .. Outstanding, _UsbRecvData(p, n)
  PROVE  /\ Least(n, AvailableSpace(p)) = n
         /\ CountedIn(p, n) = n
         /\ end'[p] = IF end[p] + n > Length THEN end[p] + n - Length ELSE end[p] + n
<1>1. /\ start[p] \in 0 .. Length /\ end[p] \in 0 .. Length
      /\ written[p] \in Nat /\ read[p] \in Nat
      /\ AvailableBytes(p) = written[p] - read[p]
      /\ written[p] - read[p] + n =< Outstanding
  BY DEF IInv, TypeOK, FillLevel, _UsbRecvData
<1>2. Least(n, AvailableSpace(p)) = n
  BY <1>1 DEF Least, AvailableSpace, AvailableBytes, Length
<1>3. CountedIn(p, n) = n
  BY <1>2 DEF CountedIn
<1>4. end[p] + n \in 0 .. 2 * Length - 1
  BY <1>1 DEF Length
<1>5. end'[p] = Moved(end[p] + n)
  BY <1>3 DEF _UsbRecvData, IInv, TypeOK
<1> QED
  BY <1>1, <1>2, <1>3, <1>4, <1>5, Wraps DEF Length

\* Byte x of the memory after the interrupt stored n bytes.
LEMMA Stored ==
  ASSUME IInv, NEW p \in Ports, NEW n \in 1 .. Outstanding, _UsbRecvData(p, n),
         NEW x \in 0 .. Size
  PROVE  mem'[x] = IF x >= end[p] /\ x < end[p] + n
                   THEN <<p, written[p] + (x - end[p]) + 1>>
                   ELSE IF x < end[p] + n - Length
                   THEN <<p, written[p] + (Length - end[p] + x) + 1>>
                   ELSE mem[x]
<1>1. end[p] \in 0 .. Length
  BY DEF IInv, TypeOK
<1>2. Least(n, AvailableSpace(p)) = n
  BY WriteFits
<1>3. mem' = Copied(p, n)
  BY DEF _UsbRecvData
<1>4. mem'[x] = CASE end[p] + n > Length /\ x >= end[p] ->
                       <<p, written[p] + (x - end[p]) + 1>>
                  [] end[p] + n > Length /\ x < n - (Length - end[p]) ->
                       <<p, written[p] + ((Length - end[p]) + x) + 1>>
                  [] ~(end[p] + n > Length) /\ x \in end[p] .. end[p] + n - 1 ->
                       <<p, written[p] + (x - end[p]) + 1>>
                  [] OTHER -> mem[x]
  BY <1>2, <1>3 DEF Copied
<1>5. CASE x >= end[p] /\ x < end[p] + n
  BY <1>1, <1>4, <1>5 DEF Length
<1>6. CASE x < end[p] + n - Length
  BY <1>1, <1>4, <1>6 DEF Length
<1>7. CASE ~(x >= end[p] /\ x < end[p] + n) /\ ~(x < end[p] + n - Length)
  BY <1>1, <1>4, <1>7 DEF Length
<1>8. x < end[p] + n - Length => ~(x >= end[p])
  BY <1>1 DEF Length
<1> QED
  BY <1>5, <1>6, <1>7, <1>8

LEMMA WriteInv ==
  ASSUME IInv, NEW p \in Ports, NEW n \in 1 .. Outstanding, _UsbRecvData(p, n)
  PROVE  IInv'
<1> USE DEF IInv
<1>1. /\ start[p] \in 0 .. Length /\ end[p] \in 0 .. Length
      /\ written[p] \in Nat /\ read[p] \in Nat
      /\ AvailableBytes(p) = written[p] - read[p]
      /\ written[p] - read[p] + n =< Outstanding
      /\ start' = start /\ read' = read
      /\ written' = [written EXCEPT ![p] = @ + n]
      /\ written'[p] = written[p] + n
      /\ Least(n, AvailableSpace(p)) = n
      /\ end'[p] = IF end[p] + n > Length THEN end[p] + n - Length ELSE end[p] + n
  BY WriteFits DEF TypeOK, FillLevel, _UsbRecvData
<1>2. /\ \A q \in Ports \ {p} : end'[q] = end[q] /\ written'[q] = written[q] /\ written[q] = read[q]
      /\ DOMAIN end' = Ports
  BY DEF _UsbRecvData, OneSpeaks, TypeOK
<1>3. TypeOK'
  <2>1. end' \in [Ports -> 0 .. Length]
    <3>1. end'[p] \in 0 .. Length
      BY <1>1 DEF Length
    <3> QED
      BY <3>1, <1>2 DEF TypeOK, _UsbRecvData
  <2>2. mem' \in [0 .. Size -> Byte]
    <3>1. \A i \in Nat : <<p, written[p] + i + 1>> \in Byte
      BY <1>1 DEF Byte
    <3>2. \A x \in 0 .. Size : mem'[x] \in Byte
      <4> SUFFICES ASSUME NEW x \in 0 .. Size PROVE mem'[x] \in Byte
        OBVIOUS
      <4>1. mem[x] \in Byte
        BY DEF TypeOK
      <4>2. CASE x >= end[p]
        <5>1. x - end[p] \in Nat
          BY <4>2, <1>1
        <5>2. <<p, written[p] + (x - end[p]) + 1>> \in Byte
          BY <5>1, <3>1
        <5>3. ~(x < end[p] + n - Length)
          BY <4>2, <1>1 DEF Length
        <5> QED
          BY <5>2, <5>3, <4>1, Stored
      <4>3. CASE x < end[p]
        <5>1. Length - end[p] + x \in Nat
          BY <1>1 DEF Length
        <5>2. <<p, written[p] + (Length - end[p] + x) + 1>> \in Byte
          BY <5>1, <3>1
        <5>3. ~(x >= end[p])
          BY <4>3, <1>1
        <5> QED
          BY <5>2, <5>3, <4>1, Stored
      <4> QED
        BY <4>2, <4>3, <1>1
    <3>3. mem' = [x \in 0 .. Size |-> mem'[x]]
      BY DEF _UsbRecvData, Copied
    <3> QED
      BY <3>2, <3>3
  <2>3. written' \in [Ports -> Nat]
    BY <1>1 DEF TypeOK
  <2> QED
    BY <2>1, <2>2, <2>3 DEF TypeOK, _UsbRecvData, reader
<1>4. FillLevel'
  <2>1. AvailableBytes(p)' = written'[p] - read'[p]
    BY <1>1 DEF AvailableBytes, Length
  <2>2. \A q \in Ports \ {p} : AvailableBytes(q)' = written'[q] - read'[q]
    BY <1>1, <1>2 DEF FillLevel, AvailableBytes
  <2> QED
    BY <2>1, <2>2 DEF FillLevel
<1>5. Waits' /\ Alone'
  <2>1. Unread(p)' \in 0 .. Size
    BY <1>1, <1>2 DEF Waits, Unread, TypeOK
  <2>2. \A q \in Ports \ {p} : Unread(q)' = 0
    BY <1>1, <1>2 DEF Unread, TypeOK
  <2> QED
    BY <2>1, <2>2 DEF Waits, Alone
<1>6. Held'
  <2> SUFFICES ASSUME NEW q \in Ports, NEW k \in 0 .. Size, k < Unread(q)'
               PROVE  mem'[Place(q, k)'] = <<q, read'[q] + k + 1>>
    BY DEF Held
  <2>1. q = p
    BY <1>1, <1>2 DEF Unread, TypeOK
  <2>2. Place(p, k)' = Place(p, k) /\ Place(p, k) \in 0 .. Size
    BY <1>1 DEF Place, Length
  <2>4. CASE k < Unread(p)
    <3>1. mem[Place(p, k)] = <<p, read[p] + k + 1>>
      BY <2>4 DEF Held
    <3>2. mem'[Place(p, k)] = mem[Place(p, k)]
      <4>1. /\ ~(Place(p, k) >= end[p] /\ Place(p, k) < end[p] + n)
            /\ ~(Place(p, k) < end[p] + n - Length)
        BY <2>4, <1>1 DEF Place, Unread, AvailableBytes, Length
      <4> QED
        BY <4>1, <2>2, Stored
    <3> QED
      BY <3>1, <3>2, <2>1, <2>2, <1>1
  <2>5. CASE k >= Unread(p)
    <3>1. mem'[Place(p, k)] = <<p, written[p] + (k - Unread(p)) + 1>>
      <4>1. k - Unread(p) \in 0 .. n - 1
        BY <2>1, <2>5, <1>1 DEF Unread, TypeOK
      <4> DEFINE j == k - Unread(p)
      <4>2. Place(p, k) = IF end[p] + j >= Length THEN end[p] + j - Length ELSE end[p] + j
        BY <4>1, <1>1 DEF Place, Unread, AvailableBytes, Length
      <4>3. mem'[Place(p, k)] = <<p, written[p] + j + 1>>
        <5>1. CASE end[p] + j >= Length
          <6>1. /\ Place(p, k) = end[p] + j - Length
                /\ ~(Place(p, k) >= end[p]) /\ Place(p, k) < end[p] + n - Length
                /\ Length - end[p] + Place(p, k) = j
            BY <5>1, <4>1, <4>2, <1>1 DEF Length
          <6> QED
            BY <6>1, <2>2, Stored
        <5>2. CASE end[p] + j < Length
          <6>1. /\ Place(p, k) >= end[p] /\ Place(p, k) < end[p] + n
                /\ Place(p, k) - end[p] = j
            BY <5>2, <4>1, <4>2, <1>1 DEF Length
          <6> QED
            BY <6>1, <2>2, Stored
        <5> QED
          BY <5>1, <5>2, <4>1, <1>1 DEF Length
      <4> QED
        BY <4>3
    <3>2. written[p] + (k - Unread(p)) + 1 = read[p] + k + 1
      BY <1>1 DEF Unread
    <3> QED
      BY <3>1, <3>2, <2>1, <2>2, <1>1
  <2> QED
    BY <2>4, <2>5, <1>1 DEF Unread
<1>7. Compared'
  BY <1>1, <1>2, <1>3 DEF Compared, _UsbRecvData, reader, AvailableBytes, Length, TypeOK
<1>8. NeverTooMuch'
  BY <1>1, <1>2 DEF NeverTooMuch, _UsbRecvData, reader, TypeOK
<1> QED
  BY <1>3, <1>4, <1>5, <1>6, <1>7, <1>8

------------------------------------------------------------------------------
LEMMA CompareInv == ASSUME IInv, NEW p \in Ports, Compare(p) PROVE IInv'
<1> USE DEF IInv
<1>1. TypeOK' /\ Compared'
  BY DEF TypeOK, Compared, Compare, ring
<1>2. FillLevel' /\ Waits' /\ Alone'
  BY DEF FillLevel, Waits, Alone, Compare, ring, AvailableBytes, Unread
<1>3. Held'
  BY DEF Held, Compare, ring, Unread, Place
<1>4. NeverTooMuch'
  BY DEF NeverTooMuch, Compare
<1> QED
  BY <1>1, <1>2, <1>3, <1>4

LEMMA CountInv == ASSUME IInv, Count PROVE IInv'
<1> USE DEF IInv
<1>1. FillLevel' /\ Waits' /\ Alone' /\ Compared'
  BY DEF FillLevel, Waits, Alone, Compared, Count, ring, AvailableBytes, Unread
<1>2. Held'
  BY DEF Held, Count, ring, Unread, Place
<1>3. /\ start[port] \in 0 .. Length /\ end[port] \in 0 .. Length
      /\ AvailableBytes(port) = written[port] - read[port]
      /\ written[port] - read[port] \in 0 .. Size
  BY DEF TypeOK, FillLevel, Waits, Unread
<1>4. TypeOK'
  BY <1>3 DEF TypeOK, Count, ring, Length
<1>5. NeverTooMuch'
  <2>1. /\ avail' = IF look = "ahead" THEN end[port] - start[port]
                                      ELSE Length - start[port] + end[port]
        /\ port' = port /\ written' = written /\ read' = read
    BY DEF Count
  <2>2. look # "ahead" => end[port] < start[port]
    BY DEF Count, Compared, TypeOK
  <2>3. avail' =< AvailableBytes(port)
    BY <2>1, <2>2, <1>3 DEF AvailableBytes, Length
  <2> QED
    BY <2>1, <2>3, <1>3 DEF NeverTooMuch
<1> QED
  BY <1>1, <1>2, <1>4, <1>5

LEMMA NoDataInv == ASSUME IInv, NoData PROVE IInv'
<1> USE DEF IInv
<1>1. TypeOK' /\ Compared' /\ NeverTooMuch'
  BY DEF TypeOK, Compared, NeverTooMuch, NoData, ring
<1>2. FillLevel' /\ Waits' /\ Alone'
  BY DEF FillLevel, Waits, Alone, NoData, ring, AvailableBytes, Unread
<1>3. Held'
  BY DEF Held, NoData, ring, Unread, Place
<1> QED
  BY <1>1, <1>2, <1>3

------------------------------------------------------------------------------
\* What is read is what is next, in order.
LEMMA ReadGives ==
  ASSUME IInv, pc = "counted", NEW n \in 1 .. Least(avail, USB_BUFFER_SIZE)
  PROVE  /\ n \in Nat \ {0}
         /\ n =< written[port] - read[port]
         /\ CountedOut(port, n) = n
         /\ Moved(start[port] + n) = IF start[port] + n > Length THEN start[port] + n - Length
                                                               ELSE start[port] + n
         /\ Taken(port, n) = [i \in 0 .. n - 1 |-> <<port, read[port] + i + 1>>]
<1> USE DEF IInv
<1>1. /\ start[port] \in 0 .. Length /\ end[port] \in 0 .. Length
      /\ avail \in Int /\ written[port] \in Nat /\ read[port] \in Nat
      /\ AvailableBytes(port) = written[port] - read[port]
      /\ written[port] - read[port] \in 0 .. Size
      /\ avail =< written[port] - read[port]
  BY DEF TypeOK, FillLevel, Waits, Unread, NeverTooMuch
<1>2. n \in Nat \ {0} /\ n =< written[port] - read[port]
  BY <1>1 DEF Least
<1>3. Least(n, AvailableBytes(port)) = n
  BY <1>1, <1>2 DEF Least
<1>4. CountedOut(port, n) = n
  BY <1>3 DEF CountedOut
<1>5. start[port] + n \in 0 .. 2 * Length - 1
  BY <1>1, <1>2 DEF Length
<1>6. \A i \in 0 .. n - 1 : mem[Place(port, i)] = <<port, read[port] + i + 1>>
  <2> TAKE i \in 0 .. n - 1
  <2>1. port \in Ports /\ i \in 0 .. Size /\ i < Unread(port)
    BY <1>1, <1>2 DEF Unread, TypeOK
  <2> QED
    BY <2>1 DEF Held
<1>7. Taken(port, n) = [i \in 0 .. n - 1 |-> mem[Place(port, i)]]
  <2>1. CASE start[port] + n > Length
    <3>1. \A i \in 0 .. n - 1 :
            (IF start[port] + i < Length THEN mem[start[port] + i]
                                         ELSE mem[start[port] + i - Length]) = mem[Place(port, i)]
      BY <1>1, <1>2 DEF Place, Length
    <3> QED
      BY <3>1, <2>1, <1>3 DEF Taken
  <2>2. CASE ~(start[port] + n > Length)
    <3>1. \A i \in 0 .. n - 1 : start[port] + i = Place(port, i)
      BY <2>2, <1>1, <1>2 DEF Place, Length
    <3> QED
      BY <3>1, <2>2, <1>3 DEF Taken
  <2> QED
    BY <2>1, <2>2
<1>8. Taken(port, n) = [i \in 0 .. n - 1 |-> <<port, read[port] + i + 1>>]
  BY <1>6, <1>7
<1>9. Moved(start[port] + n) = IF start[port] + n > Length THEN start[port] + n - Length
                                                          ELSE start[port] + n
  BY <1>1, <1>2, <1>5, Wraps DEF Length
<1> QED
  BY <1>2, <1>4, <1>8, <1>9

LEMMA ReadInv == ASSUME IInv, UsbGetRecvData PROVE IInv'
<1> USE DEF IInv
<1> PICK n \in 1 .. Least(avail, USB_BUFFER_SIZE) :
      /\ dst' = Taken(port, n)
      /\ start' = [start EXCEPT ![port] = Moved(@ + CountedOut(port, n))]
      /\ read' = [read EXCEPT ![port] = @ + CountedOut(port, n)]
  BY DEF UsbGetRecvData
<1> PICK p \in Ports : p = port /\ p = port'
  BY DEF TypeOK, UsbGetRecvData
<1>1. /\ p \in Ports /\ start[p] \in 0 .. Length /\ end[p] \in 0 .. Length
      /\ written[p] \in Nat /\ read[p] \in Nat /\ n \in Nat \ {0}
      /\ AvailableBytes(p) = written[p] - read[p]
      /\ n =< written[p] - read[p] /\ written[p] - read[p] \in 0 .. Size
      /\ read'[p] = read[p] + n /\ end' = end /\ written' = written /\ mem' = mem
      /\ start'[p] = IF start[p] + n > Length THEN start[p] + n - Length ELSE start[p] + n
  BY ReadGives DEF TypeOK, FillLevel, Waits, Unread, UsbGetRecvData
<1>2. \A q \in Ports \ {p} : start'[q] = start[q] /\ read'[q] = read[q]
  BY DEF TypeOK
<1>3. TypeOK'
  <2>1. start'[p] \in 0 .. Length /\ read'[p] \in Nat
    BY <1>1 DEF Length
  <2>2. start' \in [Ports -> 0 .. Length] /\ read' \in [Ports -> Nat]
    BY <2>1, <1>2 DEF TypeOK
  <2> QED
    BY <2>2 DEF TypeOK, UsbGetRecvData
<1>4. FillLevel'
  <2>1. AvailableBytes(p)' = written'[p] - read'[p]
    BY <1>1 DEF AvailableBytes, Length
  <2>2. \A q \in Ports \ {p} : AvailableBytes(q)' = written'[q] - read'[q]
    BY <1>1, <1>2 DEF FillLevel, AvailableBytes
  <2> QED
    BY <2>1, <2>2 DEF FillLevel
<1>5. Waits' /\ Alone'
  <2>1. Unread(p)' \in 0 .. Size /\ Unread(p) # 0
    BY <1>1 DEF Unread
  <2>2. \A q \in Ports \ {p} : Unread(q)' = Unread(q)
    BY <1>1, <1>2 DEF Unread
  <2> QED
    BY <2>1, <2>2 DEF Waits, Alone
<1>6. Held'
  <2> SUFFICES ASSUME NEW q \in Ports, NEW k \in 0 .. Size, k < Unread(q)'
               PROVE  mem'[Place(q, k)'] = <<q, read'[q] + k + 1>>
    BY DEF Held
  <2>1. CASE q # p
    <3>1. start'[q] = start[q] /\ read'[q] = read[q] /\ written'[q] = written[q] /\ mem' = mem
      BY <2>1, <1>1, <1>2
    <3>2. k < Unread(q) /\ Place(q, k)' = Place(q, k)
      BY <3>1 DEF Unread, Place
    <3> QED
      BY <3>1, <3>2 DEF Held
  <2>2. CASE q = p
    <3>1. k + n \in 0 .. Size /\ k + n < Unread(p)
      BY <2>2, <1>1 DEF Unread
    <3>2. mem[Place(p, k + n)] = <<p, read[p] + (k + n) + 1>>
      BY <3>1, <1>1 DEF Held
    <3>3. Place(p, k)' = Place(p, k + n)
      BY <3>1, <1>1 DEF Place, Length
    <3> QED
      BY <2>2, <3>2, <3>3, <1>1
  <2> QED
    BY <2>1, <2>2
<1>7. Compared' /\ NeverTooMuch'
  BY DEF Compared, NeverTooMuch, UsbGetRecvData
<1> QED
  BY <1>3, <1>4, <1>5, <1>6, <1>7

------------------------------------------------------------------------------
LEMMA NextInv == IInv /\ [Next]_vars => IInv'
<1> SUFFICES ASSUME IInv, [Next]_vars PROVE IInv'
  OBVIOUS
<1>1. CASE \E p \in Ports, n \in 1 .. Outstanding : _UsbRecvData(p, n)
  BY <1>1, WriteInv
<1>2. CASE \E p \in Ports : Compare(p)
  BY <1>2, CompareInv
<1>3. CASE Count
  BY <1>3, CountInv
<1>4. CASE UsbGetRecvData
  BY <1>4, ReadInv
<1>5. CASE NoData
  BY <1>5, NoDataInv
<1>6. CASE UNCHANGED vars
  <2>1. TypeOK' /\ Compared' /\ NeverTooMuch'
    BY <1>6 DEF IInv, TypeOK, Compared, NeverTooMuch, vars, ring, reader
  <2>2. FillLevel' /\ Waits' /\ Alone' /\ Held'
    BY <1>6 DEF IInv, FillLevel, Waits, Alone, Held, AvailableBytes, Unread, Place, vars, ring
  <2> QED
    BY <2>1, <2>2 DEF IInv
<1> QED
  BY <1>1, <1>2, <1>3, <1>4, <1>5, <1>6 DEF Next, Reader

LEMMA Invariance == Spec => []IInv
BY InitInv, NextInv, PTL DEF Spec

\* The indices stay in the buffer (one past its end at most), and every byte
\* of the memory came from a host.
THEOREM TypeCorrect == Spec => []TypeOK
<1>1. IInv => TypeOK
  BY DEF IInv
<1> QED
  BY <1>1, Invariance, PTL

\* A full buffer is never taken for an empty one, whatever its size: what the
\* indices say is what is unread.
THEOREM FillLevelHolds == Spec => []FillLevel
<1>1. IInv => FillLevel
  BY DEF IInv
<1> QED
  BY <1>1, Invariance, PTL

\* The count that UsbGetAvailableChar takes with the interrupt on may be out
\* of date or negative, but never promises bytes that are not there.
THEOREM CountIsSafe == Spec => []NeverTooMuch
<1>1. IInv => NeverTooMuch
  BY DEF IInv
<1> QED
  BY <1>1, Invariance, PTL

\* The rings deliver what was sent: once, in order and unchanged, although
\* both ports store it in the same memory.
THEOREM ImplementsStream == Spec => Implements
<1>1. Init => Stream!Init
  BY DEF Init, Stream!Init
<1>2. IInv /\ [Next]_vars => [Stream!Next]_<<written, read, dst>>
  <2> SUFFICES ASSUME IInv, [Next]_vars PROVE Stream!Next \/ UNCHANGED <<written, read, dst>>
    OBVIOUS
  <2>1. ASSUME NEW p \in Ports, NEW n \in 1 .. Outstanding, _UsbRecvData(p, n)
        PROVE  Stream!Send(p)
    <3>1. written' = [written EXCEPT ![p] = @ + n] /\ UNCHANGED <<read, dst>>
      BY <2>1 DEF _UsbRecvData
    <3>2. written'[p] = written[p] + n /\ written[p] \in Nat
      BY <3>1 DEF IInv, TypeOK
    <3>3. written'[p] > written[p]
      BY <3>2
    <3>4. written' = [written EXCEPT ![p] = written'[p]]
      BY <3>1, <3>2
    <3> QED
      BY <3>1, <3>3, <3>4 DEF Stream!Send
  <2>2. ASSUME UsbGetRecvData PROVE Stream!Take(port)
    <3> PICK n \in 1 .. Least(avail, USB_BUFFER_SIZE) :
          /\ dst' = Taken(port, n)
          /\ read' = [read EXCEPT ![port] = @ + CountedOut(port, n)]
      BY <2>2 DEF UsbGetRecvData
    <3>1. /\ n \in Nat \ {0} /\ n =< written[port] - read[port]
          /\ CountedOut(port, n) = n
          /\ Taken(port, n) = Stream!Bytes(port, n)
      BY <2>2, ReadGives DEF UsbGetRecvData, Stream!Bytes
    <3>2. n \in 1 .. written[port] - read[port]
      BY <3>1, port \in Ports, written[port] \in Nat, read[port] \in Nat DEF IInv, TypeOK
    <3> QED
      BY <3>1, <3>2, <2>2 DEF Stream!Take, UsbGetRecvData
  <2>3. port \in Ports
    BY DEF IInv, TypeOK
  <2> QED
    BY <2>1, <2>2, <2>3
    DEF Next, Reader, Compare, Count, NoData, vars, Stream!Next
<1> QED
  BY <1>1, <1>2, Invariance, PTL DEF Spec, Implements, Stream!Spec
=============================================================================
