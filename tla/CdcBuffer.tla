----------------------------- MODULE CdcBuffer ------------------------------
(***************************************************************************)
(* usb/usb_cdc_buffer.c as hal/hal_usb.c and hal_usb2.c use it: the ring   *)
(* buffers of the front and the rear USB port.  The interrupt writes what  *)
(* the host sent and moves end; the dline task asks how much there is,     *)
(* without a lock, and then reads with the interrupt off and moves start.  *)
(*                                                                         *)
(* Each port has its own indices, but _usb_cdc_buffer_init gives both the  *)
(* same memory, USB_CDC_BUF_BASE.                                          *)
(***************************************************************************)
EXTENDS Integers

CONSTANTS Ports,           \* the ports that share USB_CDC_BUF_BASE
          Size,            \* USB_CDC_MEM_SIZE
          USB_BUFFER_SIZE, \* room for one command in the dline task
          Outstanding,     \* bytes a host sends before it waits to be answered
          MaxSent          \* bound: bytes a host sends in all

\* A command and its repetition fit: the protocols of the dline answer each
\* command, and their length field is shorter than the buffer.
ASSUME SizeAssumption == Size \in Nat \ {0} /\ Outstanding \in 1 .. Size

ASSUME ReaderAssumption == USB_BUFFER_SIZE \in Nat \ {0} /\ MaxSent \in Nat

VARIABLES start, end,      \* per port: next byte to read, next to write
          mem,             \* the memory both ports share
          pc, port,        \* where the reader is, and for which port
          look,            \* where it saw end, seen from start
          avail,           \* what it computed from that
          dst              \* what it read last

VARIABLES written, read    \* history: bytes sent and taken per port

ring   == <<start, end, mem>>
reader == <<pc, port, look, avail>>
vars   == <<ring, reader, dst, written, read>>

\* For the mutants: no byte more than the buffer is to hold.
LengthPlain == Size

Length == Size + 1

Byte == Ports \X Nat

TypeOK ==
  /\ start \in [Ports -> 0 .. Length]
  /\ end \in [Ports -> 0 .. Length]
  /\ mem \in [0 .. Size -> Byte]
  /\ pc \in {"idle", "compared", "counted"}
  /\ port \in Ports
  /\ look \in {"ahead", "behind"}
  /\ avail \in Int
  /\ written \in [Ports -> Nat]
  /\ read \in [Ports -> Nat]

Init ==
  /\ start = [p \in Ports |-> 0]
  /\ end = [p \in Ports |-> 0]
  /\ pc = "idle"
  /\ port \in Ports
  /\ mem = [x \in 0 .. Size |-> <<port, 0>>]
  /\ look = "ahead"
  /\ avail = 0
  /\ dst = << >>
  /\ written = [p \in Ports |-> 0]
  /\ read = [p \in Ports |-> 0]

------------------------------------------------------------------------------
Least(a, b) == IF a =< b THEN a ELSE b

AvailableBytes(p) ==
  IF end[p] < start[p] THEN Length - start[p] + end[p] ELSE end[p] - start[p]

AvailableSpace(p) ==
  IF end[p] < start[p] THEN start[p] - end[p] ELSE Length - end[p] + start[p]

\* For the mutants: an index that runs on.
MovedOn(x) == x

\* For the mutants: an index that wraps where the buffer is full, not where
\* the memory ends.
MovedBySize(x) == IF x > Length THEN x % Size ELSE x

\* An index that was moved may rest at Length, one past the last byte.
Moved(x) == IF x > Length THEN x % Length ELSE x

\* Nobody but the host of one port speaks: see Shared memory in the README.
OneSpeaks(p) == \A q \in Ports \ {p} : written[q] = read[q]

\* _usb_cdc_buffer_write(data, n): memory after the copy.
Copied(p, n) ==
  LET fits  == Least(n, AvailableSpace(p))
      wraps == end[p] + fits > Length
      first == Length - end[p]
      data(i) == <<p, written[p] + i + 1>>
  IN [x \in 0 .. Size |->
        CASE wraps /\ x >= end[p]                    -> data(x - end[p])
          [] wraps /\ x < fits - first               -> data(first + x)
          [] ~wraps /\ x \in end[p] .. end[p] + n - 1 -> data(x - end[p])
          [] OTHER                                   -> mem[x]]

\* _usb_cdc_buffer_write: the bytes it counts.
CountedIn(p, n) ==
  LET fits == Least(n, AvailableSpace(p))
  IN IF end[p] + fits > Length THEN fits ELSE n

\* The interrupt: _UsbRecvData stores what came and ignores the result.
_UsbRecvData(p, n) ==
  /\ OneSpeaks(p)
  /\ written[p] - read[p] + n =< Outstanding
  /\ written[p] + n =< MaxSent
  /\ mem' = Copied(p, n)
  /\ end' = [end EXCEPT ![p] = Moved(@ + CountedIn(p, n))]
  /\ written' = [written EXCEPT ![p] = @ + n]
  /\ UNCHANGED <<start, reader, dst, read>>

\* UsbGetAvailableChar: end is read for the comparison and again for the
\* count, with the interrupt on.
Compare(p) ==
  /\ pc = "idle"
  /\ pc' = "compared"
  /\ port' = p
  /\ look' = IF end[p] < start[p] THEN "behind" ELSE "ahead"
  /\ UNCHANGED <<ring, avail, dst, written, read>>

\* For the mutants: numAvailByte is unsigned.
CountUnsigned ==
  /\ pc = "compared"
  /\ pc' = "counted"
  /\ avail' = (IF look = "ahead" THEN end[port] - start[port]
                                 ELSE Length - start[port] + end[port]) % (2 * Length)
  /\ UNCHANGED <<ring, port, look, dst, written, read>>

Count ==
  /\ pc = "compared"
  /\ pc' = "counted"
  /\ avail' = IF look = "ahead" THEN end[port] - start[port]
                                ELSE Length - start[port] + end[port]
  /\ UNCHANGED <<ring, port, look, dst, written, read>>

\* _usb_cdc_buffer_read(n): what is copied out, and the bytes counted.
Taken(p, n) ==
  LET rest == Least(n, AvailableBytes(p)) IN
  IF start[p] + rest > Length
  THEN [i \in 0 .. rest - 1 |->
          IF start[p] + i < Length THEN mem[start[p] + i] ELSE mem[start[p] + i - Length]]
  ELSE [i \in 0 .. n - 1 |-> mem[start[p] + i]]

CountedOut(p, n) ==
  LET rest == Least(n, AvailableBytes(p))
  IN IF start[p] + rest > Length THEN rest ELSE n

\* The reader asks for what it counted, or for less: at most a buffer, or the
\* rest of the command it assembles.
UsbGetRecvData ==
  /\ pc = "counted" /\ avail > 0
  /\ pc' = "idle"
  /\ \E n \in 1 .. Least(avail, USB_BUFFER_SIZE) :
       /\ dst' = Taken(port, n)
       /\ start' = [start EXCEPT ![port] = Moved(@ + CountedOut(port, n))]
       /\ read' = [read EXCEPT ![port] = @ + CountedOut(port, n)]
  /\ UNCHANGED <<end, mem, port, look, avail, written>>

NoData ==
  /\ pc = "counted" /\ avail =< 0
  /\ pc' = "idle"
  /\ UNCHANGED <<ring, port, look, avail, dst, written, read>>

Reader == (\E p \in Ports : Compare(p)) \/ Count \/ UsbGetRecvData \/ NoData

Next == \/ \E p \in Ports, n \in 1 .. Outstanding : _UsbRecvData(p, n)
        \/ Reader

Spec == Init /\ [][Next]_vars

------------------------------------------------------------------------------
\* The ring keeps its promise although a full and an empty buffer look alike
\* (usb_cdc_buffer.c:141), an index may rest one past the end (:132), the two
\* ports share one memory (:19) and the count is taken with the interrupt on.
Stream == INSTANCE ByteStream

Implements == Stream!Spec

\* Nobody but the writer moves end and nobody but the reader start, and both
\* compute the fill level from both: it is always what is still unread.
FillLevel == \A p \in Ports : AvailableBytes(p) = written[p] - read[p]

\* What the reader counted is never more than there is, though end may have
\* moved, and wrapped, between its two looks (usb_cdc_buffer.c:150).
NeverTooMuch == pc = "counted" => avail =< written[port] - read[port]
=============================================================================
