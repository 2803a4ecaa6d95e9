----------------------------- MODULE ByteStream -----------------------------
(***************************************************************************)
(* What the receive buffers of the USB ports promise: whatever a port took *)
(* from its host comes out once, in order and unchanged.  A byte is known  *)
(* by its port and its place in that port's stream, counted from 1.        *)
(***************************************************************************)
EXTENDS Integers

CONSTANT Ports

VARIABLES written,  \* bytes the host of a port sent
          read,     \* bytes the reader of a port took
          dst       \* what the last read delivered

Bytes(p, n) == [i \in 0 .. n - 1 |-> <<p, read[p] + i + 1>>]

Init == /\ written = [p \in Ports |-> 0]
        /\ read = [p \in Ports |-> 0]
        /\ dst = << >>

Send(p) == /\ written' = [written EXCEPT ![p] = written'[p]]
           /\ written'[p] > written[p]
           /\ UNCHANGED <<read, dst>>

Take(p) == /\ \E n \in 1 .. written[p] - read[p] :
                /\ dst' = Bytes(p, n)
                /\ read' = [read EXCEPT ![p] = @ + n]
           /\ UNCHANGED written

Next == \E p \in Ports : Send(p) \/ Take(p)

Spec == Init /\ [][Next]_<<written, read, dst>>
=============================================================================
