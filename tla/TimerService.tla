---------------------------- MODULE TimerService ----------------------------
(***************************************************************************)
(* What the timer task promises the other tasks.  A timer belongs to the   *)
(* task that set it: it is armed by that task's request, disarmed by that  *)
(* task's request, and expires at most once per arming, with one TIMES_UP  *)
(* message in its owner's mailbox.  Slots, ticks and mailboxes of the      *)
(* timer task itself are details of TimerTask, which implements this.      *)
(***************************************************************************)
EXTENDS Sequences

CONSTANTS Clients,  \* the tasks that own timers
          Timers,   \* <<owner, timer id>> pairs that their owner arms
          Cancels   \* the pairs that their owner cancels

VARIABLES armed,    \* the timers that are running
          inbox     \* inbox[c]: TIMES_UP messages c has not read yet

Init == armed = {} /\ inbox = [c \in Clients |-> << >>]

Arm(t)    == armed' = armed \cup {t} /\ UNCHANGED inbox

Disarm(t) == armed' = armed \ {t} /\ UNCHANGED inbox

Expire(t) == /\ t \in armed
             /\ armed' = armed \ {t}
             /\ inbox' = [inbox EXCEPT ![t[1]] = Append(@, t[2])]

Read(c)   == /\ inbox[c] # << >>
             /\ inbox' = [inbox EXCEPT ![c] = Tail(@)]
             /\ UNCHANGED armed

Next == \/ \E t \in Timers : Arm(t) \/ Expire(t)
        \/ \E t \in Cancels : Disarm(t)
        \/ \E c \in Clients : Read(c)

Spec == Init /\ [][Next]_<<armed, inbox>>
=============================================================================
