--------------------------- MODULE NotificationFeed ---------------------------
(***************************************************************************)
(* What the notifications of the DRBD kernel module promise to a monitor:  *)
(* each one is applied once, in the order in which the kernel numbered     *)
(* them, and while the monitor runs every one of them is applied in the    *)
(* end.  Events2 shows how print_event() implements this on a socket that  *)
(* reorders messages.                                                      *)
(***************************************************************************)
EXTENDS Integers

CONSTANT MaxMessages   \* bound on the number of notifications

VARIABLES
  sent,      \* the kernel issued the notifications 1 .. sent
  applied,   \* the notifications the monitor applied
  running    \* the monitor runs

vars == <<sent, applied, running>>

Init == sent = 0 /\ applied = {} /\ running = TRUE

Issue == /\ sent' \in sent + 1 .. MaxMessages
         /\ UNCHANGED <<applied, running>>

Apply == /\ running
         /\ \E n \in 1 .. sent : /\ n \notin applied
                                 /\ 1 .. n - 1 \subseteq applied
                                 /\ applied' = applied \union {n}
         /\ UNCHANGED <<sent, running>>

Stop == running /\ running' = FALSE /\ UNCHANGED <<sent, applied>>

Next == Issue \/ Apply \/ Stop

SafeSpec == Init /\ [][Next]_vars
Spec == SafeSpec /\ WF_vars(Apply)
=============================================================================
