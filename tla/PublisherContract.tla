------------------------- MODULE PublisherContract -------------------------
(***************************************************************************)
(* What the publishers of mqtt5::client promise their user, without packet *)
(* identifiers, quotas or acknowledgements: publishes are handed to the    *)
(* connection one by one in the order in which they were started, and the  *)
(* receiver of a publish that was handed over is told one fate, once.      *)
(***************************************************************************)
EXTENDS Naturals, Sequences

CONSTANT Fates   \* what a receiver can be told, "pending" not among it

VARIABLES
    handed,   \* the publishes handed to the connection, by number
    fate      \* fate[n]: what the receiver of the n-th publish was told

vars == <<handed, fate>>

Init == handed = <<>> /\ fate = <<>>

Start == fate' = Append(fate, "pending")
HandOver(started) ==
    /\ Len(handed) < started
    /\ handed' = Append(handed, Len(handed) + 1)

\* A publisher is started and has to wait.
StartAndWait == Start /\ UNCHANGED handed

\* A publisher is started and no earlier one waits.
StartAndHandOver == Start /\ Len(handed) = Len(fate) /\ HandOver(Len(fate) + 1)

\* The publish that waits longest is handed over.
HandOverNext == HandOver(Len(fate)) /\ UNCHANGED fate

Tell(n, f) ==
    /\ n \in 1 .. Len(handed)
    /\ fate[n] = "pending"
    /\ fate' = [fate EXCEPT ![n] = f]
    /\ UNCHANGED handed

Next ==
    \/ StartAndWait \/ StartAndHandOver \/ HandOverNext
    \/ \E n \in 1 .. Len(handed), f \in Fates : Tell(n, f)

Spec == Init /\ [][Next]_vars
=============================================================================
