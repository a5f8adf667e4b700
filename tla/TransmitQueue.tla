---------------------------- MODULE TransmitQueue ----------------------------
(***************************************************************************)
(* What the miniport's transmit path promises NDIS about the buffers it is *)
(* given to send: they leave in the order in which they were accepted,     *)
(* each at most once.  A buffer may be given up before it has been copied  *)
(* for the device, and never afterwards.                                   *)
(***************************************************************************)
EXTENDS Subsequences

CONSTANT Buffer

VARIABLES
    queue,   \* accepted and not copied
    copied,  \* copied, in a transfer that has not been handed to USB
    wire     \* handed to USB, in order

vars == <<queue, copied, wire>>

Init == queue = <<>> /\ copied = <<>> /\ wire = <<>>

\* New buffers, none of which is known.
Accept ==
    /\ Len(queue') >= Len(queue) /\ IsPrefix(queue, queue')
    /\ IsInjective(queue') /\ ToSet(queue') \subseteq Buffer
    /\ ToSet(queue') \cap (ToSet(copied) \cup ToSet(wire)) = {}
    /\ UNCHANGED <<copied, wire>>

Copy ==
    /\ queue # <<>>
    /\ copied' = Append(copied, Head(queue))
    /\ queue' = Tail(queue)
    /\ UNCHANGED wire

\* A transfer takes all that has been copied for it.
Transmit ==
    /\ wire' = wire \o copied
    /\ copied' = <<>>
    /\ UNCHANGED queue

GiveUp ==
    /\ queue' = Keep(queue, ToSet(queue'))
    /\ UNCHANGED <<copied, wire>>

Next == Accept \/ Copy \/ Transmit \/ GiveUp

Spec == Init /\ [][Next]_vars
=============================================================================
