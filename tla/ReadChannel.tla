---------------------------- MODULE ReadChannel ----------------------------
(***************************************************************************)
(* What the multi-read pipeline promises a client: the data of the device  *)
(* reaches its read IRPs in the order it was sent, each frame once, and    *)
(* none is lost while the read threads run.  To stop or cancel them loses  *)
(* what has not been delivered, all of it.  Packets that are too large for *)
(* the clients are dropped and are not among the frames.                   *)
(***************************************************************************)
EXTENDS Naturals, Sequences

CONSTANT Frame

VARIABLES
    sent,       \* number of frames the device has sent
    queue,      \* frames that wait for a read IRP
    delivered,  \* frames given to read IRPs, in order
    running,    \* FALSE while somebody resets the stopped pipeline
    reliable    \* FALSE once the environment has broken the channel's rules

data == <<sent, queue, delivered>>
vars == <<sent, queue, delivered, running, reliable>>

\* The number of the first frame does not matter.
Init == sent \in Nat /\ queue = <<>> /\ delivered = <<>> /\ reliable = TRUE

\* The device sends its next frame.
Receive ==
    /\ sent + 1 \in Frame
    /\ sent' = sent + 1
    /\ queue' = Append(queue, sent + 1)
    /\ UNCHANGED delivered

\* A read IRP takes the oldest frame.
Deliver ==
    /\ queue # <<>>
    /\ delivered' = Append(delivered, Head(queue))
    /\ queue' = Tail(queue)
    /\ UNCHANGED sent

\* The pipeline is reset.
Flush ==
    /\ ~running
    /\ queue' = <<>>
    /\ UNCHANGED <<sent, delivered>>

Next == \/ ~reliable'
        \/ reliable /\ (UNCHANGED data \/ Receive \/ Deliver \/ Flush)

Spec == Init /\ [][Next]_vars
=============================================================================
