--------------------------- MODULE MCUsbMultiRead ---------------------------
(***************************************************************************)
(* UsbMultiRead for TLC.  A behaviour starts in one of the scenarios, each *)
(* of which leaves some of the bounds unspent: what happens concurrently   *)
(* in one of them is not multiplied with what happens in the others.       *)
(***************************************************************************)
EXTENDS UsbMultiRead

\* What is left of the bounds at the start.
Left(frames, bad, inline, reads, requests, purges, cancels) ==
    [sent |-> MaxFrames - frames, bad |-> MaxBadTransfers - bad,
     inline |-> MaxInline - inline, reads |-> MaxReadIrps - reads,
     requests |-> MaxRequests - requests, purges |-> MaxPurges - purges,
     cancels |-> MaxCancels - cancels, overlaps |-> {}]

Delivering == Left(3, 1, 0, 2, 1, 0, 0)
Cancelling == Left(1, 1, 0, 1, 1, 0, 1)
Stopping   == Left(1, 0, 0, 0, 3, 0, 0)
Disturbed  == Left(1, 1, 0, 0, 2, 0, 0)
Inline     == Left(1, 0, 1, 0, 2, 0, 0)
Refused    == Left(1, 2, 1, 0, 1, 0, 0)
Failing    == Left(0, 3, 0, 0, 1, 0, 0)
SafetySpec == /\ \E s \in {Delivering, Cancelling, Stopping, Disturbed, Inline,
                         Refused, Failing} : InitWith(s)
              /\ [][Next]_vars

Filling    == Left(2, 0, 0, 2, 1, 0, 0)
Cancelled  == Left(1, 1, 0, 0, 1, 0, 1)
GivenUp    == Left(0, 2, 0, 0, 1, 0, 1)
Stopped    == Left(1, 0, 0, 0, 2, 0, 0)
Broken     == Left(0, 1, 0, 0, 2, 0, 0)
Purged     == Left(1, 0, 0, 0, 1, 1, 0)
LiveSpec == /\ \E s \in {Filling, Cancelled, GivenUp, Stopped, Broken, Purged} :
                  InitWith(s)
            /\ [][Next]_vars /\ Fairness
=============================================================================
