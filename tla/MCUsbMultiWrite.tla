--------------------------- MODULE MCUsbMultiWrite ---------------------------
(***************************************************************************)
(* UsbMultiWrite for TLC.  A behaviour starts in one of the scenarios,     *)
(* each of which leaves some of the bounds unspent: what happens           *)
(* concurrently in one of them is not multiplied with what happens in the  *)
(* others.                                                                 *)
(***************************************************************************)
EXTENDS UsbMultiWrite

CONSTANTS b1, b2
TwoBuffers == <<b1, b2>>
\* The first write can be transferred in part; the second, or the only one, is
\* followed by a zero-length packet.
PacketCounts == <<2, 1>>
ShortCounts == <<1, 1>>
FullPackets == {2}

\* What is left of the bounds at the start.
Left(writes, failures, irpCancels, flows, timeouts, stops, purges, cancels) ==
    [writes |-> Len(Packets) - writes, entered |-> Len(Packets) - writes,
     purged |-> 0, failures |-> MaxFailures - failures,
     irpCancels |-> MaxIrpCancels - irpCancels, flows |-> MaxFlows - flows,
     timeouts |-> MaxTimeouts - timeouts, stops |-> MaxStops - stops,
     purges |-> MaxPurges - purges, cancels |-> MaxCancels - cancels]

Flowing         == Left(2, 0, 0, 3, 0, 0, 0, 0)
Late            == Left(2, 0, 0, 2, 1, 0, 0, 0)
Failing         == Left(2, 2, 0, 0, 0, 0, 0, 0)
FailingFlow     == Left(2, 1, 0, 1, 0, 0, 0, 0)
ClientCancel    == Left(2, 0, 1, 1, 0, 0, 0, 0)
TwoCancels      == Left(2, 0, 2, 0, 0, 0, 0, 0)
StoppedFlow     == Left(2, 0, 0, 1, 0, 1, 0, 0)
CancelledFlow   == Left(2, 0, 0, 1, 0, 0, 0, 1)
StoppedCancel   == Left(2, 0, 0, 0, 0, 1, 0, 1)
PurgedStop      == Left(2, 0, 0, 0, 0, 1, 1, 0)
PurgedFlow      == Left(2, 0, 0, 1, 0, 0, 1, 0)
WriteSpec ==
    /\ \E s \in {Flowing, Late, Failing, FailingFlow, ClientCancel, TwoCancels,
                 StoppedFlow, CancelledFlow, StoppedCancel, PurgedStop,
                 PurgedFlow} : InitWith(s)
    /\ [][Next]_vars

FlowOnce      == Left(2, 0, 0, 1, 0, 0, 0, 0)
StopOnce      == Left(2, 0, 0, 0, 0, 1, 0, 0)
FailOnce      == Left(2, 1, 0, 0, 0, 0, 0, 0)
OneCancelled  == Left(1, 0, 0, 1, 0, 0, 0, 1)
OnePurged     == Left(1, 0, 0, 1, 0, 0, 1, 0)
OneStopped    == Left(1, 0, 0, 0, 0, 1, 0, 1)
WriteLiveSpec ==
    /\ \E s \in {FlowOnce, StopOnce, FailOnce, OneCancelled, OnePurged,
                 OneStopped} : InitWith(s)
    /\ [][Next]_vars /\ Fairness
=============================================================================
