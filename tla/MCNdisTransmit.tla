--------------------------- MODULE MCNdisTransmit ---------------------------
(***************************************************************************)
(* NdisTransmit for TLC.                                                   *)
(***************************************************************************)
EXTENDS NdisTransmit

CONSTANTS a, b, c, d

Lists == {a, b, c, d}
Counts == [l \in NBL |-> IF l \in {a, d} THEN 2 ELSE 1]
Sizes == [l \in NBL |-> IF l = b THEN 4 ELSE 1]
Ids == [l \in NBL |-> IF l \in {a, b} THEN 1 ELSE 2]
NoData == {<<d, 1>>}

Left(sent, cancels, pauses, flows) ==
    [lists |-> sent, cancels |-> cancels, pauses |-> pauses, flows |-> flows]

Filling    == Left({a, b, c}, 0, 0, 0)
Cancelling == Left({a, b}, 1, 1, 0)
Pausing    == Left({a, c}, 0, 1, 2)
Holding    == Left({a, b}, 1, 0, 2)
Copying    == Left({b, d}, 1, 1, 0)
Beginnings == {Filling, Cancelling, Pausing, Holding, Copying}

\* Two lists for liveness.
LiveLists == {a, c}
LiveBeginnings ==
    {Left({a, c}, 1, 0, 0), Left({a}, 1, 0, 1), Left({a}, 0, 1, 1),
     Left({c}, 0, 1, 2), Left({c}, 1, 1, 0)}
=============================================================================
