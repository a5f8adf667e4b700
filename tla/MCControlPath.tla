--------------------------- MODULE MCControlPath ---------------------------
(***************************************************************************)
(* Bounds for model checking ControlPath.  Every scenario starts from the  *)
(* same state; they differ in how much of what may be asked of the driver, *)
(* and of what may go wrong, is left to happen.                            *)
(***************************************************************************)
EXTENDS ControlPath

Bounds(responses, errors, fetchErrors, sends, powers, prepares, removals,
       detaches) ==
    [responses |-> responses, errors |-> errors, fetchErrors |-> fetchErrors,
     sends |-> sends, powers |-> powers, prepares |-> prepares,
     removals |-> removals, detaches |-> detaches]

\* Two power requests cross a response.
Crossing == Bounds(1, 0, 0, 0, 2, 0, 0, 0)
\* A removal meets a power request, with a command or with a response.
RemovingWithCommand  == Bounds(0, 0, 0, 1, 1, 0, 1, 0)
RemovingWithResponse == Bounds(1, 0, 0, 0, 1, 0, 1, 0)
\* Transfers fail: on the interrupt pipe, when a response is fetched, because
\* the device is gone.
FailingPipe  == Bounds(1, 3, 0, 0, 0, 0, 0, 0)
FailingFetch == Bounds(2, 1, 2, 0, 0, 0, 0, 0)
Detaching    == Bounds(1, 0, 1, 0, 0, 0, 1, 1)
DetachingAsleep == Bounds(0, 0, 0, 0, 1, 0, 0, 1)
\* The system prepares to sleep.
Preparing == Bounds(1, 0, 0, 0, 1, 1, 0, 0)

MCInit == \E bounds \in {Crossing, RemovingWithCommand, RemovingWithResponse,
                         FailingPipe, FailingFetch, Detaching,
                         DetachingAsleep, Preparing} : InitWith(bounds)
MCSpec == MCInit /\ [][Next]_vars /\ Fairness
=============================================================================
