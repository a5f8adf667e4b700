----------------------------- MODULE MCQmiClients -----------------------------
(* Instances of QmiClients for TLC: one adapter with two programs; an adapter  *)
(* and its mux sibling; two adapters of different devices.                     *)
EXTENDS QmiClients, TLC

CONSTANTS a1, a2, p1, p2, c1, c2, i1, i2

One   == <<a1>>
Two   == <<a1, a2>>
Alone    == a1 :> a1
Siblings == a1 :> a1 @@ a2 :> a1
Apart    == a1 :> a1 @@ a2 :> a2
UsesA1 == p1 :> a1 @@ p2 :> a1
OneService == <<"wds">>
Sym == Permutations({p1, p2}) \cup Permutations({c1, c2}) \cup Permutations({i1, i2})

From(initialised, bounds) ==
    [initialised |-> initialised,
     bounds |-> [n \in BoundNames |-> IF n \in DOMAIN bounds THEN bounds[n] ELSE 0]]

\* Two programs ask for files, open and close them while answers are late, idle
\* clients are looked for, the modem revokes an id, requests fail, are refused
\* or lost, the modem restarts, the link goes down, or the adapter is still to be
\* initialised.
Programs ==
    {From({a1}, [services |-> 2, timeouts |-> 2]),
     From({a1}, [services |-> 2, checks |-> 2]),
     From({a1}, [services |-> 2, revokes |-> 2]),
     From({a1}, [services |-> 2, failures |-> 1, losses |-> 1]),
     From({a1}, [services |-> 2, errors |-> 1, losses |-> 1]),
     From({a1}, [services |-> 1, restarts |-> 1]),
     From({a1}, [services |-> 1, drops |-> 1, wanted |-> 1]),
     From({}, [services |-> 1, timeouts |-> 1]),
     From({}, [services |-> 2, polls |-> 1])}

\* Two siblings are initialised, or restarted with the modem, when an answer is
\* lost or a request fails or is refused; or a program's call meets those of its adapter.
Inits ==
    {From({}, << >>),
     From({a1, a2}, [restarts |-> 1]),
     From({}, [losses |-> 1]),
     From({}, [failures |-> 1]),
     From({}, [errors |-> 1]),
     From({a1}, [services |-> 1, failures |-> 1]),
     From({a1}, [services |-> 1, polls |-> -1, wanted |-> 2])}

Start == {From({}, << >>)}
=============================================================================
