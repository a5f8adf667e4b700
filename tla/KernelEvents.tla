---------------------------- MODULE KernelEvents ----------------------------
(***************************************************************************)
(* The way the driver's threads wait.  Every worker thread of              *)
(* transport/usb loops over KeWaitForMultipleObjects(WaitAny) on an array  *)
(* of notification events.  An event stays set until the thread clears it. *)
(*                                                                         *)
(* A thread that reaches the wait with some events set takes the one with  *)
(* the lowest index.  A thread that is already blocked is satisfied by the *)
(* event that is set first, whatever is set before it runs again.  So a    *)
(* thread is a record with at least the fields                             *)
(*   pc   where it stands: "blocked" while it waits, and the name of the   *)
(*        event that satisfied its wait afterwards,                        *)
(*   set  the events of its array that are set.                            *)
(***************************************************************************)
EXTENDS Naturals

\* KeWaitForMultipleObjects, WaitAny: the event of lowest index that is set.
LowestEvent(set, Index) ==
    CHOOSE e \in set : \A f \in set : Index[e] <= Index[f]

WaitAny(thread, Index) ==
    [thread EXCEPT !.pc = IF thread.set = {} THEN "blocked"
                          ELSE LowestEvent(thread.set, Index)]

\* KeSetEvent on an event of the thread's array.
Signal(thread, event) ==
    [thread EXCEPT !.set = @ \cup {event},
                   !.pc = IF @ = "blocked" THEN event ELSE @]

\* KeClearEvent by the thread itself, which goes on at pc.
Clear(thread, event, pc) ==
    [thread EXCEPT !.set = @ \ {event}, !.pc = pc]

Goto(thread, pc) == [thread EXCEPT !.pc = pc]
=============================================================================
