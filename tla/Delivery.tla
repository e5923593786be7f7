------------------------------ MODULE Delivery ------------------------------
(***************************************************************************)
(* What a queue with explicit deletion promises its sender: a message may  *)
(* be handled more than once, but it does not leave the queue before it    *)
(* has been handled to the end at least once.  A removed message's name    *)
(* may be used again for a new one.                                        *)
(***************************************************************************)
CONSTANT Message

VARIABLES
    pending,  \* messages sent and not yet removed
    handled   \* messages handled at least once since they were sent

Init ==
    /\ pending = {}
    /\ handled = {}

Put(m) ==
    /\ m \notin pending
    /\ pending' = pending \cup {m}
    /\ handled' = handled \ {m}

Handle(m) ==
    /\ m \in pending
    /\ handled' = handled \cup {m}
    /\ UNCHANGED pending

Remove(m) ==
    /\ m \in pending \cap handled
    /\ pending' = pending \ {m}
    /\ UNCHANGED handled

Next == \E m \in Message : Put(m) \/ Handle(m) \/ Remove(m)

Spec == Init /\ [][Next]_<<pending, handled>>
=============================================================================
