------------------------------- MODULE KeyQueue -------------------------------
(***************************************************************************)
(* What a registration list promises: a queue of the registered keys.  A    *)
(* key joins at the back when it is registered and leaves from anywhere    *)
(* when it is not any more; the others keep their order.                   *)
(***************************************************************************)
EXTENDS Naturals, Sequences

CONSTANT Keys
VARIABLES members, queue

Without(q, i) == [j \in 1 .. Len(q) - 1 |-> IF j < i THEN q[j] ELSE q[j + 1]]

Init == members = {} /\ queue = <<>>

Join(key) ==
    /\ key \notin members
    /\ members' = members \cup {key}
    /\ queue' = Append(queue, key)

Leave(key) ==
    /\ key \in members
    /\ members' = members \ {key}
    /\ \E i \in 1 .. Len(queue) : queue[i] = key /\ queue' = Without(queue, i)

Next == \E key \in Keys : Join(key) \/ Leave(key)

Spec == Init /\ [][Next]_<<members, queue>>
=============================================================================
