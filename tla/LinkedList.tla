------------------------------ MODULE LinkedList ------------------------------
(***************************************************************************)
(* The doubly-linked list that reward-claim-registry.clar keeps twice: once *)
(* over registrations (registration-ll, -head, -tail) and once over indexed *)
(* withdrawals (pending-withdrawal-ll, -head, -tail).  A list is a record:  *)
(* the head and tail data-vars and the map of links.                       *)
(***************************************************************************)
EXTENDS Naturals, FiniteSets, Sequences, ClarityMap

CONSTANT None     \* Clarity's none, for an optional key

EmptyList == [head |-> None, tail |-> None, links |-> EmptyMap]

LinkSets(K) == [prev : K \cup {None}, next : K \cup {None}]

\* What the data-vars and the map of one list may hold.
IsList(l, K) ==
    /\ l = [head |-> l.head, tail |-> l.tail, links |-> l.links]
    /\ l.head \in K \cup {None} /\ l.tail \in K \cup {None}
    /\ IsMap(l.links, K, LinkSets(K))

-----------------------------------------------------------------------------

\* Replace one field of the links of k.  A key without links is left alone:
\* the defensive arm of the code's nested match.
SetNext(links, k, key) ==
    IF k \in DOMAIN links
    THEN MapSet(links, k, [prev |-> links[k].prev, next |-> key])
    ELSE links

SetPrev(links, k, key) ==
    IF k \in DOMAIN links
    THEN MapSet(links, k, [prev |-> key, next |-> links[k].next])
    ELSE links

ListAppend(l, key) ==
    LET added == MapSet(l.links, key, [prev |-> l.tail, next |-> None])
    IN  [head  |-> IF l.tail = None THEN key ELSE l.head,
         tail  |-> key,
         links |-> IF l.tail = None THEN added ELSE SetNext(added, l.tail, key)]

\* Faulty: the neighbour after the removed node keeps its old back link.
ListRemoveKeepsBackLink(l, key) ==
    IF key \notin DOMAIN l.links
    THEN l
    ELSE LET p == l.links[key].prev
             n == l.links[key].next
         IN  [head  |-> IF p = None THEN n ELSE l.head,
              tail  |-> IF n = None THEN p ELSE l.tail,
              links |-> MapDelete(IF p = None THEN l.links ELSE SetNext(l.links, p, n), key)]

\* Faulty: removing the last node leaves the tail pointing at it.
ListRemoveKeepsTail(l, key) ==
    IF key \notin DOMAIN l.links
    THEN l
    ELSE LET p == l.links[key].prev
             n == l.links[key].next
             bridged == IF p = None THEN l.links ELSE SetNext(l.links, p, n)
         IN  [head  |-> IF p = None THEN n ELSE l.head,
              tail  |-> l.tail,
              links |-> MapDelete(IF n = None THEN bridged ELSE SetPrev(bridged, n, p), key)]

ListRemove(l, key) ==
    IF key \notin DOMAIN l.links
    THEN l
    ELSE LET p == l.links[key].prev
             n == l.links[key].next
             bridged == IF p = None THEN l.links ELSE SetNext(l.links, p, n)
         IN  [head  |-> IF p = None THEN n ELSE l.head,
              tail  |-> IF n = None THEN p ELSE l.tail,
              links |-> MapDelete(IF n = None THEN bridged ELSE SetPrev(bridged, n, p), key)]

-----------------------------------------------------------------------------
(***************************************************************************)
(* The paged walk of get-registrations and its three siblings: a fold over *)
(* PENDING_TICKS that visits at most `ticks' nodes from `cursor', or from  *)
(* the head without one, and returns a row for each visited key that it    *)
(* lists.  A node that has no links ends the walk.                         *)
(***************************************************************************)
After(l, node) == IF node \in DOMAIN l.links THEN l.links[node].next ELSE None

\* The nodes of a walk; past the tail there is nothing left to visit.
WalkNode(l, start, ticks) ==
    LET node[i \in 0 .. ticks] == IF i = 0 THEN start ELSE After(l, node[i - 1])
    IN  node

\* The rows after each tick.
WalkRows(node, listed, ticks) ==
    LET rows[i \in 0 .. ticks] ==
            IF i = 0 THEN <<>>
            ELSE IF node[i - 1] \in listed THEN Append(rows[i - 1], node[i - 1])
            ELSE rows[i - 1]
    IN  rows

Start(l, cursor) == IF cursor = None THEN l.head ELSE cursor

\* Faulty: the cursor returned is the last visited node.
PageRepeatsLast(l, listed, cursor, ticks) ==
    LET node == WalkNode(l, Start(l, cursor), ticks)
    IN  [rows |-> WalkRows(node, listed, ticks)[ticks], next |-> node[ticks - 1]]

\* Faulty: the cursor returned is one node too far.
PageSkipsOne(l, listed, cursor, ticks) ==
    LET node == WalkNode(l, Start(l, cursor), ticks)
    IN  [rows |-> WalkRows(node, listed, ticks)[ticks], next |-> After(l, node[ticks])]

Page(l, listed, cursor, ticks) ==
    LET node == WalkNode(l, Start(l, cursor), ticks)
    IN  [rows |-> WalkRows(node, listed, ticks)[ticks], next |-> node[ticks]]

\* Every node from the head on, in list order, in one page.
WholeWalk(l) == Page(l, DOMAIN l.links, None, Cardinality(DOMAIN l.links)).rows

-----------------------------------------------------------------------------
(***************************************************************************)
(* What the links stand for: l represents the n keys q[1], ..., q[n], each *)
(* once, in this order.                                                    *)
(***************************************************************************)
Represents(l, q, n) ==
    /\ \A i, j \in 1 .. n : q[i] = q[j] => i = j
    /\ DOMAIN l.links = {q[i] : i \in 1 .. n}
    /\ l.head = IF n = 0 THEN None ELSE q[1]
    /\ l.tail = IF n = 0 THEN None ELSE q[n]
    /\ \A i \in 1 .. n :
          l.links[q[i]] = [prev |-> IF i = 1 THEN None ELSE q[i - 1],
                           next |-> IF i = n THEN None ELSE q[i + 1]]

WellFormed(l) ==
    LET K == DOMAIN l.links
        n == Cardinality(K)
    IN  /\ IsFiniteSet(K)
        /\ \E q \in [1 .. n -> K] : Represents(l, q, n)
=============================================================================
