------------------------- MODULE RewardKeeper_proofs -------------------------
(***************************************************************************)
(* The wallet's nonces and the batches of a round, for every set of items, *)
(* page and batch size and however many events and failed calls there are. *)
(* Then the calls: what goes over the wire changes nothing, so every step   *)
(* of KeeperCalls is one of RewardKeeper.  Each call has two lemmas: what   *)
(* was sent is read as it was meant, and an answer that is not the call's   *)
(* is an error.                                                            *)
(***************************************************************************)
EXTENDS KeeperCalls, Shared_proofs

\* What the round acknowledged lies below the wallet's nonce.  It is what keeps
\* the next batch from replacing it.
AcknowledgedBelowNonce ==
  \A n \in DOMAIN mempool : mempool[n].batch # None => n < nonce

Inv ==
  /\ nonce \in Int
  /\ nonce >= -1
  /\ DOMAIN mempool \subseteq Nat
  /\ NoNonceGap
  /\ AcknowledgedBelowNonce

-----------------------------------------------------------------------------
\* Entering the mempool at the wallet's nonce leaves no gap and touches no
\* other transaction.
LEMMA EnterKeeps ==
  ASSUME Inv, nonce \in Nat, NEW tx, mempool' = MapSet(mempool, nonce, tx)
  PROVE  /\ DOMAIN mempool' = DOMAIN mempool \cup {nonce}
         /\ \A n \in DOMAIN mempool : n # nonce => mempool'[n] = mempool[n]
         /\ mempool'[nonce] = tx
         /\ \A n \in DOMAIN mempool' : \A m \in 0..n : m \in DOMAIN mempool'
<1>1. DOMAIN mempool' = DOMAIN mempool \cup {nonce}
  BY DEF MapSet
<1>2. \A n \in DOMAIN mempool : n # nonce => mempool'[n] = mempool[n]
  BY DEF MapSet
<1>3. mempool'[nonce] = tx
  BY DEF MapSet
<1>4. ASSUME NEW n \in DOMAIN mempool', NEW m \in 0..n
      PROVE  m \in DOMAIN mempool'
  <2>1. CASE n \in DOMAIN mempool
    BY <2>1, <1>1 DEF Inv, NoNonceGap
  <2>2. CASE n = nonce /\ m = nonce
    BY <2>2, <1>1
  <2>3. CASE n = nonce /\ m # nonce
    <3>1. nonce >= 1 /\ m \in 0..(nonce - 1)
      BY <2>3
    <3>2. nonce - 1 \in DOMAIN mempool
      BY <3>1 DEF Inv, NoNonceGap
    <3> QED
      BY <3>1, <3>2, <1>1 DEF Inv, NoNonceGap
  <2> QED
    BY <2>1, <2>2, <2>3, <1>1
<1> QED
  BY <1>1, <1>2, <1>3, <1>4

\* A mined transaction moves the others, and the wallet's nonce, down by one.
LEMMA MineKeeps ==
  ASSUME Inv, Mine
  PROVE  /\ DOMAIN mempool' = {m - 1 : m \in DOMAIN mempool \ {0}}
         /\ \A n \in DOMAIN mempool' : /\ n \in Nat
                                       /\ n + 1 \in DOMAIN mempool
                                       /\ mempool'[n] = mempool[n + 1]
         /\ Inv'
<1>1. mempool' = [n \in {m - 1 : m \in DOMAIN mempool \ {0}} |-> mempool[n + 1]]
  BY DEF Mine
<1>2. DOMAIN mempool' = {m - 1 : m \in DOMAIN mempool \ {0}}
  BY <1>1
<1>3. ASSUME NEW n \in DOMAIN mempool'
      PROVE  n \in Nat /\ n + 1 \in DOMAIN mempool /\ mempool'[n] = mempool[n + 1]
  <2>1. PICK m \in DOMAIN mempool \ {0} : n = m - 1
    BY <1>2
  <2>2. m \in Nat /\ m # 0
    BY <2>1 DEF Inv
  <2> QED
    BY <1>1, <2>1, <2>2
<1>4. ASSUME NEW n \in Nat, n + 1 \in DOMAIN mempool
      PROVE  n \in DOMAIN mempool'
  <2>1. n + 1 \in DOMAIN mempool \ {0} /\ n = (n + 1) - 1
    BY <1>4
  <2> QED
    BY <1>2, <2>1
<1>5. nonce' = IF nonce >= 0 THEN nonce - 1 ELSE nonce
  BY DEF Mine
<1>6. nonce' \in Int /\ nonce' >= -1
  BY <1>5 DEF Inv
<1>7. NoNonceGap'
  <2>1. ASSUME NEW n \in DOMAIN mempool', NEW m \in 0..n
        PROVE  m \in DOMAIN mempool'
    <3>1. n + 1 \in DOMAIN mempool /\ m + 1 \in 0..(n + 1) /\ m \in Nat
      BY <1>3
    <3>2. m + 1 \in DOMAIN mempool
      BY <3>1 DEF Inv, NoNonceGap
    <3> QED
      BY <3>1, <3>2, <1>4
  <2>2. ASSUME nonce' >= 1
        PROVE  nonce' - 1 \in DOMAIN mempool'
    <3>1. nonce >= 1 /\ nonce' = nonce - 1 /\ nonce' - 1 \in Nat
      BY <1>5, <2>2 DEF Inv
    <3>2. (nonce' - 1) + 1 = nonce - 1
      BY <3>1 DEF Inv
    <3>3. nonce - 1 \in DOMAIN mempool
      BY <3>1 DEF Inv, NoNonceGap
    <3> QED
      BY <3>1, <3>2, <3>3, <1>4
  <2> QED
    BY <2>1, <2>2 DEF NoNonceGap
<1>8. AcknowledgedBelowNonce'
  <2> SUFFICES ASSUME NEW n \in DOMAIN mempool', mempool'[n].batch # None
               PROVE  n < nonce'
    BY DEF AcknowledgedBelowNonce
  <2>1. n \in Nat /\ n + 1 < nonce
    BY <1>3 DEF Inv, AcknowledgedBelowNonce
  <2> QED
    BY <2>1, <1>5 DEF Inv
<1> QED
  BY <1>2, <1>3, <1>6, <1>7, <1>8 DEF Inv

-----------------------------------------------------------------------------
\* The invariant is inductive.
LEMMA Inductive ==
  ASSUME Inv, [Next]_vars
  PROVE  Inv'
<1>1. ASSUME UNCHANGED <<mempool, nonce>>
      PROVE  Inv'
  BY <1>1 DEF Inv, NoNonceGap, AcknowledgedBelowNonce
<1>2. ASSUME mempool' = Unmarked, nonce' \in {-1, 0}
      PROVE  Inv'
  <2>1. DOMAIN mempool' = DOMAIN mempool /\ \A n \in DOMAIN mempool' : mempool'[n].batch = None
    BY <1>2 DEF Unmarked
  <2> QED
    BY <1>2, <2>1 DEF Inv, NoNonceGap, AcknowledgedBelowNonce
<1>3. ASSUME NEW item \in Items,
             Enlist(item) \/ BecomeDue(item) \/ Delist(item) \/ ServedByOthers(item)
      PROVE  Inv'
  BY <1>1, <1>3 DEF Enlist, BecomeDue, Delist, ServedByOthers, Event
<1>4. CASE Mine
  BY <1>4, MineKeeps
<1>5. CASE UpdateWalletNonce
  BY <1>2, <1>5 DEF UpdateWalletNonce
<1>6. CASE PinTip \/ FetchPage \/ FetchLastPage \/ ReadFails \/ Rejected
  BY <1>1, <1>6 DEF PinTip, FetchPage, FetchLastPage, ReadFails, Rejected
<1>7. CASE Accepted
  <2>1. nonce' = nonce + 1
    BY <1>7 DEF Accepted
  <2> PICK tx : nonce \in Nat /\ mempool' = MapSet(mempool, nonce, tx)
    BY <1>7 DEF Accepted, Enter, Admits, Inv
  <2>2. AcknowledgedBelowNonce'
    <3> SUFFICES ASSUME NEW n \in DOMAIN mempool', mempool'[n].batch # None
                 PROVE  n < nonce'
      BY DEF AcknowledgedBelowNonce
    <3>1. CASE n = nonce
      BY <3>1, <2>1, EnterKeeps
    <3>2. CASE n # nonce
      <4>1. n \in DOMAIN mempool /\ mempool'[n] = mempool[n]
        BY <3>2, <2>1, EnterKeeps
      <4>2. n \in Nat /\ n < nonce
        BY <4>1 DEF Inv, AcknowledgedBelowNonce
      <4> QED
        BY <4>2, <2>1, EnterKeeps
    <3> QED
      BY <3>1, <3>2
  <2>3. NoNonceGap'
    BY <2>1, EnterKeeps DEF NoNonceGap
  <2>4. DOMAIN mempool' \subseteq Nat /\ nonce' \in Int /\ nonce' >= -1
    BY <2>1, EnterKeeps DEF Inv
  <2> QED
    BY <2>2, <2>3, <2>4 DEF Inv
<1>8. CASE Unanswered
  <2>1. nonce' = nonce /\ (Enter(batches[at], None) \/ UNCHANGED mempool)
    BY <1>8 DEF Unanswered
  <2>2. CASE UNCHANGED mempool
    BY <1>1, <2>1, <2>2
  <2>3. CASE Enter(batches[at], None)
    <3> DEFINE tx == [items |-> batches[at], batch |-> None]
    <3> nonce \in Nat /\ mempool' = MapSet(mempool, nonce, tx)
      BY <2>3 DEF Enter, Admits, Inv
    <3> tx.batch = None
      OBVIOUS
    <3> HIDE DEF tx
    <3>1. AcknowledgedBelowNonce'
      <4> SUFFICES ASSUME NEW n \in DOMAIN mempool', mempool'[n].batch # None
                   PROVE  n < nonce'
        BY DEF AcknowledgedBelowNonce
      <4>1. mempool'[nonce].batch = None
        BY <2>3, EnterKeeps
      <4>2. n \in DOMAIN mempool /\ mempool'[n] = mempool[n]
        BY <4>1, <2>3, EnterKeeps
      <4> QED
        BY <4>2, <2>1 DEF Inv, AcknowledgedBelowNonce
    <3>2. NoNonceGap'
      <4>1. nonce' >= 1 => nonce' - 1 \in DOMAIN mempool'
        BY <2>1, <2>3, EnterKeeps DEF Inv, NoNonceGap
      <4> QED
        BY <4>1, <2>3, EnterKeeps DEF NoNonceGap
    <3>3. DOMAIN mempool' \subseteq Nat /\ nonce' \in Int /\ nonce' >= -1
      BY <2>1, <2>3, EnterKeeps DEF Inv
    <3> QED
      BY <3>1, <3>2, <3>3 DEF Inv
  <2> QED
    BY <2>1, <2>2, <2>3
<1>9. CASE Restart
  BY <1>2, <1>9 DEF Restart
<1>10. CASE UNCHANGED vars
  BY <1>1, <1>10 DEF vars
<1> QED
  BY <1>3, <1>4, <1>5, <1>6, <1>7, <1>8, <1>9, <1>10 DEF Next, Work

\* The mempool is empty at the start.
LEMMA Initial == Init => Inv
<1> SUFFICES ASSUME Init PROVE Inv
  OBVIOUS
<1>1. mempool = << >> /\ DOMAIN mempool = {} /\ nonce = -1
  BY DEF Init
<1> QED
  BY <1>1 DEF Inv, NoNonceGap, AcknowledgedBelowNonce

\* The invariant holds at any time.
LEMMA AlwaysInv == Spec => []Inv
BY Initial, Inductive, PTL DEF Spec

\* No transaction of the wallet waits for a nonce that nobody will use, over
\* any number of rounds, refusals, lost answers and restarts.
THEOREM NoncesStayGapless == Spec => []NoNonceGap
<1>1. Inv => NoNonceGap
  BY DEF Inv
<1> QED
  BY <1>1, AlwaysInv, PTL

\* What one step does to a transaction acknowledged in this round.
LEMMA StepKeepsAcknowledged ==
  ASSUME Inv, [Next]_vars, NEW n \in DOMAIN mempool, mempool[n].batch # None
  PROVE  \/ n \in DOMAIN mempool' /\ mempool'[n].items = mempool[n].items
         \/ n - 1 \in DOMAIN mempool' /\ mempool'[n - 1] = mempool[n]
         \/ n = 0 /\ ToSet(mempool[0].items) \cap due' = {}
<1>1. CASE UNCHANGED mempool
  BY <1>1
<1>2. CASE mempool' = Unmarked
  BY <1>2 DEF Unmarked
<1>3. ASSUME nonce \in Nat, NEW tx, mempool' = MapSet(mempool, nonce, tx)
      PROVE  n \in DOMAIN mempool' /\ mempool'[n] = mempool[n]
  <2>1. n # nonce
    BY DEF Inv, AcknowledgedBelowNonce
  <2> QED
    BY <2>1, <1>3, EnterKeeps
<1>4. CASE Mine
  <2>1. CASE n = 0
    BY <1>4, <2>1 DEF Mine, Serve
  <2>2. CASE n # 0
    <3>1. n \in Nat
      BY DEF Inv
    <3>2. n - 1 \in DOMAIN mempool'
      BY <1>4, <2>2, MineKeeps
    <3>3. mempool'[n - 1] = mempool[(n - 1) + 1]
      BY <1>4, <3>2, MineKeeps
    <3>4. (n - 1) + 1 = n
      BY <3>1
    <3> QED
      BY <3>2, <3>3, <3>4
  <2> QED
    BY <2>1, <2>2
<1>5. CASE Accepted
  <2>1. PICK tx : nonce \in Nat /\ mempool' = MapSet(mempool, nonce, tx)
    BY <1>5 DEF Accepted, Enter, Admits, Inv
  <2> QED
    BY <1>3, <2>1
<1>6. CASE Unanswered
  <2>1. CASE Enter(batches[at], None)
    <3>1. PICK tx : nonce \in Nat /\ mempool' = MapSet(mempool, nonce, tx)
      BY <2>1 DEF Enter, Admits, Inv
    <3> QED
      BY <1>3, <3>1
  <2> QED
    BY <1>1, <1>6, <2>1 DEF Unanswered
<1>7. CASE UpdateWalletNonce \/ Restart
  BY <1>2, <1>7 DEF UpdateWalletNonce, Restart
<1>8. CASE PinTip \/ FetchPage \/ FetchLastPage \/ ReadFails \/ Rejected
  BY <1>1, <1>8 DEF PinTip, FetchPage, FetchLastPage, ReadFails, Rejected
<1>9. ASSUME NEW item \in Items,
             Enlist(item) \/ BecomeDue(item) \/ Delist(item) \/ ServedByOthers(item)
      PROVE  UNCHANGED mempool
  BY <1>9 DEF Enlist, BecomeDue, Delist, ServedByOthers, Event
<1>10. CASE UNCHANGED vars
  BY <1>1, <1>10 DEF vars
<1> QED
  BY <1>1, <1>4, <1>5, <1>6, <1>7, <1>8, <1>9, <1>10 DEF Next, Work

\* A later batch of a round never replaces one the node acknowledged in it,
\* claims by withdrawals included, so one nonce fetch serves both phases.
THEOREM AcknowledgedBatchesAreKept == Spec => AcknowledgedIsKept
<1>1. Inv /\ [Next]_vars =>
        [\A n \in DOMAIN mempool :
           mempool[n].batch # None =>
             \/ n \in DOMAIN mempool' /\ mempool'[n].items = mempool[n].items
             \/ n - 1 \in DOMAIN mempool' /\ mempool'[n - 1] = mempool[n]
             \/ n = 0 /\ ToSet(mempool[0].items) \cap due' = {}]_vars
  BY StepKeepsAcknowledged
<1> QED
  BY <1>1, AlwaysInv, PTL DEF Spec, AcknowledgedIsKept

-----------------------------------------------------------------------------
(* The batches.                                                            *)

\* Filter keeps the elements of the set, and no element gets a second place:
\* ranking the places is a bijection.
LEMMA FilterKeeps ==
  ASSUME NEW S, NEW seq \in Seq(S), NEW set
  PROVE  /\ Filter(seq, set) \in Seq(S \cap set)
         /\ Len(Filter(seq, set)) <= Len(seq)
         /\ ToSet(Filter(seq, set)) = ToSet(seq) \cap set
         /\ IsInjective(seq) => IsInjective(Filter(seq, set))
<1> DEFINE places == {k \in DOMAIN seq : seq[k] \in set}
           below(k) == {j \in places : j < k}
           N == Cardinality(places)
           rank == [k \in places |-> Cardinality(below(k))]
           place(n) == CHOOSE k \in places : Cardinality({j \in places : j < k}) = n - 1
<1>1. DOMAIN seq = 1..Len(seq) /\ Len(seq) \in Nat /\ \A k \in DOMAIN seq : seq[k] \in S
  OBVIOUS
<1>2. IsFiniteSet(places) /\ N \in Nat /\ N <= Len(seq)
  <2>1. /\ IsFiniteSet(1..Len(seq)) /\ places \in SUBSET (1..Len(seq))
        /\ Cardinality(1..Len(seq)) = Len(seq)
    BY <1>1, FS_Interval
  <2> QED
    BY <2>1, FS_Subset, FS_CardinalityType
<1>3. \A k \in places : k \in Nat
  BY <1>1
<1>4. \A k \in places : IsFiniteSet(below(k)) /\ below(k) \in SUBSET places
  BY <1>2, FS_Subset
<1>5. \A k \in places : rank[k] = Cardinality(below(k))
  OBVIOUS
<1>6. \A k \in places : rank[k] \in 0..(N - 1)
  <2> SUFFICES ASSUME NEW k \in places PROVE rank[k] \in 0..(N - 1)
    OBVIOUS
  <2>1. rank[k] \in Nat
    BY <1>4, <1>5, FS_CardinalityType
  <2>2. k \notin below(k)
    BY <1>3
  <2>3. rank[k] <= N /\ rank[k] # N
    BY <1>2, <1>4, <1>5, <2>2, FS_Subset
  <2> HIDE DEF N, rank, places
  <2> QED
    BY <1>2, <2>1, <2>3
<1>7. \A j, k \in places : j < k => rank[j] <= rank[k] /\ rank[j] # rank[k]
  <2> SUFFICES ASSUME NEW j \in places, NEW k \in places, j < k
               PROVE  rank[j] <= rank[k] /\ rank[j] # rank[k]
    OBVIOUS
  <2>1. below(j) \in SUBSET below(k) /\ j \in below(k) /\ j \notin below(j)
    BY <1>3
  <2> QED
    BY <1>4, <1>5, <2>1, FS_Subset
<1>8. rank = [k \in places |-> rank[k]]
  OBVIOUS
<1>9. Filter(seq, set) = [n \in 1..N |-> seq[place(n)]]
  BY DEF Filter
<1>10. \A n : (\E k \in places : rank[k] = n - 1) => place(n) \in places /\ rank[place(n)] = n - 1
  <2> SUFFICES ASSUME NEW n, NEW k \in places, rank[k] = n - 1
               PROVE  place(n) \in places /\ rank[place(n)] = n - 1
    OBVIOUS
  <2>1. Cardinality({j \in places : j < k}) = n - 1
    BY <1>5
  <2> QED
    BY <1>5, <2>1
<1>11. IsFiniteSet(0..(N - 1)) /\ Cardinality(0..(N - 1)) = N
  <2> HIDE DEF N
  <2>1. 0 \in Int /\ N - 1 \in Int /\ (IF 0 > N - 1 THEN 0 ELSE (N - 1) - 0 + 1) = N
    BY <1>2
  <2> QED
    BY <2>1, FS_Interval
<1> HIDE DEF rank, place
<1>12. rank \in Injection(places, 0..(N - 1))
  <2> HIDE DEF N, places
  <2>1. rank \in [places -> 0..(N - 1)]
    BY <1>6, <1>8
  <2>2. \A j, k \in places : rank[j] = rank[k] => j = k
    BY <1>3, <1>6, <1>7
  <2> QED
    BY <2>1, <2>2 DEF Injection, IsInjective
<1>13. \A n \in 1..N : \E k \in places : rank[k] = n - 1
  <2>1. rank \in Surjection(places, 0..(N - 1))
    BY <1>2, <1>11, <1>12, FS_Injection
  <2> HIDE DEF N, places
  <2>2. \A n \in 1..N : n - 1 \in 0..(N - 1)
    BY <1>2
  <2> QED
    BY <2>1, <2>2 DEF Surjection
<1>14. \A n \in 1..N : place(n) \in places /\ rank[place(n)] = n - 1
  BY <1>10, <1>13
<1>15. \A k \in places : rank[k] + 1 \in 1..N /\ place(rank[k] + 1) = k
  <2> SUFFICES ASSUME NEW k \in places
               PROVE  rank[k] + 1 \in 1..N /\ place(rank[k] + 1) = k
    OBVIOUS
  <2>1. rank[k] + 1 \in 1..N /\ (rank[k] + 1) - 1 = rank[k]
    <3> HIDE DEF N, places
    <3> QED
      BY <1>2, <1>6
  <2>2. place(rank[k] + 1) \in places /\ rank[place(rank[k] + 1)] = rank[k]
    BY <1>14, <2>1
  <2> HIDE DEF N, places
  <2> QED
    BY <1>3, <1>7, <2>1, <2>2
<1> HIDE DEF N
<1>16. Filter(seq, set) \in Seq(S \cap set) /\ Len(Filter(seq, set)) = N
  BY <1>1, <1>2, <1>9, <1>14
<1>17. ToSet(Filter(seq, set)) = ToSet(seq) \cap set
  <2>1. \A n \in 1..N : seq[place(n)] \in ToSet(seq) \cap set
    BY <1>14 DEF ToSet
  <2>2. \A x \in ToSet(seq) \cap set : \E n \in 1..N : x = seq[place(n)]
    BY <1>15 DEF ToSet
  <2> QED
    BY <1>9, <2>1, <2>2 DEF ToSet
<1>18. ASSUME IsInjective(seq)
       PROVE  IsInjective(Filter(seq, set))
  <2>1. \A m, n \in 1..N : place(m) = place(n) => m = n
    <3> SUFFICES ASSUME NEW m \in 1..N, NEW n \in 1..N, place(m) = place(n) PROVE m = n
      OBVIOUS
    <3>1. m - 1 = n - 1
      BY <1>14
    <3> QED
      BY <1>2, <3>1
  <2>2. DOMAIN Filter(seq, set) = 1..N
    BY <1>9
  <2> QED
    BY <1>9, <1>14, <1>18, <2>1, <2>2 DEF IsInjective
<1> QED
  BY <1>2, <1>16, <1>17, <1>18

-----------------------------------------------------------------------------
\* The rows of a signer-manager, and a chunk of them.
LEMMA GroupKeeps ==
  ASSUME NEW rows \in Seq(Items), NEW manager \in Managers
  PROVE  LET group == GroupOf(manager, rows) IN
         /\ group \in Seq(Items)
         /\ Len(group) <= Len(rows)
         /\ ToSet(group) = {i \in ToSet(rows) : ManagerOf[i] = manager}
         /\ IsInjective(rows) => IsInjective(group)
<1>1. ItemsUnder[manager] = {i \in Items : ManagerOf[i] = manager}
  BY DEF ItemsUnder
<1>2. ToSet(rows) \subseteq Items
  BY DEF ToSet
<1>3. GroupOf(manager, rows) = Filter(rows, ItemsUnder[manager])
  BY DEF GroupOf
<1>4. /\ GroupOf(manager, rows) \in Seq(Items \cap ItemsUnder[manager])
      /\ Len(GroupOf(manager, rows)) <= Len(rows)
      /\ ToSet(GroupOf(manager, rows)) = ToSet(rows) \cap ItemsUnder[manager]
      /\ IsInjective(rows) => IsInjective(GroupOf(manager, rows))
  <2>1. \A set : /\ Filter(rows, set) \in Seq(Items \cap set)
                 /\ Len(Filter(rows, set)) <= Len(rows)
                 /\ ToSet(Filter(rows, set)) = ToSet(rows) \cap set
                 /\ IsInjective(rows) => IsInjective(Filter(rows, set))
    BY FilterKeeps
  <2> QED
    BY <1>3, <2>1
<1>5. GroupOf(manager, rows) \in Seq(Items)
  BY <1>1, <1>4
<1> QED
  BY <1>1, <1>2, <1>4, <1>5

\* A chunk is a run of its group of at most MaxBatch rows.
LEMMA ChunkIsRun ==
  ASSUME NEW rows \in Seq(Items), NEW c \in ChunkIds(rows)
  PROVE  LET group == GroupOf(c[1], rows)
             first == (c[2] - 1) * MaxBatch
             chunk == Chunk(c[1], c[2], rows)
         IN /\ c[1] \in Managers /\ c[2] \in Nat \ {0} /\ first \in Nat
            /\ chunk \in Seq(Items)
            /\ Len(chunk) = IF c[2] * MaxBatch < Len(group) THEN MaxBatch ELSE Len(group) - first
            /\ Len(chunk) \in 1..MaxBatch
            /\ \A n \in 1..Len(chunk) : first + n \in 1..Len(group) /\ chunk[n] = group[first + n]
<1> DEFINE group == GroupOf(c[1], rows)
           first == (c[2] - 1) * MaxBatch
           next == c[2] * MaxBatch
           last == IF next < Len(group) THEN next ELSE Len(group)
           chunk == Chunk(c[1], c[2], rows)
<1>1. c[1] \in Managers /\ c[2] \in Nat \ {0} /\ first < Len(group)
  BY DEF ChunkIds
<1>2. group \in Seq(Items) /\ Len(group) \in Nat /\ \A i \in 1..Len(group) : group[i] \in Items
  BY <1>1, GroupKeeps
<1>3. MaxBatch \in Nat \ {0} /\ first \in Nat /\ next = first + MaxBatch
  BY <1>1, BatchAssumption
<1>4. chunk = SubSeq(group, first + 1, last)
  BY DEF Chunk
<1>5. /\ chunk \in Seq(Items)
      /\ Len(chunk) = IF next < Len(group) THEN MaxBatch ELSE Len(group) - first
      /\ Len(chunk) \in 1..MaxBatch
      /\ \A n \in 1..Len(chunk) : first + n \in 1..Len(group) /\ chunk[n] = group[first + n]
  <2> HIDE DEF group, first, next, chunk
  <2>1. /\ last \in Nat /\ first < last /\ last <= Len(group)
        /\ last - first = IF next < Len(group) THEN MaxBatch ELSE Len(group) - first
        /\ last - first <= MaxBatch
    BY <1>1, <1>2, <1>3
  <2> HIDE DEF last
  <2>2. /\ chunk \in Seq(Items)
        /\ Len(chunk) = last - first
        /\ \A n \in 1..(last - first) : chunk[n] = group[first + n]
    BY <1>2, <1>3, <1>4, <2>1
  <2> QED
    BY <1>2, <1>3, <2>1, <2>2
<1> QED
  BY <1>1, <1>3, <1>5

\* Every row is in one chunk.
LEMMA RowIsInChunk ==
  ASSUME NEW rows \in Seq(Items), NEW item \in ToSet(rows)
  PROVE  \E c \in ChunkIds(rows) :
           \E n \in 1..Len(Chunk(c[1], c[2], rows)) : Chunk(c[1], c[2], rows)[n] = item
<1> DEFINE manager == ManagerOf[item]
           group == GroupOf(manager, rows)
<1>1. item \in Items /\ manager \in Managers
  BY ItemAssumption DEF ToSet
<1>2. /\ group \in Seq(Items)
      /\ Len(group) \in Nat /\ Len(rows) \in Nat /\ Len(group) <= Len(rows)
      /\ item \in ToSet(group)
  BY <1>1, GroupKeeps
<1>3. PICK i \in 1..Len(group) : group[i] = item
  BY <1>2 DEF ToSet
<1> DEFINE q == (i - 1) \div MaxBatch
           c == <<manager, q + 1>>
<1>4. /\ MaxBatch \in Nat \ {0} /\ i \in Nat /\ i >= 1 /\ i <= Len(group)
  BY <1>2, <1>3, BatchAssumption
<1>5. q \in Nat /\ q * MaxBatch <= i - 1 /\ i - 1 < q * MaxBatch + MaxBatch /\ q <= i - 1
  <2> HIDE DEF manager, group
  <2>1. q \in Int /\ MaxBatch * q <= i - 1 /\ i - 1 < MaxBatch * (q + 1)
    BY <1>4
  <2>2. q >= 0
    BY <1>4
  <2> HIDE DEF q
  <2>3. MaxBatch * q = q * MaxBatch /\ MaxBatch * (q + 1) = q * MaxBatch + MaxBatch
    BY <1>4, <2>1
  <2>4. q <= q * MaxBatch
    BY <1>4, <2>1, <2>2
  <2> QED
    BY <1>4, <2>1, <2>2, <2>3, <2>4
<1> HIDE DEF q
<1>6. c \in ChunkIds(rows)
  <2>1. q + 1 \in 1..Len(rows) /\ (q + 1) - 1 = q /\ q * MaxBatch < Len(group)
    <3> HIDE DEF group
    <3> QED
      BY <1>2, <1>4, <1>5
  <2> QED
    BY <1>1, <2>1 DEF ChunkIds
<1>7. /\ \A n \in 1..Len(Chunk(manager, q + 1, rows)) :
           Chunk(manager, q + 1, rows)[n] = group[q * MaxBatch + n]
      /\ Len(Chunk(manager, q + 1, rows))
           = IF (q + 1) * MaxBatch < Len(group) THEN MaxBatch ELSE Len(group) - q * MaxBatch
  <2>1. (q + 1) - 1 = q
    BY <1>5
  <2> QED
    BY <1>6, <2>1, ChunkIsRun
<1>8. /\ i - q * MaxBatch \in 1..Len(Chunk(manager, q + 1, rows))
      /\ q * MaxBatch + (i - q * MaxBatch) = i
  <2> DEFINE first == q * MaxBatch
             next == (q + 1) * MaxBatch
             size == Len(Chunk(manager, q + 1, rows))
  <2>1. first \in Nat /\ next = first + MaxBatch /\ first <= i - 1 /\ i - 1 < first + MaxBatch
    BY <1>4, <1>5
  <2>2. size = IF next < Len(group) THEN MaxBatch ELSE Len(group) - first
    BY <1>7
  <2>3. i - first \in 1..size /\ first + (i - first) = i
    <3> HIDE DEF first, next, size, group
    <3> QED
      BY <1>2, <1>4, <2>1, <2>2
  <2> QED
    BY <2>3
<1> QED
  BY <1>3, <1>6, <1>7, <1>8

\* Two places in chunks are places of two rows.
LEMMA ChunksAreApart ==
  ASSUME NEW rows \in Seq(Items), IsInjective(rows),
         NEW c \in ChunkIds(rows), NEW d \in ChunkIds(rows),
         NEW n \in 1..Len(Chunk(c[1], c[2], rows)), NEW o \in 1..Len(Chunk(d[1], d[2], rows)),
         Chunk(c[1], c[2], rows)[n] = Chunk(d[1], d[2], rows)[o]
  PROVE  c = d /\ n = o
<1> DEFINE first == (c[2] - 1) * MaxBatch
           start == (d[2] - 1) * MaxBatch
<1>1. /\ c = <<c[1], c[2]>> /\ d = <<d[1], d[2]>>
      /\ c[1] \in Managers /\ d[1] \in Managers
      /\ c[2] \in Nat \ {0} /\ d[2] \in Nat \ {0}
      /\ first \in Nat /\ start \in Nat
  <2>1. c \in Managers \X (1..Len(rows)) /\ d \in Managers \X (1..Len(rows))
    BY DEF ChunkIds
  <2>2. /\ c[2] \in Nat \ {0} /\ d[2] \in Nat \ {0}
        /\ first \in Nat /\ start \in Nat
    BY ChunkIsRun
  <2> QED
    BY <2>1, <2>2
<1>2. /\ n \in 1..MaxBatch
      /\ first + n \in 1..Len(GroupOf(c[1], rows))
      /\ Chunk(c[1], c[2], rows)[n] = GroupOf(c[1], rows)[first + n]
  <2>1. Len(Chunk(c[1], c[2], rows)) \in 1..MaxBatch
    BY ChunkIsRun
  <2>2. n \in 1..MaxBatch
    BY <2>1, BatchAssumption
  <2> QED
    BY <2>2, ChunkIsRun
<1>3. /\ o \in 1..MaxBatch
      /\ start + o \in 1..Len(GroupOf(d[1], rows))
      /\ Chunk(d[1], d[2], rows)[o] = GroupOf(d[1], rows)[start + o]
  <2>1. Len(Chunk(d[1], d[2], rows)) \in 1..MaxBatch
    BY ChunkIsRun
  <2>2. o \in 1..MaxBatch
    BY <2>1, BatchAssumption
  <2> QED
    BY <2>2, ChunkIsRun
<1>4. \A m \in Managers : /\ GroupOf(m, rows) \in Seq(Items)
                          /\ IsInjective(GroupOf(m, rows))
                          /\ \A i \in 1..Len(GroupOf(m, rows)) : ManagerOf[GroupOf(m, rows)[i]] = m
  <2> SUFFICES ASSUME NEW m \in Managers
               PROVE  /\ GroupOf(m, rows) \in Seq(Items)
                      /\ IsInjective(GroupOf(m, rows))
                      /\ \A i \in 1..Len(GroupOf(m, rows)) : ManagerOf[GroupOf(m, rows)[i]] = m
    OBVIOUS
  <2>1. /\ GroupOf(m, rows) \in Seq(Items)
        /\ IsInjective(GroupOf(m, rows))
        /\ ToSet(GroupOf(m, rows)) = {i \in ToSet(rows) : ManagerOf[i] = m}
    BY GroupKeeps
  <2>2. \A i \in 1..Len(GroupOf(m, rows)) : GroupOf(m, rows)[i] \in ToSet(GroupOf(m, rows))
    BY <2>1 DEF ToSet
  <2> QED
    BY <2>1, <2>2
<1> HIDE DEF first, start
<1>5. c[1] = d[1]
  <2>1. ManagerOf[GroupOf(c[1], rows)[first + n]] = c[1]
    BY <1>1, <1>2, <1>4
  <2>2. ManagerOf[GroupOf(d[1], rows)[start + o]] = d[1]
    BY <1>1, <1>3, <1>4
  <2> QED
    BY <1>2, <1>3, <2>1, <2>2
<1>6. first + n = start + o
  <2> DEFINE group == GroupOf(c[1], rows)
  <2>1. DOMAIN group = 1..Len(group) /\ IsInjective(group)
    BY <1>1, <1>4
  <2>2. /\ first + n \in 1..Len(group) /\ start + o \in 1..Len(group)
        /\ group[first + n] = group[start + o]
    BY <1>2, <1>3, <1>5
  <2> HIDE DEF group
  <2> QED
    BY <2>1, <2>2 DEF IsInjective
<1>7. c[2] = d[2] /\ n = o
  <2> DEFINE k == c[2]
             l == d[2]
  <2>1. /\ k \in Nat \ {0} /\ l \in Nat \ {0} /\ MaxBatch \in Nat \ {0}
        /\ n \in 1..MaxBatch /\ o \in 1..MaxBatch
        /\ (k - 1) * MaxBatch + n = (l - 1) * MaxBatch + o
    BY <1>1, <1>2, <1>3, <1>6, BatchAssumption DEF first, start
  <2> HIDE DEF k, l
  <2>2. ASSUME NEW x \in Nat \ {0}, NEW y \in Nat \ {0}, x < y
        PROVE  (x - 1) * MaxBatch + MaxBatch <= (y - 1) * MaxBatch
    BY <2>1, <2>2
  <2>3. (k - 1) * MaxBatch \in Int /\ (l - 1) * MaxBatch \in Int
    BY <2>1
  <2>4. ~ k < l
    <3>1. k < l => (k - 1) * MaxBatch + MaxBatch <= (l - 1) * MaxBatch
      BY <2>1, <2>2
    <3> QED
      BY <2>1, <2>3, <3>1
  <2>5. ~ l < k
    <3>1. l < k => (l - 1) * MaxBatch + MaxBatch <= (k - 1) * MaxBatch
      BY <2>1, <2>2
    <3> QED
      BY <2>1, <2>3, <3>1
  <2>6. k = l
    BY <2>1, <2>4, <2>5
  <2>7. n = o
    BY <2>1, <2>3, <2>6
  <2> QED
    BY <2>6, <2>7 DEF k, l
<1> QED
  BY <1>1, <1>5, <1>7

-----------------------------------------------------------------------------
\* The batches hold each item of S once, and no other, of one signer-manager
\* each and no more than the contract takes.
Cover(bs, S) ==
  /\ bs \in Seq(Seq(Items))
  /\ \A b \in DOMAIN bs :
       /\ Len(bs[b]) \in 1..MaxBatch
       /\ \A n \in 1..Len(bs[b]) : bs[b][n] \in S
       /\ \E manager \in Managers : \A n \in 1..Len(bs[b]) : ManagerOf[bs[b][n]] = manager
  /\ \A item \in S : \E b \in DOMAIN bs : \E n \in 1..Len(bs[b]) : bs[b][n] = item
  /\ \A b, c \in DOMAIN bs : \A n \in 1..Len(bs[b]), o \in 1..Len(bs[c]) :
       bs[b][n] = bs[c][o] => b = c /\ n = o

\* An order of the chunks has each of them at one place.
LEMMA OrderIsBijective ==
  ASSUME NEW S, IsFiniteSet(S), NEW order \in SetToSeqs(S)
  PROVE  /\ Cardinality(S) \in Nat
         /\ order \in [1..Cardinality(S) -> S]
         /\ \A m, n \in 1..Cardinality(S) : order[m] = order[n] => m = n
         /\ \A x \in S : \E n \in 1..Cardinality(S) : order[n] = x
<1> DEFINE N == Cardinality(S)
<1>1. N \in Nat
  BY FS_CardinalityType
<1>2. order \in [1..N -> S] /\ \A m, n \in 1..N : order[m] = order[n] => m = n
  BY DEF SetToSeqs
<1>3. IsFiniteSet(1..N) /\ Cardinality(1..N) = N
  <2> HIDE DEF N
  <2>1. (IF 1 > N THEN 0 ELSE N - 1 + 1) = N
    BY <1>1
  <2> QED
    BY <1>1, <2>1, FS_Interval
<1>4. order \in Injection(1..N, S)
  BY <1>2 DEF Injection, IsInjective
<1>5. order \in Surjection(1..N, S)
  BY <1>3, <1>4, FS_Injection
<1> QED
  BY <1>1, <1>2, <1>5 DEF Surjection

\* There are finitely many chunks, so they have orders.
LEMMA ChunkIdsAreFinite ==
  ASSUME NEW rows \in Seq(Items)
  PROVE  IsFiniteSet(ChunkIds(rows))
<1>1. IsFiniteSet(1..Len(rows)) /\ IsFiniteSet(Managers)
  BY FS_Interval, ItemAssumption
<1>2. IsFiniteSet(Managers \X (1..Len(rows)))
  BY <1>1, FS_Product
<1>3. ChunkIds(rows) \in SUBSET (Managers \X (1..Len(rows)))
  BY DEF ChunkIds
<1> QED
  BY <1>2, <1>3, FS_Subset

\* Whatever the order of the groups, the batches hold every row once.
LEMMA BatchesCoverRows ==
  ASSUME NEW rows \in Seq(Items), IsInjective(rows), NEW bs \in BatchesOf(rows)
  PROVE  Cover(bs, ToSet(rows))
<1> DEFINE N == Cardinality(ChunkIds(rows))
<1>1. PICK order \in SetToSeqs(ChunkIds(rows)) :
        bs = [n \in DOMAIN order |-> Chunk(order[n][1], order[n][2], rows)]
  BY DEF BatchesOf
<1>2. /\ N \in Nat
      /\ order \in [1..N -> ChunkIds(rows)]
      /\ \A m, n \in 1..N : order[m] = order[n] => m = n
      /\ \A x \in ChunkIds(rows) : \E n \in 1..N : order[n] = x
  BY ChunkIdsAreFinite, OrderIsBijective
<1> HIDE DEF N
<1>3. bs = [n \in 1..N |-> Chunk(order[n][1], order[n][2], rows)] /\ DOMAIN bs = 1..N
  BY <1>1, <1>2
<1>4. \A b \in 1..N : order[b] \in ChunkIds(rows) /\ bs[b] = Chunk(order[b][1], order[b][2], rows)
  BY <1>2, <1>3
<1>5. \A b \in 1..N :
        /\ bs[b] \in Seq(Items)
        /\ Len(bs[b]) \in 1..MaxBatch
        /\ \A n \in 1..Len(bs[b]) : bs[b][n] \in ToSet(rows) /\ ManagerOf[bs[b][n]] = order[b][1]
        /\ order[b][1] \in Managers
  <2> SUFFICES ASSUME NEW b \in 1..N
               PROVE  /\ bs[b] \in Seq(Items)
                      /\ Len(bs[b]) \in 1..MaxBatch
                      /\ \A n \in 1..Len(bs[b]) :
                           bs[b][n] \in ToSet(rows) /\ ManagerOf[bs[b][n]] = order[b][1]
                      /\ order[b][1] \in Managers
    OBVIOUS
  <2> DEFINE c == order[b]
             group == GroupOf(c[1], rows)
  <2>1. c \in ChunkIds(rows) /\ bs[b] = Chunk(c[1], c[2], rows)
    BY <1>4
  <2> HIDE DEF c
  <2>2. /\ c[1] \in Managers
        /\ Chunk(c[1], c[2], rows) \in Seq(Items)
        /\ Len(Chunk(c[1], c[2], rows)) \in 1..MaxBatch
        /\ \A n \in 1..Len(Chunk(c[1], c[2], rows)) :
             \E i \in 1..Len(group) : Chunk(c[1], c[2], rows)[n] = group[i]
    BY <2>1, ChunkIsRun
  <2>3. group \in Seq(Items) /\ ToSet(group) = {i \in ToSet(rows) : ManagerOf[i] = c[1]}
    BY <2>2, GroupKeeps
  <2> HIDE DEF group
  <2>4. \A i \in 1..Len(group) : group[i] \in ToSet(group)
    BY <2>3 DEF ToSet
  <2>5. \A n \in 1..Len(bs[b]) : bs[b][n] \in ToSet(rows) /\ ManagerOf[bs[b][n]] = c[1]
    BY <2>1, <2>2, <2>3, <2>4
  <2> QED
    BY <2>1, <2>2, <2>5 DEF c
<1>6. bs \in Seq(Seq(Items))
  BY <1>2, <1>3, <1>5
<1>7. ASSUME NEW item \in ToSet(rows)
      PROVE  \E b \in DOMAIN bs : \E n \in 1..Len(bs[b]) : bs[b][n] = item
  <2>1. PICK c \in ChunkIds(rows) :
          \E n \in 1..Len(Chunk(c[1], c[2], rows)) : Chunk(c[1], c[2], rows)[n] = item
    BY RowIsInChunk
  <2>2. PICK b \in 1..N : order[b] = c
    BY <1>2
  <2> QED
    BY <1>3, <1>4, <2>1, <2>2
<1>8. ASSUME NEW b \in DOMAIN bs, NEW c \in DOMAIN bs,
             NEW n \in 1..Len(bs[b]), NEW o \in 1..Len(bs[c]), bs[b][n] = bs[c][o]
      PROVE  b = c /\ n = o
  <2>1. /\ order[b] \in ChunkIds(rows) /\ bs[b] = Chunk(order[b][1], order[b][2], rows)
        /\ order[c] \in ChunkIds(rows) /\ bs[c] = Chunk(order[c][1], order[c][2], rows)
    BY <1>3, <1>4
  <2>2. order[b] = order[c] /\ n = o
    BY <1>8, <2>1, ChunksAreApart
  <2> QED
    BY <1>2, <1>3, <2>2
<1>9. \A b \in DOMAIN bs :
        /\ Len(bs[b]) \in 1..MaxBatch
        /\ \A n \in 1..Len(bs[b]) : bs[b][n] \in ToSet(rows)
        /\ \E manager \in Managers : \A n \in 1..Len(bs[b]) : ManagerOf[bs[b][n]] = manager
  BY <1>3, <1>5
<1> QED
  BY <1>6, <1>7, <1>8, <1>9 DEF Cover

-----------------------------------------------------------------------------
\* The items of a phase.
PhaseItems(p) == IF p = "claims" THEN Claims ELSE Withdrawals

ListsInv ==
  /\ list \in [{"claims", "withdrawals"} -> Seq(Items)]
  /\ \A p \in {"claims", "withdrawals"} : list[p] \in Seq(PhaseItems(p)) /\ IsInjective(list[p])

\* The due items before a place of the pinned list.
DueBefore(k) == {i \in view.due : \E j \in 1..Len(view.list) : j < k /\ view.list[j] = i}

\* The pages read so far hold the due items before the cursor, and the batches
\* all of them.
RoundInv ==
  /\ phase \in {"claims", "withdrawals"}
  /\ pc \in {"idle", "pin", "page", "submit"}
  /\ pc # "page" => cursor = None /\ fetched = << >>
  /\ pc # "submit" => at = 1
  /\ pc \in {"page", "submit"} =>
       /\ view.list \in Seq(PhaseItems(phase))
       /\ IsInjective(view.list)
       /\ view.due \subseteq ToSet(view.list)
  /\ pc = "page" =>
       /\ cursor # None => Contains(view.list, cursor)
       /\ fetched \in Seq(PhaseItems(phase))
       /\ IsInjective(fetched)
       /\ ToSet(fetched) = DueBefore(Start(cursor))
  /\ pc = "submit" =>
       /\ Cover(batches, view.due)
       /\ at \in DOMAIN batches

\* The items of a phase are told from those of the other.
LEMMA PhaseItemsAre ==
  ASSUME NEW p \in {"claims", "withdrawals"}
  PROVE  /\ PhaseItems(p) \subseteq Items
         /\ None \notin PhaseItems(p)
         /\ \A i \in PhaseItems(p) : PhaseOf(i) = p
         /\ Seq(PhaseItems(p)) \subseteq Seq(Items)
<1>1. PhaseItems(p) \subseteq Items /\ None \notin PhaseItems(p)
  BY ItemAssumption DEF PhaseItems, Items
<1>2. \A i \in PhaseItems(p) : PhaseOf(i) = p
  BY ItemAssumption DEF PhaseItems, PhaseOf
<1>3. Seq(PhaseItems(p)) \subseteq Seq(Items)
  BY <1>1
<1> QED
  BY <1>1, <1>2, <1>3

\* The lists name items of their phase, each once, at the start.
LEMMA ListsInitial == Init => ListsInv
<1> SUFFICES ASSUME Init PROVE ListsInv
  OBVIOUS
<1>1. list = Registered /\ Registered \in [{"claims", "withdrawals"} -> Seq(Items)]
  BY ItemAssumption DEF Init
<1>2. ASSUME NEW p \in {"claims", "withdrawals"}
      PROVE  Registered[p] \in Seq(PhaseItems(p)) /\ IsInjective(Registered[p])
  <2>1. Registered[p] \in Seq(Items) /\ IsInjective(Registered[p])
    BY <1>1, ItemAssumption
  <2>2. ToSet(Registered[p]) \subseteq PhaseItems(p)
    BY <1>2, ItemAssumption DEF PhaseItems
  <2>3. \A k \in 1..Len(Registered[p]) : Registered[p][k] \in PhaseItems(p)
    BY <2>1, <2>2 DEF ToSet
  <2> QED
    BY <2>1, <2>3
<1> QED
  BY <1>1, <1>2 DEF ListsInv

\* Adding a new item to a list keeps its items apart.
LEMMA AppendKeepsInjective ==
  ASSUME NEW S, NEW l \in Seq(S), IsInjective(l), NEW x \in S, ~ Contains(l, x)
  PROVE  Append(l, x) \in Seq(S) /\ IsInjective(Append(l, x))
<1>1. /\ Append(l, x) \in Seq(S)
      /\ Len(Append(l, x)) = Len(l) + 1 /\ Len(l) \in Nat
      /\ DOMAIN Append(l, x) = 1..(Len(l) + 1) /\ DOMAIN l = 1..Len(l)
      /\ \A k \in 1..Len(l) : Append(l, x)[k] = l[k]
      /\ Append(l, x)[Len(l) + 1] = x
  OBVIOUS
<1>2. \A k \in 1..Len(l) : l[k] # x
  BY DEF Contains
<1>3. \A k \in 1..(Len(l) + 1) : k \in 1..Len(l) \/ k = Len(l) + 1
  BY <1>1
<1>4. ASSUME NEW j \in DOMAIN Append(l, x), NEW k \in DOMAIN Append(l, x),
             Append(l, x)[j] = Append(l, x)[k]
      PROVE  j = k
  BY <1>1, <1>2, <1>3, <1>4 DEF IsInjective
<1> QED
  BY <1>1, <1>4 DEF IsInjective

\* Every change of the registry keeps the lists.
LEMMA ListsInductive ==
  ASSUME ListsInv, [Next]_vars
  PROVE  ListsInv'
<1>1. ASSUME UNCHANGED list PROVE ListsInv'
  BY <1>1 DEF ListsInv
<1>2. ASSUME NEW p \in {"claims", "withdrawals"}, NEW l \in Seq(PhaseItems(p)), IsInjective(l),
             list' = [list EXCEPT ![p] = l]
      PROVE  ListsInv'
  <2>1. l \in Seq(Items)
    BY PhaseItemsAre
  <2> QED
    BY <1>2, <2>1 DEF ListsInv
<1>3. ASSUME NEW p \in {"claims", "withdrawals"}, NEW kept,
             list' = [list EXCEPT ![p] = Filter(@, kept)]
      PROVE  ListsInv'
  <2>1. list[p] \in Seq(PhaseItems(p)) /\ IsInjective(list[p])
    BY DEF ListsInv
  <2>2. Filter(list[p], kept) \in Seq(PhaseItems(p) \cap kept) /\ IsInjective(Filter(list[p], kept))
    BY <2>1, FilterKeeps
  <2>3. Filter(list[p], kept) \in Seq(PhaseItems(p))
    BY <2>2
  <2>4. list' = [list EXCEPT ![p] = Filter(list[p], kept)]
    BY <1>3 DEF ListsInv
  <2> QED
    BY <1>2, <2>2, <2>3, <2>4
<1>4. ASSUME NEW items, Serve(items) PROVE ListsInv'
  BY <1>3, <1>4 DEF Serve
<1>5. ASSUME NEW item \in Items, Enlist(item) PROVE ListsInv'
  <2> DEFINE p == PhaseOf(item)
  <2>1. p \in {"claims", "withdrawals"} /\ item \in PhaseItems(p)
    BY DEF PhaseOf, PhaseItems, Items
  <2>2. list[p] \in Seq(PhaseItems(p)) /\ IsInjective(list[p]) /\ ~ Contains(list[p], item)
    BY <1>5, <2>1 DEF Enlist, ListsInv, Listed
  <2>3. Append(list[p], item) \in Seq(PhaseItems(p)) /\ IsInjective(Append(list[p], item))
    BY <2>1, <2>2, AppendKeepsInjective
  <2>4. list' = [list EXCEPT ![p] = Append(list[p], item)]
    BY <1>5 DEF Enlist
  <2> QED
    BY <1>2, <2>1, <2>3, <2>4
<1>6. ASSUME NEW item \in Items, BecomeDue(item) \/ Delist(item) \/ ServedByOthers(item)
      PROVE  ListsInv'
  BY <1>1, <1>3, <1>4, <1>6 DEF BecomeDue, Delist, ServedByOthers
<1>7. CASE Mine
  BY <1>4, <1>7 DEF Mine
<1>8. CASE Work \/ ReadFails \/ Unanswered \/ Restart
  BY <1>1, <1>8 DEF Work, UpdateWalletNonce, PinTip, FetchPage, FetchLastPage, Accepted, Rejected,
     ReadFails, Unanswered, Restart, Submission, chain
<1>9. CASE UNCHANGED vars
  BY <1>1, <1>9 DEF vars
<1> QED
  BY <1>5, <1>6, <1>7, <1>8, <1>9 DEF Next

-----------------------------------------------------------------------------
(* Pages.                                                                  *)

\* A page starts at the place of its cursor.
LEMMA StartIsPlace ==
  ASSUME NEW S, view.list \in Seq(S), IsInjective(view.list),
         NEW k \in 1..Len(view.list), view.list[k] # None
  PROVE  Contains(view.list, view.list[k]) /\ Start(view.list[k]) = k
<1> DEFINE l == view.list
<1>1. DOMAIN l = 1..Len(l) /\ Contains(l, l[k])
  BY DEF Contains
<1>2. \A j \in DOMAIN l : l[j] = l[k] => j = k
  BY <1>1 DEF IsInjective
<1>3. (CHOOSE j \in DOMAIN l : l[j] = l[k]) = k
  BY <1>1, <1>2
<1> QED
  BY <1>1, <1>3 DEF Start, PageSource

\* What a page adds: the due items from its start, up to the next cursor.
LEMMA PageAdds ==
  ASSUME RoundInv, pc = "page"
  PROVE  LET end == Start(cursor) + PageTicks IN
         /\ Start(cursor) \in Nat \ {0}
         /\ end \in Nat
         /\ Reaches(end) <=> end <= Len(view.list)
         /\ NextCursor(cursor) = IF Reaches(end) THEN view.list[end] ELSE None
         /\ Reaches(end) => NextCursor(cursor) # None /\ end \in 1..Len(view.list)
         /\ Rows(cursor) \in Seq(PhaseItems(phase))
         /\ fetched \o Rows(cursor) \in Seq(PhaseItems(phase))
         /\ IsInjective(fetched \o Rows(cursor))
         /\ ToSet(fetched \o Rows(cursor)) = DueBefore(end)
<1> DEFINE l == view.list
           start == Start(cursor)
           end == start + PageTicks
           last == IF Reaches(end) THEN end - 1 ELSE Len(l)
           page == SubSeq(l, start, last)
<1>1. /\ l \in Seq(PhaseItems(phase)) /\ IsInjective(l) /\ view.due \subseteq ToSet(l)
      /\ fetched \in Seq(PhaseItems(phase)) /\ IsInjective(fetched)
      /\ ToSet(fetched) = DueBefore(start)
      /\ phase \in {"claims", "withdrawals"}
      /\ PageTicks \in Nat \ {0}
  BY BatchAssumption DEF RoundInv
<1>2. /\ Len(l) \in Nat /\ DOMAIN l = 1..Len(l)
      /\ \A k \in 1..Len(l) : l[k] \in PhaseItems(phase) /\ l[k] # None
  BY <1>1, PhaseItemsAre
<1>3. start \in Nat \ {0}
  <2>1. CASE cursor = None
    BY <2>1 DEF Start
  <2>2. CASE cursor # None
    <3>1. PICK k \in 1..Len(l) : l[k] = cursor
      BY <2>2 DEF RoundInv, Contains
    <3>2. Start(l[k]) = k
      BY <1>1, <1>2, StartIsPlace
    <3> QED
      BY <1>2, <3>1, <3>2
  <2> QED
    BY <2>1, <2>2
<1>4. Reaches(end) <=> end <= Len(l)
  BY DEF Reaches, PageSource
<1>5. NextCursor(cursor) = IF Reaches(end) THEN l[end] ELSE None
  BY DEF NextCursor, PageSource
<1>6. Rows(cursor) = Filter(page, view.due)
  BY DEF Rows, PageSource
<1> HIDE DEF l, start
<1>7. end \in Nat /\ start < end
  BY <1>1, <1>3
<1>8. Reaches(end) => NextCursor(cursor) # None /\ end \in 1..Len(l)
  BY <1>2, <1>3, <1>4, <1>5, <1>7
<1>9. last \in Nat /\ last <= Len(l) /\ \A k \in 1..Len(l) : k < end <=> k <= last
  <2> HIDE DEF end
  <2>1. CASE Reaches(end)
    BY <1>2, <1>3, <1>4, <1>7, <2>1
  <2>2. CASE ~ Reaches(end)
    BY <1>2, <1>3, <1>4, <1>7, <2>2
  <2> QED
    BY <2>1, <2>2
<1> HIDE DEF end, last
<1>10. /\ page \in Seq(PhaseItems(phase))
       /\ Len(page) \in Nat /\ DOMAIN page = 1..Len(page)
       /\ \A n \in 1..Len(page) :
            /\ start + n - 1 \in start..last /\ start + n - 1 \in 1..Len(l)
            /\ page[n] = l[start + n - 1]
       /\ \A k \in start..last : k - start + 1 \in 1..Len(page) /\ page[k - start + 1] = l[k]
  <2>1. \A k \in start..last : k \in 1..Len(l)
    BY <1>2, <1>3, <1>9
  <2>2. \A k \in start..last : l[k] \in PhaseItems(phase)
    BY <1>2, <2>1
  <2>3. /\ page \in Seq(PhaseItems(phase))
        /\ Len(page) = IF start <= last THEN last - start + 1 ELSE 0
        /\ \A n \in 1..(last - start + 1) : page[n] = l[start + n - 1]
    BY <1>3, <1>9, <2>2
  <2> HIDE DEF page
  <2>4. \A n \in 1..Len(page) : n \in 1..(last - start + 1) /\ start + n - 1 \in start..last
    BY <1>3, <1>9, <2>3
  <2>5. \A k \in start..last : k - start + 1 \in 1..Len(page) /\ start + (k - start + 1) - 1 = k
    BY <1>3, <1>9, <2>3
  <2> QED
    BY <2>1, <2>3, <2>4, <2>5
<1>11. ToSet(page) = {l[k] : k \in start..last} /\ IsInjective(page)
  <2> HIDE DEF page
  <2>1. ToSet(page) = {l[k] : k \in start..last}
    <3>1. \A x \in ToSet(page) : \E k \in start..last : x = l[k]
      BY <1>10 DEF ToSet
    <3>2. \A k \in start..last : l[k] \in ToSet(page)
      BY <1>10 DEF ToSet
    <3> QED
      BY <3>1, <3>2
  <2>2. ASSUME NEW m \in 1..Len(page), NEW n \in 1..Len(page), page[m] = page[n]
        PROVE  m = n
    <3>1. l[start + m - 1] = l[start + n - 1]
      BY <1>10, <2>2
    <3>2. start + m - 1 = start + n - 1
      BY <1>1, <1>2, <1>10, <3>1 DEF IsInjective
    <3> QED
      BY <1>3, <1>10, <3>2
  <2> QED
    BY <1>10, <2>1, <2>2 DEF IsInjective
<1> HIDE DEF page
<1>12. /\ Rows(cursor) \in Seq(PhaseItems(phase))
       /\ ToSet(Rows(cursor)) = {l[k] : k \in start..last} \cap view.due
       /\ IsInjective(Rows(cursor))
  <2>1. \A set : /\ Filter(page, set) \in Seq(PhaseItems(phase) \cap set)
                 /\ ToSet(Filter(page, set)) = ToSet(page) \cap set
                 /\ IsInjective(Filter(page, set))
    BY <1>10, <1>11, FilterKeeps
  <2>2. /\ Rows(cursor) \in Seq(PhaseItems(phase) \cap view.due)
        /\ ToSet(Rows(cursor)) = ToSet(page) \cap view.due
        /\ IsInjective(Rows(cursor))
    BY <1>6, <2>1
  <2>3. Rows(cursor) \in Seq(PhaseItems(phase))
    BY <2>2
  <2> QED
    BY <1>11, <2>2, <2>3
<1> DEFINE rows == Rows(cursor)
           all == fetched \o rows
<1> HIDE DEF rows
<1>13. /\ all \in Seq(PhaseItems(phase))
       /\ DOMAIN all = 1..(Len(fetched) + Len(rows))
       /\ \A n \in DOMAIN all : all[n] = IF n <= Len(fetched) THEN fetched[n] ELSE rows[n - Len(fetched)]
       /\ \A n \in DOMAIN all : IF n <= Len(fetched) THEN n \in DOMAIN fetched
                                ELSE n - Len(fetched) \in DOMAIN rows
       /\ \A n \in DOMAIN fetched : n \in DOMAIN all /\ all[n] = fetched[n]
       /\ \A n \in DOMAIN rows : n + Len(fetched) \in DOMAIN all /\ all[n + Len(fetched)] = rows[n]
  BY <1>1, <1>12 DEF rows
<1>14. ToSet(all) = ToSet(fetched) \cup ToSet(rows)
  <2> HIDE DEF all
  <2>1. \A x \in ToSet(all) : x \in ToSet(fetched) \cup ToSet(rows)
    BY <1>13 DEF ToSet
  <2>2. \A x \in ToSet(fetched) : x \in ToSet(all)
    BY <1>13 DEF ToSet
  <2>3. \A x \in ToSet(rows) : x \in ToSet(all)
    BY <1>13 DEF ToSet
  <2> QED
    BY <2>1, <2>2, <2>3
<1>15. ToSet(rows) = {i \in view.due : \E j \in 1..Len(l) : start <= j /\ j < end /\ l[j] = i}
  <2>1. \A j : j \in start..last <=> j \in 1..Len(l) /\ start <= j /\ j < end
    BY <1>2, <1>3, <1>9
  <2> QED
    BY <1>12, <2>1 DEF rows
<1>16. ToSet(all) = DueBefore(end)
  <2>1. \A j \in 1..Len(l) : j < end <=> j < start \/ (start <= j /\ j < end)
    BY <1>2, <1>3, <1>7
  <2> QED
    BY <1>1, <1>14, <1>15, <2>1 DEF DueBefore, l
<1>17. ToSet(fetched) \cap ToSet(rows) = {}
  <2>1. \A j, k \in 1..Len(l) : l[j] = l[k] => j = k
    BY <1>1, <1>2 DEF IsInjective
  <2>2. \A j, k \in 1..Len(l) : j < start /\ start <= k => j # k
    BY <1>2, <1>3
  <2> QED
    BY <1>1, <1>15, <2>1, <2>2 DEF DueBefore, l
<1>18. IsInjective(all)
  <2> SUFFICES ASSUME NEW m \in DOMAIN all, NEW n \in DOMAIN all, all[m] = all[n]
               PROVE  m = n
    BY DEF IsInjective
  <2> HIDE DEF all
  <2>1. \A k \in DOMAIN fetched, j \in DOMAIN rows : fetched[k] # rows[j]
    BY <1>17 DEF ToSet
  <2>2. m \in Nat /\ n \in Nat /\ Len(fetched) \in Nat
    BY <1>1, <1>12, <1>13 DEF rows
  <2>3. CASE m <= Len(fetched) /\ n <= Len(fetched)
    BY <1>1, <1>13, <2>3 DEF IsInjective
  <2>4. CASE m > Len(fetched) /\ n > Len(fetched)
    <3>1. /\ m - Len(fetched) \in DOMAIN rows /\ n - Len(fetched) \in DOMAIN rows
          /\ rows[m - Len(fetched)] = rows[n - Len(fetched)]
      BY <1>13, <2>2, <2>4
    <3>2. m - Len(fetched) = n - Len(fetched)
      BY <1>12, <3>1 DEF IsInjective, rows
    <3> QED
      BY <2>2, <3>2
  <2> QED
    BY <1>13, <2>1, <2>2, <2>3, <2>4
<1> QED
  BY <1>3, <1>4, <1>5, <1>7, <1>8, <1>12, <1>13, <1>16, <1>18 DEF l, start, end, rows

\* No round runs at the start.
LEMMA RoundInitial == Init => RoundInv
BY DEF Init, RoundInv

\* Every step keeps what has been read of the pinned block.
LEMMA RoundInductive ==
  ASSUME ListsInv, RoundInv, [Next]_vars
  PROVE  RoundInv'
<1>1. ASSUME UNCHANGED <<pc, phaseVars>> PROVE RoundInv'
  <2>1. Start(cursor)' = Start(cursor) /\ view' = view /\ cursor' = cursor
    BY <1>1 DEF phaseVars, Start, PageSource
  <2>2. DueBefore(Start(cursor))' = DueBefore(Start(cursor))
    BY <2>1 DEF DueBefore
  <2> QED
    BY <1>1, <2>1, <2>2 DEF RoundInv, phaseVars
<1>2. ASSUME LeavePhase PROVE RoundInv'
  BY <1>2 DEF LeavePhase, RoundInv
<1>3. CASE PinTip
  <2>1. /\ pc' = "page" /\ phase' = phase /\ cursor' = None /\ fetched' = << >> /\ at' = 1
        /\ phase \in {"claims", "withdrawals"}
        /\ view' = [list |-> list[phase], due |-> due \cap ToSet(list[phase])]
    BY <1>3 DEF PinTip, RoundInv
  <2>2. /\ view'.list \in Seq(PhaseItems(phase)) /\ IsInjective(view'.list)
        /\ view'.due \subseteq ToSet(view'.list)
    BY <2>1 DEF ListsInv
  <2>3. Start(cursor)' = 1
    BY <2>1 DEF Start
  <2>4. DueBefore(Start(cursor))' = {}
    <3>1. \A j \in 1..Len(view'.list) : ~ j < 1
      BY <2>2
    <3> QED
      BY <2>3, <3>1 DEF DueBefore
  <2>5. << >> \in Seq(PhaseItems(phase)) /\ IsInjective(<< >>) /\ ToSet(<< >>) = {}
    BY DEF IsInjective, ToSet
  <2> QED
    BY <2>1, <2>2, <2>4, <2>5 DEF RoundInv
<1>4. CASE FetchPage
  <2> DEFINE end == Start(cursor) + PageTicks
             all == fetched \o Rows(cursor)
  <2>1. pc = "page" /\ NextCursor(cursor) # None
    BY <1>4 DEF FetchPage
  <2>2. /\ end \in 1..Len(view.list)
        /\ NextCursor(cursor) = view.list[end]
        /\ all \in Seq(PhaseItems(phase)) /\ IsInjective(all)
        /\ ToSet(all) = DueBefore(end)
    BY <2>1, PageAdds
  <2> HIDE DEF end, all
  <2>3. /\ pc' = pc /\ phase' = phase /\ view' = view /\ batches' = batches /\ at' = at
        /\ fetched' = all /\ cursor' = view.list[end]
    BY <1>4, <2>2 DEF FetchPage, all
  <2>4. /\ view.list \in Seq(PhaseItems(phase)) /\ IsInjective(view.list)
        /\ view.due \subseteq ToSet(view.list) /\ phase \in {"claims", "withdrawals"}
    BY <2>1 DEF RoundInv
  <2>5. view.list[end] # None
    BY <2>1, <2>2
  <2>6. Contains(view.list, view.list[end]) /\ Start(view.list[end]) = end
    BY <2>2, <2>4, <2>5, StartIsPlace
  <2>7. Start(cursor)' = end
    <3>1. Start(cursor)' = Start(view.list[end])
      BY <2>3 DEF Start, PageSource
    <3> QED
      BY <2>6, <3>1
  <2>8. DueBefore(Start(cursor))' = DueBefore(end)
    BY <2>3, <2>7 DEF DueBefore
  <2>9. at = 1
    BY <2>1 DEF RoundInv
  <2> QED
    BY <2>1, <2>2, <2>3, <2>4, <2>6, <2>8, <2>9 DEF RoundInv
<1>5. CASE FetchLastPage
  <2> DEFINE end == Start(cursor) + PageTicks
             all == fetched \o Rows(cursor)
  <2>1. pc = "page" /\ NextCursor(cursor) = None
    BY <1>5 DEF FetchLastPage
  <2>2. /\ end \in Nat /\ ~ end <= Len(view.list)
        /\ all \in Seq(PhaseItems(phase)) /\ IsInjective(all)
        /\ ToSet(all) = DueBefore(end)
    BY <2>1, PageAdds
  <2>3. /\ view.list \in Seq(PhaseItems(phase)) /\ IsInjective(view.list)
        /\ view.due \subseteq ToSet(view.list) /\ phase \in {"claims", "withdrawals"}
        /\ at = 1
    BY <2>1 DEF RoundInv
  <2> HIDE DEF end
  <2>4. DueBefore(end) = view.due
    <3>1. \A i \in view.due : \E j \in 1..Len(view.list) : view.list[j] = i
      BY <2>3 DEF ToSet
    <3>2. \A j \in 1..Len(view.list) : j < end
      BY <2>2, <2>3
    <3> QED
      BY <3>1, <3>2 DEF DueBefore
  <2>5. all \in Seq(Items)
    BY <2>2, <2>3, PhaseItemsAre
  <2>6. CASE all = << >>
    BY <1>2, <1>5, <2>6 DEF FetchLastPage
  <2>7. CASE all # << >>
    <3>1. /\ batches' \in BatchesOf(all) /\ cursor' = None /\ fetched' = << >> /\ pc' = "submit"
          /\ phase' = phase /\ view' = view /\ at' = at
      BY <1>5, <2>7 DEF FetchLastPage
    <3> HIDE DEF all
    <3>2. Cover(batches', view.due)
      BY <2>2, <2>4, <2>5, <3>1, BatchesCoverRows
    <3>3. all[1] \in view.due
      <4>1. 1 \in DOMAIN all
        BY <2>5, <2>7
      <4> QED
        BY <2>2, <2>4, <4>1 DEF ToSet
    <3>4. 1 \in DOMAIN batches'
      <4>1. batches' \in Seq(Seq(Items)) /\ \E b \in DOMAIN batches' : TRUE
        BY <3>2, <3>3 DEF Cover
      <4> QED
        BY <4>1
    <3> QED
      BY <2>3, <3>1, <3>2, <3>4 DEF RoundInv
  <2> QED
    BY <2>6, <2>7
<1>6. ASSUME Submission PROVE RoundInv'
  <2>1. CASE at < Len(batches)
    <3>1. /\ pc = "submit" /\ Cover(batches, view.due) /\ at \in DOMAIN batches
          /\ at' = at + 1
          /\ UNCHANGED <<pc, phase, view, cursor, fetched, batches>>
      BY <1>6, <2>1 DEF Submission, NextBatch, RoundInv
    <3>2. at + 1 \in DOMAIN batches
      BY <2>1, <3>1 DEF Cover
    <3> QED
      BY <3>1, <3>2 DEF RoundInv
  <2>2. CASE ~ at < Len(batches)
    BY <1>2, <1>6, <2>2 DEF Submission, NextBatch
  <2> QED
    BY <2>1, <2>2
<1>7. CASE UpdateWalletNonce
  BY <1>7 DEF UpdateWalletNonce, phaseVars, RoundInv
<1>8. CASE Accepted \/ Rejected \/ Unanswered
  BY <1>6, <1>8 DEF Accepted, Rejected, Unanswered
<1>9. CASE ReadFails
  BY <1>2, <1>9 DEF ReadFails
<1>10. CASE Restart
  BY <1>10 DEF Restart, RoundInv
<1>11. CASE Mine
  BY <1>1, <1>11 DEF Mine
<1>12. CASE \E item \in Items :
              Enlist(item) \/ BecomeDue(item) \/ Delist(item) \/ ServedByOthers(item)
  BY <1>1, <1>12 DEF Enlist, BecomeDue, Delist, ServedByOthers, Event
<1>13. CASE UNCHANGED vars
  BY <1>1, <1>13 DEF vars, phaseVars
<1> QED
  BY <1>3, <1>4, <1>5, <1>7, <1>8, <1>9, <1>10, <1>11, <1>12, <1>13 DEF Next, Work

\* At any time the pages read so far hold the due items before the cursor, and the
\* batches all of them.
THEOREM RoundsHold == Spec => [](ListsInv /\ RoundInv)
<1>1. Init => ListsInv /\ RoundInv
  BY ListsInitial, RoundInitial
<1>2. ListsInv /\ RoundInv /\ [Next]_vars => ListsInv' /\ RoundInv'
  BY ListsInductive, RoundInductive
<1> QED
  BY <1>1, <1>2, PTL DEF Spec

\* Whatever the chain did between the pages, the batches hold what was due at
\* the pinned block, once.
THEOREM BatchesAlwaysCover == Spec => []BatchesCoverView
<1>1. ListsInv /\ RoundInv => BatchesCoverView
  <2> SUFFICES ASSUME RoundInv, pc = "submit" PROVE BatchesCoverView
    BY DEF BatchesCoverView
  <2>1. Cover(batches, view.due) /\ view.due \subseteq ToSet(view.list)
    BY DEF RoundInv
  <2>2. batches \in Seq(Seq(Items)) /\ MaxBatch \in Nat
    BY <2>1, BatchAssumption DEF Cover
  <2>3. \A b \in DOMAIN batches : DOMAIN batches[b] = 1..Len(batches[b])
    BY <2>2
  <2>4. ASSUME NEW b \in DOMAIN batches
        PROVE  /\ Len(batches[b]) \in 1..MaxBatch
               /\ \A n \in 1..Len(batches[b]) : batches[b][n] \in view.due
               /\ \E manager \in Managers :
                    \A n \in 1..Len(batches[b]) : ManagerOf[batches[b][n]] = manager
    <3> DEFINE bs == batches
               S == view.due
    <3>1. Cover(bs, S) /\ b \in DOMAIN bs
      BY <2>1
    <3> HIDE DEF bs, S
    <3>2. /\ Len(bs[b]) \in 1..MaxBatch
          /\ \A n \in 1..Len(bs[b]) : bs[b][n] \in S
          /\ \E manager \in Managers : \A n \in 1..Len(bs[b]) : ManagerOf[bs[b][n]] = manager
      BY <3>1, Zenon DEF Cover
    <3> QED
      BY <3>2 DEF bs, S
  <2>5. ASSUME NEW item \in Items
        PROVE  Cardinality({p \in (DOMAIN batches) \X (1..MaxBatch) :
                              p[2] \in DOMAIN batches[p[1]] /\ batches[p[1]][p[2]] = item})
                 = IF item \in view.due /\ Contains(view.list, item) THEN 1 ELSE 0
    <3> DEFINE places == {p \in (DOMAIN batches) \X (1..MaxBatch) :
                            p[2] \in DOMAIN batches[p[1]] /\ batches[p[1]][p[2]] = item}
    <3>1. item \in view.due => Contains(view.list, item)
      BY <2>1 DEF Contains, ToSet
    <3>2. CASE item \in view.due
      <4>0. PICK b \in DOMAIN batches : \E n \in 1..Len(batches[b]) : batches[b][n] = item
        BY <2>1, <3>2 DEF Cover
      <4>1. PICK n \in 1..Len(batches[b]) : batches[b][n] = item
        BY <4>0
      <4>2. n \in 1..MaxBatch
        BY <2>1, <2>2, <4>1 DEF Cover
      <4>3. <<b, n>> \in places
        BY <2>3, <4>1, <4>2
      <4>4. \A p \in places : p = <<b, n>>
        BY <2>1, <2>3, <4>1 DEF Cover
      <4>5. places = {<<b, n>>}
        BY <4>3, <4>4
      <4> QED
        BY <3>1, <3>2, <4>5, FS_Singleton
    <3>3. CASE item \notin view.due
      <4>1. \A b \in DOMAIN batches : \A n \in 1..Len(batches[b]) : batches[b][n] # item
        BY <2>4, <3>3
      <4>2. \A p \in (DOMAIN batches) \X (1..MaxBatch) :
              ~ (p[2] \in DOMAIN batches[p[1]] /\ batches[p[1]][p[2]] = item)
        <5> SUFFICES ASSUME NEW b \in DOMAIN batches, NEW n \in 1..MaxBatch
                     PROVE  ~ (n \in DOMAIN batches[b] /\ batches[b][n] = item)
          OBVIOUS
        <5> QED
          BY <2>3, <4>1
      <4>3. places = {}
        BY <4>2
      <4> QED
        BY <3>3, <4>3, FS_EmptySet
    <3> QED
      BY <3>2, <3>3
  <2>6. ASSUME NEW b \in DOMAIN batches
        PROVE  /\ Len(batches[b]) \in 1..MaxBatch
               /\ \A k, l \in DOMAIN batches[b] :
                    ManagerOf[batches[b][k]] = ManagerOf[batches[b][l]]
    BY <2>3, <2>4
  <2>7. \A item \in Items :
          Cardinality({p \in (DOMAIN batches) \X (1..MaxBatch) :
                         p[2] \in DOMAIN batches[p[1]] /\ batches[p[1]][p[2]] = item})
            = IF item \in view.due /\ Contains(view.list, item) THEN 1 ELSE 0
    BY <2>5
  <2>8. \A b \in DOMAIN batches :
          /\ Len(batches[b]) \in 1..MaxBatch
          /\ \A k, l \in DOMAIN batches[b] :
               ManagerOf[batches[b][k]] = ManagerOf[batches[b][l]]
    BY <2>6
  <2> HIDE DEF Items
  <2> QED
    BY <2>7, <2>8 DEF BatchesCoverView
<1> QED
  BY <1>1, RoundsHold, PTL

-----------------------------------------------------------------------------
(* The types.                                                              *)

\* What the rounds' invariant leaves open of the types.
TypeInv ==
  /\ due \subseteq Items
  /\ settled \subseteq Withdrawals
  /\ \A n \in DOMAIN mempool : Len(mempool[n].items) \in 1..MaxBatch
  /\ pc # "submit" => batches = << >>

\* A batch that is submitted has a size the contract takes.
LEMMA BatchSize ==
  ASSUME RoundInv, pc = "submit"
  PROVE  Len(batches[at]) \in 1..MaxBatch
BY DEF RoundInv, Cover

\* Every step keeps the types.
LEMMA TypeInductive ==
  ASSUME Inv, ListsInv, RoundInv, TypeInv, [Next]_vars
  PROVE  TypeInv'
<1>1. ASSUME UNCHANGED <<due, settled, mempool>>, pc' # "submit" => batches' = << >>
      PROVE  TypeInv'
  BY <1>1 DEF TypeInv
<1>2. LeavePhase => pc' # "submit" /\ batches' = << >>
  BY DEF LeavePhase
<1>3. ASSUME NEW items, Serve(items)
      PROVE  due' \subseteq Items /\ settled' \subseteq Withdrawals
  BY <1>3 DEF Serve, TypeInv
<1>4. ASSUME NEW item \in Items,
             Enlist(item) \/ BecomeDue(item) \/ Delist(item) \/ ServedByOthers(item)
      PROVE  TypeInv'
  <2>1. due' \subseteq Items /\ settled' \subseteq Withdrawals
    BY <1>3, <1>4 DEF Enlist, BecomeDue, Delist, ServedByOthers, TypeInv
  <2>2. UNCHANGED <<mempool, pc, batches>>
    BY <1>4 DEF Enlist, BecomeDue, Delist, ServedByOthers, Event, phaseVars
  <2> QED
    BY <2>1, <2>2 DEF TypeInv
<1>5. CASE Mine
  <2>1. due' \subseteq Items /\ settled' \subseteq Withdrawals
    BY <1>3, <1>5 DEF Mine
  <2>2. \A n \in DOMAIN mempool' : n + 1 \in DOMAIN mempool /\ mempool'[n] = mempool[n + 1]
    BY <1>5, MineKeeps
  <2>3. UNCHANGED <<pc, batches>>
    BY <1>5 DEF Mine, phaseVars
  <2> QED
    BY <2>1, <2>2, <2>3 DEF TypeInv
<1>6. CASE UpdateWalletNonce \/ Restart
  <2>1. mempool' = Unmarked /\ UNCHANGED <<due, settled>>
    BY <1>6 DEF UpdateWalletNonce, Restart, chain
  <2>2. pc' # "submit" /\ batches' = << >>
    BY <1>6 DEF UpdateWalletNonce, Restart, phaseVars, TypeInv
  <2>3. \A n \in DOMAIN mempool' : n \in DOMAIN mempool /\ mempool'[n].items = mempool[n].items
    BY <2>1 DEF Unmarked
  <2> QED
    BY <2>1, <2>2, <2>3 DEF TypeInv
<1>7. CASE PinTip \/ FetchPage
  BY <1>1, <1>7 DEF PinTip, FetchPage, chain, TypeInv
<1>8. CASE FetchLastPage
  <2>1. UNCHANGED <<due, settled, mempool>>
    BY <1>8 DEF FetchLastPage, chain
  <2>2. pc' # "submit" => batches' = << >>
    BY <1>2, <1>8 DEF FetchLastPage
  <2> QED
    BY <1>1, <2>1, <2>2
<1>9. CASE ReadFails
  BY <1>1, <1>2, <1>9 DEF ReadFails, chain
<1>10. ASSUME Submission
       PROVE  UNCHANGED <<due, settled>> /\ (pc' # "submit" => batches' = << >>)
  BY <1>2, <1>10 DEF Submission, NextBatch, chain
<1>11. ASSUME Submission, NEW batch, UNCHANGED mempool \/ Enter(batches[at], batch)
       PROVE  TypeInv'
  <2>1. CASE UNCHANGED mempool
    BY <1>1, <1>10, <1>11, <2>1
  <2>2. CASE Enter(batches[at], batch)
    <3>1. pc = "submit"
      BY <1>11 DEF Submission
    <3>2. nonce \in Nat
      BY <2>2 DEF Enter, Admits, Inv
    <3> DEFINE tx == [items |-> batches[at], batch |-> batch]
    <3>3. mempool' = MapSet(mempool, nonce, tx) /\ tx.items = batches[at]
      BY <2>2 DEF Enter
    <3> HIDE DEF tx
    <3>4. \A n \in DOMAIN mempool' : Len(mempool'[n].items) \in 1..MaxBatch
      BY <3>1, <3>2, <3>3, EnterKeeps, BatchSize DEF TypeInv
    <3> QED
      BY <1>10, <1>11, <3>4 DEF TypeInv
  <2> QED
    BY <1>11, <2>1, <2>2
<1>12. CASE Accepted \/ Rejected \/ Unanswered
  BY <1>11, <1>12 DEF Accepted, Rejected, Unanswered
<1>13. CASE UNCHANGED vars
  BY <1>1, <1>13 DEF vars, TypeInv
<1> QED
  BY <1>4, <1>5, <1>6, <1>7, <1>8, <1>9, <1>12, <1>13 DEF Next, Work

\* The keeper's variables keep their types, and no transaction in the mempool is
\* empty or larger than the contract takes.
THEOREM KeeperTypeCorrect == Spec => []TypeOK
<1>1. Init => TypeInv
  BY DEF Init, TypeInv, Items, Listed
<1>2. Inv /\ ListsInv /\ RoundInv /\ TypeInv /\ [Next]_vars => TypeInv'
  BY TypeInductive
<1>3. Inv /\ ListsInv /\ RoundInv /\ TypeInv => TypeOK
  <2> SUFFICES ASSUME Inv, ListsInv, RoundInv, TypeInv PROVE TypeOK
    OBVIOUS
  <2>1. phase \in {"claims", "withdrawals"} /\ PhaseItems(phase) \subseteq Items
    BY PhaseItemsAre DEF RoundInv
  <2>2. cursor \in Items \cup {None}
    <3>1. CASE pc = "page" /\ cursor # None
      <4>1. view.list \in Seq(PhaseItems(phase)) /\ Contains(view.list, cursor)
        BY <3>1 DEF RoundInv
      <4> QED
        BY <2>1, <4>1 DEF Contains
    <3> QED
      BY <3>1 DEF RoundInv
  <2>3. fetched \in Seq(Items)
    <3>1. CASE pc = "page"
      <4>1. fetched \in Seq(PhaseItems(phase))
        BY <3>1 DEF RoundInv
      <4> QED
        BY <2>1, <4>1
    <3>2. CASE pc # "page"
      BY <3>2 DEF RoundInv
    <3> QED
      BY <3>1, <3>2
  <2>4. batches \in Seq(Seq(Items)) /\ at \in Nat \ {0}
    <3>1. CASE pc = "submit"
      <4>1. batches \in Seq(Seq(Items)) /\ at \in DOMAIN batches
        BY <3>1 DEF RoundInv, Cover
      <4> QED
        BY <4>1
    <3>2. CASE pc # "submit"
      BY <3>2 DEF RoundInv, TypeInv
    <3> QED
      BY <3>1, <3>2
  <2>5. \A n \in DOMAIN mempool : n \in Nat /\ Len(mempool[n].items) \in 1..MaxBatch
    BY DEF Inv, TypeInv
  <2>6. nonce \in Nat \cup {-1}
    BY DEF Inv
  <2> QED
    BY <2>1, <2>2, <2>3, <2>4, <2>5, <2>6 DEF TypeOK, ListsInv, RoundInv, TypeInv
<1>4. Spec => []Inv
  BY AlwaysInv
<1> QED
  BY <1>1, <1>2, <1>3, <1>4, RoundsHold, PTL DEF Spec

-----------------------------------------------------------------------------
(* The calls over the wire. *)

\* A key on the wire stands for one item.
LEMMA ItemOfKey ==
  ASSUME NEW item \in Items
  PROVE  ItemOf(KeyOf(item)) = item
<1>1. (CHOOSE i \in Items : KeyOf(i) = KeyOf(item)) = item
  BY KeyAssumption
<1> QED
  BY <1>1 DEF ItemOf

-----------------------------------------------------------------------------
\* The tip and the account.
LEMMA InfoIsRead ==
  /\ Succeeds(GetNodeInfo(InfoAnswer))
  /\ Content(GetNodeInfo(InfoAnswer)).networkId = ChainId
  /\ ChainTip(Content(GetNodeInfo(InfoAnswer)))[2]
       = [list |-> list[phase], due |-> due \cap ToSet(list[phase])]
<1> DEFINE info == [networkId |-> ChainId,
                    stacksTip |-> [list |-> list[phase], due |-> due \cap ToSet(list[phase])],
                    stacksTipConsensusHash |-> "consensus hash"]
<1>1. /\ DOMAIN info = {"networkId", "stacksTip", "stacksTipConsensusHash"}
      /\ info.networkId = ChainId
      /\ info.stacksTip = [list |-> list[phase], due |-> due \cap ToSet(list[phase])]
  OBVIOUS
<1>2. InfoAnswer = Answer(200, Object(info))
  BY DEF InfoAnswer
<1> HIDE DEF info
<1>3. GetNodeInfo(InfoAnswer) = Result(info)
  BY <1>1, <1>2 DEF GetNodeInfo, IsSuccess, Has, Answer, Object, NodeInfo
<1>4. ChainTip(info)[2] = info.stacksTip
  BY DEF ChainTip
<1> QED
  BY <1>1, <1>3, <1>4, ResultSucceeds

\* Any other answer is an error.
LEMMA InfoFails == \A answer \in BadAnswers : GetNodeInfo(answer) = Failed
<1>1. GetNodeInfo(NoAnswer) = Failed
  BY DEF GetNodeInfo, NoAnswer, Answer, IsSuccess
<1>2. GetNodeInfo(Answer(500, Text)) = Failed
  BY DEF GetNodeInfo, Answer, IsSuccess
<1>3. GetNodeInfo(Answer(200, Text)) = Failed
  BY DEF GetNodeInfo, Answer, Has, Text
<1>4. GetNodeInfo(Answer(200, Object([x \in {} |-> x]))) = Failed
  BY DEF GetNodeInfo, Answer, Object, Has, NodeInfo
<1> QED
  BY <1>1, <1>2, <1>3, <1>4 DEF BadAnswers

\* So the call pins the tip, or fails.
LEMMA InfoCallImplements ==
  /\ CallGetNodeInfo => PinTip
  /\ GetNodeInfoFails => ReadFails
<1>1. ASSUME CallGetNodeInfo PROVE PinTip
  BY <1>1, InfoIsRead DEF CallGetNodeInfo, TakeInfo, PinTip
<1>2. ASSUME GetNodeInfoFails PROVE ReadFails
  <2>1. PICK answer \in BadAnswers : TakeInfo(answer)
    BY <1>2 DEF GetNodeInfoFails
  <2>2. LeavePhase
    BY <2>1, InfoFails, FailedFails DEF TakeInfo
  <2> QED
    BY <1>2, <2>2 DEF GetNodeInfoFails, ReadFails
<1> QED
  BY <1>1, <1>2

\* So the call brings the account's nonce, or nothing.
LEMMA AccountCallImplements ==
  CallGetAccount => UpdateWalletNonce \/ UNCHANGED vars
<1> SUFFICES ASSUME CallGetAccount PROVE UpdateWalletNonce \/ UNCHANGED vars
  OBVIOUS
<1>1. PICK answer \in BadAccounts \cup {AccountAnswer(KeeperWallet.address)} :
        IF Succeeds(GetAccount(answer))
        THEN nonce' = Content(GetAccount(answer)).nonce /\ pc' = "pin" /\ mempool' = Unmarked
        ELSE UNCHANGED <<nonce, pc, mempool>>
  BY DEF CallGetAccount
<1>2. CASE answer \in BadAccounts
  <2>1. GetAccount(NoAnswer) = Failed
    BY DEF GetAccount, NoAnswer, Answer, IsSuccess
  <2>2. GetAccount(Answer(500, Text)) = Failed
    BY DEF GetAccount, Answer, IsSuccess
  <2>3. GetAccount(Answer(200, Text)) = Failed
    BY DEF GetAccount, Answer, Has, Text
  <2>4. GetAccount(Answer(200, Object([x \in {} |-> x]))) = Failed
    BY DEF GetAccount, Answer, Object, Has, AccountEntryResponse
  <2>5. GetAccount(Answer(200, Object([balance |-> NoHex, locked |-> Hex(0),
                                       unlockHeight |-> 0, nonce |-> 1]))) = Failed
    BY DEF GetAccount, Answer, Object, AccountInfo
  <2>6. GetAccount(Answer(200, Object([balance |-> Hex(0), unlockHeight |-> 0, nonce |-> 1])))
          = Failed
    BY DEF GetAccount, Answer, Object, Has, AccountEntryResponse
  <2>7. GetAccount(answer) = Failed
    BY <1>2, <2>1, <2>2, <2>3, <2>4, <2>5, <2>6 DEF BadAccounts, BadAnswers
  <2>8. UNCHANGED <<nonce, pc, mempool>>
    BY <1>1, <2>7, FailedFails
  <2> QED
    BY <2>8 DEF CallGetAccount, vars, chain, phaseVars
<1>3. CASE answer = AccountAnswer(KeeperWallet.address)
  <2> DEFINE entry == [balance |-> Hex(0), locked |-> Hex(0), unlockHeight |-> 0, nonce |-> 0]
  <2>1. KeeperWallet.address[1] = (ChainId = CHAIN_ID_MAINNET)
    BY InfoIsRead DEF KeeperWallet, Wallet
  <2>2. answer = Answer(200, Object(entry))
    BY <1>3, <2>1 DEF AccountAnswer
  <2>3. /\ DOMAIN entry = {"balance", "locked", "unlockHeight", "nonce"}
        /\ entry.balance # NoHex /\ entry.locked # NoHex /\ entry.nonce = 0
    BY DEF Hex, NoHex
  <2> HIDE DEF entry
  <2>4. GetAccount(answer) = Result(entry)
    BY <2>2, <2>3
    DEF GetAccount, Answer, Object, IsSuccess, Has, AccountEntryResponse, AccountInfo
  <2> QED
    BY <1>1, <2>3, <2>4, ResultSucceeds DEF CallGetAccount, UpdateWalletNonce
<1> QED
  BY <1>1, <1>2, <1>3

-----------------------------------------------------------------------------
\* What the contract sends of an item is read as the item.
LEMMA ItemIsRead ==
  ASSUME phase \in {"claims", "withdrawals"}, NEW item \in PhaseItems(phase)
  PROVE  /\ KeyParses(ContractKey(item)) /\ ItemOf(Key(ContractKey(item))) = item
         /\ RowParses(ContractRow(item)) /\ ItemOf(Key(ContractRow(item))) = item
<1>1. item \in Items /\ ManagerOf[item] \in Managers /\ ItemOf(KeyOf(item)) = item
  BY PhaseItemsAre, ItemOfKey, ItemAssumption
<1>2. CASE phase = "claims"
  <2> DEFINE key == [staker |-> Principal(StakerOf[item]),
                     signerManager |-> Principal(ManagerOf[item])]
             row == [signerManager |-> Principal(ManagerOf[item]),
                     staker |-> Principal(StakerOf[item]),
                     bondIndex |-> IF item \in Bonded THEN Some(UInt(1)) ELSE NoValue,
                     rewardCycle |-> UInt(0)]
  <2>1. item \in Claims
    BY <1>2 DEF PhaseItems
  <2>2. KeyOf(item) = <<StakerOf[item], ManagerOf[item]>>
    BY <2>1 DEF KeyOf
  <2>3. ContractKey(item) = Tuple(key) /\ ContractRow(item) = Tuple(row)
    BY <2>1 DEF ContractKey, ContractRow
  <2>4. /\ Holds(Tuple(key), "staker", "principal")
        /\ Holds(Tuple(key), "signerManager", "principal")
        /\ Field(Tuple(key), "staker") = StakerOf[item]
        /\ Field(Tuple(key), "signerManager") = ManagerOf[item]
    BY DEF Holds, IsTuple, Field, TypeOf, DataOf, Tuple, Principal
  <2>5. /\ Holds(Tuple(row), "staker", "principal")
        /\ Holds(Tuple(row), "signerManager", "principal")
        /\ Holds(Tuple(row), "rewardCycle", "uint")
        /\ Field(Tuple(row), "staker") = StakerOf[item]
        /\ Field(Tuple(row), "signerManager") = ManagerOf[item]
    BY DEF Holds, IsTuple, Field, TypeOf, DataOf, Tuple, Principal, UInt
  <2>6. /\ Holds(Tuple(row), "bondIndex", "optional")
        /\ \A k \in DOMAIN Field(Tuple(row), "bondIndex") :
             TypeOf(Field(Tuple(row), "bondIndex")[k]) = "uint"
    BY DEF Holds, IsTuple, Field, TypeOf, DataOf, Tuple, UInt, Some, NoValue
  <2> HIDE DEF key, row
  <2> QED
    BY <1>1, <1>2, <2>2, <2>3, <2>4, <2>5, <2>6
    DEF KeyParses, Key, RowParses, ClaimParses, IsContract
<1>3. CASE phase = "withdrawals"
  <2> DEFINE key == [staker |-> Principal(StakerOf[item]),
                     signerManager |-> Principal(ManagerOf[item]),
                     requestId |-> UInt(RequestIdOf[item])]
  <2>1. item \notin Claims
    BY <1>3, ItemAssumption DEF PhaseItems
  <2>2. KeyOf(item) = <<StakerOf[item], ManagerOf[item], RequestIdOf[item]>>
    BY <2>1 DEF KeyOf
  <2>3. ContractKey(item) = Tuple(key) /\ ContractRow(item) = Tuple(key)
    BY <2>1 DEF ContractKey, ContractRow
  <2>4. /\ Holds(Tuple(key), "staker", "principal")
        /\ Holds(Tuple(key), "signerManager", "principal")
        /\ Holds(Tuple(key), "requestId", "uint")
        /\ Field(Tuple(key), "staker") = StakerOf[item]
        /\ Field(Tuple(key), "signerManager") = ManagerOf[item]
        /\ Field(Tuple(key), "requestId") = RequestIdOf[item]
    BY DEF Holds, IsTuple, Field, TypeOf, DataOf, Tuple, Principal, UInt
  <2> HIDE DEF key
  <2> QED
    BY <1>1, <1>3, <2>2, <2>3, <2>4
    DEF KeyParses, Key, RowParses, WithdrawalParses, IsContract
<1> QED
  BY <1>2, <1>3

\* The cursor the service sends asks for the page after it.
LEMMA CursorIsRead ==
  ASSUME phase \in {"claims", "withdrawals"}, cursor # None => cursor \in PhaseItems(phase)
  PROVE  LET rows == Rows(cursor)
             next == NextCursor(cursor)
         IN /\ ContractPage(CursorArg) =
                 Tuple([rows |-> List([k \in DOMAIN rows |-> ContractRow(rows[k])]),
                        next |-> IF next = None THEN NoValue ELSE Some(ContractKey(next))])
            /\ PageAnswer(CursorArg) =
                 Answer(200, Object([result |-> Response(ContractPage(CursorArg))]))
<1> DEFINE fields == {"staker", "signerManager"} \cup
                     IF phase = "claims" THEN {} ELSE {"requestId"}
           key == DataOf(CursorArg)[1]
           from == ItemOf(IF phase = "claims"
                          THEN <<Field(key, "staker"), Field(key, "signerManager")>>
                          ELSE <<Field(key, "staker"), Field(key, "signerManager"),
                                 Field(key, "requestId")>>)
<1>1. CASE cursor = None
  <2>1. CursorArg = NoValue
    BY <1>1 DEF CursorArg
  <2>2. IsCursor(CursorArg, fields)
    BY <2>1 DEF IsCursor, NoValue, TypeOf
  <2> QED
    BY <1>1, <2>1, <2>2 DEF PageAnswer, ContractPage
<1>2. CASE cursor # None
  <2>1. cursor \in Items /\ ItemOf(KeyOf(cursor)) = cursor
    BY <1>2, PhaseItemsAre, ItemOfKey
  <2>2. CASE phase = "claims"
    <3> DEFINE fs == [staker |-> Principal(StakerOf[cursor]),
                      signerManager |-> Principal(ManagerOf[cursor])]
    <3>1. CursorArg = <<"optional", <<Tuple(fs)>>>>
      BY <1>2, <2>2 DEF CursorArg, RegistrationKey, Some
    <3>2. key = Tuple(fs) /\ CursorArg # NoValue /\ TypeOf(CursorArg) = "optional"
      BY <3>1 DEF DataOf, NoValue, TypeOf
    <3>3. /\ Holds(Tuple(fs), "staker", "principal")
          /\ Holds(Tuple(fs), "signerManager", "principal")
          /\ DOMAIN DataOf(Tuple(fs)) = {"staker", "signerManager"}
          /\ Field(Tuple(fs), "staker") = StakerOf[cursor]
          /\ Field(Tuple(fs), "signerManager") = ManagerOf[cursor]
      BY DEF Holds, IsTuple, Field, TypeOf, DataOf, Tuple, Principal
    <3>4. KeyOf(cursor) = <<StakerOf[cursor], ManagerOf[cursor]>>
      BY <1>2, <2>2 DEF KeyOf, PhaseItems
    <3> HIDE DEF fs, key
    <3>5. IsCursor(CursorArg, fields)
      BY <2>2, <3>2, <3>3 DEF IsCursor, key
    <3>6. from = cursor
      BY <2>1, <2>2, <3>2, <3>3, <3>4
    <3> QED
      BY <2>2, <3>2, <3>5, <3>6 DEF PageAnswer, ContractPage, key
  <2>3. CASE phase = "withdrawals"
    <3> DEFINE fs == [staker |-> Principal(StakerOf[cursor]),
                      signerManager |-> Principal(ManagerOf[cursor]),
                      requestId |-> UInt(RequestIdOf[cursor])]
    <3>1. CursorArg = <<"optional", <<Tuple(fs)>>>>
      BY <1>2, <2>3 DEF CursorArg, WithdrawalKey, Some
    <3>2. key = Tuple(fs) /\ CursorArg # NoValue /\ TypeOf(CursorArg) = "optional"
      BY <3>1 DEF DataOf, NoValue, TypeOf
    <3>3. /\ Holds(Tuple(fs), "staker", "principal")
          /\ Holds(Tuple(fs), "signerManager", "principal")
          /\ DOMAIN DataOf(Tuple(fs)) = {"staker", "signerManager", "requestId"}
          /\ Field(Tuple(fs), "staker") = StakerOf[cursor]
          /\ Field(Tuple(fs), "signerManager") = ManagerOf[cursor]
          /\ Field(Tuple(fs), "requestId") = RequestIdOf[cursor]
      BY DEF Holds, IsTuple, Field, TypeOf, DataOf, Tuple, Principal, UInt
    <3>4. KeyOf(cursor) = <<StakerOf[cursor], ManagerOf[cursor], RequestIdOf[cursor]>>
      BY <1>2, <2>3, ItemAssumption DEF KeyOf, PhaseItems
    <3> HIDE DEF fs, key
    <3>5. IsCursor(CursorArg, fields)
      BY <2>3, <3>2, <3>3 DEF IsCursor, key
    <3>6. from = cursor
      BY <2>1, <2>3, <3>2, <3>3, <3>4
    <3> QED
      BY <2>3, <3>2, <3>5, <3>6 DEF PageAnswer, ContractPage, key
  <2> QED
    BY <2>2, <2>3
<1> QED
  BY <1>1, <1>2

\* A page of the contract's is parsed into its rows and its cursor.
LEMMA PageIsRead ==
  ASSUME phase \in {"claims", "withdrawals"}, NEW rows \in Seq(PhaseItems(phase)),
         NEW next \in PhaseItems(phase) \cup {None}
  PROVE  GetPending(Answer(200, Object([result |-> Response(
           Tuple([rows |-> List([k \in DOMAIN rows |-> ContractRow(rows[k])]),
                  next |-> IF next = None THEN NoValue ELSE Some(ContractKey(next))]))])))
             = Result([rows |-> rows, next |-> next])
<1> DEFINE R == [k \in DOMAIN rows |-> ContractRow(rows[k])]
           opt == IF next = None THEN << >> ELSE <<ContractKey(next)>>
           N == IF next = None THEN NoValue ELSE Some(ContractKey(next))
           page == Tuple([rows |-> List(R), next |-> N])
<1>1. DOMAIN R = DOMAIN rows /\ \A k \in DOMAIN rows : R[k] = ContractRow(rows[k])
  OBVIOUS
<1>2. \A k \in DOMAIN rows : RowParses(R[k]) /\ ItemOf(Key(R[k])) = rows[k]
  <2>1. \A k \in DOMAIN rows : rows[k] \in PhaseItems(phase)
    OBVIOUS
  <2> QED
    BY <1>1, <2>1, ItemIsRead
<1>3. \A k \in DOMAIN opt : KeyParses(opt[k])
  BY ItemIsRead
<1>4. (IF opt = << >> THEN None ELSE ItemOf(Key(opt[1]))) = next
  BY ItemIsRead
<1>5. N = <<"optional", opt>>
  BY DEF NoValue, Some
<1> HIDE DEF R, N, opt
<1>6. /\ Holds(page, "rows", "list") /\ Field(page, "rows") = R
      /\ Holds(page, "next", "optional") /\ Field(page, "next") = opt
  BY <1>5 DEF Holds, IsTuple, Field, TypeOf, DataOf, Tuple, List
<1> HIDE DEF page
<1>7. PageParses(page)
  BY <1>1, <1>2, <1>3, <1>6 DEF PageParses
<1>8. ParsedRows(page) = rows
  <2>1. ParsedRows(page) = [k \in DOMAIN rows |-> rows[k]]
    BY <1>1, <1>2, <1>6 DEF ParsedRows
  <2> QED
    BY <2>1
<1>9. ParsedNext(page) = next
  BY <1>4, <1>6 DEF ParsedNext
<1>10. CallRead(Answer(200, Object([result |-> Response(page)]))) = Result(Response(page))
  BY CallReadGives, ValuesAreHex
<1>11. TypeOf(Response(page)) = "response" /\ DataOf(Response(page)) = page
  BY DEF TypeOf, DataOf, Response
<1>12. GetPending(Answer(200, Object([result |-> Response(page)])))
         = Result([rows |-> ParsedRows(page), next |-> ParsedNext(page)])
  BY <1>7, <1>10, <1>11, ResultSucceeds DEF GetPending
<1> QED
  BY <1>8, <1>9, <1>12 DEF page, R, N

\* An entry that is changed has the value it is changed to.
LEMMA WithSets ==
  ASSUME NEW tuple, NEW field \in DOMAIN DataOf(tuple), NEW value
  PROVE  /\ DataOf(With(tuple, field, value))[field] = value
         /\ \A type : Holds(With(tuple, field, value), field, type) <=> TypeOf(value) = type
         /\ Field(With(tuple, field, value), field) = DataOf(value)
<1>1. DataOf(With(tuple, field, value)) = [DataOf(tuple) EXCEPT ![field] = value]
  BY DEF With, DataOf, Tuple
<1>2. /\ DataOf(With(tuple, field, value))[field] = value
      /\ field \in DOMAIN DataOf(With(tuple, field, value))
  BY <1>1
<1>3. IsTuple(With(tuple, field, value))
  BY DEF With, IsTuple, Tuple, TypeOf
<1> QED
  BY <1>2, <1>3 DEF Holds, Field

\* An entry of another type, or a signer-manager that is no contract, does not
\* parse.
LEMMA BadRowsDoNotParse ==
  ASSUME phase \in {"claims", "withdrawals"}, NEW item \in PhaseItems(phase),
         NEW row \in BadRows(ContractRow(item))
  PROVE  ~ RowParses(row)
<1> DEFINE good == ContractRow(item)
           fields == IF phase = "claims"
                     THEN {"signerManager", "staker", "bondIndex", "rewardCycle"}
                     ELSE {"staker", "signerManager", "requestId"}
<1>1. DOMAIN DataOf(good) = fields
  BY ItemAssumption DEF ContractRow, ContractKey, DataOf, Tuple, PhaseItems
<1> HIDE DEF good
<1>2. ASSUME NEW field \in fields, row = With(good, field, Response(good))
      PROVE  ~ RowParses(row)
  <2>1. \A type : Holds(row, field, type) => type = "response"
    <3>1. \A type : Holds(With(good, field, Response(good)), field, type)
                      <=> TypeOf(Response(good)) = type
      BY <1>1, WithSets
    <3>2. TypeOf(Response(good)) = "response"
      BY DEF Response, TypeOf
    <3> QED
      BY <1>2, <3>1, <3>2
  <2> QED
    BY <1>2, <2>1 DEF RowParses, ClaimParses, WithdrawalParses
<1>3. ASSUME row = With(good, "signerManager", Principal(PrivateKey))
      PROVE  ~ RowParses(row)
  <2>1. Field(row, "signerManager") = PrivateKey
    BY <1>1, <1>3, WithSets DEF Principal, DataOf
  <2> QED
    BY <2>1, KeyAssumption DEF RowParses, ClaimParses, WithdrawalParses, IsContract
<1>4. ASSUME "bondIndex" \in fields, row = With(good, "bondIndex", Some(NoValue))
      PROVE  ~ RowParses(row)
  <2>1. Field(row, "bondIndex") = <<NoValue>> /\ phase = "claims"
    BY <1>1, <1>4, WithSets DEF Some, DataOf
  <2>2. TypeOf(NoValue) # "uint"
    BY DEF TypeOf, NoValue
  <2> QED
    BY <2>1, <2>2 DEF RowParses, ClaimParses
<1>5. \/ \E field \in fields : row = With(good, field, Response(good))
      \/ row = With(good, "signerManager", Principal(PrivateKey))
      \/ "bondIndex" \in fields /\ row = With(good, "bondIndex", Some(NoValue))
  BY <1>1 DEF BadRows, good
<1> QED
  BY <1>2, <1>3, <1>4, <1>5

\* A page that does not parse is an error.
LEMMA PageFails ==
  ASSUME NEW page, ~ PageParses(page)
  PROVE  GetPending(Answer(200, Object([result |-> Response(page)]))) = Failed
<1>1. CallRead(Answer(200, Object([result |-> Response(page)]))) = Result(Response(page))
  BY CallReadGives, ValuesAreHex
<1>2. DataOf(Response(page)) = page
  BY DEF DataOf, Response
<1> QED
  BY <1>1, <1>2, ResultSucceeds DEF GetPending

\* A page of another shape, or with one bad row, does not parse.
LEMMA BadPagesDoNotParse ==
  ASSUME phase \in {"claims", "withdrawals"}, NEW rows \in Seq(PhaseItems(phase)), NEW next,
         NEW bad \in BadPages(Tuple([rows |-> List([k \in DOMAIN rows |-> ContractRow(rows[k])]),
                                     next |-> next]))
  PROVE  ~ PageParses(bad)
<1> DEFINE R == [k \in DOMAIN rows |-> ContractRow(rows[k])]
           page == Tuple([rows |-> List(R), next |-> next])
<1>1. /\ DOMAIN DataOf(page) = {"rows", "next"}
      /\ Field(page, "rows") = R
      /\ TypeOf(page) = "tuple"
  BY DEF DataOf, Tuple, Field, TypeOf, List
<1>2. DOMAIN R = DOMAIN rows /\ \A k \in DOMAIN rows : R[k] = ContractRow(rows[k])
  OBVIOUS
<1> HIDE DEF R, page
<1>3. ASSUME NEW field \in {"rows", "next"}, NEW value
      PROVE  /\ Field(With(page, field, value), field) = DataOf(value)
             /\ \A type : Holds(With(page, field, value), field, type) <=> TypeOf(value) = type
  <2>1. field \in DOMAIN DataOf(page)
    BY <1>1
  <2> QED
    BY ONLY <2>1, WithSets
<1>4. ASSUME bad = With(page, "rows", page) PROVE ~ PageParses(bad)
  <2>1. ~ Holds(bad, "rows", "list")
    BY <1>1, <1>4, <1>3
  <2> QED
    BY <2>1 DEF PageParses
<1>5. ASSUME bad = With(page, "next", Some(UInt(1))) PROVE ~ PageParses(bad)
  <2>1. Field(bad, "next") = <<UInt(1)>>
    <3>1. Field(With(page, "next", Some(UInt(1))), "next") = DataOf(Some(UInt(1)))
      BY <1>3
    <3>2. DataOf(Some(UInt(1))) = <<UInt(1)>>
      BY DEF DataOf, Some
    <3> QED
      BY <1>5, <3>1, <3>2
  <2>2. ~ KeyParses(UInt(1))
    BY DEF KeyParses, Holds, IsTuple, TypeOf, UInt
  <2> QED
    BY <2>1, <2>2 DEF PageParses
<1>6. ~ PageParses(UInt(1))
  BY DEF PageParses, Holds, IsTuple, TypeOf, UInt
<1>7. ASSUME NEW k \in DOMAIN rows, NEW row \in BadRows(R[k]),
             bad = With(page, "rows", List([R EXCEPT ![k] = row]))
      PROVE  ~ PageParses(bad)
  <2>1. Field(bad, "rows") = [R EXCEPT ![k] = row]
    <3> DEFINE changed == [R EXCEPT ![k] = row]
    <3> HIDE DEF changed
    <3>1. Field(With(page, "rows", List(changed)), "rows") = DataOf(List(changed))
      BY <1>3
    <3>2. DataOf(List(changed)) = changed
      BY DEF DataOf, List
    <3>3. bad = With(page, "rows", List(changed))
      BY <1>7 DEF changed
    <3>4. Field(bad, "rows") = changed
      BY <3>1, <3>2, <3>3
    <3> QED
      BY <3>4 DEF changed
  <2>2. k \in DOMAIN Field(bad, "rows") /\ Field(bad, "rows")[k] = row
    BY <1>2, <2>1
  <2>3. rows[k] \in PhaseItems(phase) /\ row \in BadRows(ContractRow(rows[k]))
    BY <1>2
  <2>4. ~ RowParses(row)
    BY <2>3, BadRowsDoNotParse
  <2> QED
    BY <2>2, <2>4 DEF PageParses
<1>8. \/ bad = With(page, "rows", page)
      \/ bad = With(page, "next", Some(UInt(1)))
      \/ bad = UInt(1)
      \/ \E k \in DOMAIN R : \E row \in BadRows(R[k]) :
           bad = With(page, "rows", List([R EXCEPT ![k] = row]))
  <2>1. bad \in BadPages(page)
    BY DEF page, R
  <2> DEFINE pages(rs) ==
               {With(page, "rows", page), With(page, "next", Some(UInt(1))), UInt(1)}
               \cup UNION {{With(page, "rows", List([rs EXCEPT ![k] = row])) :
                              row \in BadRows(rs[k])} : k \in DOMAIN rs}
  <2>2. BadPages(page) = pages(Field(page, "rows"))
    BY DEF BadPages
  <2>3. pages(Field(page, "rows")) = pages(R)
    <3> HIDE DEF pages
    <3> QED
      BY <1>1
  <2> QED
    BY <2>1, <2>2, <2>3
<1> QED
  BY <1>2, <1>4, <1>5, <1>6, <1>7, <1>8

\* A page that the node did answer is the page read, and any other ends the
\* phase.
LEMMA PageCallImplements ==
  ASSUME RoundInv
  PROVE  /\ CallGetPending => FetchPage \/ FetchLastPage
         /\ GetPendingFails => ReadFails
<1> DEFINE rows == Rows(cursor)
           next == NextCursor(cursor)
           page == Tuple([rows |-> List([k \in DOMAIN rows |-> ContractRow(rows[k])]),
                          next |-> IF next = None THEN NoValue ELSE Some(ContractKey(next))])
<1>1. ASSUME pc = "page"
      PROVE  /\ phase \in {"claims", "withdrawals"}
             /\ cursor # None => cursor \in PhaseItems(phase)
             /\ rows \in Seq(PhaseItems(phase))
             /\ next \in PhaseItems(phase) \cup {None}
             /\ PageAnswer(CursorArg) = Answer(200, Object([result |-> Response(page)]))
             /\ page = ContractPage(CursorArg)
  <2>1. phase \in {"claims", "withdrawals"} /\ view.list \in Seq(PhaseItems(phase))
    BY <1>1 DEF RoundInv
  <2>2. \A k \in 1..Len(view.list) : view.list[k] \in PhaseItems(phase)
    BY <2>1
  <2>3. cursor # None => cursor \in PhaseItems(phase)
    BY <1>1, <2>2 DEF RoundInv, Contains
  <2>4. rows \in Seq(PhaseItems(phase)) /\ next \in PhaseItems(phase) \cup {None}
    BY <1>1, <2>2, PageAdds
  <2> QED
    BY <2>1, <2>3, <2>4, CursorIsRead
<1>2. ASSUME CallGetPending PROVE FetchPage \/ FetchLastPage
  <2>1. pc = "page" /\ TakePage(PageAnswer(CursorArg))
        /\ UNCHANGED <<chain, mempool, nonce, events, faults>>
    BY <1>2 DEF CallGetPending
  <2>2. GetPending(PageAnswer(CursorArg)) = Result([rows |-> rows, next |-> next])
    <3> HIDE DEF rows, next
    <3> QED
      BY <1>1, <2>1, PageIsRead
  <2>3. /\ Succeeds(GetPending(PageAnswer(CursorArg)))
        /\ Content(GetPending(PageAnswer(CursorArg))).rows = rows
        /\ Content(GetPending(PageAnswer(CursorArg))).next = next
    BY <2>2, ResultSucceeds
  <2>4. CASE next # None
    BY <2>1, <2>3, <2>4 DEF TakePage, FetchPage
  <2>5. CASE next = None
    <3>1. Collected(fetched \o rows)
      BY <2>1, <2>3, <2>5 DEF TakePage
    <3> QED
      BY <2>1, <2>5, <3>1 DEF Collected, FetchLastPage
  <2> QED
    BY <2>4, <2>5
<1>3. ASSUME GetPendingFails PROVE ReadFails
  <2>1. pc = "page" /\ Fault /\ UNCHANGED <<chain, mempool, nonce, events>>
    BY <1>3 DEF GetPendingFails
  <2>2. PICK answer \in
          BadAnswers
          \cup {Answer(200, Object([cause |-> "CostBalanceExceeded"])),
                Answer(200, Object([result |-> NoHex])),
                Answer(200, Object([result |-> ContractPage(CursorArg)]))}
          \cup {Answer(200, Object([result |-> Response(bad)])) :
                  bad \in BadPages(ContractPage(CursorArg))} :
          TakePage(answer)
    BY <1>3 DEF GetPendingFails
  <2>3. GetPending(answer) = Failed
    <3>1. CASE CallRead(answer) = Failed
      BY <3>1, FailedFails DEF GetPending
    <3>2. CASE answer = Answer(200, Object([result |-> ContractPage(CursorArg)]))
      <4>1. ContractPage(CursorArg) # NoHex /\ TypeOf(ContractPage(CursorArg)) = "tuple"
        BY <1>1, <2>1, ValuesAreHex DEF TypeOf, Tuple
      <4>2. CallRead(answer) = Result(ContractPage(CursorArg))
        BY <3>2, <4>1, CallReadGives
      <4> QED
        BY <4>1, <4>2, ResultSucceeds DEF GetPending
    <3>3. CASE \E bad \in BadPages(ContractPage(CursorArg)) :
                 answer = Answer(200, Object([result |-> Response(bad)]))
      <4>1. PICK bad \in BadPages(ContractPage(CursorArg)) :
              answer = Answer(200, Object([result |-> Response(bad)]))
        BY <3>3
      <4>2. ~ PageParses(bad)
        <5> HIDE DEF rows, next
        <5> QED
          BY <1>1, <2>1, BadPagesDoNotParse
      <4> QED
        BY <4>1, <4>2, PageFails
    <3> QED
      BY <2>2, <3>1, <3>2, <3>3, CallReadFails
  <2>4. LeavePhase
    BY <2>2, <2>3, FailedFails DEF TakePage
  <2> QED
    BY <2>1, <2>4 DEF ReadFails
<1> QED
  BY <1>2, <1>3

-----------------------------------------------------------------------------
\* What the mempool holds is a list of items.
MempoolInv == \A n \in DOMAIN mempool : mempool[n].items \in Seq(Items)

\* Every step keeps it.
LEMMA MempoolInductive ==
  ASSUME Inv, RoundInv, MempoolInv, [Next]_vars
  PROVE  MempoolInv'
<1>1. ASSUME UNCHANGED mempool PROVE MempoolInv'
  BY <1>1 DEF MempoolInv
<1>2. ASSUME mempool' = Unmarked PROVE MempoolInv'
  BY <1>2 DEF MempoolInv, Unmarked
<1>3. ASSUME pc = "submit", NEW batch, Enter(batches[at], batch) PROVE MempoolInv'
  <2>1. batches[at] \in Seq(Items)
    BY <1>3 DEF RoundInv, Cover
  <2>2. mempool' = MapSet(mempool, nonce, [items |-> batches[at], batch |-> batch])
    BY <1>3 DEF Enter
  <2> HIDE DEF Items
  <2> QED
    BY <2>1, <2>2 DEF MempoolInv, MapSet
<1>4. CASE Mine
  <2>1. \A n \in DOMAIN mempool' : n + 1 \in DOMAIN mempool /\ mempool'[n] = mempool[n + 1]
    BY <1>4, MineKeeps
  <2> QED
    BY <2>1 DEF MempoolInv
<1>5. CASE Accepted \/ Rejected \/ Unanswered
  BY <1>1, <1>3, <1>5 DEF Accepted, Rejected, Unanswered, Submission
<1>6. CASE UpdateWalletNonce \/ PinTip \/ FetchPage \/ FetchLastPage
  BY <1>1, <1>2, <1>6 DEF UpdateWalletNonce, PinTip, FetchPage, FetchLastPage
<1>7. CASE ReadFails \/ Restart
  BY <1>1, <1>2, <1>7 DEF ReadFails, Restart
<1>8. CASE \E item \in Items :
             Enlist(item) \/ BecomeDue(item) \/ Delist(item) \/ ServedByOthers(item)
  BY <1>1, <1>8 DEF Enlist, BecomeDue, Delist, ServedByOthers, Event
<1>9. CASE UNCHANGED vars
  BY <1>1, <1>9 DEF vars
<1> QED
  BY <1>4, <1>5, <1>6, <1>7, <1>8, <1>9 DEF Next, Work

\* The transaction of a batch is one the contract understands as the batch,
\* and the node takes it whenever its mempool has room for it.
LEMMA BatchIsRead ==
  ASSUME Inv, RoundInv, MempoolInv, pc = "submit"
  PROVE  /\ CallItems(BatchTx.payload) = batches[at]
         /\ NodeAdmits(BatchTx) <=> Admits(nonce, batches[at])
         /\ NodeAdmits(BatchTx) \in BOOLEAN
<1> DEFINE batch == batches[at]
           call == BatchCall(batch)
           elems == DataOf(call.args[2])
<1>1. /\ phase \in {"claims", "withdrawals"}
      /\ batch \in Seq(PhaseItems(phase)) /\ batch \in Seq(Items)
      /\ Len(batch) \in 1..MaxBatch
      /\ \A k \in DOMAIN batch : ManagerOf[batch[k]] = ManagerOf[batch[1]]
  <2>1. /\ phase \in {"claims", "withdrawals"}
        /\ Cover(batches, view.due) /\ at \in DOMAIN batches
        /\ view.list \in Seq(PhaseItems(phase)) /\ view.due \subseteq ToSet(view.list)
    BY DEF RoundInv
  <2>2. view.due \subseteq PhaseItems(phase)
    BY <2>1 DEF ToSet
  <2>3. /\ batch \in Seq(Items)
        /\ Len(batch) \in 1..MaxBatch
        /\ \A n \in 1..Len(batch) : batch[n] \in view.due
        /\ \E manager \in Managers : \A n \in 1..Len(batch) : ManagerOf[batch[n]] = manager
    BY <2>1 DEF Cover
  <2> HIDE DEF batch
  <2>4. batch \in Seq(PhaseItems(phase))
    BY <2>2, <2>3
  <2>5. 1 \in 1..Len(batch) /\ DOMAIN batch = 1..Len(batch)
    BY <2>3, BatchAssumption
  <2> QED
    BY <2>1, <2>3, <2>4, <2>5
<1>2. \A k \in DOMAIN batch : batch[k] \in PhaseItems(phase) /\ batch[k] \in Items
                             /\ ItemOf(KeyOf(batch[k])) = batch[k]
  <2> HIDE DEF batch
  <2>1. \A k \in DOMAIN batch : batch[k] \in PhaseItems(phase) /\ batch[k] \in Items
    BY <1>1
  <2> QED
    BY <2>1, ItemOfKey
<1>3. /\ BatchTx.payload = call /\ BatchTx.nonce = nonce /\ BatchTx.fee = TxFee(Len(batch))
      /\ IsValid(BatchTx, ChainId)
  <2> DEFINE network == IF IsMainnet(KeeperWallet) THEN "mainnet" ELSE "testnet"
             fee == TxFee(Len(batch))
             unsigned ==
               [version |-> network, chainId |-> KeeperWallet.chainId,
                signer |-> KeeperWallet.key, nonce |-> nonce, fee |-> fee,
                postConditionMode |-> "originator", payload |-> call, signature |-> << >>]
             signature == <<KeeperWallet.key, TxDigest(unsigned)>>
  <2>1. KeeperWallet.chainId = ChainId /\ KeeperWallet.key = PrivateKey
    BY InfoIsRead DEF KeeperWallet, Wallet
  <2>2. BatchTx = [unsigned EXCEPT !.signature = signature]
    BY DEF BatchTx, SignTx
  <2> HIDE DEF signature, call, network, fee
  <2>3. BatchTx = [version |-> network, chainId |-> KeeperWallet.chainId,
                   signer |-> KeeperWallet.key, nonce |-> nonce, fee |-> fee,
                   postConditionMode |-> "originator", payload |-> call,
                   signature |-> signature]
    BY <2>2
  <2>4. [BatchTx EXCEPT !.signature = << >>] = unsigned
    BY <2>3
  <2>5. /\ BatchTx.payload = call /\ BatchTx.nonce = nonce /\ BatchTx.fee = fee
        /\ BatchTx.chainId = KeeperWallet.chainId /\ BatchTx.signer = KeeperWallet.key
        /\ BatchTx.version = network /\ BatchTx.signature = signature
    BY <2>3
  <2> HIDE DEF unsigned
  <2> QED
    BY <2>1, <2>4, <2>5 DEF IsValid, IsMainnet, signature, network, fee
<1>4. TypeChecks(call) /\ CallItems(call) = batch
  <2>1. CASE phase = "claims"
    <3> DEFINE es == [k \in DOMAIN batch |-> Principal(StakerOf[batch[k]])]
    <3>1. /\ call.contract = Registry /\ call.function = "process-reward-claims"
          /\ call.args = <<SignerManagerArg(batch), List(es)>>
      BY <2>1 DEF BatchCall, RewardClaimsBatch, ContractCall
    <3>2. DOMAIN es = DOMAIN batch /\ Len(es) = Len(batch)
          /\ \A k \in DOMAIN batch : es[k] = Principal(StakerOf[batch[k]])
      <4> HIDE DEF batch
      <4> QED
        BY <1>1
    <3> HIDE DEF es, batch, call
    <3>3. /\ TypeOf(call.args[1]) = "callable" /\ call.args[1][2] = ManagerOf[batch[1]]
          /\ TypeOf(call.args[2]) = "list" /\ DataOf(call.args[2]) = es
      BY <3>1 DEF SignerManagerArg, CallableContract, List, TypeOf, DataOf
    <3>4. \A k \in DOMAIN batch : TypeOf(es[k]) = "principal" /\ DataOf(es[k]) = StakerOf[batch[k]]
      BY <3>2 DEF Principal, TypeOf, DataOf
    <3>5. TypeChecks(call)
      BY <1>1, <3>1, <3>2, <3>3, <3>4 DEF TypeChecks
    <3>6. \A k \in DOMAIN batch : KeyOf(batch[k]) = <<StakerOf[batch[k]], ManagerOf[batch[1]]>>
      BY <1>1, <1>2, <2>1 DEF KeyOf, PhaseItems
    <3>7. CallItems(call) = [k \in DOMAIN batch |-> batch[k]]
      BY <1>2, <3>1, <3>2, <3>3, <3>4, <3>6 DEF CallItems
    <3> QED
      BY <1>1, <3>5, <3>7
  <2>2. CASE phase = "withdrawals"
    <3> DEFINE es == [k \in DOMAIN batch |-> WithdrawalItem(batch[k])]
    <3>1. /\ call.contract = Registry /\ call.function = "settle-pending-withdrawals"
          /\ call.args = <<SignerManagerArg(batch), List(es)>>
      BY <2>2 DEF BatchCall, WithdrawalsBatch, ContractCall
    <3>2. DOMAIN es = DOMAIN batch /\ Len(es) = Len(batch)
          /\ \A k \in DOMAIN batch : es[k] = WithdrawalItem(batch[k])
      <4> HIDE DEF batch
      <4> QED
        BY <1>1
    <3> HIDE DEF es, batch, call
    <3>3. /\ TypeOf(call.args[1]) = "callable" /\ call.args[1][2] = ManagerOf[batch[1]]
          /\ TypeOf(call.args[2]) = "list" /\ DataOf(call.args[2]) = es
      BY <3>1 DEF SignerManagerArg, CallableContract, List, TypeOf, DataOf
    <3>4. \A item : /\ Holds(WithdrawalItem(item), "staker", "principal")
                    /\ Holds(WithdrawalItem(item), "requestId", "uint")
                    /\ Field(WithdrawalItem(item), "staker") = StakerOf[item]
                    /\ Field(WithdrawalItem(item), "requestId") = RequestIdOf[item]
      BY DEF WithdrawalItem, Holds, IsTuple, Field, TypeOf, DataOf, Tuple, Principal, UInt
    <3>5. TypeChecks(call)
      BY <1>1, <3>1, <3>2, <3>3, <3>4 DEF TypeChecks
    <3>6. \A k \in DOMAIN batch :
            KeyOf(batch[k]) = <<StakerOf[batch[k]], ManagerOf[batch[1]], RequestIdOf[batch[k]]>>
      BY <1>1, <1>2, <2>2, ItemAssumption DEF KeyOf, PhaseItems
    <3>7. CallItems(call) = [k \in DOMAIN batch |-> batch[k]]
      BY <1>2, <3>1, <3>2, <3>3, <3>4, <3>6 DEF CallItems
    <3> QED
      BY <1>1, <3>5, <3>7
  <2> QED
    BY <1>1, <2>1, <2>2
<1>5. ASSUME nonce \in DOMAIN mempool
      PROVE  TxFee(Len(batch)) > TxFee(Len(mempool[nonce].items))
               <=> Len(batch) > Len(mempool[nonce].items)
  <2>1. Len(mempool[nonce].items) \in Nat
    BY <1>5 DEF MempoolInv
  <2>2. Len(batch) \in Nat
    BY <1>1
  <2> HIDE DEF batch
  <2> QED
    BY <2>1, <2>2 DEF TxFee
<1>6. NodeAdmits(BatchTx) <=> Admits(nonce, batch)
  <2> HIDE DEF batch, call
  <2> QED
    BY <1>3, <1>4, <1>5 DEF NodeAdmits, Admits
<1>7. NodeAdmits(BatchTx) \in BOOLEAN
  BY DEF NodeAdmits
<1> QED
  BY <1>3, <1>4, <1>6, <1>7

\* What a submission is answered is what the service does next.
LEMMA AnswersOfSubmission ==
  /\ SubmitTx(Accepts) = "acceptance" /\ SubmitTx(Rejects) = "rejection"
  /\ \A answer \in BadAnswers : SubmitTx(answer) = "error"
<1>1. SubmitTx(Accepts) = "acceptance"
  <2>1. Accepts.body = String(Txid) /\ String(Txid)[1] # "object"
    BY DEF Accepts, Answer, String
  <2>2. ~ Has(Accepts, TxRejection)
    BY <2>1 DEF Has
  <2> QED
    BY <2>1, <2>2 DEF SubmitTx
<1>2. SubmitTx(Rejects) = "rejection"
  <2> DEFINE error == [error |-> "transaction rejected", reason |-> "reason", txid |-> Txid]
  <2>1. DOMAIN error = TxRejection
    BY DEF TxRejection
  <2> HIDE DEF error
  <2>2. Rejects.body = Object(error)
    BY DEF Rejects, Answer, error
  <2>3. Has(Rejects, TxRejection) /\ Rejects.body # String(Txid)
    BY <2>1, <2>2 DEF Has, Object, String
  <2> QED
    BY <2>3 DEF SubmitTx
<1>3. SubmitTx(NoAnswer) = "error" /\ SubmitTx(Answer(500, Text)) = "error"
      /\ SubmitTx(Answer(200, Text)) = "error"
  BY DEF SubmitTx, NoAnswer, Answer, Text, String, Has
<1>4. SubmitTx(Answer(200, Object([x \in {} |-> x]))) = "error"
  BY DEF SubmitTx, Answer, Object, String, Has, TxRejection
<1> QED
  BY <1>1, <1>2, <1>3, <1>4 DEF BadAnswers

\* So a submission is accepted, rejected or left unanswered.
LEMMA SubmitCallImplements ==
  ASSUME Inv, RoundInv, MempoolInv
  PROVE  /\ CallSubmitTx => Accepted \/ Rejected
         /\ SubmitTxFails => Rejected \/ Unanswered
<1>1. ASSUME NEW taken \in BOOLEAN, NEW answer, Submitted(taken, answer)
      PROVE  /\ Submission
             /\ nonce' = IF SubmitTx(answer) = "acceptance" THEN nonce + 1 ELSE nonce
             /\ ~ taken => UNCHANGED mempool
             /\ taken => mempool' =
                  MapSet(mempool, nonce, [items |-> batches[at],
                                          batch |-> IF SubmitTx(answer) = "acceptance"
                                                    THEN <<phase, at>> ELSE None])
  BY <1>1, BatchIsRead DEF Submitted, Submission, NonceAfter
<1>2. ASSUME CallSubmitTx PROVE Accepted \/ Rejected
  <2>1. pc = "submit" /\ UNCHANGED faults
        /\ Submitted(NodeAdmits(BatchTx), IF NodeAdmits(BatchTx) THEN Accepts ELSE Rejects)
    BY <1>2 DEF CallSubmitTx
  <2>2. CASE NodeAdmits(BatchTx) = TRUE
    <3>1. Submitted(TRUE, Accepts)
      BY <2>1, <2>2
    <3>2. Admits(nonce, batches[at])
      BY <2>1, <2>2, BatchIsRead
    <3> QED
      BY <1>1, <2>1, <3>1, <3>2, AnswersOfSubmission DEF Accepted, Enter
  <2>3. CASE NodeAdmits(BatchTx) = FALSE
    <3>1. Submitted(FALSE, Rejects)
      BY <2>1, <2>3
    <3>2. ~ Admits(nonce, batches[at])
      BY <2>1, <2>3, BatchIsRead
    <3> QED
      BY <1>1, <2>1, <3>1, <3>2, AnswersOfSubmission DEF Rejected
  <2> QED
    BY <2>1, <2>2, <2>3, BatchIsRead
<1>3. ASSUME SubmitTxFails PROVE Rejected \/ Unanswered
  <2>1. pc = "submit" /\ Fault
    BY <1>3 DEF SubmitTxFails
  <2>2. CASE NodeAdmits(BatchTx) /\ Submitted(FALSE, Rejects)
    <3>1. Admits(nonce, batches[at])
      BY <2>1, <2>2, BatchIsRead
    <3> QED
      BY <1>1, <2>1, <2>2, <3>1, AnswersOfSubmission DEF Rejected
  <2>3. ASSUME NEW answer \in BadAnswers, NEW taken \in {FALSE, NodeAdmits(BatchTx)},
               Submitted(taken, answer)
        PROVE  Unanswered
    <3>1. SubmitTx(answer) = "error"
      BY AnswersOfSubmission
    <3>2. CASE taken = FALSE
      BY <1>1, <2>1, <2>3, <3>1, <3>2 DEF Unanswered
    <3>3. CASE taken = TRUE /\ NodeAdmits(BatchTx) = TRUE
      <4>1. Admits(nonce, batches[at])
        BY <2>1, <3>3, BatchIsRead
      <4>2. Submitted(TRUE, answer)
        BY <2>3, <3>3
      <4>3. mempool' = MapSet(mempool, nonce, [items |-> batches[at], batch |-> None])
        BY <1>1, <3>1, <4>2
      <4>4. Submission /\ nonce' = nonce
        BY <1>1, <3>1, <4>2
      <4> QED
        BY <2>1, <4>1, <4>3, <4>4 DEF Unanswered, Enter
    <3>4. NodeAdmits(BatchTx) \in BOOLEAN
      BY <2>1, BatchIsRead
    <3> QED
      BY <3>2, <3>3, <3>4
  <2>4. \/ NodeAdmits(BatchTx) /\ Submitted(FALSE, Rejects)
        \/ \E answer \in BadAnswers, taken \in {FALSE, NodeAdmits(BatchTx)} :
             Submitted(taken, answer)
    BY <1>3 DEF SubmitTxFails
  <2> QED
    BY <2>2, <2>3, <2>4
<1> QED
  BY <1>2, <1>3

-----------------------------------------------------------------------------
\* Every step with the calls is a step of the keeper.
LEMMA CallsStepImplements ==
  ASSUME Inv, RoundInv, MempoolInv, [CallsNext]_vars
  PROVE  [Next]_vars
BY AccountCallImplements, InfoCallImplements, PageCallImplements, SubmitCallImplements
DEF CallsNext, CallsWork, Next, Work

\* The invariants of the keeper hold of the calls.
LEMMA CallsSafe == Init /\ [][CallsNext]_vars => [](Inv /\ ListsInv /\ RoundInv /\ MempoolInv)
<1>1. Init => Inv /\ ListsInv /\ RoundInv /\ MempoolInv
  BY Initial, ListsInitial, RoundInitial DEF Init, MempoolInv
<1>2. Inv /\ ListsInv /\ RoundInv /\ MempoolInv /\ [CallsNext]_vars
        => (Inv /\ ListsInv /\ RoundInv /\ MempoolInv)'
  BY CallsStepImplements, Inductive, ListsInductive, RoundInductive, MempoolInductive
<1> QED
  BY <1>1, <1>2, PTL

\* What goes over the wire changes nothing: every step of KeeperCalls is one of
\* RewardKeeper.
THEOREM CallsImplementKeeper == CallsSpec => ImplementsKeeper
<1>1. Inv /\ RoundInv /\ MempoolInv /\ [CallsNext]_vars => [Next]_vars
  BY CallsStepImplements
<1> QED
  BY <1>1, CallsSafe, PTL DEF CallsSpec, ImplementsKeeper

\* The keeper with its calls implements the keeper without; both are fair to the
\* same actions.
THEOREM CallsRefineKeeper == CallsSpec => Spec
<1>1. CallsSpec => [][Next]_vars
  BY CallsImplementKeeper DEF ImplementsKeeper
<1> QED
  BY <1>1, PTL DEF CallsSpec, Spec
=============================================================================
