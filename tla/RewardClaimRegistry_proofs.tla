----------------------- MODULE RewardClaimRegistry_proofs -----------------------
(***************************************************************************)
(* Invariants of RewardClaimRegistry for every set of principals, stakers, *)
(* signer-managers, inputs and bounds.                                     *)
(*                                                                         *)
(* The type invariant, the soundness of both linked lists, the reentrancy  *)
(* guard and the freshness of the registration copied across a             *)
(* signer-manager call hold together (IInv):                               *)
(*   - a list stays in step with its map because a claim only advances a   *)
(*     registration that is still stored (NoStaleAdvance);                 *)
(*   - the copy stays fresh because every public function that writes      *)
(*     registrations is refused while a signer-manager runs                *)
(*     (GuardMatchesCall).                                                 *)
(*                                                                         *)
(* On these rest, in this order: the escrow and the sponsors' accounts,    *)
(* which are sums over the registrations, with what each registration has  *)
(* claimed so far (MoneyInv, ClockInv, HistoryInv); the settlement of      *)
(* withdrawals; the paged listings; and the list as a queue of keys.       *)
(***************************************************************************)
EXTENDS RewardClaimRegistry, Shared_proofs, SequenceTheorems

-----------------------------------------------------------------------------
(* The list: if the links stand for some sequence of distinct keys, they     *)
(* stand for that sequence with the key added at its end by ll-append, and   *)
(* taken out of it by ll-remove, whatever its length.                        *)

(* Appending a new key adds it after the last one. *)
LEMMA AppendRepresents ==
    ASSUME NEW l, NEW q, NEW n \in Nat, NEW key,
           Represents(l, q, n), key \notin DOMAIN l.links, None \notin DOMAIN l.links, key # None
    PROVE  Represents(ListAppend(l, key), [i \in 1 .. n + 1 |-> IF i = n + 1 THEN key ELSE q[i]],
                      n + 1)
<1> DEFINE r == [i \in 1 .. n + 1 |-> IF i = n + 1 THEN key ELSE q[i]]
           a == ListAppend(l, key)
           added == MapSet(l.links, key, [prev |-> l.tail, next |-> None])
<1> SUFFICES Represents(a, r, n + 1)
  OBVIOUS
<1>1. /\ DOMAIN added = DOMAIN l.links \cup {key}
      /\ added[key] = [prev |-> l.tail, next |-> None]
      /\ \A x \in DOMAIN l.links : added[x] = l.links[x]
  BY DEF MapSet
<1>q. /\ \A i \in 1 .. n : r[i] = q[i] /\ q[i] \in DOMAIN l.links
      /\ r[n + 1] = key
  BY DEF Represents
<1>2. CASE n = 0
  <2>1. l.tail = None /\ DOMAIN l.links = {}
    BY <1>2 DEF Represents
  <2>2. a = [head |-> key, tail |-> key, links |-> added]
    BY <2>1 DEF ListAppend
  <2> QED BY <1>1, <1>2, <1>q, <2>1, <2>2 DEF Represents
<1>3. CASE n # 0
  <2>1. l.tail = q[n] /\ l.tail \in DOMAIN l.links /\ l.tail # None /\ l.tail # key
    BY <1>3, <1>q DEF Represents
  <2> DEFINE t == l.tail
             linked == MapSet(added, t, [prev |-> added[t].prev, next |-> key])
  <2>2. a = [head |-> l.head, tail |-> key, links |-> linked]
    BY <1>1, <2>1 DEF ListAppend, SetNext
  <2>3. /\ DOMAIN linked = DOMAIN l.links \cup {key}
        /\ linked[t] = [prev |-> l.links[t].prev, next |-> key]
        /\ linked[key] = [prev |-> t, next |-> None]
        /\ \A x \in DOMAIN l.links \ {t} : linked[x] = l.links[x]
    <3>1. /\ DOMAIN linked = DOMAIN added \cup {t}
          /\ linked[t] = [prev |-> added[t].prev, next |-> key]
          /\ \A x \in DOMAIN added \ {t} : linked[x] = added[x]
      BY MapSetDef
    <3> QED BY <1>1, <2>1, <3>1
  <2> HIDE DEF linked
  <2>4. \A i, j \in 1 .. n + 1 : r[i] = r[j] => i = j
    BY <1>q DEF Represents
  <2>5. DOMAIN a.links = {r[i] : i \in 1 .. n + 1}
    BY <1>q, <2>2, <2>3 DEF Represents
  <2>6. a.head = r[1] /\ a.tail = r[n + 1]
    BY <1>3, <1>q, <2>2 DEF Represents
  <2>7. ASSUME NEW i \in 1 .. n + 1
        PROVE  a.links[r[i]] = [prev |-> IF i = 1 THEN None ELSE r[i - 1],
                                next |-> IF i = n + 1 THEN None ELSE r[i + 1]]
    <3>1. CASE i = n + 1
      BY <1>3, <1>q, <2>1, <2>2, <2>3, <3>1
    <3>2. CASE i = n
      <4>1. l.links[q[n]] = [prev |-> IF n = 1 THEN None ELSE q[n - 1], next |-> None]
        BY <1>3 DEF Represents
      <4> QED BY <1>3, <1>q, <2>1, <2>2, <2>3, <3>2, <4>1
    <3>3. CASE i \in 1 .. n - 1
      <4>1. l.links[q[i]] = [prev |-> IF i = 1 THEN None ELSE q[i - 1], next |-> q[i + 1]]
        BY <3>3 DEF Represents
      <4>2. q[i] # t
        BY <2>1, <3>3 DEF Represents
      <4>3. r[i] = q[i] /\ r[i + 1] = q[i + 1] /\ (i # 1 => r[i - 1] = q[i - 1]) /\ i # n + 1
        BY <1>q, <3>3
      <4>4. a.links[r[i]] = l.links[q[i]]
        <5>1. a.links[r[i]] = linked[q[i]]
          BY <2>2, <4>3
        <5>2. linked[q[i]] = l.links[q[i]]
          <6>1. i \in 1 .. n
            BY <3>3
          <6> HIDE DEF r, a
          <6>2. q[i] \in DOMAIN l.links
            BY <1>q, <6>1
          <6> QED BY <2>3, <4>2, <6>2
        <5> QED BY <5>1, <5>2
      <4> QED BY <3>3, <4>1, <4>3, <4>4
    <3> QED BY <3>1, <3>2, <3>3
  <2> HIDE DEF r, a
  <2> QED BY <2>4, <2>5, <2>6, <2>7 DEF Represents
<1> QED BY <1>2, <1>3

(* Removing the k-th key closes the gap and keeps the order of the others. *)
LEMMA RemoveRepresents ==
    ASSUME NEW l, NEW q, NEW n \in Nat, NEW k \in 1 .. n,
           Represents(l, q, n), None \notin DOMAIN l.links
    PROVE  Represents(ListRemove(l, q[k]),
                      [i \in 1 .. n - 1 |-> IF i < k THEN q[i] ELSE q[i + 1]], n - 1)
<1> DEFINE key == q[k]
           D == DOMAIN l.links
           r == [i \in 1 .. n - 1 |-> IF i < k THEN q[i] ELSE q[i + 1]]
           a == ListRemove(l, key)
           p == l.links[key].prev
           x == l.links[key].next
           one == IF p = None THEN l.links ELSE SetNext(l.links, p, x)
           two == IF x = None THEN one ELSE SetPrev(one, x, p)
<1> SUFFICES Represents(a, r, n - 1)
  OBVIOUS
<1>q. /\ \A i \in 1 .. n : q[i] \in D /\ q[i] # None
      /\ \A i, j \in 1 .. n : q[i] = q[j] => i = j
      /\ key \in D
  BY DEF Represents
<1>e. \A i \in 1 .. n : l.links[q[i]] = [prev |-> IF i = 1 THEN None ELSE q[i - 1],
                                         next |-> IF i = n THEN None ELSE q[i + 1]]
  BY DEF Represents
<1>k. l.links[key] = [prev |-> IF k = 1 THEN None ELSE q[k - 1],
                      next |-> IF k = n THEN None ELSE q[k + 1]]
  BY <1>e
<1>p. /\ p = IF k = 1 THEN None ELSE q[k - 1]
      /\ x = IF k = n THEN None ELSE q[k + 1]
  BY <1>k
<1>1. a = [head |-> IF p = None THEN x ELSE l.head,
           tail |-> IF x = None THEN p ELSE l.tail,
           links |-> MapDelete(two, key)]
  BY <1>q DEF ListRemove
<1>pd. (k # 1 => p \in D /\ p # None) /\ (k # n => x \in D /\ x # None)
  BY <1>p, <1>q
<1>2. /\ DOMAIN one = D
      /\ \A y \in D : one[y] = IF p # None /\ y = p
                              THEN [prev |-> l.links[y].prev, next |-> x] ELSE l.links[y]
  BY <1>p, <1>pd DEF SetNext, MapSet
<1>3. /\ DOMAIN two = D
      /\ \A y \in D : two[y] = IF x # None /\ y = x
                              THEN [prev |-> p, next |-> one[y].next] ELSE one[y]
  <2> HIDE DEF one
  <2> QED BY <1>2, <1>p, <1>pd DEF SetPrev, MapSet
<1>4. /\ DOMAIN a.links = D \ {key}
      /\ \A y \in D \ {key} : a.links[y] = two[y]
  <2> HIDE DEF two
  <2> QED BY <1>1, <1>3 DEF MapDelete
<1>r. \A i \in 1 .. n - 1 :
         /\ i < k => r[i] = q[i]
         /\ i >= k => r[i] = q[i + 1]
         /\ r[i] \in D \ {key}
  <2>1. \A i \in 1 .. n - 1 : (i < k => r[i] = q[i]) /\ (i >= k => r[i] = q[i + 1])
    OBVIOUS
  <2> QED BY <2>1, <1>q
<1> HIDE DEF one, two, a, p, x, r
<1>n. /\ p = None <=> k = 1
      /\ x = None <=> k = n
      /\ \A i \in 1 .. n : (p # None /\ q[i] = p => i = k - 1) /\ (x # None /\ q[i] = x => i = k + 1)
  BY <1>p, <1>q
<1>o. \A i \in 1 .. n : i # k - 1 => one[q[i]] = l.links[q[i]]
  BY <1>2, <1>n, <1>q
<1>t. \A i \in 1 .. n : i # k + 1 => two[q[i]] = one[q[i]]
  BY <1>3, <1>n, <1>q
<1>5. \A i, j \in 1 .. n - 1 : r[i] = r[j] => i = j
  <2> SUFFICES ASSUME NEW i \in 1 .. n - 1, NEW j \in 1 .. n - 1, r[i] = r[j]
               PROVE  i = j
    OBVIOUS
  <2> DEFINE at(h) == IF h < k THEN h ELSE h + 1
  <2>1. /\ at(i) \in 1 .. n /\ r[i] = q[at(i)]
        /\ at(j) \in 1 .. n /\ r[j] = q[at(j)]
    BY <1>r
  <2>2. at(i) = at(j)
    BY <1>q, <2>1
  <2> QED BY <2>2
<1>6. DOMAIN a.links = {r[i] : i \in 1 .. n - 1}
  <2>1. ASSUME NEW y \in D \ {key}
        PROVE  \E i \in 1 .. n - 1 : y = r[i]
    <3>1. PICK j \in 1 .. n : y = q[j]
      BY DEF Represents
    <3>2. j # k
      BY <3>1
    <3>3. CASE j < k
      <4>1. j \in 1 .. n - 1
        BY <3>3
      <4>2. y = r[j]
        BY <1>r, <3>1, <3>3, <4>1
      <4> QED BY <4>1, <4>2
    <3>4. CASE j > k
      <4>1. j - 1 \in 1 .. n - 1 /\ j - 1 >= k /\ (j - 1) + 1 = j
        BY <3>4
      <4>2. y = r[j - 1]
        BY <1>r, <3>1, <4>1
      <4> QED BY <4>1, <4>2
    <3> QED BY <3>2, <3>3, <3>4
  <2> QED BY <1>4, <1>r, <2>1
<1>7. a.head = IF n - 1 = 0 THEN None ELSE r[1]
  <2>1. l.head = q[1]
    BY DEF Represents
  <2> QED BY <1>1, <1>p, <1>q, <1>pd, <1>r, <2>1
<1>8. a.tail = IF n - 1 = 0 THEN None ELSE r[n - 1]
  <2>1. l.tail = q[n]
    BY DEF Represents
  <2> QED BY <1>1, <1>p, <1>q, <1>pd, <1>r, <2>1
<1>9. ASSUME NEW i \in 1 .. n - 1
      PROVE  a.links[r[i]] = [prev |-> IF i = 1 THEN None ELSE r[i - 1],
                              next |-> IF i = n - 1 THEN None ELSE r[i + 1]]
  <2>1. a.links[r[i]] = two[r[i]]
    BY <1>4, <1>r
  <2>2. CASE i < k
    <3>1. r[i] = q[i] /\ (i # 1 => r[i - 1] = q[i - 1])
      BY <1>r, <2>2
    <3>2. two[q[i]] = one[q[i]]
      BY <1>t, <2>2
    <3>3. CASE i = k - 1
      <4>1. one[q[i]] = [prev |-> l.links[q[i]].prev, next |-> x]
        BY <1>2, <1>p, <1>pd, <1>q, <3>3
      <4>2. x = IF i = n - 1 THEN None ELSE r[i + 1]
        BY <1>p, <1>r, <3>3
      <4>3. l.links[q[i]] = [prev |-> IF i = 1 THEN None ELSE q[i - 1], next |-> q[i + 1]]
        BY <1>e, <3>3
      <4>4. l.links[q[i]].prev = IF i = 1 THEN None ELSE r[i - 1]
        BY <3>1, <4>3
      <4>5. a.links[r[i]] = [prev |-> l.links[q[i]].prev, next |-> x]
        BY <2>1, <3>1, <3>2, <4>1
      <4> QED BY <4>2, <4>4, <4>5
    <3>4. CASE i < k - 1
      <4>1. one[q[i]] = l.links[q[i]]
        BY <1>o, <3>4
      <4>2. r[i + 1] = q[i + 1] /\ i # n - 1 /\ i # n
        BY <1>r, <3>4
      <4> QED BY <1>e, <2>1, <3>1, <3>2, <4>1, <4>2
    <3> QED BY <2>2, <3>3, <3>4
  <2>3. CASE i >= k
    <3>1. r[i] = q[i + 1] /\ i + 1 \in 1 .. n /\ (i # n - 1 => r[i + 1] = q[i + 2])
      BY <1>r, <2>3
    <3>2. one[q[i + 1]] = l.links[q[i + 1]]
      BY <1>o, <2>3, <3>1
    <3>e. l.links[q[i + 1]] = [prev |-> q[i], next |-> IF i = n - 1 THEN None ELSE q[i + 2]]
      BY <1>e, <3>1
    <3>3. l.links[q[i + 1]].next = IF i = n - 1 THEN None ELSE r[i + 1]
      BY <3>e, <3>1
    <3>4. CASE i = k
      <4>1. two[q[i + 1]] = [prev |-> p, next |-> l.links[q[i + 1]].next]
        BY <1>3, <1>p, <1>pd, <1>q, <3>1, <3>2, <3>4
      <4>2. p = IF i = 1 THEN None ELSE r[i - 1]
        BY <1>p, <1>r, <3>4
      <4> QED BY <2>1, <3>1, <3>3, <4>1, <4>2
    <3>5. CASE i > k
      <4>1. two[q[i + 1]] = l.links[q[i + 1]]
        BY <1>t, <3>1, <3>2, <3>5
      <4>3. r[i - 1] = q[i] /\ i # 1
        BY <1>r, <3>5
      <4> QED BY <2>1, <3>1, <3>e, <4>1, <4>3
    <3> QED BY <2>3, <3>4, <3>5
  <2> QED BY <2>2, <2>3
<1> QED BY <1>5, <1>6, <1>7, <1>8, <1>9 DEF Represents

-----------------------------------------------------------------------------
(* ll-append of an absent key: the list stays well formed and gains the key. *)
LEMMA AppendWellFormed ==
    ASSUME NEW K, None \notin K, NEW l, IsList(l, K), WellFormed(l),
           NEW key \in K, key \notin DOMAIN l.links
    PROVE  /\ IsList(ListAppend(l, key), K)
           /\ WellFormed(ListAppend(l, key))
           /\ DOMAIN ListAppend(l, key).links = DOMAIN l.links \cup {key}
<1> DEFINE D == DOMAIN l.links
           n == Cardinality(D)
           a == ListAppend(l, key)
<1>0. D \subseteq K /\ None \notin D /\ key # None /\ IsFiniteSet(D)
  BY DEF IsList, IsMap, WellFormed
<1>1. n \in Nat
  BY <1>0, FS_CardinalityType
<1>2. PICK q \in [1 .. n -> D] : Represents(l, q, n)
  BY DEF WellFormed
<1> DEFINE r == [i \in 1 .. n + 1 |-> IF i = n + 1 THEN key ELSE q[i]]
<1>3. Represents(a, r, n + 1)
  BY <1>0, <1>1, <1>2, AppendRepresents
<1>4. DOMAIN a.links = D \cup {key}
  BY <1>0 DEF ListAppend, SetNext, MapSet
<1>5. IsFiniteSet(D \cup {key}) /\ Cardinality(D \cup {key}) = n + 1
  BY <1>0, FS_AddElement
<1>6. r \in [1 .. n + 1 -> D \cup {key}]
  BY <1>1
<1>7. WellFormed(a)
  <2> HIDE DEF a, r, n, D
  <2> QED BY <1>3, <1>4, <1>5, <1>6 DEF WellFormed
<1>8. IsList(a, K)
  <2> DEFINE added == MapSet(l.links, key, [prev |-> l.tail, next |-> None])
             new == IF l.tail = None THEN added ELSE SetNext(added, l.tail, key)
  <2>1. IsMap(added, K, LinkSets(K))
    <3>1. [prev |-> l.tail, next |-> None] \in LinkSets(K)
      BY DEF LinkSets, IsList
    <3> QED BY <3>1, MapSetType DEF IsList
  <2>2. IsMap(new, K, LinkSets(K))
    <3> HIDE DEF added
    <3>1. CASE l.tail \in DOMAIN added
      <4>1. added[l.tail] \in LinkSets(K)
        BY <2>1, <3>1 DEF IsMap
      <4>2. [prev |-> added[l.tail].prev, next |-> key] \in LinkSets(K)
        BY <4>1 DEF LinkSets
      <4>3. l.tail \in K
        BY <2>1, <3>1 DEF IsMap
      <4> QED BY <2>1, <4>2, <4>3, MapSetType DEF SetNext
    <3> QED BY <2>1, <3>1 DEF SetNext
  <2>3. a = [head |-> IF l.tail = None THEN key ELSE l.head, tail |-> key, links |-> new]
    BY DEF ListAppend
  <2> HIDE DEF new, a
  <2> QED BY <2>2, <2>3 DEF IsList
<1> QED BY <1>4, <1>7, <1>8

(* ll-remove of any key: the list stays well formed and loses the key. *)
LEMMA RemoveWellFormed ==
    ASSUME NEW K, None \notin K, NEW l, IsList(l, K), WellFormed(l), NEW key
    PROVE  /\ IsList(ListRemove(l, key), K)
           /\ WellFormed(ListRemove(l, key))
           /\ DOMAIN ListRemove(l, key).links = DOMAIN l.links \ {key}
<1> DEFINE D == DOMAIN l.links
           n == Cardinality(D)
           a == ListRemove(l, key)
<1>0. D \subseteq K /\ None \notin D /\ IsFiniteSet(D)
  BY DEF IsList, IsMap, WellFormed
<1>1. n \in Nat
  BY <1>0, FS_CardinalityType
<1>2. PICK q \in [1 .. n -> D] : Represents(l, q, n)
  BY DEF WellFormed
<1>3. CASE key \notin D
  BY <1>3 DEF ListRemove
<1>4. CASE key \in D
  <2>1. PICK k \in 1 .. n : key = q[k]
    BY <1>2, <1>4 DEF Represents
  <2> DEFINE r == [i \in 1 .. n - 1 |-> IF i < k THEN q[i] ELSE q[i + 1]]
  <2>2. Represents(a, r, n - 1)
    BY <1>0, <1>1, <1>2, <2>1, RemoveRepresents
  <2> DEFINE p == l.links[key].prev
             x == l.links[key].next
             one == IF p = None THEN l.links ELSE SetNext(l.links, p, x)
             two == IF x = None THEN one ELSE SetPrev(one, x, p)
  <2>3. a = [head |-> IF p = None THEN x ELSE l.head,
             tail |-> IF x = None THEN p ELSE l.tail,
             links |-> MapDelete(two, key)]
    BY <1>4 DEF ListRemove
  <2>4. p \in K \cup {None} /\ x \in K \cup {None}
    <3>1. l.links[key] \in LinkSets(K)
      BY <1>4 DEF IsList, IsMap
    <3> QED BY <3>1 DEF LinkSets
  <2> HIDE DEF p, x
  <2>5. DOMAIN one = D /\ IsMap(one, K, LinkSets(K))
    <3>1. CASE p \in D
      <4>1. l.links[p] \in LinkSets(K)
        BY <3>1 DEF IsList, IsMap
      <4>2. [prev |-> l.links[p].prev, next |-> x] \in LinkSets(K)
        BY <2>4, <4>1 DEF LinkSets
      <4>3. p \in K
        BY <1>0, <3>1
      <4>4. IsMap(MapSet(l.links, p, [prev |-> l.links[p].prev, next |-> x]), K, LinkSets(K))
        BY <4>2, <4>3, MapSetType DEF IsList
      <4> QED BY <3>1, <4>4 DEF SetNext, MapSet, IsList
    <3>2. CASE p \notin D
      BY <3>2 DEF SetNext, IsList
    <3> QED BY <3>1, <3>2
  <2> HIDE DEF one
  <2>6. DOMAIN two = D /\ IsMap(two, K, LinkSets(K))
    <3>1. CASE x \in D
      <4>1. one[x] \in LinkSets(K)
        BY <2>5, <3>1 DEF IsMap
      <4>2. [prev |-> p, next |-> one[x].next] \in LinkSets(K)
        BY <2>4, <4>1 DEF LinkSets
      <4>3. x \in K
        BY <1>0, <3>1
      <4>4. IsMap(MapSet(one, x, [prev |-> p, next |-> one[x].next]), K, LinkSets(K))
        BY <2>5, <4>2, <4>3, MapSetType
      <4> QED BY <2>5, <3>1, <4>4 DEF SetPrev, MapSet
    <3>2. CASE x \notin D
      BY <2>5, <3>2 DEF SetPrev
    <3> QED BY <3>1, <3>2
  <2> HIDE DEF two
  <2>7. DOMAIN a.links = D \ {key}
    <3> HIDE DEF a
    <3> QED BY <2>3, <2>6 DEF MapDelete
  <2>8. IsFiniteSet(D \ {key}) /\ Cardinality(D \ {key}) = n - 1
    BY <1>0, <1>4, FS_RemoveElement
  <2>9. r \in [1 .. n - 1 -> D \ {key}]
    <3>1. \A i \in 1 .. n - 1 : r[i] \in DOMAIN a.links
      <4> HIDE DEF r, a
      <4> QED BY <2>2 DEF Represents
    <3> QED BY <2>7, <3>1
  <2>10. WellFormed(a)
    <3> HIDE DEF a, r, n, D
    <3> QED BY <2>2, <2>7, <2>8, <2>9 DEF WellFormed
  <2>11. IsList(a, K)
    <3>1. IsMap(MapDelete(two, key), K, LinkSets(K))
      BY <2>6, MapDeleteType
    <3>2. l.head \in K \cup {None} /\ l.tail \in K \cup {None}
      BY DEF IsList
    <3> HIDE DEF a
    <3> QED BY <2>3, <2>4, <3>1, <3>2 DEF IsList
  <2> QED BY <2>7, <2>10, <2>11
<1> QED BY <1>3, <1>4

(* The empty list is well formed. *)
LEMMA EmptyWellFormed ==
    ASSUME NEW K
    PROVE  IsList(EmptyList, K) /\ WellFormed(EmptyList) /\ DOMAIN EmptyList.links = {}
<1>1. IsList(EmptyList, K) /\ DOMAIN EmptyList.links = {}
  BY DEF EmptyList, EmptyMap, IsList, IsMap
<1>2. Cardinality({}) = 0 /\ IsFiniteSet({})
  BY FS_EmptySet
<1>3. PICK q : q \in [1 .. 0 -> {}]
  <2>1. [i \in 1 .. 0 |-> i] \in [1 .. 0 -> {}]
    OBVIOUS
  <2> QED BY <2>1
<1>4. Represents(EmptyList, q, 0)
  BY <1>1 DEF Represents, EmptyList
<1> QED BY <1>1, <1>2, <1>3, <1>4 DEF WellFormed

-----------------------------------------------------------------------------
(* The arithmetic of the claim schedule and of the escrow, for every cycle,  *)
(* cadence, escrow and number of installments.                               *)

(* A registration starts in the reward cycle it names; with                *)
(* one-claim-per-reward-cycle, in its second half.                         *)
LEMMA InitialInStartCycle ==
    ASSUME NEW start \in Nat, NEW one \in BOOLEAN
    PROVE  /\ InitialNextClaimDistribution(start, one) \in Nat
           /\ RewardCycle(InitialNextClaimDistribution(start, one)) = start
           /\ one => InitialNextClaimDistribution(start, one) % 2 = 1
BY DEF InitialNextClaimDistribution, ClaimStep, RewardCycle

(* The schedule moves forward. *)
LEMMA NextClaimGrows ==
    ASSUME NEW d \in Nat, NEW one \in BOOLEAN, NEW current \in Nat
    PROVE  NextClaimAfter(d, one, current) \in Nat /\ NextClaimAfter(d, one, current) > d
BY DEF NextClaimAfter, RewardCycle

(* With one-claim-per-reward-cycle the next claim is in the second half of  *)
(* the next reward cycle.                                                  *)
LEMMA NextClaimOncePerCycle ==
    ASSUME NEW d \in Nat, d % 2 = 1, NEW current \in Nat
    PROVE  /\ NextClaimAfter(d, TRUE, current) % 2 = 1
           /\ RewardCycle(NextClaimAfter(d, TRUE, current)) = RewardCycle(d) + 1
BY DEF NextClaimAfter, RewardCycle

(* Without it, the catch-up jump skips at most the second half of the       *)
(* claimed reward cycle and never goes past the current distribution.      *)
LEMMA CatchUpIsBounded ==
    ASSUME NEW d \in Nat, NEW current \in Nat, d < current
    PROVE  /\ NextClaimAfter(d, FALSE, current) \in d + 1 .. d + 2
           /\ NextClaimAfter(d, FALSE, current) <= current
           /\ NextClaimAfter(d, FALSE, current) = d + 2 => d % 2 = 0
BY DEF NextClaimAfter, RewardCycle

(* One installment is at most the escrow. *)
LEMMA BurnWithinEscrow ==
    ASSUME NEW prepaid \in Nat, NEW remaining \in Nat
    PROVE  BurnAmount(prepaid, remaining) \in 0 .. prepaid
<1>1. CASE remaining <= 1
  BY <1>1 DEF BurnAmount
<1>2. CASE remaining > 1
  <2> DEFINE b == prepaid \div remaining
  <2>1. b \in Int /\ remaining * b <= prepaid /\ prepaid < remaining * (b + 1)
    BY <1>2
  <2>2. b >= 0
    BY <1>2
  <2>3. b <= prepaid
    BY <1>2
  <2> QED BY <1>2, <2>1, <2>2, <2>3 DEF BurnAmount
<1> QED BY <1>1, <1>2

(* A claim leaves at least its share to each remaining installment. *)
LEMMA BurnKeepsShare ==
    ASSUME NEW prepaid \in Nat, NEW remaining \in Nat, remaining > 0
    PROVE  (prepaid - BurnAmount(prepaid, remaining)) * remaining >= prepaid * (remaining - 1)
<1>1. CASE remaining <= 1
  <2>1. remaining = 1
    BY <1>1
  <2> QED BY <2>1 DEF BurnAmount
<1>2. CASE remaining > 1
  <2> DEFINE b == prepaid \div remaining
  <2>1. b \in Int /\ b * remaining <= prepaid
    BY <1>2
  <2>2. (prepaid - b) * remaining = prepaid * remaining - b * remaining
    BY <1>2, <2>1
  <2>3. prepaid * (remaining - 1) = prepaid * remaining - prepaid
    OBVIOUS
  <2>4. BurnAmount(prepaid, remaining) = b
    BY <1>2 DEF BurnAmount
  <2> HIDE DEF b
  <2>5. prepaid * remaining \in Int /\ b * remaining \in Int
    BY <2>1
  <2> QED BY <2>1, <2>2, <2>3, <2>4, <2>5
<1> QED BY <1>1, <1>2

-----------------------------------------------------------------------------
(* The contract. *)

RegistrationInv == RegistrationTypes /\ RegistrationListSound
WithdrawalInv == WithdrawalTypes /\ WithdrawalListSound
CallInv == CallTypes /\ GuardMatchesCall /\ NoStaleAdvance

IInv ==
    /\ RegistrationInv
    /\ WithdrawalInv
    /\ AdminTypes
    /\ LedgerTypes
    /\ CallInv
    /\ ExternalTypes

-----------------------------------------------------------------------------
(* The fields of the transaction in each of its phases. *)
LEMMA TransactionShape ==
    ASSUME tx \in Transactions
    PROVE  /\ tx.phase \in {"idle", "registers", "cancels", "claims", "pull", "claim", "settles",
                            "settle"}
           /\ tx.phase = "registers" =>
                 tx \in [phase : {"registers"}, sender : Principals,
                         signerManager : SignerManagers, todo : Seq(Entry)]
           /\ tx.phase = "cancels" =>
                 tx \in [phase : {"cancels"}, sender : Principals,
                         signerManager : SignerManagers, todo : Seq(Stakers)]
           /\ tx.phase = "claims" =>
                 tx \in [phase : {"claims"}, signerManager : SignerManagers,
                         todo : Seq(Stakers), current : Nat, computed : Computed]
           /\ tx.phase \in {"pull", "claim"} =>
                 tx \in [phase : {"pull", "claim"}, signerManager : SignerManagers,
                         todo : Seq(Stakers) \ {<<>>}, current : Nat, computed : Computed,
                         registration : Registration]
           /\ tx.phase = "settles" =>
                 tx \in [phase : {"settles"}, signerManager : SignerManagers,
                         todo : Seq(Settlement)]
           /\ tx.phase = "settle" =>
                 tx \in [phase : {"settle"}, signerManager : SignerManagers,
                         todo : Seq(Settlement) \ {<<>>}]
BY DEF Transactions, Idle

(* What is escrowed is a natural number. *)
LEMMA EscrowAmountType ==
    ASSUME AdminTypes, NEW sender, NEW n \in Nat
    PROVE  EscrowAmount(sender, n) \in Nat
BY InputsAssumption DEF AdminTypes, EscrowAmount

LEMMA KeyType ==
    ASSUME NEW staker \in Stakers, NEW sm \in SignerManagers
    PROVE  KeyOf(staker, sm) \in Key
BY DEF KeyOf, Key

(* Escrowing a fee the sender can pay keeps the ledger's types. *)
LEMMA EscrowKeepsTypes ==
    ASSUME AdminTypes, LedgerTypes, NEW sender \in Principals, NEW n \in Nat,
           CanEscrow(sender, n), EscrowRegistrationFee(sender, n)
    PROVE  LedgerTypes'
<1>1. EscrowAmount(sender, n) \in Nat
  BY EscrowAmountType
<1> QED BY <1>1 DEF LedgerTypes, CanEscrow, EscrowRegistrationFee

(* register-for-claims-impl keeps the maps, the list and the ledger. *)
LEMMA RegisterKeeps ==
    ASSUME IInv, NEW sender \in Principals, NEW sm \in SignerManagers, NEW entry \in Entry,
           AcceptsRegistration(sender, sm, entry), RegisterForClaimsImpl(sender, sm, entry)
    PROVE  RegistrationInv' /\ LedgerTypes'
<1> DEFINE key == KeyOf(entry.staker, sm)
           position == GetPosition(entry.staker)
           new == [bondIndex |-> position.bondIndex,
                   remainingClaims |-> entry.numClaims,
                   oneClaimPerRewardCycle |-> entry.oneClaimPerRewardCycle,
                   nextClaimDistribution |->
                       InitialNextClaimDistribution(entry.startRewardCycle,
                                                    entry.oneClaimPerRewardCycle),
                   prepaidUstx |-> EscrowAmount(sender, entry.numClaims),
                   sponsor |-> sender]
<1>e. /\ entry.staker \in Stakers /\ entry.startRewardCycle \in Nat
      /\ entry.oneClaimPerRewardCycle \in BOOLEAN /\ entry.numClaims \in Nat
  BY DEF Entry
<1>k. key \in Key
  BY <1>e, KeyType
<1>p. position.bondIndex \in BondIndexes \cup {None}
  <2>1. pox[entry.staker] \in [bond : Position \cup {None}, stake : Position \cup {None}]
    BY <1>e, InputsAssumption DEF IInv, ExternalTypes
  <2>2. position \in Position
    BY <2>1 DEF GetPosition, AcceptsRegistration
  <2> QED BY <2>2 DEF Position
<1>n. new \in Registration
  <2>1. EscrowAmount(sender, entry.numClaims) \in Nat
    BY <1>e, EscrowAmountType DEF IInv
  <2>2. InitialNextClaimDistribution(entry.startRewardCycle, entry.oneClaimPerRewardCycle) \in Nat
    BY <1>e, InitialInStartCycle
  <2> HIDE DEF position
  <2> QED BY <1>e, <1>p, <2>1, <2>2 DEF Registration
<1>1. registrations' = MapSet(registrations, key, new)
  BY DEF RegisterForClaimsImpl
<1> HIDE DEF new
<1>2. registrationLL' = ListAppend(registrationLL, key) /\ key \notin DOMAIN registrations
  BY DEF RegisterForClaimsImpl, AcceptsRegistration
<1>3. IsMap(registrations', Key, Registration)
  BY <1>k, <1>n, <1>1, MapSetType DEF IInv, RegistrationInv, RegistrationTypes
<1>4. /\ IsList(registrationLL', Key) /\ WellFormed(registrationLL')
      /\ DOMAIN registrationLL'.links = DOMAIN registrationLL.links \cup {key}
  BY <1>k, <1>2, AppendWellFormed, NoneAssumption
     DEF IInv, RegistrationInv, RegistrationTypes, RegistrationListSound
<1>5. DOMAIN registrations' = DOMAIN registrations \cup {key}
  BY <1>1, MapSetDef
<1>6. IsMap(history', Key, [bought : Nat, served : SUBSET Nat, oneClaimPerRewardCycle : BOOLEAN])
  <2>1. [bought |-> entry.numClaims, served |-> {},
         oneClaimPerRewardCycle |-> entry.oneClaimPerRewardCycle]
           \in [bought : Nat, served : SUBSET Nat, oneClaimPerRewardCycle : BOOLEAN]
    BY <1>e
  <2> QED BY <1>k, <2>1, MapSetType
          DEF IInv, RegistrationInv, RegistrationTypes, RegisterForClaimsImpl
<1>7. maxProcessed' = maxProcessed
  BY DEF RegisterForClaimsImpl
<1>8. LedgerTypes'
  BY <1>e, EscrowKeepsTypes DEF IInv, RegisterForClaimsImpl, AcceptsRegistration
<1> QED BY <1>3, <1>4, <1>5, <1>6, <1>7, <1>8
        DEF IInv, RegistrationInv, RegistrationTypes, RegistrationListSound

(* cancel-registration-impl keeps the maps, the list and the ledger. *)
LEMMA CancelKeeps ==
    ASSUME IInv, NEW sender, NEW key \in Key, MayCancel(sender, key),
           CancelRegistrationImpl(sender, key)
    PROVE  RegistrationInv' /\ LedgerTypes'
<1>1. registrations' = MapDelete(registrations, key)
      /\ registrationLL' = ListRemove(registrationLL, key)
      /\ UNCHANGED <<burned, maxProcessed, history>>
  BY DEF CancelRegistrationImpl
<1>2. IsMap(registrations', Key, Registration) /\ DOMAIN registrations' = DOMAIN registrations \ {key}
  BY <1>1, MapDeleteType, MapDeleteDef DEF IInv, RegistrationInv, RegistrationTypes
<1>3. /\ IsList(registrationLL', Key) /\ WellFormed(registrationLL')
      /\ DOMAIN registrationLL'.links = DOMAIN registrationLL.links \ {key}
  BY <1>1, RemoveWellFormed, NoneAssumption
     DEF IInv, RegistrationInv, RegistrationTypes, RegistrationListSound
<1>4. LedgerTypes'
  <2>1. registrations[key] \in Registration
    BY DEF IInv, RegistrationInv, RegistrationTypes, IsMap, MayCancel
  <2>2. registrations[key].prepaidUstx \in Nat /\ registrations[key].sponsor \in Principals
    BY <2>1 DEF Registration
  <2> QED BY <2>2 DEF IInv, LedgerTypes, CancelRegistrationImpl, RefundTo
<1> QED BY <1>1, <1>2, <1>3, <1>4 DEF IInv, RegistrationInv, RegistrationTypes, RegistrationListSound

(* advance-registration keeps the maps, the list and the ledger.  It writes *)
(* a key that is stored, so list and map keep the same keys.               *)
LEMMA AdvanceKeeps ==
    ASSUME IInv, NEW key \in DOMAIN registrations, NEW current \in Nat,
           AdvanceRegistration(key, registrations[key], current)
    PROVE  RegistrationInv' /\ LedgerTypes'
<1> DEFINE r == registrations[key]
           burn == BurnAmount(r.prepaidUstx, r.remainingClaims)
<1>r. key \in Key /\ key.staker \in Stakers /\ r \in Registration
  BY DEF IInv, RegistrationInv, RegistrationTypes, IsMap, Key
<1>f. /\ r.remainingClaims \in Nat /\ r.prepaidUstx \in Nat /\ r.nextClaimDistribution \in Nat
      /\ r.oneClaimPerRewardCycle \in BOOLEAN /\ r.sponsor \in Principals
  BY <1>r DEF Registration
<1>b. burn \in Nat /\ burn <= r.prepaidUstx
  <2>1. burn \in 0 .. r.prepaidUstx
    BY <1>f, BurnWithinEscrow
  <2> QED BY <1>f, <2>1
<1>1. IsMap(maxProcessed', Stakers, Nat)
  <2>1. IF key.staker \in DOMAIN maxProcessed
        THEN RaiseTo(maxProcessed[key.staker], r.nextClaimDistribution) \in Nat
        ELSE r.nextClaimDistribution \in Nat
    BY <1>f DEF IInv, RegistrationInv, RegistrationTypes, IsMap, RaiseTo
  <2> QED BY <1>r, <2>1, MapSetType
          DEF AdvanceRegistration, RecordMaxProcessedDistribution, IInv, RegistrationInv,
              RegistrationTypes
<1>2. CASE burn > escrow
  <2>1. UNCHANGED <<registrations, registrationLL, history, escrow, burned, stx>>
    BY <1>2 DEF AdvanceRegistration
  <2> QED BY <1>1, <2>1 DEF IInv, RegistrationInv, RegistrationTypes, RegistrationListSound,
                             LedgerTypes
<1>3. CASE ~(burn > escrow)
  <2>1. LedgerTypes'
    BY <1>3, <1>b, <1>f DEF AdvanceRegistration, IInv, LedgerTypes
  <2>2. IsMap(history', Key, [bought : Nat, served : SUBSET Nat, oneClaimPerRewardCycle : BOOLEAN])
    <3> DEFINE H == [bought : Nat, served : SUBSET Nat, oneClaimPerRewardCycle : BOOLEAN]
    <3>1. history' = [history EXCEPT ![key].served = @ \cup {r.nextClaimDistribution}]
      BY <1>3 DEF AdvanceRegistration
    <3>2. history \in [DOMAIN history -> H] /\ DOMAIN history \subseteq Key
      BY DEF IInv, RegistrationInv, RegistrationTypes, IsMap
    <3>3. ASSUME key \in DOMAIN history
          PROVE  [history[key] EXCEPT !.served = @ \cup {r.nextClaimDistribution}] \in H
      BY <1>f, <3>2, <3>3
    <3> HIDE DEF H
    <3>4. history' \in [DOMAIN history -> H]
      BY <3>1, <3>2, <3>3
    <3> QED BY <3>2, <3>4 DEF IsMap, H
  <2>3. CASE r.remainingClaims <= 1
    <3>1. registrations' = MapDelete(registrations, key)
          /\ registrationLL' = ListRemove(registrationLL, key)
      BY <1>3, <2>3 DEF AdvanceRegistration
    <3>2. IsMap(registrations', Key, Registration)
          /\ DOMAIN registrations' = DOMAIN registrations \ {key}
      BY <3>1, MapDeleteType, MapDeleteDef DEF IInv, RegistrationInv, RegistrationTypes
    <3>3. /\ IsList(registrationLL', Key) /\ WellFormed(registrationLL')
          /\ DOMAIN registrationLL'.links = DOMAIN registrationLL.links \ {key}
      BY <3>1, RemoveWellFormed, NoneAssumption
         DEF IInv, RegistrationInv, RegistrationTypes, RegistrationListSound
    <3> QED BY <1>1, <2>1, <2>2, <3>2, <3>3
            DEF IInv, RegistrationInv, RegistrationTypes, RegistrationListSound
  <2>4. CASE r.remainingClaims > 1
    <3>1. registrations' = MapSet(registrations, key, Advanced(r, current))
          /\ registrationLL' = registrationLL
      BY <1>3, <1>f, <2>4 DEF AdvanceRegistration
    <3>2. Advanced(r, current) \in Registration
      <4>1. r.prepaidUstx - burn \in Nat /\ r.remainingClaims - 1 \in Nat
        BY <1>b, <1>f, <2>4
      <4>2. NextClaimAfter(r.nextClaimDistribution, r.oneClaimPerRewardCycle, current) \in Nat
        BY <1>f, NextClaimGrows
      <4> QED BY <1>r, <4>1, <4>2 DEF Advanced, Registration
    <3>3. IsMap(registrations', Key, Registration) /\ DOMAIN registrations' = DOMAIN registrations
      <4>1. IsMap(registrations', Key, Registration)
        BY <1>r, <3>1, <3>2, MapSetType DEF IInv, RegistrationInv, RegistrationTypes
      <4>2. DOMAIN registrations' = DOMAIN registrations \cup {key}
        BY <3>1, MapSetDef
      <4> QED BY <4>1, <4>2
    <3> QED BY <1>1, <2>1, <2>2, <3>1, <3>3
            DEF IInv, RegistrationInv, RegistrationTypes, RegistrationListSound
  <2> QED BY <1>f, <2>3, <2>4
<1> QED BY <1>2, <1>3

(* append-pending-withdrawal and remove-pending-withdrawal keep the index. *)
LEMMA AppendPendingKeeps ==
    ASSUME IInv, NEW key \in Key, NEW id \in RequestIds, AppendPendingWithdrawal(key, id)
    PROVE  WithdrawalInv'
<1> DEFINE k == WithdrawalKeyOf(key, id)
<1>1. k \in WithdrawalKey
  BY DEF WithdrawalKeyOf, WithdrawalKey, Key
<1>2. CASE IsTrackableWithdrawal(id) /\ k \notin DOMAIN pendingWithdrawals
  <2>1. /\ pendingWithdrawals' = MapSet(pendingWithdrawals, k, burnHeight)
        /\ withdrawalLL' = ListAppend(withdrawalLL, k) /\ settled' = settled
    BY <1>2 DEF AppendPendingWithdrawal
  <2>2. IsMap(pendingWithdrawals', WithdrawalKey, Nat)
        /\ DOMAIN pendingWithdrawals' = DOMAIN pendingWithdrawals \cup {k}
    BY <1>1, <2>1, MapSetType, MapSetDef
       DEF IInv, WithdrawalInv, WithdrawalTypes, ExternalTypes
  <2>3. /\ IsList(withdrawalLL', WithdrawalKey) /\ WellFormed(withdrawalLL')
        /\ DOMAIN withdrawalLL'.links = DOMAIN withdrawalLL.links \cup {k}
    BY <1>1, <1>2, <2>1, AppendWellFormed, NoneAssumption
       DEF IInv, WithdrawalInv, WithdrawalTypes, WithdrawalListSound
  <2> QED BY <2>1, <2>2, <2>3 DEF IInv, WithdrawalInv, WithdrawalTypes, WithdrawalListSound
<1>3. CASE ~(IsTrackableWithdrawal(id) /\ k \notin DOMAIN pendingWithdrawals)
  <2>1. UNCHANGED withdrawalVars
    BY <1>3 DEF AppendPendingWithdrawal, withdrawalVars
  <2> QED BY <2>1 DEF IInv, WithdrawalInv, WithdrawalTypes, WithdrawalListSound, withdrawalVars
<1> QED BY <1>2, <1>3

LEMMA RemovePendingKeeps ==
    ASSUME IInv, NEW key, RemovePendingWithdrawal(key), settled' = settled
    PROVE  WithdrawalInv'
<1>1. IsMap(pendingWithdrawals', WithdrawalKey, Nat)
      /\ DOMAIN pendingWithdrawals' = DOMAIN pendingWithdrawals \ {key}
  BY MapDeleteType, MapDeleteDef
     DEF IInv, WithdrawalInv, WithdrawalTypes, RemovePendingWithdrawal
<1>2. /\ IsList(withdrawalLL', WithdrawalKey) /\ WellFormed(withdrawalLL')
      /\ DOMAIN withdrawalLL'.links = DOMAIN withdrawalLL.links \ {key}
  BY RemoveWellFormed, NoneAssumption
     DEF IInv, WithdrawalInv, WithdrawalTypes, WithdrawalListSound, RemovePendingWithdrawal
<1> QED BY <1>1, <1>2 DEF IInv, WithdrawalInv, WithdrawalTypes, WithdrawalListSound

-----------------------------------------------------------------------------
(* A part of the state that a step leaves alone keeps its part of IInv. *)
LEMMA Frames ==
    ASSUME IInv
    PROVE  /\ UNCHANGED registrationVars => RegistrationInv'
           /\ UNCHANGED withdrawalVars => WithdrawalInv'
           /\ UNCHANGED adminVars => AdminTypes'
           /\ UNCHANGED ledgerVars => LedgerTypes'
           /\ UNCHANGED externalVars => ExternalTypes'
<1>1. UNCHANGED registrationVars => RegistrationInv'
  BY DEF IInv, RegistrationInv, RegistrationTypes, RegistrationListSound, registrationVars
<1>2. UNCHANGED withdrawalVars => WithdrawalInv'
  BY DEF IInv, WithdrawalInv, WithdrawalTypes, WithdrawalListSound, withdrawalVars
<1>3. UNCHANGED adminVars => AdminTypes'
  BY DEF IInv, AdminTypes, adminVars
<1>4. UNCHANGED ledgerVars => LedgerTypes'
  BY DEF IInv, LedgerTypes, ledgerVars
<1>5. UNCHANGED externalVars => ExternalTypes'
  BY DEF IInv, ExternalTypes, externalVars
<1> QED BY <1>1, <1>2, <1>3, <1>4, <1>5

(* A step that leaves the transaction alone keeps its copy fresh when it    *)
(* writes no registration or runs outside every signer-manager call.       *)
LEMMA CallFrame ==
    ASSUME CallInv, UNCHANGED callVars, ~signerManagerCallActive \/ registrations' = registrations
    PROVE  CallInv'
BY DEF CallInv, CallTypes, GuardMatchesCall, NoStaleAdvance, InFlight, ClaimKey, callVars

(* Between two signer-manager calls there is no copy to keep fresh. *)
LEMMA OutsideCall ==
    ASSUME tx' \in Transactions, ~(tx.phase \in {"pull", "claim", "settle"})',
           signerManagerCallActive' = FALSE
    PROVE  CallInv'
BY DEF CallInv, CallTypes, GuardMatchesCall, NoStaleAdvance, InFlight

(* The rest of a batch has the type of the batch. *)
LEMMA RestOfBatch ==
    ASSUME NEW S, NEW todo \in Seq(S), todo # <<>>
    PROVE  Head(todo) \in S /\ Tail(todo) \in Seq(S)
BY HeadTailProperties

LEMMA InitIInv == Init => IInv
<1> SUFFICES ASSUME Init PROVE IInv
  OBVIOUS
<1> USE DEF Init
<1>1. RegistrationInv
  BY EmptyWellFormed
     DEF RegistrationInv, RegistrationTypes, RegistrationListSound, EmptyMap, IsMap
<1>2. WithdrawalInv
  BY EmptyWellFormed DEF WithdrawalInv, WithdrawalTypes, WithdrawalListSound, EmptyMap, IsMap
<1>3. AdminTypes
  BY InputsAssumption, PrincipalsAssumption DEF AdminTypes
<1>4. LedgerTypes
  BY BoundsAssumption DEF LedgerTypes
<1>5. CallInv
  BY DEF CallInv, CallTypes, GuardMatchesCall, NoStaleAdvance, InFlight, Transactions, Idle
<1>6. ExternalTypes
  BY DEF ExternalTypes, EmptyMap, IsMap
<1> QED BY <1>1, <1>2, <1>3, <1>4, <1>5, <1>6 DEF IInv

-----------------------------------------------------------------------------
(* Every public function keeps the invariant. *)
LEMMA CallKeepsIInv == IInv /\ Call => IInv'
<1> SUFFICES ASSUME IInv, Call PROVE IInv'
  OBVIOUS
<1>c. CallInv
  BY DEF IInv
<1>a. /\ InitialFee \in Fees /\ Senders \subseteq Principals
      /\ AdminChanges \subseteq Principals \X BOOLEAN
      /\ Entries \subseteq Entry /\ TopUps \subseteq Nat
      /\ RegisterBatches \subseteq Seq(Entry) /\ CancelBatches \subseteq Seq(Stakers)
      /\ ClaimBatches \subseteq Seq(Stakers) /\ SettleBatches \subseteq Seq(Settlement)
  BY InputsAssumption
<1>1. ASSUME NEW p \in Senders, NEW fee \in Fees, SetFeePerClaim(p, fee)
      PROVE  IInv'
  <2>1. CallInv'
    BY <1>c, <1>1, CallFrame DEF SetFeePerClaim, registrationVars
  <2>2. AdminTypes'
    BY <1>1 DEF SetFeePerClaim, IInv, AdminTypes
  <2> QED BY <1>1, <2>1, <2>2, Frames DEF SetFeePerClaim, IInv
<1>2. ASSUME NEW p \in Senders, NEW change \in AdminChanges, UpdateAdmin(p, change[1], change[2])
      PROVE  IInv'
  <2>1. CallInv'
    BY <1>c, <1>2, CallFrame DEF UpdateAdmin, registrationVars
  <2>2. AdminTypes'
    BY <1>a, <1>2 DEF UpdateAdmin, IInv, AdminTypes
  <2> QED BY <1>2, <2>1, <2>2, Frames DEF UpdateAdmin, IInv
<1>3. ASSUME NEW p \in Senders, NEW sm \in SignerManagers, NEW entry \in Entries,
             RegisterForClaims(p, sm, entry)
      PROVE  IInv'
  <2>1. CallInv'
    BY <1>c, <1>3, CallFrame DEF RegisterForClaims, ValidateNoReentrancy
  <2>2. RegistrationInv' /\ LedgerTypes'
    BY <1>a, <1>3, RegisterKeeps DEF RegisterForClaims
  <2> QED BY <1>3, <2>1, <2>2, Frames DEF RegisterForClaims, IInv
<1>4. ASSUME NEW p \in Senders, NEW key \in Key, NEW n \in TopUps, AddClaims(p, key, n)
      PROVE  IInv'
  <2>1. CallInv'
    BY <1>c, <1>4, CallFrame DEF AddClaims, ValidateNoReentrancy
  <2>2. n \in Nat /\ p \in Principals /\ key \in DOMAIN registrations
    BY <1>a, <1>4 DEF AddClaims
  <2>3. LedgerTypes'
    BY <1>4, <2>2, EscrowKeepsTypes DEF AddClaims, IInv
  <2>4. IsMap(registrations', Key, Registration) /\ DOMAIN registrations' = DOMAIN registrations
    <3> DEFINE old == registrations[key]
               e == EscrowAmount(p, n)
    <3>1. e \in Nat
      BY <2>2, EscrowAmountType DEF IInv
    <3>2. old \in Registration
      BY <2>2 DEF IInv, RegistrationInv, RegistrationTypes, IsMap
    <3>3. registrations' = MapSet(registrations, key, ToppedUp(old, n, e))
      BY <1>4 DEF AddClaims
    <3>4. old.remainingClaims + n \in Nat /\ old.prepaidUstx + e \in Nat
      BY <2>2, <3>1, <3>2 DEF Registration
    <3>5. ToppedUp(old, n, e) \in Registration
      BY <3>2, <3>4 DEF ToppedUp, Registration
    <3>6. IsMap(registrations', Key, Registration)
      BY <3>3, <3>5, MapSetType DEF IInv, RegistrationInv, RegistrationTypes
    <3>7. DOMAIN registrations' = DOMAIN registrations \cup {key}
      BY <3>3, MapSetDef
    <3> QED BY <2>2, <3>6, <3>7
  <2>5. IsMap(history', Key, [bought : Nat, served : SUBSET Nat,
                              oneClaimPerRewardCycle : BOOLEAN])
    <3> DEFINE H == [bought : Nat, served : SUBSET Nat, oneClaimPerRewardCycle : BOOLEAN]
    <3>1. history' = [history EXCEPT ![key].bought = @ + n]
      BY <1>4 DEF AddClaims
    <3>2. history \in [DOMAIN history -> H] /\ DOMAIN history \subseteq Key
      BY DEF IInv, RegistrationInv, RegistrationTypes, IsMap
    <3>3. ASSUME key \in DOMAIN history
          PROVE  [history[key] EXCEPT !.bought = @ + n] \in H
      BY <2>2, <3>2, <3>3
    <3> HIDE DEF H
    <3>4. history' \in [DOMAIN history -> H]
      BY <3>1, <3>2, <3>3
    <3> QED BY <3>2, <3>4 DEF IsMap, H
  <2>6. RegistrationInv'
    BY <1>4, <2>4, <2>5
       DEF AddClaims, IInv, RegistrationInv, RegistrationTypes, RegistrationListSound
  <2> QED BY <1>4, <2>1, <2>3, <2>6, Frames DEF AddClaims, IInv
<1>5. ASSUME NEW p \in Senders, NEW key \in Key, CancelRegistration(p, key)
      PROVE  IInv'
  <2>1. CallInv'
    BY <1>c, <1>5, CallFrame DEF CancelRegistration, ValidateNoReentrancy
  <2>2. RegistrationInv' /\ LedgerTypes'
    BY <1>5, CancelKeeps DEF CancelRegistration
  <2> QED BY <1>5, <2>1, <2>2, Frames DEF CancelRegistration, IInv
<1>6. ASSUME NEW p \in Senders, NEW sm \in SignerManagers, NEW entries \in RegisterBatches,
             RegisterManyForClaims(p, sm, entries)
      PROVE  IInv'
  <2>1. CallInv'
    BY <1>a, <1>c, <1>6, OutsideCall
       DEF RegisterManyForClaims, Registering, Transactions, ValidateNoReentrancy, CallInv,
           CallTypes
  <2> QED BY <1>6, <2>1, Frames DEF RegisterManyForClaims, IInv
<1>7. ASSUME NEW p \in Senders, NEW sm \in SignerManagers, NEW stakers \in CancelBatches,
             CancelManyRegistrations(p, sm, stakers)
      PROVE  IInv'
  <2>1. CallInv'
    BY <1>a, <1>c, <1>7, OutsideCall
       DEF CancelManyRegistrations, Cancelling, Transactions, ValidateNoReentrancy, CallInv,
           CallTypes
  <2> QED BY <1>7, <2>1, Frames DEF CancelManyRegistrations, IInv
<1>8. ASSUME NEW sm \in SignerManagers, NEW stakers \in ClaimBatches,
             ProcessRewardClaims(sm, stakers)
      PROVE  IInv'
  <2>1. CurrentDistribution \in Nat /\ LastRewardsComputeDistribution \in Computed
    BY BoundsAssumption DEF IInv, ExternalTypes, CurrentDistribution,
       LastRewardsComputeDistribution, DistributionIndex, Computed
  <2>2. CallInv'
    BY <1>a, <1>c, <1>8, <2>1, OutsideCall
       DEF ProcessRewardClaims, Claiming, Transactions, ValidateNoReentrancy, CallInv, CallTypes
  <2> QED BY <1>8, <2>2, Frames DEF ProcessRewardClaims, IInv
<1>9. ASSUME NEW sm \in SignerManagers, NEW items \in SettleBatches,
             SettlePendingWithdrawals(sm, items)
      PROVE  IInv'
  <2>1. CallInv'
    BY <1>a, <1>c, <1>9, OutsideCall
       DEF SettlePendingWithdrawals, Settling, Transactions, ValidateNoReentrancy, CallInv,
           CallTypes
  <2> QED BY <1>9, <2>1, Frames DEF SettlePendingWithdrawals, IInv
<1> QED BY <1>1, <1>2, <1>3, <1>4, <1>5, <1>6, <1>7, <1>8, <1>9 DEF Call

-----------------------------------------------------------------------------
(* A batch that drops its item is the same batch, still outside any call. *)
LEMMA BatchGoesOn ==
    ASSUME CallInv, tx.phase \in {"registers", "cancels", "claims", "settles"},
           tx.todo # <<>>, tx' = DropItem(tx), UNCHANGED signerManagerCallActive
    PROVE  CallInv'
<1>1. signerManagerCallActive' = FALSE
  BY DEF CallInv, CallTypes, GuardMatchesCall, InFlight
<1>2. tx \in Transactions
  BY DEF CallInv, CallTypes
<1>3. /\ tx' \in Transactions
      /\ ~(tx.phase \in {"pull", "claim", "settle"})'
  <2>1. CASE tx.phase = "registers"
    <3>1. tx \in [phase : {"registers"}, sender : Principals, signerManager : SignerManagers,
                  todo : Seq(Entry)]
      BY <1>2, <2>1, TransactionShape
    <3>2. Tail(tx.todo) \in Seq(Entry)
      BY <3>1, RestOfBatch
    <3> QED BY <3>1, <3>2 DEF DropItem, Transactions
  <2>2. CASE tx.phase = "cancels"
    <3>1. tx \in [phase : {"cancels"}, sender : Principals, signerManager : SignerManagers,
                  todo : Seq(Stakers)]
      BY <1>2, <2>2, TransactionShape
    <3>2. Tail(tx.todo) \in Seq(Stakers)
      BY <3>1, RestOfBatch
    <3> QED BY <3>1, <3>2 DEF DropItem, Transactions
  <2>3. CASE tx.phase = "claims"
    <3>1. tx \in [phase : {"claims"}, signerManager : SignerManagers, todo : Seq(Stakers),
                  current : Nat, computed : Computed]
      BY <1>2, <2>3, TransactionShape
    <3>2. Tail(tx.todo) \in Seq(Stakers)
      BY <3>1, RestOfBatch
    <3> QED BY <3>1, <3>2 DEF DropItem, Transactions
  <2>4. CASE tx.phase = "settles"
    <3>1. tx \in [phase : {"settles"}, signerManager : SignerManagers, todo : Seq(Settlement)]
      BY <1>2, <2>4, TransactionShape
    <3>2. Tail(tx.todo) \in Seq(Settlement)
      BY <3>1, RestOfBatch
    <3> QED BY <3>1, <3>2 DEF DropItem, Transactions
  <2> QED BY <2>1, <2>2, <2>3, <2>4
<1> QED BY <1>1, <1>3, OutsideCall

(* Inside a claim call: the key is stored under the copy the call started   *)
(* with, so the copy written back is the stored registration.              *)
LEMMA CopyIsStored ==
    ASSUME IInv, tx.phase \in {"pull", "claim"}
    PROVE  /\ ClaimKey(tx) \in DOMAIN registrations
           /\ ClaimKey(tx) \in Key
           /\ tx.registration = registrations[ClaimKey(tx)]
           /\ tx.current \in Nat
<1>1. ClaimKey(tx) \in DOMAIN registrations /\ tx.registration = registrations[ClaimKey(tx)]
  BY DEF IInv, CallInv, NoStaleAdvance
<1>2. tx.current \in Nat
  BY TransactionShape DEF IInv, CallInv, CallTypes
<1> QED BY <1>1, <1>2 DEF IInv, RegistrationInv, RegistrationTypes, IsMap

(* When a claim call returns, the batch goes on outside any call. *)
LEMMA ClaimCallEnds ==
    ASSUME IInv, tx.phase \in {"pull", "claim"}, tx' = NextClaim(tx),
           signerManagerCallActive' = FALSE
    PROVE  CallInv'
<1>1. tx \in [phase : {"pull", "claim"}, signerManager : SignerManagers,
              todo : Seq(Stakers) \ {<<>>}, current : Nat, computed : Computed,
              registration : Registration]
  BY TransactionShape DEF IInv, CallInv, CallTypes
<1>2. Tail(tx.todo) \in Seq(Stakers)
  BY <1>1, RestOfBatch
<1>3. tx' \in Transactions /\ tx'.phase = "claims"
  BY <1>1, <1>2 DEF NextClaim, Claiming, Transactions
<1> QED BY <1>3, OutsideCall

(* Every step of a transaction keeps the invariant. *)
LEMMA StepKeepsIInv == IInv /\ Step => IInv'
<1> SUFFICES ASSUME IInv, Step PROVE IInv'
  OBVIOUS
<1>c. CallInv /\ tx \in Transactions
  BY DEF IInv, CallInv, CallTypes
<1>1. CASE CountRegistrations
  <2>1. tx \in [phase : {"registers"}, sender : Principals, signerManager : SignerManagers,
                todo : Seq(Entry)]
        /\ tx.todo # <<>>
    BY <1>c, <1>1, TransactionShape DEF CountRegistrations
  <2>2. Head(tx.todo) \in Entry /\ tx.sender \in Principals /\ tx.signerManager \in SignerManagers
    BY <2>1, RestOfBatch
  <2>3. RegistrationInv' /\ LedgerTypes'
    BY <1>1, <2>2, RegisterKeeps, Frames DEF CountRegistrations
  <2>4. CallInv'
    BY <1>1, <1>c, BatchGoesOn DEF CountRegistrations
  <2> QED BY <1>1, <2>3, <2>4, Frames DEF CountRegistrations, IInv
<1>2. CASE CountCancellations
  <2>1. tx \in [phase : {"cancels"}, sender : Principals, signerManager : SignerManagers,
                todo : Seq(Stakers)]
        /\ tx.todo # <<>>
    BY <1>c, <1>2, TransactionShape DEF CountCancellations
  <2>2. KeyOf(Head(tx.todo), tx.signerManager) \in Key
    BY <2>1, RestOfBatch, KeyType
  <2>3. RegistrationInv' /\ LedgerTypes'
    BY <1>2, <2>2, CancelKeeps, Frames DEF CountCancellations
  <2>4. CallInv'
    BY <1>2, <1>c, BatchGoesOn DEF CountCancellations
  <2> QED BY <1>2, <2>3, <2>4, Frames DEF CountCancellations, IInv
<1>3. CASE BatchDone
  <2>1. CallInv'
    BY <1>3, <1>c, OutsideCall
       DEF BatchDone, Idle, Transactions, CallInv, CallTypes, GuardMatchesCall, InFlight
  <2> QED BY <1>3, <2>1, Frames DEF BatchDone, IInv
<1>4. CASE SkipClaim
  <2>1. CallInv'
    BY <1>4, <1>c, BatchGoesOn DEF SkipClaim
  <2> QED BY <1>4, <2>1, Frames DEF SkipClaim, IInv
<1>5. ASSUME NEW needsPull \in BOOLEAN, CountClaim(needsPull)
      PROVE  IInv'
  <2>1. /\ tx \in [phase : {"claims"}, signerManager : SignerManagers, todo : Seq(Stakers),
                   current : Nat, computed : Computed]
        /\ tx.todo # <<>>
    BY <1>c, <1>5, TransactionShape DEF CountClaim
  <2>2. ClaimKey(tx) \in DOMAIN registrations /\ registrations[ClaimKey(tx)] \in Registration
    BY <1>5 DEF CountClaim, IInv, RegistrationInv, RegistrationTypes, IsMap
  <2>3. tx' \in [phase : {"pull", "claim"}, signerManager : SignerManagers,
                 todo : Seq(Stakers) \ {<<>>}, current : Nat, computed : Computed,
                 registration : Registration]
    BY <1>5, <2>1, <2>2 DEF CountClaim, InClaimCall
  <2>4. CallTypes' /\ GuardMatchesCall'
    BY <1>5, <2>3 DEF CountClaim, CallTypes, GuardMatchesCall, InFlight, Transactions
  <2>5. tx'.todo = tx.todo /\ tx'.signerManager = tx.signerManager
        /\ tx'.registration = registrations[ClaimKey(tx)]
    BY <1>5 DEF CountClaim, InClaimCall
  <2>6. NoStaleAdvance'
    BY <1>5, <2>2, <2>5 DEF CountClaim, NoStaleAdvance, ClaimKey, registrationVars
  <2>7. CallInv'
    BY <2>4, <2>6 DEF CallInv
  <2> QED BY <1>5, <2>7, Frames DEF CountClaim, IInv
<1>6. CASE PullSucceeds
  <2>1. tx \in [phase : {"pull", "claim"}, signerManager : SignerManagers,
                todo : Seq(Stakers) \ {<<>>}, current : Nat, computed : Computed,
                registration : Registration]
    BY <1>c, <1>6, TransactionShape DEF PullSucceeds
  <2>2. tx' \in [phase : {"pull", "claim"}, signerManager : SignerManagers,
                 todo : Seq(Stakers) \ {<<>>}, current : Nat, computed : Computed,
                 registration : Registration]
    BY <1>6, <2>1 DEF PullSucceeds
  <2>3. CallTypes' /\ GuardMatchesCall'
    BY <1>c, <1>6, <2>2 DEF PullSucceeds, CallInv, CallTypes, GuardMatchesCall, InFlight,
                            Transactions
  <2>4. tx'.todo = tx.todo /\ tx'.signerManager = tx.signerManager
        /\ tx'.registration = tx.registration
    BY <1>6, <2>1 DEF PullSucceeds
  <2>5. NoStaleAdvance'
    BY <1>6, <2>4, CopyIsStored DEF PullSucceeds, NoStaleAdvance, ClaimKey, registrationVars
  <2>6. CallInv'
    BY <2>3, <2>5 DEF CallInv
  <2> QED BY <1>6, <2>6, Frames DEF PullSucceeds, IInv
<1>7. CASE PullFails
  <2>1. AdvanceRegistration(ClaimKey(tx), registrations[ClaimKey(tx)], tx.current)
    BY <1>7, CopyIsStored DEF PullFails
  <2>2. RegistrationInv' /\ LedgerTypes'
    BY <1>7, <2>1, CopyIsStored, AdvanceKeeps DEF PullFails
  <2>3. CallInv'
    BY <1>7, ClaimCallEnds DEF PullFails, GuardAfterReturn
  <2> QED BY <1>7, <2>2, <2>3, Frames DEF PullFails, IInv
<1>8. ASSUME NEW request \in RequestIds \cup {None}, ClaimReturns(request)
      PROVE  IInv'
  <2>1. AdvanceRegistration(ClaimKey(tx), registrations[ClaimKey(tx)], tx.current)
    BY <1>8, CopyIsStored DEF ClaimReturns
  <2>2. RegistrationInv' /\ LedgerTypes'
    BY <1>8, <2>1, CopyIsStored, AdvanceKeeps DEF ClaimReturns
  <2>3. CallInv'
    BY <1>8, ClaimCallEnds DEF ClaimReturns, GuardAfterReturn
  <2>4. CASE request = None
    BY <1>8, <2>2, <2>3, <2>4, Frames DEF ClaimReturns, IInv
  <2>5. CASE request # None
    <3>1. AppendPendingWithdrawal(ClaimKey(tx), request)
      BY <1>8, <2>5 DEF ClaimReturns
    <3>2. WithdrawalInv'
      BY <1>8, <2>5, <3>1, CopyIsStored, AppendPendingKeeps DEF ClaimReturns
    <3> QED BY <1>8, <2>2, <2>3, <3>2, Frames DEF ClaimReturns, IInv
  <2> QED BY <2>4, <2>5
<1>9. CASE CountSettlement
  <2>1. WithdrawalInv'
    BY <1>9, RemovePendingKeeps, Frames DEF CountSettlement
  <2>2. CallInv'
    BY <1>9, <1>c, BatchGoesOn DEF CountSettlement
  <2> QED BY <1>9, <2>1, <2>2, Frames DEF CountSettlement, IInv
<1>10. CASE CallSettle
  <2>1. /\ tx \in [phase : {"settles"}, signerManager : SignerManagers, todo : Seq(Settlement)]
        /\ tx.todo # <<>>
    BY <1>c, <1>10, TransactionShape DEF CallSettle
  <2>2. tx' \in [phase : {"settle"}, signerManager : SignerManagers,
                 todo : Seq(Settlement) \ {<<>>}]
    BY <1>10, <2>1 DEF CallSettle, InSettleCall
  <2>3. CallInv'
    BY <1>10, <2>2 DEF CallSettle, CallInv, CallTypes, GuardMatchesCall, NoStaleAdvance,
                       InFlight, Transactions
  <2>4. SettleKey(tx) \in WithdrawalKey
    BY <1>10 DEF CallSettle, IInv, WithdrawalInv, WithdrawalTypes, IsMap
  <2>5. WithdrawalInv'
    BY <1>10, <2>4 DEF CallSettle, IInv, WithdrawalInv, WithdrawalTypes, WithdrawalListSound
  <2> QED BY <1>10, <2>3, <2>5, Frames DEF CallSettle, IInv
<1>11. ASSUME NEW succeeded \in BOOLEAN, SettleReturns(succeeded)
       PROVE  IInv'
  <2>1. tx \in [phase : {"settle"}, signerManager : SignerManagers,
                todo : Seq(Settlement) \ {<<>>}]
    BY <1>c, <1>11, TransactionShape DEF SettleReturns
  <2>2. Tail(tx.todo) \in Seq(Settlement)
    BY <2>1, RestOfBatch
  <2>3. CallInv'
    <3>1. tx' \in Transactions /\ tx'.phase = "settles"
      BY <1>11, <2>1, <2>2 DEF SettleReturns, Settling, Transactions
    <3> QED BY <1>11, <3>1, OutsideCall DEF SettleReturns, GuardAfterReturn
  <2>4. WithdrawalInv'
    BY <1>11, RemovePendingKeeps DEF SettleReturns
  <2> QED BY <1>11, <2>3, <2>4, Frames DEF SettleReturns, IInv
<1> QED BY <1>1, <1>2, <1>3, <1>4, <1>5, <1>6, <1>7, <1>8, <1>9, <1>10, <1>11 DEF Step

(* What happens around the contract keeps the invariant. *)
LEMMA ExternalKeepsIInv == IInv /\ External => IInv'
<1> SUFFICES ASSUME IInv, External PROVE IInv'
  OBVIOUS
<1>c. CallInv
  BY DEF IInv
<1>1. CASE BurnBlock
  <2>1. CallInv'
    BY <1>1, <1>c, CallFrame DEF BurnBlock, registrationVars
  <2>2. ExternalTypes'
    BY <1>1 DEF BurnBlock, IInv, ExternalTypes
  <2> QED BY <1>1, <2>1, <2>2, Frames DEF BurnBlock, IInv
<1>2. ASSUME NEW height \in 1 .. MaxBurnHeight, CalculateRewards(height)
      PROVE  IInv'
  <2>1. CallInv'
    BY <1>2, <1>c, CallFrame DEF CalculateRewards, registrationVars
  <2>2. ExternalTypes'
    BY <1>2, BoundsAssumption DEF CalculateRewards, IInv, ExternalTypes
  <2> QED BY <1>2, <2>1, <2>2, Frames DEF CalculateRewards, IInv
<1>3. ASSUME NEW staker \in Stakers, NEW entry \in PoxEntries, ChangePosition(staker, entry)
      PROVE  IInv'
  <2>1. CallInv'
    BY <1>3, <1>c, CallFrame DEF ChangePosition, registrationVars
  <2>2. ExternalTypes'
    BY <1>3 DEF ChangePosition, IInv, ExternalTypes
  <2> QED BY <1>3, <2>1, <2>2, Frames DEF ChangePosition, IInv
<1>4. ASSUME NEW id \in RequestIds, InitiateWithdrawal(id)
      PROVE  IInv'
  <2>1. CallInv'
    BY <1>4, <1>c, CallFrame DEF InitiateWithdrawal, registrationVars
  <2>2. ExternalTypes'
    BY <1>4, MapSetType DEF InitiateWithdrawal, IInv, ExternalTypes
  <2> QED BY <1>4, <2>1, <2>2, Frames DEF InitiateWithdrawal, IInv
<1>5. ASSUME NEW id \in RequestIds, NEW status \in {"accepted", "rejected"},
             ResolveWithdrawal(id, status)
      PROVE  IInv'
  <2>1. CallInv'
    BY <1>5, <1>c, CallFrame DEF ResolveWithdrawal, registrationVars
  <2>2. ExternalTypes'
    BY <1>5 DEF ResolveWithdrawal, IInv, ExternalTypes, IsMap
  <2> QED BY <1>5, <2>1, <2>2, Frames DEF ResolveWithdrawal, IInv
<1> QED BY <1>1, <1>2, <1>3, <1>4, <1>5 DEF External

LEMMA StutterKeepsIInv == IInv /\ UNCHANGED vars => IInv'
<1> SUFFICES ASSUME IInv, UNCHANGED vars PROVE IInv'
  OBVIOUS
<1>1. UNCHANGED <<registrationVars, withdrawalVars, adminVars, ledgerVars, callVars, externalVars>>
  BY DEF vars, registrationVars, withdrawalVars, adminVars, ledgerVars, callVars, externalVars
<1>2. CallInv'
  BY <1>1, CallFrame DEF IInv, registrationVars
<1> QED BY <1>1, <1>2, Frames DEF IInv

-----------------------------------------------------------------------------
(* The inductive invariant holds in every reachable state. *)
THEOREM Inductive == Spec => []IInv
<1>1. IInv /\ [Next]_vars => IInv'
  BY CallKeepsIInv, StepKeepsIInv, ExternalKeepsIInv, StutterKeepsIInv DEF Next
<1> QED BY InitIInv, <1>1, PTL DEF Spec

(* Every data-var, map, ledger entry and transaction has its type; no       *)
(* balance and no unspent fee goes below zero.                             *)
THEOREM TypeCorrect == Spec => []TypeOK
<1>1. IInv => TypeOK
  BY DEF IInv, RegistrationInv, WithdrawalInv, CallInv, TypeOK
<1> QED BY <1>1, Inductive, PTL

(* ll-append and ll-remove keep the registration list well-formed and in    *)
(* step with the registrations map.                                        *)
THEOREM RegistrationListCorrect == Spec => []RegistrationListSound
<1>1. IInv => RegistrationListSound
  BY DEF IInv, RegistrationInv
<1> QED BY <1>1, Inductive, PTL

(* The same of the withdrawal list and the pending-withdrawals map. *)
THEOREM WithdrawalListCorrect == Spec => []WithdrawalListSound
<1>1. IInv => WithdrawalListSound
  BY DEF IInv, WithdrawalInv
<1> QED BY <1>1, Inductive, PTL

(* The reentrancy guard is set exactly while a signer-manager runs. *)
THEOREM GuardCorrect == Spec => []GuardMatchesCall
<1>1. IInv => GuardMatchesCall
  BY DEF IInv, CallInv
<1> QED BY <1>1, Inductive, PTL

(* The registration written back after a signer-manager call is the one     *)
(* that was stored: no call the signer-manager makes changes it.           *)
THEOREM NoClaimIsStale == Spec => []NoStaleAdvance
<1>1. IInv => NoStaleAdvance
  BY DEF IInv, CallInv
<1> QED BY <1>1, Inductive, PTL

-----------------------------------------------------------------------------
(* add-claims without its guards. *)
TopUp(sender, key, n) ==
    /\ key \in DOMAIN registrations
    /\ sender = registrations[key].sponsor
    /\ CanEscrow(sender, n)
    /\ registrations' = MapSet(registrations, key,
           ToppedUp(registrations[key], n, EscrowAmount(sender, n)))
    /\ EscrowRegistrationFee(sender, n)
    /\ history' = [history EXCEPT ![key].bought = @ + n]
    /\ UNCHANGED <<registrationLL, maxProcessed>>

(* The steps that write a registration, whichever function they are part of. *)
RegistrationStep ==
    \/ \E sender \in Principals, sm \in SignerManagers, entry \in Entry :
          AcceptsRegistration(sender, sm, entry) /\ RegisterForClaimsImpl(sender, sm, entry)
    \/ \E sender \in Principals, key \in Key, n \in Nat \ {0} : TopUp(sender, key, n)
    \/ \E sender \in Principals, key \in Key :
          MayCancel(sender, key) /\ CancelRegistrationImpl(sender, key)
    \/ /\ tx.phase \in {"pull", "claim"}
       /\ AdvanceRegistration(ClaimKey(tx), registrations[ClaimKey(tx)], tx.current)

LEMMA RegistrationSteps ==
    ASSUME IInv, [Next]_vars
    PROVE  RegistrationStep \/ UNCHANGED <<registrationVars, ledgerVars>>
<1>1. CASE Call
  <2>1. ASSUME NEW p \in Senders, NEW fee \in Fees, SetFeePerClaim(p, fee)
        PROVE  UNCHANGED <<registrationVars, ledgerVars>>
    BY <2>1 DEF SetFeePerClaim
  <2>2. ASSUME NEW p \in Senders, NEW change \in AdminChanges, UpdateAdmin(p, change[1], change[2])
        PROVE  UNCHANGED <<registrationVars, ledgerVars>>
    BY <2>2 DEF UpdateAdmin
  <2>3. ASSUME NEW p \in Senders, NEW sm \in SignerManagers, NEW entry \in Entries,
               RegisterForClaims(p, sm, entry)
        PROVE  RegistrationStep
    BY <2>3, InputsAssumption DEF RegisterForClaims, RegistrationStep
  <2>4. ASSUME NEW p \in Senders, NEW key \in Key, NEW n \in TopUps, AddClaims(p, key, n)
        PROVE  RegistrationStep
    <3>1. TopUp(p, key, n) /\ n \in Nat \ {0} /\ p \in Principals
      BY <2>4, InputsAssumption DEF AddClaims, TopUp
    <3> QED BY <3>1 DEF RegistrationStep
  <2>5. ASSUME NEW p \in Senders, NEW key \in Key, CancelRegistration(p, key)
        PROVE  RegistrationStep
    BY <2>5, InputsAssumption DEF CancelRegistration, RegistrationStep
  <2>6. ASSUME NEW p \in Senders, NEW sm \in SignerManagers, NEW entries \in RegisterBatches,
               RegisterManyForClaims(p, sm, entries)
        PROVE  UNCHANGED <<registrationVars, ledgerVars>>
    BY <2>6 DEF RegisterManyForClaims
  <2>7. ASSUME NEW p \in Senders, NEW sm \in SignerManagers, NEW stakers \in CancelBatches,
               CancelManyRegistrations(p, sm, stakers)
        PROVE  UNCHANGED <<registrationVars, ledgerVars>>
    BY <2>7 DEF CancelManyRegistrations
  <2>8. ASSUME NEW sm \in SignerManagers, NEW stakers \in ClaimBatches, ProcessRewardClaims(sm, stakers)
        PROVE  UNCHANGED <<registrationVars, ledgerVars>>
    BY <2>8 DEF ProcessRewardClaims
  <2>9. ASSUME NEW sm \in SignerManagers, NEW items \in SettleBatches,
               SettlePendingWithdrawals(sm, items)
        PROVE  UNCHANGED <<registrationVars, ledgerVars>>
    BY <2>9 DEF SettlePendingWithdrawals
  <2> QED BY <1>1, <2>1, <2>2, <2>3, <2>4, <2>5, <2>6, <2>7, <2>8, <2>9 DEF Call
<1>2. CASE Step
  <2>t. tx \in Transactions
    BY DEF IInv, CallInv, CallTypes
  <2>1. CASE CountRegistrations
    <3>1. tx \in [phase : {"registers"}, sender : Principals, signerManager : SignerManagers,
                  todo : Seq(Entry)]
          /\ tx.todo # <<>>
      BY <2>t, <2>1, TransactionShape DEF CountRegistrations
    <3>2. Head(tx.todo) \in Entry /\ tx.sender \in Principals /\ tx.signerManager \in SignerManagers
      BY <3>1, RestOfBatch
    <3> QED BY <2>1, <3>2 DEF CountRegistrations, RegistrationStep
  <2>2. CASE CountCancellations
    <3>1. tx \in [phase : {"cancels"}, sender : Principals, signerManager : SignerManagers,
                  todo : Seq(Stakers)]
          /\ tx.todo # <<>>
      BY <2>t, <2>2, TransactionShape DEF CountCancellations
    <3>2. KeyOf(Head(tx.todo), tx.signerManager) \in Key /\ tx.sender \in Principals
      BY <3>1, RestOfBatch, KeyType
    <3> QED BY <2>2, <3>2 DEF CountCancellations, RegistrationStep
  <2>3. CASE BatchDone \/ SkipClaim \/ PullSucceeds
    BY <2>3 DEF BatchDone, SkipClaim, PullSucceeds
  <2>4. ASSUME NEW needsPull \in BOOLEAN, CountClaim(needsPull)
        PROVE  UNCHANGED <<registrationVars, ledgerVars>>
    BY <2>4 DEF CountClaim
  <2>5. CASE PullFails
    BY <2>5, CopyIsStored DEF PullFails, RegistrationStep
  <2>6. ASSUME NEW request \in RequestIds \cup {None}, ClaimReturns(request)
        PROVE  RegistrationStep
    BY <2>6, CopyIsStored DEF ClaimReturns, RegistrationStep
  <2>7. CASE CountSettlement \/ CallSettle
    BY <2>7 DEF CountSettlement, CallSettle
  <2>8. ASSUME NEW succeeded \in BOOLEAN, SettleReturns(succeeded)
        PROVE  UNCHANGED <<registrationVars, ledgerVars>>
    BY <2>8 DEF SettleReturns
  <2> QED BY <1>2, <2>1, <2>2, <2>3, <2>4, <2>5, <2>6, <2>7, <2>8 DEF Step
<1>3. CASE External
  BY <1>3 DEF External, BurnBlock, CalculateRewards, ChangePosition, InitiateWithdrawal,
              ResolveWithdrawal
<1>4. CASE UNCHANGED vars
  BY <1>4 DEF vars, registrationVars, ledgerVars
<1> QED BY <1>1, <1>2, <1>3, <1>4 DEF Next

-----------------------------------------------------------------------------
(* The STX of the sponsors.  A step touches one registration: what it pays *)
(* in, burns or pays back moves the balances and the sums alike.           *)
Escrowed(regs) == [key \in DOMAIN regs |-> regs[key].prepaidUstx]
SponsoredBy(regs, p) == {key \in DOMAIN regs : regs[key].sponsor = p}
Paid(regs, key) == IF key \in DOMAIN regs THEN regs[key].prepaidUstx ELSE 0
PaidBy(regs, key, p) == IF key \in SponsoredBy(regs, p) THEN regs[key].prepaidUstx ELSE 0

MoneyInv == EscrowBacksPrepaid /\ SponsorsMadeWhole

LEMMA MoneyIs ==
    /\ EscrowBacksPrepaid <=> escrow = SumOver(Escrowed(registrations), DOMAIN registrations)
    /\ SponsorsMadeWhole <=>
          \A p \in Principals :
             stx[p] + burned[p] + SumOver(Escrowed(registrations), SponsoredBy(registrations, p))
                = InitialStx
    /\ (EscrowBacksPrepaid)' <=>
          escrow' = SumOver(Escrowed(registrations'), DOMAIN registrations')
    /\ (SponsorsMadeWhole)' <=>
          \A p \in Principals :
             stx'[p] + burned'[p] + SumOver(Escrowed(registrations'), SponsoredBy(registrations', p))
                = InitialStx
BY DEF EscrowBacksPrepaid, SponsorsMadeWhole, Prepaid, Escrowed, SponsoredBy

(* A step that touches one registration moves the sums by what that one holds. *)
LEMMA OneRegistrationMoves ==
    ASSUME NEW regs, NEW after, NEW key,
           IsMap(regs, Key, Registration), IsFiniteSet(DOMAIN regs),
           IsMap(after, Key, Registration), IsFiniteSet(DOMAIN after),
           DOMAIN regs \ {key} = DOMAIN after \ {key},
           \A x \in DOMAIN regs \ {key} : after[x] = regs[x]
    PROVE  /\ Paid(regs, key) \in Nat /\ Paid(after, key) \in Nat
           /\ SumOver(Escrowed(regs), DOMAIN regs) \in Nat
           /\ Paid(regs, key) <= SumOver(Escrowed(regs), DOMAIN regs)
           /\ SumOver(Escrowed(after), DOMAIN after) =
                 SumOver(Escrowed(regs), DOMAIN regs) - Paid(regs, key) + Paid(after, key)
           /\ \A p : /\ PaidBy(regs, key, p) \in Nat /\ PaidBy(after, key, p) \in Nat
                     /\ SumOver(Escrowed(regs), SponsoredBy(regs, p)) \in Nat
                     /\ SumOver(Escrowed(after), SponsoredBy(after, p)) =
                           SumOver(Escrowed(regs), SponsoredBy(regs, p))
                              - PaidBy(regs, key, p) + PaidBy(after, key, p)
<1> DEFINE m == Escrowed(regs)
           n == Escrowed(after)
<1>1. /\ \A x \in DOMAIN regs : m[x] \in Nat /\ m[x] = regs[x].prepaidUstx
      /\ \A x \in DOMAIN after : n[x] \in Nat /\ n[x] = after[x].prepaidUstx
      /\ \A x \in DOMAIN regs \ {key} : m[x] = n[x]
  BY DEF Escrowed, IsMap, Registration
<1> HIDE DEF m, n
<1> DEFINE old == IF key \in DOMAIN regs THEN m[key] ELSE 0
           new == IF key \in DOMAIN after THEN n[key] ELSE 0
<1>2. Paid(regs, key) = old /\ Paid(after, key) = new
  BY <1>1 DEF Paid
<1>3. /\ Paid(regs, key) \in Nat /\ Paid(after, key) \in Nat
      /\ SumOver(m, DOMAIN regs) \in Nat
      /\ Paid(regs, key) <= SumOver(m, DOMAIN regs)
      /\ SumOver(n, DOMAIN after) = SumOver(m, DOMAIN regs) - Paid(regs, key) + Paid(after, key)
  <2> DEFINE K == DOMAIN regs
             L == DOMAIN after
  <2>1. /\ IsFiniteSet(K) /\ IsFiniteSet(L) /\ K \ {key} = L \ {key}
        /\ \A x \in K : m[x] \in Nat
        /\ \A x \in L : n[x] \in Nat
        /\ \A x \in K \ {key} : m[x] = n[x]
    BY <1>1
  <2> HIDE DEF K, L
  <2>2. LET a == IF key \in K THEN m[key] ELSE 0
            b == IF key \in L THEN n[key] ELSE 0
        IN  /\ a \in Nat /\ b \in Nat /\ a <= SumOver(m, K)
            /\ SumOver(m, K) \in Nat /\ SumOver(n, L) \in Nat
            /\ SumOver(n, L) = SumOver(m, K) - a + b
    BY <2>1, SumOneKey
  <2> QED BY <1>2, <2>2 DEF K, L
<1>4. ASSUME NEW p
      PROVE  /\ PaidBy(regs, key, p) \in Nat /\ PaidBy(after, key, p) \in Nat
             /\ SumOver(m, SponsoredBy(regs, p)) \in Nat
             /\ SumOver(n, SponsoredBy(after, p)) =
                   SumOver(m, SponsoredBy(regs, p)) - PaidBy(regs, key, p) + PaidBy(after, key, p)
  <2> DEFINE K == SponsoredBy(regs, p)
             L == SponsoredBy(after, p)
  <2>1. K \subseteq DOMAIN regs /\ L \subseteq DOMAIN after /\ K \ {key} = L \ {key}
    BY DEF SponsoredBy
  <2>2. IsFiniteSet(K) /\ IsFiniteSet(L)
    BY <2>1, FS_Subset
  <2> DEFINE by == IF key \in K THEN m[key] ELSE 0
             byAfter == IF key \in L THEN n[key] ELSE 0
  <2>3. PaidBy(regs, key, p) = by /\ PaidBy(after, key, p) = byAfter
    BY <1>1, <2>1 DEF PaidBy
  <2>4. /\ IsFiniteSet(K) /\ IsFiniteSet(L) /\ K \ {key} = L \ {key}
        /\ \A x \in K : m[x] \in Nat
        /\ \A x \in L : n[x] \in Nat
        /\ \A x \in K \ {key} : m[x] = n[x]
    BY <1>1, <2>1, <2>2
  <2> HIDE DEF K, L
  <2>5. LET a == IF key \in K THEN m[key] ELSE 0
            b == IF key \in L THEN n[key] ELSE 0
        IN  /\ a \in Nat /\ b \in Nat /\ a <= SumOver(m, K)
            /\ SumOver(m, K) \in Nat /\ SumOver(n, L) \in Nat
            /\ SumOver(n, L) = SumOver(m, K) - a + b
    BY <2>4, SumOneKey
  <2> QED BY <2>3, <2>5 DEF K, L
<1> QED BY <1>3, <1>4 DEF m, n

(* The balance follows: from the sums before a step and what the step does to *)
(* the escrow and to each principal.                                          *)
LEMMA MoneyMoves ==
    ASSUME IInv, IInv', MoneyInv, NEW key,
           DOMAIN registrations \ {key} = DOMAIN registrations' \ {key},
           \A x \in DOMAIN registrations \ {key} : registrations'[x] = registrations[x],
           escrow' = escrow - Paid(registrations, key) + Paid(registrations', key),
           \A p \in Principals :
              stx'[p] + burned'[p] = stx[p] + burned[p] + PaidBy(registrations, key, p)
                                        - PaidBy(registrations', key, p)
    PROVE  MoneyInv'
<1>1. /\ IsMap(registrations, Key, Registration) /\ IsFiniteSet(DOMAIN registrations)
      /\ IsMap(registrations', Key, Registration) /\ IsFiniteSet(DOMAIN registrations')
  BY DEF IInv, RegistrationInv, RegistrationTypes, RegistrationListSound, WellFormed
<1>2. /\ escrow = SumOver(Escrowed(registrations), DOMAIN registrations)
      /\ \A p \in Principals :
             stx[p] + burned[p] + SumOver(Escrowed(registrations), SponsoredBy(registrations, p))
                = InitialStx
  BY MoneyIs DEF MoneyInv
<1>3. escrow' = SumOver(Escrowed(registrations'), DOMAIN registrations')
  BY <1>1, <1>2, OneRegistrationMoves
<1>4. ASSUME NEW p \in Principals
      PROVE  stx'[p] + burned'[p] + SumOver(Escrowed(registrations'), SponsoredBy(registrations', p))
                = InitialStx
  <2>1. /\ stx[p] \in Nat /\ burned[p] \in Nat /\ stx'[p] \in Nat /\ burned'[p] \in Nat
    BY DEF IInv, LedgerTypes
  <2>2. /\ PaidBy(registrations, key, p) \in Nat /\ PaidBy(registrations', key, p) \in Nat
        /\ SumOver(Escrowed(registrations), SponsoredBy(registrations, p)) \in Nat
        /\ SumOver(Escrowed(registrations'), SponsoredBy(registrations', p)) =
              SumOver(Escrowed(registrations), SponsoredBy(registrations, p))
                 - PaidBy(registrations, key, p) + PaidBy(registrations', key, p)
    BY <1>1, OneRegistrationMoves
  <2>3. stx[p] + burned[p] + SumOver(Escrowed(registrations), SponsoredBy(registrations, p))
           = InitialStx
    BY <1>2
  <2>4. stx'[p] + burned'[p] = stx[p] + burned[p] + PaidBy(registrations, key, p)
                                   - PaidBy(registrations', key, p)
    OBVIOUS
  <2> QED BY <2>1, <2>2, <2>3, <2>4
<1> QED BY <1>3, <1>4, MoneyIs DEF MoneyInv

(* A prepaid amount is within the escrow, so no burn and no refund fails. *)
LEMMA PrepaidWithinEscrow ==
    ASSUME IInv, MoneyInv, NEW key \in DOMAIN registrations
    PROVE  registrations[key].prepaidUstx <= escrow
<1>1. IsMap(registrations, Key, Registration) /\ IsFiniteSet(DOMAIN registrations)
  BY DEF IInv, RegistrationInv, RegistrationTypes, RegistrationListSound, WellFormed
<1>2. Paid(registrations, key) <= SumOver(Escrowed(registrations), DOMAIN registrations)
  BY <1>1, OneRegistrationMoves
<1> QED BY <1>2, MoneyIs DEF MoneyInv, Paid

(* Registering and topping up: what the sender pays is escrowed for it. *)
LEMMA EscrowMoves ==
    ASSUME IInv, NEW sender \in Principals, NEW n \in Nat, EscrowRegistrationFee(sender, n)
    PROVE  /\ EscrowAmount(sender, n) \in Nat
           /\ escrow' = escrow + EscrowAmount(sender, n)
           /\ \A p \in Principals : stx'[p] + burned'[p] =
                 stx[p] + burned[p] - (IF p = sender THEN EscrowAmount(sender, n) ELSE 0)
<1>1. EscrowAmount(sender, n) \in Nat
  BY EscrowAmountType DEF IInv
<1>2. \A p \in Principals : stx[p] \in Nat /\ burned[p] \in Nat
  BY DEF IInv, LedgerTypes
<1>3. stx \in [Principals -> Nat]
  BY DEF IInv, LedgerTypes
<1> DEFINE amount == EscrowAmount(sender, n)
<1>4. stx' = [stx EXCEPT ![sender] = @ - amount] /\ escrow' = escrow + amount /\ burned' = burned
  BY DEF EscrowRegistrationFee
<1> HIDE DEF amount
<1>5. ASSUME NEW p \in Principals
      PROVE  stx'[p] + burned'[p] = stx[p] + burned[p] - (IF p = sender THEN amount ELSE 0)
  BY <1>1, <1>2, <1>3, <1>4 DEF amount
<1> QED BY <1>1, <1>4, <1>5 DEF amount

LEMMA RegisterMoney ==
    ASSUME IInv, IInv', MoneyInv, NEW sender \in Principals, NEW sm \in SignerManagers,
           NEW entry \in Entry,
           AcceptsRegistration(sender, sm, entry), RegisterForClaimsImpl(sender, sm, entry)
    PROVE  MoneyInv'
<1> DEFINE key == KeyOf(entry.staker, sm)
           amount == EscrowAmount(sender, entry.numClaims)
<1>1. /\ DOMAIN registrations' = DOMAIN registrations \cup {key}
      /\ registrations'[key].prepaidUstx = amount
      /\ registrations'[key].sponsor = sender
      /\ \A x \in DOMAIN registrations \ {key} : registrations'[x] = registrations[x]
      /\ key \notin DOMAIN registrations
  BY DEF RegisterForClaimsImpl, AcceptsRegistration, MapSet
<1>2. /\ amount \in Nat /\ escrow' = escrow + amount
      /\ \A p \in Principals : stx'[p] + burned'[p] =
            stx[p] + burned[p] - (IF p = sender THEN amount ELSE 0)
  BY EscrowMoves DEF RegisterForClaimsImpl, Entry
<1> HIDE DEF key, amount
<1>3. Paid(registrations, key) = 0 /\ Paid(registrations', key) = amount
  BY <1>1 DEF Paid
<1>4. \A p : PaidBy(registrations, key, p) = 0
             /\ PaidBy(registrations', key, p) = IF p = sender THEN amount ELSE 0
  BY <1>1 DEF PaidBy, SponsoredBy
<1>5. \A p \in Principals : stx[p] \in Nat /\ burned[p] \in Nat
  BY DEF IInv, LedgerTypes
<1>6. escrow \in Nat
  BY DEF IInv, LedgerTypes
<1>7. /\ escrow' = escrow - Paid(registrations, key) + Paid(registrations', key)
      /\ \A p \in Principals :
              stx'[p] + burned'[p] = stx[p] + burned[p] + PaidBy(registrations, key, p)
                                        - PaidBy(registrations', key, p)
  BY <1>2, <1>3, <1>4, <1>5, <1>6
<1>8. DOMAIN registrations \ {key} = DOMAIN registrations' \ {key}
  BY <1>1
<1> QED BY <1>1, <1>7, <1>8, MoneyMoves

LEMMA TopUpMoney ==
    ASSUME IInv, IInv', MoneyInv, NEW sender \in Principals, NEW key \in Key, NEW n \in Nat \ {0},
           TopUp(sender, key, n)
    PROVE  MoneyInv'
<1> DEFINE amount == EscrowAmount(sender, n)
           prepaid == registrations[key].prepaidUstx
<1>r. registrations[key] \in Registration
  BY DEF IInv, RegistrationInv, RegistrationTypes, IsMap, TopUp
<1>1. /\ DOMAIN registrations' = DOMAIN registrations /\ key \in DOMAIN registrations
      /\ registrations'[key].prepaidUstx = prepaid + amount
      /\ registrations'[key].sponsor = sender /\ registrations[key].sponsor = sender
      /\ \A x \in DOMAIN registrations \ {key} : registrations'[x] = registrations[x]
  BY <1>r DEF TopUp, MapSet, ToppedUp, Registration
<1>2. /\ amount \in Nat /\ escrow' = escrow + amount
      /\ \A p \in Principals : stx'[p] + burned'[p] =
            stx[p] + burned[p] - (IF p = sender THEN amount ELSE 0)
  BY EscrowMoves DEF TopUp
<1>p. prepaid \in Nat
  BY <1>r DEF Registration
<1> HIDE DEF amount, prepaid
<1>3. Paid(registrations, key) = prepaid /\ Paid(registrations', key) = prepaid + amount
  BY <1>1 DEF Paid, prepaid
<1>4. \A p : /\ PaidBy(registrations, key, p) = IF p = sender THEN prepaid ELSE 0
             /\ PaidBy(registrations', key, p) = IF p = sender THEN prepaid + amount ELSE 0
  BY <1>1 DEF PaidBy, SponsoredBy, prepaid
<1>5. \A p \in Principals : stx[p] \in Nat /\ burned[p] \in Nat
  BY DEF IInv, LedgerTypes
<1>6. escrow \in Nat
  BY DEF IInv, LedgerTypes
<1>7. /\ escrow' = escrow - Paid(registrations, key) + Paid(registrations', key)
      /\ \A p \in Principals :
              stx'[p] + burned'[p] = stx[p] + burned[p] + PaidBy(registrations, key, p)
                                        - PaidBy(registrations', key, p)
  BY <1>2, <1>3, <1>4, <1>5, <1>6, <1>p
<1>8. DOMAIN registrations \ {key} = DOMAIN registrations' \ {key}
  BY <1>1
<1> QED BY <1>1, <1>7, <1>8, MoneyMoves

LEMMA CancelMoney ==
    ASSUME IInv, IInv', MoneyInv, NEW sender \in Principals, NEW key \in Key,
           MayCancel(sender, key), CancelRegistrationImpl(sender, key)
    PROVE  MoneyInv'
<1> DEFINE refund == registrations[key].prepaidUstx
           to == registrations[key].sponsor
<1>r. key \in DOMAIN registrations /\ registrations[key] \in Registration
  BY DEF IInv, RegistrationInv, RegistrationTypes, IsMap, MayCancel
<1>t. refund \in Nat /\ to \in Principals
  BY <1>r DEF Registration
<1>0. refund <= escrow
  BY <1>r, PrepaidWithinEscrow
<1>1. /\ registrations' = MapDelete(registrations, key)
      /\ escrow' = escrow - refund
      /\ stx' = [stx EXCEPT ![to] = @ + refund] /\ burned' = burned
  BY <1>0 DEF CancelRegistrationImpl, RefundTo
<1>2. /\ DOMAIN registrations' = DOMAIN registrations \ {key}
      /\ \A x \in DOMAIN registrations \ {key} : registrations'[x] = registrations[x]
  BY <1>1 DEF MapDelete
<1>3. Paid(registrations, key) = refund /\ Paid(registrations', key) = 0
  BY <1>r, <1>2 DEF Paid
<1>4. \A p : /\ PaidBy(registrations, key, p) = IF p = to THEN refund ELSE 0
             /\ PaidBy(registrations', key, p) = 0
  BY <1>r, <1>2 DEF PaidBy, SponsoredBy
<1> HIDE DEF refund, to
<1>5. /\ stx \in [Principals -> Nat] /\ \A p \in Principals : stx[p] \in Nat /\ burned[p] \in Nat
      /\ escrow \in Nat
  BY DEF IInv, LedgerTypes
<1>6. \A p \in Principals : stx'[p] = stx[p] + (IF p = to THEN refund ELSE 0)
  BY <1>1, <1>5, <1>t
<1>7. escrow' = escrow - Paid(registrations, key) + Paid(registrations', key)
  BY <1>1, <1>3, <1>5, <1>t
<1>8. ASSUME NEW p \in Principals
      PROVE  stx'[p] + burned'[p] = stx[p] + burned[p] + PaidBy(registrations, key, p)
                                        - PaidBy(registrations', key, p)
  BY <1>1, <1>4, <1>5, <1>6, <1>t
<1>9. DOMAIN registrations \ {key} = DOMAIN registrations' \ {key}
  BY <1>2
<1> QED BY <1>2, <1>7, <1>8, <1>9, MoneyMoves

(* advance-registration where the burn does not fail. *)
LEMMA AdvanceEffects ==
    ASSUME IInv, MoneyInv, NEW key \in DOMAIN registrations, NEW current \in Nat,
           AdvanceRegistration(key, registrations[key], current)
    PROVE  LET r == registrations[key]
               burn == BurnAmount(r.prepaidUstx, r.remainingClaims)
           IN  /\ burn \in Nat /\ burn <= r.prepaidUstx
               /\ escrow' = escrow - burn
               /\ burned' = [burned EXCEPT ![r.sponsor] = @ + burn]
               /\ stx' = stx
               /\ r.remainingClaims <= 1 =>
                     burn = r.prepaidUstx /\ registrations' = MapDelete(registrations, key)
               /\ r.remainingClaims > 1 =>
                     registrations' = MapSet(registrations, key, Advanced(r, current))
<1> DEFINE r == registrations[key]
           burn == BurnAmount(r.prepaidUstx, r.remainingClaims)
<1>1. r \in Registration
  BY DEF IInv, RegistrationInv, RegistrationTypes, IsMap
<1>2. burn \in 0 .. r.prepaidUstx /\ r.remainingClaims \in Nat /\ r.prepaidUstx \in Nat
  BY <1>1, BurnWithinEscrow DEF Registration
<1>3. r.prepaidUstx <= escrow /\ escrow \in Nat
  BY PrepaidWithinEscrow DEF IInv, LedgerTypes
<1>4. ~(burn > escrow)
  BY <1>2, <1>3
<1>5. r.remainingClaims <= 1 => burn = r.prepaidUstx
  BY DEF BurnAmount
<1> QED BY <1>2, <1>4, <1>5 DEF AdvanceRegistration

LEMMA AdvanceMoney ==
    ASSUME IInv, IInv', MoneyInv, NEW key \in DOMAIN registrations, NEW current \in Nat,
           AdvanceRegistration(key, registrations[key], current)
    PROVE  MoneyInv'
<1> DEFINE r == registrations[key]
           burn == BurnAmount(r.prepaidUstx, r.remainingClaims)
           left == r.prepaidUstx - burn
<1>1. r \in Registration
  BY DEF IInv, RegistrationInv, RegistrationTypes, IsMap
<1>t. /\ r.prepaidUstx \in Nat /\ r.remainingClaims \in Nat /\ r.sponsor \in Principals
  BY <1>1 DEF Registration
<1>2. /\ burn \in Nat /\ burn <= r.prepaidUstx
      /\ escrow' = escrow - burn
      /\ burned' = [burned EXCEPT ![r.sponsor] = @ + burn]
      /\ stx' = stx
      /\ r.remainingClaims <= 1 =>
            burn = r.prepaidUstx /\ registrations' = MapDelete(registrations, key)
      /\ r.remainingClaims > 1 =>
            registrations' = MapSet(registrations, key, Advanced(r, current))
  BY AdvanceEffects
<1>3. /\ Paid(registrations, key) = r.prepaidUstx
      /\ \A p : PaidBy(registrations, key, p) = IF p = r.sponsor THEN r.prepaidUstx ELSE 0
  BY DEF Paid, PaidBy, SponsoredBy
<1>a. /\ Advanced(r, current).prepaidUstx = left
      /\ Advanced(r, current).sponsor = r.sponsor
  BY <1>1 DEF Advanced, Registration
<1>4. /\ DOMAIN registrations \ {key} = DOMAIN registrations' \ {key}
      /\ \A x \in DOMAIN registrations \ {key} : registrations'[x] = registrations[x]
      /\ Paid(registrations', key) = left
      /\ \A p : PaidBy(registrations', key, p) = IF p = r.sponsor THEN left ELSE 0
  <2>1. CASE r.remainingClaims <= 1
    <3>1. registrations' = MapDelete(registrations, key) /\ burn = r.prepaidUstx
      BY <1>2, <2>1
    <3>2. left = 0
      BY <1>t, <3>1
    <3> QED BY <3>1, <3>2 DEF MapDelete, Paid, PaidBy, SponsoredBy
  <2>2. CASE r.remainingClaims > 1
    <3>1. registrations' = MapSet(registrations, key, Advanced(r, current))
      BY <1>2, <2>2
    <3> HIDE DEF r, left
    <3>2. /\ DOMAIN registrations' = DOMAIN registrations
          /\ registrations'[key] = Advanced(r, current)
          /\ \A x \in DOMAIN registrations \ {key} : registrations'[x] = registrations[x]
      BY <3>1 DEF MapSet
    <3> QED BY <1>a, <3>2 DEF Paid, PaidBy, SponsoredBy
  <2> QED BY <1>t, <2>1, <2>2
<1>5. /\ burned \in [Principals -> Nat] /\ stx \in [Principals -> Nat]
      /\ \A p \in Principals : stx[p] \in Nat /\ burned[p] \in Nat
      /\ escrow \in Nat
  BY DEF IInv, LedgerTypes
<1> HIDE DEF burn, r
<1>6. \A p \in Principals : burned'[p] = burned[p] + (IF p = r.sponsor THEN burn ELSE 0)
  BY <1>2, <1>5, <1>t
<1>7. escrow' = escrow - Paid(registrations, key) + Paid(registrations', key)
  BY <1>2, <1>3, <1>4, <1>5, <1>t
<1>8. ASSUME NEW p \in Principals
      PROVE  stx'[p] + burned'[p] = stx[p] + burned[p] + PaidBy(registrations, key, p)
                                        - PaidBy(registrations', key, p)
  BY <1>2, <1>3, <1>4, <1>5, <1>6, <1>t
<1> QED BY <1>4, <1>7, <1>8, MoneyMoves

LEMMA InitMoney == Init => MoneyInv
<1> SUFFICES ASSUME Init PROVE MoneyInv
  OBVIOUS
<1>1. DOMAIN registrations = {} /\ \A p : SponsoredBy(registrations, p) = {}
  BY DEF Init, EmptyMap, SponsoredBy
<1>2. SumOver(Escrowed(registrations), {}) = 0
  BY SumEmpty
<1>3. /\ SumOver(Escrowed(registrations), DOMAIN registrations) = 0
      /\ \A p : SumOver(Escrowed(registrations), SponsoredBy(registrations, p)) = 0
  BY <1>1, <1>2
<1>4. \A p \in Principals : stx[p] + burned[p] + 0 = InitialStx
  BY BoundsAssumption DEF Init
<1>5. escrow = 0
  BY DEF Init
<1> QED BY <1>3, <1>4, <1>5, MoneyIs DEF MoneyInv

LEMMA StepMoney == IInv /\ IInv' /\ MoneyInv /\ [Next]_vars => MoneyInv'
<1> SUFFICES ASSUME IInv, IInv', MoneyInv, [Next]_vars PROVE MoneyInv'
  OBVIOUS
<1>1. CASE UNCHANGED <<registrationVars, ledgerVars>>
  BY <1>1, MoneyIs DEF MoneyInv, registrationVars, ledgerVars
<1>2. CASE RegistrationStep
  <2>1. CASE /\ tx.phase \in {"pull", "claim"}
             /\ AdvanceRegistration(ClaimKey(tx), registrations[ClaimKey(tx)], tx.current)
    BY <2>1, CopyIsStored, AdvanceMoney
  <2> QED BY <1>2, <2>1, RegisterMoney, TopUpMoney, CancelMoney DEF RegistrationStep
<1> QED BY <1>1, <1>2, RegistrationSteps

-----------------------------------------------------------------------------
(* What a registration bought and claimed.  The three properties of the      *)
(* history need each other's parts: the claimed cycles lie below the next   *)
(* one, so a claim is a new one; the next one keeps its half of the cycle.  *)
HistoryInv ==
    /\ \A key \in DOMAIN registrations :
          /\ key \in DOMAIN history
          /\ registrations[key].remainingClaims > 0
          /\ IsFiniteSet(history[key].served)
          /\ history[key].bought =
                 registrations[key].remainingClaims + Cardinality(history[key].served)
          /\ \A d \in history[key].served : d < registrations[key].nextClaimDistribution
          /\ history[key].oneClaimPerRewardCycle = registrations[key].oneClaimPerRewardCycle
          /\ registrations[key].oneClaimPerRewardCycle =>
                 registrations[key].nextClaimDistribution % 2 = 1
    /\ \A key \in DOMAIN history : \A d \in history[key].served :
          /\ d < CurrentDistribution /\ d <= LastRewardsComputeDistribution
          /\ history[key].oneClaimPerRewardCycle => d % 2 = 1
          /\ key.staker \in DOMAIN maxProcessed /\ d <= maxProcessed[key.staker]

(* What a batch of claims read from pox-5 at its start is not ahead of pox-5, *)
(* and the registration it is at was due by it.                              *)
ClockInv ==
    /\ tx.phase \in {"claims", "pull", "claim"} =>
          tx.current <= CurrentDistribution /\ tx.computed <= LastRewardsComputeDistribution
    /\ tx.phase \in {"pull", "claim"} =>
          IsDue(tx.registration.nextClaimDistribution, tx.current, tx.computed)

(* A later block is in the same distribution cycle or a later one. *)
LEMMA DistributionsGrow ==
    ASSUME NEW a \in Nat, NEW b \in Nat, a <= b
    PROVE  DistributionIndex(a) \in Nat /\ DistributionIndex(a) <= DistributionIndex(b)
<1> DEFINE n == DistributionLength
           x == a \div n
           y == b \div n
<1>n. n \in Nat \ {0}
  BY BoundsAssumption
<1> HIDE DEF n
<1>1. x \in Nat /\ n * x <= a /\ a < n * (x + 1)
  BY <1>n
<1>2. y \in Nat /\ n * y <= b /\ b < n * (y + 1)
  BY <1>n
<1> HIDE DEF x, y
<1>3. x <= y
  <2> SUFFICES ASSUME x > y PROVE FALSE
    BY <1>1, <1>2
  <2>1. x >= y + 1
    BY <1>1, <1>2
  <2>2. n * x >= n * (y + 1)
    BY <1>n, <1>1, <1>2, <2>1
  <2>3. n * x \in Nat /\ n * (y + 1) \in Nat
    BY <1>n, <1>1, <1>2
  <2> QED BY <1>1, <1>2, <2>2, <2>3
<1> QED BY <1>1, <1>3 DEF DistributionIndex, x, y, n

LEMMA HeightsGrow ==
    ASSUME IInv, [Next]_vars
    PROVE  burnHeight' >= burnHeight /\ computeHeight' >= computeHeight
<1>t. burnHeight \in Nat /\ computeHeight \in Nat
  BY DEF IInv, ExternalTypes
<1>f. UNCHANGED externalVars => burnHeight' >= burnHeight /\ computeHeight' >= computeHeight
  BY <1>t DEF externalVars
<1>1. CASE Call
  BY <1>1, <1>f DEF Call, SetFeePerClaim, UpdateAdmin, RegisterForClaims, AddClaims,
     CancelRegistration, RegisterManyForClaims, CancelManyRegistrations, ProcessRewardClaims,
     SettlePendingWithdrawals
<1>2. CASE Step
  BY <1>2, <1>f DEF Step, CountRegistrations, CountCancellations, BatchDone, SkipClaim, CountClaim,
     PullSucceeds, PullFails, ClaimReturns, CountSettlement, CallSettle, SettleReturns
<1>3. CASE External
  BY <1>3, <1>t DEF External, BurnBlock, CalculateRewards, ChangePosition, InitiateWithdrawal,
     ResolveWithdrawal
<1>4. CASE UNCHANGED vars
  BY <1>4, <1>t DEF vars
<1> QED BY <1>1, <1>2, <1>3, <1>4 DEF Next

LEMMA DistributionsPass ==
    ASSUME IInv, IInv', [Next]_vars
    PROVE  /\ CurrentDistribution \in Nat /\ CurrentDistribution' \in Nat
           /\ CurrentDistribution <= CurrentDistribution'
           /\ LastRewardsComputeDistribution \in Int /\ LastRewardsComputeDistribution' \in Int
           /\ LastRewardsComputeDistribution <= LastRewardsComputeDistribution'
<1>t. /\ burnHeight \in Nat /\ computeHeight \in Nat /\ burnHeight' \in Nat /\ computeHeight' \in Nat
  BY DEF IInv, ExternalTypes
<1>1. burnHeight' >= burnHeight /\ computeHeight' >= computeHeight
  BY HeightsGrow
<1>2. /\ DistributionIndex(burnHeight) \in Nat /\ DistributionIndex(burnHeight') \in Nat
      /\ DistributionIndex(burnHeight) <= DistributionIndex(burnHeight')
      /\ DistributionIndex(computeHeight) \in Nat /\ DistributionIndex(computeHeight') \in Nat
      /\ DistributionIndex(computeHeight) <= DistributionIndex(computeHeight')
  BY <1>t, <1>1, DistributionsGrow
<1>3. /\ CurrentDistribution = DistributionIndex(burnHeight)
      /\ CurrentDistribution' = DistributionIndex(burnHeight')
      /\ LastRewardsComputeDistribution = IF computeHeight = 0 THEN -1 ELSE DistributionIndex(computeHeight)
      /\ LastRewardsComputeDistribution' = IF computeHeight' = 0 THEN -1 ELSE DistributionIndex(computeHeight')
  BY DEF CurrentDistribution, LastRewardsComputeDistribution, DistributionIndex
<1> QED BY <1>t, <1>1, <1>2, <1>3

(* Where the frame of a claim comes from. *)
LEMMA ClaimFrames ==
    ASSUME IInv, [Next]_vars
    PROVE  \/ tx' = tx
           \/ tx'.phase \notin {"claims", "pull", "claim"}
           \/ /\ tx'.phase = "claims"
              /\ tx'.current = CurrentDistribution /\ tx'.computed = LastRewardsComputeDistribution
           \/ /\ tx'.phase = "claims" /\ tx.phase \in {"claims", "pull", "claim"}
              /\ tx'.current = tx.current /\ tx'.computed = tx.computed
           \/ /\ tx'.phase \in {"pull", "claim"} /\ tx.phase = "claims"
              /\ tx'.current = tx.current /\ tx'.computed = tx.computed
              /\ IsDue(tx'.registration.nextClaimDistribution, tx.current, tx.computed)
           \/ /\ tx'.phase = "claim" /\ tx.phase = "pull"
              /\ tx'.current = tx.current /\ tx'.computed = tx.computed
              /\ tx'.registration = tx.registration
<1>t. tx \in Transactions
  BY DEF IInv, CallInv, CallTypes
<1>f. UNCHANGED callVars => tx' = tx
  BY DEF callVars
<1>1. CASE Call
  <2>1. CASE /\ ~ \E p \in Senders, sm \in SignerManagers, entries \in RegisterBatches :
                     RegisterManyForClaims(p, sm, entries)
             /\ ~ \E p \in Senders, sm \in SignerManagers, stakers \in CancelBatches :
                     CancelManyRegistrations(p, sm, stakers)
             /\ ~ \E sm \in SignerManagers, stakers \in ClaimBatches : ProcessRewardClaims(sm, stakers)
             /\ ~ \E sm \in SignerManagers, items \in SettleBatches : SettlePendingWithdrawals(sm, items)
    BY <1>1, <1>f, <2>1 DEF Call, SetFeePerClaim, UpdateAdmin, RegisterForClaims, AddClaims,
                            CancelRegistration
  <2>2. ASSUME NEW p, NEW sm, NEW batch,
               RegisterManyForClaims(p, sm, batch) \/ CancelManyRegistrations(p, sm, batch)
                 \/ SettlePendingWithdrawals(sm, batch)
        PROVE  tx'.phase \notin {"claims", "pull", "claim"}
    BY <2>2 DEF RegisterManyForClaims, CancelManyRegistrations, SettlePendingWithdrawals,
                Registering, Cancelling, Settling
  <2>3. ASSUME NEW sm, NEW stakers, ProcessRewardClaims(sm, stakers)
        PROVE  /\ tx'.phase = "claims"
               /\ tx'.current = CurrentDistribution /\ tx'.computed = LastRewardsComputeDistribution
    BY <2>3 DEF ProcessRewardClaims, Claiming
  <2> QED BY <2>1, <2>2, <2>3
<1>2. CASE Step
  <2>1. CASE CountRegistrations
    <3>1. tx'.phase = "registers"
      BY <1>t, <2>1, TransactionShape DEF CountRegistrations, DropItem
    <3> QED BY <3>1
  <2>2. CASE CountCancellations
    <3>1. tx'.phase = "cancels"
      BY <1>t, <2>2, TransactionShape DEF CountCancellations, DropItem
    <3> QED BY <3>1
  <2>3. CASE BatchDone
    BY <2>3 DEF BatchDone, Idle
  <2>4. CASE SkipClaim
    <3>1. tx \in [phase : {"claims"}, signerManager : SignerManagers, todo : Seq(Stakers),
                  current : Nat, computed : Computed]
      BY <1>t, <2>4, TransactionShape DEF SkipClaim
    <3>2. tx'.phase = "claims" /\ tx.phase = "claims"
          /\ tx'.current = tx.current /\ tx'.computed = tx.computed
      BY <2>4, <3>1 DEF SkipClaim, DropItem
    <3> QED BY <3>2
  <2>5. ASSUME NEW needsPull \in BOOLEAN, CountClaim(needsPull)
        PROVE  /\ tx'.phase \in {"pull", "claim"} /\ tx.phase = "claims"
               /\ tx'.current = tx.current /\ tx'.computed = tx.computed
               /\ IsDue(tx'.registration.nextClaimDistribution, tx.current, tx.computed)
    BY <2>5 DEF CountClaim, InClaimCall
  <2>6. CASE PullSucceeds
    <3>1. tx \in [phase : {"pull", "claim"}, signerManager : SignerManagers,
                  todo : Seq(Stakers) \ {<<>>}, current : Nat, computed : Computed,
                  registration : Registration]
      BY <1>t, <2>6, TransactionShape DEF PullSucceeds
    <3>2. tx'.phase = "claim" /\ tx.phase = "pull"
          /\ tx'.current = tx.current /\ tx'.computed = tx.computed
          /\ tx'.registration = tx.registration
      BY <2>6, <3>1 DEF PullSucceeds
    <3> QED BY <3>2
  <2>7. CASE PullFails
    BY <2>7 DEF PullFails, NextClaim, Claiming
  <2>8. ASSUME NEW request \in RequestIds \cup {None}, ClaimReturns(request)
        PROVE  /\ tx'.phase = "claims" /\ tx.phase \in {"claims", "pull", "claim"}
               /\ tx'.current = tx.current /\ tx'.computed = tx.computed
    BY <2>8 DEF ClaimReturns, NextClaim, Claiming
  <2>9. CASE CountSettlement
    <3>1. tx'.phase = "settles"
      BY <1>t, <2>9, TransactionShape DEF CountSettlement, DropItem
    <3> QED BY <3>1
  <2>10. CASE CallSettle
    BY <2>10 DEF CallSettle, InSettleCall
  <2>11. ASSUME NEW succeeded \in BOOLEAN, SettleReturns(succeeded)
         PROVE  tx'.phase \notin {"claims", "pull", "claim"}
    BY <2>11 DEF SettleReturns, Settling
  <2> QED BY <1>2, <2>1, <2>2, <2>3, <2>4, <2>5, <2>6, <2>7, <2>8, <2>9, <2>10, <2>11 DEF Step
<1>3. CASE External
  BY <1>3, <1>f DEF External, BurnBlock, CalculateRewards, ChangePosition, InitiateWithdrawal,
              ResolveWithdrawal
<1>4. CASE UNCHANGED vars
  BY <1>4 DEF vars
<1> QED BY <1>1, <1>2, <1>3, <1>4 DEF Next

LEMMA StepClock == IInv /\ IInv' /\ ClockInv /\ [Next]_vars => ClockInv'
<1> SUFFICES ASSUME IInv, IInv', ClockInv, [Next]_vars PROVE ClockInv'
  OBVIOUS
<1>1. /\ CurrentDistribution \in Nat /\ CurrentDistribution' \in Nat
      /\ CurrentDistribution <= CurrentDistribution'
      /\ LastRewardsComputeDistribution \in Int /\ LastRewardsComputeDistribution' \in Int
      /\ LastRewardsComputeDistribution <= LastRewardsComputeDistribution'
  BY DistributionsPass
<1>2. tx.phase \in {"claims", "pull", "claim"} => tx.current \in Nat /\ tx.computed \in Int
  BY TransactionShape DEF IInv, CallInv, CallTypes, Computed
<1>3. tx'.phase \in {"claims", "pull", "claim"} =>
         tx'.current <= CurrentDistribution' /\ tx'.computed <= LastRewardsComputeDistribution'
  BY <1>1, <1>2, ClaimFrames DEF ClockInv
<1>4. tx'.phase \in {"pull", "claim"} =>
         IsDue(tx'.registration.nextClaimDistribution, tx'.current, tx'.computed)
  BY ClaimFrames DEF ClockInv
<1> QED BY <1>3, <1>4 DEF ClockInv, IsDue

LEMMA InitHistory == Init => HistoryInv /\ ClockInv
BY DEF Init, HistoryInv, ClockInv, EmptyMap, Idle

(* What a claim was stays so. *)
LEMMA ClaimedStays ==
    ASSUME IInv, IInv', [Next]_vars, NEW key \in DOMAIN history, NEW d \in history[key].served,
           d < CurrentDistribution, d <= LastRewardsComputeDistribution
    PROVE  d \in Nat /\ d < CurrentDistribution' /\ d <= LastRewardsComputeDistribution'
<1>1. d \in Nat
  BY DEF IInv, RegistrationInv, RegistrationTypes, IsMap
<1> QED BY <1>1, DistributionsPass

(* The history of the keys other than the one a step touches. *)
LEMMA HistoryMoves ==
    ASSUME IInv, IInv', HistoryInv, [Next]_vars, NEW key,
           DOMAIN registrations' \ {key} = DOMAIN registrations \ {key},
           DOMAIN history' \ {key} = DOMAIN history \ {key},
           \A x \in DOMAIN registrations \ {key} : registrations'[x] = registrations[x],
           \A x \in DOMAIN history \ {key} : history'[x] = history[x],
           \A s \in DOMAIN maxProcessed :
              s \in DOMAIN maxProcessed' /\ maxProcessed[s] <= maxProcessed'[s],
           key \in DOMAIN registrations' =>
              /\ key \in DOMAIN history'
              /\ registrations'[key].remainingClaims > 0
              /\ IsFiniteSet(history'[key].served)
              /\ history'[key].bought =
                     registrations'[key].remainingClaims + Cardinality(history'[key].served)
              /\ \A d \in history'[key].served : d < registrations'[key].nextClaimDistribution
              /\ history'[key].oneClaimPerRewardCycle = registrations'[key].oneClaimPerRewardCycle
              /\ registrations'[key].oneClaimPerRewardCycle =>
                     registrations'[key].nextClaimDistribution % 2 = 1,
           key \in DOMAIN history' => \A d \in history'[key].served :
              /\ d < CurrentDistribution' /\ d <= LastRewardsComputeDistribution'
              /\ history'[key].oneClaimPerRewardCycle => d % 2 = 1
              /\ key.staker \in DOMAIN maxProcessed' /\ d <= maxProcessed'[key.staker]
    PROVE  HistoryInv'
<1>1. ASSUME NEW x \in DOMAIN registrations', x # key
      PROVE  /\ x \in DOMAIN history'
             /\ registrations'[x].remainingClaims > 0
             /\ IsFiniteSet(history'[x].served)
             /\ history'[x].bought =
                    registrations'[x].remainingClaims + Cardinality(history'[x].served)
             /\ \A d \in history'[x].served : d < registrations'[x].nextClaimDistribution
             /\ history'[x].oneClaimPerRewardCycle = registrations'[x].oneClaimPerRewardCycle
             /\ registrations'[x].oneClaimPerRewardCycle =>
                    registrations'[x].nextClaimDistribution % 2 = 1
  <2>1. x \in DOMAIN registrations /\ registrations'[x] = registrations[x]
    BY <1>1
  <2>2. x \in DOMAIN history
    BY <2>1 DEF HistoryInv
  <2>3. x \in DOMAIN history' /\ history'[x] = history[x]
    BY <1>1, <2>2
  <2> QED BY <2>1, <2>3 DEF HistoryInv
<1>2. ASSUME NEW x \in DOMAIN history', x # key, NEW d \in history'[x].served
      PROVE  /\ d < CurrentDistribution' /\ d <= LastRewardsComputeDistribution'
             /\ history'[x].oneClaimPerRewardCycle => d % 2 = 1
             /\ x.staker \in DOMAIN maxProcessed' /\ d <= maxProcessed'[x.staker]
  <2>1. x \in DOMAIN history /\ history'[x] = history[x]
    BY <1>2
  <2>2. /\ d < CurrentDistribution /\ d <= LastRewardsComputeDistribution
        /\ history[x].oneClaimPerRewardCycle => d % 2 = 1
        /\ x.staker \in DOMAIN maxProcessed /\ d <= maxProcessed[x.staker]
    BY <1>2, <2>1 DEF HistoryInv
  <2>3. d \in Nat /\ d < CurrentDistribution' /\ d <= LastRewardsComputeDistribution'
    BY <1>2, <2>1, <2>2, ClaimedStays
  <2>4. maxProcessed[x.staker] \in Nat
    BY <2>2 DEF IInv, RegistrationInv, RegistrationTypes, IsMap
  <2>5. x.staker \in DOMAIN maxProcessed' /\ maxProcessed[x.staker] <= maxProcessed'[x.staker]
    BY <2>2
  <2>6. maxProcessed'[x.staker] \in Nat
    BY <2>5 DEF IInv, RegistrationInv, RegistrationTypes, IsMap
  <2> QED BY <2>1, <2>2, <2>3, <2>4, <2>5, <2>6
<1> QED BY <1>1, <1>2 DEF HistoryInv

LEMMA MaxProcessedKept ==
    ASSUME IInv, maxProcessed' = maxProcessed
    PROVE  \A s \in DOMAIN maxProcessed :
              s \in DOMAIN maxProcessed' /\ maxProcessed[s] <= maxProcessed'[s]
BY DEF IInv, RegistrationInv, RegistrationTypes, IsMap

LEMMA RegisterHistory ==
    ASSUME IInv, IInv', HistoryInv, [Next]_vars, NEW sender \in Principals,
           NEW sm \in SignerManagers, NEW entry \in Entry,
           AcceptsRegistration(sender, sm, entry), RegisterForClaimsImpl(sender, sm, entry)
    PROVE  HistoryInv'
<1> DEFINE key == KeyOf(entry.staker, sm)
           next == InitialNextClaimDistribution(entry.startRewardCycle,
                                                entry.oneClaimPerRewardCycle)
<1>1. /\ DOMAIN registrations' = DOMAIN registrations \cup {key}
      /\ registrations'[key].remainingClaims = entry.numClaims
      /\ registrations'[key].oneClaimPerRewardCycle = entry.oneClaimPerRewardCycle
      /\ registrations'[key].nextClaimDistribution = next
      /\ \A x \in DOMAIN registrations \ {key} : registrations'[x] = registrations[x]
      /\ DOMAIN history' = DOMAIN history \cup {key}
      /\ history'[key] = [bought |-> entry.numClaims, served |-> {},
                          oneClaimPerRewardCycle |-> entry.oneClaimPerRewardCycle]
      /\ \A x \in DOMAIN history \ {key} : history'[x] = history[x]
      /\ maxProcessed' = maxProcessed
      /\ entry.numClaims > 0
  BY DEF RegisterForClaimsImpl, AcceptsRegistration, MapSet
<1>2. entry.numClaims \in Nat /\ entry.startRewardCycle \in Nat
      /\ entry.oneClaimPerRewardCycle \in BOOLEAN
  BY DEF Entry
<1>3. entry.oneClaimPerRewardCycle => next % 2 = 1
  BY <1>2, InitialInStartCycle
<1>4. IsFiniteSet({}) /\ Cardinality({}) = 0
  BY FS_EmptySet
<1> HIDE DEF key, next
<1>5. /\ history'[key].served = {} /\ history'[key].bought = entry.numClaims
      /\ history'[key].oneClaimPerRewardCycle = entry.oneClaimPerRewardCycle
  BY <1>1
<1>6. \A s \in DOMAIN maxProcessed :
          s \in DOMAIN maxProcessed' /\ maxProcessed[s] <= maxProcessed'[s]
  BY <1>1, MaxProcessedKept
<1>7. /\ DOMAIN registrations' \ {key} = DOMAIN registrations \ {key}
      /\ DOMAIN history' \ {key} = DOMAIN history \ {key}
      /\ key \in DOMAIN history'
  BY <1>1
<1>8. history'[key].bought = registrations'[key].remainingClaims + Cardinality(history'[key].served)
  BY <1>1, <1>2, <1>4, <1>5
<1> QED BY <1>1, <1>3, <1>4, <1>5, <1>6, <1>7, <1>8, HistoryMoves

LEMMA TopUpHistory ==
    ASSUME IInv, IInv', HistoryInv, [Next]_vars, NEW sender \in Principals, NEW key \in Key,
           NEW n \in Nat \ {0}, TopUp(sender, key, n)
    PROVE  HistoryInv'
<1> DEFINE r == registrations[key]
           h == history[key]
<1>r. key \in DOMAIN registrations /\ r \in Registration /\ key \in DOMAIN history
      /\ h \in [bought : Nat, served : SUBSET Nat, oneClaimPerRewardCycle : BOOLEAN]
  BY DEF IInv, RegistrationInv, RegistrationTypes, IsMap, TopUp, HistoryInv
<1>1. /\ DOMAIN registrations' = DOMAIN registrations
      /\ registrations'[key].remainingClaims = r.remainingClaims + n
      /\ registrations'[key].oneClaimPerRewardCycle = r.oneClaimPerRewardCycle
      /\ registrations'[key].nextClaimDistribution = r.nextClaimDistribution
      /\ \A x \in DOMAIN registrations \ {key} : registrations'[x] = registrations[x]
  BY <1>r DEF TopUp, MapSet, ToppedUp, Registration
<1>2. /\ DOMAIN history' = DOMAIN history
      /\ history'[key] = [h EXCEPT !.bought = @ + n]
      /\ \A x \in DOMAIN history \ {key} : history'[x] = history[x]
      /\ maxProcessed' = maxProcessed
  BY <1>r DEF TopUp
<1>3. /\ history'[key].bought = h.bought + n /\ history'[key].served = h.served
      /\ history'[key].oneClaimPerRewardCycle = h.oneClaimPerRewardCycle
  BY <1>r, <1>2
<1>4. /\ r.remainingClaims > 0 /\ IsFiniteSet(h.served)
      /\ h.bought = r.remainingClaims + Cardinality(h.served)
      /\ \A d \in h.served : d < r.nextClaimDistribution
      /\ h.oneClaimPerRewardCycle = r.oneClaimPerRewardCycle
      /\ r.oneClaimPerRewardCycle => r.nextClaimDistribution % 2 = 1
  BY <1>r DEF HistoryInv
<1>5. Cardinality(h.served) \in Nat /\ r.remainingClaims \in Nat
  BY <1>r, <1>4, FS_CardinalityType DEF Registration
<1>6. \A d \in h.served : /\ d < CurrentDistribution /\ d <= LastRewardsComputeDistribution
                          /\ h.oneClaimPerRewardCycle => d % 2 = 1
                          /\ key.staker \in DOMAIN maxProcessed /\ d <= maxProcessed[key.staker]
  BY <1>r DEF HistoryInv
<1>7. \A d \in h.served : d < CurrentDistribution' /\ d <= LastRewardsComputeDistribution'
  BY <1>r, <1>6, ClaimedStays
<1> HIDE DEF r, h
<1>8. \A s \in DOMAIN maxProcessed :
          s \in DOMAIN maxProcessed' /\ maxProcessed[s] <= maxProcessed'[s]
  BY <1>2, MaxProcessedKept
<1>9. /\ registrations'[key].remainingClaims > 0
      /\ history'[key].bought =
            registrations'[key].remainingClaims + Cardinality(history'[key].served)
  BY <1>1, <1>3, <1>4, <1>5
<1>10. \A d \in history'[key].served :
              /\ d < CurrentDistribution' /\ d <= LastRewardsComputeDistribution'
              /\ history'[key].oneClaimPerRewardCycle => d % 2 = 1
              /\ key.staker \in DOMAIN maxProcessed' /\ d <= maxProcessed'[key.staker]
  BY <1>2, <1>3, <1>6, <1>7
<1> QED BY <1>r, <1>1, <1>2, <1>3, <1>4, <1>8, <1>9, <1>10, HistoryMoves

LEMMA CancelHistory ==
    ASSUME IInv, IInv', HistoryInv, [Next]_vars, NEW sender \in Principals, NEW key \in Key,
           CancelRegistrationImpl(sender, key)
    PROVE  HistoryInv'
<1>1. /\ registrations' = MapDelete(registrations, key)
      /\ history' = history /\ maxProcessed' = maxProcessed
  BY DEF CancelRegistrationImpl
<1>2. /\ DOMAIN registrations' = DOMAIN registrations \ {key}
      /\ \A x \in DOMAIN registrations \ {key} : registrations'[x] = registrations[x]
  BY <1>1 DEF MapDelete
<1>3. \A s \in DOMAIN maxProcessed :
          s \in DOMAIN maxProcessed' /\ maxProcessed[s] <= maxProcessed'[s]
  BY <1>1, MaxProcessedKept
<1>4. key \in DOMAIN history' => \A d \in history'[key].served :
              /\ d < CurrentDistribution' /\ d <= LastRewardsComputeDistribution'
              /\ history'[key].oneClaimPerRewardCycle => d % 2 = 1
              /\ key.staker \in DOMAIN maxProcessed' /\ d <= maxProcessed'[key.staker]
  BY <1>1, ClaimedStays DEF HistoryInv
<1>5. /\ DOMAIN registrations' \ {key} = DOMAIN registrations \ {key}
      /\ key \notin DOMAIN registrations'
      /\ DOMAIN history' = DOMAIN history /\ \A x \in DOMAIN history \ {key} : history'[x] = history[x]
  BY <1>1, <1>2
<1> QED BY <1>2, <1>3, <1>4, <1>5, HistoryMoves

(* record-max-processed-distribution raises the staker's maximum to the claim *)
(* and lowers nobody's.                                                       *)
LEMMA MaxProcessedRaised ==
    ASSUME IInv, NEW staker, NEW d \in Nat, RecordMaxProcessedDistribution(staker, d)
    PROVE  /\ \A s \in DOMAIN maxProcessed :
                 s \in DOMAIN maxProcessed' /\ maxProcessed[s] <= maxProcessed'[s]
           /\ staker \in DOMAIN maxProcessed' /\ d <= maxProcessed'[staker]
<1>1. \A s \in DOMAIN maxProcessed : maxProcessed[s] \in Nat
  BY DEF IInv, RegistrationInv, RegistrationTypes, IsMap
<1> QED BY <1>1 DEF RecordMaxProcessedDistribution, MapSet, RaiseTo

(* advance-registration records its claim: the burn is within the escrow. *)
LEMMA AdvanceClaims ==
    ASSUME IInv, MoneyInv, NEW key \in DOMAIN registrations, NEW current \in Nat,
           AdvanceRegistration(key, registrations[key], current)
    PROVE  history' = [history EXCEPT ![key].served =
                          @ \cup {registrations[key].nextClaimDistribution}]
<1> DEFINE r == registrations[key]
<1>1. r.prepaidUstx <= escrow /\ r \in Registration
  BY PrepaidWithinEscrow DEF IInv, RegistrationInv, RegistrationTypes, IsMap
<1>2. BurnAmount(r.prepaidUstx, r.remainingClaims) \in 0 .. r.prepaidUstx
      /\ r.prepaidUstx \in Nat /\ escrow \in Nat
  BY <1>1, BurnWithinEscrow DEF Registration, IInv, LedgerTypes
<1>3. ~(BurnAmount(r.prepaidUstx, r.remainingClaims) > escrow)
  BY <1>1, <1>2
<1> QED BY <1>3 DEF AdvanceRegistration

LEMMA AdvanceHistory ==
    ASSUME IInv, IInv', MoneyInv, HistoryInv, [Next]_vars,
           NEW key \in DOMAIN registrations, NEW current \in Nat,
           registrations[key].nextClaimDistribution < CurrentDistribution,
           registrations[key].nextClaimDistribution <= LastRewardsComputeDistribution,
           AdvanceRegistration(key, registrations[key], current)
    PROVE  HistoryInv'
<1> DEFINE r == registrations[key]
           h == history[key]
           d == r.nextClaimDistribution
           served == h.served \cup {d}
<1>r. /\ r \in Registration /\ key \in DOMAIN history
      /\ h \in [bought : Nat, served : SUBSET Nat, oneClaimPerRewardCycle : BOOLEAN]
  BY DEF IInv, RegistrationInv, RegistrationTypes, IsMap, HistoryInv
<1>t. r.remainingClaims \in Nat /\ d \in Nat /\ r.oneClaimPerRewardCycle \in BOOLEAN
  BY <1>r DEF Registration
<1>1. /\ \A s \in DOMAIN maxProcessed :
            s \in DOMAIN maxProcessed' /\ maxProcessed[s] <= maxProcessed'[s]
      /\ key.staker \in DOMAIN maxProcessed' /\ d <= maxProcessed'[key.staker]
  BY <1>t, MaxProcessedRaised DEF AdvanceRegistration
<1>2. /\ r.remainingClaims <= 1 => registrations' = MapDelete(registrations, key)
      /\ r.remainingClaims > 1 => registrations' = MapSet(registrations, key, Advanced(r, current))
  BY AdvanceEffects
<1>3. history' = [history EXCEPT ![key].served = @ \cup {d}]
  BY AdvanceClaims
<1>4. /\ r.remainingClaims > 0 /\ IsFiniteSet(h.served)
      /\ h.bought = r.remainingClaims + Cardinality(h.served)
      /\ \A e \in h.served : e < d
      /\ h.oneClaimPerRewardCycle = r.oneClaimPerRewardCycle
      /\ r.oneClaimPerRewardCycle => d % 2 = 1
      /\ \A e \in h.served :
            /\ e < CurrentDistribution /\ e <= LastRewardsComputeDistribution
            /\ h.oneClaimPerRewardCycle => e % 2 = 1
            /\ key.staker \in DOMAIN maxProcessed /\ e <= maxProcessed[key.staker]
  BY <1>r DEF HistoryInv
<1>5. /\ d \notin h.served /\ h.served \subseteq Nat
      /\ IsFiniteSet(served) /\ Cardinality(served) = Cardinality(h.served) + 1
      /\ Cardinality(h.served) \in Nat
  BY <1>r, <1>t, <1>4, FS_AddElement, FS_CardinalityType
<1>6. /\ DOMAIN history' = DOMAIN history
      /\ history'[key] = [h EXCEPT !.served = served]
      /\ \A x \in DOMAIN history \ {key} : history'[x] = history[x]
  BY <1>r, <1>3
<1>7. /\ history'[key].bought = h.bought /\ history'[key].served = served
      /\ history'[key].oneClaimPerRewardCycle = h.oneClaimPerRewardCycle
  BY <1>r, <1>6
<1>8. ASSUME NEW e \in served
      PROVE  /\ e < CurrentDistribution' /\ e <= LastRewardsComputeDistribution'
             /\ h.oneClaimPerRewardCycle => e % 2 = 1
             /\ key.staker \in DOMAIN maxProcessed' /\ e <= maxProcessed'[key.staker]
  <2>t. /\ CurrentDistribution \in Nat /\ CurrentDistribution' \in Nat
        /\ CurrentDistribution <= CurrentDistribution'
        /\ LastRewardsComputeDistribution \in Int /\ LastRewardsComputeDistribution' \in Int
        /\ LastRewardsComputeDistribution <= LastRewardsComputeDistribution'
    BY DistributionsPass
  <2>1. CASE e = d
    BY <1>t, <1>1, <1>4, <2>t, <2>1
  <2>2. CASE e \in h.served
    <3>1. e \in Nat /\ maxProcessed'[key.staker] \in Nat /\ maxProcessed[key.staker] \in Nat
      BY <1>1, <1>4, <1>5, <2>2 DEF IInv, RegistrationInv, RegistrationTypes, IsMap
    <3> QED BY <1>1, <1>4, <2>t, <2>2, <3>1
  <2> QED BY <2>1, <2>2
<1>a. r.remainingClaims > 1 =>
         /\ Advanced(r, current).remainingClaims = r.remainingClaims - 1
         /\ Advanced(r, current).oneClaimPerRewardCycle = r.oneClaimPerRewardCycle
         /\ Advanced(r, current).nextClaimDistribution =
               NextClaimAfter(d, r.oneClaimPerRewardCycle, current)
  BY <1>r DEF Advanced, Registration
<1>n. /\ NextClaimAfter(d, r.oneClaimPerRewardCycle, current) \in Nat
      /\ NextClaimAfter(d, r.oneClaimPerRewardCycle, current) > d
      /\ r.oneClaimPerRewardCycle => NextClaimAfter(d, r.oneClaimPerRewardCycle, current) % 2 = 1
  <2>1. CASE r.oneClaimPerRewardCycle = TRUE
    <3>1. NextClaimAfter(d, TRUE, current) % 2 = 1
      BY <1>t, <1>4, <2>1, NextClaimOncePerCycle
    <3> QED BY <1>t, <2>1, <3>1, NextClaimGrows
  <2>2. CASE r.oneClaimPerRewardCycle = FALSE
    BY <1>t, <2>2, NextClaimGrows
  <2> QED BY <1>t, <2>1, <2>2
<1> DEFINE adv == Advanced(r, current)
           next == NextClaimAfter(d, r.oneClaimPerRewardCycle, current)
<1>9. /\ DOMAIN registrations' \ {key} = DOMAIN registrations \ {key}
      /\ \A x \in DOMAIN registrations \ {key} : registrations'[x] = registrations[x]
      /\ key \in DOMAIN registrations' => registrations'[key] = adv /\ r.remainingClaims > 1
  <2>1. CASE r.remainingClaims <= 1
    <3>1. registrations' = MapDelete(registrations, key)
      BY <1>2, <2>1
    <3> QED BY <3>1 DEF MapDelete
  <2>2. CASE r.remainingClaims > 1
    <3>1. registrations' = MapSet(registrations, key, adv)
      BY <1>2, <2>2
    <3> HIDE DEF adv
    <3> QED BY <2>2, <3>1 DEF MapSet
  <2> QED BY <1>t, <2>1, <2>2
<1> HIDE DEF adv, next, served, h, r
<1>10. \A e \in served : e < next
  <2>1. \A e \in served : e \in Nat /\ e <= d
    BY <1>t, <1>4, <1>5 DEF served, d
  <2> QED BY <2>1, <1>n, <1>t DEF next
<1>11. key \in DOMAIN registrations' =>
              /\ registrations'[key].remainingClaims > 0
              /\ history'[key].bought =
                     registrations'[key].remainingClaims + Cardinality(history'[key].served)
  BY <1>a, <1>t, <1>4, <1>5, <1>7, <1>9 DEF adv
<1>12. key \in DOMAIN registrations' =>
              /\ \A e \in history'[key].served : e < registrations'[key].nextClaimDistribution
              /\ history'[key].oneClaimPerRewardCycle = registrations'[key].oneClaimPerRewardCycle
              /\ registrations'[key].oneClaimPerRewardCycle =>
                     registrations'[key].nextClaimDistribution % 2 = 1
  BY <1>a, <1>n, <1>4, <1>7, <1>9, <1>10 DEF adv, next
<1>13. \A e \in history'[key].served :
              /\ e < CurrentDistribution' /\ e <= LastRewardsComputeDistribution'
              /\ history'[key].oneClaimPerRewardCycle => e % 2 = 1
              /\ key.staker \in DOMAIN maxProcessed' /\ e <= maxProcessed'[key.staker]
  BY <1>7, <1>8
<1>14. key \in DOMAIN history' /\ IsFiniteSet(history'[key].served)
       /\ DOMAIN history' \ {key} = DOMAIN history \ {key}
  BY <1>r, <1>5, <1>6, <1>7
<1> QED BY <1>1, <1>6, <1>9, <1>11, <1>12, <1>13, <1>14, HistoryMoves

(* The claim a batch is at was due when the batch began, so it is due now. *)
LEMMA ClaimWasDue ==
    ASSUME IInv, IInv', ClockInv, [Next]_vars, tx.phase \in {"pull", "claim"}
    PROVE  LET d == registrations[ClaimKey(tx)].nextClaimDistribution
           IN  /\ ClaimKey(tx) \in DOMAIN registrations /\ tx.current \in Nat /\ d \in Nat
               /\ d < tx.current /\ tx.current <= CurrentDistribution
               /\ d <= LastRewardsComputeDistribution
<1> DEFINE key == ClaimKey(tx)
<1>1. /\ key \in DOMAIN registrations /\ tx.current \in Nat
      /\ tx.registration = registrations[key]
  BY CopyIsStored DEF IInv, CallInv, NoStaleAdvance
<1>2. tx.computed \in Int /\ registrations[key] \in Registration
  BY <1>1, TransactionShape
  DEF IInv, CallInv, CallTypes, Computed, RegistrationInv, RegistrationTypes, IsMap
<1>3. registrations[key].nextClaimDistribution \in Nat
  BY <1>2 DEF Registration
<1>4. /\ registrations[key].nextClaimDistribution < tx.current
      /\ registrations[key].nextClaimDistribution <= tx.computed
      /\ tx.current <= CurrentDistribution /\ tx.computed <= LastRewardsComputeDistribution
  BY <1>1, <1>3 DEF ClockInv, IsDue, Elapsed, RewardsCalculated
<1>5. CurrentDistribution \in Nat /\ LastRewardsComputeDistribution \in Int
  BY DistributionsPass
<1> QED BY <1>1, <1>2, <1>3, <1>4, <1>5

LEMMA StepHistory ==
    ASSUME IInv, IInv', MoneyInv, ClockInv, HistoryInv, [Next]_vars
    PROVE  HistoryInv'
<1>1. CASE UNCHANGED <<registrationVars, ledgerVars>>
  <2>1. /\ registrations' = registrations /\ history' = history /\ maxProcessed' = maxProcessed
    BY <1>1 DEF registrationVars
  <2>2. \A key \in DOMAIN history : \A d \in history[key].served :
           d < CurrentDistribution' /\ d <= LastRewardsComputeDistribution'
    BY ClaimedStays DEF HistoryInv
  <2> QED BY <2>1, <2>2 DEF HistoryInv
<1>2. CASE RegistrationStep
  <2>1. CASE /\ tx.phase \in {"pull", "claim"}
             /\ AdvanceRegistration(ClaimKey(tx), registrations[ClaimKey(tx)], tx.current)
    <3> DEFINE key == ClaimKey(tx)
    <3>1. /\ key \in DOMAIN registrations /\ tx.current \in Nat
          /\ registrations[key].nextClaimDistribution < CurrentDistribution
          /\ registrations[key].nextClaimDistribution <= LastRewardsComputeDistribution
      <4>1. CurrentDistribution \in Nat
        BY DistributionsPass
      <4> QED BY <2>1, <4>1, ClaimWasDue
    <3> HIDE DEF key
    <3>2. AdvanceRegistration(key, registrations[key], tx.current)
      BY <2>1 DEF key
    <3> QED BY <3>1, <3>2, AdvanceHistory
  <2> QED BY <1>2, <2>1, RegisterHistory, TopUpHistory, CancelHistory DEF RegistrationStep
<1> QED BY <1>1, <1>2, RegistrationSteps

(* How the schedule moves on from the claim of next: what it leaves out      *)
(* between two claims is the other half of the cadence, or has elapsed.       *)
NoneSkipped(served, oneClaim, next, now) ==
    \A d \in served : \A e \in d .. next - 1 :
        \/ e \in served
        \/ oneClaim /\ e % 2 = 0
        \/ ~oneClaim /\ e % 2 = 1 /\ e - 1 \in served /\ Elapsed(e, now)

LEMMA ScheduleSkipsNone ==
    ASSUME NEW served \in SUBSET Nat, NEW next \in Nat, NEW oneClaim \in BOOLEAN,
           NEW current \in Nat, NEW now \in Nat, next < current, current <= now,
           oneClaim => next % 2 = 1, \A d \in served : d < next,
           NoneSkipped(served, oneClaim, next, now)
    PROVE  NoneSkipped(served \cup {next}, oneClaim, NextClaimAfter(next, oneClaim, current), now)
<1> DEFINE then == NextClaimAfter(next, oneClaim, current)
<1>1. ASSUME NEW e \in Nat, next < e, e < then
      PROVE  \/ oneClaim /\ e % 2 = 0
             \/ ~oneClaim /\ e % 2 = 1 /\ e - 1 = next /\ e < now
  <2>1. CASE oneClaim = TRUE
    <3>1. e = next + 1 /\ next % 2 = 1
      BY <1>1, <2>1 DEF NextClaimAfter
    <3> QED BY <2>1, <3>1
  <2>2. CASE oneClaim = FALSE
    <3>1. then \in next + 1 .. next + 2 /\ then <= current /\ (then = next + 2 => next % 2 = 0)
      BY <2>2, CatchUpIsBounded
    <3>2. e = next + 1 /\ next % 2 = 0 /\ e < current
      <4> HIDE DEF then
      <4> QED BY <1>1, <3>1
    <3> QED BY <2>2, <3>2
  <2> QED BY <2>1, <2>2
<1>2. then \in Nat /\ then > next
  BY NextClaimGrows
<1> HIDE DEF then
<1>3. ASSUME NEW d \in served \cup {next}, NEW e \in d .. then - 1
      PROVE  \/ e \in served \cup {next}
             \/ oneClaim /\ e % 2 = 0
             \/ ~oneClaim /\ e % 2 = 1 /\ e - 1 \in served \cup {next} /\ Elapsed(e, now)
  <2>1. d \in Nat /\ e \in Nat /\ d <= e /\ e < then
    BY <1>2
  <2>2. CASE e < next
    <3>1. d \in served /\ e \in d .. next - 1
      BY <2>1, <2>2
    <3> QED BY <3>1 DEF NoneSkipped
  <2>3. CASE e > next
    BY <1>1, <2>1, <2>3 DEF Elapsed
  <2> QED BY <2>1, <2>2, <2>3
<1> QED BY <1>3 DEF NoneSkipped, then

(* What had elapsed stays so. *)
LEMMA NoneSkippedLater ==
    ASSUME NEW served \in SUBSET Nat, NEW oneClaim, NEW next \in Nat, NEW now \in Nat,
           NEW later \in Nat, now <= later, NoneSkipped(served, oneClaim, next, now)
    PROVE  NoneSkipped(served, oneClaim, next, later)
<1>1. ASSUME NEW d \in served, NEW e \in d .. next - 1
      PROVE  Elapsed(e, now) => Elapsed(e, later)
  BY DEF Elapsed
<1> QED BY <1>1 DEF NoneSkipped

(* Of the steps only a claim moves a registration along its schedule. *)
LEMMA StepSkipsNone ==
    ASSUME IInv, IInv', MoneyInv, ClockInv, HistoryInv, HistoryInv', NoRewardCycleSkipped,
           [Next]_vars
    PROVE  NoRewardCycleSkipped'
<1> DEFINE Kept(x) == NoneSkipped(history'[x].served, registrations'[x].oneClaimPerRewardCycle,
                                  registrations'[x].nextClaimDistribution, CurrentDistribution')
<1>t. /\ CurrentDistribution \in Nat /\ CurrentDistribution' \in Nat
      /\ CurrentDistribution <= CurrentDistribution'
  BY DistributionsPass
<1>r. ASSUME NEW x \in DOMAIN registrations
      PROVE  /\ x \in DOMAIN history /\ history[x].served \in SUBSET Nat
             /\ registrations[x] \in Registration
             /\ registrations[x].nextClaimDistribution \in Nat
             /\ registrations[x].oneClaimPerRewardCycle \in BOOLEAN
             /\ NoneSkipped(history[x].served, registrations[x].oneClaimPerRewardCycle,
                            registrations[x].nextClaimDistribution, CurrentDistribution)
  <2>1. x \in DOMAIN history
    BY DEF HistoryInv
  <2>2. history[x].served \in SUBSET Nat
    BY <2>1 DEF IInv, RegistrationInv, RegistrationTypes, IsMap
  <2>3. registrations[x] \in Registration
    BY DEF IInv, RegistrationInv, RegistrationTypes, IsMap
  <2>4. /\ registrations[x].nextClaimDistribution \in Nat
        /\ registrations[x].oneClaimPerRewardCycle \in BOOLEAN
    BY <2>3 DEF Registration
  <2>5. NoneSkipped(history[x].served, registrations[x].oneClaimPerRewardCycle,
                    registrations[x].nextClaimDistribution, CurrentDistribution)
    BY DEF NoRewardCycleSkipped, NoneSkipped
  <2> QED BY <2>1, <2>2, <2>3, <2>4, <2>5
\* A registration whose schedule and claims stay as they are.
<1>1. ASSUME NEW x \in DOMAIN registrations,
             registrations'[x].nextClaimDistribution = registrations[x].nextClaimDistribution,
             registrations'[x].oneClaimPerRewardCycle = registrations[x].oneClaimPerRewardCycle,
             history'[x].served = history[x].served
      PROVE  Kept(x)
  BY <1>1, <1>r, <1>t, NoneSkippedLater
<1>2. CASE UNCHANGED <<registrationVars, ledgerVars>>
  <2>1. registrations' = registrations /\ history' = history
    BY <1>2 DEF registrationVars
  <2> QED BY <1>1, <2>1 DEF NoRewardCycleSkipped, NoneSkipped
<1>3. ASSUME NEW sender \in Principals, NEW sm \in SignerManagers, NEW entry \in Entry,
             AcceptsRegistration(sender, sm, entry), RegisterForClaimsImpl(sender, sm, entry)
      PROVE  NoRewardCycleSkipped'
  <2> DEFINE key == KeyOf(entry.staker, sm)
  <2>1. /\ DOMAIN registrations' = DOMAIN registrations \cup {key}
        /\ \A x \in DOMAIN registrations \ {key} : registrations'[x] = registrations[x]
        /\ history'[key] = [bought |-> entry.numClaims, served |-> {},
                            oneClaimPerRewardCycle |-> entry.oneClaimPerRewardCycle]
        /\ \A x \in DOMAIN history \ {key} : history'[x] = history[x]
    BY <1>3 DEF RegisterForClaimsImpl, AcceptsRegistration, MapSet
  <2> HIDE DEF key
  <2>2. ASSUME NEW x \in DOMAIN registrations', x # key PROVE Kept(x)
    BY <1>1, <1>r, <2>1, <2>2
  <2>3. history'[key].served = {}
    BY <2>1
  <2>4. Kept(key)
    BY <2>3 DEF NoneSkipped
  <2> QED BY <2>2, <2>4 DEF NoRewardCycleSkipped, NoneSkipped
<1>4. ASSUME NEW sender \in Principals, NEW key \in Key, NEW n \in Nat \ {0},
             TopUp(sender, key, n)
      PROVE  NoRewardCycleSkipped'
  <2>1. key \in DOMAIN registrations
    BY <1>4 DEF TopUp
  <2>2. /\ DOMAIN registrations' = DOMAIN registrations
        /\ registrations'[key].oneClaimPerRewardCycle = registrations[key].oneClaimPerRewardCycle
        /\ registrations'[key].nextClaimDistribution = registrations[key].nextClaimDistribution
        /\ \A x \in DOMAIN registrations \ {key} : registrations'[x] = registrations[x]
    BY <1>4, <1>r, <2>1 DEF TopUp, MapSet, ToppedUp, Registration
  <2>3. \A x \in DOMAIN history : history'[x].served = history[x].served
    BY <1>4 DEF TopUp
  <2>4. ASSUME NEW x \in DOMAIN registrations' PROVE Kept(x)
    BY <1>1, <1>r, <2>2, <2>3
  <2> QED BY <2>4 DEF NoRewardCycleSkipped, NoneSkipped
<1>5. ASSUME NEW sender \in Principals, NEW key \in Key, CancelRegistrationImpl(sender, key)
      PROVE  NoRewardCycleSkipped'
  <2>1. /\ \A x \in DOMAIN registrations' :
              x \in DOMAIN registrations /\ registrations'[x] = registrations[x]
        /\ history' = history
    BY <1>5 DEF CancelRegistrationImpl, MapDelete
  <2>2. ASSUME NEW x \in DOMAIN registrations' PROVE Kept(x)
    BY <1>1, <2>1
  <2> QED BY <2>2 DEF NoRewardCycleSkipped, NoneSkipped
<1>6. CASE /\ tx.phase \in {"pull", "claim"}
           /\ AdvanceRegistration(ClaimKey(tx), registrations[ClaimKey(tx)], tx.current)
  <2> DEFINE key == ClaimKey(tx)
             r == registrations[key]
             d == r.nextClaimDistribution
             adv == Advanced(r, tx.current)
  <2>1. /\ key \in DOMAIN registrations /\ tx.current \in Nat /\ d \in Nat
        /\ d < tx.current /\ tx.current <= CurrentDistribution
    BY <1>6, ClaimWasDue
  <2>2. /\ r.remainingClaims <= 1 => registrations' = MapDelete(registrations, key)
        /\ r.remainingClaims > 1 => registrations' = MapSet(registrations, key, adv)
    BY <1>6, <2>1, AdvanceEffects
  <2>3. history' = [history EXCEPT ![key].served = @ \cup {d}]
    BY <1>6, <2>1, AdvanceClaims
  <2>4. /\ history'[key].served = history[key].served \cup {d}
        /\ \A x \in DOMAIN history \ {key} : history'[x] = history[x]
    BY <2>1, <2>3, <1>r
  <2>5. /\ \A e \in history[key].served : e < d
        /\ r.oneClaimPerRewardCycle => d % 2 = 1
    BY <2>1 DEF HistoryInv
  <2>6. /\ adv.oneClaimPerRewardCycle = r.oneClaimPerRewardCycle
        /\ adv.nextClaimDistribution = NextClaimAfter(d, r.oneClaimPerRewardCycle, tx.current)
    BY <1>r, <2>1 DEF Advanced, Registration
  <2> HIDE DEF adv
  <2>7. \A x \in DOMAIN registrations' :
           /\ x \in DOMAIN registrations
           /\ x # key => registrations'[x] = registrations[x]
           /\ x = key => registrations'[x] = adv
    <3>1. CASE r.remainingClaims <= 1
      <4>1. registrations' = MapDelete(registrations, key)
        BY <2>2, <3>1
      <4> QED BY <4>1 DEF MapDelete
    <3>2. CASE r.remainingClaims > 1
      <4>1. registrations' = MapSet(registrations, key, adv)
        BY <2>2, <3>2
      <4> HIDE DEF key
      <4> QED BY <2>1, <4>1 DEF MapSet
    <3>3. r.remainingClaims \in Nat
      BY <1>r, <2>1 DEF Registration
    <3> QED BY <3>1, <3>2, <3>3
  <2>8. NoneSkipped(history[key].served \cup {d}, r.oneClaimPerRewardCycle,
                    NextClaimAfter(d, r.oneClaimPerRewardCycle, tx.current), CurrentDistribution')
    <3>1. NoneSkipped(history[key].served, r.oneClaimPerRewardCycle, d, CurrentDistribution')
      BY <1>r, <1>t, <2>1, NoneSkippedLater
    <3>2. tx.current <= CurrentDistribution'
      BY <1>t, <2>1
    <3> HIDE DEF d, key, r
    <3>3. history[key].served \in SUBSET Nat /\ r.oneClaimPerRewardCycle \in BOOLEAN
      BY <1>r, <2>1 DEF r
    <3> QED BY <1>t, <2>1, <2>5, <3>1, <3>2, <3>3, ScheduleSkipsNone
  <2> HIDE DEF key, r, d
  <2>9. ASSUME NEW x \in DOMAIN registrations' PROVE Kept(x)
    <3>1. CASE x = key
      BY <2>4, <2>6, <2>7, <2>8, <3>1
    <3>2. CASE x # key
      BY <1>1, <1>r, <2>4, <2>7, <3>2
    <3> QED BY <3>1, <3>2
  <2> QED BY <2>9 DEF NoRewardCycleSkipped, NoneSkipped
<1> QED BY <1>2, <1>3, <1>4, <1>5, <1>6, RegistrationSteps DEF RegistrationStep

(* The three, together: a burn never fails because the escrow is exact, so   *)
(* every claim takes its installment; it was due because the clock is right. *)
THEOREM RegistrationHistory == Spec => [](MoneyInv /\ ClockInv /\ HistoryInv)
<1>1. IInv /\ [Next]_vars => IInv'
  BY CallKeepsIInv, StepKeepsIInv, ExternalKeepsIInv, StutterKeepsIInv DEF Next
<1>2. MoneyInv /\ ClockInv /\ HistoryInv /\ IInv /\ IInv' /\ [Next]_vars
         => MoneyInv' /\ ClockInv' /\ HistoryInv'
  BY StepMoney, StepClock, StepHistory
<1> QED BY <1>1, <1>2, InitIInv, InitMoney, InitHistory, PTL DEF Spec

(* The contract's STX is exactly the sum of what the registrations still      *)
(* have prepaid, whatever a signer-manager does between two steps of a claim. *)
THEOREM EscrowIsExact == Spec => []EscrowBacksPrepaid
<1>1. MoneyInv => EscrowBacksPrepaid
  BY DEF MoneyInv
<1> QED BY <1>1, RegistrationHistory, PTL

(* No sponsor's STX pays for another's claims: its wallet, its escrow and    *)
(* what was burned for its registrations add up to what it started with.     *)
THEOREM SponsorsNeverShort == Spec => []SponsorsMadeWhole
<1>1. MoneyInv => SponsorsMadeWhole
  BY DEF MoneyInv
<1> QED BY <1>1, RegistrationHistory, PTL

(* An installment bought is due or was used for one claim: no batch, failed  *)
(* pull or top-up loses or doubles one.                                      *)
THEOREM InstallmentsAccounted == Spec => []InstallmentsConserved
<1>1. HistoryInv => InstallmentsConserved
  BY DEF HistoryInv, InstallmentsConserved
<1> QED BY <1>1, RegistrationHistory, PTL

(* A registration claims elapsed and computed cycles only, moves past each,  *)
(* and with one claim per reward cycle claims each reward cycle once.        *)
THEOREM ClaimsInCadence == Spec => []CadenceRespected
<1>1. IInv /\ HistoryInv => CadenceRespected
  <2> SUFFICES ASSUME IInv, HistoryInv PROVE CadenceRespected
    OBVIOUS
  <2>1. ASSUME NEW key \in DOMAIN history, history[key].oneClaimPerRewardCycle,
               NEW d \in history[key].served, NEW e \in history[key].served
        PROVE  d % 2 = 1 /\ (RewardCycle(d) = RewardCycle(e) => d = e)
    <3>1. d \in Nat /\ e \in Nat
      BY DEF IInv, RegistrationInv, RegistrationTypes, IsMap
    <3>2. d % 2 = 1 /\ e % 2 = 1
      BY <2>1 DEF HistoryInv
    <3> QED BY <3>1, <3>2 DEF RewardCycle
  <2> QED BY <2>1 DEF HistoryInv, CadenceRespected
<1> QED BY <1>1, RegistrationHistory, Inductive, PTL

(* From its first claim on a registration skips no reward cycle: the schedule *)
(* leaves out only the halves of its cadence, or an elapsed second half whose *)
(* first half it claimed.                                                    *)
THEOREM NoRewardCycleLost == Spec => []NoRewardCycleSkipped
<1>1. Init => NoRewardCycleSkipped
  BY DEF Init, NoRewardCycleSkipped, EmptyMap
<1>2. IInv /\ MoneyInv /\ ClockInv /\ HistoryInv /\ NoRewardCycleSkipped /\ [Next]_vars
         => NoRewardCycleSkipped'
  <2>1. IInv /\ [Next]_vars => IInv'
    BY CallKeepsIInv, StepKeepsIInv, ExternalKeepsIInv, StutterKeepsIInv DEF Next
  <2> QED BY <2>1, StepHistory, StepSkipsNone
<1> QED BY <1>1, <1>2, Inductive, RegistrationHistory, PTL DEF Spec

(* max-processed-distribution bounds every claim of the staker. *)
THEOREM MaxProcessedBoundsClaims == Spec => []MaxProcessedBoundsServed
<1>1. HistoryInv => MaxProcessedBoundsServed
  BY DEF HistoryInv, MaxProcessedBoundsServed
<1> QED BY <1>1, RegistrationHistory, PTL

(* A claim leaves its share to each remaining installment.  Only             *)
(* advance-registration lowers remaining-claims, and its burn rounds down.   *)
THEOREM NoClaimOvercharges == Spec => ClaimsNeverOvercharge
<1> DEFINE Kept == \A key \in DOMAIN registrations \cap DOMAIN registrations' :
                      registrations'[key].remainingClaims = registrations[key].remainingClaims - 1 =>
                         registrations'[key].prepaidUstx * registrations[key].remainingClaims
                            >= registrations[key].prepaidUstx * registrations'[key].remainingClaims
<1>1. ASSUME IInv, MoneyInv, [Next]_vars
      PROVE  Kept
  <2>r. \A key \in DOMAIN registrations :
           registrations[key].remainingClaims \in Nat /\ registrations[key].prepaidUstx \in Nat
    <3>1. \A key \in DOMAIN registrations : registrations[key] \in Registration
      BY <1>1 DEF IInv, RegistrationInv, RegistrationTypes, IsMap
    <3> QED BY <3>1 DEF Registration
  <2>0. ASSUME \A x \in DOMAIN registrations \cap DOMAIN registrations' :
                  registrations'[x].remainingClaims = registrations[x].remainingClaims - 1 =>
                     /\ registrations[x].remainingClaims > 0
                     /\ registrations'[x].prepaidUstx =
                           registrations[x].prepaidUstx
                              - BurnAmount(registrations[x].prepaidUstx,
                                           registrations[x].remainingClaims)
        PROVE  Kept
    BY <2>0, <2>r, BurnKeepsShare
  <2>1. CASE registrations' = registrations
    <3>1. \A x \in DOMAIN registrations :
             registrations'[x].remainingClaims # registrations[x].remainingClaims - 1
      BY <2>1, <2>r
    <3> QED BY <3>1
  <2>2. ASSUME NEW sender \in Principals, NEW sm \in SignerManagers, NEW entry \in Entry,
               AcceptsRegistration(sender, sm, entry), RegisterForClaimsImpl(sender, sm, entry)
        PROVE  Kept
    <3>1. \A x \in DOMAIN registrations : registrations'[x] = registrations[x]
      BY <2>2 DEF RegisterForClaimsImpl, AcceptsRegistration, MapSet
    <3>2. \A x \in DOMAIN registrations :
             registrations'[x].remainingClaims # registrations[x].remainingClaims - 1
      BY <3>1, <2>r
    <3> QED BY <3>2
  <2>3. ASSUME NEW sender \in Principals, NEW key \in Key, NEW n \in Nat \ {0},
               TopUp(sender, key, n)
        PROVE  Kept
    <3>1. registrations[key] \in Registration
      BY <1>1, <2>3 DEF IInv, RegistrationInv, RegistrationTypes, IsMap, TopUp
    <3>2. /\ \A x \in DOMAIN registrations \ {key} : registrations'[x] = registrations[x]
          /\ registrations'[key].remainingClaims = registrations[key].remainingClaims + n
      BY <2>3, <3>1 DEF TopUp, MapSet, ToppedUp, Registration
    <3>3. \A x \in DOMAIN registrations :
             registrations'[x].remainingClaims # registrations[x].remainingClaims - 1
      BY <3>2, <2>r, <2>3
    <3> QED BY <3>3
  <2>4. ASSUME NEW sender \in Principals, NEW key \in Key,
               MayCancel(sender, key), CancelRegistrationImpl(sender, key)
        PROVE  Kept
    <3>1. \A x \in DOMAIN registrations \cap DOMAIN registrations' :
             registrations'[x] = registrations[x]
      BY <2>4 DEF CancelRegistrationImpl, MapDelete
    <3>2. \A x \in DOMAIN registrations \cap DOMAIN registrations' :
             registrations'[x].remainingClaims # registrations[x].remainingClaims - 1
      BY <3>1, <2>r
    <3> QED BY <3>2
  <2>5. CASE /\ tx.phase \in {"pull", "claim"}
             /\ AdvanceRegistration(ClaimKey(tx), registrations[ClaimKey(tx)], tx.current)
    <3> DEFINE key == ClaimKey(tx)
               r == registrations[key]
               adv == Advanced(r, tx.current)
    <3>1. key \in DOMAIN registrations /\ tx.current \in Nat
      BY <1>1, <2>5, CopyIsStored
    <3>2. r \in Registration
      BY <1>1, <3>1 DEF IInv, RegistrationInv, RegistrationTypes, IsMap
    <3>3. /\ r.remainingClaims <= 1 => registrations' = MapDelete(registrations, key)
          /\ r.remainingClaims > 1 => registrations' = MapSet(registrations, key, adv)
      BY <1>1, <2>5, <3>1, AdvanceEffects
    <3>4. adv.prepaidUstx = r.prepaidUstx - BurnAmount(r.prepaidUstx, r.remainingClaims)
      BY <3>2 DEF Advanced, Registration
    <3> HIDE DEF adv
    <3>5. \A x \in DOMAIN registrations \cap DOMAIN registrations' :
             \/ registrations'[x] = registrations[x]
             \/ x = key /\ registrations'[x] = adv /\ r.remainingClaims > 1
      <4>1. CASE r.remainingClaims <= 1
        <5>1. registrations' = MapDelete(registrations, key)
          BY <3>3, <4>1
        <5> QED BY <5>1 DEF MapDelete
      <4>2. CASE r.remainingClaims > 1
        <5>1. registrations' = MapSet(registrations, key, adv)
          BY <3>3, <4>2
        <5> HIDE DEF r, key
        <5> QED BY <3>1, <4>2, <5>1 DEF MapSet, key
      <4>3. r.remainingClaims \in Nat
        BY <3>1, <2>r
      <4> QED BY <4>1, <4>2, <4>3
    <3>6. \A x \in DOMAIN registrations \cap DOMAIN registrations' :
             registrations'[x].remainingClaims = registrations[x].remainingClaims - 1 =>
                x = key /\ registrations'[x] = adv /\ r.remainingClaims > 1
      BY <3>5, <2>r
    <3> QED BY <2>0, <2>r, <3>1, <3>4, <3>6
  <2>6. RegistrationStep \/ registrations' = registrations
    BY <1>1, RegistrationSteps DEF registrationVars
  <2> HIDE DEF Kept
  <2> QED BY <2>1, <2>2, <2>3, <2>4, <2>5, <2>6 DEF RegistrationStep
<1> HIDE DEF Kept
<1>2. Kept => \A key \in DOMAIN registrations \cap DOMAIN registrations' :
          LET old == registrations[key]
              new == registrations'[key]
          IN  new.remainingClaims = old.remainingClaims - 1 =>
                 new.prepaidUstx * old.remainingClaims >= old.prepaidUstx * new.remainingClaims
  BY DEF Kept
<1> QED BY <1>1, <1>2, Inductive, RegistrationHistory, PTL DEF Spec, ClaimsNeverOvercharge

-----------------------------------------------------------------------------
(* The requests sBTC has decided stay decided. *)
LEMMA DecidedStays ==
    ASSUME [Next]_vars, NEW id, IsResolved(id)
    PROVE  IsResolved(id)'
<1>1. id \in DOMAIN sbtc /\ sbtc[id] \in {"accepted", "rejected"}
  BY DEF IsResolved, StatusOf
<1>f. sbtc' = sbtc => IsResolved(id)'
  BY <1>1 DEF IsResolved, StatusOf
<1>2. CASE Call
  BY <1>2, <1>f DEF Call, SetFeePerClaim, UpdateAdmin, RegisterForClaims, AddClaims,
     CancelRegistration, RegisterManyForClaims, CancelManyRegistrations, ProcessRewardClaims,
     SettlePendingWithdrawals, externalVars
<1>3. CASE Step
  BY <1>3, <1>f DEF Step, CountRegistrations, CountCancellations, BatchDone, SkipClaim, CountClaim,
     PullSucceeds, PullFails, ClaimReturns, CountSettlement, CallSettle, SettleReturns, externalVars
<1>4. CASE External
  <2>1. ASSUME NEW other \in RequestIds, InitiateWithdrawal(other)
        PROVE  IsResolved(id)'
    BY <1>1, <2>1 DEF InitiateWithdrawal, MapSet, IsResolved, StatusOf
  <2>2. ASSUME NEW other \in RequestIds, NEW status \in {"accepted", "rejected"},
               ResolveWithdrawal(other, status)
        PROVE  IsResolved(id)'
    BY <1>1, <2>2 DEF ResolveWithdrawal, IsResolved, StatusOf
  <2>3. CASE \/ BurnBlock \/ \E height \in 1 .. MaxBurnHeight : CalculateRewards(height)
             \/ \E staker \in Stakers, entry \in PoxEntries : ChangePosition(staker, entry)
    BY <1>f, <2>3 DEF BurnBlock, CalculateRewards, ChangePosition
  <2> QED BY <1>4, <2>1, <2>2, <2>3 DEF External
<1>5. CASE UNCHANGED vars
  BY <1>f, <1>5 DEF vars
<1> QED BY <1>2, <1>3, <1>4, <1>5 DEF Next

(* What a step does to the index of withdrawals, and in which phase. *)
WithdrawalStep ==
    \/ /\ UNCHANGED <<pendingWithdrawals, settled>>
       /\ tx' = tx \/ tx.phase # "settle"
    \/ /\ tx.phase # "settle" /\ settled' = settled
       /\ \A key \in DOMAIN pendingWithdrawals' :
             key \in DOMAIN pendingWithdrawals \/ ~IsResolved(key.requestId)
    \/ /\ tx.phase = "settle" /\ settled' = settled
       /\ DOMAIN pendingWithdrawals' = DOMAIN pendingWithdrawals \ {SettleKey(tx)}
    \/ /\ tx.phase = "settles" /\ tx'.phase = "settle" /\ SettleKey(tx') = SettleKey(tx)
       /\ settled' = settled \cup {SettleKey(tx)} /\ IsResolved(SettleKey(tx).requestId)
       /\ pendingWithdrawals' = pendingWithdrawals

LEMMA WithdrawalSteps ==
    ASSUME IInv, [Next]_vars
    PROVE  WithdrawalStep
<1>g. ValidateNoReentrancy => tx.phase # "settle"
  BY DEF ValidateNoReentrancy, IInv, CallInv, GuardMatchesCall, InFlight
<1>1. CASE Call
  BY <1>1, <1>g DEF Call, SetFeePerClaim, UpdateAdmin, RegisterForClaims, AddClaims,
     CancelRegistration, RegisterManyForClaims, CancelManyRegistrations, ProcessRewardClaims,
     SettlePendingWithdrawals, callVars, withdrawalVars, WithdrawalStep
<1>2. CASE Step
  <2>1. CASE \/ CountRegistrations \/ CountCancellations \/ BatchDone \/ SkipClaim \/ PullSucceeds
             \/ PullFails \/ \E needsPull \in BOOLEAN : CountClaim(needsPull)
    BY <2>1 DEF CountRegistrations, CountCancellations, BatchDone, SkipClaim, PullSucceeds,
                PullFails, CountClaim, withdrawalVars, WithdrawalStep
  <2>2. ASSUME NEW request \in RequestIds \cup {None}, ClaimReturns(request)
        PROVE  WithdrawalStep
    <3>1. CASE UNCHANGED withdrawalVars
      BY <2>2, <3>1 DEF ClaimReturns, withdrawalVars, WithdrawalStep
    <3>2. CASE AppendPendingWithdrawal(ClaimKey(tx), request)
      <4> DEFINE new == WithdrawalKeyOf(ClaimKey(tx), request)
      <4>1. new.requestId = request
        BY DEF WithdrawalKeyOf
      <4>2. IsTrackableWithdrawal(request) => ~IsResolved(request)
        BY DEF IsTrackableWithdrawal, IsResolved
      <4> HIDE DEF new
      <4>3. /\ settled' = settled
            /\ \/ pendingWithdrawals' = pendingWithdrawals
               \/ /\ IsTrackableWithdrawal(request)
                  /\ pendingWithdrawals' = MapSet(pendingWithdrawals, new, burnHeight)
        BY <3>2 DEF AppendPendingWithdrawal, new
      <4>4. \A key \in DOMAIN pendingWithdrawals' :
               key \in DOMAIN pendingWithdrawals \/ ~IsResolved(key.requestId)
        BY <4>1, <4>2, <4>3 DEF MapSet
      <4>5. tx.phase # "settle"
        BY <2>2 DEF ClaimReturns
      <4> QED BY <4>3, <4>4, <4>5 DEF WithdrawalStep
    <3> QED BY <2>2, <3>1, <3>2 DEF ClaimReturns
  <2>3. CASE CountSettlement
    <3>1. tx.phase # "settle" /\ settled' = settled
          /\ DOMAIN pendingWithdrawals' \subseteq DOMAIN pendingWithdrawals
      BY <2>3 DEF CountSettlement, RemovePendingWithdrawal, MapDelete, withdrawalVars
    <3> QED BY <3>1 DEF WithdrawalStep
  <2>4. CASE CallSettle
    <3>1. /\ tx.phase = "settles" /\ tx'.phase = "settle" /\ SettleKey(tx') = SettleKey(tx)
      BY <2>4 DEF CallSettle, InSettleCall, SettleKey
    <3> QED BY <2>4, <3>1 DEF CallSettle, WithdrawalStep
  <2>5. ASSUME NEW succeeded \in BOOLEAN, SettleReturns(succeeded)
        PROVE  WithdrawalStep
    <3>1. tx.phase = "settle" /\ settled' = settled
          /\ DOMAIN pendingWithdrawals' = DOMAIN pendingWithdrawals \ {SettleKey(tx)}
      BY <2>5 DEF SettleReturns, RemovePendingWithdrawal, MapDelete
    <3> QED BY <3>1 DEF WithdrawalStep
  <2> QED BY <1>2, <2>1, <2>2, <2>3, <2>4, <2>5 DEF Step
<1>3. CASE External
  BY <1>3 DEF External, BurnBlock, CalculateRewards, ChangePosition, InitiateWithdrawal,
              ResolveWithdrawal, callVars, withdrawalVars, WithdrawalStep
<1>4. CASE UNCHANGED vars
  BY <1>4 DEF vars, WithdrawalStep
<1> QED BY <1>1, <1>2, <1>3, <1>4 DEF Next

(* A withdrawal given to its signer-manager for settlement leaves the index  *)
(* with that call and is never indexed again: sBTC has decided it for good.  *)
THEOREM WithdrawalsSettledOnce == Spec => []SettledOnce
<1>1. Init => SettledOnce
  BY DEF Init, SettledOnce
<1>2. ASSUME IInv, SettledOnce, [Next]_vars
      PROVE  SettledOnce'
  <2> SUFFICES ASSUME NEW key \in settled'
               PROVE  /\ IsResolved(key.requestId)'
                      /\ key \in DOMAIN pendingWithdrawals' =>
                            tx'.phase = "settle" /\ SettleKey(tx') = key
    BY DEF SettledOnce, IsResolved
  <2>o. key \in settled =>
           /\ IsResolved(key.requestId)
           /\ key \in DOMAIN pendingWithdrawals => tx.phase = "settle" /\ SettleKey(tx) = key
    BY <1>2 DEF SettledOnce, IsResolved
  <2>1. IsResolved(key.requestId)
    BY <1>2, <2>o, WithdrawalSteps DEF WithdrawalStep
  <2>2. IsResolved(key.requestId)'
    BY <1>2, <2>1, DecidedStays
  <2>3. key \in DOMAIN pendingWithdrawals' => tx'.phase = "settle" /\ SettleKey(tx') = key
    BY <1>2, <2>o, <2>1, WithdrawalSteps DEF WithdrawalStep
  <2> QED BY <2>2, <2>3
<1> QED BY <1>1, <1>2, Inductive, PTL DEF Spec

-----------------------------------------------------------------------------
(* Reading a list: a page walks the keys that the links stand for, from its *)
(* cursor on.                                                              *)

(* The nodes of a walk that starts at the p-th key of the list. *)
LEMMA WalkVisits ==
    ASSUME NEW l, NEW q, NEW n \in Nat, Represents(l, q, n), None \notin DOMAIN l.links,
           NEW p \in 1 .. n + 1, NEW ticks \in Nat
    PROVE  WalkNode(l, IF p <= n THEN q[p] ELSE None, ticks)
           = [i \in 0 .. ticks |-> IF p + i <= n THEN q[p + i] ELSE None]
<1> DEFINE start == IF p <= n THEN q[p] ELSE None
           w == [i \in 0 .. ticks |-> IF p + i <= n THEN q[p + i] ELSE None]
           node[i \in 0 .. ticks] == IF i = 0 THEN start ELSE After(l, node[i - 1])
<1>a. \A j \in 1 .. n : After(l, q[j]) = IF j = n THEN None ELSE q[j + 1]
  <2> SUFFICES ASSUME NEW j \in 1 .. n
               PROVE  After(l, q[j]) = IF j = n THEN None ELSE q[j + 1]
    OBVIOUS
  <2>1. q[j] \in DOMAIN l.links
    BY DEF Represents
  <2>2. l.links[q[j]] = [prev |-> IF j = 1 THEN None ELSE q[j - 1],
                         next |-> IF j = n THEN None ELSE q[j + 1]]
    BY DEF Represents
  <2> QED BY <2>1, <2>2 DEF After
<1>1. \A i \in 0 .. ticks : i # 0 => w[i] = After(l, w[i - 1])
  <2> SUFFICES ASSUME NEW i \in 0 .. ticks, i # 0
               PROVE  w[i] = After(l, w[i - 1])
    OBVIOUS
  <2>1. i - 1 \in 0 .. ticks /\ p + (i - 1) \in Nat /\ p + (i - 1) >= 1
    OBVIOUS
  <2>2. CASE p + (i - 1) <= n
    <3>1. w[i - 1] = q[p + (i - 1)]
      BY <2>1, <2>2
    <3>2. p + (i - 1) \in 1 .. n
      BY <2>1, <2>2
    <3>3. After(l, q[p + (i - 1)]) = IF p + (i - 1) = n THEN None ELSE q[(p + (i - 1)) + 1]
      BY <1>a, <3>2
    <3>5. (p + (i - 1)) + 1 = p + i /\ (p + i <= n <=> p + (i - 1) # n)
      BY <2>1, <2>2
    <3> QED BY <3>1, <3>3, <3>5
  <2>3. CASE ~(p + (i - 1) <= n)
    BY <2>1, <2>3 DEF After
  <2> QED BY <2>2, <2>3
<1>2. w = [i \in 0 .. ticks |-> IF i = 0 THEN start ELSE After(l, w[i - 1])]
  <2>1. w[0] = start
    OBVIOUS
  <2> HIDE DEF start
  <2> QED BY <1>1, <2>1
<1>3. node = [i \in 0 .. ticks |-> IF i = 0 THEN start ELSE After(l, node[i - 1])]
  <2>1. node = CHOOSE h : h = [i \in 0 .. ticks |-> IF i = 0 THEN start ELSE After(l, h[i - 1])]
    OBVIOUS
  <2> HIDE DEF w, node, start
  <2> QED BY <1>2, <2>1
<1>4. WalkNode(l, start, ticks) = node
  BY DEF WalkNode
<1> HIDE DEF node, w, start
<1> DEFINE U == {i \in Nat : i <= ticks => node[i] = w[i]}
<1>5. 0 \in U
  BY <1>2, <1>3
<1>6. ASSUME NEW i \in Nat, i \in U
      PROVE  i + 1 \in U
  <2> SUFFICES ASSUME i + 1 <= ticks
               PROVE  node[i + 1] = w[i + 1]
    OBVIOUS
  <2>1. i + 1 \in 0 .. ticks /\ i + 1 # 0 /\ (i + 1) - 1 = i /\ node[i] = w[i]
    BY <1>6
  <2> QED BY <1>2, <1>3, <2>1
<1>7. \A i \in 0 .. ticks : node[i] = w[i]
  <2>1. \A i \in Nat : i \in U
    <3> HIDE DEF U
    <3> QED BY <1>5, <1>6, Naturals
  <2> QED BY <2>1
<1>8. node = w
  BY <1>2, <1>3, <1>7
<1> QED BY <1>4, <1>8 DEF w, start

(* The rows of a walk, tick by tick. *)
LEMMA RowsFollow ==
    ASSUME NEW node, NEW listed, NEW ticks \in Nat
    PROVE  /\ WalkRows(node, listed, ticks) \in [0 .. ticks -> Seq(listed)]
           /\ WalkRows(node, listed, ticks)[0] = <<>>
           /\ \A i \in 0 .. ticks : i + 1 <= ticks =>
                 WalkRows(node, listed, ticks)[i + 1] =
                    IF node[i] \in listed THEN Append(WalkRows(node, listed, ticks)[i], node[i])
                    ELSE WalkRows(node, listed, ticks)[i]
<1> DEFINE rows[i \in 0 .. ticks] ==
               IF i = 0 THEN <<>>
               ELSE IF node[i - 1] \in listed THEN Append(rows[i - 1], node[i - 1])
               ELSE rows[i - 1]
           Follows(f) == f = [i \in 0 .. ticks |->
               IF i = 0 THEN <<>>
               ELSE IF node[i - 1] \in listed THEN Append(f[i - 1], node[i - 1])
               ELSE f[i - 1]]
           X == Seq(listed)
           none == <<>>
           g == [i \in 1 .. ticks |-> [r \in X |->
                    IF node[i - 1] \in listed THEN Append(r, node[i - 1]) ELSE r]]
<1>1. WalkRows(node, listed, ticks) = rows
  BY DEF WalkRows
<1>2. rows = CHOOSE f : Follows(f)
  OBVIOUS
<1>3. g \in [1 .. ticks -> [X -> X]]
  OBVIOUS
<1>4. PICK f : Iterates(f, X, none, ticks, g)
  <2>1. none \in X
    OBVIOUS
  <2> HIDE DEF g, rows, Follows, X, none
  <2> QED BY <1>3, <2>1, Iteration
<1>5. \A i \in 0 .. ticks : f[i] = IF i = 0 THEN <<>>
               ELSE IF node[i - 1] \in listed THEN Append(f[i - 1], node[i - 1])
               ELSE f[i - 1]
  <2> SUFFICES ASSUME NEW i \in 0 .. ticks, i # 0
               PROVE  f[i] = IF node[i - 1] \in listed THEN Append(f[i - 1], node[i - 1])
                             ELSE f[i - 1]
    BY <1>4 DEF Iterates
  <2>1. i \in 1 .. ticks /\ f[i - 1] \in Seq(listed)
    BY <1>4 DEF Iterates
  <2>2. f[i] = g[i][f[i - 1]]
    <3>1. i \in 1 .. ticks
      OBVIOUS
    <3> HIDE DEF g, X
    <3> QED BY <1>4, <3>1 DEF Iterates
  <2> QED BY <2>1, <2>2
<1>6. Follows(f)
  <2> HIDE DEF g, X
  <2>1. DOMAIN f = 0 .. ticks /\ f = [i \in DOMAIN f |-> f[i]]
    BY <1>4 DEF Iterates
  <2> QED BY <1>5, <2>1
<1>7. Follows(rows)
  <2> HIDE DEF rows, Follows
  <2> QED BY <1>2, <1>6
<1> HIDE DEF rows, g
<1>8. rows[0] = <<>> /\ DOMAIN rows = 0 .. ticks
  BY <1>7
<1>9. ASSUME NEW i \in 0 .. ticks, i + 1 <= ticks
      PROVE  rows[i + 1] = IF node[i] \in listed THEN Append(rows[i], node[i]) ELSE rows[i]
  <2>1. i + 1 \in 0 .. ticks /\ i + 1 # 0 /\ (i + 1) - 1 = i
    BY <1>9
  <2> QED BY <1>7, <2>1
<1> DEFINE U == {i \in Nat : i <= ticks => rows[i] \in Seq(listed)}
<1>10. 0 \in U
  BY <1>8
<1>11. ASSUME NEW i \in Nat, i \in U
       PROVE  i + 1 \in U
  <2> HIDE DEF Follows
  <2> SUFFICES ASSUME i + 1 <= ticks
               PROVE  rows[i + 1] \in Seq(listed)
    OBVIOUS
  <2>1. i \in 0 .. ticks /\ rows[i] \in Seq(listed)
    BY <1>11
  <2> HIDE DEF U
  <2>2. rows[i + 1] = IF node[i] \in listed THEN Append(rows[i], node[i]) ELSE rows[i]
    BY <1>9, <2>1
  <2> QED BY <2>1, <2>2
<1>12. \A i \in 0 .. ticks : rows[i] \in Seq(listed)
  <2>1. \A i \in Nat : i \in U
    <3> HIDE DEF U
    <3> QED BY <1>10, <1>11, Naturals
  <2> QED BY <2>1
<1>13. rows \in [0 .. ticks -> Seq(listed)]
  BY <1>7, <1>12
<1> HIDE DEF Follows, U
<1> QED BY <1>1, <1>8, <1>9, <1>13

(* r has one row for each listed key among q[a], ..., q[b]. *)
Lists(r, q, a, b, listed) ==
    /\ r \in Seq(listed)
    /\ \A key \in listed : (\E i \in 1 .. Len(r) : r[i] = key) <=> (\E j \in a .. b : q[j] = key)
    /\ \A i, j \in 1 .. Len(r) : r[i] = r[j] => i = j

LEMMA ListsNothing ==
    ASSUME NEW q, NEW a \in Nat, NEW listed
    PROVE  Lists(<<>>, q, a, a - 1, listed)
BY DEF Lists

LEMMA ListsOneMore ==
    ASSUME NEW listed, NEW q, NEW n \in Nat, \A i, j \in 1 .. n : q[i] = q[j] => i = j,
           NEW a \in 1 .. n, NEW b \in Nat, a <= b + 1, b + 1 <= n,
           NEW r, Lists(r, q, a, b, listed)
    PROVE  Lists(IF q[b + 1] \in listed THEN Append(r, q[b + 1]) ELSE r, q, a, b + 1, listed)
<1>1. CASE q[b + 1] \notin listed
  <2>1. \A key \in listed : (\E j \in a .. b : q[j] = key) <=> (\E j \in a .. b + 1 : q[j] = key)
    BY <1>1
  <2> QED BY <1>1, <2>1 DEF Lists
<1>2. CASE q[b + 1] \in listed
  <2> DEFINE x == q[b + 1]
             s == Append(r, x)
  <2>1. r \in Seq(listed) /\ Len(r) \in Nat
    BY DEF Lists
  <2>2. s \in Seq(listed) /\ Len(s) = Len(r) + 1 /\ s[Len(r) + 1] = x
        /\ \A i \in 1 .. Len(r) : s[i] = r[i]
    BY <1>2, <2>1
  <2>3. \A i \in 1 .. Len(r) : r[i] # x
    <3>1. \A j \in a .. b : q[j] # x
      OBVIOUS
    <3> HIDE DEF x
    <3>2. \A i \in 1 .. Len(r) : r[i] \in listed
      BY <2>1
    <3> QED BY <3>1, <3>2 DEF Lists
  <2>4. \A key \in listed : (\E j \in a .. b + 1 : q[j] = key)
                            <=> ((\E j \in a .. b : q[j] = key) \/ key = x)
    OBVIOUS
  <2> HIDE DEF x, s
  <2>5. \A key \in listed : (\E i \in 1 .. Len(s) : s[i] = key)
                            <=> ((\E i \in 1 .. Len(r) : r[i] = key) \/ key = x)
    BY <2>1, <2>2
  <2>6. \A i, j \in 1 .. Len(s) : s[i] = s[j] => i = j
    <3>1. \A i \in 1 .. Len(s) : i \in 1 .. Len(r) \/ i = Len(r) + 1
      BY <2>1, <2>2
    <3> QED BY <2>1, <2>2, <2>3, <3>1 DEF Lists
  <2>7. Lists(s, q, a, b + 1, listed)
    BY <2>2, <2>4, <2>5, <2>6 DEF Lists
  <2> QED BY <1>2, <2>7 DEF s, x
<1> QED BY <1>1, <1>2

LEMMA ListsJoin ==
    ASSUME NEW listed, NEW q, NEW n \in Nat, \A i, j \in 1 .. n : q[i] = q[j] => i = j,
           NEW a \in 1 .. n + 1, NEW b \in Nat, NEW c \in Nat, a <= b + 1, b <= c, c <= n,
           NEW r, Lists(r, q, a, b, listed), NEW s, Lists(s, q, b + 1, c, listed)
    PROVE  Lists(r \o s, q, a, c, listed)
<1> DEFINE t == r \o s
<1>1. r \in Seq(listed) /\ s \in Seq(listed) /\ Len(r) \in Nat /\ Len(s) \in Nat
  BY DEF Lists
<1>2. /\ t \in Seq(listed) /\ Len(t) = Len(r) + Len(s)
      /\ \A i \in 1 .. Len(r) : t[i] = r[i]
      /\ \A i \in 1 .. Len(s) : t[Len(r) + i] = s[i]
  BY <1>1, ConcatProperties
<1>3. \A i \in 1 .. Len(t) : i \in 1 .. Len(r) \/ (i - Len(r) \in 1 .. Len(s) /\ t[i] = s[i - Len(r)])
  <2> SUFFICES ASSUME NEW i \in 1 .. Len(t), i \notin 1 .. Len(r)
               PROVE  i - Len(r) \in 1 .. Len(s) /\ t[i] = s[i - Len(r)]
    OBVIOUS
  <2>1. i - Len(r) \in 1 .. Len(s) /\ Len(r) + (i - Len(r)) = i
    BY <1>1, <1>2
  <2>2. t[Len(r) + (i - Len(r))] = s[i - Len(r)]
    BY <1>2, <2>1
  <2> QED BY <2>1, <2>2
<1>4. \A i \in 1 .. Len(r) : i \in 1 .. Len(t)
  BY <1>1, <1>2
<1>5. \A i \in 1 .. Len(s) : Len(r) + i \in 1 .. Len(t)
  BY <1>1, <1>2
<1> HIDE DEF t
<1>6. \A key \in listed : (\E i \in 1 .. Len(t) : t[i] = key)
          <=> ((\E i \in 1 .. Len(r) : r[i] = key) \/ (\E i \in 1 .. Len(s) : s[i] = key))
  BY <1>2, <1>3, <1>4, <1>5
<1>7. \A key \in listed : (\E j \in a .. c : q[j] = key)
          <=> ((\E j \in a .. b : q[j] = key) \/ (\E j \in b + 1 .. c : q[j] = key))
  <2>1. \A j : j \in a .. c <=> (j \in a .. b \/ j \in b + 1 .. c)
    OBVIOUS
  <2> QED BY <2>1
<1>8. \A i \in 1 .. Len(r), k \in 1 .. Len(s) : r[i] # s[k]
  <2> SUFFICES ASSUME NEW i \in 1 .. Len(r), NEW k \in 1 .. Len(s), r[i] = s[k]
               PROVE  FALSE
    OBVIOUS
  <2>1. r[i] \in listed
    BY <1>1
  <2>2. PICK j \in a .. b : q[j] = r[i]
    BY <2>1 DEF Lists
  <2>3. PICK m \in b + 1 .. c : q[m] = r[i]
    BY <2>1 DEF Lists
  <2>4. j \in 1 .. n /\ m \in 1 .. n /\ j # m
    OBVIOUS
  <2> QED BY <2>2, <2>3, <2>4
<1>9. \A i, j \in 1 .. Len(t) : t[i] = t[j] => i = j
  <2> SUFFICES ASSUME NEW i \in 1 .. Len(t), NEW j \in 1 .. Len(t), t[i] = t[j]
               PROVE  i = j
    OBVIOUS
  <2>1. CASE i \in 1 .. Len(r) /\ j \in 1 .. Len(r)
    BY <1>2, <2>1 DEF Lists
  <2>2. CASE i \notin 1 .. Len(r) /\ j \notin 1 .. Len(r)
    <3>0. /\ i - Len(r) \in 1 .. Len(s) /\ t[i] = s[i - Len(r)]
          /\ j - Len(r) \in 1 .. Len(s) /\ t[j] = s[j - Len(r)]
      BY <1>3, <2>2
    <3>1. i - Len(r) = j - Len(r)
      BY <3>0 DEF Lists
    <3> QED BY <1>1, <1>2, <3>1
  <2>3. CASE i \in 1 .. Len(r) /\ j \notin 1 .. Len(r)
    <3>1. j - Len(r) \in 1 .. Len(s) /\ t[j] = s[j - Len(r)] /\ t[i] = r[i]
      BY <1>2, <1>3, <2>3
    <3> QED BY <1>8, <2>3, <3>1
  <2>4. CASE i \notin 1 .. Len(r) /\ j \in 1 .. Len(r)
    <3>1. i - Len(r) \in 1 .. Len(s) /\ t[i] = s[i - Len(r)] /\ t[j] = r[j]
      BY <1>2, <1>3, <2>4
    <3> QED BY <1>8, <2>4, <3>1
  <2> QED BY <2>1, <2>2, <2>3, <2>4
<1>10. Lists(t, q, a, c, listed)
  BY <1>2, <1>6, <1>7, <1>9 DEF Lists
<1> QED BY <1>10 DEF t

(* A page from the p-th key lists the listed ones among the next `ticks'     *)
(* keys, and its cursor is the key after them.                             *)
LEMMA PageLists ==
    ASSUME NEW l, NEW q, NEW n \in Nat, Represents(l, q, n), None \notin DOMAIN l.links,
           NEW listed \in SUBSET DOMAIN l.links, NEW ticks \in Nat, NEW p \in Nat, 1 <= p, p <= n + 1,
           NEW cursor, (cursor = None /\ p = 1) \/ (p <= n /\ cursor = q[p])
    PROVE  \E e \in Nat :
              /\ e <= n /\ p <= e + 1
              /\ e = n \/ e = p + ticks - 1
              /\ Lists(Page(l, listed, cursor, ticks).rows, q, p, e, listed)
              /\ Page(l, listed, cursor, ticks).next = IF e < n THEN q[e + 1] ELSE None
<1> DEFINE w == [i \in 0 .. ticks |-> IF p + i <= n THEN q[p + i] ELSE None]
           rows == WalkRows(w, listed, ticks)
           E(i) == IF p + i <= n THEN p + i - 1 ELSE n
<1>0. \A i, j \in 1 .. n : q[i] = q[j] => i = j
  BY DEF Represents
<1>1. Start(l, cursor) = IF p <= n THEN q[p] ELSE None
  <2>1. CASE cursor = None /\ p = 1
    BY <2>1 DEF Start, Represents
  <2>2. CASE p <= n /\ cursor = q[p]
    <3>1. q[p] \in DOMAIN l.links
      BY <2>2 DEF Represents
    <3> QED BY <2>2, <3>1 DEF Start
  <2> QED BY <2>1, <2>2
<1>2. WalkNode(l, Start(l, cursor), ticks) = w
  <2>1. p \in 1 .. n + 1
    OBVIOUS
  <2> QED BY <1>1, <2>1, WalkVisits
<1> HIDE DEF w
<1>3. Page(l, listed, cursor, ticks) = [rows |-> rows[ticks], next |-> w[ticks]]
  BY <1>2 DEF Page
<1>4. \A i \in 0 .. ticks : w[i] = IF p + i <= n THEN q[p + i] ELSE None
  BY DEF w
<1> DEFINE U == {i \in Nat : i <= ticks => Lists(rows[i], q, p, E(i), listed)}
<1>5. 0 \in U
  <2>1. rows[0] = <<>> /\ E(0) = p - 1
    BY RowsFollow
  <2> HIDE DEF rows, E
  <2> QED BY <2>1, ListsNothing
<1>6. ASSUME NEW i \in Nat, i \in U
      PROVE  i + 1 \in U
  <2> SUFFICES ASSUME i + 1 <= ticks
               PROVE  Lists(rows[i + 1], q, p, E(i + 1), listed)
    OBVIOUS
  <2>1. Lists(rows[i], q, p, E(i), listed)
    BY <1>6
  <2>2. rows[i + 1] = IF w[i] \in listed THEN Append(rows[i], w[i]) ELSE rows[i]
    BY RowsFollow
  <2>3. CASE p + i <= n
    <3>1. w[i] = q[p + i] /\ E(i) = p + i - 1 /\ E(i + 1) = (p + i - 1) + 1
      BY <1>4, <2>3
    <3>2. (p + i - 1) + 1 = p + i /\ p + i - 1 \in Nat /\ p \in 1 .. n
      BY <2>3
    <3> HIDE DEF rows, E
    <3>3. Lists(rows[i], q, p, p + i - 1, listed)
      BY <2>1, <3>1
    <3> DEFINE b == p + i - 1
    <3>4. p <= b + 1 /\ b + 1 <= n /\ b \in Nat /\ q[b + 1] = w[i] /\ E(i + 1) = b + 1
      BY <2>3, <3>1, <3>2
    <3> HIDE DEF b
    <3>5. Lists(IF q[b + 1] \in listed THEN Append(rows[i], q[b + 1]) ELSE rows[i],
                q, p, b + 1, listed)
      BY <1>0, <3>2, <3>3, <3>4, ListsOneMore DEF b
    <3> QED BY <2>2, <3>4, <3>5
  <2>4. CASE ~(p + i <= n)
    <3>1. w[i] = None /\ E(i) = n /\ E(i + 1) = n
      BY <1>4, <2>4
    <3>2. None \notin listed
      OBVIOUS
    <3> HIDE DEF rows, E
    <3> QED BY <2>1, <2>2, <3>1, <3>2
  <2> QED BY <2>3, <2>4
<1>7. ticks \in U
  <2> HIDE DEF U
  <2> QED BY <1>5, <1>6, Naturals
<1>8. /\ E(ticks) \in Nat /\ E(ticks) <= n /\ p <= E(ticks) + 1
      /\ E(ticks) = n \/ E(ticks) = p + ticks - 1
      /\ w[ticks] = IF E(ticks) < n THEN q[E(ticks) + 1] ELSE None
  BY <1>4
<1>9. Lists(rows[ticks], q, p, E(ticks), listed)
  BY <1>7
<1> HIDE DEF rows, E, U
<1> QED BY <1>3, <1>8, <1>9

(* Pages read to the end, as Paginate does, list every listed key once. *)
ReadPages(l, listed, ticks, n) ==
    LET GetPage(cursor) == Page(l, listed, cursor, ticks) IN Paginate(GetPage, n)

(* What was read after some pages lists the listed ones among q[1], ..., q[e], *)
(* and its cursor is the key after them.                                     *)
ReadsTo(read, q, n, e, listed) ==
    /\ e \in Nat /\ e <= n
    /\ Lists(read.rows, q, 1, e, listed)
    /\ read.next = IF e < n THEN q[e + 1] ELSE None

LEMMA PageReads ==
    ASSUME NEW l, NEW q, NEW n \in Nat, Represents(l, q, n), None \notin DOMAIN l.links,
           NEW listed \in SUBSET DOMAIN l.links, NEW ticks \in Nat \ {0},
           NEW e \in Nat, NEW read, ReadsTo(read, q, n, e, listed), read.next # None
    PROVE  LET page == Page(l, listed, read.next, ticks)
           IN  \E d \in Nat : /\ d = n \/ d > e
                              /\ ReadsTo([rows |-> read.rows \o page.rows, next |-> page.next],
                                         q, n, d, listed)
<1> DEFINE page == Page(l, listed, read.next, ticks)
<1>1. e < n /\ read.next = q[e + 1]
  BY DEF ReadsTo
<1>2. e + 1 \in 1 .. n + 1 /\ e + 1 <= n
  BY <1>1
<1> DEFINE p == e + 1
<1>3. PICK d \in Nat :
         /\ d <= n /\ p <= d + 1
         /\ d = n \/ d = p + ticks - 1
         /\ Lists(page.rows, q, p, d, listed)
         /\ page.next = IF d < n THEN q[d + 1] ELSE None
  <2> DEFINE c == read.next
  <2>1. p \in Nat /\ 1 <= p /\ p <= n + 1 /\ p <= n /\ c = q[p] /\ ticks \in Nat
    BY <1>1, <1>2
  <2>2. (c = None /\ p = 1) \/ (p <= n /\ c = q[p])
    BY <2>1
  <2> HIDE DEF p, c
  <2>3. \E d \in Nat :
         /\ d <= n /\ p <= d + 1
         /\ d = n \/ d = p + ticks - 1
         /\ Lists(Page(l, listed, c, ticks).rows, q, p, d, listed)
         /\ Page(l, listed, c, ticks).next = IF d < n THEN q[d + 1] ELSE None
    BY <2>1, <2>2, PageLists
  <2> QED BY <2>3 DEF c
<1>4. d = n \/ d > e
  BY <1>3
<1>5. Lists(read.rows \o page.rows, q, 1, d, listed)
  <2>1. \A i, j \in 1 .. n : q[i] = q[j] => i = j
    BY DEF Represents
  <2>2. Lists(read.rows, q, 1, e, listed) /\ e <= d /\ 1 \in 1 .. n + 1 /\ 1 <= e + 1
    BY <1>3 DEF ReadsTo
  <2> HIDE DEF page
  <2> QED BY <1>3, <2>1, <2>2, ListsJoin
<1> HIDE DEF page, p
<1> QED BY <1>3, <1>4, <1>5 DEF ReadsTo, page

LEMMA PagesReadAll ==
    ASSUME NEW l, NEW n \in Nat, NEW q \in [1 .. n -> DOMAIN l.links], Represents(l, q, n),
           None \notin DOMAIN l.links,
           NEW listed \in SUBSET DOMAIN l.links, NEW ticks \in Nat \ {0}
    PROVE  Lists(ReadPages(l, listed, ticks, n), q, 1, n, listed)
<1> DEFINE K == DOMAIN l.links
           P(cursor) == Page(l, listed, cursor, ticks)
           Then(r) == IF r.next = None THEN r
                      ELSE LET page == P(r.next)
                           IN  [rows |-> r.rows \o page.rows, next |-> page.next]
           read[i \in 0 .. n] == IF i = 0 THEN P(None) ELSE Then(read[i - 1])
           Follows(f) == f = [i \in 0 .. n |-> IF i = 0 THEN P(None) ELSE Then(f[i - 1])]
<1> DEFINE X == {r \in [rows : Seq(listed), next : K \cup {None}] :
                    \E e \in Nat : ReadsTo(r, q, n, e, listed)}
           g == [i \in 1 .. n |-> [r \in X |-> Then(r)]]
<1>2. P(None) \in X /\ \E e \in Nat : ReadsTo(P(None), q, n, e, listed) /\ (e = n \/ e > 0)
  <2>1. PICK e \in Nat :
           /\ e <= n /\ 1 <= e + 1
           /\ e = n \/ e = 1 + ticks - 1
           /\ Lists(P(None).rows, q, 1, e, listed)
           /\ P(None).next = IF e < n THEN q[e + 1] ELSE None
    <3> DEFINE p == 1
               c == None
    <3>1. /\ p \in Nat /\ 1 <= p /\ p <= n + 1 /\ ticks \in Nat /\ p = 1
          /\ (c = None /\ p = 1) \/ (p <= n /\ c = q[p])
      OBVIOUS
    <3> HIDE DEF p, c
    <3>2. \E e \in Nat :
           /\ e <= n /\ p <= e + 1
           /\ e = n \/ e = p + ticks - 1
           /\ Lists(Page(l, listed, c, ticks).rows, q, p, e, listed)
           /\ Page(l, listed, c, ticks).next = IF e < n THEN q[e + 1] ELSE None
      BY <3>1, PageLists
    <3>3. P(None) = Page(l, listed, c, ticks)
      BY DEF c
    <3> HIDE DEF P
    <3> QED BY <3>1, <3>2, <3>3
  <2>2. P(None) = [rows |-> P(None).rows, next |-> P(None).next]
    BY DEF Page
  <2>3. P(None).next \in K \cup {None}
    BY <2>1
  <2>4. P(None).rows \in Seq(listed)
    BY <2>1 DEF Lists
  <2>5. ReadsTo(P(None), q, n, e, listed) /\ (e = n \/ e > 0)
    BY <2>1 DEF ReadsTo
  <2> HIDE DEF P
  <2> QED BY <2>2, <2>3, <2>4, <2>5
<1>3. ASSUME NEW r \in X, NEW e \in Nat, ReadsTo(r, q, n, e, listed)
      PROVE  /\ Then(r) \in X
             /\ \E d \in Nat : ReadsTo(Then(r), q, n, d, listed) /\ (d = n \/ d > e)
  <2>1. CASE r.next = None
    <3>1. Then(r) = r
      BY <2>1
    <3>2. e = n
      BY <1>3, <2>1 DEF ReadsTo
    <3> HIDE DEF Then
    <3> QED BY <1>3, <3>1, <3>2
  <2>2. CASE r.next # None
    <3> DEFINE page == P(r.next)
               s == [rows |-> r.rows \o page.rows, next |-> page.next]
    <3>1. Then(r) = s
      BY <2>2
    <3>2. PICK d \in Nat : (d = n \/ d > e) /\ ReadsTo(s, q, n, d, listed)
      BY <1>3, <2>2, PageReads
    <3>3. s.next \in K \cup {None} /\ s.rows \in Seq(listed)
      <4>1. s.rows \in Seq(listed)
        BY <3>2 DEF ReadsTo, Lists
      <4> HIDE DEF s
      <4> QED BY <3>2, <4>1 DEF ReadsTo
    <3>4. s \in [rows : Seq(listed), next : K \cup {None}]
      <4> HIDE DEF page
      <4> QED BY <3>3
    <3> HIDE DEF s, Then
    <3> QED BY <3>1, <3>2, <3>4
  <2> QED BY <2>1, <2>2
<1>4. g \in [1 .. n -> [X -> X]]
  <2>1. \A r \in X : Then(r) \in X
    <3> HIDE DEF Then
    <3> QED BY <1>3
  <2> HIDE DEF X, Then
  <2> QED BY <2>1
<1>5. PICK f : Iterates(f, X, P(None), n, g)
  <2> HIDE DEF g, X, read
  <2> DEFINE x0 == P(None)
  <2>1. x0 \in X
    BY <1>2
  <2> HIDE DEF x0, Then, Follows, P
  <2>2. \E f : Iterates(f, X, x0, n, g)
    BY <1>4, <2>1, Iteration
  <2> QED BY <2>2 DEF x0
<1>6. \A i \in 0 .. n : f[i] = IF i = 0 THEN P(None) ELSE Then(f[i - 1])
  <2> SUFFICES ASSUME NEW i \in 0 .. n, i # 0
               PROVE  f[i] = Then(f[i - 1])
    BY <1>5 DEF Iterates
  <2> HIDE DEF X, Then, P
  <2>1. i \in 1 .. n /\ i - 1 \in 0 .. n
    OBVIOUS
  <2>2. f[i - 1] \in X
    BY <1>5, <2>1 DEF Iterates
  <2>3. g[i] = [r \in X |-> Then(r)]
    BY <2>1
  <2>4. f[i] = g[i][f[i - 1]]
    <3> HIDE DEF g
    <3> QED BY <1>5, <2>1 DEF Iterates
  <2> QED BY <2>2, <2>3, <2>4
<1>7. Follows(f)
  <2> HIDE DEF X, Then, P, g
  <2>1. DOMAIN f = 0 .. n /\ f = [i \in DOMAIN f |-> f[i]]
    BY <1>5 DEF Iterates
  <2> QED BY <1>6, <2>1
<1>8. Follows(read)
  <2>1. read = CHOOSE h : Follows(h)
    OBVIOUS
  <2> HIDE DEF read, Follows
  <2> QED BY <1>7, <2>1
<1> HIDE DEF read, g
<1>9. read[0] = P(None) /\ \A i \in 1 .. n : read[i] = Then(read[i - 1])
  <2> HIDE DEF Then, P
  <2> QED BY <1>8
<1> HIDE DEF Follows
<1> DEFINE Good(i) == /\ read[i] \in X
                      /\ \E e \in Nat : ReadsTo(read[i], q, n, e, listed) /\ (e = n \/ e > i)
           U == {i \in Nat : i <= n => Good(i)}
<1>10. 0 \in U
  <2> HIDE DEF X, P
  <2> QED BY <1>2, <1>9
<1>11. ASSUME NEW i \in Nat, i \in U
       PROVE  i + 1 \in U
  <2> SUFFICES ASSUME i + 1 <= n
               PROVE  Good(i + 1)
    OBVIOUS
  <2> HIDE DEF X, P, Then
  <2>1. read[i] \in X /\ read[i + 1] = Then(read[i])
    BY <1>9, <1>11
  <2>2. PICK e \in Nat : ReadsTo(read[i], q, n, e, listed) /\ (e = n \/ e > i)
    BY <1>11
  <2>3. PICK d \in Nat : ReadsTo(Then(read[i]), q, n, d, listed) /\ (d = n \/ d > e)
    BY <1>3, <2>1, <2>2
  <2>4. Then(read[i]) \in X
    BY <1>3, <2>1, <2>2
  <2>5. d = n \/ d > i + 1
    <3>1. d <= n
      BY <2>3 DEF ReadsTo
    <3> QED BY <2>2, <2>3, <3>1
  <2> QED BY <2>1, <2>3, <2>4, <2>5
<1>12. Good(n)
  <2>1. n \in U
    <3> HIDE DEF U
    <3> QED BY <1>10, <1>11, Naturals
  <2> HIDE DEF Good
  <2> QED BY <2>1
<1>13. ReadPages(l, listed, ticks, n) = read[n].rows
  BY DEF ReadPages, Paginate, NextPage, read
<1> HIDE DEF P, Then, X
<1>14. Lists(read[n].rows, q, 1, n, listed)
  <2>1. PICK e \in Nat : ReadsTo(read[n], q, n, e, listed) /\ (e = n \/ e > n)
    BY <1>12
  <2> QED BY <2>1 DEF ReadsTo
<1> QED BY <1>13, <1>14

LEMMA PagesList ==
    ASSUME NEW l, WellFormed(l), None \notin DOMAIN l.links,
           NEW listed \in SUBSET DOMAIN l.links, NEW ticks \in Nat \ {0}
    PROVE  LET rows == ReadPages(l, listed, ticks, Cardinality(DOMAIN l.links))
           IN  {rows[i] : i \in 1 .. Len(rows)} = listed /\ Len(rows) = Cardinality(listed)
<1> DEFINE n == Cardinality(DOMAIN l.links)
           rows == ReadPages(l, listed, ticks, n)
<1>0. n \in Nat
  BY FS_CardinalityType DEF WellFormed
<1>1. PICK q \in [1 .. n -> DOMAIN l.links] : Represents(l, q, n)
  BY DEF WellFormed
<1>2. Lists(rows, q, 1, n, listed)
  <2> HIDE DEF n
  <2> QED BY <1>0, <1>1, PagesReadAll
<1> HIDE DEF rows
<1>3. rows \in Seq(listed) /\ Len(rows) \in Nat
  BY <1>2 DEF Lists
<1>4. \A key \in listed : \E i \in 1 .. Len(rows) : rows[i] = key
  <2> HIDE DEF n
  <2>1. \A key \in listed : \E j \in 1 .. n : q[j] = key
    BY <1>1 DEF Represents
  <2> QED BY <1>2, <2>1 DEF Lists
<1>5. {rows[i] : i \in 1 .. Len(rows)} = listed
  BY <1>3, <1>4
<1>6. rows \in Bijection(1 .. Len(rows), listed)
  <2>1. rows \in [1 .. Len(rows) -> listed]
    BY <1>3
  <2>2. \A i, j \in 1 .. Len(rows) : rows[i] = rows[j] => i = j
    BY <1>2 DEF Lists
  <2>3. rows \in Injection(1 .. Len(rows), listed)
    BY <2>1, <2>2 DEF Injection, IsInjective
  <2>4. rows \in Surjection(1 .. Len(rows), listed)
    BY <1>4, <2>1 DEF Surjection
  <2> QED BY <2>3, <2>4 DEF Bijection
<1>7. Cardinality(listed) = Len(rows)
  <2>1. IsFiniteSet(1 .. Len(rows)) /\ Cardinality(1 .. Len(rows)) = Len(rows)
    <3> DEFINE m == Len(rows)
    <3>1. 1 \in Int /\ m \in Int /\ m \in Nat
      BY <1>3
    <3> HIDE DEF m
    <3>2. IsFiniteSet(1 .. m) /\ Cardinality(1 .. m) = IF 1 > m THEN 0 ELSE m - 1 + 1
      BY <3>1, FS_Interval
    <3>3. Cardinality(1 .. m) = m
      BY <3>1, <3>2
    <3> QED BY <3>2, <3>3 DEF m
  <2>2. ExistsBijection(1 .. Len(rows), listed)
    BY <1>6 DEF ExistsBijection
  <2> QED BY <2>1, <2>2, FS_Bijection
<1> QED BY <1>5, <1>7 DEF rows

(* get-pending-claims, page after page, lists every due registration once    *)
(* and nothing else, however long the list is.                             *)
THEOREM PendingClaimsComplete == Spec => []PendingClaimsListed
<1>1. ASSUME IInv
      PROVE  PendingClaimsListed
  <2> DEFINE l == registrationLL
             n == Cardinality(DOMAIN l.links)
             r == ReadPages(l, DueKeys, PendingTicks, n)
  <2>1. WellFormed(l) /\ DOMAIN l.links = DOMAIN registrations
    BY <1>1 DEF IInv, RegistrationInv, RegistrationListSound
  <2>2. None \notin DOMAIN l.links
    BY <1>1, NoneAssumption DEF IInv, RegistrationInv, RegistrationTypes, IsList, IsMap
  <2>3. DueKeys \in SUBSET DOMAIN l.links /\ PendingTicks \in Nat \ {0}
    BY <2>1, BoundsAssumption DEF DueKeys
  <2>4. {r[i] : i \in 1 .. Len(r)} = DueKeys /\ Len(r) = Cardinality(DueKeys)
    BY <2>1, <2>2, <2>3, PagesList
  <2>5. r = Paginate(GetPendingClaims, Cardinality(DOMAIN registrations))
    BY <2>1 DEF ReadPages, Paginate, NextPage, GetPendingClaims
  <2> HIDE DEF r
  <2> QED BY <2>4, <2>5 DEF PendingClaimsListed
<1> QED BY <1>1, Inductive, PTL

(* The same of get-pending-withdrawals and the withdrawals that are old      *)
(* enough and decided.                                                     *)
THEOREM ReadyWithdrawalsComplete == Spec => []ReadyWithdrawalsListed
<1>1. ASSUME IInv
      PROVE  ReadyWithdrawalsListed
  <2> DEFINE l == withdrawalLL
             n == Cardinality(DOMAIN l.links)
             r == ReadPages(l, ReadyKeys, PendingTicks, n)
  <2>1. WellFormed(l) /\ DOMAIN l.links = DOMAIN pendingWithdrawals
    BY <1>1 DEF IInv, WithdrawalInv, WithdrawalListSound
  <2>2. None \notin DOMAIN l.links
    BY <1>1, NoneAssumption DEF IInv, WithdrawalInv, WithdrawalTypes, IsList, IsMap
  <2>3. ReadyKeys \in SUBSET DOMAIN l.links /\ PendingTicks \in Nat \ {0}
    BY <2>1, BoundsAssumption DEF ReadyKeys
  <2>4. {r[i] : i \in 1 .. Len(r)} = ReadyKeys /\ Len(r) = Cardinality(ReadyKeys)
    BY <2>1, <2>2, <2>3, PagesList
  <2>5. r = Paginate(GetPendingWithdrawals, Cardinality(DOMAIN pendingWithdrawals))
    BY <2>1 DEF ReadPages, Paginate, NextPage, GetPendingWithdrawals
  <2> HIDE DEF r
  <2> QED BY <2>4, <2>5 DEF ReadyWithdrawalsListed
<1> QED BY <1>1, Inductive, PTL

-----------------------------------------------------------------------------
(* The walk of a whole list returns the sequence that its links stand for. *)
LEMMA WholeWalkIs ==
    ASSUME NEW l, NEW n \in Nat, NEW q \in [1 .. n -> DOMAIN l.links], Represents(l, q, n),
           None \notin DOMAIN l.links
    PROVE  WholeWalk(l) = q
<1> DEFINE K == DOMAIN l.links
           w == [i \in 0 .. n |-> IF 1 + i <= n THEN q[1 + i] ELSE None]
           rows == WalkRows(w, K, n)
<1>1. Cardinality(K) = n
  <2>1. q \in Injection(1 .. n, K)
    BY DEF Represents, Injection, IsInjective
  <2>2. q \in Surjection(1 .. n, K)
    BY DEF Represents, Surjection
  <2>3. ExistsBijection(1 .. n, K)
    BY <2>1, <2>2 DEF ExistsBijection, Bijection
  <2>4. IsFiniteSet(1 .. n) /\ Cardinality(1 .. n) = n
    <3>1. 1 \in Int /\ n \in Int
      OBVIOUS
    <3>2. IsFiniteSet(1 .. n) /\ Cardinality(1 .. n) = IF 1 > n THEN 0 ELSE n - 1 + 1
      BY <3>1, FS_Interval
    <3> QED BY <3>2
  <2> QED BY <2>3, <2>4, FS_Bijection
<1>2. Start(l, None) = IF 1 <= n THEN q[1] ELSE None
  BY DEF Start, Represents
<1>3. WalkNode(l, Start(l, None), n) = w
  <2> DEFINE p == 1
  <2>1. p \in 1 .. n + 1 /\ Start(l, None) = IF p <= n THEN q[p] ELSE None
    BY <1>2
  <2>2. w = [i \in 0 .. n |-> IF p + i <= n THEN q[p + i] ELSE None]
    OBVIOUS
  <2> HIDE DEF p, w
  <2> QED BY <2>1, <2>2, WalkVisits
<1>4. WholeWalk(l) = rows[n]
  BY <1>1, <1>3 DEF WholeWalk, Page
<1>5. \A i \in 0 .. n : i + 1 <= n => w[i] = q[i + 1] /\ q[i + 1] \in K
  OBVIOUS
<1> HIDE DEF w
<1>r. /\ rows[0] = <<>>
      /\ \A i \in 0 .. n : i + 1 <= n =>
            rows[i + 1] = IF w[i] \in K THEN Append(rows[i], w[i]) ELSE rows[i]
  BY RowsFollow
<1> HIDE DEF rows
<1> DEFINE Copies(i) == rows[i] \in Seq(K) /\ Len(rows[i]) = i /\ \A j \in 1 .. i : rows[i][j] = q[j]
           U == {i \in Nat : i <= n => Copies(i)}
<1>6. 0 \in U
  <2>1. rows[0] = <<>>
    BY <1>r
  <2>2. Copies(0)
    <3> HIDE DEF K
    <3> QED BY <2>1
  <2> QED BY <2>2
<1>7. ASSUME NEW i \in Nat, i \in U
      PROVE  i + 1 \in U
  <2> SUFFICES ASSUME i + 1 <= n
               PROVE  Copies(i + 1)
    OBVIOUS
  <2> DEFINE r == rows[i]
             x == q[i + 1]
  <2>1. r \in Seq(K) /\ Len(r) = i /\ \A j \in 1 .. i : r[j] = q[j]
    BY <1>7
  <2>2. rows[i + 1] = Append(r, x) /\ x \in K
    <3>1. i \in 0 .. n /\ w[i] = x /\ x \in K
      BY <1>5
    <3>2. rows[i + 1] = IF w[i] \in K THEN Append(rows[i], w[i]) ELSE rows[i]
      BY <1>r, <3>1
    <3> QED BY <3>1, <3>2
  <2> HIDE DEF r
  <2>4. /\ Append(r, x) \in Seq(K) /\ Len(Append(r, x)) = i + 1
        /\ \A j \in 1 .. i : Append(r, x)[j] = r[j]
        /\ Append(r, x)[i + 1] = x
    <3> HIDE DEF K, x
    <3> QED BY <2>1, <2>2, AppendProperties
  <2>5. \A j \in 1 .. i + 1 : Append(r, x)[j] = q[j]
    BY <2>1, <2>4
  <2> QED BY <2>2, <2>4, <2>5
<1>8. Copies(n)
  <2>1. n \in U
    <3> HIDE DEF U
    <3> QED BY <1>6, <1>7, Naturals
  <2> HIDE DEF Copies
  <2> QED BY <2>1
<1>9. rows[n] = q
  <2>1. rows[n] \in [1 .. n -> K] /\ \A j \in 1 .. n : rows[n][j] = q[j]
    BY <1>8
  <2> QED BY <2>1
<1> QED BY <1>4, <1>9

(* What ll-append and ll-remove do to the sequence of keys. *)
LEMMA QueueOfEmpty == WholeWalk(EmptyList) = <<>>
<1> DEFINE q == [i \in 1 .. 0 |-> None]
<1>1. DOMAIN EmptyList.links = {} /\ EmptyList.head = None /\ EmptyList.tail = None
  BY DEF EmptyList, EmptyMap
<1>2. q \in [1 .. 0 -> DOMAIN EmptyList.links] /\ Represents(EmptyList, q, 0)
  BY <1>1 DEF Represents
<1>3. q = <<>>
  OBVIOUS
<1> HIDE DEF q
<1> QED BY <1>1, <1>2, <1>3, WholeWalkIs

LEMMA AppendQueue ==
    ASSUME NEW l, WellFormed(l), None \notin DOMAIN l.links, NEW key, key \notin DOMAIN l.links,
           key # None, DOMAIN ListAppend(l, key).links = DOMAIN l.links \cup {key}
    PROVE  WholeWalk(ListAppend(l, key)) = Append(WholeWalk(l), key)
<1> DEFINE D == DOMAIN l.links
           n == Cardinality(D)
           a == ListAppend(l, key)
<1>1. n \in Nat
  BY FS_CardinalityType DEF WellFormed
<1>2. PICK q \in [1 .. n -> D] : Represents(l, q, n)
  BY DEF WellFormed
<1> HIDE DEF n
<1> DEFINE r == [i \in 1 .. n + 1 |-> IF i = n + 1 THEN key ELSE q[i]]
<1>3. Represents(a, r, n + 1)
  BY <1>1, <1>2, AppendRepresents
<1>4. r \in [1 .. n + 1 -> DOMAIN a.links] /\ n + 1 \in Nat /\ None \notin DOMAIN a.links
  BY <1>1
<1>5. r = Append(q, key)
  <2> DEFINE E == D \cup {key}
             s == Append(q, key)
  <2>1. q \in Seq(E) /\ Len(q) = n
    BY <1>1
  <2>2. key \in E
    OBVIOUS
  <2>3. s \in Seq(E) /\ Len(s) = n + 1 /\ s[n + 1] = key /\ \A i \in 1 .. n : s[i] = q[i]
    <3> HIDE DEF E
    <3> QED BY <2>1, <2>2, AppendProperties
  <2>4. s \in [1 .. n + 1 -> E] /\ \A i \in 1 .. n + 1 : s[i] = r[i]
    <3> HIDE DEF s, E
    <3> QED BY <1>1, <2>3
  <2> HIDE DEF s
  <2> QED BY <2>4 DEF s
<1>6. WholeWalk(l) = q
  BY <1>1, <1>2, WholeWalkIs
<1> HIDE DEF r, a
<1>7. WholeWalk(a) = r
  BY <1>3, <1>4, WholeWalkIs
<1> QED BY <1>5, <1>6, <1>7 DEF a

LEMMA RemoveQueue ==
    ASSUME NEW l, WellFormed(l), None \notin DOMAIN l.links, NEW key \in DOMAIN l.links,
           DOMAIN ListRemove(l, key).links = DOMAIN l.links \ {key}
    PROVE  \E k \in 1 .. Len(WholeWalk(l)) :
              /\ WholeWalk(l)[k] = key
              /\ WholeWalk(ListRemove(l, key)) = RegistrationQueue!Without(WholeWalk(l), k)
<1> DEFINE D == DOMAIN l.links
           n == Cardinality(D)
           a == ListRemove(l, key)
<1>1. n \in Nat
  BY FS_CardinalityType DEF WellFormed
<1>2. PICK q \in [1 .. n -> D] : Represents(l, q, n)
  BY DEF WellFormed
<1> HIDE DEF n
<1>3. PICK k \in 1 .. n : q[k] = key
  BY <1>2 DEF Represents
<1> DEFINE r == [i \in 1 .. n - 1 |-> IF i < k THEN q[i] ELSE q[i + 1]]
<1>4. Represents(a, r, n - 1)
  BY <1>1, <1>2, <1>3, RemoveRepresents
<1>5. n - 1 \in Nat /\ None \notin DOMAIN a.links
  BY <1>1
<1>6. r \in [1 .. n - 1 -> DOMAIN a.links]
  <2>1. \A i \in 1 .. n - 1 : r[i] \in DOMAIN a.links
    BY <1>4 DEF Represents
  <2> QED BY <2>1
<1>7. WholeWalk(l) = q
  BY <1>1, <1>2, WholeWalkIs
<1>8. Len(q) = n
  BY <1>1
<1>9. r = RegistrationQueue!Without(q, k)
  BY <1>8 DEF RegistrationQueue!Without
<1> HIDE DEF r, a
<1>10. WholeWalk(a) = r
  BY <1>4, <1>5, <1>6, WholeWalkIs
<1> QED BY <1>3, <1>7, <1>8, <1>9, <1>10 DEF a

(* The list of registrations, seen as the sequence of its keys, is a queue:  *)
(* a registration joins at the back, and leaves from where it stands when it *)
(* is cancelled or has had its last claim.                                 *)
LEMMA QueueSteps ==
    ASSUME IInv, IInv', [Next]_vars
    PROVE  [RegistrationQueue!Next]_<<DOMAIN registrations, WholeWalk(registrationLL)>>
<1> DEFINE queue == WholeWalk(registrationLL)
<1>1. /\ WellFormed(registrationLL)
      /\ DOMAIN registrationLL.links = DOMAIN registrations
      /\ DOMAIN registrationLL'.links = DOMAIN registrations'
      /\ DOMAIN registrations \subseteq Key /\ None \notin DOMAIN registrationLL.links
      /\ \A key \in Key : key # None
  BY NoneAssumption DEF IInv, RegistrationInv, RegistrationTypes, RegistrationListSound, IsMap
<1>a. ASSUME NEW key \in Key, key \notin DOMAIN registrations,
             registrationLL' = ListAppend(registrationLL, key),
             DOMAIN registrations' = DOMAIN registrations \cup {key}
      PROVE  RegistrationQueue!Next
  <2>1. queue' = Append(queue, key)
    BY <1>1, <1>a, AppendQueue
  <2>2. RegistrationQueue!Join(key)
    BY <1>a, <2>1 DEF RegistrationQueue!Join
  <2> QED BY <2>2 DEF RegistrationQueue!Next
<1>d. ASSUME NEW key \in DOMAIN registrations,
             registrationLL' = ListRemove(registrationLL, key),
             DOMAIN registrations' = DOMAIN registrations \ {key}
      PROVE  RegistrationQueue!Next
  <2>1. \E k \in 1 .. Len(queue) : queue[k] = key /\ queue' = RegistrationQueue!Without(queue, k)
    BY <1>1, <1>d, RemoveQueue
  <2>2. RegistrationQueue!Leave(key)
    BY <1>d, <2>1 DEF RegistrationQueue!Leave
  <2> QED BY <1>1, <2>2 DEF RegistrationQueue!Next
<1>2. ASSUME NEW sender \in Principals, NEW sm \in SignerManagers, NEW entry \in Entry,
             AcceptsRegistration(sender, sm, entry), RegisterForClaimsImpl(sender, sm, entry)
      PROVE  RegistrationQueue!Next
  <2> DEFINE key == KeyOf(entry.staker, sm)
  <2>1. key \in Key
    BY KeyType DEF Entry
  <2>2. /\ key \notin DOMAIN registrations
        /\ registrationLL' = ListAppend(registrationLL, key)
        /\ DOMAIN registrations' = DOMAIN registrations \cup {key}
    BY <1>2 DEF RegisterForClaimsImpl, AcceptsRegistration, MapSet
  <2> HIDE DEF key
  <2> QED BY <1>a, <2>1, <2>2
<1>3. ASSUME NEW sender \in Principals, NEW key \in Key, NEW n \in Nat \ {0}, TopUp(sender, key, n)
      PROVE  UNCHANGED <<DOMAIN registrations, queue>>
  BY <1>3 DEF TopUp, MapSet
<1>4. ASSUME NEW sender \in Principals, NEW key \in Key, MayCancel(sender, key),
             CancelRegistrationImpl(sender, key)
      PROVE  RegistrationQueue!Next
  <2>1. /\ key \in DOMAIN registrations
        /\ registrationLL' = ListRemove(registrationLL, key)
        /\ DOMAIN registrations' = DOMAIN registrations \ {key}
    BY <1>4 DEF CancelRegistrationImpl, MayCancel, MapDelete
  <2> QED BY <1>d, <2>1
<1>5. ASSUME tx.phase \in {"pull", "claim"},
             AdvanceRegistration(ClaimKey(tx), registrations[ClaimKey(tx)], tx.current)
      PROVE  RegistrationQueue!Next \/ UNCHANGED <<DOMAIN registrations, queue>>
  <2> DEFINE key == ClaimKey(tx)
  <2>1. key \in DOMAIN registrations
    BY <1>5 DEF IInv, CallInv, NoStaleAdvance
  <2>2. \/ UNCHANGED <<registrations, registrationLL>>
        \/ /\ registrationLL' = ListRemove(registrationLL, key)
           /\ DOMAIN registrations' = DOMAIN registrations \ {key}
        \/ registrationLL' = registrationLL /\ DOMAIN registrations' = DOMAIN registrations
    BY <1>5, <2>1 DEF AdvanceRegistration, MapSet, MapDelete
  <2> HIDE DEF key
  <2> QED BY <1>d, <2>1, <2>2
<1>6. CASE UNCHANGED <<registrationVars, ledgerVars>>
  BY <1>6 DEF registrationVars
<1> QED BY <1>2, <1>3, <1>4, <1>5, <1>6, RegistrationSteps DEF RegistrationStep

(* The registration list implements the queue of KeyQueue. *)
THEOREM RegistrationListIsQueue == Spec => ListIsQueue
<1>1. Init => RegistrationQueue!Init
  BY QueueOfEmpty DEF Init, RegistrationQueue!Init, EmptyMap
<1>2. IInv /\ IInv' /\ [Next]_vars
         => [RegistrationQueue!Next]_<<DOMAIN registrations, WholeWalk(registrationLL)>>
  BY QueueSteps
<1> QED BY <1>1, <1>2, Inductive, PTL DEF Spec, ListIsQueue, RegistrationQueue!Spec
=============================================================================
