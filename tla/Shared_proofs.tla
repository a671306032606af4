----------------------------- MODULE Shared_proofs -----------------------------
(***************************************************************************)
(* The lemmas that several components' proofs rest on: Clarity maps and    *)
(* the sums over them, for maps and sets of keys of any size; which answers*)
(* of a Stacks node a call takes for a value, whatever the value; and      *)
(* induction over the naturals, stated of a set of naturals, with what it  *)
(* gives of a function that is computed step by step.                      *)
(***************************************************************************)
EXTENDS ClarityMap, StacksNode, Integers, FiniteSetTheorems, WellFoundedInduction, TLAPS

(* The keys of a map after map-set and map-delete, and its entries. *)
LEMMA MapSetDef ==
    ASSUME NEW m, NEW k, NEW v
    PROVE  /\ DOMAIN MapSet(m, k, v) = DOMAIN m \cup {k}
           /\ MapSet(m, k, v)[k] = v
           /\ \A x \in DOMAIN m \ {k} : MapSet(m, k, v)[x] = m[x]
BY DEF MapSet

LEMMA MapDeleteDef ==
    ASSUME NEW m, NEW k
    PROVE  /\ DOMAIN MapDelete(m, k) = DOMAIN m \ {k}
           /\ \A x \in DOMAIN m \ {k} : MapDelete(m, k)[x] = m[x]
BY DEF MapDelete

(* A map keeps its type under map-set and map-delete. *)
LEMMA MapSetType ==
    ASSUME NEW K, NEW V, NEW m, IsMap(m, K, V), NEW k \in K, NEW v \in V
    PROVE  IsMap(MapSet(m, k, v), K, V)
BY DEF IsMap, MapSet

LEMMA MapDeleteType ==
    ASSUME NEW K, NEW V, NEW m, IsMap(m, K, V), NEW k
    PROVE  IsMap(MapDelete(m, k), K, V)
BY DEF IsMap, MapDelete

-----------------------------------------------------------------------------
(* Sums.  m and n give a natural number for each key of the finite set K.   *)

(* The units of one key are as many as its amount. *)
LEMMA UnitsOfOne ==
    ASSUME NEW k, NEW a \in Nat
    PROVE  IsFiniteSet({k} \X (1 .. a)) /\ Cardinality({k} \X (1 .. a)) = a
<1> DEFINE one == {k}
           some == 1 .. a
<1>1. IsFiniteSet(one) /\ Cardinality(one) = 1
  BY FS_Singleton
<1>2. IsFiniteSet(some) /\ Cardinality(some) = a
  BY FS_Interval
<1> HIDE DEF one, some
<1>3. IsFiniteSet(one \X some) /\ Cardinality(one \X some) = Cardinality(one) * Cardinality(some)
  BY <1>1, <1>2, FS_Product
<1>4. IsFiniteSet(one \X some) /\ Cardinality(one \X some) = a
  BY <1>1, <1>2, <1>3
<1> QED BY <1>4 DEF one, some

LEMMA UnitsFinite ==
    ASSUME NEW m, NEW K, IsFiniteSet(K), \A k \in K : m[k] \in Nat
    PROVE  IsFiniteSet(Units(m, K))
<1> DEFINE T == {{k} \X (1 .. m[k]) : k \in K}
           f == [k \in K |-> {k} \X (1 .. m[k])]
<1>1. f \in Surjection(K, T)
  BY DEF Surjection
<1>2. IsFiniteSet(T)
  <2> HIDE DEF T, f
  <2> QED BY <1>1, FS_Surjection
<1>3. \A t \in T : IsFiniteSet(t)
  <2> SUFFICES ASSUME NEW k \in K PROVE IsFiniteSet({k} \X (1 .. m[k]))
    OBVIOUS
  <2> QED BY UnitsOfOne
<1> HIDE DEF T
<1>4. IsFiniteSet(UNION T)
  BY <1>2, <1>3, FS_UNION
<1> QED BY <1>4 DEF Units, T

(* A sum is a natural number, and zero over no keys. *)
LEMMA SumType ==
    ASSUME NEW m, NEW K, IsFiniteSet(K), \A k \in K : m[k] \in Nat
    PROVE  SumOver(m, K) \in Nat
BY UnitsFinite, FS_CardinalityType DEF SumOver

LEMMA SumEmpty ==
    ASSUME NEW m
    PROVE  SumOver(m, {}) = 0
<1>1. Units(m, {}) = {}
  BY DEF Units
<1> QED BY <1>1, FS_EmptySet DEF SumOver

(* A sum over two sets of keys apart is the sum of their sums. *)
LEMMA SumUnion ==
    ASSUME NEW m, NEW K, NEW L, IsFiniteSet(K), IsFiniteSet(L), K \cap L = {},
           \A k \in K \cup L : m[k] \in Nat
    PROVE  SumOver(m, K \cup L) = SumOver(m, K) + SumOver(m, L)
<1>1. IsFiniteSet(Units(m, K)) /\ IsFiniteSet(Units(m, L))
  BY UnitsFinite
<1>2. Units(m, K \cup L) = Units(m, K) \cup Units(m, L)
  BY DEF Units
<1>3. Units(m, K) \cap Units(m, L) = {}
  <2> SUFFICES ASSUME NEW u \in Units(m, K), u \in Units(m, L) PROVE FALSE
    OBVIOUS
  <2>1. u[1] \in K
    BY DEF Units
  <2>2. u[1] \in L
    BY DEF Units
  <2> QED BY <2>1, <2>2
<1>4. Cardinality(Units(m, K \cup L)) =
          Cardinality(Units(m, K)) + Cardinality(Units(m, L)) - Cardinality({})
  <2> DEFINE A == Units(m, K)
             B == Units(m, L)
  <2>1. IsFiniteSet(A) /\ IsFiniteSet(B) /\ A \cap B = {} /\ Units(m, K \cup L) = A \cup B
    BY <1>1, <1>2, <1>3
  <2> HIDE DEF A, B
  <2>2. Cardinality(A \cup B) = Cardinality(A) + Cardinality(B) - Cardinality(A \cap B)
    BY <2>1, FS_Union
  <2>3. Cardinality(A \cup B) = Cardinality(A) + Cardinality(B) - Cardinality({})
    BY <2>1, <2>2
  <2> QED BY <2>1, <2>3 DEF A, B
<1>5. Cardinality(Units(m, K)) \in Nat /\ Cardinality(Units(m, L)) \in Nat
  BY <1>1, FS_CardinalityType
<1> QED BY <1>4, <1>5, FS_EmptySet DEF SumOver

LEMMA SumOne ==
    ASSUME NEW m, NEW k, m[k] \in Nat
    PROVE  SumOver(m, {k}) = m[k]
<1>1. Units(m, {k}) = {k} \X (1 .. m[k])
  BY DEF Units
<1> QED BY <1>1, UnitsOfOne DEF SumOver

(* A key outside adds its amount; a key inside accounts for its amount. *)
LEMMA SumAdd ==
    ASSUME NEW m, NEW K, IsFiniteSet(K), NEW k, k \notin K, \A x \in K \cup {k} : m[x] \in Nat
    PROVE  SumOver(m, K \cup {k}) = SumOver(m, K) + m[k]
<1>1. IsFiniteSet({k}) /\ K \cap {k} = {}
  BY FS_Singleton
<1>2. SumOver(m, K \cup {k}) = SumOver(m, K) + SumOver(m, {k})
  BY <1>1, SumUnion
<1> QED BY <1>2, SumOne

LEMMA SumRemove ==
    ASSUME NEW m, NEW K, IsFiniteSet(K), NEW k \in K, \A x \in K : m[x] \in Nat
    PROVE  SumOver(m, K) = SumOver(m, K \ {k}) + m[k]
<1>1. IsFiniteSet(K \ {k}) /\ K = (K \ {k}) \cup {k}
  BY FS_RemoveElement
<1>2. SumOver(m, (K \ {k}) \cup {k}) = SumOver(m, K \ {k}) + m[k]
  BY <1>1, SumAdd
<1> QED BY <1>1, <1>2

(* A sum depends on the amounts of its keys alone. *)
LEMMA SumSame ==
    ASSUME NEW m, NEW n, NEW K, \A k \in K : m[k] = n[k]
    PROVE  SumOver(m, K) = SumOver(n, K)
<1>1. Units(m, K) = Units(n, K)
  BY DEF Units
<1> QED BY <1>1 DEF SumOver

(* One changed amount changes the sum by as much. *)
LEMMA SumChange ==
    ASSUME NEW m, NEW n, NEW K, IsFiniteSet(K), NEW k \in K,
           \A x \in K : m[x] \in Nat /\ n[x] \in Nat,
           \A x \in K \ {k} : m[x] = n[x]
    PROVE  SumOver(n, K) = SumOver(m, K) - m[k] + n[k]
<1>1. IsFiniteSet(K \ {k})
  BY FS_RemoveElement
<1>2. SumOver(m, K \ {k}) \in Nat
  BY <1>1, SumType
<1>3. SumOver(m, K \ {k}) = SumOver(n, K \ {k})
  BY SumSame
<1>4. SumOver(m, K) = SumOver(m, K \ {k}) + m[k]
  BY SumRemove
<1>5. SumOver(n, K) = SumOver(n, K \ {k}) + n[k]
  BY SumRemove
<1> QED BY <1>2, <1>3, <1>4, <1>5

(* Fewer keys and lower amounts give no higher sum. *)
LEMMA SumMonotone ==
    ASSUME NEW m, NEW n, NEW K, NEW L, IsFiniteSet(L), K \subseteq L,
           \A k \in L : n[k] \in Nat, \A k \in K : m[k] \in Nat /\ m[k] <= n[k]
    PROVE  SumOver(m, K) <= SumOver(n, L)
<1>1. IsFiniteSet(Units(n, L))
  BY UnitsFinite
<1>2. Units(m, K) \subseteq Units(n, L)
  <2> SUFFICES ASSUME NEW k \in K, NEW i \in 1 .. m[k] PROVE i \in 1 .. n[k] /\ k \in L
    BY DEF Units
  <2> QED OBVIOUS
<1> QED BY <1>1, <1>2, FS_Subset DEF SumOver

(* Amounts added key by key add their sums. *)
LEMMA SumPlus ==
    ASSUME NEW m, NEW n, NEW t, NEW K, IsFiniteSet(K),
           \A k \in K : m[k] \in Nat /\ n[k] \in Nat /\ t[k] = m[k] + n[k]
    PROVE  SumOver(t, K) = SumOver(m, K) + SumOver(n, K)
<1> DEFINE M == Units(m, K)
           N == Units(n, K)
           T == Units(t, K)
           up == [u \in N |-> <<u[1], m[u[1]] + u[2]>>]
<1>1. /\ \A u : u \in M <=> \E k \in K : \E i \in 1 .. m[k] : u = <<k, i>>
      /\ \A u : u \in N <=> \E k \in K : \E i \in 1 .. n[k] : u = <<k, i>>
      /\ \A u : u \in T <=> \E k \in K : \E i \in 1 .. t[k] : u = <<k, i>>
  BY DEF Units
<1>2. IsFiniteSet(M) /\ IsFiniteSet(N) /\ IsFiniteSet(T)
  BY UnitsFinite
<1> HIDE DEF M, N, T
<1>3. M \subseteq T
  <2> SUFFICES ASSUME NEW k \in K, NEW i \in 1 .. m[k] PROVE <<k, i>> \in T
    BY <1>1
  <2>1. i \in 1 .. t[k]
    OBVIOUS
  <2> QED BY <1>1, <2>1
<1>4. up \in [N -> T \ M]
  <2> SUFFICES ASSUME NEW k \in K, NEW i \in 1 .. n[k]
               PROVE  <<k, m[k] + i>> \in T /\ <<k, m[k] + i>> \notin M
    BY <1>1
  <2>1. m[k] + i \in 1 .. t[k] /\ m[k] + i \notin 1 .. m[k]
    OBVIOUS
  <2> QED BY <1>1, <2>1
<1>5. \A u, v \in N : up[u] = up[v] => u = v
  <2> SUFFICES ASSUME NEW k \in K, NEW i \in 1 .. n[k], NEW h \in K, NEW j \in 1 .. n[h],
                      <<k, m[k] + i>> = <<h, m[h] + j>>
               PROVE  <<k, i>> = <<h, j>>
    BY <1>1
  <2>1. k = h /\ m[k] + i = m[h] + j
    OBVIOUS
  <2>2. m[k] \in Nat /\ i \in Nat /\ j \in Nat
    BY <2>1
  <2> QED BY <2>1, <2>2
<1>6. \A w \in T \ M : \E u \in N : up[u] = w
  <2> SUFFICES ASSUME NEW w \in T \ M PROVE \E u \in N : up[u] = w
    OBVIOUS
  <2>k. PICK k \in K : \E i \in 1 .. t[k] : w = <<k, i>>
    BY <1>1
  <2>w. PICK i \in 1 .. t[k] : w = <<k, i>>
    BY <2>k
  <2>1. i \notin 1 .. m[k]
    BY <1>1, <2>w
  <2>2. i - m[k] \in 1 .. n[k] /\ m[k] + (i - m[k]) = i
    BY <2>1
  <2>3. <<k, i - m[k]>> \in N
    BY <1>1, <2>2
  <2>4. up[<<k, i - m[k]>>] = w
    BY <2>w, <2>2, <2>3
  <2> QED BY <2>3, <2>4
<1> HIDE DEF up
<1>7. ExistsBijection(N, T \ M)
  BY <1>4, <1>5, <1>6 DEF ExistsBijection, Bijection, Injection, Surjection, IsInjective
<1>8. Cardinality(T \ M) = Cardinality(N)
  BY <1>2, <1>7, FS_Bijection
<1>9. Cardinality(T \ M) = Cardinality(T) - Cardinality(M)
  <2>1. T \cap M = M
    BY <1>3
  <2>2. Cardinality(T \ M) = Cardinality(T) - Cardinality(T \cap M)
    BY <1>2, FS_Difference
  <2> QED BY <2>1, <2>2
<1>10. Cardinality(M) \in Nat /\ Cardinality(N) \in Nat /\ Cardinality(T) \in Nat
  BY <1>2, FS_CardinalityType
<1>11. Cardinality(T) = Cardinality(M) + Cardinality(N)
  BY <1>8, <1>9, <1>10
<1> QED BY <1>11 DEF SumOver, M, N, T

(* Two maps that agree but for one key: their sums differ by what each holds *)
(* for that key, if it holds any.                                            *)
LEMMA SumOneKey ==
    ASSUME NEW m, NEW n, NEW K, NEW L, NEW k, IsFiniteSet(K), IsFiniteSet(L),
           K \ {k} = L \ {k}, \A x \in K : m[x] \in Nat, \A x \in L : n[x] \in Nat,
           \A x \in K \ {k} : m[x] = n[x]
    PROVE  LET old == IF k \in K THEN m[k] ELSE 0
               new == IF k \in L THEN n[k] ELSE 0
           IN  /\ old \in Nat /\ new \in Nat /\ old <= SumOver(m, K)
               /\ SumOver(m, K) \in Nat /\ SumOver(n, L) \in Nat
               /\ SumOver(n, L) = SumOver(m, K) - old + new
<1> DEFINE old == IF k \in K THEN m[k] ELSE 0
           new == IF k \in L THEN n[k] ELSE 0
<1>1. SumOver(m, K) = SumOver(m, K \ {k}) + old
  <2>1. CASE k \in K
    BY <2>1, SumRemove
  <2>2. CASE k \notin K
    <3>1. K \ {k} = K /\ old = 0
      BY <2>2
    <3>2. SumOver(m, K) \in Nat
      BY SumType
    <3> HIDE DEF old
    <3>3. SumOver(m, K \ {k}) = SumOver(m, K)
      BY <3>1
    <3> QED BY <3>1, <3>2, <3>3
  <2> QED BY <2>1, <2>2
<1>2. SumOver(n, L) = SumOver(n, L \ {k}) + new
  <2>1. CASE k \in L
    BY <2>1, SumRemove
  <2>2. CASE k \notin L
    <3>1. L \ {k} = L /\ new = 0
      BY <2>2
    <3>2. SumOver(n, L) \in Nat
      BY SumType
    <3> HIDE DEF new
    <3>3. SumOver(n, L \ {k}) = SumOver(n, L)
      BY <3>1
    <3> QED BY <3>1, <3>2, <3>3
  <2> QED BY <2>1, <2>2
<1>3. SumOver(m, K \ {k}) = SumOver(n, L \ {k})
  BY SumSame
<1>4. IsFiniteSet(K \ {k}) /\ SumOver(m, K \ {k}) \in Nat /\ old \in Nat /\ new \in Nat
  <2>1. IsFiniteSet(K \ {k})
    BY FS_Subset
  <2> QED BY <2>1, SumType
<1> HIDE DEF old, new
<1>5. /\ old \in Nat /\ new \in Nat /\ old <= SumOver(m, K)
      /\ SumOver(m, K) \in Nat /\ SumOver(n, L) \in Nat
      /\ SumOver(n, L) = SumOver(m, K) - old + new
  BY <1>1, <1>2, <1>3, <1>4
<1> QED BY <1>5 DEF old, new

-----------------------------------------------------------------------------
(* A Stacks node's answers.                                                 *)

\* A result is told from a failure.
LEMMA ResultSucceeds ==
  ASSUME NEW x
  PROVE  Succeeds(Result(x)) /\ Content(Result(x)) = x
BY DEF Succeeds, Content, Result, Failed

\* A failure is no result.
LEMMA FailedFails == ~ Succeeds(Failed)
BY DEF Succeeds

\* A call-read answer with a value gives the value.
LEMMA CallReadGives ==
  ASSUME NEW v, v # NoHex
  PROVE  CallRead(Answer(200, Object([result |-> v]))) = Result(v)
<1> DEFINE answer == Answer(200, Object([result |-> v]))
<1>1. answer.status = 200 /\ answer.body[1] = "object" /\ answer.body[2] = [result |-> v]
  BY DEF Answer, Object
<1>2. IsSuccess(answer) /\ Has(answer, {})
  BY <1>1 DEF IsSuccess, Has
<1>3. IntoValue(answer.body[2]) = Result(v)
  BY <1>1 DEF IntoValue, ValueOf
<1> QED
  BY <1>2, <1>3 DEF CallRead

\* No other answer does.
LEMMA CallReadFails ==
  /\ \A answer \in BadAnswers : CallRead(answer) = Failed
  /\ \A cause : CallRead(Answer(200, Object([cause |-> cause]))) = Failed
  /\ CallRead(Answer(200, Object([result |-> NoHex]))) = Failed
<1>1. CallRead(NoAnswer) = Failed
  BY DEF CallRead, NoAnswer, Answer, IsSuccess
<1>2. CallRead(Answer(500, Text)) = Failed
  BY DEF CallRead, Answer, IsSuccess
<1>3. CallRead(Answer(200, Text)) = Failed
  BY DEF CallRead, Answer, Has, Text
<1>4. CallRead(Answer(200, Object([x \in {} |-> x]))) = Failed
  BY DEF CallRead, Answer, Object, IntoValue
<1>5. ASSUME NEW cause PROVE CallRead(Answer(200, Object([cause |-> cause]))) = Failed
  BY DEF CallRead, Answer, Object, IntoValue
<1>6. CallRead(Answer(200, Object([result |-> NoHex]))) = Failed
  BY DEF CallRead, Answer, Object, IntoValue, ValueOf
<1> QED
  BY <1>1, <1>2, <1>3, <1>4, <1>5, <1>6 DEF BadAnswers

\* The values of the wire are no unreadable text.
LEMMA ValuesAreHex ==
  ASSUME NEW x
  PROVE  /\ UInt(x) # NoHex /\ Buff(x) # NoHex /\ List(x) # NoHex
         /\ Tuple(x) # NoHex /\ Response(x) # NoHex
BY DEF UInt, Buff, List, Tuple, Response, NoHex

-----------------------------------------------------------------------------
(* Induction over the naturals, for a set of them. *)
LEMMA Naturals ==
    ASSUME NEW U, 0 \in U, \A n \in Nat : n \in U => n + 1 \in U
    PROVE  \A n \in Nat : n \in U
<1> DEFINE R == OpToRel(<, Nat)
           T == {n \in Nat : n \notin U}
<1>1. IsWellFoundedOn(R, Nat)
  BY NatLessThanWellFounded
<1>2. \A x, y \in Nat : <<x, y>> \in R <=> x < y
  BY DEF OpToRel
<1> HIDE DEF R
<1>3. CASE T # {}
  <2>1. PICK x \in T : \A y \in T : <<y, x>> \notin R
    <3> T \subseteq Nat
      OBVIOUS
    <3> HIDE DEF T
    <3> QED BY <1>1, <1>3, WFMin
  <2>2. x \in Nat /\ x \notin U /\ x # 0
    BY <2>1
  <2>3. x - 1 \in Nat /\ x - 1 < x /\ x = (x - 1) + 1
    BY <2>2
  <2>4. x - 1 \in U
    BY <1>2, <2>1, <2>2, <2>3
  <2> QED BY <2>2, <2>3, <2>4
<1> QED BY <1>3

(* A function over 0 .. n that takes each value from the one before it. *)
Iterates(f, X, x0, n, g) ==
    f \in [0 .. n -> X] /\ f[0] = x0 /\ \A i \in 1 .. n : f[i] = g[i][f[i - 1]]

LEMMA Iteration ==
    ASSUME NEW X, NEW x0 \in X, NEW n \in Nat, NEW g \in [1 .. n -> [X -> X]]
    PROVE  \E f : Iterates(f, X, x0, n, g)
<1> DEFINE U == {m \in Nat : m <= n => \E f : Iterates(f, X, x0, m, g)}
<1>1. 0 \in U
  <2> DEFINE f == [i \in 0 .. 0 |-> x0]
  <2>1. Iterates(f, X, x0, 0, g)
    BY DEF Iterates
  <2> HIDE DEF f
  <2> QED BY <2>1
<1>2. ASSUME NEW m \in Nat, m \in U
      PROVE  m + 1 \in U
  <2> SUFFICES ASSUME m + 1 <= n
               PROVE  \E f : Iterates(f, X, x0, m + 1, g)
    OBVIOUS
  <2>0. PICK f : Iterates(f, X, x0, m, g)
    BY <1>2
  <2>1. f \in [0 .. m -> X] /\ f[0] = x0 /\ \A i \in 1 .. m : f[i] = g[i][f[i - 1]]
    BY <2>0 DEF Iterates
  <2> DEFINE last == g[m + 1][f[m]]
             h == [i \in 0 .. m + 1 |-> IF i = m + 1 THEN last ELSE f[i]]
  <2>2. last \in X
    <3>1. m + 1 \in 1 .. n /\ f[m] \in X
      BY <2>1
    <3> QED BY <3>1
  <2> HIDE DEF last
  <2>3. h \in [0 .. m + 1 -> X]
    BY <2>1, <2>2
  <2>4. \A i \in 1 .. m + 1 : h[i] = g[i][h[i - 1]]
    <3> SUFFICES ASSUME NEW i \in 1 .. m + 1
                 PROVE  h[i] = g[i][h[i - 1]]
      OBVIOUS
    <3>1. CASE i = m + 1
      <4>1. h[m + 1] = last /\ h[m] = f[m] /\ (m + 1) - 1 = m /\ m + 1 # 0
        OBVIOUS
      <4> QED BY <3>1, <4>1 DEF last
    <3>2. CASE i # m + 1
      <4>1. i \in 1 .. m /\ h[i] = f[i] /\ h[i - 1] = f[i - 1]
        BY <3>2
      <4> QED BY <2>1, <4>1
    <3> QED BY <3>1, <3>2
  <2>5. h[0] = f[0] /\ f[0] = x0
    BY <2>1
  <2> HIDE DEF h
  <2>6. Iterates(h, X, x0, m + 1, g)
    BY <2>3, <2>4, <2>5 DEF Iterates
  <2> QED BY <2>6
<1>3. n \in U
  <2> HIDE DEF U
  <2> QED BY <1>1, <1>2, Naturals
<1> QED BY <1>3
=============================================================================
