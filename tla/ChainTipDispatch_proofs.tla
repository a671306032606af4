----------------------- MODULE ChainTipDispatch_proofs -----------------------
(* For any consumers, tips and capacities: tips are served in order, and a   *)
(* consumer that is owed a round has a tip on its way.                       *)
EXTENDS ChainTipDispatch, TLAPS

\* The tips in s rise, from above low to below high.
Rising(s, low, high) ==
  \A i \in 1..Len(s) :
    /\ low < s[i]
    /\ s[i] < high
    /\ \A j \in 1..(i - 1) : s[j] < s[i]

\* The tip read next goes to the end of a mailbox.
LEMMA RisingAppend ==
  ASSUME NEW s \in Seq(Nat \ {0}), NEW low \in Nat, NEW high \in Nat \ {0},
         low < high, Rising(s, low, high)
  PROVE  Rising(Append(s, high), low, high + 1)
<1>1. /\ Len(Append(s, high)) = Len(s) + 1 /\ Len(s) \in Nat
      /\ Append(s, high)[Len(s) + 1] = high
      /\ \A i \in 1..Len(s) : Append(s, high)[i] = s[i] /\ s[i] \in Nat
  OBVIOUS
<1>2. ASSUME NEW i \in 1..(Len(s) + 1)
      PROVE  /\ low < Append(s, high)[i] /\ Append(s, high)[i] < high + 1
             /\ \A j \in 1..(i - 1) : Append(s, high)[j] < Append(s, high)[i]
  <2>1. CASE i = Len(s) + 1
    <3>1. \A j \in 1..(i - 1) : Append(s, high)[j] = s[j] /\ s[j] < high
      BY <1>1, <2>1 DEF Rising
    <3> QED
      BY <1>1, <2>1, <3>1
  <2>2. CASE i \in 1..Len(s)
    <3>1. /\ Append(s, high)[i] = s[i] /\ s[i] \in Nat /\ low < s[i] /\ s[i] < high
          /\ \A j \in 1..(i - 1) : s[j] < s[i]
      BY <1>1, <2>2 DEF Rising
    <3>2. \A j \in 1..(i - 1) : j \in 1..Len(s)
      BY <1>1, <2>2
    <3> QED
      BY <1>1, <3>1, <3>2
  <2> QED
    BY <1>1, <2>1, <2>2
<1> QED
  BY <1>1, <1>2 DEF Rising

\* The oldest tip leaves a mailbox, and the others are younger.
LEMMA RisingTail ==
  ASSUME NEW s \in Seq(Nat \ {0}), NEW low \in Nat, NEW high \in Nat \ {0},
         s # << >>, Rising(s, low, high)
  PROVE  /\ Rising(Tail(s), s[1], high)
         /\ s[1] \in Nat /\ s[1] < high
<1>1. /\ Len(s) \in Nat \ {0} /\ Len(Tail(s)) = Len(s) - 1
      /\ \A i \in 1..(Len(s) - 1) : Tail(s)[i] = s[i + 1]
      /\ \A i \in 1..Len(s) : s[i] \in Nat
  OBVIOUS
<1>2. s[1] \in Nat /\ s[1] < high
  BY <1>1 DEF Rising
<1>3. ASSUME NEW i \in 1..(Len(s) - 1)
      PROVE  /\ s[1] < Tail(s)[i] /\ Tail(s)[i] < high
             /\ \A j \in 1..(i - 1) : Tail(s)[j] < Tail(s)[i]
  <2>1. i + 1 \in 1..Len(s) /\ 1 \in 1..((i + 1) - 1)
    BY <1>1
  <2>2. s[i + 1] < high /\ \A j \in 1..((i + 1) - 1) : s[j] < s[i + 1]
    BY <2>1 DEF Rising
  <2>3. \A j \in 1..(i - 1) : j + 1 \in 1..((i + 1) - 1) /\ Tail(s)[j] = s[j + 1]
    BY <1>1
  <2>4. Tail(s)[i] = s[i + 1]
    BY <1>1
  <2>5. \A j \in 1..(i - 1) : s[j + 1] < s[i + 1]
    BY <2>2, <2>3
  <2> QED
    BY <2>1, <2>2, <2>3, <2>4, <2>5
<1> QED
  BY <1>1, <1>2, <1>3 DEF Rising

\* A mailbox that rises below a bound rises below a greater one.
LEMMA RisingBelow ==
  ASSUME NEW s \in Seq(Nat \ {0}), NEW low \in Nat, NEW high \in Nat,
         NEW higher \in Nat, high <= higher, Rising(s, low, high)
  PROVE  Rising(s, low, higher)
<1>1. \A i \in 1..Len(s) : s[i] \in Nat
  OBVIOUS
<1> QED
  BY <1>1 DEF Rising

\* InOrder, of one consumer.
Ordered(c) ==
  /\ round[c] < next[c]
  /\ next[c] <= sent + 1
  /\ Rising(mailbox[c], round[c], next[c])

\* What the invariant says of one consumer.  Before it has a receiver, it is
\* owed nothing and holds nothing; before it has a mailbox, no task runs.
Good(c) ==
  /\ Ordered(c)
  /\ owed[c] /\ consumer[c] # "stopped" => next[c] <= sent \/ mailbox[c] # << >>
  /\ receiver[c] = "none" => ~ owed[c] /\ mailbox[c] = << >> /\ round[c] = 0
  /\ receiver[c] \in {"none", "subscribed"} => consumer[c] = "unborn"

IInv == TypeOK /\ \A c \in Consumers : Good(c)

\* The invariant gives the properties of the runs.
LEMMA Implies == IInv => TypeOK /\ InOrder /\ OwedRoundIsQueued
BY DEF IInv, Good, Ordered, Rising, InOrder, OwedRoundIsQueued

\* A consumer whose state does not change stays good.
LEMMA Unchanged ==
  ASSUME NEW c \in Consumers, Good(c), UNCHANGED sent,
         receiver'[c] = receiver[c], next'[c] = next[c], mailbox'[c] = mailbox[c],
         consumer'[c] = consumer[c], round'[c] = round[c], owed'[c] = owed[c]
  PROVE  Good(c)'
BY DEF Good, Ordered

\* A broadcast reaches who listens and leaves the others alone.
LEMMA PollKeeps == ASSUME IInv, Poll PROVE IInv'
<1>1. TypeOK /\ \A c \in Consumers : Good(c)
  BY DEF IInv
<1>2. TypeOK'
  BY <1>1 DEF TypeOK, Poll, Broadcast
<1>3. ASSUME NEW c \in Consumers PROVE Good(c)'
  <2>1. Ordered(c)'
    BY <1>1 DEF Good, Ordered, Poll, Broadcast, TypeOK
  <2>2. /\ receiver'[c] = receiver[c] /\ mailbox'[c] = mailbox[c]
        /\ round'[c] = round[c] /\ next'[c] = next[c] /\ consumer'[c] = consumer[c]
        /\ sent' = sent + 1
        /\ owed'[c] = (owed[c] \/ c \in Listening)
    BY DEF Poll, Broadcast
  <2>3. receiver[c] = "none" => c \notin Listening
    BY DEF Listening
  <2>4. next[c] <= sent + 1
    BY <1>1 DEF Good, Ordered
  <2> QED
    BY <1>1, <2>1, <2>2, <2>3, <2>4 DEF Good
<1> QED
  BY <1>2, <1>3 DEF IInv

\* main gives a consumer a receiver, and then a mailbox.
LEMMA MainKeeps ==
  ASSUME IInv, NEW c \in Consumers, Subscribe(c) \/ StartDispatch(c)
  PROVE  IInv'
<1>1. TypeOK /\ \A d \in Consumers : Good(d)
  BY DEF IInv
<1>2. TypeOK'
  <2>1. CASE Subscribe(c)
    BY <1>1, <2>1 DEF TypeOK, Subscribe, poller
  <2>2. CASE StartDispatch(c)
    BY <1>1, <2>2 DEF TypeOK, StartDispatch, poller
  <2> QED
    BY <2>1, <2>2
<1>3. ASSUME NEW d \in Consumers PROVE Good(d)'
  <2>1. CASE d # c
    BY <1>1, <2>1, Unchanged DEF Subscribe, StartDispatch, poller, TypeOK
  <2>2. CASE d = c /\ Subscribe(c)
    <3>1. /\ receiver'[c] = "subscribed" /\ next'[c] = sent + 1 /\ sent' = sent
          /\ mailbox'[c] = << >> /\ round'[c] = 0 /\ ~ owed'[c]
      BY <1>1, <2>2 DEF Subscribe, Good, TypeOK, poller
    <3>2. consumer'[c] = "unborn"
      BY <1>1, <2>2 DEF Subscribe, Good
    <3> QED
      BY <1>1, <2>2, <3>1, <3>2 DEF Good, Ordered, Rising, TypeOK
  <2>3. CASE d = c /\ StartDispatch(c)
    <3>1. /\ receiver'[c] = "running" /\ next'[c] = next[c] /\ sent' = sent
          /\ mailbox'[c] = mailbox[c] /\ round'[c] = round[c] /\ owed'[c] = owed[c]
          /\ consumer'[c] = "starting" /\ consumer[c] = "unborn"
      BY <1>1, <2>3 DEF StartDispatch, TypeOK, Good, poller
    <3> QED
      BY <1>1, <2>3, <3>1 DEF Good, Ordered
  <2> QED
    BY <2>1, <2>2, <2>3
<1> QED
  BY <1>2, <1>3 DEF IInv

\* A dispatcher forwards, skips or closes: a tip it drops leaves the mailbox
\* full, and a full mailbox is not empty.
LEMMA DispatcherKeeps ==
  ASSUME IInv, NEW c \in Consumers, Dispatcher(c) PROVE IInv'
<1>1. TypeOK /\ \A d \in Consumers : Good(d)
  BY DEF IInv
<1> USE CapacityAssumption
<1>2. /\ next[c] \in Nat \ {0} /\ sent \in Nat /\ round[c] \in Nat
      /\ mailbox[c] \in Seq(Nat \ {0}) /\ Len(mailbox[c]) <= MailboxCapacity
  BY <1>1 DEF TypeOK
<1>3. CASE Skip(c)
  <2>1. /\ next' = [next EXCEPT ![c] = (sent + 1) - RingCapacity]
        /\ next'[c] = (sent + 1) - RingCapacity
        /\ next[c] < next'[c] /\ next'[c] <= sent /\ next'[c] \in Nat \ {0}
    BY <1>1, <1>2, <1>3 DEF Skip, Lagging, TypeOK
  <2>2. UNCHANGED <<tip, lastSeen, sent, receiver, mailbox, consumer, round, owed>>
    BY <1>3 DEF Skip, poller
  <2>3. TypeOK'
    BY <1>1, <2>1, <2>2 DEF TypeOK
  <2>4. ASSUME NEW d \in Consumers PROVE Good(d)'
    <3>1. CASE d # c
      BY <1>1, <2>1, <2>2, <3>1, Unchanged DEF TypeOK
    <3>2. CASE d = c
      <4>1. Ordered(c)
        BY <1>1 DEF Good
      <4>2. Rising(mailbox[c], round[c], next'[c])
        BY <4>1, <1>2, <2>1, RisingBelow DEF Ordered
      <4>3. Ordered(c)'
        BY <4>1, <4>2, <2>1, <2>2, <1>2 DEF Ordered
      <4> QED
        BY <1>1, <3>2, <4>3, <2>1, <2>2 DEF Good
    <3> QED
      BY <3>1, <3>2
  <2> QED
    BY <2>3, <2>4 DEF IInv
<1>4. CASE Forward(c)
  <2>1. /\ next[c] <= sent /\ receiver[c] = "running"
        /\ next' = [next EXCEPT ![c] = @ + 1] /\ next'[c] = next[c] + 1
    BY <1>1, <1>4 DEF Forward, Receive, TypeOK
  <2>2. UNCHANGED <<tip, lastSeen, sent, receiver, consumer, round, owed>>
    BY <1>4 DEF Forward, poller
  <2>3. /\ mailbox' = [mailbox EXCEPT ![c] = mailbox'[c]]
        /\ mailbox'[c] = IF Len(mailbox[c]) < MailboxCapacity
                           THEN Append(mailbox[c], next[c]) ELSE mailbox[c]
    BY <1>1, <1>4 DEF Forward, TrySend, TypeOK
  <2>4. /\ mailbox'[c] \in Seq(Nat \ {0}) /\ Len(mailbox'[c]) <= MailboxCapacity
        /\ mailbox'[c] # << >>
    BY <1>2, <2>3
  <2>5. TypeOK'
    <3>1. /\ mailbox' \in [Consumers -> Seq(Nat \ {0})]
          /\ \A d \in Consumers : Len(mailbox'[d]) <= MailboxCapacity
      BY <1>1, <2>3, <2>4 DEF TypeOK
    <3>2. next' \in [Consumers -> Nat \ {0}]
      BY <1>1, <1>2, <2>1 DEF TypeOK
    <3> QED
      BY <1>1, <2>2, <3>1, <3>2 DEF TypeOK
  <2>6. ASSUME NEW d \in Consumers PROVE Good(d)'
    <3>1. CASE d # c
      BY <1>1, <2>1, <2>2, <2>3, <3>1, Unchanged DEF TypeOK
    <3>2. CASE d = c
      <4>1. Ordered(c)
        BY <1>1 DEF Good
      <4>2. Rising(mailbox'[c], round[c], next[c] + 1)
        <5>1. CASE Len(mailbox[c]) < MailboxCapacity
          BY <4>1, <5>1, <1>2, <2>3, RisingAppend DEF Ordered
        <5>2. CASE ~ Len(mailbox[c]) < MailboxCapacity
          BY <4>1, <5>2, <1>2, <2>3, RisingBelow DEF Ordered
        <5> QED
          BY <5>1, <5>2
      <4>4. Ordered(c)'
        BY <4>1, <4>2, <2>1, <2>2, <1>2 DEF Ordered
      <4> QED
        BY <3>2, <4>4, <2>1, <2>2, <2>4 DEF Good
    <3> QED
      BY <3>1, <3>2
  <2> QED
    BY <2>5, <2>6 DEF IInv
<1>5. CASE Close(c)
  <2>1. /\ next[c] <= sent /\ consumer[c] = "stopped"
        /\ next' = [next EXCEPT ![c] = @ + 1] /\ next'[c] = next[c] + 1
        /\ receiver' = [receiver EXCEPT ![c] = "closed"] /\ receiver'[c] = "closed"
    BY <1>1, <1>5 DEF Close, Receive, TypeOK
  <2>2. UNCHANGED <<tip, lastSeen, sent, mailbox, consumer, round, owed>>
    BY <1>5 DEF Close, poller
  <2>3. TypeOK'
    BY <1>1, <2>1, <2>2 DEF TypeOK
  <2>4. ASSUME NEW d \in Consumers PROVE Good(d)'
    <3>1. CASE d # c
      BY <1>1, <2>1, <2>2, <3>1, Unchanged DEF TypeOK
    <3>2. CASE d = c
      <4>1. Ordered(c)
        BY <1>1 DEF Good
      <4>2. Rising(mailbox[c], round[c], next'[c])
        BY <4>1, <1>2, <2>1, RisingBelow DEF Ordered
      <4>3. Ordered(c)'
        BY <4>1, <4>2, <2>1, <2>2, <1>2 DEF Ordered
      <4> QED
        BY <3>2, <4>3, <2>1, <2>2 DEF Good
    <3> QED
      BY <3>1, <3>2
  <2> QED
    BY <2>3, <2>4 DEF IInv
<1> QED
  BY <1>3, <1>4, <1>5 DEF Dispatcher

\* A consumer takes the oldest tip of its mailbox, or stops and drops it.
LEMMA ConsumerKeeps ==
  ASSUME IInv, NEW c \in Consumers, Consumer(c) PROVE IInv'
<1>1. TypeOK /\ \A d \in Consumers : Good(d)
  BY DEF IInv
<1>2. /\ next[c] \in Nat \ {0} /\ sent \in Nat /\ round[c] \in Nat
      /\ mailbox[c] \in Seq(Nat \ {0}) /\ Len(mailbox[c]) <= MailboxCapacity
      /\ Ordered(c)
  BY <1>1 DEF TypeOK, Good
<1>0. receiver[c] \notin {"none", "subscribed"}
  BY <1>1 DEF Consumer, Ready, Stop, Take, Finish, Good
<1>3. CASE Ready(c) \/ Finish(c)
  <2>1. /\ UNCHANGED <<tip, lastSeen, sent, receiver, next, mailbox, round, owed>>
        /\ consumer' = [consumer EXCEPT ![c] = "idle"] /\ consumer[c] # "stopped"
    BY <1>3 DEF Ready, Finish, poller
  <2>2. TypeOK'
    BY <1>1, <2>1 DEF TypeOK
  <2>3. ASSUME NEW d \in Consumers PROVE Good(d)'
    <3>1. CASE d # c
      BY <1>1, <2>1, <3>1, Unchanged DEF TypeOK
    <3>2. CASE d = c
      BY <1>1, <1>0, <2>1, <3>2 DEF Good, Ordered
    <3> QED
      BY <3>1, <3>2
  <2> QED
    BY <2>2, <2>3 DEF IInv
<1>4. CASE Stop(c)
  <2>1. /\ UNCHANGED <<tip, lastSeen, sent, receiver, next, round, owed>>
        /\ consumer' = [consumer EXCEPT ![c] = "stopped"] /\ consumer'[c] = "stopped"
        /\ mailbox' = [mailbox EXCEPT ![c] = << >>] /\ mailbox'[c] = << >>
    BY <1>1, <1>4 DEF Stop, poller, TypeOK
  <2>2. TypeOK'
    BY <1>1, <2>1, CapacityAssumption DEF TypeOK
  <2>3. ASSUME NEW d \in Consumers PROVE Good(d)'
    <3>1. CASE d # c
      BY <1>1, <2>1, <3>1, Unchanged DEF TypeOK
    <3>2. CASE d = c
      BY <1>1, <1>2, <1>0, <2>1, <3>2 DEF Good, Ordered, Rising
    <3> QED
      BY <3>1, <3>2
  <2> QED
    BY <2>2, <2>3 DEF IInv
<1>5. CASE Take(c)
  <2>1. /\ UNCHANGED <<tip, lastSeen, sent, receiver, next>>
        /\ mailbox[c] # << >>
        /\ round' = [round EXCEPT ![c] = Head(mailbox[c])]
        /\ mailbox' = [mailbox EXCEPT ![c] = Tail(@)]
        /\ consumer' = [consumer EXCEPT ![c] = "busy"]
        /\ owed' = [owed EXCEPT ![c] = FALSE]
    BY <1>5 DEF Take, poller
  <2>2. /\ round'[c] = mailbox[c][1] /\ mailbox'[c] = Tail(mailbox[c]) /\ ~ owed'[c]
    BY <1>1, <1>2, <2>1 DEF TypeOK
  <2>3. /\ Tail(mailbox[c]) \in Seq(Nat \ {0})
        /\ Len(Tail(mailbox[c])) = Len(mailbox[c]) - 1
        /\ Len(mailbox[c]) \in Nat \ {0}
        /\ \A i \in 1..(Len(mailbox[c]) - 1) : Tail(mailbox[c])[i] = mailbox[c][i + 1]
        /\ \A i \in 1..Len(mailbox[c]) : mailbox[c][i] \in Nat
    BY <1>2, <2>1
  <2>4. Len(mailbox'[c]) <= MailboxCapacity /\ mailbox'[c] \in Seq(Nat \ {0})
    BY <1>2, <2>2, <2>3, CapacityAssumption
  <2>5. TypeOK'
    <3>1. mailbox' \in [Consumers -> Seq(Nat \ {0})]
      BY <1>1, <2>1, <2>3 DEF TypeOK
    <3>2. \A d \in Consumers : Len(mailbox'[d]) <= MailboxCapacity
      BY <1>1, <2>1, <2>4 DEF TypeOK
    <3>3. round' \in [Consumers -> Nat]
      BY <1>1, <2>1, <2>2, <2>3 DEF TypeOK
    <3> QED
      BY <1>1, <2>1, <3>1, <3>2, <3>3 DEF TypeOK
  <2>6. ASSUME NEW d \in Consumers PROVE Good(d)'
    <3>1. CASE d # c
      BY <1>1, <2>1, <3>1, Unchanged DEF TypeOK
    <3>2. CASE d = c
      <4>1. Ordered(c)'
        BY <1>2, <2>1, <2>2, RisingTail DEF Ordered
      <4> QED
        BY <3>2, <4>1, <1>0, <2>1, <2>2 DEF Good
    <3> QED
      BY <3>1, <3>2
  <2> QED
    BY <2>5, <2>6 DEF IInv
<1> QED
  BY <1>3, <1>4, <1>5 DEF Consumer

\* The invariant holds in every behaviour.
THEOREM Inductive == Spec => []IInv
<1>1. Init => IInv
  BY TipAssumption, CapacityAssumption DEF Init, IInv, TypeOK, Good, Ordered, Rising
<1>2. IInv /\ [Next]_vars => IInv'
  <2> SUFFICES ASSUME IInv, [Next]_vars PROVE IInv'
    OBVIOUS
  <2>1. CASE NewTip
    BY <2>1 DEF NewTip, IInv, TypeOK, Good, Ordered
  <2>2. CASE Poll
    BY <2>2, PollKeeps
  <2>3. CASE Main
    BY <2>3, MainKeeps DEF Main
  <2>4. CASE \E c \in Consumers : Dispatcher(c) \/ Consumer(c)
    BY <2>4, DispatcherKeeps, ConsumerKeeps
  <2>5. CASE UNCHANGED vars
    BY <2>5 DEF vars, IInv, TypeOK, Good, Ordered
  <2> QED
    BY <2>1, <2>2, <2>3, <2>4, <2>5 DEF Next
<1> QED
  BY <1>1, <1>2, PTL DEF Spec

\* Types, and the bound on every mailbox.
THEOREM TypeCorrect == Spec => []TypeOK
<1>1. IInv => TypeOK
  BY DEF IInv
<1> QED
  BY <1>1, Inductive, PTL

\* Every consumer serves tips in the order of their broadcast, none twice.
THEOREM ServedInOrder == Spec => []InOrder
BY Implies, Inductive, PTL

\* No trigger is lost to lag or to a full mailbox.
THEOREM NoTriggerLost == Spec => []OwedRoundIsQueued
BY Implies, Inductive, PTL
=============================================================================
