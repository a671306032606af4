-------------------------- MODULE ChainTipDispatch --------------------------
(***************************************************************************)
(* How a new Bitcoin tip reaches the service's processes: the poller of    *)
(* src/bitcoin/chain_tip.rs, tokio's broadcast channel, the dispatchers of *)
(* src/dispatch.rs and the mailboxes they fill, as main.rs starts them.    *)
(*                                                                         *)
(* A broadcast tip is named by its number: the first is 1.  The channel    *)
(* retains the last RingCapacity of them.                                  *)
(***************************************************************************)
EXTENDS Naturals, Sequences

CONSTANTS
  Consumers,        \* the processes main joins: deposit monitor, reward keeper
  MayStop,          \* those that may return without serving a tip
  Tips, NoTip,      \* what the Bitcoin node may answer; last_seen before any
  RingCapacity,     \* CHAIN_TIP_CHANNEL_CAPACITY, as tokio rounds it up
  MailboxCapacity,  \* MAILBOX_CAPACITY
  MaxSends          \* bound of the model: broadcasts

ASSUME CapacityAssumption ==
  /\ RingCapacity \in Nat \ {0}
  /\ MailboxCapacity \in Nat \ {0}

ASSUME ConsumerAssumption == MayStop \subseteq Consumers

ASSUME TipAssumption == NoTip \notin Tips

VARIABLES
  tip,       \* the node's active tip
  lastSeen,  \* run_poller's last_seen
  sent,      \* how many tips were broadcast
  receiver,  \* of each consumer's dispatcher: not yet, subscribed, running, closed
  next,      \* the number of the tip each broadcast receiver reads next
  mailbox,   \* the tips in each consumer's mpsc channel
  consumer,  \* what each consumer's task does
  round,     \* the tip each consumer took last, 0 before any
  owed       \* history: a tip was broadcast to the consumer since it took one

poller == <<tip, lastSeen, sent>>
vars == <<tip, lastSeen, sent, receiver, next, mailbox, consumer, round, owed>>

Init ==
  /\ tip \in Tips
  /\ lastSeen = NoTip
  /\ sent = 0
  /\ receiver = [c \in Consumers |-> "none"]
  /\ next = [c \in Consumers |-> 1]
  /\ mailbox = [c \in Consumers |-> << >>]
  /\ consumer = [c \in Consumers |-> "unborn"]
  /\ round = [c \in Consumers |-> 0]
  /\ owed = [c \in Consumers |-> FALSE]

-----------------------------------------------------------------------------
(* The Bitcoin node and the poller.                                        *)

\* A block is found, or the chain reorganises, even back to an earlier tip.
NewTip ==
  /\ sent < MaxSends
  /\ tip' \in Tips \ {tip}
  /\ UNCHANGED <<lastSeen, sent, receiver, next, mailbox, consumer, round, owed>>

Listening == {c \in Consumers : receiver[c] \in {"subscribed", "running"}}

\* Faulty: last_seen is set although nobody heard the tip.
BroadcastToNobody ==
  /\ sent' = sent + 1
  /\ lastSeen' = tip
  /\ owed' = [c \in Consumers |-> owed[c] \/ c \in Listening]

\* Broadcasting fails when nobody has subscribed: last_seen stays, and the
\* next poll tries again.
Broadcast ==
  /\ Listening # {}
  /\ sent' = sent + 1
  /\ lastSeen' = tip
  /\ owed' = [c \in Consumers |-> owed[c] \/ c \in Listening]

Poll ==
  /\ tip # lastSeen
  /\ Broadcast
  /\ UNCHANGED <<tip, receiver, next, mailbox, consumer, round>>

-----------------------------------------------------------------------------
(* main, and the dispatchers it joins.                                     *)

\* The poller already runs when main subscribes, one receiver after the other.
Subscribe(c) ==
  /\ receiver[c] = "none"
  /\ receiver' = [receiver EXCEPT ![c] = "subscribed"]
  /\ next' = [next EXCEPT ![c] = sent + 1]
  /\ UNCHANGED <<poller, mailbox, consumer, round, owed>>

\* run_on_chain_tips makes the mailbox and spawns the consumer.
StartDispatch(c) ==
  /\ \A d \in Consumers : receiver[d] # "none"
  /\ receiver[c] = "subscribed"
  /\ receiver' = [receiver EXCEPT ![c] = "running"]
  /\ consumer' = [consumer EXCEPT ![c] = "starting"]
  /\ UNCHANGED <<poller, next, mailbox, round, owed>>

Lagging(c) == sent >= next[c] + RingCapacity

\* Faulty: a lagging receiver goes to the end of the channel.
SkipToEnd(c) ==
  /\ receiver[c] = "running"
  /\ Lagging(c)
  /\ next' = [next EXCEPT ![c] = sent + 1]
  /\ UNCHANGED <<poller, receiver, mailbox, consumer, round, owed>>

\* Faulty: a receiver goes to the oldest tip retained although it does not lag.
SkipWithoutLag(c) ==
  /\ receiver[c] = "running"
  /\ sent >= RingCapacity
  /\ next' = [next EXCEPT ![c] = (sent + 1) - RingCapacity]
  /\ UNCHANGED <<poller, receiver, mailbox, consumer, round, owed>>

\* RecvError::Lagged: the receiver moves on to the oldest tip retained.
Skip(c) ==
  /\ receiver[c] = "running"
  /\ Lagging(c)
  /\ next' = [next EXCEPT ![c] = (sent + 1) - RingCapacity]
  /\ UNCHANGED <<poller, receiver, mailbox, consumer, round, owed>>

Receive(c) ==
  /\ receiver[c] = "running"
  /\ next[c] <= sent
  /\ ~ Lagging(c)
  /\ next' = [next EXCEPT ![c] = @ + 1]

\* Faulty: a full mailbox is cleared, and the tip is still not sent.
TrySendAfterClear(c) ==
  mailbox' = [mailbox EXCEPT ![c] =
                IF Len(@) < MailboxCapacity THEN Append(@, next[c]) ELSE << >>]

\* try_send does not wait: a tip that finds the mailbox full is dropped.
TrySend(c) ==
  mailbox' = [mailbox EXCEPT ![c] =
                IF Len(@) < MailboxCapacity THEN Append(@, next[c]) ELSE @]

Forward(c) ==
  /\ consumer[c] # "stopped"
  /\ Receive(c)
  /\ TrySend(c)
  /\ UNCHANGED <<poller, receiver, consumer, round, owed>>

\* The mailbox's receiver is gone: the dispatcher ends and drops its own.
Close(c) ==
  /\ consumer[c] = "stopped"
  /\ Receive(c)
  /\ receiver' = [receiver EXCEPT ![c] = "closed"]
  /\ UNCHANGED <<poller, mailbox, consumer, round, owed>>

-----------------------------------------------------------------------------
(* The consumers: process_monitored_deposits and process_reward_claims.    *)

Ready(c) ==
  /\ consumer[c] = "starting"
  /\ consumer' = [consumer EXCEPT ![c] = "idle"]
  /\ UNCHANGED <<poller, receiver, next, mailbox, round, owed>>

\* Reward claims are not configured, or their initialisation failed.
Stop(c) ==
  /\ c \in MayStop
  /\ consumer[c] = "starting"
  /\ consumer' = [consumer EXCEPT ![c] = "stopped"]
  /\ mailbox' = [mailbox EXCEPT ![c] = << >>]
  /\ UNCHANGED <<poller, receiver, next, round, owed>>

Take(c) ==
  /\ consumer[c] = "idle"
  /\ mailbox[c] # << >>
  /\ round' = [round EXCEPT ![c] = Head(mailbox[c])]
  /\ mailbox' = [mailbox EXCEPT ![c] = Tail(@)]
  /\ consumer' = [consumer EXCEPT ![c] = "busy"]
  /\ owed' = [owed EXCEPT ![c] = FALSE]
  /\ UNCHANGED <<poller, receiver, next>>

Finish(c) ==
  /\ consumer[c] = "busy"
  /\ consumer' = [consumer EXCEPT ![c] = "idle"]
  /\ UNCHANGED <<poller, receiver, next, mailbox, round, owed>>

-----------------------------------------------------------------------------
Dispatcher(c) == Skip(c) \/ Forward(c) \/ Close(c)
Consumer(c) == Ready(c) \/ Stop(c) \/ Take(c) \/ Finish(c)
Main == \E c \in Consumers : Subscribe(c) \/ StartDispatch(c)

Next ==
  \/ NewTip
  \/ Poll
  \/ Main
  \/ \E c \in Consumers : Dispatcher(c) \/ Consumer(c)

\* Every task of the runtime is polled again and again, a poll that fails is
\* repeated, and a round ends: its calls of Bitcoin and Stacks have a timeout, and
\* that Emily's client, which has none of its own, gets an answer is assumed.
Fairness ==
  /\ WF_vars(Poll)
  /\ WF_vars(Main)
  /\ \A c \in Consumers : WF_vars(Dispatcher(c)) /\ WF_vars(Consumer(c))

Spec == Init /\ [][Next]_vars /\ Fairness

-----------------------------------------------------------------------------
(* Properties.                                                             *)

TypeOK ==
  /\ tip \in Tips
  /\ lastSeen \in Tips \cup {NoTip}
  /\ sent \in Nat
  /\ receiver \in [Consumers -> {"none", "subscribed", "running", "closed"}]
  /\ next \in [Consumers -> Nat \ {0}]
  /\ mailbox \in [Consumers -> Seq(Nat \ {0})]
  /\ \A c \in Consumers : Len(mailbox[c]) <= MailboxCapacity
  /\ consumer \in [Consumers -> {"unborn", "starting", "idle", "busy", "stopped"}]
  /\ round \in [Consumers -> Nat]
  /\ owed \in [Consumers -> BOOLEAN]

\* A consumer serves tips in the order they were broadcast, and none twice:
\* what it took last is older than all its mailbox holds, which is in order
\* and older than what its dispatcher reads next, lag and drops included.
InOrder ==
  \A c \in Consumers :
    /\ round[c] < next[c]
    /\ next[c] <= sent + 1
    /\ \A i \in 1..Len(mailbox[c]) :
         /\ round[c] < mailbox[c][i]
         /\ mailbox[c][i] < next[c]
         /\ \A j \in 1..(i - 1) : mailbox[c][j] < mailbox[c][i]

\* A tip that lag or a full mailbox loses is lost only while another is
\* still on its way: a consumer that was sent a tip since its last round has
\* one to read or to take.
OwedRoundIsQueued ==
  \A c \in Consumers :
    owed[c] /\ consumer[c] # "stopped" => next[c] <= sent \/ mailbox[c] # << >>

\* After every broadcast a consumer heard, it starts another round, which
\* reads the chains as they are then: no trigger is lost.
EveryTipStartsARound ==
  \A c \in Consumers : owed[c] ~> ~ owed[c] \/ consumer[c] = "stopped"

\* A service that starts on a quiet chain still serves a tip: one that the
\* poller found before anyone had subscribed is broadcast again, until some
\* consumer takes one or stops.
FirstTipIsServed == <>(\E c \in Consumers : round[c] > 0 \/ consumer[c] = "stopped")
=============================================================================
