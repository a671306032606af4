---------------------------- MODULE RewardKeeper ----------------------------
(***************************************************************************)
(* The service's reward keeper: src/reward_claim_process.rs with the       *)
(* registry client of src/stacks/reward_claim_registry.rs and the nonce of *)
(* src/stacks/wallet.rs, against a Stacks node and its mempool.            *)
(*                                                                         *)
(* A round has two phases, the claims and the withdrawals: each pins a     *)
(* block, reads every page of that block's list, groups the rows by        *)
(* signer-manager and submits one transaction per batch.  An item is a     *)
(* registration with a claim due, or a withdrawal ready to be settled.     *)
(*                                                                         *)
(* Nonces are counted from the account's: 0 is the nonce the chain expects *)
(* next, and a mined transaction lowers all others by one.                 *)
(***************************************************************************)
EXTENDS Integers, FiniteSets, SequencesExt, ClarityMap

CONSTANTS
  Claims, Withdrawals,  \* the items of either phase
  Managers,             \* signer-managers
  ManagerOf,            \* the signer-manager of each item
  None,
  Registered,           \* both lists as the keeper finds them
  PageTicks,            \* PENDING_TICKS: nodes a page visits
  MaxBatch,             \* MAX_STAKERS_LENGTH
  MaxEvents,            \* bound of the model: changes of the chain by others
  MaxFaults             \* bound of the model: failed calls and restarts

Items == Claims \cup Withdrawals

ASSUME ItemAssumption ==
  /\ Claims \cap Withdrawals = {}
  /\ None \notin Items
  /\ IsFiniteSet(Managers)
  /\ ManagerOf \in [Items -> Managers]
  /\ Registered \in [{"claims", "withdrawals"} -> Seq(Items)]
  /\ ToSet(Registered["claims"]) \subseteq Claims
  /\ ToSet(Registered["withdrawals"]) \subseteq Withdrawals
  /\ \A p \in DOMAIN Registered : IsInjective(Registered[p])

ASSUME BatchAssumption == PageTicks \in Nat \ {0} /\ MaxBatch \in Nat \ {0}

VARIABLES
  list,     \* the registry's two linked lists, from the head
  due,      \* the items a pending read lists
  settled,  \* withdrawals done with, whose request ids never come back
  mempool,  \* the wallet's transactions the node holds, by nonce
  pc, phase,
  nonce,    \* StacksWallet.nonce; -1 stands for every nonce already used
  view,     \* the block the reads of the phase are pinned to
  cursor,   \* where the next page starts, None at the head
  fetched,  \* the rows read so far
  batches,  \* the batches of the phase
  at,       \* the one submitted next
  events, faults

chain == <<list, due, settled>>
phaseVars == <<phase, view, cursor, fetched, batches, at>>
vars == <<list, due, settled, mempool, pc, phase, nonce, view, cursor, fetched, batches,
          at, events, faults>>

PhaseOf(item) == IF item \in Claims THEN "claims" ELSE "withdrawals"

Listed(item) == Contains(list[PhaseOf(item)], item)

\* The registry is in use when the keeper starts: any of the listed items may
\* be due.
Init ==
  /\ list = Registered
  /\ due \in SUBSET {item \in Items : Listed(item)}
  /\ settled = {}
  /\ mempool = << >>
  /\ pc = "idle"
  /\ phase = "claims"
  /\ nonce = -1
  /\ view = None
  /\ cursor = None
  /\ fetched = << >>
  /\ batches = << >>
  /\ at = 1
  /\ events = 0
  /\ faults = 0

-----------------------------------------------------------------------------
(* The registry on the chain, as its readers see it.                       *)

\* The elements of a sequence that are in a set, in their order: SelectSeq
\* without its recursion.
Filter(seq, set) ==
  LET places == {k \in DOMAIN seq : seq[k] \in set}
      place(n) == CHOOSE k \in places : Cardinality({j \in places : j < k}) = n - 1
  IN [n \in 1..Cardinality(places) |-> seq[place(n)]]

\* A claim that is served stays registered; a settled withdrawal is pruned.
Serve(items) ==
  /\ due' = due \ items
  /\ settled' = settled \cup (items \cap due \cap Withdrawals)
  /\ list' = [list EXCEPT !["withdrawals"] =
                Filter(@, Withdrawals \ (items \cap due))]

Event ==
  /\ events < MaxEvents
  /\ events' = events + 1
  /\ UNCHANGED <<mempool, pc, nonce, phaseVars, faults>>

\* A registration, or a claim paid out through Bitcoin.
Enlist(item) ==
  /\ Event
  /\ ~ Listed(item) /\ item \notin settled
  /\ list' = [list EXCEPT ![PhaseOf(item)] = Append(@, item)]
  /\ UNCHANGED <<due, settled>>

\* A distribution cycle has passed, or sBTC has decided the withdrawal.
BecomeDue(item) ==
  /\ Event
  /\ Listed(item)
  /\ item \notin due
  /\ due' = due \cup {item}
  /\ UNCHANGED <<list, settled>>

\* A cancellation, or a registration that is used up.
Delist(item) ==
  /\ Event
  /\ item \in Claims
  /\ Listed(item)
  /\ list' = [list EXCEPT !["claims"] = Filter(@, Claims \ {item})]
  /\ due' = due \ {item}
  /\ UNCHANGED settled

\* Anyone may claim or settle for the staker.
ServedByOthers(item) ==
  /\ Event
  /\ item \in due
  /\ Serve({item})

-----------------------------------------------------------------------------
(* The node's mempool.                                                     *)

\* A transaction replaces one of the same nonce only for a higher fee, which
\* grows with the items of the batch.
Admits(n, items) ==
  /\ n >= 0
  /\ n \in DOMAIN mempool => Len(items) > Len(mempool[n].items)

\* The transaction the account's nonce calls for is mined, and the batch call
\* serves the items of it that are still due.
Mine ==
  /\ 0 \in DOMAIN mempool
  /\ Serve(ToSet(mempool[0].items))
  /\ mempool' = [n \in {m - 1 : m \in DOMAIN mempool \ {0}} |-> mempool[n + 1]]
  /\ nonce' = IF nonce >= 0 THEN nonce - 1 ELSE nonce
  /\ UNCHANGED <<pc, phaseVars, events, faults>>

-----------------------------------------------------------------------------
(* Batches.                                                                *)

ItemsUnder == [manager \in Managers |-> {i \in Items : ManagerOf[i] = manager}]

GroupOf(manager, rows) == Filter(rows, ItemsUnder[manager])

\* The chunks(MAX_STAKERS_LENGTH) of the groups, each a signer-manager and a
\* number.
ChunkIds(rows) ==
  {c \in Managers \X (1..Len(rows)) : (c[2] - 1) * MaxBatch < Len(GroupOf(c[1], rows))}

Chunk(manager, k, rows) ==
  LET group == GroupOf(manager, rows) IN
  SubSeq(group, (k - 1) * MaxBatch + 1,
         IF k * MaxBatch < Len(group) THEN k * MaxBatch ELSE Len(group))

\* The groups come out of a HashMap in any order, each with its chunks.
BatchesOf(rows) ==
  {[n \in DOMAIN order |-> Chunk(order[n][1], order[n][2], rows)] :
     order \in {o \in SetToSeqs(ChunkIds(rows)) :
                  \A n \in DOMAIN o :
                    o[n][2] # 1 => n > 1 /\ o[n - 1] = <<o[n][1], o[n][2] - 1>>}}

-----------------------------------------------------------------------------
(* The round.                                                              *)

LeavePhase ==
  /\ IF phase = "claims"
     THEN pc' = "pin" /\ phase' = "withdrawals"
     ELSE pc' = "idle" /\ phase' = "claims"
  /\ view' = None
  /\ cursor' = None
  /\ fetched' = << >>
  /\ batches' = << >>
  /\ at' = 1

Fault == faults < MaxFaults /\ faults' = faults + 1

\* The batches acknowledged in this round carry their place in it; what an
\* earlier round left carries none.
Unmarked == [n \in DOMAIN mempool |-> [items |-> mempool[n].items, batch |-> None]]

\* A tip arrives and the account's nonce is fetched, once for both phases.  A
\* tip whose fetch fails is skipped, which changes nothing.
UpdateWalletNonce ==
  /\ pc = "idle"
  /\ nonce' = 0
  /\ pc' = "pin"
  /\ mempool' = Unmarked
  /\ UNCHANGED <<chain, phaseVars, events, faults>>

\* get_all_pending_claims and get_all_pending_withdrawals ask for the tip once.
PinTip ==
  /\ pc = "pin"
  /\ view' = [list |-> list[phase], due |-> due \cap ToSet(list[phase])]
  /\ pc' = "page"
  /\ UNCHANGED <<chain, mempool, phase, nonce, cursor, fetched, batches, at,
                 events, faults>>

\* Faulty: each page is read from the newest block.
PageSourceLatest == [list |-> list[phase], due |-> due]

\* The block a page is read from.
PageSource == view

\* Where a page starts: at the head, at the cursor, or past the tail for a
\* cursor that is not listed.
Start(from) ==
  CASE from = None -> 1
    [] from # None /\ Contains(PageSource.list, from) ->
         CHOOSE k \in DOMAIN PageSource.list : PageSource.list[k] = from
    [] OTHER -> Len(PageSource.list) + 1

Reaches(k) == k <= Len(PageSource.list)

\* PageTicks nodes are visited and the due ones of them returned.
Rows(from) ==
  LET end == Start(from) + PageTicks IN
  Filter(SubSeq(PageSource.list, Start(from),
                IF Reaches(end) THEN end - 1 ELSE Len(PageSource.list)),
         PageSource.due)

\* Faulty: a page without rows is taken for the last one.
NextUnlessEmpty(from) ==
  IF Rows(from) # << >> /\ Reaches(Start(from) + PageTicks)
  THEN PageSource.list[Start(from) + PageTicks] ELSE None

\* The next cursor is the first node that was not visited.
NextCursor(from) ==
  IF Reaches(Start(from) + PageTicks)
  THEN PageSource.list[Start(from) + PageTicks] ELSE None

FetchPage ==
  /\ pc = "page"
  /\ NextCursor(cursor) # None
  /\ fetched' = fetched \o Rows(cursor)
  /\ cursor' = NextCursor(cursor)
  /\ UNCHANGED <<chain, mempool, pc, phase, nonce, view, batches, at, events, faults>>

FetchLastPage ==
  /\ pc = "page"
  /\ NextCursor(cursor) = None
  /\ \E rows \in {fetched \o Rows(cursor)} :
     IF rows = << >>
     THEN LeavePhase
     ELSE /\ batches' \in BatchesOf(rows)
          /\ cursor' = None
          /\ fetched' = << >>
          /\ pc' = "submit"
          /\ UNCHANGED <<phase, view, at>>
  /\ UNCHANGED <<chain, mempool, nonce, events, faults>>

\* A failed read ends the phase, and the other phase runs all the same.
ReadFails ==
  /\ pc \in {"pin", "page"}
  /\ Fault
  /\ LeavePhase
  /\ UNCHANGED <<chain, mempool, nonce, events>>

NextBatch ==
  IF at < Len(batches)
  THEN at' = at + 1 /\ UNCHANGED <<pc, phase, view, cursor, fetched, batches>>
  ELSE LeavePhase

\* The node takes the transaction into its mempool.
Enter(items, batch) ==
  /\ Admits(nonce, items)
  /\ mempool' = MapSet(mempool, nonce, [items |-> items, batch |-> batch])

\* A batch is signed with the wallet's nonce and sent.
Submission ==
  /\ pc = "submit"
  /\ NextBatch
  /\ UNCHANGED <<chain, events>>

\* SubmitTxResponse::Acceptance: the next batch gets the next nonce.
Accepted ==
  /\ Submission
  /\ Enter(batches[at], <<phase, at>>)
  /\ nonce' = nonce + 1
  /\ UNCHANGED faults

\* SubmitTxResponse::Rejection, because the nonce is used or taken, or for
\* another reason of the node's.
Rejected ==
  /\ Submission
  /\ IF Admits(nonce, batches[at]) THEN Fault ELSE UNCHANGED faults
  /\ UNCHANGED <<mempool, nonce>>

\* No answer: the transaction may have been accepted or not.
Unanswered ==
  /\ Submission
  /\ Fault
  /\ Enter(batches[at], None) \/ UNCHANGED mempool
  /\ UNCHANGED nonce

\* The service restarts, with a wallet at nonce 0 that it does not use before
\* the first fetch.
Restart ==
  /\ Fault
  /\ pc # "idle"
  /\ pc' = "idle"
  /\ phase' = "claims"
  /\ nonce' = -1
  /\ view' = None
  /\ cursor' = None
  /\ fetched' = << >>
  /\ batches' = << >>
  /\ at' = 1
  /\ mempool' = Unmarked
  /\ UNCHANGED <<chain, events>>

Work == UpdateWalletNonce \/ PinTip \/ FetchPage \/ FetchLastPage
        \/ Accepted \/ Rejected

Next ==
  \/ \E item \in Items :
       Enlist(item) \/ BecomeDue(item) \/ Delist(item) \/ ServedByOthers(item)
  \/ Mine
  \/ Work
  \/ ReadFails
  \/ Unanswered
  \/ Restart

\* Tips keep coming and the node answers but for MaxFaults calls; a block is
\* found again and again.
Spec == Init /\ [][Next]_vars /\ WF_vars(Work) /\ WF_vars(Mine)

-----------------------------------------------------------------------------
(* Properties.                                                             *)

TypeOK ==
  /\ list \in [{"claims", "withdrawals"} -> Seq(Items)]
  /\ due \subseteq Items
  /\ settled \subseteq Withdrawals
  /\ \A n \in DOMAIN mempool : n \in Nat /\ Len(mempool[n].items) \in 1..MaxBatch
  /\ pc \in {"idle", "pin", "page", "submit"}
  /\ phase \in {"claims", "withdrawals"}
  /\ nonce \in Nat \cup {-1}
  /\ cursor \in Items \cup {None}
  /\ fetched \in Seq(Items)
  /\ batches \in Seq(Seq(Items))
  /\ at \in Nat \ {0}

\* The wallet's transactions follow each other without a gap from the nonce
\* the chain expects, so none waits for one that nobody will send; and the
\* next one is not sent beyond them.
NoNonceGap ==
  /\ \A n \in DOMAIN mempool : \A m \in 0..n : m \in DOMAIN mempool
  /\ nonce >= 1 => nonce - 1 \in DOMAIN mempool

\* Whatever the chain did between the pages, the batches of a phase hold each
\* item due at the pinned block once and no other, of one signer-manager each
\* and no more than the contract takes.
BatchesCoverView ==
  pc = "submit" =>
    /\ \A item \in Items :
         Cardinality({p \in (DOMAIN batches) \X (1..MaxBatch) :
                        p[2] \in DOMAIN batches[p[1]] /\ batches[p[1]][p[2]] = item})
           = IF item \in view.due /\ Contains(view.list, item) THEN 1 ELSE 0
    /\ \A b \in DOMAIN batches :
         /\ Len(batches[b]) \in 1..MaxBatch
         /\ \A k, l \in DOMAIN batches[b] :
              ManagerOf[batches[b][k]] = ManagerOf[batches[b][l]]

\* A transaction the node acknowledged in this round is not replaced by a
\* later batch of the round, claims by withdrawals included: it leaves the
\* mempool by being mined.
AcknowledgedIsKept ==
  [][\A n \in DOMAIN mempool :
       mempool[n].batch # None =>
         \/ n \in DOMAIN mempool' /\ mempool'[n].items = mempool[n].items
         \/ n - 1 \in DOMAIN mempool' /\ mempool'[n - 1] = mempool[n]
         \/ n = 0 /\ ToSet(mempool[0].items) \cap due' = {}]_vars

\* The keeper catches up: once the others stop, nothing stays due, whatever
\* was rejected, replaced, left unanswered or lost in a restart.
CatchesUp == <>[](due = {})
=============================================================================
