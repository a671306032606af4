# Spox in TLA+

Spox watches sBTC deposits for stakers on Bitcoin and keeps the pox-5 rewards of
registered stakers claimed on Stacks.  This directory models its core logic in
TLA+, checks it with TLC on small instances, and proves the central facts with
TLAPS for all instances.  Paths below are relative to `src/`.

## 1. Inventory

| Part | Source | State | Operations |
|---|---|---|---|
| Reward claim registry (Clarity) | `contracts/contracts/reward-claim-registry.clar` | registrations and their linked list, `max-processed-distribution`, indexed L1 withdrawals and their linked list, admins, fee, reentrancy guard, escrowed STX | register, top up, cancel, claim, settle (each single and batched), four paginated reads, fee and admin changes |
| Reference signer-manager (Clarity) | `contracts/contracts/signer-manager.clar` | earned fees, fee and its snapshot per cycle, withdrawal requests and liability, unclaimed staker rewards, sBTC held | claim-rewards, claim-staker-rewards, reclaim, settle, withdraw-fees, sweep-fee-refunds, admin and fee changes |
| Deposit address registry (Clarity) | `contracts/contracts/registry.clar` | `next-address-id`, `deposit-address` | register-address, remove-addresses, reads |
| Chain-tip poller and dispatcher (Rust) | `src/bitcoin/chain_tip.rs`, `src/dispatch.rs` | last tip sent, broadcast ring, one mailbox per consumer | poll, broadcast, forward |
| Deposit monitor (Rust) | `src/deposit_monitor.rs`, `src/storage/` | storage of deposit scripts, cache of transactions, LRU of created deposits, next registry id | sync with the address registry, update the wallet, find deposits, notify Emily |
| Reward keeper (Rust) | `src/reward_claim_process.rs`, `src/stacks/reward_claim_registry.rs`, `src/stacks/wallet.rs` | wallet nonce | read pending claims and withdrawals, batch them, sign and submit |
| Stacks node client (Rust) | `src/stacks/node.rs`, `clarity.rs`, `registry.rs`, `transaction.rs` | none | read a data-var or a function at a block, account, tip, submit; parse each answer |
| Bitcoin node client (Rust) | `src/bitcoin/node.rs`, `src/bitcoin/wallet.rs` | none; the wallet and the scan are the node's | load or create the wallet, import descriptors, list outputs, scan |
| Process and configuration (Rust) | `src/main.rs`, `src/context.rs`, `src/config/` | the settings | read and validate the settings, commands, start the loops |
| Web application, claims page (TypeScript) | `webapp/src/components/claims/register-form.tsx`, `webapp/src/lib/claims-*.ts`, the configuration and wallet providers | form fields, cached fee with its scope and the load in flight, trait check with its scope, loaded registration, busy flags, calls in flight | edit, connect, switch network, check a signer-manager, load position and registration, register, add claims, cancel |
| Web application, activity panel | `webapp/src/components/claims/activity-panel.tsx`, `webapp/src/lib/registry-events.ts` | events, next offset | load a page, filter |
| Web application, the rest | `webapp/` | inputs of the legacy deposit page | derive a deposit address; layout |

How they interact.  Stakers and sponsors call the claim registry.  A keeper (the
Rust service, or anyone) calls `process-reward-claims` and
`settle-pending-withdrawals`; the registry then calls the staker's
signer-manager, an untrusted contract, which calls pox-5 and sBTC and may call
the registry back.  The Rust service polls Bitcoin's tip, broadcasts it, and the
deposit monitor and the reward keeper each take tips from a mailbox.  The web
application reads the contracts through a Stacks API and asks the user's wallet to
call the claim registry.

What is hard.

* An untrusted contract runs in the middle of the registry's claim and
  settlement, between reading a registration and writing it back.
* Money: escrow is split over installments with integer division at fees that
  change; sponsor, staker and admin differ; batches skip failing items without
  rolling back what the item did.
* Two hand-written doubly-linked lists must stay in step with two maps, and
  pages of them must neither repeat nor skip.
* The schedule: two distribution cycles per reward cycle, one or two claims per
  reward cycle, catch-up after a delay, coverage by `calculate-rewards` that
  lags behind.
* The service: bounded mailboxes that drop tips, a nonce counted locally, and
  answers of nodes that fail, come late, or are not what was asked for.
* Nodes that restart, rescan for longer than a caller waits, and have one slot for
  a scan that anyone may take.
* The claims page: every answer of the API arrives in a form whose staker,
  signer-manager or network may have changed since the question.

## 2. Plan

1. `ClarityMap`, `LinkedList`, `ClaimSchedule`: the data and arithmetic of the
   claim registry; proofs about them.  *Done.*
2. `RewardClaimRegistry`: the whole contract; `KeyQueue` as the abstract
   specification of its list; runs; proof of the inductive invariant.  *Done.*
3. `SignerManager`: the reference signer-manager with pox-5 and sBTC around it;
   solvency and fees.  *Done.*
4. `ChainTipDispatch`: poller, broadcast channel, dispatcher and mailboxes;
   every tip starts a round.  *Done.*
5. `RewardKeeper`: the keeper's rounds (nonce, pages pinned to a block, batches)
   against a mempool.  *Done.*
6. `DepositMonitor`: registry sync, wallet, lookups, caches, Emily, with the
   address registry contract as two of its actions.  *Done.*
7. `RegisterForm`: the registration form with the calls it has in flight.  *Done.*
8. `ClarityValue`, `StacksNode`, `StacksWallet`: what goes over the wire to a Stacks
   node and back; `KeeperCalls` and `MonitorCalls`: the keeper and the monitor call
   by call, shown to implement 5 and 6.  *Done.*
9. `Settings`, `BitcoinNode`, `Service`: the process from its settings to the
   outputs it sees.  *Done.*
10. `ActivityPanel`: pages by an offset into a list that grows at its head, filters,
   and answers of a configuration that was left.
11. Loads of the registration form that answer after the staker changed: the
   registration shown, and the cancellation's post-condition, may be another staker's.
12. Stacks reorganisations: in `DepositMonitor` (a synced id that comes to name
   another address) and `RewardKeeper` (a mined transaction that returns).
13. Composition: `RewardKeeper` over the lists of the registry, with `KeyQueue` as
   the abstract registry both refer to.
14. Proofs of every safety property and refinement that the runs check, for all
   instances.  *Done*, but for what `register_form_fee` and `manager_fee_change` refute.
15. Further proofs: the safety of the compositions of 12 and 13 when they are there.

## 3. The claim registry

### Modules

* `ClarityMap`: `define-map` as a function over the keys that have an entry, and the
  sum of the amounts of some keys (`SumOver`).  A sum is counted in units, without
  recursion, so that it can be proved about; that it is the sum is an assumption TLC
  evaluates (`SumsAgree` in `MCSignerManager`).
* `LinkedList`: one list is a record of its head and tail data-vars and its map
  of links.  `ListAppend`, `ListRemove` are `ll-append`, `ll-remove` and their
  copies for withdrawals; `Page` is the fold over `PENDING_TICKS` of the
  four paginated reads (the nodes it visits, `WalkNode`, and its rows, `WalkRows`); `WellFormed` says what the links stand for.
* `ClaimSchedule`: the arithmetic, with no state.
* `KeyQueue`: what the list promises, a queue of distinct keys.
* `RewardClaimRegistry`: the contract.

A Stacks transaction runs alone, so a public function that calls no other
contract that can call back is one action.  A batch, and every function that
calls a signer-manager, is a transaction of several steps; `tx` says which
transaction is running and where it is: inside `claim-rewards` (`"pull"`), inside
`claim-staker-rewards` (`"claim"`), inside a settlement call (`"settle"`), or
between two items of a batch.  While a signer-manager runs, every public function,
pox-5's `calculate-rewards` and sBTC's `initiate-withdrawal-request` may run too:
that is the callback.  `tx.registration` is the copy of the registration read
before the call and written back after it.

| Model | Contract |
|---|---|
| `registrations`, `registrationLL` | `registrations`; `registration-ll`, `-head`, `-tail` |
| `pendingWithdrawals`, `withdrawalLL` | `pending-withdrawals`; `pending-withdrawal-ll`, `-head`, `-tail` |
| `maxProcessed`, `feePerClaim`, `admins`, `signerManagerCallActive` | the data-vars and maps of those names |
| `stx`, `escrow`, `burned` | the STX ledger |
| `pox`, `computeHeight`, `burnHeight`, `sbtc` | what pox-5, the burn chain and sbtc-registry answer |
| `history`, `settled` | not in the code: what each registration bought and claimed, and what was handed over for settlement |

A batch of one item stands for the single-item function: the two differ in what
a failing item does, abort or skip, and an abort leaves no trace.

Abstractions.  Bond periods, request ids and principals are model values or
small numbers.  `get-earned` is a nondeterministic choice (`needsPull`).  A
signer-manager that errs keeps what it did in pox-5 or sBTC: another transaction
could have done the same just before, so this adds no state.  A signer-manager
that aborts at run time rolls the whole transaction back, which is a stutter.
Three defensive arms are kept though they are unreachable: a burn or a refund
larger than the contract's balance, the pruning of a withdrawal sBTC does not know
(sbtc-registry never deletes requests), and a list neighbour without links.

### Runs

The constants' values are in `MCRegistry.tla` and in the configuration files.
Deadlock is checked.  Symmetry is not used: the principals play different parts.

* `registry_claims`: two stakers, one signer-manager, both cadences, five Bitcoin
  heights (distribution cycles of one block, so two reward cycles), top-ups,
  cancellations, single and pair batches, pages of one node.
  `GuardMatchesCall`: the guard is set exactly while a signer-manager runs.
  `NoStaleAdvance`: the copy written back is the stored registration.
  `InstallmentsConserved`: what was bought is still due or was claimed, once.
  `CadenceRespected`: nothing is claimed before its cycle has elapsed and been
  computed, a registration never returns to what it has claimed, and with
  one-claim-per-reward-cycle takes each second half once.
  `NoRewardCycleSkipped`: however late its claims come, from its first claim on a
  registration leaves out only the first halves, with that cadence, and else a
  second half that has elapsed and whose first half was claimed.
  `PendingClaimsListed`: the pages of `get-pending-claims` list each due
  registration once.
* `registry_escrow`: two fees, admins that pay nothing, a third-party sponsor, a
  batch that registers and one that cancels.  `EscrowBacksPrepaid`: the
  contract's balance is the sum of `prepaid-ustx`, so that no refund or burn can
  fail in the middle of a batch.  `SponsorsMadeWhole`: no STX passes from one
  sponsor to another.  `ClaimsNeverOvercharge`: a claim leaves the remaining
  installments at least their share.
* `registry_list`: two stakers; one has two signer-managers and a position that moves
  from bond to stake, between the managers and away, with re-registrations that
  start earlier.  `RegistrationListSound` and the refinement `ListIsQueue` (the list
  implements `KeyQueue`).  `MaxProcessedBoundsServed`: what bounds a staker's next
  claim covers what was claimed under either manager.
* `registry_withdrawals`: claims that report any request id, settlement batches
  that repeat items, with weak fairness of the running transaction's steps.
  `WithdrawalListSound`, `SettledOnce` (and only once sBTC has decided),
  `ReadyWithdrawalsListed`, the type invariant.  `ClaimCallsAdvance`: whatever a
  signer-manager answers, the registration moves on.

Bounds.  `MaxBurnHeight` ends the chain; two reward cycles are enough for a
catch-up jump and for a claim on either side of it.  `MaxRemaining` stops
top-ups.  Three installments are the least that leave a remainder twice.  Three
registrations (of two stakers, one of them under two managers) give a list with a
head, a middle and a tail to remove; that every longer list behaves the same is
proved.

Fairness.  `WF_vars(Step)` only: a transaction is executed to its end within one
block, and a signer-manager returns (a call that does not is aborted by the cost
limit, and the transaction with it).  Nothing is assumed of users, keepers, pox-5
or Bitcoin.

### Proofs

All are in `RewardClaimRegistry_proofs`.

Lists: for a list of any length over any keys, appending a new key and removing any
key keep it well-formed and change exactly that key.  The argument exhibits the
sequence the new list represents.

Schedule: a registration starts in the cycle it names; the schedule
moves forward; with one claim per reward cycle the next claim is the second half
of the next reward cycle; the catch-up jump skips at most the second half of the
claimed reward cycle; one installment is within the escrow and leaves the others
their share.

The contract: `Spec => []IInv`, from which `TypeOK`,
`RegistrationListSound`, `WithdrawalListSound`, `GuardMatchesCall` and
`NoStaleAdvance` follow.  None of these is inductive alone.  A claim's return
deletes or rewrites the key it copied: list and map stay in step only because the
key is still stored (`NoStaleAdvance`); the copy is still the stored one only
because every public function that writes registrations is refused during the
call, which needs the guard to be set exactly then (`GuardMatchesCall`); removing a
list node keeps the list only if it is `WellFormed`; and the types (escrow and
prepaid fees in `Nat`) need the burn to be within the prepaid fee.

The proofs assume the named assumptions of `RewardClaimRegistry`: stakers,
signer-managers and the deployer are principals, `None` is no key, the inputs have
their types, and the bounds are natural numbers.

Money.  `MoneyInv`, that the escrow is the sum of `prepaid-ustx` and that each sponsor's
STX is in its wallet, in its registrations or burned, is inductive beside `IInv`.  Every step
changes one registration at most, so the argument is one equation for a sum with one entry
added, changed or taken out.  `NoClaimOvercharges` follows from what a claim burns.

History.  `HistoryInv`: what a registration bought is what remains and what it was claimed
for, all of it below its next claim; what was ever claimed had elapsed, was computed, and is
within the staker's `max-processed-distribution`.  It is inductive only with
`ClockInv`: a batch reads the current and the computed cycle once, and they lag behind
pox-5's but never lead.  From both follow `InstallmentsAccounted`, `ClaimsInCadence` and
`MaxProcessedBoundsClaims`.  `NoRewardCycleLost` is inductive beside them: a claim was due
when its batch read the clock, so what the jump passes had elapsed then, and with
one-claim-per-reward-cycle the next claim is a second half, so the cycle between two
of them is a first half.  `WithdrawalsSettledOnce` needs that sBTC's decisions are final.

Pages.  `PendingClaimsComplete` and `ReadyWithdrawalsComplete`, for lists and pages of any
length: the links represent some sequence of keys, so a page is a segment of it
(`WalkVisits`), its rows are the listed keys of that segment in order (`RowsFollow`), the
cursor is the key after it, and as many pages as there are keys read it to its end (`PagesList`).

Queue.  `RegistrationListIsQueue`: `Spec` implements `KeyQueue` under the mapping of the
list to the keys met from its head.  `WholeWalkIs` says that this is the sequence the
links represent; `AppendQueue` and `RemoveQueue` make of `ll-append` and `ll-remove`
the queue's two steps, and every other step leaves the order as it is.

Only model-checked is the liveness property `ClaimCallsAdvance`.

## 4. The signer-manager

`SignerManager` has one action per public function that changes the contract's state,
and around it pox-5 (`CalculateRewards`, the callback `ValidateStake`)
and sBTC (`AcceptWithdrawal`, `RejectWithdrawal`).  No call of this contract hands
control to an untrusted one, so each function is one action, and one that errs is
no step: also a `validate-stake!` with a pox-addr that `check-pox-addr` refuses.
`register-self` changes nothing of the contract and is left out.

| Model | Code |
|---|---|
| `admins`, `feesBips`, `feeBipsForCycle`, `earnedFees`, `poxAddrs`, `withdrawalRequests`, `withdrawalLiability`, `unclaimedStakerRewards` | the data-vars and maps of those names; of a pox-addr only its max-fee |
| `balance`, `wallet`, `sbtc` | sBTC of the contract and of the stakers, and sBTC's withdrawal requests |
| `owed`, `roundingOwed`, `share`, `calculated` | pox-5: rewards to pull, shares pulled, how often rewards were calculated |
| `net`, `refunds`, `swept`, `pulledUnder`, `charges` | not in the code: what stakers earned, what sBTC minted back, what was swept, which fees a share was pulled and charged under |

Runs.

* `manager_solvency`: two stakers with rewards of 5 and 2 units at a fee of three
  tenths, so that fees round; one has a pox-addr or not; two withdrawal requests.
  `EverySatoshiOwed`: no amount is below zero and the balance is what the contract owes to admins and stakers
  plus the fee budgets that came back, and a sweep takes only these; the liability
  is the sum of the requests that are open, so no reclaim or settlement underflows.
  `StakersMadeWhole`: nothing earned is lost or paid twice.  `SharesReserved`: one
  claim never takes what another needs.
  `SameFeeForEveryStaker`: an admin cannot change the fee between two claims of the
  same rewards; that it holds beside bonds and with several admins is proved.
* `manager_fee_change` finds a divergence.  The contract's header says a fee is
  deducted from rewards calculated after it was set; the code snapshots the fee of
  a reward cycle at its first pull (`map-insert`), so rewards of the cycle's second
  distribution pay the old fee.

Bounds.  `MaxBips` is 10 in place of 10000, so that small amounts round.
`MaxCalculated = 2` gives a cycle its two distributions; `MaxRequests = 2` lets a
rejected and an accepted withdrawal be open at once.

Proofs.  `SignerManager_proofs`, for all stakers, cycles, bonds, fees and rewards, any
number of requests and any decision of sBTC.

* `OneFeePerScope`.  The invariant says that a scope with a pulled share has a snapshot, and
  that every charge was made at the snapshot of its scope; a pull keeps each fee it finds.
* `BooksBalance` (`EverySatoshiOwed`) and `NoStakerShort` (`StakersMadeWhole`) are
  one induction.  Both are equations between sums over the open requests; a claim adds one
  request, a reclaim or a settlement takes one out, a decision of sBTC moves one between
  sums.  It needs `RequestsInv`: a request is retired only after sBTC decided, and belongs to
  the staker it was recorded for.
* `SharesCovered` (`SharesReserved`) is a sum over scopes of sums over stakers.

Assumed is that stakers, reward cycles and bonds are finitely many, without which a sum over
them means nothing.

## 5. Chain tips

`ChainTipDispatch` is the poller, tokio's broadcast channel, one dispatcher and
mailbox for each consumer, and `main`, which subscribes while the poller already
runs on another thread.

| Model | Code |
|---|---|
| `tip`, `lastSeen`, `Poll` | the Bitcoin node's tip; `last_seen` and the loop of `run_poller` |
| `sent`, `next[c]`, `Skip` | the broadcast channel: how many were sent, where each receiver reads, `RecvError::Lagged` |
| `receiver[c]`, `Subscribe`, `StartDispatch`, `Close` | `main` and `run_on_chain_tips` |
| `mailbox[c]`, `TrySend` | the mpsc channel and `try_send` |
| `consumer[c]`, `round[c]` | the consumer's loop, and the tip it took last |
| `owed[c]` | not in the code: the consumer was sent a tip since its last round |

A tip is named by the number of its broadcast: what order and loss are about.

Runs.  `tips`: `InOrder`: a consumer serves tips in the order of their broadcast,
none twice, whatever lag and full mailboxes lose.  `OwedRoundIsQueued` and
`EveryTipStartsARound`: a tip is lost only while another one is on its way, so after every
broadcast the consumer starts another round; since a round reads the chains as
they are then, no trigger is lost.  `FirstTipIsServed`: a tip found before anyone has
subscribed is broadcast again until a consumer takes one.  The doc of `run_on_chain_tips` says a function runs
whenever a new tip is detected; what holds is weaker: a full mailbox drops the
newest tip and keeps the older ones, and the next round runs with one of these.

Bounds.  A ring of two and a mailbox of one, against five broadcasts, make a
receiver lag twice and a mailbox overflow in every order.  Two tips are enough for
the chain to return to a tip it left.  `CHECK_DEADLOCK FALSE`: once `MaxSends`
is reached and all is served, every task waits for a block, as the service does.

Fairness.  Weak fairness of the poll, of `main`, and of each dispatcher and each
consumer: tokio polls every task that is ready, and a round ends because its calls
of the Bitcoin node and of the Stacks node have timeouts (`bitcoin/node.rs:72`,
`stacks/node.rs:212,403`).  The Emily client is built from its defaults
(`context.rs:34-41`), which set none: that Emily answers or the connection breaks is an
assumption of `EveryTipStartsARound`; with an Emily that hangs for good the round of the
deposit monitor does not end.  The node is not made to find blocks.

Proofs.  `ChainTipDispatch_proofs`: `TypeCorrect`, `ServedInOrder`, `NoTriggerLost`
for any consumers, tips and positive capacities.  `OwedRoundIsQueued` is inductive
only with the mailbox's order and with what a consumer that has not subscribed,
or has stopped, looks like (`Good`).  The two liveness properties stay with TLC.

## 6. The reward keeper

Two modules.  `RewardKeeper` says what a round does; `KeeperCalls` says which calls it
does it with.

`RewardKeeper` is `process_reward_claims` with the registry client and the
wallet's nonce, against a node's mempool.  A round fetches the nonce once; then
each of its two phases (claims, withdrawals) pins a block, reads the pages of that
block's list, groups the rows by signer-manager, splits the groups into batches,
and signs and submits one transaction per batch.

| Model | Code |
|---|---|
| `list`, `due`, `settled` | the registry's two lists and which of their items a pending read returns |
| `mempool` | the wallet's transactions at the node, external |
| `pc`, `phase`, `at` | where the loop is |
| `nonce` | `StacksWallet.nonce` |
| `view`, `cursor`, `fetched` | the pinned tip, the `next` of a page, the rows so far |
| `batches`, `BatchesOf` | the `HashMap` of groups and `chunks(MAX_STAKERS_LENGTH)`, in any order of the groups |
| `Accepted`, `Rejected`, `Unanswered` | the answers to a submission |

Nonces are counted from the account's, so a mined transaction lowers all of them by
one and no bound on nonces is needed; `-1` stands for every nonce already used.
An item is a registration with a claim due or a withdrawal ready to settle; a batch
call serves the items of it that are still due, as the contract skips the others.
A transaction replaces one of the same nonce only for a higher fee, and the fee
grows with the batch.

`KeeperCalls` replaces the steps that talk to the node.  Each call builds its arguments
as Clarity values, the node and the registry answer (or something else does), and
the answer goes through the client and the parsers.

| Model | Code |
|---|---|
| `StacksNode` | `src/stacks/node.rs`: what each call makes of a status and a body |
| `ClarityValue` | `src/stacks/clarity.rs`: a value is its type and its data; a field of another type counts as missing |
| `StacksWallet` | `src/stacks/wallet.rs`, `transaction.rs`: address, digest, signature; keys, hashes and signatures are free values |
| `ContractPage`, `PageAnswer` | `get-pending-claims`, `get-pending-withdrawals` as the node runs them |
| `RowParses`, `PageParses`, `ParsedRows`, `ParsedNext` | the `TryFrom` implementations of `reward_claim_registry.rs` |
| `RegistrationKey`, `WithdrawalKey`, `RewardClaimsBatch`, `WithdrawalsBatch` | the arguments sent |
| `NodeAdmits`, `CallItems` | the node's checks of a transaction, and what the contract reads from its arguments |
| `BadAnswers`, `BadPages`, `BadAccounts` | no answer, an error, a text that is no JSON, JSON of another shape, rows of another version of the registry |

`ImplementsKeeper`: with all that, each step is one of `RewardKeeper`'s.  A wrong
field, a wrong order of arguments, a parser that accepts what it should not, a page
kept in part, or a transaction the contract or the node refuses, would be a step
`RewardKeeper` does not have.

Run `keeper`, of `KeeperCalls`: four listed claims of two signer-managers, a fifth to come, one
withdrawal; pages of two nodes, batches of two; any of the items may be due at the
start.  `NoNonceGap`: no transaction waits for one that nobody will send.
`BatchesCoverView`: whatever the chain does between the pages, the batches hold
each item due at the pinned block once, and no other.  `AcknowledgedIsKept`: no
batch of a round replaces one the node acknowledged in it.  `CatchesUp`: in the
end nothing stays due, whatever was rejected, replaced, left unanswered or lost
in a restart.

Bounds.  `MaxEvents = 1` change of the chain by others, in any step of any round
(mining by the keeper's own transactions is not counted);
`MaxFaults = 1` failed call, lost answer or restart.  Four claims, three of one
manager, give a second page, a page with no due row before the last, and a group
that fills a batch and leaves a rest.

Fairness.  `WF(Work)`, the steps of `RewardKeeper`: tips keep coming, and but for
`MaxFaults` calls the node answers.  It is stated on what a call comes to, so that
a call that is answered wrongly for ever does not count as progress.  `WF(Mine)`: blocks are found and take the transaction that is next.  Nothing
is assumed of the others.

Proofs.  `RewardKeeper_proofs`, for any items, pages, batches, events and faults.
`NoNonceGap` is inductive: a transaction enters at the wallet's nonce, which is at most one
past the last.  `AcknowledgedIsKept` needs `AcknowledgedBelowNonce`: what the
round acknowledged lies below the wallet's nonce, which only mining lowers, and
mining lowers both.

`BatchesCoverView` holds for lists, pages and batches of any length
(`BatchesAlwaysCover`).  `ListsInv`: each list names items of its own phase, each
once, whatever is added, removed or served.  `RoundInv`: the rows fetched so far are
the due items before the place of the cursor in the pinned list, each once, and the
batches hold exactly the items due in it.  A page adds the due items from its start
to the next cursor (`PageAdds`), so the last page completes the set; and the chunks of
the groups, put in any order of the groups, hold each row at one place
(`BatchesCoverRows`).  To be proved about, `Filter`, `Chunk` and `BatchesOf` are functions
of places, without recursion.  `KeeperTypeCorrect` is the type invariant.

The same module proves `ImplementsKeeper` for any parameters, and with it that the
specification of the calls implies `RewardKeeper`'s, so all of the above holds of the calls
too (`CallsRefineKeeper`; the fairness of both is that of the same actions, and is not what
is proved).  The argument takes each call in turn.  `Shared_proofs` has what the
client makes of an answer: a success is read as the value that was sent, anything of
another shape fails.  For each row of a page, the fields the parser reads are those the
contract wrote, and a row of another version fails it; so a page is taken whole or fails.
A transaction the wallet signs at its nonce is admitted by the node when `RewardKeeper`
admits it, and the contract reads from its arguments the items of the batch.

Assumed are the named assumptions: items of the two phases and `None` differ, lists
name items once at the start, there are finitely many signer-managers, keys of
different items differ, and the wallet's key is no manager's.

## 7. The deposit monitor

Two modules again: `DepositMonitor` and, for its sync with the address registry,
`MonitorCalls`.

`DepositMonitor` is the monitor's round with the in-memory storage, the address
registry contract and its client, a Bitcoin node and Emily.  A round syncs the
registry, imports the scripts into the wallet, reads the unspent outputs, makes a
request of each, and sends the requests.  Blocks, reorganisations, registrations and
removals happen between any two calls.

| Model | Code |
|---|---|
| `depositAddress`, `nextAddressId` | the maps and vars of `registry.clar` |
| `chain`, `imported` | the active chain; the descriptors of the watch-only wallet |
| `nodeWallet` | whether a wallet is configured: `listunspent` or `scantxoutset` |
| `emily` | the outputs Emily has a deposit for |
| `monitored`, `lastNextAddressId` | `storage/memory.rs` |
| `createdDeposits`, `txHexCache` | the two caches of the monitor |
| `start`, `registryNextId` | the range of `update_from_registry` |
| `utxos`, `deposits` | what is left of `get_pending_deposits` and of the requests |

Abstractions.  A script is a value with a lock time, and may be unparsable.  A
block is the set of deposit outputs confirmed in it, and its hash is the chain up
to it, so a block that a reorganisation replaced has another hash.  The
wallet's rescan is taken to reach back far enough (section 9 has when it does not).  The cache of created deposits drops any entry when it is
full; the transaction cache drops none, as its size is far above the
model's.  Emily's answers other than taking or refusing a request change nothing
here.  The Stacks chain does not reorganise (see the plan).

`MonitorCalls` spells out `get-next-address-id` and `get-addresses` as Clarity values:
ids that have no address, ids wider than 64 bits, answers about other ids or
with other types.  `ImplementsMonitor`: each call is a step of `DepositMonitor`, so a
chunk is added under the ids that were asked for, or not at all.

Run `monitor`, of `MonitorCalls`, with both ways to read outputs: one script from the configuration,
whose output expires two blocks after its own, one from the registry, beside an
id whose scripts do not parse; chunks of one id; a cache of one deposit.
`SyncedAreMonitored`: an id below the last next id is never read again, so its
script is monitored, in the middle of a sync, after a failed one and after a
restart.  `RequestsAreExact`: a request names a monitored script and an output
confirmed at the height its expiry was computed from, although that height may
come from confirmations counted at a newer block, and the transaction from the
cache.  `DepositsReachEmily`: every deposit that stays reportable reaches Emily.

Bounds.  `MaxEvents = 3`: a block, a registration and a reorganisation in any
order, or two reorganisations and a block.  `MaxFaults = 1`: one failed call, late
tip or restart, at any step.

Fairness.  `WF(Work)` only: blocks keep coming, which the model shows as tips of
the height it has reached, and but for `MaxFaults` of them the calls are answered.  For
the nodes' calls an error after the timeout is an answer; that Emily answers is, as in
section 5, an assumption of `DepositsReachEmily`.

Proofs.  `DepositMonitor_proofs`: `NothingSyncedIsMissing` and `EveryRequestIsExact`,
for any registry, chains, chunk size, events and faults.  The first needs that a
sync in progress continues where the last next id stands, and that the range it
read never passes the contract's; the second that a cached transaction belongs to
the block it is cached for and that outputs to look up pay to monitored scripts.
`MonitorTypeCorrect` is the type invariant: the cache of created deposits never outgrows
its size.  `CallsImplementMonitor` proves `ImplementsMonitor` for any parameters: the ids
of an answer are compared with those asked for before anything is added, so every answer
either is the contract's or stops the sync.  It needs `WidthInv`, that ids stay within the
64 bits the service reads them into, which holds by the assumption that the registry
starts within them and that there are at most `MaxEvents` registrations.

## 8. The claims page

`RegisterForm` is one mounted form with the configuration and wallet providers
around it.  A handler runs to its end or to its first `await`, so it is one action; what it
does after an answer is another one, and holds, as the closure does, the values
of the rendering that started it.

| Model | Code |
|---|---|
| `config`, `account` | `ClaimsConfigProvider`; `WalletProvider` |
| `staker`, `signerManager`, `startCycle`, `cadenceChosen`, `claimCount` | the inputs of the form |
| `feePerClaim`, `feeScope`, `feeLoad` | `feePerClaimRef`, `feeScopeRef`, and `feeLoadRef` with the configuration it was started for |
| `traitCheck`, `traitCheckScope` | the signer-manager's check and what it was made for |
| `registration`, `confirmingCancel` | the registration shown and the question before a cancellation |
| `checkingTrait`, `loadingDefaults`, `loadingRegistration`, `submitting` | the flags that disable buttons |
| `calls` | not a variable of the code: the asynchronous handlers that wait, each with the step it waits in and the values it holds |

Abstractions.  A configuration is a record of network, API and registry contract, and
any change of it is one step.  What its API answers (`Fee`, `Trait`, `Bond`, `Stake`) is
constant for each configuration, so that a wrong answer can only come from mixing
two of them; any call may fail.  The escrow is typed as the claims it buys.  Of a
loaded registration only its owner and manager are kept.

Runs.

* `register_form`: `RegisteredManagerSupportsTrait`: the wallet is asked to register only
  a manager of which an API of the request's network reported that it supports the
  trait of the request's contract, although the check may answer after the
  manager, the staker or the network changed, and its flags are shared by all
  checks.  It says no more because `traitCheckScopeKey`, unlike the fee's scope,
  leaves the API URL out: after a change of the API alone (the developer panel
  offers it) a late answer of the old API counts for the new one, and a
  manager may be registered of which the API now configured says that it is not
  there.  No line of the repository promises otherwise, so this is a limit of the
  property and not a finding.
  `CachedFeeIsOfItsScope`: a fee that would be reused is the fee of the
  configuration it is filed under.
* `register_form_fee` finds a defect.  A load of the fee that is in flight is handed to
  whoever asks next, without comparing its scope.  After a change of network the form
  joins the old network's load, shows its fee, and computes with it the
  escrow and the post-condition of the next request.

Bounds.  Three configurations: one, another API of the same network and contract,
and another network with its own contract.  One staker, one manager reported by the
first of them only, a position on the first only; a start cycle comes from a position
and is not typed, which leaves the handlers the same values.  Two calls beside the
fee's load, which is enough for an answer to arrive in the middle of another
handler.  The calls are symmetric.  `TwoConfigurations` leaves out states in which the
form and what is in flight are of all three configurations at once: every guard compares
the form with one call.

Proofs.  `RegisterForm_proofs`, for any configurations, stakers, managers and number
of calls in flight: the types, `RegistrationIsChecked`, `CachedFeeIsRight`.  The
first property is inductive with two facts: a check shown as supported is the answer
of some configuration with the key it is stored under, and a call in flight asks
about the pair it was started for.

## 9. The process and the Bitcoin node

`Service` is the process from its start: it builds its settings (`Settings`), may run a
command instead, builds the context, loads or creates the node's wallet, and starts
the two loops.  Of the deposit monitor's rounds it has what they ask of the Bitcoin
node (`BitcoinNode`): which descriptors are missing, the import with its
rescan, and the list of outputs or the scan.

| Model | Code |
|---|---|
| `Build`, `Deserializes`, `Validate` | `Settings::new`, the serde attributes with `serialization.rs`, `Settings::validate` |
| `GetRescanTimestamp` | `get_rescan_timestamp` |
| `pc`, `error` | where `main` or the monitor's round is; why the process ended |
| `keeper` | whether the keeper's loop was started, skipped or has ended |
| `monitored` | the storage |
| `wallet`, `rescan`, `scan`, `cut` | of Bitcoin Core: the wallet on disk, the import being rescanned, the slot of `scantxoutset`, scripts whose rescan was given up |
| `asked`, `looked`, `tip` | not variables of the code: what a round imports, what its lookup answered, the time of its tip |

The process and the node may stop at any step and start again, in any order.  An
import or a scan that a client stops waiting for goes on in the node.  A wallet
found on disk was created by spox (the configuration says that spox manages
it), so the node loads it when it starts.  Time is counted in blocks.

Run `service`: sixteen pairs of a file and an environment: complete ones with a
wallet that rescans from the start, from an offset, and without one; files that
lack a stanza which the environment adds in full, in part or not at all; a value
that is not what its field takes; zero durations, an empty contract, an empty wallet
name, an endpoint without a port, a token that is no header.
`ValidatedSettingsSuffice`: whatever `validate` lets through is enough for every later
place that looks for a setting, and a wallet found in any state is no error.
`LookupsCoverTheTip`: a lookup has the outputs to the scripts it answers for that
were there when the round began, or it fails; an aborted scan, another caller's scan
or one that outlived its caller is not taken for an answer.
`NothingImportedTwice`: a descriptor the wallet holds is not imported, and rescanned, again.
`OutputsAreSeen`: every output to a monitored script is seen, whatever failed before.

What these properties exempt is what the code cannot do: a script is not found by a
wallet when the node gave up its rescan (the descriptor is held, so it is not
imported again), or when the output is older than the rescan timestamp; and a keeper
whose only question for the chain id failed stays ended for the session.

Bounds.  `MaxTime = 2` blocks and two scripts, one configured and one registered:
an output before, between and after both imports.  `MaxFaults = 2`: a failure and
another one in its recovery, or a restart of each side.

Fairness.  Weak fairness of the process's steps, since every call has a timeout and
tips go on, and of the node's own: a rescan and a scan end.  A restart of the process
is not assumed, nor are blocks.

Proofs.  `Service_proofs`, for any scripts, sources, times and faults: `SettingsSuffice`,
`ImportsAreNew` and `LookupsAreRight`.  The invariant has four parts.  `SettingsInv`: a process
that runs has validated its settings.  `BlocksInv`: the time of a round's tip and of
each output is not in the future.  `WalletInv`: with rescans from the start, a script the
wallet holds, whose outputs it has not all found, is being rescanned or its
rescan was given up; whichever of the two sides restarts between.  `RoundInv`: what a round imports is not yet
held, and a scan in progress is of monitored scripts and has each output there was at the
round's tip.  A lookup's answer follows from the last two; that an import is of new scripts
from `RoundInv`.

## 10. What is not proved

All safety properties and refinements that passing runs check are theorems, and so are
the type invariants of the claim registry, the signer-manager, the chain tips, the keeper,
the monitor and the form (all but the first are not checked in a run).  Only TLC checks the
liveness properties (`EveryTipStartsARound`, `FirstTipIsServed`, `CatchesUp`,
`DepositsReachEmily`, `ClaimCallsAdvance`, `OutputsAreSeen`): each
rests on fairness, so on which actions are enabled, which is out of the prover's reach.
What a refinement theorem implies is the safety part of the abstract specification.

The provers cannot instantiate the library's theorems of induction, which take an operator.
`Shared_proofs` proves the induction over naturals from the well-foundedness of `<` for a
*set* of naturals (`Naturals`), and that a function may be computed step by step
(`Iteration`); the lemmas on pages use both.

`Shared_proofs` holds no theorem about a component: maps and sums over them,
the answers of a Stacks node, and induction.

## 11. Not modelled

* The texts of errors and logs, and what the commands print.
* Encodings: hexadecimal, JSON, Clarity's consensus serialization, hashes and
  signatures are free values; that they are decoded to what was encoded is taken
  from the libraries.
* The Emily client: a request is taken, refused or not answered.
* The test signer-managers: `RewardClaimRegistry` allows every call they make.
* The bytes of a pox-addr, and what pox-5 does with the key of `register-self`.
* Of the web application: the activity panel (see the plan), the legacy deposit
  page, which computes an address from its inputs, and the layout.
