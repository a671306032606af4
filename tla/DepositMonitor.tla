--------------------------- MODULE DepositMonitor ---------------------------
(***************************************************************************)
(* The deposit monitor: src/deposit_monitor.rs with the in-memory storage, *)
(* the address registry contract and its client, against a Bitcoin Core    *)
(* node, with or without a watch-only wallet, and Emily.                   *)
(*                                                                         *)
(* A round syncs the registry into the storage, imports the scripts into   *)
(* the wallet, reads the unspent outputs, turns each into a request and    *)
(* sends the requests.  The chain and the registry move between any two of *)
(* these calls.  A block is the set of deposit outputs confirmed in it;    *)
(* its hash is the chain up to it.                                         *)
(***************************************************************************)
EXTENDS Integers, FiniteSets, Sequences, ClarityMap

CONSTANTS
  Scripts,        \* scripts a deposit may be sent to
  Unparsable,     \* those that are not a deposit and a reclaim script
  Configured,     \* those of the configuration file
  Outs, ScriptOf, \* outputs, and the script each pays to
  LockTime,       \* the lock time of each script
  MaxIds,         \* GET_ADDRESSES_MAX_IDS
  CacheSize,      \* CREATED_DEPOSITS_CACHE_SIZE
  StartRegistry,  \* the addresses registered before the service starts
  StartChain,     \* the blocks mined before the service starts
  MaxEvents,      \* bound of the model: transactions, blocks and reorgs
  MaxFaults       \* bound of the model: failed calls, late tips, restarts

ASSUME ScriptAssumption ==
  /\ Unparsable \subseteq Scripts
  /\ Configured \subseteq Scripts \ Unparsable
  /\ ScriptOf \in [Outs -> Scripts]
  /\ LockTime \in [Scripts -> Nat]

ASSUME SizeAssumption == MaxIds \in Nat \ {0} /\ CacheSize \in Nat \ {0}

ASSUME StartAssumption ==
  /\ StartRegistry \in Seq(Scripts)
  /\ StartChain \in Seq(SUBSET Outs)

VARIABLES
  depositAddress, nextAddressId,     \* the registry contract
  chain,                             \* the active chain, from height 1
  emily,                             \* the outputs Emily has a deposit for
  nodeWallet,                        \* is a watch-only wallet configured?
  imported,                          \* its descriptors, which outlive the service
  monitored, lastNextAddressId,      \* the storage
  createdDeposits, txHexCache,       \* the monitor's caches
  pc, tip,                           \* the round and the tip it is for
  start, registryNextId,             \* the sync of the round
  utxos, deposits,                   \* what is left to look up, and to send
  events, faults

contract == <<depositAddress, nextAddressId>>
store == <<monitored, lastNextAddressId>>
caches == <<createdDeposits, txHexCache>>
sync == <<start, registryNextId>>
round == <<pc, tip, sync, utxos, deposits>>
service == <<store, caches, round>>
vars == <<contract, chain, emily, nodeWallet, imported, service, events, faults>>

Init ==
  /\ nextAddressId = Len(StartRegistry)
  /\ depositAddress = [id \in 0..(Len(StartRegistry) - 1) |-> StartRegistry[id + 1]]
  /\ chain = StartChain
  /\ emily = {}
  /\ nodeWallet \in BOOLEAN
  /\ imported = {}
  /\ monitored = Configured
  /\ lastNextAddressId = 0
  /\ createdDeposits = {} /\ txHexCache = {}
  /\ pc = "idle" /\ tip = 0
  /\ start = 0 /\ registryNextId = 0
  /\ utxos = {} /\ deposits = {}
  /\ events = 0 /\ faults = 0

-----------------------------------------------------------------------------
(* The chains.                                                             *)

Event ==
  /\ events < MaxEvents
  /\ events' = events + 1
  /\ UNCHANGED <<emily, nodeWallet, imported, service, faults>>

RegisterAddress(script) ==
  /\ Event
  /\ depositAddress' = MapSet(depositAddress, nextAddressId, script)
  /\ nextAddressId' = nextAddressId + 1
  /\ UNCHANGED chain

\* Only the contract's owner may; an id without an address is left alone.
RemoveAddresses(ids) ==
  /\ Event
  /\ depositAddress' = [id \in DOMAIN depositAddress \ ids |-> depositAddress[id]]
  /\ UNCHANGED <<nextAddressId, chain>>

Confirmed(blocks) == UNION {blocks[h] : h \in DOMAIN blocks}

NewBlock(outs) ==
  /\ Event
  /\ outs \cap Confirmed(chain) = {}
  /\ chain' = Append(chain, outs)
  /\ UNCHANGED contract

\* The last block gives way to two others.
Reorg(outs, more) ==
  /\ Event
  /\ chain # << >>
  /\ LET kept == SubSeq(chain, 1, Len(chain) - 1) IN
     /\ outs \cap Confirmed(kept) = {}
     /\ more \cap (outs \cup Confirmed(kept)) = {}
     /\ chain' = kept \o <<outs, more>>
  /\ UNCHANGED contract

-----------------------------------------------------------------------------
(* Rounds.                                                                 *)

Fault == faults < MaxFaults /\ faults' = faults + 1

\* recv: a round begins for the tip of that height.
TakesTip(height) ==
  /\ pc = "idle"
  /\ tip' = height
  /\ pc' = "sync"
  /\ UNCHANGED <<contract, chain, emily, nodeWallet, imported, store, caches,
                 sync, utxos, deposits, events>>

TakeTip == TakesTip(Len(chain)) /\ UNCHANGED faults

\* A tip that has waited in the mailbox since the block before.
TakeLateTip == Len(chain) > 0 /\ TakesTip(Len(chain) - 1) /\ Fault

-----------------------------------------------------------------------------
(* update_from_registry.                                                   *)

OnlySyncs ==
  UNCHANGED <<contract, chain, emily, nodeWallet, imported, caches, tip, utxos,
              deposits, events>>

GetNextAddressId ==
  /\ pc = "sync"
  /\ IF lastNextAddressId >= nextAddressId
     THEN pc' = "wallet" /\ UNCHANGED sync
     ELSE pc' = "chunk" /\ start' = lastNextAddressId /\ registryNextId' = nextAddressId
  /\ OnlySyncs
  /\ UNCHANGED <<store, faults>>

Parsed(ids) ==
  {depositAddress[id] : id \in ids \cap DOMAIN depositAddress} \ Unparsable

EndOfChunk ==
  IF start + MaxIds < registryNextId THEN start + MaxIds ELSE registryNextId

\* Faulty: the whole range counts as synced with its first chunk.
SyncedToEnd == registryNextId

\* set_last_next_address_id, after the last id of the chunk.
SyncedTo == EndOfChunk

\* An id without an address, or whose scripts do not parse, is skipped.
GetAddresses ==
  /\ pc = "chunk"
  /\ monitored' = monitored \cup Parsed(start..(EndOfChunk - 1))
  /\ lastNextAddressId' = SyncedTo
  /\ start' = EndOfChunk
  /\ pc' = IF EndOfChunk < registryNextId THEN "chunk" ELSE "wallet"
  /\ OnlySyncs
  /\ UNCHANGED <<registryNextId, faults>>

\* A failed read, or an answer for other ids, ends the sync; what it stored stays.
SyncFails ==
  /\ pc \in {"sync", "chunk"}
  /\ Fault
  /\ pc' = "wallet"
  /\ OnlySyncs
  /\ UNCHANGED <<store, sync>>

-----------------------------------------------------------------------------
(* update_wallet.                                                          *)

LeaveWallet ==
  /\ pc = "wallet"
  /\ pc' = "utxos"
  /\ UNCHANGED <<contract, chain, emily, nodeWallet, store, caches, tip, sync,
                 utxos, deposits, events>>

UpdateWallet ==
  /\ LeaveWallet
  /\ imported' = IF nodeWallet THEN imported \cup monitored ELSE imported
  /\ UNCHANGED faults

\* Some descriptors, or all, are left for the next round.
ImportFails ==
  /\ LeaveWallet
  /\ nodeWallet
  /\ Fault
  /\ \E some \in SUBSET monitored : imported' = imported \cup some

-----------------------------------------------------------------------------
(* get_pending_deposits.                                                   *)

HeightOf(out) == CHOOSE h \in DOMAIN chain : out \in chain[h]

\* confirmations of an output, 1 in the chain's last block.
Confirmations(out) == Len(chain) - HeightOf(out) + 1

\* The height the wallet's answer stands for at the tip of the round.
WalletHeight(out) ==
  IF tip >= Confirmations(out) - 1 THEN tip - (Confirmations(out) - 1) ELSE 0

\* scantxoutset answers with heights, listunspent with confirmations.
Unspent ==
  IF nodeWallet
  THEN {[out |-> o, height |-> WalletHeight(o)] :
          o \in {o \in Confirmed(chain) : ScriptOf[o] \in imported \cap monitored}}
  ELSE {[out |-> o, height |-> HeightOf(o)] :
          o \in {o \in Confirmed(chain) : ScriptOf[o] \in monitored}}

OnlyReadsBitcoin ==
  UNCHANGED <<contract, chain, emily, nodeWallet, imported, store,
              createdDeposits, tip, sync, events>>

GetUtxos ==
  /\ pc = "utxos"
  /\ utxos' = Unspent
  /\ pc' = IF Unspent = {} THEN "idle" ELSE "build"
  /\ OnlyReadsBitcoin
  /\ UNCHANGED <<txHexCache, deposits, faults>>

\* The scan is refused, runs out of time or fails: the round is over.
GetUtxosFails ==
  /\ pc = "utxos"
  /\ Fault
  /\ pc' = "idle"
  /\ OnlyReadsBitcoin
  /\ UNCHANGED <<txHexCache, utxos, deposits>>

\* The hash of a block, get_block_hash: the chain up to it.  A block keeps its
\* transactions when a reorg drops it, so reading the hash and then the
\* transaction is one step.
BlockHash(height) == SubSeq(chain, 1, height)

\* Faulty: the cache does not tell blocks apart.
CachedAnywhere(out, hash) == \E entry \in txHexCache : entry[1] = out

Cached(out, hash) == <<out, hash>> \in txHexCache

\* get_raw_transaction_hex answers for a transaction of that block only.
InBlock(out, hash) == hash # << >> /\ out \in hash[Len(hash)]

Expired(utxo) == utxo.height + LockTime[ScriptOf[utxo.out]] <= tip

\* Done with an output, with the requests so far.
Looked(utxo, requests) ==
  /\ utxos' = utxos \ {utxo}
  /\ deposits' = requests
  /\ pc' = CASE utxos # {utxo} -> "build"
             [] utxos = {utxo} /\ requests # {} -> "create"
             [] OTHER -> "idle"
  /\ OnlyReadsBitcoin

\* The output is one created before, expired, or not where it should be.
SkipUtxo(utxo) ==
  /\ pc = "build"
  /\ \/ utxo.out \in createdDeposits
     \/ Expired(utxo)
     \/ utxo.height > Len(chain)
     \/ LET hash == BlockHash(utxo.height) IN
        ~ Cached(utxo.out, hash) /\ ~ InBlock(utxo.out, hash)
  /\ Looked(utxo, deposits)
  /\ UNCHANGED <<txHexCache, faults>>

GetDepositFromUtxo(utxo) ==
  /\ pc = "build"
  /\ utxo.out \notin createdDeposits
  /\ ~ Expired(utxo)
  /\ utxo.height <= Len(chain)
  /\ LET hash == BlockHash(utxo.height) IN
     /\ Cached(utxo.out, hash) \/ InBlock(utxo.out, hash)
     /\ txHexCache' = txHexCache \cup {<<utxo.out, hash>>}
  /\ Looked(utxo, deposits \cup {utxo})
  /\ UNCHANGED faults

LookupFails(utxo) ==
  /\ pc = "build"
  /\ Fault
  /\ Looked(utxo, deposits)
  /\ UNCHANGED txHexCache

-----------------------------------------------------------------------------
(* The requests to Emily.                                                  *)

Sent(deposit) ==
  /\ pc = "create"
  /\ deposits' = deposits \ {deposit}
  /\ pc' = IF deposits = {deposit} THEN "idle" ELSE "create"
  /\ UNCHANGED <<contract, chain, nodeWallet, imported, store, txHexCache, tip,
                 sync, utxos, events>>

\* deposit_created: a full cache drops an entry.
DepositCreated(out) ==
  LET all == createdDeposits \cup {out} IN
  IF Cardinality(all) <= CacheSize
  THEN createdDeposits' = all
  ELSE \E old \in createdDeposits : createdDeposits' = all \ {old}

\* Emily does nothing for a deposit it has.
CreateDeposit(deposit) ==
  /\ Sent(deposit)
  /\ emily' = emily \cup {deposit.out}
  /\ DepositCreated(deposit.out)
  /\ UNCHANGED faults

\* Faulty: a request that failed counts as created.
FailureCounts(deposit) ==
  /\ Sent(deposit)
  /\ Fault
  /\ emily' \in {emily, emily \cup {deposit.out}}
  /\ DepositCreated(deposit.out)

\* The request is refused, or its answer lost.
CreateFails(deposit) ==
  /\ Sent(deposit)
  /\ Fault
  /\ emily' \in {emily, emily \cup {deposit.out}}
  /\ UNCHANGED createdDeposits

\* The storage and the caches are in memory; the wallet is the node's.
Restart ==
  /\ Fault
  /\ monitored' = Configured
  /\ lastNextAddressId' = 0
  /\ createdDeposits' = {} /\ txHexCache' = {}
  /\ pc' = "idle" /\ tip' = 0
  /\ start' = 0 /\ registryNextId' = 0
  /\ utxos' = {} /\ deposits' = {}
  /\ UNCHANGED <<contract, chain, emily, nodeWallet, imported, events>>

Work ==
  \/ TakeTip
  \/ GetNextAddressId \/ GetAddresses
  \/ UpdateWallet
  \/ GetUtxos
  \/ \E utxo \in utxos : SkipUtxo(utxo) \/ GetDepositFromUtxo(utxo)
  \/ \E deposit \in deposits : CreateDeposit(deposit)

Next ==
  \/ \E script \in Scripts : RegisterAddress(script)
  \/ \E ids \in (SUBSET DOMAIN depositAddress) \ {{}} : RemoveAddresses(ids)
  \/ \E outs \in SUBSET Outs : NewBlock(outs)
  \/ \E outs, more \in SUBSET Outs : Reorg(outs, more)
  \/ Work
  \/ TakeLateTip
  \/ SyncFails
  \/ ImportFails
  \/ GetUtxosFails
  \/ \E utxo \in utxos : LookupFails(utxo)
  \/ \E deposit \in deposits : CreateFails(deposit)
  \/ Restart

\* Blocks keep coming, which the model shows as tips of the height it has
\* reached, and but for MaxFaults of them the calls are answered.  Of Emily's
\* that is an assumption: its client is built without a timeout.
Spec == Init /\ [][Next]_vars /\ WF_vars(Work)

-----------------------------------------------------------------------------
(* Properties.                                                             *)

UtxoType == [out : Outs, height : Nat]

TypeOK ==
  /\ IsMap(depositAddress, 0..(nextAddressId - 1), Scripts)
  /\ nextAddressId \in Nat
  /\ chain \in Seq(SUBSET Outs)
  /\ emily \subseteq Outs
  /\ nodeWallet \in BOOLEAN
  /\ imported \subseteq Scripts
  /\ monitored \subseteq Scripts \ Unparsable
  /\ lastNextAddressId \in 0..nextAddressId
  /\ createdDeposits \subseteq Outs /\ Cardinality(createdDeposits) <= CacheSize
  /\ \A entry \in txHexCache : entry[1] \in Outs /\ entry[2] \in Seq(SUBSET Outs)
  /\ pc \in {"idle", "sync", "chunk", "wallet", "utxos", "build", "create"}
  /\ tip \in Nat
  /\ start \in Nat /\ registryNextId \in 0..nextAddressId
  /\ utxos \subseteq UtxoType /\ deposits \subseteq UtxoType

\* The ids below the last next id are never read again, so each of them that
\* has valid scripts is monitored, in the middle of a sync, after one that
\* failed half way and after a restart too.
SyncedAreMonitored ==
  \A id \in 0..(lastNextAddressId - 1) :
    id \in DOMAIN depositAddress /\ depositAddress[id] \notin Unparsable
      => depositAddress[id] \in monitored

\* A request names a monitored script and an output that is confirmed at the
\* very height its expiry was computed from, although that height may come
\* from confirmations counted at another tip and the block from a cache.
RequestsAreExact ==
  [][\A deposit \in deposits' \ deposits :
       /\ ScriptOf[deposit.out] \in monitored
       /\ deposit.height \in DOMAIN chain
       /\ deposit.out \in chain[deposit.height]
       /\ deposit.height + LockTime[ScriptOf[deposit.out]] > tip]_vars

\* A deposit the service is to report: confirmed, to a script of the
\* configuration or the registry, and not expired.
Reportable(out) ==
  /\ out \in Confirmed(chain)
  /\ \/ ScriptOf[out] \in Configured
     \/ \E id \in DOMAIN depositAddress : depositAddress[id] = ScriptOf[out]
  /\ ScriptOf[out] \notin Unparsable
  /\ HeightOf(out) + LockTime[ScriptOf[out]] > Len(chain)

\* Emily learns of every deposit that stays reportable, whatever calls failed,
\* wherever a reorg moved it, with either way to read the outputs.
DepositsReachEmily == <>[](\A out \in Outs : Reportable(out) => out \in emily)
=============================================================================
