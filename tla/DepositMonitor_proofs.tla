------------------------ MODULE DepositMonitor_proofs ------------------------
(***************************************************************************)
(* The types hold, the storage follows the registry and requests are       *)
(* exact, for every registry, chain and chunk size and any number of       *)
(* events and faults; and every step of MonitorCalls is one of             *)
(* DepositMonitor.                                                         *)
(***************************************************************************)
EXTENDS MonitorCalls, Shared_proofs, SequenceTheorems, TLAPS

\* The sync reads on where the stored ids end, and never past the registry.
SyncInv ==
  /\ nextAddressId \in Nat
  /\ lastNextAddressId \in Nat
  /\ lastNextAddressId <= nextAddressId
  /\ registryNextId \in Nat
  /\ registryNextId <= nextAddressId
  /\ pc = "chunk" => start = lastNextAddressId /\ start < registryNextId
  /\ SyncedAreMonitored

\* What is left to look up pays to monitored scripts, and a cached transaction
\* belongs to the block it is cached for.
LookupInv ==
  /\ chain \in Seq(SUBSET Outs)
  /\ tip \in Nat
  /\ \A utxo \in utxos : utxo.height \in Nat /\ ScriptOf[utxo.out] \in monitored
  /\ \A entry \in txHexCache : InBlock(entry[1], entry[2])

-----------------------------------------------------------------------------
\* A chunk is not empty and stays below the next id.
LEMMA ChunkIsNext ==
  ASSUME start \in Nat, registryNextId \in Nat, start < registryNextId
  PROVE  EndOfChunk \in Nat /\ start < EndOfChunk /\ EndOfChunk <= registryNextId
BY SizeAssumption DEF EndOfChunk

\* Nothing has been read at the start.
LEMMA SyncInitial == Init => SyncInv
<1> SUFFICES ASSUME Init PROVE SyncInv
  OBVIOUS
<1>1. nextAddressId \in Nat /\ lastNextAddressId = 0 /\ registryNextId = 0 /\ pc = "idle"
  BY StartAssumption DEF Init
<1> QED
  BY <1>1 DEF SyncInv, SyncedAreMonitored

\* Every step keeps the place of the sync.
LEMMA SyncInductive ==
  ASSUME SyncInv, [Next]_vars
  PROVE  SyncInv'
<1>1. ASSUME UNCHANGED <<contract, store, registryNextId, start>>,
             pc' # "chunk" \/ pc' = pc
      PROVE  SyncInv'
  BY <1>1 DEF SyncInv, SyncedAreMonitored, contract, store
<1>2. ASSUME NEW script \in Scripts, RegisterAddress(script)
      PROVE  SyncInv'
  <2>1. /\ nextAddressId' = nextAddressId + 1
        /\ depositAddress' = MapSet(depositAddress, nextAddressId, script)
        /\ UNCHANGED <<monitored, lastNextAddressId, registryNextId, start, pc>>
    BY <1>2 DEF RegisterAddress, Event, service, store, round, sync
  <2>2. \A id \in 0..(lastNextAddressId - 1) :
          id \in DOMAIN depositAddress' =>
            id \in DOMAIN depositAddress /\ depositAddress'[id] = depositAddress[id]
    BY <2>1 DEF MapSet, SyncInv
  <2>3. SyncedAreMonitored'
    BY <2>1, <2>2 DEF SyncedAreMonitored, SyncInv
  <2> QED
    BY <2>1, <2>3 DEF SyncInv
<1>3. ASSUME NEW ids, RemoveAddresses(ids)
      PROVE  SyncInv'
  <2>1. /\ depositAddress' = [id \in DOMAIN depositAddress \ ids |-> depositAddress[id]]
        /\ UNCHANGED <<nextAddressId, monitored, lastNextAddressId, registryNextId, start, pc>>
    BY <1>3 DEF RemoveAddresses, Event, service, store, round, sync
  <2>2. SyncedAreMonitored'
    BY <2>1 DEF SyncedAreMonitored, SyncInv
  <2> QED
    BY <2>1, <2>2 DEF SyncInv
<1>4. ASSUME NEW outs, NEW more, NewBlock(outs) \/ Reorg(outs, more)
      PROVE  SyncInv'
  BY <1>1, <1>4 DEF NewBlock, Reorg, Event, service, round, sync
<1>5. CASE TakeTip \/ TakeLateTip
  BY <1>1, <1>5 DEF TakeTip, TakeLateTip, TakesTip, sync
<1>6. CASE GetNextAddressId
  BY <1>6 DEF GetNextAddressId, OnlySyncs, SyncInv, SyncedAreMonitored, contract, store, sync
<1>7. CASE GetAddresses
  <2>1. /\ start = lastNextAddressId
        /\ EndOfChunk \in Nat /\ start < EndOfChunk /\ EndOfChunk <= registryNextId
    BY <1>7, ChunkIsNext DEF GetAddresses, SyncInv
  <2>2. /\ monitored' = monitored \cup Parsed(start..(EndOfChunk - 1))
        /\ lastNextAddressId' = EndOfChunk
        /\ start' = EndOfChunk
        /\ pc' = IF EndOfChunk < registryNextId THEN "chunk" ELSE "wallet"
        /\ UNCHANGED <<depositAddress, nextAddressId, registryNextId>>
    BY <1>7 DEF GetAddresses, OnlySyncs, SyncedTo, contract
  <2>3. ASSUME NEW id \in 0..(EndOfChunk - 1),
               id \in DOMAIN depositAddress, depositAddress[id] \notin Unparsable
        PROVE  depositAddress[id] \in monitored'
    <3>1. CASE id < start
      BY <2>1, <2>2, <2>3, <3>1 DEF SyncInv, SyncedAreMonitored
    <3>2. CASE id >= start
      <4>1. id \in start..(EndOfChunk - 1)
        BY <2>1, <3>2 DEF SyncInv
      <4> QED
        BY <2>2, <2>3, <4>1 DEF Parsed
    <3> QED
      BY <2>1, <3>1, <3>2 DEF SyncInv
  <2>4. SyncedAreMonitored'
    BY <2>2, <2>3 DEF SyncedAreMonitored
  <2> QED
    BY <2>1, <2>2, <2>4 DEF SyncInv
<1>8. CASE SyncFails
  BY <1>1, <1>8 DEF SyncFails, OnlySyncs, sync
<1>9. CASE UpdateWallet \/ ImportFails
  BY <1>1, <1>9 DEF UpdateWallet, ImportFails, LeaveWallet, sync
<1>10. CASE GetUtxos \/ GetUtxosFails
  BY <1>1, <1>10 DEF GetUtxos, GetUtxosFails, OnlyReadsBitcoin, sync
<1>11. ASSUME NEW utxo, SkipUtxo(utxo) \/ GetDepositFromUtxo(utxo) \/ LookupFails(utxo)
       PROVE  SyncInv'
  BY <1>1, <1>11 DEF SkipUtxo, GetDepositFromUtxo, LookupFails, Looked, OnlyReadsBitcoin, sync
<1>12. ASSUME NEW deposit, CreateDeposit(deposit) \/ CreateFails(deposit)
       PROVE  SyncInv'
  BY <1>1, <1>12 DEF CreateDeposit, CreateFails, Sent, sync
<1>13. CASE Restart
  BY <1>13 DEF Restart, SyncInv, SyncedAreMonitored, contract
<1>14. CASE UNCHANGED vars
  BY <1>1, <1>14 DEF vars, service, round, sync
<1> QED
  BY <1>2, <1>3, <1>4, <1>5, <1>6, <1>7, <1>8, <1>9, <1>10, <1>11, <1>12, <1>13, <1>14
  DEF Next, Work

\* The place of the sync is right at any time.
LEMMA AlwaysSyncInv == Spec => []SyncInv
BY SyncInitial, SyncInductive, PTL DEF Spec

\* The ids below the last next id are never read again, and each of them with
\* valid scripts is monitored, whatever failed and whenever the service
\* restarted.
THEOREM NothingSyncedIsMissing == Spec => []SyncedAreMonitored
<1>1. SyncInv => SyncedAreMonitored
  BY DEF SyncInv
<1> QED
  BY <1>1, AlwaysSyncInv, PTL

-----------------------------------------------------------------------------
\* The last block of the chain up to a height is the block at that height.
LEMMA BlockOfHash ==
  ASSUME chain \in Seq(SUBSET Outs), NEW h \in Nat, h <= Len(chain),
         NEW out, InBlock(out, BlockHash(h))
  PROVE  h \in DOMAIN chain /\ out \in chain[h]
<1>1. BlockHash(h) = SubSeq(chain, 1, h) /\ BlockHash(h) # << >>
  BY DEF BlockHash, InBlock
<1>2. h >= 1 /\ Len(BlockHash(h)) = h
  BY <1>1
<1>3. BlockHash(h)[h] = chain[h]
  BY <1>1, <1>2
<1> QED
  BY <1>2, <1>3 DEF InBlock

\* An unspent output is read at a height, and pays to a monitored script.
LEMMA UnspentIsMonitored ==
  ASSUME LookupInv
  PROVE  \A utxo \in Unspent : utxo.height \in Nat /\ ScriptOf[utxo.out] \in monitored
<1>1. ASSUME NEW o \in Confirmed(chain)
      PROVE  HeightOf(o) \in Nat /\ WalletHeight(o) \in Nat
  <2>1. \E h \in DOMAIN chain : o \in chain[h]
    BY DEF Confirmed
  <2>2. HeightOf(o) \in DOMAIN chain
    BY <2>1 DEF HeightOf
  <2>3. HeightOf(o) \in Nat /\ Len(chain) \in Nat
    BY <2>2 DEF LookupInv
  <2>4. Confirmations(o) \in Int
    BY <2>3 DEF Confirmations
  <2>5. WalletHeight(o) \in Nat
    BY <2>4 DEF WalletHeight, LookupInv
  <2> QED
    BY <2>3, <2>5
<1> QED
  BY <1>1 DEF Unspent

\* Nothing is left to look up at the start.
LEMMA LookupInitial == Init => LookupInv
BY StartAssumption DEF Init, LookupInv

\* Every step keeps what is left to look up.
LEMMA LookupInductive ==
  ASSUME LookupInv, [Next]_vars
  PROVE  LookupInv'
<1>1. ASSUME UNCHANGED <<chain, tip, monitored, txHexCache>>, utxos' \subseteq utxos
      PROVE  LookupInv'
  BY <1>1 DEF LookupInv, InBlock
<1>2. ASSUME NEW script, NEW ids, RegisterAddress(script) \/ RemoveAddresses(ids)
      PROVE  LookupInv'
  BY <1>1, <1>2 DEF RegisterAddress, RemoveAddresses, Event, service, store, caches, round
<1>3. ASSUME NEW outs \in SUBSET Outs, NEW more \in SUBSET Outs,
             NewBlock(outs) \/ Reorg(outs, more)
      PROVE  LookupInv'
  <2>1. chain' \in Seq(SUBSET Outs)
    <3>1. CASE NewBlock(outs)
      BY <3>1 DEF NewBlock, LookupInv
    <3>2. CASE Reorg(outs, more)
      <4>1. SubSeq(chain, 1, Len(chain) - 1) \in Seq(SUBSET Outs)
        BY <3>2 DEF Reorg, LookupInv
      <4>2. <<outs, more>> \in Seq(SUBSET Outs)
        OBVIOUS
      <4> QED
        BY <3>2, <4>1, <4>2 DEF Reorg
    <3> QED
      BY <1>3, <3>1, <3>2
  <2>2. UNCHANGED <<tip, monitored, txHexCache, utxos>>
    BY <1>3 DEF NewBlock, Reorg, Event, service, store, caches, round
  <2> QED
    BY <2>1, <2>2 DEF LookupInv, InBlock
<1>4. CASE TakeTip \/ TakeLateTip
  <2>1. tip' \in Nat /\ UNCHANGED <<chain, monitored, txHexCache, utxos>>
    BY <1>4 DEF TakeTip, TakeLateTip, TakesTip, store, caches, LookupInv
  <2> QED
    BY <2>1 DEF LookupInv, InBlock
<1>5. CASE GetNextAddressId \/ SyncFails
  BY <1>1, <1>5 DEF GetNextAddressId, SyncFails, OnlySyncs, store, caches
<1>6. CASE GetAddresses
  <2>1. monitored \subseteq monitored' /\ UNCHANGED <<chain, tip, txHexCache, utxos>>
    BY <1>6 DEF GetAddresses, OnlySyncs, caches
  <2> QED
    BY <2>1 DEF LookupInv, InBlock
<1>7. CASE UpdateWallet \/ ImportFails
  BY <1>1, <1>7 DEF UpdateWallet, ImportFails, LeaveWallet, store, caches
<1>8. CASE GetUtxos
  <2>1. utxos' = Unspent /\ UNCHANGED <<chain, tip, monitored, txHexCache>>
    BY <1>8 DEF GetUtxos, OnlyReadsBitcoin, store
  <2> QED
    BY <2>1, UnspentIsMonitored DEF LookupInv, InBlock
<1>9. CASE GetUtxosFails
  BY <1>1, <1>9 DEF GetUtxosFails, OnlyReadsBitcoin, store
<1>10. ASSUME NEW utxo, SkipUtxo(utxo) \/ LookupFails(utxo)
       PROVE  LookupInv'
  BY <1>1, <1>10 DEF SkipUtxo, LookupFails, Looked, OnlyReadsBitcoin, store
<1>11. ASSUME NEW utxo \in utxos, GetDepositFromUtxo(utxo)
       PROVE  LookupInv'
  <2>1. /\ utxos' \subseteq utxos
        /\ UNCHANGED <<chain, tip, monitored>>
        /\ txHexCache' = txHexCache \cup {<<utxo.out, BlockHash(utxo.height)>>}
    BY <1>11 DEF GetDepositFromUtxo, Looked, OnlyReadsBitcoin, store
  <2>2. InBlock(utxo.out, BlockHash(utxo.height))
    BY <1>11 DEF GetDepositFromUtxo, Cached, LookupInv
  <2>3. \A entry \in txHexCache' : InBlock(entry[1], entry[2])
    BY <2>1, <2>2 DEF LookupInv
  <2> QED
    BY <2>1, <2>3 DEF LookupInv, InBlock
<1>12. ASSUME NEW deposit, CreateDeposit(deposit) \/ CreateFails(deposit)
       PROVE  LookupInv'
  BY <1>1, <1>12 DEF CreateDeposit, CreateFails, Sent, store
<1>13. CASE Restart
  BY <1>13 DEF Restart, LookupInv
<1>14. CASE UNCHANGED vars
  BY <1>1, <1>14 DEF vars, service, store, caches, round
<1> QED
  BY <1>2, <1>3, <1>4, <1>5, <1>6, <1>7, <1>8, <1>9, <1>10, <1>11, <1>12, <1>13, <1>14
  DEF Next, Work

\* What is left to look up is right at any time.
LEMMA AlwaysLookupInv == Spec => []LookupInv
BY LookupInitial, LookupInductive, PTL DEF Spec

\* What one step adds to the requests.
LEMMA NewRequestIsExact ==
  ASSUME LookupInv, [Next]_vars, NEW deposit \in deposits' \ deposits
  PROVE  /\ ScriptOf[deposit.out] \in monitored
         /\ deposit.height \in DOMAIN chain
         /\ deposit.out \in chain[deposit.height]
         /\ deposit.height + LockTime[ScriptOf[deposit.out]] > tip
<1>1. ~ (deposits' \subseteq deposits)
  OBVIOUS
<1>2. PICK utxo \in utxos : GetDepositFromUtxo(utxo)
  <2>1. \A script, ids, outs, more :
          ~ (\/ RegisterAddress(script) \/ RemoveAddresses(ids)
             \/ NewBlock(outs) \/ Reorg(outs, more))
    BY <1>1 DEF RegisterAddress, RemoveAddresses, NewBlock, Reorg, Event, service, round
  <2>2. ~ (TakeTip \/ TakeLateTip \/ GetNextAddressId \/ GetAddresses \/ SyncFails)
    BY <1>1 DEF TakeTip, TakeLateTip, TakesTip, GetNextAddressId, GetAddresses, SyncFails,
                OnlySyncs
  <2>3. ~ (UpdateWallet \/ ImportFails \/ GetUtxos \/ GetUtxosFails \/ Restart)
    BY <1>1 DEF UpdateWallet, ImportFails, LeaveWallet, GetUtxos, GetUtxosFails, Restart
  <2>4. \A utxo : ~ (SkipUtxo(utxo) \/ LookupFails(utxo))
    BY <1>1 DEF SkipUtxo, LookupFails, Looked
  <2>5. \A d : ~ (CreateDeposit(d) \/ CreateFails(d))
    BY <1>1 DEF CreateDeposit, CreateFails, Sent
  <2>6. ~ UNCHANGED vars
    BY <1>1 DEF vars, service, round
  <2> QED
    BY <2>1, <2>2, <2>3, <2>4, <2>5, <2>6 DEF Next, Work
<1>3. deposit = utxo
  BY <1>2 DEF GetDepositFromUtxo, Looked
<1>4. /\ ScriptOf[utxo.out] \in monitored
      /\ utxo.height \in Nat /\ tip \in Nat /\ chain \in Seq(SUBSET Outs)
  BY DEF LookupInv
<1>5. utxo.height <= Len(chain) /\ ~ Expired(utxo)
  BY <1>2 DEF GetDepositFromUtxo
<1>6. InBlock(utxo.out, BlockHash(utxo.height))
  BY <1>2 DEF GetDepositFromUtxo, Cached, LookupInv
<1>7. utxo.height \in DOMAIN chain /\ utxo.out \in chain[utxo.height]
  BY <1>4, <1>5, <1>6, BlockOfHash
<1>8. utxo.height + LockTime[ScriptOf[utxo.out]] > tip
  <2>1. LockTime[ScriptOf[utxo.out]] \in Nat
    BY <1>4, <1>7, ScriptAssumption
  <2> QED
    BY <1>4, <1>5, <2>1 DEF Expired
<1> QED
  BY <1>3, <1>4, <1>7, <1>8

\* Every request names a monitored script and an output confirmed at the height
\* its expiry was computed from, whatever moved between the calls.
THEOREM EveryRequestIsExact == Spec => RequestsAreExact
<1>1. LookupInv /\ [Next]_vars =>
        [\A deposit \in deposits' \ deposits :
           /\ ScriptOf[deposit.out] \in monitored
           /\ deposit.height \in DOMAIN chain
           /\ deposit.out \in chain[deposit.height]
           /\ deposit.height + LockTime[ScriptOf[deposit.out]] > tip]_vars
  BY NewRequestIsExact
<1> QED
  BY <1>1, AlwaysLookupInv, PTL DEF Spec, RequestsAreExact

-----------------------------------------------------------------------------
(* The types.                                                              *)

\* The types of what outlives a round, of the caches and of a round.
StoreTypes ==
  /\ IsMap(depositAddress, 0..(nextAddressId - 1), Scripts)
  /\ emily \subseteq Outs
  /\ nodeWallet \in BOOLEAN
  /\ imported \subseteq Scripts
  /\ monitored \subseteq Scripts \ Unparsable

CacheTypes ==
  /\ createdDeposits \subseteq Outs
  /\ IsFiniteSet(createdDeposits)
  /\ Cardinality(createdDeposits) <= CacheSize
  /\ \A entry \in txHexCache : entry[1] \in Outs /\ entry[2] \in Seq(SUBSET Outs)

RoundTypes ==
  /\ pc \in {"idle", "sync", "chunk", "wallet", "utxos", "build", "create"}
  /\ start \in Nat
  /\ utxos \subseteq UtxoType
  /\ deposits \subseteq UtxoType

TypeInv == StoreTypes /\ CacheTypes /\ RoundTypes

\* The cache of created deposits does not outgrow its size.
LEMMA CreatedIsBounded ==
  ASSUME CacheTypes, NEW out \in Outs, DepositCreated(out)
  PROVE  /\ createdDeposits' \subseteq Outs
         /\ IsFiniteSet(createdDeposits')
         /\ Cardinality(createdDeposits') <= CacheSize
<1> DEFINE all == createdDeposits \cup {out}
<1>1. /\ IsFiniteSet(all)
      /\ Cardinality(all) \in Nat /\ Cardinality(createdDeposits) \in Nat
      /\ Cardinality(all) <= Cardinality(createdDeposits) + 1
  BY FS_AddElement, FS_CardinalityType DEF CacheTypes
<1>2. CASE Cardinality(all) <= CacheSize
  BY <1>1, <1>2 DEF DepositCreated, CacheTypes
<1>3. CASE ~ Cardinality(all) <= CacheSize
  <2>1. PICK old \in createdDeposits : createdDeposits' = all \ {old}
    BY <1>3 DEF DepositCreated
  <2>2. old \in all /\ all \subseteq Outs
    BY <2>1 DEF CacheTypes
  <2>3. IsFiniteSet(all \ {old}) /\ Cardinality(all \ {old}) = Cardinality(all) - 1
    BY <1>1, <2>2, FS_RemoveElement
  <2> HIDE DEF all
  <2>4. Cardinality(all \ {old}) <= CacheSize
    BY <1>1, <2>3, SizeAssumption DEF CacheTypes
  <2> QED
    BY <2>1, <2>2, <2>3, <2>4
<1> QED
  BY <1>2, <1>3

\* Outputs of the chain are read at a height.
LEMMA UnspentHasType == LookupInv => Unspent \subseteq UtxoType
<1> SUFFICES ASSUME LookupInv, NEW utxo \in Unspent PROVE utxo \in UtxoType
  OBVIOUS
<1>1. Confirmed(chain) \subseteq Outs
  BY DEF Confirmed, LookupInv
<1>2. \E o \in Outs : \E h : utxo = [out |-> o, height |-> h]
  BY <1>1 DEF Unspent
<1>3. utxo.height \in Nat
  BY UnspentIsMonitored
<1> QED
  BY <1>2, <1>3 DEF UtxoType

\* Every step keeps the types.
LEMMA TypesInductive ==
  ASSUME SyncInv, LookupInv, TypeInv, [Next]_vars
  PROVE  TypeInv'
<1>1. ASSUME UNCHANGED <<contract, emily, nodeWallet, imported, monitored, caches, utxos, deposits>>,
             pc' \in {"idle", "sync", "chunk", "wallet", "utxos", "build", "create"},
             start' \in Nat
      PROVE  TypeInv'
  BY <1>1 DEF TypeInv, StoreTypes, CacheTypes, RoundTypes, contract, caches
<1>2. ASSUME NEW script \in Scripts, RegisterAddress(script)
      PROVE  TypeInv'
  <2>1. /\ depositAddress' = MapSet(depositAddress, nextAddressId, script)
        /\ nextAddressId' = nextAddressId + 1
        /\ UNCHANGED <<emily, nodeWallet, imported, service>>
    BY <1>2 DEF RegisterAddress, Event
  <2>2. nextAddressId \in Nat
    BY DEF SyncInv
  <2>3. IsMap(depositAddress', 0..(nextAddressId' - 1), Scripts)
    BY <2>1, <2>2 DEF MapSet, IsMap, TypeInv, StoreTypes
  <2> QED
    BY <2>1, <2>3 DEF TypeInv, StoreTypes, CacheTypes, RoundTypes, service, store, caches, round, sync
<1>3. ASSUME NEW ids, RemoveAddresses(ids)
      PROVE  TypeInv'
  <2>1. /\ depositAddress' = [id \in DOMAIN depositAddress \ ids |-> depositAddress[id]]
        /\ UNCHANGED <<nextAddressId, emily, nodeWallet, imported, service>>
    BY <1>3 DEF RemoveAddresses, Event
  <2>2. IsMap(depositAddress', 0..(nextAddressId' - 1), Scripts)
    BY <2>1 DEF IsMap, TypeInv, StoreTypes
  <2> QED
    BY <2>1, <2>2 DEF TypeInv, StoreTypes, CacheTypes, RoundTypes, service, store, caches, round, sync
<1>4. ASSUME NEW outs, NEW more, NewBlock(outs) \/ Reorg(outs, more)
      PROVE  TypeInv'
  BY <1>1, <1>4 DEF NewBlock, Reorg, Event, service, store, round, sync, TypeInv, RoundTypes
<1>5. CASE TakeTip \/ TakeLateTip
  BY <1>1, <1>5 DEF TakeTip, TakeLateTip, TakesTip, store, sync, TypeInv, RoundTypes
<1>6. CASE GetNextAddressId
  <2>1. lastNextAddressId \in Nat
    BY DEF SyncInv
  <2> QED
    BY <1>1, <1>6, <2>1 DEF GetNextAddressId, OnlySyncs, store, sync, TypeInv, RoundTypes
<1>7. CASE SyncFails
  BY <1>1, <1>7 DEF SyncFails, OnlySyncs, store, sync, TypeInv, RoundTypes
<1>8. CASE GetAddresses
  <2>1. Parsed(start..(EndOfChunk - 1)) \subseteq Scripts \ Unparsable
    BY DEF Parsed, TypeInv, StoreTypes, IsMap
  <2>2. start' \in Nat
    <3>1. start \in Nat /\ registryNextId \in Nat
      BY DEF SyncInv, TypeInv, RoundTypes
    <3> QED
      BY <1>8, <3>1, SizeAssumption DEF GetAddresses, EndOfChunk
  <2>3. /\ monitored' = monitored \cup Parsed(start..(EndOfChunk - 1))
        /\ pc' \in {"chunk", "wallet"}
        /\ UNCHANGED <<contract, emily, nodeWallet, imported, caches, utxos, deposits>>
    BY <1>8 DEF GetAddresses, OnlySyncs
  <2> QED
    BY <2>1, <2>2, <2>3 DEF TypeInv, StoreTypes, CacheTypes, RoundTypes, contract, caches
<1>9. CASE UpdateWallet \/ ImportFails
  <2>1. /\ imported' \subseteq imported \cup monitored
        /\ pc' = "utxos"
        /\ UNCHANGED <<contract, emily, nodeWallet, monitored, caches, start, utxos, deposits>>
    BY <1>9 DEF UpdateWallet, ImportFails, LeaveWallet, store, sync
  <2> QED
    BY <2>1 DEF TypeInv, StoreTypes, CacheTypes, RoundTypes, contract, caches
<1>10. ASSUME OnlyReadsBitcoin,
              utxos' \subseteq UtxoType, deposits' \subseteq UtxoType,
              pc' \in {"idle", "build", "create"},
              \A entry \in txHexCache' : entry[1] \in Outs /\ entry[2] \in Seq(SUBSET Outs)
       PROVE  TypeInv'
  BY <1>10 DEF OnlyReadsBitcoin, TypeInv, StoreTypes, CacheTypes, RoundTypes, contract, store, sync
<1>11. CASE GetUtxos \/ GetUtxosFails
  <2>1. utxos' \subseteq UtxoType /\ OnlyReadsBitcoin /\ UNCHANGED <<txHexCache, deposits>>
    BY <1>11, UnspentHasType DEF GetUtxos, GetUtxosFails, TypeInv, RoundTypes
  <2>2. pc' \in {"idle", "build"}
    BY <1>11 DEF GetUtxos, GetUtxosFails
  <2> QED
    BY <1>10, <2>1, <2>2 DEF TypeInv, CacheTypes, RoundTypes
<1>12. ASSUME NEW utxo \in utxos, SkipUtxo(utxo) \/ GetDepositFromUtxo(utxo) \/ LookupFails(utxo)
       PROVE  TypeInv'
  <2>1. PICK requests \in {deposits, deposits \cup {utxo}} : Looked(utxo, requests)
    BY <1>12 DEF SkipUtxo, GetDepositFromUtxo, LookupFails
  <2>2. /\ OnlyReadsBitcoin
        /\ utxos' \subseteq UtxoType /\ deposits' \subseteq UtxoType
        /\ pc' \in {"idle", "build", "create"}
    BY <2>1 DEF Looked, TypeInv, RoundTypes
  <2>3. \/ txHexCache' = txHexCache
        \/ /\ txHexCache' = txHexCache \cup {<<utxo.out, BlockHash(utxo.height)>>}
           /\ utxo.height <= Len(chain)
    BY <1>12 DEF SkipUtxo, GetDepositFromUtxo, LookupFails
  <2>4. utxo.out \in Outs /\ utxo.height \in Nat
    <3>1. utxo \in UtxoType
      BY DEF TypeInv, RoundTypes
    <3> QED
      BY <3>1 DEF UtxoType
  <2>5. utxo.height <= Len(chain) => BlockHash(utxo.height) \in Seq(SUBSET Outs)
    BY <2>4 DEF BlockHash, LookupInv
  <2>6. \A entry \in txHexCache' : entry[1] \in Outs /\ entry[2] \in Seq(SUBSET Outs)
    BY <2>3, <2>4, <2>5 DEF TypeInv, CacheTypes
  <2> QED
    BY <1>10, <2>2, <2>6
<1>13. ASSUME NEW deposit \in deposits, CreateDeposit(deposit) \/ CreateFails(deposit)
       PROVE  TypeInv'
  <2>1. deposit.out \in Outs
    BY DEF TypeInv, RoundTypes, UtxoType
  <2>2. /\ emily' \subseteq emily \cup {deposit.out}
        /\ deposits' \subseteq deposits
        /\ pc' \in {"idle", "create"}
        /\ UNCHANGED <<contract, nodeWallet, imported, store, txHexCache, sync, utxos>>
    BY <1>13 DEF CreateDeposit, CreateFails, Sent
  <2>3. /\ createdDeposits' \subseteq Outs
        /\ IsFiniteSet(createdDeposits')
        /\ Cardinality(createdDeposits') <= CacheSize
    BY <1>13, <2>1, CreatedIsBounded DEF CreateDeposit, CreateFails, TypeInv, CacheTypes
  <2> QED
    BY <2>1, <2>2, <2>3 DEF TypeInv, StoreTypes, CacheTypes, RoundTypes, contract, store, sync
<1>14. CASE Restart
  BY <1>14, ScriptAssumption, SizeAssumption, FS_EmptySet
  DEF Restart, TypeInv, StoreTypes, CacheTypes, RoundTypes, contract
<1>15. CASE UNCHANGED vars
  BY <1>1, <1>15 DEF vars, service, store, round, sync, TypeInv, RoundTypes
<1> QED
  BY <1>2, <1>3, <1>4, <1>5, <1>6, <1>7, <1>8, <1>9, <1>11, <1>12, <1>13, <1>14, <1>15
  DEF Next, Work

\* The monitor's variables keep their types: an unparsable script is never
\* monitored, and the cache of created deposits never outgrows its size.
THEOREM MonitorTypeCorrect == Spec => []TypeOK
<1>1. Init => TypeInv
  <2> SUFFICES ASSUME Init PROVE TypeInv
    OBVIOUS
  <2>1. IsMap(depositAddress, 0..(nextAddressId - 1), Scripts)
    BY StartAssumption DEF Init, IsMap
  <2>2. StoreTypes
    BY <2>1, ScriptAssumption DEF Init, StoreTypes
  <2>3. CacheTypes
    BY SizeAssumption, FS_EmptySet DEF Init, CacheTypes
  <2> QED
    BY <2>2, <2>3 DEF Init, TypeInv, RoundTypes
<1>2. SyncInv /\ LookupInv /\ TypeInv /\ [Next]_vars => TypeInv'
  BY TypesInductive
<1>3. SyncInv /\ LookupInv /\ TypeInv => TypeOK
  BY DEF SyncInv, LookupInv, TypeInv, StoreTypes, CacheTypes, RoundTypes, TypeOK
<1> QED
  BY <1>1, <1>2, <1>3, AlwaysSyncInv, AlwaysLookupInv, PTL DEF Spec

-----------------------------------------------------------------------------
(* The calls.                                                              *)

\* The ids are within the width of the service's.
WidthInv ==
  /\ events \in Nat
  /\ events <= MaxEvents
  /\ nextAddressId <= Len(StartRegistry) + events

\* They are at the start.
LEMMA WidthInitial == Init => WidthInv
BY WidthAssumption, StartAssumption DEF Init, WidthInv

\* Every step that gives an id away is an event.
LEMMA WidthInductive ==
  ASSUME SyncInv, WidthInv, [Next]_vars
  PROVE  WidthInv'
<1>1. ASSUME UNCHANGED <<nextAddressId, events>>
      PROVE  WidthInv'
  BY <1>1 DEF WidthInv
<1>2. ASSUME Event, nextAddressId' \in {nextAddressId, nextAddressId + 1}
      PROVE  WidthInv'
  BY <1>2, WidthAssumption, StartAssumption DEF Event, WidthInv, SyncInv
<1>3. ASSUME NEW script \in Scripts, RegisterAddress(script)
      PROVE  WidthInv'
  BY <1>2, <1>3 DEF RegisterAddress
<1>4. ASSUME NEW ids, RemoveAddresses(ids)
      PROVE  WidthInv'
  BY <1>2, <1>4 DEF RemoveAddresses
<1>5. ASSUME NEW outs, NEW more, NewBlock(outs) \/ Reorg(outs, more)
      PROVE  WidthInv'
  BY <1>2, <1>5 DEF NewBlock, Reorg, contract
<1>6. CASE TakeTip \/ TakeLateTip
  BY <1>1, <1>6 DEF TakeTip, TakeLateTip, TakesTip, contract
<1>7. CASE GetNextAddressId \/ GetAddresses \/ SyncFails
  BY <1>1, <1>7 DEF GetNextAddressId, GetAddresses, SyncFails, OnlySyncs, contract
<1>8. CASE UpdateWallet \/ ImportFails
  BY <1>1, <1>8 DEF UpdateWallet, ImportFails, LeaveWallet, contract
<1>9. CASE GetUtxos \/ GetUtxosFails
  BY <1>1, <1>9 DEF GetUtxos, GetUtxosFails, OnlyReadsBitcoin, contract
<1>10. ASSUME NEW utxo, SkipUtxo(utxo) \/ GetDepositFromUtxo(utxo) \/ LookupFails(utxo)
       PROVE  WidthInv'
  BY <1>1, <1>10 DEF SkipUtxo, GetDepositFromUtxo, LookupFails, Looked, OnlyReadsBitcoin, contract
<1>11. ASSUME NEW deposit, CreateDeposit(deposit) \/ CreateFails(deposit)
       PROVE  WidthInv'
  BY <1>1, <1>11 DEF CreateDeposit, CreateFails, Sent, contract
<1>12. CASE Restart
  BY <1>1, <1>12 DEF Restart, contract
<1>13. CASE UNCHANGED vars
  BY <1>1, <1>13 DEF vars, contract
<1> QED
  BY <1>3, <1>4, <1>5, <1>6, <1>7, <1>8, <1>9, <1>10, <1>11, <1>12, <1>13 DEF Next, Work

\* The client reads the next id as the contract holds it, or it fails.
LEMMA NextIdIsRead ==
  ASSUME SyncInv, WidthInv
  PROVE  NextAddressIdOf(Answer(200, Object([result |-> ReadNextAddressId])))
           = Result(nextAddressId)
<1>1. CallRead(Answer(200, Object([result |-> ReadNextAddressId]))) = Result(UInt(nextAddressId))
  BY CallReadGives, ValuesAreHex DEF ReadNextAddressId
<1>2. nextAddressId <= MaxU64
  BY WidthAssumption, StartAssumption DEF SyncInv, WidthInv
<1> QED
  BY <1>1, <1>2, ResultSucceeds DEF NextAddressIdOf, UInt, TypeOf, DataOf

\* Every other answer is an error: no value, another type, or a number that the
\* service has no room for.
LEMMA NextIdFails ==
  /\ \A answer \in BadAnswers : NextAddressIdOf(answer) = Failed
  /\ NextAddressIdOf(Answer(200, Object([result |-> NoHex]))) = Failed
  /\ NextAddressIdOf(Answer(200, Object([result |-> UInt(MaxU64 + 1)]))) = Failed
  /\ NextAddressIdOf(Answer(200, Object([result |-> Response(ReadNextAddressId)]))) = Failed
<1>1. NextAddressIdOf(Answer(200, Object([result |-> UInt(MaxU64 + 1)]))) = Failed
  <2>1. CallRead(Answer(200, Object([result |-> UInt(MaxU64 + 1)]))) = Result(UInt(MaxU64 + 1))
    BY CallReadGives, ValuesAreHex
  <2> QED
    BY <2>1, ResultSucceeds, WidthAssumption DEF NextAddressIdOf, UInt, DataOf
<1>2. NextAddressIdOf(Answer(200, Object([result |-> Response(ReadNextAddressId)]))) = Failed
  <2>1. CallRead(Answer(200, Object([result |-> Response(ReadNextAddressId)])))
          = Result(Response(ReadNextAddressId))
    BY CallReadGives, ValuesAreHex
  <2> QED
    BY <2>1, ResultSucceeds DEF NextAddressIdOf, Response, TypeOf
<1> QED
  BY <1>1, <1>2, CallReadFails, FailedFails DEF NextAddressIdOf

\* So the call is the step that reads the next id, or one that fails.
LEMMA NextIdCallImplements ==
  ASSUME SyncInv, WidthInv
  PROVE  /\ CallGetNextAddressId => GetNextAddressId
         /\ GetNextAddressIdFails => SyncFails
<1>1. ASSUME CallGetNextAddressId
      PROVE  GetNextAddressId
  <2> DEFINE answer == Answer(200, Object([result |-> ReadNextAddressId]))
  <2>1. Succeeds(NextAddressIdOf(answer)) /\ Content(NextAddressIdOf(answer)) = nextAddressId
    BY NextIdIsRead, ResultSucceeds
  <2>2. pc = "sync" /\ TakeNextAddressId(answer) /\ OnlySyncs /\ UNCHANGED faults
    BY <1>1 DEF CallGetNextAddressId
  <2> HIDE DEF answer
  <2> QED
    BY <2>1, <2>2
    DEF TakeNextAddressId, StopsSync, GetNextAddressId, SyncInv, store, sync
<1>2. ASSUME GetNextAddressIdFails
      PROVE  SyncFails
  <2>1. PICK answer \in BadAnswers \cup
                        {Answer(200, Object([result |-> value])) :
                           value \in {NoHex, UInt(MaxU64 + 1), Response(ReadNextAddressId)}} :
          TakeNextAddressId(answer)
    BY <1>2 DEF GetNextAddressIdFails
  <2>2. NextAddressIdOf(answer) = Failed
    BY NextIdFails
  <2> QED
    BY <1>2, <2>1, <2>2, FailedFails
    DEF GetNextAddressIdFails, TakeNextAddressId, StopsSync, SyncFails
<1> QED
  BY <1>1, <1>2

-----------------------------------------------------------------------------
\* The ids of a chunk: at least one, and no more than the contract takes.
LEMMA ChunkIdsAre ==
  ASSUME SyncInv, pc = "chunk"
  PROVE  /\ ChunkIds \in Seq(Nat)
         /\ DOMAIN ChunkIds = 1..(EndOfChunk - start)
         /\ Len(ChunkIds) <= MaxIds /\ ~ Len(ChunkIds) > MaxIds
         /\ 1 \in DOMAIN ChunkIds /\ ChunkIds # << >>
         /\ \A k \in DOMAIN ChunkIds : ChunkIds[k] \in Nat /\ ChunkIds[k] = start + k - 1
         /\ {ChunkIds[k] : k \in DOMAIN ChunkIds} = start..(EndOfChunk - 1)
<1>1. start \in Nat /\ registryNextId \in Nat /\ start < registryNextId
  BY DEF SyncInv
<1>2. EndOfChunk \in Nat /\ start < EndOfChunk
  BY <1>1, ChunkIsNext
<1>3. EndOfChunk - start \in 1..MaxIds
  BY <1>1, <1>2, SizeAssumption DEF EndOfChunk
<1>4. ChunkIds \in [1..(EndOfChunk - start) -> Nat]
  BY <1>1, <1>2 DEF ChunkIds
<1>5. ChunkIds \in Seq(Nat) /\ Len(ChunkIds) = EndOfChunk - start
  BY <1>3, <1>4
<1>6. \A k \in DOMAIN ChunkIds : ChunkIds[k] \in Nat /\ ChunkIds[k] = start + k - 1
  BY <1>1 DEF ChunkIds
<1>7. ASSUME NEW id \in start..(EndOfChunk - 1)
      PROVE  \E k \in 1..(EndOfChunk - start) : id = start + k - 1
  <2>1. id - start + 1 \in 1..(EndOfChunk - start) /\ id = start + (id - start + 1) - 1
    BY <1>1, <1>2
  <2> QED
    BY <2>1
<1>8. \A k \in 1..(EndOfChunk - start) : start + k - 1 \in start..(EndOfChunk - 1)
  BY <1>1, <1>2
<1>9. {ChunkIds[k] : k \in DOMAIN ChunkIds} = start..(EndOfChunk - 1)
  BY <1>4, <1>6, <1>7, <1>8
<1>10. 1 \in DOMAIN ChunkIds /\ ChunkIds # << >>
  BY <1>3, <1>4
<1> QED
  BY <1>3, <1>4, <1>5, <1>6, <1>9, <1>10, SizeAssumption

\* What the contract says of an id is read as that.
LEMMA DepositIsRead ==
  ASSUME NEW id \in Nat
  PROVE  /\ Holds(ReadAddress(id), "id", "uint")
         /\ Field(ReadAddress(id), "id") = id
         /\ Holds(ReadAddress(id), "address", "optional")
         /\ id <= MaxU64 => DepositParses(ReadAddress(id))
         /\ MonitoredOf(ReadAddress(id)) = Parsed({id})
<1> DEFINE Scr == [depositScript |-> Buff(depositAddress[id]),
                   reclaimScript |-> Buff(depositAddress[id])]
<1> DEFINE address == IF id \in DOMAIN depositAddress THEN Some(Tuple(Scr)) ELSE NoValue
<1>1. ReadAddress(id) = Tuple([id |-> UInt(id), address |-> address])
  BY DEF ReadAddress
<1>2. /\ Holds(ReadAddress(id), "id", "uint")
      /\ Field(ReadAddress(id), "id") = id
  BY <1>1 DEF Holds, IsTuple, Field, TypeOf, DataOf, Tuple, UInt
<1>3. TypeOf(address) = "optional"
  BY DEF TypeOf, Some, NoValue
<1> HIDE DEF address
<1>4. Holds(ReadAddress(id), "address", "optional") /\ Field(ReadAddress(id), "address") = DataOf(address)
  BY <1>1, <1>3 DEF Holds, IsTuple, Field, TypeOf, DataOf, Tuple
<1>5. CASE id \in DOMAIN depositAddress
  <2>1. DataOf(address) = <<Tuple(Scr)>>
    BY <1>5 DEF DataOf, address, Some
  <2>2. ScriptsParse(Tuple(Scr))
    BY DEF ScriptsParse, Holds, IsTuple, TypeOf, DataOf, Tuple, Buff
  <2>3. DataOf(DataOf(Tuple(Scr))["depositScript"]) = depositAddress[id]
    BY DEF DataOf, Tuple, Buff
  <2> HIDE DEF Scr
  <2>4. id <= MaxU64 => DepositParses(ReadAddress(id))
    BY <1>2, <1>4, <2>1, <2>2 DEF DepositParses
  <2>5. MonitoredOf(ReadAddress(id)) = {depositAddress[id]} \ Unparsable
    BY <1>4, <2>1, <2>3 DEF MonitoredOf
  <2> QED
    BY <1>2, <1>4, <1>5, <2>4, <2>5 DEF Parsed
<1>6. CASE id \notin DOMAIN depositAddress
  <2>1. DataOf(address) = << >>
    BY <1>6 DEF DataOf, address, NoValue
  <2>2. id <= MaxU64 => DepositParses(ReadAddress(id))
    BY <1>2, <1>4, <2>1 DEF DepositParses
  <2>3. MonitoredOf(ReadAddress(id)) = {}
    BY <1>4, <2>1 DEF MonitoredOf
  <2> QED
    BY <1>2, <1>4, <1>6, <2>2, <2>3 DEF Parsed
<1> QED
  BY <1>5, <1>6

\* A list for the chunk is taken as it is, if its entries parse.
LEMMA ListIsTaken ==
  ASSUME SyncInv, pc = "chunk", NEW entries
  PROVE  GetAddressesOf(ChunkIds, Answer(200, Object([result |-> List(entries)]))) =
           IF \A k \in DOMAIN entries : DepositParses(entries[k]) THEN Result(entries) ELSE Failed
<1>1. CallRead(Answer(200, Object([result |-> List(entries)]))) = Result(List(entries))
  BY CallReadGives, ValuesAreHex
<1>2. ChunkIds # << >> /\ ~ Len(ChunkIds) > MaxIds
  BY ChunkIdsAre
<1>3. TypeOf(List(entries)) = "list" /\ DataOf(List(entries)) = entries
  BY DEF TypeOf, DataOf, List
<1> QED
  BY <1>1, <1>2, <1>3, ResultSucceeds DEF GetAddressesOf

\* A read that fails, or is about other ids, stops the sync.
LEMMA OtherAnswersStop ==
  ASSUME SyncInv, WidthInv, pc = "chunk",
         NEW answer \in BadAnswers
                        \cup {Answer(200, Object([cause |-> "CostBalanceExceeded"]))}
                        \cup {Answer(200, Object([result |-> value])) : value \in BadAddresses}
  PROVE  LET read == GetAddressesOf(ChunkIds, answer) IN
         ~ (Succeeds(read) /\ MatchesIds(ChunkIds, Content(read)))
<1> DEFINE good == [k \in DOMAIN ChunkIds |-> ReadAddress(ChunkIds[k])]
           entry == good[1]
           others == [k \in DOMAIN good |-> ReadAddress(ChunkIds[k] + 1)]
           changed(field, value) == [good EXCEPT ![1] = Tuple([DataOf(@) EXCEPT ![field] = value])]
<1>1. 1 \in DOMAIN ChunkIds /\ ChunkIds # << >> /\ ~ Len(ChunkIds) > MaxIds
  BY ChunkIdsAre
<1>2. DataOf(ReadAddresses(ChunkIds)) = good
  BY DEF DataOf, ReadAddresses, List
<1>3. /\ IsTuple(entry)
      /\ DOMAIN DataOf(entry) = {"id", "address"}
      /\ entry # NoHex
  BY <1>1 DEF ReadAddress, Tuple, IsTuple, TypeOf, DataOf, NoHex
<1>4. ASSUME CallRead(answer) = Failed
      PROVE  GetAddressesOf(ChunkIds, answer) = Failed
  BY <1>1, <1>4, FailedFails DEF GetAddressesOf
<1>5. ASSUME answer = Answer(200, Object([result |-> entry]))
      PROVE  GetAddressesOf(ChunkIds, answer) = Failed
  <2>1. CallRead(answer) = Result(entry)
    BY <1>3, <1>5, CallReadGives
  <2> HIDE DEF good
  <2> QED
    BY <1>1, <1>3, <2>1, ResultSucceeds DEF GetAddressesOf, IsTuple
<1>6. ASSUME answer = Answer(200, Object([result |-> List(others)]))
      PROVE  ~ MatchesIds(ChunkIds, Content(GetAddressesOf(ChunkIds, answer)))
             \/ GetAddressesOf(ChunkIds, answer) = Failed
  <2>1. \/ GetAddressesOf(ChunkIds, answer) = Result(others)
        \/ GetAddressesOf(ChunkIds, answer) = Failed
    BY <1>6, ListIsTaken
  <2>2. ChunkIds[1] \in Nat /\ 1 \in DOMAIN others
    BY <1>1, ChunkIdsAre
  <2>3. Field(others[1], "id") = ChunkIds[1] + 1
    <3>1. others[1] = ReadAddress(ChunkIds[1] + 1) /\ ChunkIds[1] + 1 \in Nat
      BY <2>2
    <3> QED
      BY <3>1, DepositIsRead
  <2> HIDE DEF others, good
  <2>4. ~ MatchesIds(ChunkIds, others)
    BY <2>2, <2>3 DEF MatchesIds
  <2> QED
    BY <2>1, <2>4, ResultSucceeds
<1>7. ASSUME NEW field \in {"id", "address"}, NEW value,
             answer = Answer(200, Object([result |-> List(changed(field, value))])),
             ~ DepositParses(Tuple([DataOf(entry) EXCEPT ![field] = value]))
      PROVE  GetAddressesOf(ChunkIds, answer) = Failed
  <2>1. /\ 1 \in DOMAIN changed(field, value)
        /\ changed(field, value)[1] = Tuple([DataOf(entry) EXCEPT ![field] = value])
    BY <1>1
  <2> HIDE DEF changed, good
  <2> QED
    BY <1>7, <2>1, ListIsTaken
<1>8. ASSUME NEW field \in {"id", "address"}, NEW value
      PROVE  /\ DOMAIN DataOf(Tuple([DataOf(entry) EXCEPT ![field] = value])) = {"id", "address"}
             /\ DataOf(Tuple([DataOf(entry) EXCEPT ![field] = value]))[field] = value
  <2> HIDE DEF good
  <2> QED
    BY <1>3 DEF Tuple, DataOf
<1>9. ~ DepositParses(Tuple([DataOf(entry) EXCEPT !["id"] = UInt(MaxU64 + 1)]))
  <2>1. DataOf(Tuple([DataOf(entry) EXCEPT !["id"] = UInt(MaxU64 + 1)]))["id"] = UInt(MaxU64 + 1)
    BY <1>8
  <2>2. Field(Tuple([DataOf(entry) EXCEPT !["id"] = UInt(MaxU64 + 1)]), "id") = MaxU64 + 1
    BY <2>1 DEF Field, UInt, DataOf
  <2> HIDE DEF good
  <2> QED
    BY <2>2, WidthAssumption DEF DepositParses
<1>10. ~ DepositParses(Tuple([DataOf(entry) EXCEPT !["address"] = entry]))
  <2>1. DataOf(Tuple([DataOf(entry) EXCEPT !["address"] = entry]))["address"] = entry
    BY <1>8
  <2> HIDE DEF good
  <2> QED
    BY <1>3, <2>1 DEF DepositParses, Holds, IsTuple
<1>11. ~ DepositParses(Tuple([DataOf(entry) EXCEPT !["address"] = Some(UInt(0))]))
  <2>1. DataOf(Tuple([DataOf(entry) EXCEPT !["address"] = Some(UInt(0))]))["address"] = Some(UInt(0))
    BY <1>8
  <2>2. Field(Tuple([DataOf(entry) EXCEPT !["address"] = Some(UInt(0))]), "address") = <<UInt(0)>>
    BY <2>1 DEF Field, DataOf, Some
  <2>3. ~ ScriptsParse(UInt(0))
    BY DEF ScriptsParse, Holds, IsTuple, TypeOf, UInt
  <2> HIDE DEF good
  <2> QED
    BY <2>2, <2>3 DEF DepositParses
<1>12. BadAddresses = {entry, List(others), List(changed("id", UInt(MaxU64 + 1))),
                       List(changed("address", entry)), List(changed("address", Some(UInt(0))))}
  BY <1>2 DEF BadAddresses
<1> HIDE DEF good, others, changed
<1>13. CASE CallRead(answer) = Failed
  BY <1>4, <1>13, FailedFails
<1>14. CASE \E value \in BadAddresses : answer = Answer(200, Object([result |-> value]))
  <2>1. \/ answer = Answer(200, Object([result |-> entry]))
        \/ answer = Answer(200, Object([result |-> List(others)]))
        \/ answer = Answer(200, Object([result |-> List(changed("id", UInt(MaxU64 + 1)))]))
        \/ answer = Answer(200, Object([result |-> List(changed("address", entry))]))
        \/ answer = Answer(200, Object([result |-> List(changed("address", Some(UInt(0))))]))
    BY <1>12, <1>14
  <2> QED
    BY <2>1, <1>5, <1>6, <1>7, <1>9, <1>10, <1>11, FailedFails
<1> QED
  BY <1>13, <1>14, CallReadFails

\* So the call is the step that reads the chunk, or one that fails.
LEMMA AddressesCallImplements ==
  ASSUME SyncInv, WidthInv
  PROVE  /\ CallGetAddresses => GetAddresses
         /\ GetAddressesFails => SyncFails
<1>1. ASSUME CallGetAddresses
      PROVE  GetAddresses
  <2> DEFINE read == [k \in DOMAIN ChunkIds |-> ReadAddress(ChunkIds[k])]
  <2>1. pc = "chunk" /\ TakeAddresses(AddressesAnswer(ChunkIds)) /\ OnlySyncs /\ UNCHANGED faults
    BY <1>1 DEF CallGetAddresses
  <2>2. /\ Len(ChunkIds) <= MaxIds
        /\ \A k \in DOMAIN ChunkIds : ChunkIds[k] \in Nat /\ ChunkIds[k] = start + k - 1
        /\ {ChunkIds[k] : k \in DOMAIN ChunkIds} = start..(EndOfChunk - 1)
        /\ DOMAIN ChunkIds = 1..(EndOfChunk - start)
    BY <2>1, ChunkIdsAre
  <2>3. AddressesAnswer(ChunkIds) = Answer(200, Object([result |-> List(read)]))
    BY <2>2 DEF AddressesAnswer, ReadAddresses
  <2>4. \A k \in DOMAIN ChunkIds : ChunkIds[k] <= MaxU64
    <3>1. EndOfChunk \in Nat /\ EndOfChunk <= registryNextId
      BY <2>1, ChunkIsNext DEF SyncInv
    <3>2. ASSUME NEW k \in DOMAIN ChunkIds PROVE ChunkIds[k] < EndOfChunk
      BY <2>1, <2>2, <3>1 DEF SyncInv
    <3> QED
      BY <2>2, <3>1, <3>2, WidthAssumption, StartAssumption DEF SyncInv, WidthInv
  <2>5. \A k \in DOMAIN read : DepositParses(read[k]) /\ Field(read[k], "id") = ChunkIds[k]
    BY <2>2, <2>4, DepositIsRead
  <2>6. GetAddressesOf(ChunkIds, AddressesAnswer(ChunkIds)) = Result(read)
    BY <2>1, <2>3, <2>5, ListIsTaken
  <2>7. MatchesIds(ChunkIds, read)
    <3>1. [k \in DOMAIN read |-> Field(read[k], "id")] = [k \in DOMAIN ChunkIds |-> ChunkIds[k]]
      BY <2>5
    <3> QED
      BY <3>1 DEF MatchesIds, ChunkIds
  <2>8. UNION {MonitoredOf(read[k]) : k \in DOMAIN ChunkIds} = Parsed(start..(EndOfChunk - 1))
    <3>1. \A k \in DOMAIN ChunkIds : MonitoredOf(read[k]) = Parsed({ChunkIds[k]})
      BY <2>2, DepositIsRead
    <3>2. UNION {MonitoredOf(read[k]) : k \in DOMAIN ChunkIds}
            = UNION {Parsed({ChunkIds[k]}) : k \in DOMAIN ChunkIds}
      BY <3>1
    <3>3. UNION {Parsed({ChunkIds[k]}) : k \in DOMAIN ChunkIds}
            = Parsed({ChunkIds[k] : k \in DOMAIN ChunkIds})
      BY DEF Parsed
    <3> QED
      BY <2>2, <3>2, <3>3
  <2> HIDE DEF read
  <2> QED
    BY <2>1, <2>6, <2>7, <2>8, ResultSucceeds DEF TakeAddresses, GetAddresses
<1>2. ASSUME GetAddressesFails
      PROVE  SyncFails
  <2>1. pc = "chunk" /\ Fault /\ OnlySyncs
    BY <1>2 DEF GetAddressesFails
  <2>2. PICK answer \in BadAnswers
                        \cup {Answer(200, Object([cause |-> "CostBalanceExceeded"]))}
                        \cup {Answer(200, Object([result |-> value])) : value \in BadAddresses} :
          TakeAddresses(answer)
    BY <1>2 DEF GetAddressesFails
  <2>3. StopsSync
    BY <2>1, <2>2, OtherAnswersStop DEF TakeAddresses
  <2> QED
    BY <2>1, <2>3 DEF StopsSync, SyncFails
<1> QED
  BY <1>1, <1>2

-----------------------------------------------------------------------------
\* Every step with the calls is a step of the monitor.
LEMMA CallsStepImplements ==
  ASSUME SyncInv, WidthInv, [CallsNext]_vars
  PROVE  [Next]_vars
BY NextIdCallImplements, AddressesCallImplements DEF CallsNext, Next, Work

\* The invariants of the monitor hold of the calls.
LEMMA CallsSafe == Init /\ [][CallsNext]_vars => [](SyncInv /\ WidthInv)
<1>1. Init => SyncInv /\ WidthInv
  BY SyncInitial, WidthInitial
<1>2. SyncInv /\ WidthInv /\ [CallsNext]_vars => (SyncInv /\ WidthInv)'
  BY CallsStepImplements, SyncInductive, WidthInductive
<1> QED
  BY <1>1, <1>2, PTL

\* What goes over the wire changes nothing: every step of MonitorCalls is one of
\* DepositMonitor.
THEOREM CallsImplementMonitor == CallsSpec => ImplementsMonitor
<1>1. SyncInv /\ WidthInv /\ [CallsNext]_vars => [Next]_vars
  BY CallsStepImplements
<1> QED
  BY <1>1, CallsSafe, PTL DEF CallsSpec, ImplementsMonitor

\* The monitor with its calls implements the monitor without; both are fair to
\* the same actions.
THEOREM CallsRefineMonitor == CallsSpec => Spec
<1>1. CallsSpec => [][Next]_vars
  BY CallsImplementMonitor DEF ImplementsMonitor
<1> QED
  BY <1>1, PTL DEF CallsSpec, Spec
=============================================================================
