---------------------------- MODULE MonitorCalls ----------------------------
(***************************************************************************)
(* The deposit monitor of DepositMonitor.tla with the calls of its sync    *)
(* spelled out: the answers of the address registry contract and what      *)
(* src/stacks/registry.rs makes of them.  A script of DepositMonitor is    *)
(* the pair of a deposit and a reclaim script.                             *)
(***************************************************************************)
EXTENDS DepositMonitor, StacksNode

CONSTANT MaxU64   \* the largest id the service can hold

ASSUME WidthAssumption ==
  MaxEvents \in Nat /\ MaxU64 \in Nat /\ MaxU64 >= Len(StartRegistry) + MaxEvents

-----------------------------------------------------------------------------
(* The contract.                                                           *)

ReadNextAddressId == UInt(nextAddressId)

\* get-address, an entry without an address for an id that has none.
ReadAddress(id) ==
  Tuple([id |-> UInt(id),
         address |-> IF id \in DOMAIN depositAddress
                     THEN Some(Tuple([depositScript |-> Buff(depositAddress[id]),
                                      reclaimScript |-> Buff(depositAddress[id])]))
                     ELSE NoValue])

\* get-addresses, which takes a list of that many uints.
ReadAddresses(ids) == List([k \in DOMAIN ids |-> ReadAddress(ids[k])])

AddressesAnswer(ids) ==
  Answer(200, Object(IF Len(ids) <= MaxIds
                     THEN [result |-> ReadAddresses(ids)]
                     ELSE [cause |-> "argument type"]))

-----------------------------------------------------------------------------
(* The client.                                                             *)

NextAddressIdOf(answer) ==
  LET value == CallRead(answer) IN
  IF Succeeds(value) /\ TypeOf(Content(value)) = "uint" /\ DataOf(Content(value)) <= MaxU64
  THEN Result(DataOf(Content(value)))
  ELSE Failed

\* RawRegisteredDepositScripts.
ScriptsParse(value) ==
  Holds(value, "depositScript", "buff") /\ Holds(value, "reclaimScript", "buff")

\* RawRegisteredDeposit.
DepositParses(value) ==
  /\ Holds(value, "id", "uint")
  /\ Holds(value, "address", "optional")
  /\ \A k \in DOMAIN Field(value, "address") : ScriptsParse(Field(value, "address")[k])
  /\ Field(value, "id") <= MaxU64

\* Faulty: the answer may be about other ids.
AnyIds(ids, read) == TRUE

\* The answer lists the ids that were asked for, in their order.
MatchesIds(ids, read) == ids = [k \in DOMAIN read |-> Field(read[k], "id")]

\* get_addresses asks for nothing when there are no ids, and refuses too many.
GetAddressesOf(ids, answer) ==
  LET value == CallRead(answer) IN
  CASE ids = << >> -> Result(<< >>)
    [] ids # << >> /\ Len(ids) > MaxIds -> Failed
    [] OTHER ->
         IF /\ Succeeds(value)
            /\ TypeOf(Content(value)) = "list"
            /\ \A k \in DOMAIN DataOf(Content(value)) : DepositParses(DataOf(Content(value))[k])
         THEN Result(DataOf(Content(value)))
         ELSE Failed

\* MonitoredDeposit: the address if there is one and its scripts parse.
MonitoredOf(deposit) ==
  {DataOf(DataOf(Field(deposit, "address")[k])["depositScript"]) :
     k \in DOMAIN Field(deposit, "address")} \ Unparsable

-----------------------------------------------------------------------------
(* update_from_registry.                                                   *)

StopsSync == pc' = "wallet" /\ UNCHANGED <<store, sync>>

TakeNextAddressId(answer) ==
  LET id == NextAddressIdOf(answer) IN
  IF Succeeds(id) /\ lastNextAddressId < Content(id)
  THEN /\ pc' = "chunk"
       /\ start' = lastNextAddressId
       /\ registryNextId' = Content(id)
       /\ UNCHANGED store
  ELSE StopsSync

CallGetNextAddressId ==
  /\ pc = "sync"
  /\ TakeNextAddressId(Answer(200, Object([result |-> ReadNextAddressId])))
  /\ OnlySyncs
  /\ UNCHANGED faults

GetNextAddressIdFails ==
  /\ pc = "sync"
  /\ Fault
  /\ \E answer \in BadAnswers \cup
                   {Answer(200, Object([result |-> value])) :
                      value \in {NoHex, UInt(MaxU64 + 1), Response(ReadNextAddressId)}} :
       TakeNextAddressId(answer)
  /\ OnlySyncs

\* The ids of the chunk.
ChunkIds == [k \in 1..(EndOfChunk - start) |-> start + k - 1]

\* Every address of the chunk is added, and the ids count as synced.
TakeAddresses(answer) ==
  LET read == GetAddressesOf(ChunkIds, answer) IN
  IF Succeeds(read) /\ MatchesIds(ChunkIds, Content(read))
  THEN /\ monitored' =
            monitored \cup UNION {MonitoredOf(Content(read)[k]) : k \in DOMAIN ChunkIds}
       /\ lastNextAddressId' = SyncedTo
       /\ start' = EndOfChunk
       /\ pc' = IF EndOfChunk < registryNextId THEN "chunk" ELSE "wallet"
       /\ UNCHANGED registryNextId
  ELSE StopsSync

CallGetAddresses ==
  /\ pc = "chunk"
  /\ TakeAddresses(AddressesAnswer(ChunkIds))
  /\ OnlySyncs
  /\ UNCHANGED faults

\* Answers for other ids, or of a contract of another version.
BadAddresses ==
  LET good == DataOf(ReadAddresses(ChunkIds))
      changed(field, value) == [good EXCEPT ![1] = Tuple([DataOf(@) EXCEPT ![field] = value])]
  IN {good[1], List([k \in DOMAIN good |-> ReadAddress(ChunkIds[k] + 1)]),
      List(changed("id", UInt(MaxU64 + 1))), List(changed("address", good[1])),
      List(changed("address", Some(UInt(0))))}

GetAddressesFails ==
  /\ pc = "chunk"
  /\ Fault
  /\ \E answer \in BadAnswers
                   \cup {Answer(200, Object([cause |-> "CostBalanceExceeded"]))}
                   \cup {Answer(200, Object([result |-> value])) : value \in BadAddresses} :
       TakeAddresses(answer)
  /\ OnlySyncs

-----------------------------------------------------------------------------
CallsNext ==
  \/ \E script \in Scripts : RegisterAddress(script)
  \/ \E ids \in (SUBSET DOMAIN depositAddress) \ {{}} : RemoveAddresses(ids)
  \/ \E outs \in SUBSET Outs : NewBlock(outs)
  \/ \E outs, more \in SUBSET Outs : Reorg(outs, more)
  \/ TakeTip \/ TakeLateTip
  \/ CallGetNextAddressId \/ GetNextAddressIdFails
  \/ CallGetAddresses \/ GetAddressesFails
  \/ UpdateWallet \/ ImportFails
  \/ GetUtxos \/ GetUtxosFails
  \/ \E utxo \in utxos : SkipUtxo(utxo) \/ GetDepositFromUtxo(utxo) \/ LookupFails(utxo)
  \/ \E deposit \in deposits : CreateDeposit(deposit) \/ CreateFails(deposit)
  \/ Restart

\* The fairness is DepositMonitor's: a round that can go on does.
CallsSpec == Init /\ [][CallsNext]_vars /\ WF_vars(Work)

\* A sync reads what the contract holds for the very ids it asked for, or it
\* stops: each step with the calls is one of DepositMonitor's, whatever the
\* node answered.
ImplementsMonitor == [][Next]_vars
=============================================================================
