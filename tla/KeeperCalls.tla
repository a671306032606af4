----------------------------- MODULE KeeperCalls -----------------------------
(***************************************************************************)
(* The reward keeper of RewardKeeper.tla call by call: what it sends to    *)
(* the Stacks node, what the node and the registry answer, and what the    *)
(* parsers of src/stacks/reward_claim_registry.rs make of the answer.      *)
(*                                                                         *)
(* An item is a row the service has parsed: its key on the wire is the     *)
(* staker and the signer-manager, and for a withdrawal the request id.     *)
(***************************************************************************)
EXTENDS RewardKeeper, StacksNode, StacksWallet

CONSTANTS
  StakerOf,     \* the staker of each item
  RequestIdOf,  \* the request id of each withdrawal
  Bonded,       \* the claims of a bond
  Registry,     \* claims_contract
  PrivateKey,   \* private_key
  ChainId       \* the node's chain

KeyOf(item) ==
  IF item \in Claims THEN <<StakerOf[item], ManagerOf[item]>>
  ELSE <<StakerOf[item], ManagerOf[item], RequestIdOf[item]>>

ASSUME KeyAssumption ==
  /\ ChainId \in Nat
  /\ PrivateKey \notin Managers
  /\ \A i, j \in Items : KeyOf(i) = KeyOf(j) => i = j

\* The item that has a key, or the key when nothing has it.
ItemOf(key) ==
  IF \E i \in Items : KeyOf(i) = key THEN CHOOSE i \in Items : KeyOf(i) = key ELSE key

\* PrincipalData::Contract; a staker may be a contract too.
IsContract(principal) == principal \in Managers

-----------------------------------------------------------------------------
(* The account and the tip.                                                *)

InfoAnswer ==
  Answer(200, Object([networkId |-> ChainId,
                      stacksTip |-> [list |-> list[phase],
                                     due |-> due \cap ToSet(list[phase])],
                      stacksTipConsensusHash |-> "consensus hash"]))

\* RewardClaimState::new: the wallet is on the node's chain.
KeeperWallet == Wallet(PrivateKey, Content(GetNodeInfo(InfoAnswer)).networkId)

\* The node knows the addresses of its own chain only.
AccountAnswer(address) ==
  IF address[1] = (ChainId = CHAIN_ID_MAINNET)
  THEN Answer(200, Object([balance |-> Hex(0), locked |-> Hex(0), unlockHeight |-> 0,
                           nonce |-> 0]))
  ELSE Answer(400, Text)

BadAccounts ==
  BadAnswers \cup
  {Answer(200, Object([balance |-> NoHex, locked |-> Hex(0), unlockHeight |-> 0, nonce |-> 1])),
   Answer(200, Object([balance |-> Hex(0), unlockHeight |-> 0, nonce |-> 1]))}

\* update_wallet_nonce: a tip whose fetch fails is skipped.
CallGetAccount ==
  /\ pc = "idle"
  /\ \E answer \in BadAccounts \cup {AccountAnswer(KeeperWallet.address)} :
       LET account == GetAccount(answer) IN
       IF Succeeds(account)
       THEN nonce' = Content(account).nonce /\ pc' = "pin" /\ mempool' = Unmarked
       ELSE UNCHANGED <<nonce, pc, mempool>>
  /\ UNCHANGED <<chain, phaseVars, events, faults>>

TakeInfo(answer) ==
  LET info == GetNodeInfo(answer) IN
  IF Succeeds(info)
  THEN /\ view' = ChainTip(Content(info))[2]
       /\ pc' = "page"
       /\ UNCHANGED <<phase, cursor, fetched, batches, at>>
  ELSE LeavePhase

CallGetNodeInfo ==
  /\ pc = "pin"
  /\ TakeInfo(InfoAnswer)
  /\ UNCHANGED <<chain, mempool, nonce, events, faults>>

GetNodeInfoFails ==
  /\ pc = "pin"
  /\ Fault
  /\ \E answer \in BadAnswers : TakeInfo(answer)
  /\ UNCHANGED <<chain, mempool, nonce, events>>

-----------------------------------------------------------------------------
(* The registry's answers.                                                 *)

ContractKey(item) ==
  IF item \in Claims
  THEN Tuple([staker |-> Principal(StakerOf[item]),
              signerManager |-> Principal(ManagerOf[item])])
  ELSE Tuple([staker |-> Principal(StakerOf[item]),
              signerManager |-> Principal(ManagerOf[item]),
              requestId |-> UInt(RequestIdOf[item])])

ContractRow(item) ==
  IF item \in Claims
  THEN Tuple([signerManager |-> Principal(ManagerOf[item]),
              staker |-> Principal(StakerOf[item]),
              bondIndex |-> IF item \in Bonded THEN Some(UInt(1)) ELSE NoValue,
              rewardCycle |-> UInt(0)])
  ELSE ContractKey(item)

\* Does the argument have the type of the list's cursor?
IsCursor(arg, fields) ==
  /\ TypeOf(arg) = "optional"
  /\ arg # NoValue =>
       /\ Holds(DataOf(arg)[1], "staker", "principal")
       /\ Holds(DataOf(arg)[1], "signerManager", "principal")
       /\ DOMAIN DataOf(DataOf(arg)[1]) = fields

\* The page of either read-only function that starts at the cursor.
ContractPage(arg) ==
  LET from ==
        IF arg = NoValue THEN None
        ELSE LET key == DataOf(arg)[1] IN
             ItemOf(IF phase = "claims"
                    THEN <<Field(key, "staker"), Field(key, "signerManager")>>
                    ELSE <<Field(key, "staker"), Field(key, "signerManager"),
                           Field(key, "requestId")>>)
      rows == Rows(from)
      next == NextCursor(from)
  IN Tuple([rows |-> List([k \in DOMAIN rows |-> ContractRow(rows[k])]),
            next |-> IF next = None THEN NoValue ELSE Some(ContractKey(next))])

PageAnswer(arg) ==
  LET fields == {"staker", "signerManager"} \cup
                IF phase = "claims" THEN {} ELSE {"requestId"}
  IN Answer(200, Object(IF IsCursor(arg, fields)
                        THEN [result |-> Response(ContractPage(arg))]
                        ELSE [cause |-> "argument type"]))

-----------------------------------------------------------------------------
(* The registry's client.                                                  *)

\* RegistrationKey and WithdrawalKey.
KeyParses(value) ==
  /\ Holds(value, "staker", "principal")
  /\ Holds(value, "signerManager", "principal")
  /\ phase = "withdrawals" => Holds(value, "requestId", "uint")

Key(value) ==
  IF phase = "claims"
  THEN <<Field(value, "staker"), Field(value, "signerManager")>>
  ELSE <<Field(value, "staker"), Field(value, "signerManager"), Field(value, "requestId")>>

\* The bond index and the reward cycle of a claim are read and not used.
ClaimParses(row) ==
  /\ Holds(row, "bondIndex", "optional")
  /\ \A k \in DOMAIN Field(row, "bondIndex") : TypeOf(Field(row, "bondIndex")[k]) = "uint"
  /\ Holds(row, "signerManager", "principal")
  /\ IsContract(Field(row, "signerManager"))
  /\ Holds(row, "staker", "principal")
  /\ Holds(row, "rewardCycle", "uint")

WithdrawalParses(row) ==
  /\ Holds(row, "signerManager", "principal")
  /\ IsContract(Field(row, "signerManager"))
  /\ Holds(row, "staker", "principal")
  /\ Holds(row, "requestId", "uint")

\* Faulty: any principal may be a signer-manager.
AnyManagerParses(row) ==
  Holds(row, "staker", "principal") /\ Holds(row, "signerManager", "principal")

RowParses(row) == IF phase = "claims" THEN ClaimParses(row) ELSE WithdrawalParses(row)

\* One row that does not parse fails the page.
PageParses(page) ==
  /\ Holds(page, "rows", "list")
  /\ \A k \in DOMAIN Field(page, "rows") : RowParses(Field(page, "rows")[k])
  /\ Holds(page, "next", "optional")
  /\ \A k \in DOMAIN Field(page, "next") : KeyParses(Field(page, "next")[k])

ParsedRows(page) ==
  LET rows == Field(page, "rows") IN [k \in DOMAIN rows |-> ItemOf(Key(rows[k]))]

ParsedNext(page) ==
  LET next == Field(page, "next") IN IF next = << >> THEN None ELSE ItemOf(Key(next[1]))

\* get_pending_claims and get_pending_withdrawals.
GetPending(answer) ==
  LET value == CallRead(answer) IN
  IF /\ Succeeds(value)
     /\ TypeOf(Content(value)) = "response"
     /\ PageParses(DataOf(Content(value)))
  THEN Result([rows |-> ParsedRows(DataOf(Content(value))),
               next |-> ParsedNext(DataOf(Content(value)))])
  ELSE Failed

RegistrationKey(item) ==
  Tuple([staker |-> Principal(StakerOf[item]), signerManager |-> Principal(ManagerOf[item])])

WithdrawalKey(item) ==
  Tuple([staker |-> Principal(StakerOf[item]), signerManager |-> Principal(ManagerOf[item]),
         requestId |-> UInt(RequestIdOf[item])])

\* The cursor of the next page.
CursorArg ==
  CASE cursor = None -> NoValue
    [] cursor # None /\ phase = "claims" -> Some(RegistrationKey(cursor))
    [] OTHER -> Some(WithdrawalKey(cursor))

\* The phase with all its rows.
Collected(rows) ==
  IF rows = << >>
  THEN LeavePhase
  ELSE /\ batches' \in BatchesOf(rows)
       /\ cursor' = None
       /\ fetched' = << >>
       /\ pc' = "submit"
       /\ UNCHANGED <<phase, view, at>>

TakePage(answer) ==
  LET page == GetPending(answer) IN
  CASE ~ Succeeds(page) -> LeavePhase
    [] Succeeds(page) /\ Content(page).next # None ->
         /\ fetched' = fetched \o Content(page).rows
         /\ cursor' = Content(page).next
         /\ UNCHANGED <<pc, phase, view, batches, at>>
    [] OTHER -> Collected(fetched \o Content(page).rows)

CallGetPending ==
  /\ pc = "page"
  /\ TakePage(PageAnswer(CursorArg))
  /\ UNCHANGED <<chain, mempool, nonce, events, faults>>

With(tuple, field, value) == Tuple([DataOf(tuple) EXCEPT ![field] = value])

\* Pages of a registry of another version: an entry has another type, or a
\* signer-manager is no contract.
BadRows(row) ==
  {With(row, field, Response(row)) : field \in DOMAIN DataOf(row)}
  \cup {With(row, "signerManager", Principal(PrivateKey))}
  \cup {With(row, field, Some(NoValue)) : field \in {"bondIndex"} \cap DOMAIN DataOf(row)}

BadPages(page) ==
  LET rows == Field(page, "rows") IN
  {With(page, "rows", page), With(page, "next", Some(UInt(1))), UInt(1)}
  \cup UNION {{With(page, "rows", List([rows EXCEPT ![k] = row])) : row \in BadRows(rows[k])} :
                k \in DOMAIN rows}

GetPendingFails ==
  /\ pc = "page"
  /\ Fault
  /\ \E answer \in
       BadAnswers
       \cup {Answer(200, Object([cause |-> "CostBalanceExceeded"])),
             Answer(200, Object([result |-> NoHex])),
             Answer(200, Object([result |-> ContractPage(CursorArg)]))}
       \cup {Answer(200, Object([result |-> Response(page)])) :
               page \in BadPages(ContractPage(CursorArg))} :
       TakePage(answer)
  /\ UNCHANGED <<chain, mempool, nonce, events>>

-----------------------------------------------------------------------------
(* The transactions.                                                       *)

\* The trait is not sent.
SignerManagerArg(batch) == CallableContract(ManagerOf[batch[1]], TraitOf(Registry))

RewardClaimsBatch(batch) ==
  ContractCall(Registry, "process-reward-claims",
    <<SignerManagerArg(batch), List([k \in DOMAIN batch |-> Principal(StakerOf[batch[k]])])>>)

WithdrawalItem(item) ==
  Tuple([staker |-> Principal(StakerOf[item]), requestId |-> UInt(RequestIdOf[item])])

WithdrawalsBatch(batch) ==
  ContractCall(Registry, "settle-pending-withdrawals",
    <<SignerManagerArg(batch), List([k \in DOMAIN batch |-> WithdrawalItem(batch[k])])>>)

BatchCall(batch) ==
  IF phase = "claims" THEN RewardClaimsBatch(batch) ELSE WithdrawalsBatch(batch)

BatchTx ==
  SignTx(KeeperWallet, nonce, BatchCall(batches[at]), TxFee(Len(batches[at])))

\* The function's parameters admit the arguments.
TypeChecks(call) ==
  /\ call.contract = Registry
  /\ TypeOf(call.args[1]) = "callable"
  /\ TypeOf(call.args[2]) = "list"
  /\ Len(DataOf(call.args[2])) <= MaxBatch
  /\ \A k \in DOMAIN DataOf(call.args[2]) :
       LET item == DataOf(call.args[2])[k] IN
       IF call.function = "process-reward-claims"
       THEN TypeOf(item) = "principal"
       ELSE Holds(item, "staker", "principal") /\ Holds(item, "requestId", "uint")

\* The items the call is about.
CallItems(call) ==
  LET elems == DataOf(call.args[2]) IN
  [k \in DOMAIN elems |->
     ItemOf(IF call.function = "process-reward-claims"
            THEN <<DataOf(elems[k]), call.args[1][2]>>
            ELSE <<Field(elems[k], "staker"), call.args[1][2], Field(elems[k], "requestId")>>)]

\* A transaction of the same nonce gives way to a higher fee.
NodeAdmits(tx) ==
  /\ IsValid(tx, ChainId)
  /\ TypeChecks(tx.payload)
  /\ tx.nonce >= 0
  /\ tx.nonce \in DOMAIN mempool => tx.fee > TxFee(Len(mempool[tx.nonce].items))

Accepts == Answer(200, String(Txid))
Rejects == Answer(400, Object([error |-> "transaction rejected", reason |-> "reason",
                               txid |-> Txid]))

\* Faulty: every answered submission uses up a nonce.
NonceAfterAnswer(answer) == IF SubmitTx(answer) = "error" THEN nonce ELSE nonce + 1

\* Faulty: the nonce is not counted up.
NonceAfterNothing(answer) == nonce

NonceAfter(answer) == IF SubmitTx(answer) = "acceptance" THEN nonce + 1 ELSE nonce

\* The node takes the transaction, or not, and answers.
Submitted(taken, answer) ==
  /\ pc = "submit"
  /\ NextBatch
  /\ nonce' = NonceAfter(answer)
  /\ mempool' = IF taken
                THEN MapSet(mempool, nonce,
                            [items |-> CallItems(BatchTx.payload),
                             batch |-> IF SubmitTx(answer) = "acceptance"
                                       THEN <<phase, at>> ELSE None])
                ELSE mempool
  /\ UNCHANGED <<chain, events>>

CallSubmitTx ==
  /\ pc = "submit"
  /\ Submitted(NodeAdmits(BatchTx), IF NodeAdmits(BatchTx) THEN Accepts ELSE Rejects)
  /\ UNCHANGED faults

\* A refusal for another reason, an error of the node, or no answer.
SubmitTxFails ==
  /\ pc = "submit"
  /\ Fault
  /\ \/ NodeAdmits(BatchTx) /\ Submitted(FALSE, Rejects)
     \/ \E answer \in BadAnswers, taken \in {FALSE, NodeAdmits(BatchTx)} :
          Submitted(taken, answer)

-----------------------------------------------------------------------------
CallsWork == CallGetAccount \/ CallGetNodeInfo \/ CallGetPending \/ CallSubmitTx

CallsNext ==
  \/ \E item \in Items :
       Enlist(item) \/ BecomeDue(item) \/ Delist(item) \/ ServedByOthers(item)
  \/ Mine
  \/ CallsWork
  \/ GetNodeInfoFails
  \/ GetPendingFails
  \/ SubmitTxFails
  \/ Restart

\* The fairness is RewardKeeper's: whenever a round can go on, it does, and its
\* next step is that call's, as ImplementsKeeper shows.
CallsSpec == Init /\ [][CallsNext]_vars /\ WF_vars(Work) /\ WF_vars(Mine)

\* What goes over the wire changes nothing: every request is understood by the
\* contract as it was meant, every page arrives whole and in order or not at
\* all, and every answer of the node counts as what happened, so that each step
\* is one of RewardKeeper's and what holds there holds of the calls.
ImplementsKeeper == [][Next]_vars
=============================================================================
