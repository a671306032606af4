----------------------------- MODULE StacksNode -----------------------------
(***************************************************************************)
(* What src/stacks/node.rs makes of a Stacks node's HTTP answers.          *)
(*                                                                         *)
(* An answer is a status, 0 when none came, and a body: a JSON object or   *)
(* string, or a text that is no JSON.  A call returns Result(x) or Failed. *)
(***************************************************************************)
EXTENDS Naturals, Sequences, ClarityValue

Object(fields) == <<"object", fields>>
String(content) == <<"string", content>>
Text == <<"text">>

Answer(status, body) == [status |-> status, body |-> body]
NoAnswer == Answer(0, Text)

\* Calls without an answer, and answers that are not the call's.
BadAnswers ==
  {NoAnswer, Answer(500, Text), Answer(200, Text), Answer(200, Object([x \in {} |-> x]))}

Result(x) == <<"result", x>>
Failed == <<"failed">>
Succeeds(result) == result # Failed
Content(result) == result[2]

\* error_for_status.
IsSuccess(answer) == answer.status \in 1..399

\* serde refuses an object that lacks a field without a default.
Has(answer, fields) ==
  answer.body[1] = "object" /\ fields \subseteq DOMAIN answer.body[2]

\* A number in hexadecimal; and a text that is no hexadecimal, or of no value.
Hex(n) == <<"hex", n>>
NoHex == <<"no hex">>

\* clarity_value_deserializer.
ValueOf(hex) == IF hex = NoHex THEN Failed ELSE Result(hex)

\* CallReadResponse::into_value: a body with `cause`, or with neither, is an
\* error.
IntoValue(response) ==
  IF "result" \in DOMAIN response THEN ValueOf(response.result) ELSE Failed

CallRead(answer) ==
  IF IsSuccess(answer) /\ Has(answer, {}) THEN IntoValue(answer.body[2]) ELSE Failed

GetDataVar(answer) ==
  IF IsSuccess(answer) /\ Has(answer, {"data"}) THEN ValueOf(answer.body[2].data) ELSE Failed

\* The bytes of a key: the byte that tells its form, and its coordinate.
IsPublicKey(bytes) == Len(bytes) = 2 /\ bytes[1] \in {2, 3, 4}

\* extract_aggregate_key: the data var is the byte 0x00 until there is a key.
ExtractAggregateKey(value) ==
  CASE value = Buff(<<0>>) -> Result(NoValue)
    [] TypeOf(value) = "buff" /\ IsPublicKey(DataOf(value)) -> Result(Some(DataOf(value)[2]))
    [] OTHER -> Failed

AccountEntryResponse == {"balance", "locked", "unlockHeight", "nonce"}

\* A balance is hexadecimal, with or without 0x, and has at most 128 bits.
AccountInfo(entry) ==
  IF entry.balance # NoHex /\ entry.locked # NoHex THEN Result(entry) ELSE Failed

GetAccount(answer) ==
  IF IsSuccess(answer) /\ Has(answer, AccountEntryResponse)
  THEN AccountInfo(answer.body[2])
  ELSE Failed

NodeInfo == {"networkId", "stacksTip", "stacksTipConsensusHash"}

GetNodeInfo(answer) ==
  IF IsSuccess(answer) /\ Has(answer, NodeInfo)
  THEN Result(answer.body[2])
  ELSE Failed

\* StacksBlockId::new hashes both.
ChainTip(info) == <<info.stacksTipConsensusHash, info.stacksTip>>

Txid == <<"txid">>

\* The reason's data may be missing.
TxRejection == {"error", "reason", "txid"}

\* The status is not looked at: a string that is a transaction id accepts, a
\* rejection object rejects, and the node's other errors are texts.
SubmitTx(answer) ==
  CASE answer.body = String(Txid) -> "acceptance"
    [] Has(answer, TxRejection) -> "rejection"
    [] OTHER -> "error"
=============================================================================
