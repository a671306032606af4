------------------------------ MODULE Settings ------------------------------
(***************************************************************************)
(* How spox reads its settings (src/config): the sources are laid over     *)
(* each other, the fields are deserialized and the result is validated.    *)
(*                                                                         *)
(* A source is a function from field names to values.  A field of a stanza *)
(* has a dotted name, as it has in the environment.  A value is a pair of  *)
(* what it can be read as and its content.                                 *)
(***************************************************************************)
EXTENDS Integers, FiniteSets, TLC

Number(n) == <<"number", n>>
Literal(text) == <<"text", text>>
Url(hasPort) == <<"url", hasPort>>
Contract(id) == <<"contract", id>>
Secret == <<"secret">>
Deposit(script) == <<"deposit", script>>

Empty == Literal("")

\* The aliases under [deposit].
CONSTANT Aliases

StacksFields == {"stacks.rpc_endpoint", "stacks.auth_token", "stacks.sbtc_deployer"}
ClaimsFields == {"reward_claims.claims_contract", "reward_claims.private_key"}
WalletFields == {"node_wallet.name", "node_wallet.rescan_timestamp"}

Defaults ==
  [f \in {"polling_interval", "bitcoin_rpc_timeout"} |->
     Number(IF f = "polling_interval" THEN 30 ELSE 300)]

\* The environment comes before the file, and the file before the defaults.
Build(file, environment) == environment @@ file @@ Defaults

IsSet(cfg, field) == field \in DOMAIN cfg
Is(cfg, field, kind) == IsSet(cfg, field) /\ cfg[field][1] = kind

\* One field of a stanza makes it present, and then the others are required.
HasStanza(cfg, fields) == fields \cap DOMAIN cfg # {}

\* contract_deserializer_option: nothing and the empty text are no contract.
IsContractOption(cfg, field) ==
  IsSet(cfg, field) => cfg[field] = Empty \/ Is(cfg, field, "contract")

ContractOption(cfg, field) ==
  IF Is(cfg, field, "contract") THEN {cfg[field][2]} ELSE {}

\* MonitoredDepositConfig, with all its fields.
DepositsParse(cfg) == \A alias \in Aliases : IsSet(cfg, alias) => Is(cfg, alias, "deposit")

StacksParses(cfg) ==
  HasStanza(cfg, StacksFields) =>
    /\ Is(cfg, "stacks.rpc_endpoint", "url")
    /\ Is(cfg, "stacks.auth_token", "text")
    /\ Is(cfg, "stacks.sbtc_deployer", "address")

ClaimsParse(cfg) ==
  HasStanza(cfg, ClaimsFields) =>
    /\ Is(cfg, "reward_claims.claims_contract", "contract")
    /\ Is(cfg, "reward_claims.private_key", "secret")

WalletParses(cfg) ==
  HasStanza(cfg, WalletFields) =>
    /\ Is(cfg, "node_wallet.name", "text")
    /\ Is(cfg, "node_wallet.rescan_timestamp", "number")

\* try_deserialize.  A duration is a number that is not negative.
Deserializes(cfg) ==
  /\ Is(cfg, "bitcoin_rpc_endpoint", "url")
  /\ Is(cfg, "emily_endpoint", "url")
  /\ \A f \in {"polling_interval", "bitcoin_rpc_timeout"} : Is(cfg, f, "number") /\ cfg[f][2] >= 0
  /\ DepositsParse(cfg)
  /\ IsContractOption(cfg, "registry_contract")
  /\ StacksParses(cfg) /\ ClaimsParse(cfg) /\ WalletParses(cfg)

\* Optional settings are sets of at most one element.
SettingsOf(cfg) ==
  [pollingInterval |-> cfg["polling_interval"][2],
   bitcoinRpcTimeout |-> cfg["bitcoin_rpc_timeout"][2],
   hasPort |-> cfg["bitcoin_rpc_endpoint"][2],
   deposit |-> {cfg[alias][2] : alias \in Aliases \cap DOMAIN cfg},
   registryContract |-> ContractOption(cfg, "registry_contract"),
   rewardClaims |-> ContractOption(cfg, "reward_claims.claims_contract"),
   stacks |-> HasStanza(cfg, StacksFields),
   authToken |-> IF HasStanza(cfg, StacksFields) THEN cfg["stacks.auth_token"][2] ELSE "",
   nodeWallet |-> IF HasStanza(cfg, WalletFields)
                  THEN {[name |-> cfg["node_wallet.name"][2],
                         rescanTimestamp |-> cfg["node_wallet.rescan_timestamp"][2]]}
                  ELSE {}]

\* Faulty: the claims can do without a Stacks node.
ValidateRegistryOnly(s) ==
  /\ s.pollingInterval # 0
  /\ s.bitcoinRpcTimeout # 0
  /\ s.registryContract # {} => s.stacks
  /\ \A w \in s.nodeWallet : w.name # ""

\* A name is compared without its blanks.
Validate(s) ==
  /\ s.pollingInterval # 0
  /\ s.bitcoinRpcTimeout # 0
  /\ s.registryContract # {} => s.stacks
  /\ s.rewardClaims # {} => s.stacks
  /\ \A w \in s.nodeWallet : w.name # ""

\* Faulty: 0 is the offset of now.
RescanFromNow(w, now) ==
  IF w.rescanTimestamp > 0 THEN w.rescanTimestamp
  ELSE IF now + w.rescanTimestamp >= 0 THEN now + w.rescanTimestamp ELSE 0

\* A point in time, or an offset from now that stops at 0.
GetRescanTimestamp(w, now) ==
  IF w.rescanTimestamp >= 0 THEN w.rescanTimestamp
  ELSE IF now + w.rescanTimestamp >= 0 THEN now + w.rescanTimestamp ELSE 0
=============================================================================
