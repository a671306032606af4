------------------------------ MODULE MCService ------------------------------
(* Constants of the run of Service.                                        *)
EXTENDS Service
CONSTANTS s1, s2

Address == <<"address">>

Base ==
  [f \in {"emily_endpoint", "bitcoin_rpc_endpoint"} |-> Url(TRUE)]
  @@ [f \in {"deposit.demo"} |-> Deposit(s1)]

Node ==
  [f \in StacksFields |->
     CASE f = "stacks.rpc_endpoint" -> Url(TRUE)
       [] f = "stacks.auth_token" -> Literal("12345")
       [] OTHER -> Address]

NodeWallet(timestamp) ==
  [f \in WalletFields |->
     IF f = "node_wallet.name" THEN Literal("spox-watch") ELSE Number(timestamp)]

Registry == [f \in {"registry_contract"} |-> Contract("registry")]
Claims ==
  [f \in ClaimsFields |->
     IF f = "reward_claims.private_key" THEN Secret ELSE Contract("reward-claims")]

Nothing == [f \in {} |-> Empty]
Set(field, value) == [f \in {field} |-> value]

\* Complete files, and what the environment changes in one.
Full == Base @@ Node @@ Registry @@ Claims

MCSources ==
  {[file |-> Full @@ NodeWallet(0), environment |-> Nothing],
   [file |-> Full @@ NodeWallet(-1), environment |-> Nothing],
   [file |-> Full, environment |-> Nothing]}
  \cup
  {[file |-> Base @@ Claims, environment |-> e] :
     e \in {Nothing, Node, Set("polling_interval", Number(0)),
            Set("stacks.auth_token", Literal("12345"))}}
  \cup
  {[file |-> Full, environment |-> e] :
     e \in {Set("bitcoin_rpc_endpoint", Url(FALSE)), Set("bitcoin_rpc_endpoint", Literal("no url")),
            Set("stacks.auth_token", Literal("\n")),
            Set("registry_contract", Literal("no contract")),
            Set("reward_claims.claims_contract", Empty),
            Set("deposit.demo", Deposit("unspendable")),
            Set("node_wallet.name", Empty) @@ NodeWallet(0)}}
  \cup
  {[file |-> Base, environment |-> Set("registry_contract", Empty)],
   [file |-> Base @@ Registry, environment |-> Nothing]}
=============================================================================
