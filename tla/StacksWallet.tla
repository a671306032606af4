---------------------------- MODULE StacksWallet ----------------------------
(***************************************************************************)
(* The wallet of src/stacks/wallet.rs without its counter: how a contract  *)
(* call becomes a signed transaction, and what a node asks of one.  Keys   *)
(* and hashes are free: a key stands for its public key, a digest is what  *)
(* it was made of.                                                         *)
(***************************************************************************)
EXTENDS Integers, ClarityValue

CHAIN_ID_MAINNET == 1

\* PER_ITEM_TX_FEE and BASE_TX_FEE.
TxFee(items) == items * 2000 + 3000

\* A wallet's address has the version byte of its network.
Wallet(key, chain) ==
  [key |-> key, chainId |-> chain,
   address |-> <<chain = CHAIN_ID_MAINNET, key>>]

IsMainnet(wallet) == wallet.chainId = CHAIN_ID_MAINNET

\* The signature covers the transaction with its fee and nonce cleared, and
\* then the fee and the nonce.
TxDigest(tx) ==
  <<[tx EXCEPT !.fee = 0, !.nonce = 0, !.signature = << >>], tx.fee, tx.nonce>>

SignTx(wallet, nonce, payload, fee) ==
  LET tx ==
    [version |-> IF IsMainnet(wallet) THEN "mainnet" ELSE "testnet",
     chainId |-> wallet.chainId, signer |-> wallet.key, nonce |-> nonce, fee |-> fee,
     postConditionMode |-> "originator", payload |-> payload, signature |-> << >>]
  IN [tx EXCEPT !.signature = <<wallet.key, TxDigest(tx)>>]

\* What a node of that chain checks before it looks at its mempool.
IsValid(tx, chain) ==
  /\ tx.chainId = chain
  /\ tx.version = IF chain = CHAIN_ID_MAINNET THEN "mainnet" ELSE "testnet"
  /\ tx.signature = <<tx.signer, TxDigest([tx EXCEPT !.signature = << >>])>>

\* make_trait_identifier.
TraitOf(contract) == <<contract, "reward-claim-signer-manager-trait">>

\* IntoContractCall::into_tx_payload.
ContractCall(contract, function, args) ==
  [contract |-> contract, function |-> function, args |-> args]
=============================================================================
