------------------------------ MODULE MCChainTip ------------------------------
(* Two consumers, of which only the reward keeper may stop.                  *)
EXTENDS ChainTipDispatch

CONSTANTS Monitor, Keeper, TipA, TipB

BothConsumers == {Monitor, Keeper}
StoppingConsumers == {Keeper}
TwoTips == {TipA, TipB}
=============================================================================
