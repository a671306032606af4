SPECIFICATION Spec
CONSTANTS
  Monitor = Monitor
  Keeper = Keeper
  TipA = TipA
  TipB = TipB
  NoTip = NoTip
  Consumers <- BothConsumers
  MayStop <- StoppingConsumers
  Tips <- TwoTips
  RingCapacity = 2
  MailboxCapacity = 1
  MaxSends = 5
CHECK_DEADLOCK FALSE
INVARIANT InOrder
INVARIANT OwedRoundIsQueued
PROPERTY EveryTipStartsARound
PROPERTY FirstTipIsServed
