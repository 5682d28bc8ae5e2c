CONSTANTS
  Producers <- TwoProducers
  Consumers <- TwoConsumers
  Items <- ThreeItems
  NoItem = "none"
SPECIFICATION FairSpec
INVARIANTS TypeOK MutualExclusion NeverPopsEmpty NothingLost NoLostWakeup
PROPERTIES ImplementsWorkQueue
