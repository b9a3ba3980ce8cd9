SPECIFICATION Spec
CONSTANTS
  Readers = {"receipt", "statement"}
  Kinds <- TheKinds
  Chain <- Both
  Rungs = 2
  Batches <- TwoEach
  VerifyCalls = 1
  DocumentSlots = 2
  LocalSlots = 1
  Papers <- ThePapers
  Slips = {"missed", "twice", "flipped", "cents", "coins", "undated", "late", "misdated"}
  MaxSlips = 2
INVARIANT LoadIsBounded
INVARIANT EveryProviderHadItsTurn
INVARIANT OneSlipIsSeen
INVARIANT ReadingStands
PROPERTY EveryReadEnds
CHECK_DEADLOCK FALSE
