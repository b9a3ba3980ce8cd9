SPECIFICATION CategorizationSpec
CONSTANTS
  again = again
  anew = anew
  Txns = {"plain", "bare"}
  Cats = {"goods", "refund"}
  RefundCat = "refund"
  RuleCat = "goods"
  Answers = {"goods"}
  Vendors <- TheVendors
  Line <- TheLines
  Receipt <- TheReceipts
  Proven = {"bare"}
  Guesses = {"misc"}
  Ruled = {}
  Matchers = {"match"}
  Recategorizers = {again, anew}
  MaxCalls = 4
  GroupSize = 2
  WaveSize = 2
  MaxRuns = 2
  MaxVerbs = 1
  MaxMishaps = 1
CONSTRAINT Few
SYMMETRY EitherRun
INVARIANT AsksWithinReason
PROPERTY LockHolds
PROPERTY VendorsAgree
CHECK_DEADLOCK FALSE
