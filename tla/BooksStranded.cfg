SPECIFICATION Spec
CONSTANTS
  Txns = {t1}
  Docs = {d1}
  Rows = {m1}
  FirstTxn = {"UNMATCHED"}
  FirstDoc = {"EXTRACTED"}
  HandScores = {TRUE, FALSE}
  MaxVerbs = 1
INVARIANT NeverStranded
CHECK_DEADLOCK FALSE
