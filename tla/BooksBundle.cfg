SPECIFICATION Spec
CONSTANTS
  Txns = {t1}
  Docs = {d1, d2}
  Rows = {m1, m2}
  FirstTxn = {"UNMATCHED", "PENDING_REVIEW"}
  FirstDoc = {"EXTRACTED"}
  HandScores = {FALSE}
  MaxVerbs = 1
PROPERTY DocumentedIsResolved
PROPERTY ExclusionStands
PROPERTY SweepAgrees
PROPERTY NoRowIsTorn
SYMMETRY Interchangeable
CHECK_DEADLOCK FALSE
