SPECIFICATION Spec
CONSTANTS
  Txns = {t1, t2}
  Docs = {d1}
  Rows = {m1, m2}
  FirstTxn = {"UNMATCHED"}
  FirstDoc = {"EXTRACTED", "FLAGGED"}
  HandScores = {TRUE}
  MaxVerbs = 0
PROPERTY DocumentedIsResolved
PROPERTY ReceiptKept
PROPERTY NoRowIsTorn
SYMMETRY Interchangeable
CHECK_DEADLOCK FALSE
