SPECIFICATION Spec
CONSTANTS
  Jobs <- TwoJobs
  Slots = 1
  Uploads = {u1, u2}
  Names = {"a.pdf", "b.pdf"}
  Bytes = {"march", "quarter"}
  Charges = {1, 2}
  Content <- Overlapping
  MaxHalves = 2
  MaxRestarts = 1
INVARIANT ProcessingHasAJob
INVARIANT ChargesHaveTheirStatement
PROPERTY DoneIsImported
PROPERTY IdenticalDropKeepsRow
SYMMETRY AnyUpload
