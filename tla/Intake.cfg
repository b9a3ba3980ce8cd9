SPECIFICATION MCSpec
CONSTANTS
  Jobs <- TwoJobs
  Slots = 1
  Uploads = {u1, u2}
  Bytes = {"photo", "pdf"}
  Pdfs = {"pdf"}
  MaxHalves = 1
  MaxRestarts = 1
  Items = {"mail", "copy", "wise"}
  Kind <- Kinds
  Holds <- Contents
  Rejected = {}
  MaxScans = 2
  Batches = 3
  Providers = 2
  MaxVerify = 1
  Figures = {1, 2}
  Plans = {"one_pass", "paged", "truncated"}
CONSTRAINT Few
SYMMETRY AnyUpload
INVARIANT OneJobPerContent
INVARIANT DocumentsStand
INVARIANT TotalIsEarned
 
CHECK_DEADLOCK FALSE
