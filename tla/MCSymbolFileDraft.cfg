CONSTANTS
  USRs = {u1}
  FileNames = {src}
  Lines = {1, 2}
  Names = {main}
  TUs = {tu1}
  HeaderNames = {hdr}
  Times <- MCTimes
  Nil = Nil
  ZeroTimeUnix = ZeroTimeUnix
  ZeroDigest = ZeroDigest
  MaxDecls = 2
  MaxCallers = 1
  MaxHeaders = 2
  MaxSaves = 2
SPECIFICATION MCSpec
INVARIANTS EncodingLossless ReopenedDraftReports
PROPERTY DraftIndexRefinement
CHECK_DEADLOCK FALSE
