CONSTANTS
  USRs = {u1}
  FileNames = {src}
  Lines <- MCLines
  Names = {main}
  FlagValues = {flagI}
  TUs = {tu1}
  HeaderNames = {hdr}
  Times <- MCTimes
  Nil = Nil
  ZeroTimeUnix = ZeroTimeUnix
  ZeroDigest = ZeroDigest
  MaxDecls = 2
  MaxCallers = 1
  MaxHeaders = 2
  MaxFlags = 1
  MaxSaves = 1
SPECIFICATION MCSpec
SYMMETRY MCSymmetry
INVARIANTS
  ReopenedContentMatches
CHECK_DEADLOCK FALSE
