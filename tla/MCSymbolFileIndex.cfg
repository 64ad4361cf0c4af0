CONSTANTS
  USRs = {u1}
  FileNames = {src}
  Lines <- MCLines
  Names = {main}
  FlagValues = {flagI}
  TUs = {tu1}
  HeaderNames = {hdr}
  Times <- MCTimes
  Nil = Nil
  ZeroTimeUnix = ZeroTimeUnix
  ZeroDigest = ZeroDigest
  MaxDecls = 2
  MaxCallers = 1
  MaxHeaders = 1
  MaxFlags = 0
  MaxSaves = 1
SPECIFICATION MCBuildSpec
PROPERTY
  IndexRefinement
CHECK_DEADLOCK FALSE
