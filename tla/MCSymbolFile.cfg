CONSTANTS
  USRs = {u1, u2}
  FileNames = {src}
  Lines = {1}
  Names = {main}
  FlagValues = {flagI}
  TUs = {tu1}
  HeaderNames = {hdr}
  Times <- MCTimes
  Nil = Nil
  ZeroTimeUnix = ZeroTimeUnix
  ZeroDigest = ZeroDigest
  MaxDecls = 2
  MaxCallers = 1
  MaxHeaders = 2
  MaxFlags = 1
  MaxSaves = 2
SPECIFICATION MCBuildSpec
SYMMETRY MCSymmetry
INVARIANTS
  EncodingLossless
CHECK_DEADLOCK FALSE
