CONSTANTS
  USRs = {u1}
  FileNames = {src}
  Lines = {1}
  Names = {main}
  FlagValues = {flagI}
  TUs = {tu1}
  HeaderNames = {hdr}
  Times <- MCTimes
  Nil = Nil
  ZeroTimeUnix = ZeroTimeUnix
  ZeroDigest = ZeroDigest
  MaxDecls = 1
  MaxCallers = 1
  MaxHeaders = 1
  MaxFlags = 1
  MaxSaves = 1
SPECIFICATION MCBuildSpec
PROPERTY
  BuiltFilesRoundTrip
CHECK_DEADLOCK FALSE
