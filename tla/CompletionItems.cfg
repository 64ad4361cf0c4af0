CONSTANTS
  Texts = {t1, t2}
  FileNames = {src}
  Lines = {0, 1}
  Cols = {0, 1}
  Nil = Nil
  ZeroTimeUnix = ZeroTimeUnix
  ZeroDigest = ZeroDigest
  MaxChunks = 1
  MaxResults = 1
SPECIFICATION Spec
INVARIANT ResultsReadable
CHECK_DEADLOCK FALSE
