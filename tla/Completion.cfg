CONSTANTS
  Texts = {t1, t2}
  FileNames = {src}
  Lines = {0, 1}
  Cols = {0, 1}
  Nil = Nil
  ZeroTimeUnix = ZeroTimeUnix
  ZeroDigest = ZeroDigest
  MaxChunks = 2
  MaxResults = 2
SPECIFICATION Spec
INVARIANTS ConversionMatchesSpec LocationRequestRoundTrip
CHECK_DEADLOCK FALSE
