SPECIFICATION LiveTransferSpec
CONSTANTS
  Session = {s1}
  Size = 2
  MaxChunk = 2
  Digests = {"right"}
  Missing = Missing
  MaxFaults = 1
PROPERTY FinishedIsSaved
CHECK_DEADLOCK FALSE
