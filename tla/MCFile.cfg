SPECIFICATION TransferSpec
CONSTANTS
  Session = {s1}
  Size = 4
  MaxChunk = 3
  Digests = {"right", "wrong", "none"}
  Missing = Missing
  MaxFaults = 3
INVARIANTS FileTypeOK ServedIsWhole LinksWork AcknowledgedIsStored
PROPERTY ImplementsDelivery
CHECK_DEADLOCK FALSE
