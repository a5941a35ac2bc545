SPECIFICATION FairFramingSpec
CONSTANTS
  Thread = {t1, t2}
  NoThread = NoThread
  Lengths = {1, 2}
  RecvSize = 7
  MaxFrames = 3
  MaxFaults = 1
INVARIANTS FramingTypeOK FramesDoNotMix NothingHeldBack
PROPERTIES ImplementsChannel EveryFrameArrives
CHECK_DEADLOCK FALSE
