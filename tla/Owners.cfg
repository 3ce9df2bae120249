SPECIFICATION Spec
CONSTANTS
  APs = {ap0, ap1}
  MaxUnread = 2
  MaxPackets = 2
  MaxStale = 2
  Depth = 2
INVARIANTS TypesOK AnswersMatch NothingOrphaned WorkInPlace CloseConverges
PROPERTIES AbandonReported ClosesEnd ImplementsBackend
