SPECIFICATION FairSpec
CONSTANTS
  None = None
  Windows = {w1, w2}
  d1 = d1  d2 = d2  w1 = w1  w2 = w2
  Dests = {d1, d2}
  Waiting <- OneWaiting
  MaxJobs = 2
  MaxAttempts = 2
  MaxSequence = 4
  MaxInbox = 1
  Buttons <- Work1
  MaxTroubles = 2
  MaxCommands = 3
INVARIANTS
  TypeOK
  PublicationIsRecorded
  OnePublication
  DestinationsReserved
  OutcomesAreTrue
  NoLostCommand
  RestartReads
PROPERTIES
  WorkersLeave
  OnlyWhatWasStarted
  EvidenceKept
CHECK_DEADLOCK FALSE
