SPECIFICATION FairSpec
CONSTANTS
  Calls = 2
  Job <- MCJob
  Local = Local
  Remote = Remote
  NoGroup = NoGroup
  BatchLen = 2
INVARIANTS
  TypeOK
  UrlNamesGroup
  OkMeansAccepted
  LayersAgree
  BatchIsOneRequest
  AttemptsToldApart
  ProposalsExplained
  StopsAfterHandlers
PROPERTIES
  ShutdownEnds
CHECK_DEADLOCK FALSE
