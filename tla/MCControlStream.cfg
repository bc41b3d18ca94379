SPECIFICATION FairSpec
CONSTANTS
  MaxInputs = 1
  MaxShapes = 1
  MaxOther = 3
  OtherMessages = {"hello", "hello_ack", "authenticate", "resume_session",
                   "input", "goodbye", "undecodable"}
INVARIANTS
  HostSpeaksInOrder
  ServedWasAdmitted
  FateFollowsGoodbye
  ReturnsClean
  ConformingNeverRefused
PROPERTIES
  HandshakeEnds
CHECK_DEADLOCK FALSE
