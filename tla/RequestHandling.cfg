CONSTANTS
  WordSize <- MCWordSize
  Lowercase <- MCLowercase
  AddressBits = 2
  IpOf <- MCIpOf
  LengthOf <- MCLengthOf
  Scenarios <- MCScenarios
  FileChunks = 2
SPECIFICATION Spec
INVARIANTS
  TypeOK FramesCut RequestsAsSent BadRequests PathsResolved RulesOfTheDirectory
  VerdictsAsWritten DeniedStaysDenied EndsJustified ServesOneVersion
PROPERTIES EventuallyAnswered

