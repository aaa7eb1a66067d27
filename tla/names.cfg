SPECIFICATION FairSpec
CONSTANTS
  Domains <- MCDomains
  Hosts <- MCHosts
  Slash <- MCSlash
  Kinds <- MCKinds
  MaxEdits = 2
INVARIANT TypeOK
PROPERTIES LongestDomainGoes MostSpecificAnswers AnswerWasThere LookupEnds
CHECK_DEADLOCK FALSE
