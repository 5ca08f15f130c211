SPECIFICATION FairSpec
CONSTANTS
  Limits = {0, 1, 2, 3}
  SleepLimit = 7200
  Answers <- AnyAnswer
  Upload = TRUE
INVARIANTS
  TypeOK
  SuccessIsConfirmed
  SurpriseHasCause
PROPERTIES
  ResentOnlyOnRequest
  CallEnds
  ContractSpec
