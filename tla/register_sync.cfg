SPECIFICATION FairSpec
CONSTANTS
  MaxVersion = 2
  Keys <- MCKeys
  Holds <- MCHolds
  Cron = cron
  Manual = {manual}
  MaxFaults = 2
  Null = Null
INVARIANTS
  TypeOK
  SuccessIsComplete
PROPERTIES
  AnswersFresh
  EventuallyCurrent
