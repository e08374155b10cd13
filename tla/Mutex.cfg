SPECIFICATION FairSpec
CONSTANT Owners = {1, 2, 3}
INVARIANTS
  AnswersSound
PROPERTIES
  RefinesLock
  UnlockTakesEffect
