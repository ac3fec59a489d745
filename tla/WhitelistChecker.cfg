\* Two reloads at once and three edits of every kind.
CONSTANTS
  Reloaders = {r1, r2}
  MaxEdits = 3
SPECIFICATION FairSpec
INVARIANTS
  TypeOK
  OnlyGoodRules
  ConsistentWithoutOverlap
  CurrentWithoutRace
  
PROPERTY GoodEditIsPickedUp
