\* One reload is enough to miss an edit for good.
CONSTANTS
  Reloaders = {r1}
  MaxEdits = 2
SPECIFICATION FairSpec
PROPERTY SavedIsReloaded
