\* Two overlapping reloads leave rules and config of different contents.
CONSTANTS
  Reloaders = {r1, r2}
  MaxEdits = 2
SPECIFICATION Spec
INVARIANT Consistent
