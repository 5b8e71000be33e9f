SPECIFICATION FairSpec
CONSTANTS
  N = 6
  Repeatable <- MCRepeatable
  Instances = {i1, i2, i3, i4}
  Migrating = {i1, i2, i3}
  MaxCrashes = 2
INVARIANTS
  EffectsAreRecorded
  ServesWholeSchema
PROPERTIES
  ImplementsUpgrade
  AllServe
\* The system rests when all instances serve and the crashes are used up.
CHECK_DEADLOCK FALSE
