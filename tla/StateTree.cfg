SPECIFICATION Spec
CONSTANTS
  i1 = i1
  i2 = i2
  text = text
  long = long
  rounded = rounded
  huge = huge
  Null = Null
  Contents = {i1, i2}
  Values = {text, long, rounded, huge, Null}
  Decoded <- MCDecoded
  OutOfRange = OutOfRange
  Blank = text
  Trees <- MCTrees
  MaxMedia = 3
  None = None
INVARIANT URLsServed
PROPERTIES
  SavedAsSent
  RefusalStopsThere
