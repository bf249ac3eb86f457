SPECIFICATION FairSpec
CONSTANTS
  Element = {a, b, c}
  Queue = {q, r}
  Null = Null
INVARIANTS Represents
PROPERTIES ImplementsSequenceQueue RemoveEnds
