\* Capacity 3: the indices wrap, bursts are cut at the end of the array and at
\* the limit, and three waiting values can be told apart.
CONSTANTS
  Size = 5
  Values = {v1, v2}
  Lengths = {2, 3}
  NoValue = NoValue
SPECIFICATION FairSpec
INVARIANT RingSafe
PROPERTIES ImplementsFifo OldestTaken
