\* Two feeds, look-ups and ticks that fail, caches that expire, restarts.
SPECIFICATION Spec
CONSTANTS
  a = a
  b = b
  c = c
  A = A
  B = B
  Release <- Releases
  Library <- Libraries
  LibOf <- LibraryOf
  Deps <- SomeDeps
  Feeds <- TwoFeeds
  MinReleaseID = 4
  MaxTicks = 2
CHECK_DEADLOCK FALSE
INVARIANTS
  NamesHaveOneVertex
  IInv
