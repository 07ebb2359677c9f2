SPECIFICATION MCSpec
CONSTANTS
  Backoffs <- MCBackoffs
  MaxLimited = 5
  Budget = 6
  Waits = {0, 1, 2, 7}
  Tasks = {"t1", "t2", "t3"}
  Gap = 4
  MaxPost = 6
  Hops <- MCHops
  Channels = {"c1", "c2"}
  Titles = {"A", "B"}
  Photos = {"p"}
  NoPhoto = "no photo"
  NoIdentity = NoIdentity
  MaxRenames = 2
  MaxMishaps = 2
  Batches <- MCBatches
  Lengths = {0, 3, 4, 5, 9, 13}
  MarkLength = 1
  NoteLength = 2
  DescLimit = 4
  MaxEmbeds = 3
INVARIANT PostIsBounded
INVARIANT PatchIsBrief
INVARIANT IdIsOfTheLast
PROPERTY KeepsPostPromise
INVARIANT OneAMinute
PROPERTY MCDropsAreHeard
INVARIANT HashTellsShown
INVARIANT FirstRouteNames
INVARIANT RestartsAreQuiet
INVARIANT FilesStay
INVARIANT GalleryInOrder
CHECK_DEADLOCK FALSE
