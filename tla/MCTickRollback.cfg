\* A world that ticks, is rolled back and replayed, and is scrubbed and goes on from
\* a scrub by replaying.
SPECIFICATION Spec
CONSTANTS
  MaxId = 2
  MaxHandle = 3
  Kind = {pellet, ragdoll}
  MaxTick = 3
  Window = 2
  Scrub = TRUE
  ResumeScrubbed = FALSE
  SpawnBetween = FALSE
  Nothing = Nothing
  Gone = Gone
  NotCaptured = NotCaptured
SYMMETRY KindSymmetry
INVARIANTS
  LifetimesMatchHistory
  NoIdMintedTwice
  DressedForWhatItIs
PROPERTIES
  RewindIsExact
  ReapedIsUnreachable
CHECK_DEADLOCK FALSE
