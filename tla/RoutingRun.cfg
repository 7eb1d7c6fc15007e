SPECIFICATION FairRoutingSpec
CONSTANTS
  t1 = t1  t2 = t2  t3 = t3  t4 = t4  t5 = t5
  Tracks <- MCTracks
  Unlisted = {t5}
  Undecodable = {t3}
  Duration <- MCDuration
  Probability <- MCProbability
  Window = 8
  FullDecodeMax = 40
  DecodeWorkers = 2
  BatchSize = 2
  StageBBatchSize = 2
  StageA <- MCStageA
  StageB <- MCStageB
  MaxGpuFailures = 1
  Inventory <- MCInventory
  BufferSize = 3
  MaxKills = 1
  MaxEdits = 1
  Frames <- MCFrames
  Broken = {}
  VocalScore <- MCVocal
  SongThreshold = 55
  InstrumentalThreshold = 20
  Workers = 2
  Prefetched = 2
  FrameBatch = 2
  BufferedFrames = 4
  MaxOrtFailures = 1
  MaxCrashes = 1
  MaxFaults = 2
INVARIANTS VerdictIsOwn DecodedOnce
PROPERTIES EndsComplete RoutesAreCurrent RunsReturn
