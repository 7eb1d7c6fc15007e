SPECIFICATION BatchesSpec
CONSTANTS
  r1 = r1  r2 = r2  r3 = r3  r4 = r4  r5 = r5
  Requests <- MCRequests
  Batches <- MCBatches
  Unacceptable = {r5}
  Undecodable = {r4}
  Frames <- MCFrames
  Prefetched = 3
  BufferedFrames = 3
  Workers = 3
  Retries = 2
  MaxCallFaults = 2
INVARIANTS AnswersAreOwn
PROPERTIES BatchesReturn
