SPECIFICATION ClientsSpec
CONSTANTS
  anImage = anImage
  aVideo = aVideo
  pictured = pictured
  filmed = filmed
  ScanColls = {c1, c2}
  Images = {anImage}
  Videos = {aVideo}
  Counterpart <- OneCounterpart
  Content <- TwoContents
  Banner = banner
  Known = {}
  ImageLimit = 0
  FeedLimit = 1
  MaxEvents = 2
  Uploaders = {u1, u2}
  Refs = {r1, r2}
  MaxChunks = 3
  NoRef = NoRef
  Readers = {k1, k2}
  BlobRefs <- ThreeBlobs
  BlobSize = 2
  LastSize = 1
  CacheSize = 2
  Names = {n1, n2}
  Contents = {t1, t2}
  Nothing = Nothing
  Lookers = {l1}
  MaxVersions = 2
CHECK_DEADLOCK FALSE
INVARIANTS
  ClientsTypeOK
  CommitsOnlyUploaded
  AnswersExact
  NoDoubleDownload
  NoChangeMissed
PROPERTIES
  PushEnds
  CatchesUp
  ScannedWorkIsCommitted
