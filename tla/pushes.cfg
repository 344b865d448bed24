SPECIFICATION WorkdirsSpec
CONSTANTS
  None = None
  NoParentID = NoParentID
  Colls = {c1}
  Paths = {p, q}
  Contents = {a, b}
  Blobs = {blob}
  BlobRefs <- EveryBlob
  ThumbOf <- NoThumbs
  Keks = {k1}
  ChangesetIDs = {h1, h2, h3}
  Workdir = {w1}
  UnknownRevision = UnknownRevision
SYMMETRY Symmetry
INVARIANTS
  RemovesOnlyCopies
PROPERTIES
  PushIsExact
