SPECIFICATION Spec
CONSTANTS
  None = None
  NoParentID = NoParentID
  a = a
  p = p
  t = t
  shared = shared
  own = own
  Colls = {c1, c2}
  Paths = {p, t}
  Contents = {a}
  Blobs = {shared, own}
  BlobRefs <- Sharing
  ThumbOf <- Thumbs
  Keks = {k1, k2}
  ChangesetIDs = {h1, h2, h3, h4}
SYMMETRY Symmetry
INVARIANTS
  TypeOK
  HistoryIsChain
  KeysFollowBlobs
PROPERTIES
  IsVersioned
