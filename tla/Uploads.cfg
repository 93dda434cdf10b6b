CONSTANTS
  Uploads = {u1, u2}
  Senders = {s1, s2}
  Spellings = {"file", "File"}
  Odd = u2
  Askings <- SpellingsAsked
  FoldingFS = FALSE
  MaxSuffix = 2
  MaxAttachments = 2
  MaxTouches = 1
SPECIFICATION Spec
SYMMETRY Requests
CHECK_DEADLOCK FALSE
INVARIANTS
  RowsAndFilesAgree
  NamesAreDistinct
  SentInOneMessage
  CancelHolds
  DownloadIsTheUpload
