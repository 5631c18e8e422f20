CONSTANTS
  Callers = {c1, c2}
  Paths = {p1, p2}
  Texts = {t1}
  Files = {f1, f2, f3}
  NoFile = NoFile
  Hole = Hole
  Blocks = 2
  AllowedExtensions <- MCExtensions
  AllowedMimeTypes <- MCMimes
  AllowedTypes <- MCNone
  MaxFileSize = 2
  MinFileSize = 0
  MaxFileNameLength = 6
  Incoming <- MCIncoming
SPECIFICATION UploadSpec
INVARIANTS
  SuccessIsWhole
  MoveLosesNothing
  AllowedIsNotRefused
PROPERTIES
  ReadersSeeWhole
  KeepsUploads
SYMMETRY Symmetry
CHECK_DEADLOCK FALSE
