CONSTANTS
  j1 = j1
  j2 = j2
  src = src
  Jobs = {j1, j2}
  Shapes <- MCShapes
  Sources = {src}
  MaxTries = 3
SPECIFICATION Spec
CHECK_DEADLOCK FALSE
INVARIANTS
  TypeOK
  FilesAreAccountedFor
  SourceIsKept
  OneSftpSuccess
  SentWhole
