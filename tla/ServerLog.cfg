SPECIFICATION Spec
CONSTANTS
  Callers = {p1, p2}
  MaxSize = 2
  SplitLines = 2
  MaxLines = 5
  MaxDay = 2
  MaxFailures = 1
INVARIANTS
  TypeOK
  EveryLineOnce
  FileOfTheDay
  FilesStayShort
PROPERTIES
  FifoSpec
  CloseEnds
