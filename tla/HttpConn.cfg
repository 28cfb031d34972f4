SPECIFICATION Spec
CONSTANTS
  Messages <- MCMessages
  ReadBufSize = 14
  HeadLen = 3
  FileLen = 2
  ApiLen = 3
  MaxMessages = 2
INVARIANTS
  TypeOK
  ParsedAsSent
  RoutedToMostSpecific
  FileWhole
PROPERTIES
  FitsIsAnswered
