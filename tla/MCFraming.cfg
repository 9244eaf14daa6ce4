SPECIFICATION Spec
CONSTANTS
  Base = 2
  Width = 3
  Buffer = 2
  MaxBody = 4
  Messages <- MCMessages
INVARIANT TypeOK
PROPERTY Channels
\* The peer may have closed, or the receiver refused a message.
CHECK_DEADLOCK FALSE
