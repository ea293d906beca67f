\* Two threads, two messages each of up to two lines, the switch thrown once.
SPECIFICATION Spec
CONSTANTS
  Thread = {program, driver}
  NoThread = nobody
  MaxMessages = 2
  MaxLines = 2
  MaxToggles = 1
  Prefix = Prefix
  Newline = Newline
  Nul = Nul
  Junk = Junk
INVARIANTS TypeOK MessagesAreWhole LostOnlyWhileDisabled
PROPERTY LoggingEnds
\* The threads end after their last message.  LoggingEnds finds a thread that is stuck.
CHECK_DEADLOCK FALSE
