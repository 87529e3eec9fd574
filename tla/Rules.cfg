\* Three windows out of ten with two milliseconds to the second, three variables
\* away from four working environments, two chips, builds and TCB levels, and
\* the days from 1970 to past the leap year that 2100 is not; two parts of an
\* answer exchanged, every kind of peer, prompts at the bounds of a quota, one part
\* of a usage report changed, a buffer that the largest body needs all of, and
\* texts of up to three bytes in chunks.
\* Every walk ends with its bound.
CHECK_DEADLOCK FALSE
SPECIFICATION RulesSpec
CONSTANTS
  None = None
  Nil = Nil
  Bad = Bad
  Unset = Unset
  NoHeader = NoHeader
  Refused = Refused
  Second = 2
  SoftRetry = 180
  MaxTime = 8
  MaxChanges = 3
  LastYear = 2104
  MaxBody = 4
  HeadSlack = 2
  MinBuffer = 3
INVARIANTS
  RefusedWhileHard
  ProdServesOneWay
  OpensExactlyItsOwn
  CalendarsAgree
  AnswerIsWholeAndFresh
  KeyOnlyToListedPeer
  CountsAreTheEngines
  MessagesAreWhole
PROPERTIES
  RefusalsPersist
