\* Answers in text and in frames, relayed by a gateway that may end or fail anywhere.
CONSTANTS
  None = None
  Reasons = {"stop", "tool_calls", "length"}
  Answers <- MCAnswers
SPECIFICATION Spec
\* A request ends.
CHECK_DEADLOCK FALSE
INVARIANTS
  StreamIsFaithful
  AggregateIsFaithful
  DoneFollowsOneFinish
  EndedOnlyIfClean
