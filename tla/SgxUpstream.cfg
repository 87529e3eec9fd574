\* One request inside the enclave, from its preparation to its answer.
SPECIFICATION SgxSpec
CONSTANTS
  None = None
  Reasons = {"stop", "tool_calls", "length"}
  report = report
  Answers <- MCAnswers
  MaxTime = 2
  Reports = {report}
  Policies <- MCPolicies
  Offers <- MCOffers
  Absent = Absent
  Torn = Torn
  Me = Me
  Nobody = Nobody
\* A request ends.
CHECK_DEADLOCK FALSE
INVARIANTS
  WholeWhenChunked
PROPERTIES
  ImplementsDispatcher
  ImplementsBridge
