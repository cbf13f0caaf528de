SPECIFICATION Spec
CONSTANTS
  None = None
  g1 = g1  g2 = g2  c1 = c1  c2 = c2  a1 = a1  a2 = a2  p1 = p1  p2 = p2
  Agent = {g1}
  Conn = {c1, c2}
  Ask = {a1, a2}
  RequestId = {"req"}
  Project = {p1}
  AgentOfConn <- OneAgentOfConn
  AgentOf <- OneAgentOf
  IdOf <- OneId
  ProjectOf <- OneProjectOf
  ReplyKind = {"answer", "invalid"}
  SendBuffer = 1
  MaxRestarts = 1
INVARIANTS TypeOK AtMostOneRun 
PROPERTIES TerminalIsFinal 
CHECK_DEADLOCK FALSE
