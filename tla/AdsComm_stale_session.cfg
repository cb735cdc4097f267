\* The reader reads the session id after taking its socket.
CONSTANTS
  c1 = c1
  c2 = c2
  Callers <- MCCallers
  NoReply = NoReply
  IdBits = 2
  MaxCalls = 1
  MaxSessions = 3
  MaxNoise = 0
  NoiseKinds = {"router"}
  HasTimeout = TRUE
  AnswerKinds = {"ok"}
  DataOut = {FALSE, TRUE}
SPECIFICATION Spec
PROPERTY ReaderRotatesOwnSession
