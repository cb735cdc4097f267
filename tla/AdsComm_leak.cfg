\* A failed socket write leaves its reply_map entry behind.
CONSTANTS
  c1 = c1
  c2 = c2
  Callers <- MCCallers
  NoReply = NoReply
  IdBits = 2
  MaxCalls = 1
  MaxSessions = 2
  MaxNoise = 0
  NoiseKinds = {"router"}
  HasTimeout = TRUE
  AnswerKinds = {"ok"}
  DataOut = {FALSE, TRUE}
SPECIFICATION Spec
INVARIANT RegistryNoLeak
