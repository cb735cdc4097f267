\* The peer sends a frame with AMS command 0 shorter than 30 bytes ("runt")
\* or of 30..37 bytes ("short": packet_length 24..31, an underflow).
CONSTANTS
  c1 = c1
  c2 = c2
  Callers <- MCCallers
  NoReply = NoReply
  IdBits = 2
  MaxCalls = 1
  MaxSessions = 2
  MaxNoise = 1
  NoiseKinds = {"runt", "short", "runtNotif"}
  HasTimeout = TRUE
  AnswerKinds = {"ok"}
  DataOut = {FALSE, TRUE}
SPECIFICATION Spec
INVARIANT ReaderAlive
