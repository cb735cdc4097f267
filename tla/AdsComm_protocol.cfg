\* Two callers sharing one client, two calls each: reply correlation over a
\* two-bit invoke id, registry cleanup under timeouts, a late reply arriving
\* while the caller's next call waits, peer closes and reconnects,
\* notifications and bad frames the reader skips, a frame whose length
\* arithmetic underflows; communicate implements the safety part of
\* RequestReply.  Safety only, so callers are a symmetry set.
CONSTANTS
  c1 = c1
  c2 = c2
  Callers <- MCCallers
  NoReply = NoReply
  IdBits = 2
  MaxCalls = 2
  MaxSessions = 2
  MaxNoise = 1
  NoiseKinds = {"badNotif", "notif", "short"}
  HasTimeout = TRUE
  AnswerKinds = {"ok"}
  DataOut = {TRUE}
SYMMETRY CallerSymmetry
SPECIFICATION Spec
INVARIANT TypeOK
INVARIANT RegistryHoldsLiveCells
PROPERTY ImplementsRequestReply
