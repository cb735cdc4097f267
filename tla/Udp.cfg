\* The three helpers against a router that answers, stays silent, or sends
\* a datagram with a bad magic, invoke id or service, too short a header,
\* a trailing odd byte, a torn item header, an item longer than the bytes
\* after it, or an empty string item.
CONSTANTS
  None = None
  NoStr = NoStr
  Panic = Panic
  NetIds <- MCNetIds
  Strs <- MCStrs
  StatusCodes <- MCStatusCodes
  Defects = {"magic", "invoke", "service", "short", "odd", "torn", "truncated", "empty"}
  MaxCalls = 2
SPECIFICATION Spec
INVARIANT TypeOK
INVARIANT RoundTrip
INVARIANT HelpersReturnRouterData
INVARIANT PanicsOnlyOnMalformedItems
