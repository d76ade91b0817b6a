SPECIFICATION RSpec
CONSTANTS
  Callers = {c1}
  RemoteCalls = 2
  RemoteForgets = 1
  RemoteTroubles = 2
PROPERTIES
  RForgetRebuilds
\* Requests are made a bounded number of times.
CHECK_DEADLOCK FALSE
