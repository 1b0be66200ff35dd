SPECIFICATION FirstSpec
CONSTANTS
  Object <- Objects
  View <- Views
  DefaultSchema = "s1"
  ConnId = {k1, k2}
  ConnRequest = {x1, x2}
  NoConn = NoConn
INVARIANT OpenRespectsOptions
