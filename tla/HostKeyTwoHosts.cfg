\* Two connections to one endpoint and one to another, whose keys have both
\* changed: their rewrites of the file may overlap.  Safety, and every
\* verification ends.
SPECIFICATION HostKeyFairSpec
CONSTANTS
  c1 = c1 c2 = c2 c3 = c3 a = a b = b k1 = k1 k2 = k2
  NoConn = NoConn
  Conns <- MCThreeConns
  Abortable <- MCTerminals
  Endpoints <- MCEndpoints
  EndpointOf <- MCTwoEndpoints
  BareOf <- MCBareOf
  Keys <- MCKeys
  KeyOf <- MCRekeyed
  InitialHosts <- MCOldHosts
CHECK_DEADLOCK FALSE
INVARIANTS PassedIsTrusted QuestionsAreDue KnownHostsHold
PROPERTY VerificationEnds
