\* The same connections: a key that was stored is lost, although every
\* connection passed.
SPECIFICATION HostKeySpec
CONSTANTS
  c1 = c1 c2 = c2 c3 = c3 a = a b = b k1 = k1 k2 = k2
  NoConn = NoConn
  Conns <- MCThreeConns
  Abortable <- MCTerminals
  Endpoints <- MCEndpoints
  EndpointOf <- MCTwoEndpoints
  BareOf <- MCBareOf
  Keys <- MCKeys
  KeyOf <- MCRekeyed
  InitialHosts <- MCOldHosts
INVARIANTS StoredKeysStay
CHECK_DEADLOCK FALSE
