SPECIFICATION Spec
CONSTANTS
  a = a
  b = b
  e = e
  s = s
  r = r
  A = A
  B = B
  S = S
  Threads = {a, b, e, s}
  Processes = {A, S}
  Servers = {S}
  ProcOf <- OneClient
  BootOrder <- OneClientOrder
  Channels = {ch}
  Connects = {k1}
  NULL = NULL
  Garbage = Garbage
  Wild = Wild
  Ids = {0, 1}
  Rules = {"one_channel", "valid_ids", "quiet_free", "data_first"}
INVARIANT NoWaitWithoutToken
