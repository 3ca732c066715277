SPECIFICATION Spec
CONSTANTS
  a = a
  b = b
  e = e
  s = s
  r = r
  A = A
  B = B
  S = S
  Threads = {a, b, s}
  Processes = {A, B, S}
  Servers = {S}
  ProcOf <- TwoClients
  BootOrder <- TwoClientsOrder
  Channels = {ch}
  Connects = {k1, k2}
  NULL = NULL
  Garbage = Garbage
  Wild = Wild
  Ids = {0, 1}
  Rules = {"own_connect", "one_channel", "valid_ids", "quiet_free", "data_first", "reply_first", "server_stays"}
PROPERTIES SendCompletes
