SPECIFICATION Spec
CONSTANTS
  a = a
  b = b
  e = e
  s = s
  r = r
  A = A
  B = B
  S = S
  Threads = {a, b, s, r}
  Processes = {A, B, S}
  Servers = {S}
  ProcOf <- TwoReceivers
  BootOrder <- TwoReceiversOrder
  Channels = {ch}
  Connects = {k1, k2}
  NULL = NULL
  Garbage = Garbage
  Wild = Wild
  Ids = {0, 1}
  Rules = {"own_connect", "one_channel", "valid_ids", "quiet_free", "data_first"}
INVARIANTS SlotHandedAround ReplyTableExact MessageLeadsBack NoWaitWithoutToken NoFault
PROPERTIES SenderGetsOwnReply
