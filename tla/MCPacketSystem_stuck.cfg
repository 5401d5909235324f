\* two packets that may carry the same number
CONSTANTS
  p1 = p1
  c1 = c1
  p2 = p2
  c2 = c2
  o1 = o1
  e1 = e1  k1 = k1
  e2 = e2  k2 = k2
  e3 = e3  k3 = k3
  e4 = e4  k4 = k4
  Producers = {p1}
  Consumers = {c1}
  Observers = {}
  Threads = {p1, c1}
  Elements = {e1, e2}
  Packets = {k1, k2}
  queue_head = queue_head
  empty_packet = empty_packet
  NULL = NULL
  Nums = {1, 2}
  Garbage = {1}
  QMAX = 2
  MAX_PACKETS = 2
SPECIFICATION StrongSpec
PROPERTIES
  ProducersTerminate
CHECK_DEADLOCK FALSE
