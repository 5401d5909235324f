\* one packet: does the observer get to print Ende?
CONSTANTS
  p1 = p1
  c1 = c1
  o1 = o1
  p2 = p2
  c2 = c2
  e1 = e1  k1 = k1
  e2 = e2  k2 = k2
  e3 = e3  k3 = k3
  e4 = e4  k4 = k4
  Producers = {p1}
  Consumers = {c1}
  Observers = {o1}
  Threads = {p1, c1, o1}
  Elements = {e1}
  Packets = {k1}
  queue_head = queue_head
  empty_packet = empty_packet
  NULL = NULL
  Nums = {1}
  Garbage = {1}
  QMAX = 1
  MAX_PACKETS = 1
SPECIFICATION StrongSpec
PROPERTIES
  AllConsumedLeadsToEnde
CHECK_DEADLOCK FALSE
