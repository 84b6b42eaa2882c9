SPECIFICATION KeySpec
CONSTANTS
  Pid = {p1, p2}
  Payload = {m1, m2}
  MSG_QUEUE_SIZE = 2
  NoMsg = NoMsg
  Reader = p1
  Keys <- KeyTable
  scancode_map <- Plain
  scancode_map_shifted <- Shifted
  KEYBOARD_RING_BUFFER_SIZE = 3
  MaxWire = 2
  Budgets <- Cases
INVARIANTS
  KeysRight
PROPERTIES
  ImplementsQueues
CHECK_DEADLOCK FALSE
