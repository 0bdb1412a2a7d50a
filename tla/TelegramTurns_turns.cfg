SPECIFICATION LiveSpec
CONSTANTS
  c1 = c1
  c2 = c2
  u1 = u1
  u2 = u2
  q1 = q1
  Chats = {c1, c2}
  Updates = {u1, u2, q1}
  ViaApi = {q1}
  ChatOf <- MCChatOf
  Worlds <- AllWorlds
  MaxTurns = 1
  MaxSends = 2
  MaxDrain = 1
  MaxDeliveries = 2
 
PROPERTIES OverflowNeedsFullHouse UpdateAnswered
CHECK_DEADLOCK FALSE
