SPECIFICATION Spec
CONSTANTS
  Stream <- MCStream
  AllowFrom = {1}
  Chats = {1, 2}
  Codes = {2}
  Args = {2}
  NoChat = 0
  Cap = 1
  MaxFail = 1
  MaxGens = 3
  MaxTrouble = 2
INVARIANTS
  NoSilentLoss
  AtMostOnce
  Gated
  NoWedge
CHECK_DEADLOCK FALSE
