SPECIFICATION Spec
CONSTANTS
  u1 = u1
  u2 = u2
  a = a
  b = b
  alice = alice
  bob = bob
  Users = {u1}
  Chats = {a, b}
  Names = {alice, bob}
  NoName = NoName
  NoChat = NoChat
  NoUser = NoUser
  NameOf <- Named
  Handlers = {h1}
  MaxCodes = 1
  MaxCommands = 1
  MaxFaults = 0
INVARIANTS
  NullUntilVerified
CHECK_DEADLOCK FALSE
