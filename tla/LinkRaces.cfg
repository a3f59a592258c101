SPECIFICATION FairSpec
CONSTANTS
  u1 = u1
  u2 = u2
  a = a
  b = b
  alice = alice
  bob = bob
  Users = {u1, u2}
  Chats = {a, b}
  Names = {alice, bob}
  NoName = NoName
  NoChat = NoChat
  NoUser = NoUser
  NameOf <- Named
  Handlers = {h1, h2}
  MaxCodes = 2
  MaxCommands = 3
  MaxFaults = 1
INVARIANTS
  VerifiedByOwnCode
PROPERTIES
  CodeWorks
CHECK_DEADLOCK FALSE
