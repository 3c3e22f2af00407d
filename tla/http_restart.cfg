\* The service can be restarted; nothing else goes wrong.
SPECIFICATION Spec
CONSTANTS
  f1 = f1
  f2 = f2
  f3 = f3
  s1 = s1
  s2 = s2
  a = a
  b = b
  Forms = {f1, f2}
  Sessions = {s1}
  Scopes = {a, b}
  SessionOf <- OneSession
  ScopeOf <- OneScope
  Clients = {}
  ClientScope <- TheClients
  Slots = 2
  SessionSlots = 1
  VersionMax = 3
  MayLose = FALSE
  MayStop = TRUE
INVARIANTS PlainPostsRemainAvailable
\* Forms, sessions and versions run out: the behaviours end.
CHECK_DEADLOCK FALSE
