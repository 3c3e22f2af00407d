\* Three forms, two desktop processes, lost answers, restarts and crashes.
SPECIFICATION Spec
CONSTANTS
  f1 = f1
  f2 = f2
  f3 = f3
  s1 = s1
  s2 = s2
  a = a
  b = b
  Forms = {f1, f2, f3}
  Sessions = {s1, s2}
  Scopes = {a, b}
  SessionOf <- TwoSessions
  ScopeOf <- TwoScopes
  Clients = {c1, c2}
  ClientScope <- TheClients
  Slots = 2
  SessionSlots = 2
  VersionMax = 3
  MayLose = TRUE
  MayStop = TRUE
INVARIANTS TypeOK ChangesHappenOnce PlainPostsAvailableIfCalm
\* Forms, sessions and versions run out: the behaviours end.
CHECK_DEADLOCK FALSE
