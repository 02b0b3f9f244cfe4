SPECIFICATION Spec
CONSTANTS
  Client = {c1, c2}
  Task = {t1, t2}
  Loop = Loop
  None = None
INVARIANTS
  BusyOrNotified
  RegistryExact
  LogoutWhenNeeded
PROPERTIES
  ImplementsSessionService
  RegisteredIsBeaten
  ReleasedIsClosed
  BackToIdle
