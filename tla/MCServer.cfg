CONSTANTS
  Tasks = {t1, t2}
  Connector = t1
  NoTask = NoTask
  Timeouts = TRUE
  MaxCmd = 3
  MaxEvents = 1
  phone1 = phone1
  phone2 = phone2
  console = console
  app = app
  own = own
  Sessions = {phone1, phone2, console}
  Ids = {app, own}
  Id <- SharedId
  NoSession = NoSession
  here = here
  there = there
  Secrets = {x1, x2, x3}
  Machines = {here, there}
  Home <- Paired
  NoKey = NoKey
  MaxIds = 4
  WatchIds = {w1, w2}
  Callers = {p1, p2}
  NoTaskYet = NoTaskYet
  MaxWatches = 2
  People = {u1, u2}
  Rate = 1
  Burst = 3
  Cost = 2
  MaxTicks = 4
  MaxServed = 1
  MaxKeys = 2
  MaxSecrets = 3
  MaxMishaps = 2
SPECIFICATION ServerSpec
INVARIANTS
  OrderlyReplies OrderlyHandshake
  NoGhost KeptRegistered
  ServerTypeOK ShownIdRevokes RetiredRefused ShownOpens WatchListed WindowBounded
PROPERTIES NeverResyncs ReadEnds FrameReaches StopReturns
CHECK_DEADLOCK FALSE
