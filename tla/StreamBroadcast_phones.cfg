CONSTANTS
  phone1 = phone1
  phone2 = phone2
  console = console
  app = app
  own = own
  Sessions = {phone1, phone2, console}
  Ids = {app, own}
  Id <- SharedId
  NoSession = NoSession
SPECIFICATION StreamSpec
INVARIANTS ConnectedRegistered
CHECK_DEADLOCK FALSE
