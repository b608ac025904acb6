\* Requests: a client that flashes and one that flashes, saves and restores; safety.
SPECIFICATION Spec
CONSTANTS
  p1 = p1  p2 = p2  cli = cli  page = page
  Pumps = {p1, p2}
  Clients = {cli, page}
  MayAsk <- FlashAndSettings
  MaxAsks <- FlashTwice
  Apps = {"current", "old", "blank", "foreign"}
  Settings = {"right"}
  Checks = {"probe"}
  Policy = "upgrade"
  Networks = {n1}
  None = None
INVARIANTS PortExclusive FlashWasAsked AnswerIsOwn
PROPERTIES ForeignSpared
