\* The first look at a stick with an application of unknown name, and nobody asks for anything.
SPECIFICATION FairSpec
CONSTANTS
  p1 = p1  p2 = p2  cli = cli  page = page
  Pumps = {p1, p2}
  Clients = {page}
  MayAsk <- Nothing
  MaxAsks <- Once
  Apps = {"current", "old", "blank", "foreign", "unnamed"}
  Settings = {"right"}
  Checks = {"probe"}
  Policy = "auto"
  Networks = {n1}
  None = None
PROPERTIES NeverOverwrittenUnasked
