\* One request of any kind, the checks of the loop, two networks.
SPECIFICATION FairSpec
CONSTANTS
  p1 = p1  p2 = p2  cli = cli  page = page
  Pumps = {p1, p2}
  Clients = {page}
  MayAsk <- AnyOne
  MaxAsks <- Once
  Checks = {"reach", "identity", "ble", "status"}
  Apps = {"current", "blank"}
  Settings = {"right", "other"}
  Policy = "never"
  Networks = {n1, n2}
  None = None
INVARIANTS RebootIsLastResort LatchedSettingStands
PROPERTIES PumpComesBack NetworkNoticed EveryAskSettles
