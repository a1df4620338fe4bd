SPECIFICATION FairSideSpec
CONSTANTS
  Parts = {"authoring", "compile", "fleet"}
  c1 = c1  c2 = c2  s1 = s1  s2 = s2  g1 = g1  g2 = g2  g3 = g3  p1 = p1  p2 = p2  r1 = r1  r2 = r2
  Clients = {c1, c2}
  Services = {s1, s2}
  Groups = {g1, g2, g3}
  Rulesets = {p1, p2}
  RuleIds = {r1, r2}
  Bodies <- MCBodies
  Scenarios <- MCScenarios
  None = None
  Machines = {m1, m2}
  Protocols = {"tcp", "udp"}
  LabelMaps <- MCLabelMaps
  AddressSets <- MCAddresses
  ServiceBodies <- MCServiceBodies
  GroupBodies <- MCGroups
  Drafts <- MCDrafts
  MaxEdits = 3
  w1 = w1  w2 = w2  la = la  lb = lb
  Workloads = {w1, w2}
  Labels = {la, lb}
  Modes = {"visibility", "simulation", "enforced"}
  Fleets <- MCFleets
INVARIANTS ReferencesResolve SettledIsRendered DryRunForetells RetiredIsNotRendered FleetIsRendered
PROPERTIES RuleWriteKeepsOthers RetiredStaysFrozen RetiredStreamEnds
CHECK_DEADLOCK FALSE
