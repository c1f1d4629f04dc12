SPECIFICATION Spec
CONSTANTS
  s1 = s1
  s2 = s2
  Servers = {s1, s2}
  NoServer = NoServer
  Inputs <- MCInputs
INVARIANTS TypeOK RunningIsReady StartsAfterAnything ReachedByName PortsAgree
