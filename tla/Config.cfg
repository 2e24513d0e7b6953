SPECIFICATION ConfigSpec
CONSTANTS
  Host = {"worker", "api"}
  Node = {n1, n2}
  Server = {s1, s2}
  Stateful = {s1}
  MaxEvents = 3
SYMMETRY Symmetry
CONSTRAINT Bounded
PROPERTIES AgentsGetTheirServers
CHECK_DEADLOCK FALSE
