SPECIFICATION Spec
CONSTANTS
  ctl = ctl
  api = api
  Server <- MCServer
  Flows <- MCFlows
  Names <- MCNames
  Backends <- MCBackends
  Agents <- MCAgents
  Custom <- MCCustom
  Binding <- MCBinding
  Asked <- MCAsked
  None = none
  MaxClock = 2
  MaxCuts = 1
  MaxEdits = 2
INVARIANTS BindingsExist SeedsArrive
PROPERTIES RowsStay
CHECK_DEADLOCK FALSE
