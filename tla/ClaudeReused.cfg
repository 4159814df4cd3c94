SPECIFICATION SessionSpec
CONSTANTS
  Models = {o1, o2}
  Ports = {v1}
  LeasedPort = v1
  Changes = 1
  NotGiven = NotGiven
  Missing = Missing
PROPERTY ReusedAsAsked
CHECK_DEADLOCK FALSE
