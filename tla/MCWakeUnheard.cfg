SPECIFICATION Live
CONSTANTS
  ann = ann
  room = room
  pr = pr
  People <- MCPeople
  Spaces <- MCSpaces
  Targets <- MCTargets
  Kinds = {"once"}
  After = 2
  Every = 1
  Until = 2
  Expiry = 2
  MaxPerSubject = 2
  MaxSubscriptions = 1
  MaxWakes = 1

PROPERTY ScheduledWakeStarts
