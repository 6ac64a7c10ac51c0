SPECIFICATION Live
CONSTANTS
  ann = ann
  room = room
  pr = pr
  People <- MCPeople
  Spaces <- MCSpaces
  Targets <- MCTargets
  Kinds = {"once", "watch", "digest", "subscription"}
  After = 2
  Every = 1
  Until = 2
  Expiry = 2
  MaxPerSubject = 2
  MaxSubscriptions = 1
  MaxWakes = 2
INVARIANTS TypeOK AtMostOnce NotForgotten CancelHonoured IdsNameOneWake
PROPERTY CoveredWakeStarts
