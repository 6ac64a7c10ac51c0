SPECIFICATION Spec
CONSTANTS
  Keys = {1, 2}
  Sessions = {s1, s2}
  Banishers = {b1}
  MaxTickets = 1
  Lapse = 1
  MaxTime = 1
  MaxSeq = 3
  MaxFaults = 1
  MaxCrashes = 1
  None = None
  Torn = Torn
SYMMETRY Symmetry
INVARIANTS TypeOK BanishKept DiskAgrees InviteKept
