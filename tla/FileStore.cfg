SPECIFICATION FSpec
CONSTANTS
  server = server
  cli = cli
  Absent = Absent
  Processes <- MCProcesses
  MaxSaves = 2
  MaxLosses = 1
INVARIANTS
  NeverTorn
  ResultIsTruthful
PROPERTIES
  NeverVanishes
