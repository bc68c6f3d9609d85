CONSTANTS
  Run = {r1, r2}
  x = x
  y = y
  IP = {x, y}
  NoIP = NoIP
  Length <- MCLength
  Records <- MCRecords
  RecordType <- MCRecordType
  MaxChange = 2
  MaxFail = 2
SPECIFICATION FairSpec
INVARIANTS UnchangedMeansCurrent
PROPERTIES Settles
