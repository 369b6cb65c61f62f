CONSTANTS
  Count = 4
  Files <- SmallFiles
SPECIFICATION Spec
INVARIANTS
  ReadTypeOK
  AcceptsMachines
  ReadsWhatIsWritten
\* The function returns or throws and nothing more happens.
CHECK_DEADLOCK FALSE
