\* Every size up to four chunks and one, between ends that do what they are asked or less.
CONSTANTS
  MaxSize = 13
  Chunk = 3
  Drivers = {"library", "program"}
  Ends = {{}, {"read"}, {"write"}, {"read", "write"}}
SPECIFICATION CopySpec
INVARIANTS CopyTypeOK WholeComplete NoHoles
PROPERTIES Terminates
CHECK_DEADLOCK FALSE
