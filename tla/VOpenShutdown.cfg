\* A thread opens a device while another one stops the library.
SPECIFICATION FairSpec
CONSTANTS
  Clients = {c1, c2}
  MaxInits = 1
  MaxSends = 1
  MaxWait = 1
  Faults = {}
PROPERTIES
  SubmittedIsAnswered
CHECK_DEADLOCK FALSE
