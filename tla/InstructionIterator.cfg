\* Codes around every kind of opcode the iterator and the tables tell apart.
SPECIFICATION Spec
CONSTANTS
  Codes <- MCCodes
INVARIANTS
  ListingRebuilds
PROPERTIES
  Terminates
\* The walk ends.
CHECK_DEADLOCK FALSE
