\* Three addresses, any of them destructed before or between transactions.
SPECIFICATION Spec
CONSTANTS
  Addr <- MCAddr
  contract = contract
  wallet = wallet
  coinbase = coinbase
INVARIANTS
  TypeOK
  NeverNil
  DirtiesAccurate
PROPERTIES
  ImplementsWorld
