SPECIFICATION PersistenceSpec
CONSTANTS
  Candidate = {self, a, b}
  Self = self
  MaxTerm = 2
  MayFail = TRUE
  MayLosePower = TRUE
  Node = {n1, n2, n3}
  NoEntry = NoEntry
SYMMETRY Symmetry
CONSTRAINT NoFaultYet
INVARIANTS
  PersistenceTypeOK
  VotesOnceUnlessFault
  TermKeptUnlessFault
  ReadsByIndexIfSound
  AgreementIfSound
CHECK_DEADLOCK FALSE
