SPECIFICATION Spec
CONSTANTS
  Owner = owner
  Agents = {a1}
  Holders = {a1, a2}
  Groups = {g1}
  Grants <- MCGrants
  MaxEdges = 3
  Countersigned = TRUE
  MaxRounds = 1
  MaxSessions = 1
  MaxContracts = 2
  AnchorInterval = 2
  Calls = {c1, c2}
  MaxOperations = 6
  MaxFaults = 1
  None = None
INVARIANT TypeOK RevokedIsFinal RevocationReachesDelegates EndedContractsStayEnded StoredContractsLogged GapsAreLosses AnchorsMatch AnsweredIsRecorded ReceiptFollowsItsRecord
PROPERTY RefusalsHold AdmittedOnLiveGrants
CHECK_DEADLOCK FALSE
SYMMETRY Sym
