SPECIFICATION Spec
CONSTANTS
  Publishers = {p1, p2}
  RequireModeration = TRUE
  Moderations = {"approve", "suspend", "unsuspend", "deregister", "withdraw", "resubmit"}
  MaxSubmissions = 3
  MaxVersion = 2
  MaxFaults = 1
  NoListing = NoListing
SYMMETRY Sym
INVARIANT TypeOK ReleasesAgree
PROPERTY ImplementsCatalog ReleasesMoveForward TakedownsHold RevocationsStick
CHECK_DEADLOCK FALSE
