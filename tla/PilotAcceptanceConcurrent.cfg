SPECIFICATION BoundedSpec
CONSTANTS
  Requests = {r1, r2}
  Criteria = {k1, k2}
  MaxRecords = 2
  CreatedCriteria <- SomeCriteria
  Claims <- SomeClaims
SYMMETRY AcceptanceSymmetry
INVARIANT TypeOK
INVARIANT GatesHold
INVARIANT ActiveIsLatest
INVARIANT StatusesBacked
PROPERTY SignedEvidenceFixed
PROPERTY ClosedStays
