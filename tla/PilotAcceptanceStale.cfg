SPECIFICATION Spec
CONSTANTS
  Requests = {r1, r2}
  Criteria = {k1}
  MaxRecords = 1
  CreatedCriteria <- SomeCriteria
  Claims <- SomeClaims
PROPERTY CertifiedWhileClean
