SPECIFICATION Spec
CONSTANTS
  Codes = {k1}
  NoCode = NoCode
  Users = {u1, u2}
  Nobody = Nobody
  Polls = {p1, p2}
  MaxRows = 2
  TTL = 3
  Margin = 2
  MaxFaults = 2
INVARIANTS PairingTypeOK OwnerIsApprover OneWrapperPerCode TokenOutlivesOutage
PROPERTIES RevokedRunsOut PairEnds BackOnline
