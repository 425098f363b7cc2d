SPECIFICATION Spec
CONSTANTS
  Addresses = {1, 2, 3, 4}
  MaxSignatures = 4
INVARIANTS
  AcceptsExactlyTheQuorums
  OrderedSignaturesAccepted
  QuorumsOverlap
CHECK_DEADLOCK FALSE
