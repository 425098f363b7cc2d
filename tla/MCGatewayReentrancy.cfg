SPECIFICATION Spec
CONSTANTS
  Chains = {A, B}
  Apps = {app}
  Targets = {k}
  Contracts = {k}
  Payloads = {p}
  Addresses = {1}
  Faulty = {}
  Managers = {vm}
  InitialValidators = {1}
  MaxNonce = 1
  MaxDepth = 2
INVARIANTS
  TypeOK
  AtMostOnce
  SpentExactlyWhenReported
PROPERTY ImplementsMessageBridge
SYMMETRY Symmetry
