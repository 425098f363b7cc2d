SPECIFICATION Spec
CONSTANTS
  Chains = {A}
  Apps = {app}
  Targets = {k, eoa}
  Contracts = {k}
  Payloads = {p}
  Addresses = {1, 2, 3}
  Faulty = {1, 2}
  Managers = {vm1, vm2}
  InitialValidators = {1, 2, 3}
  MaxNonce = 2
  MaxDepth = 2
INVARIANTS
  CallsAreRelayed
  EventTellsOutcome
  AuditIsExact
  EveryRelayIsListed
SYMMETRY Symmetry
