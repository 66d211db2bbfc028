SPECIFICATION RegistrySpec
CONSTANTS
  Calls = {c1, c2, c3, c4}
  Ids = {j1, j2}
  Queued = {q1, q2}
  Started = {s}
  Cancelled = {x}
  Payloads = {a, b}
  Maximum = 2
  None = None
SYMMETRY Symmetry
INVARIANTS
  OneWorkPerKey
  OneJobPerKey
CHECK_DEADLOCK FALSE
