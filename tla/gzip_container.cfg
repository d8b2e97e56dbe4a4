SPECIFICATION Spec
CONSTANTS
  Lengths = {0, 3, 258}
  Payloads = {1, 2}
  NoResult = NoResult
  Rejected = Rejected
INVARIANTS
  PayloadFound
  ReadsInside
