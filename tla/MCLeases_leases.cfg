SPECIFICATION Spec
CONSTANTS
  Kinds = {"lock", "lease"}
  Holders = {h1, h2}
  Keys = {k1, k2}
  TTL = 2
  Skew = 1
SYMMETRY Symmetric
INVARIANTS LeaseExcludes
PROPERTIES LateStepsHarmless
