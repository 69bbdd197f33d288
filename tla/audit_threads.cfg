SPECIFICATION Spec
CONSTANTS
  Writers = {w1, w2}
  Payloads = {"allow", "deny"}
  Times = {1, 2}
  MaxEntries = 3
  MaxAlterations = 0
INVARIANT AppendedVerifies
