SPECIFICATION Spec
CONSTANTS
  Writers = {w1}
  Payloads = {"allow", "deny"}
  Times = {1, 2}
  MaxEntries = 3
  MaxAlterations = 2
INVARIANTS TypeOK AppendedVerifies WalkIsRight CopyIsGenuine
