SPECIFICATION Spec
CONSTANTS
  References = {n1, n2}
  Single = n0
  Numbers <- MCNumbers
  MaxRows = 6
  Sessions = {s1, s2}
  Times = {1, 2}
SYMMETRY Symmetry
PROPERTIES TrailKept OptOutStands
