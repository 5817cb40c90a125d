\* A query fails after the mark: the retry is taken for a duplicate.
CONSTANTS
  e1 = e1  e2 = e2  e3 = e3  s1 = s1  s2 = s2  p1 = p1  p2 = p2  c1 = c1  c2 = c2
  Events = {e1}
  Sessions = {s1}
  SessionOf <- MCSessionOf
  Pods = {p1}
  Calls = {c1}
SPECIFICATION Spec
INVARIANTS AckedIsCredited
