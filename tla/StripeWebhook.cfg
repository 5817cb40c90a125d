\* Two events of one session on two pods, every failure anywhere.
CONSTANTS
  e1 = e1  e2 = e2  e3 = e3  s1 = s1  s2 = s2  p1 = p1  p2 = p2  c1 = c1  c2 = c2
  Events = {e1, e2}
  Sessions = {s1}
  SessionOf <- MCSessionOf
  Pods = {p1, p2}
  Calls = {c1, c2}
SPECIFICATION Spec
INVARIANTS CreditedOnce
PROPERTIES PaidIsCredited
CHECK_DEADLOCK FALSE
