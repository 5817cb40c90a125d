\* Two pods, overlapping runs, connections closed between runs, crashes.
CONSTANTS
  p1 = p1  p2 = p2
  Pods = {p1, p2}
  PoolSize = 2
  MaxRuns = 2
  MaxCount = 3
  NoConn = NoConn
SPECIFICATION CronSpec
INVARIANTS OnePodAtATime
PROPERTIES JobKeepsRunning
