CONSTANTS
  t1 = t1 t2 = t2 ann = ann bob = bob r1 = r1 r2 = r2 o1 = o1 o2 = o2 job = job
  Teams = {t1}
  Lead = lead
  Peers = {ann}
  Runtimes = {r1, r2}
  Ops = {o1}
  Tasks = {}
  NoOne = NoOne
  Everyone = Everyone
  Forgotten = Forgotten
  MaxDeliveries = 3
  Limits <- ProgressLimits
SPECIFICATION FairSpec
PROPERTIES EventReaches LeaversForgotten
CHECK_DEADLOCK FALSE
