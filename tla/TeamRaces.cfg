CONSTANTS
  t1 = t1 t2 = t2 ann = ann bob = bob r1 = r1 r2 = r2 o1 = o1 o2 = o2 job = job
  Teams = {t1, t2}
  Lead = lead
  Peers = {ann, bob}
  Runtimes = {r1, r2}
  Ops = {o1, o2}
  Tasks = {job}
  NoOne = NoOne
  Everyone = Everyone
  Forgotten = Forgotten
  MaxDeliveries = 4
  Limits <- RaceLimits
SPECIFICATION Spec
INVARIANTS TypeOK BudgetExact SoleCoordinator NothingSkipped DeliveryAnswered ClaimsHeld OneOperation
PROPERTIES ClaimKept
CHECK_DEADLOCK FALSE
