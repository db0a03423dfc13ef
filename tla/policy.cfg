\* Two threads of the proxy, two services, four rows, two requests.
CONSTANTS
  t1 = t1
  t2 = t2
  horizon = horizon
  keystone = keystone
  rule_h = rule_h
  exec_h = exec_h
  exec_k = exec_k
  Thread <- MCThread
  Service <- MCService
  PolicyKey = {rule_h}
  WeightKey <- MCWeightKey
  Owner <- MCOwner
  Value <- MCValue
  v1 = v1
  v2 = v2
  Requests = 2
  NoKey = NoKey
SPECIFICATION Spec
SYMMETRY Alike
INVARIANTS
  TypeOK
  SettledFollows
CHECK_DEADLOCK FALSE
