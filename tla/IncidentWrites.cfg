CONSTANTS
  ann = ann  bob = bob  gus = gus  t1 = t1  o1 = o1  k1 = k1  r1 = r1
  Requests = {q1, q2}
  People = {ann, gus}
  Admins = {}
  Writers = {ann}
  Grantees = {gus}
  Payloads <- MCPayloads
  Absent = Absent
  Texts = {t1}
  NoText = NoText
  Outcomes = {o1}
  NoOutcome = NoOutcome
  UnknownOutcome = UnknownOutcome
  Types = {k1}
  Reports = {r1}
  MaxIncidents = 2
  MaxCalls = 4
CHECK_DEADLOCK FALSE
SPECIFICATION Spec
SYMMETRY Perms
INVARIANTS IncidentSafe
