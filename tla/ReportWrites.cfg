CONSTANTS
  Requests = {q1, q2}
  People = {ann, wes}
  Admins = {}
  WriteAll = {wes}
  WriteOwn = {ann}
  Incidents = {1, 2}
  Links = {0, 1, 2, 3}
  Texts = {t1}
  NoText = NoText
  Absent = Absent
  MaxReports = 1
  MaxCalls = 3
SPECIFICATION Spec
SYMMETRY Perms
CHECK_DEADLOCK FALSE
INVARIANTS ReportSafe
PROPERTY SummaryByOwnerOnly
