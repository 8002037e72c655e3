\* Two suites, three files, two roots, every outcome, reports of an earlier run.
SPECIFICATION Spec
CONSTANTS
  a = a
  b = b
  f1 = f1
  f2 = f2
  f3 = f3
  q = q
  q3 = q3
  here = here
  there = there
  absent = absent
  Suites = {a, b}
  Roots = {here, there}
  Files = {f1, f2, f3}
  Names = {q, q3}
  CaseName <- SmallNames
  Cwd = here
  Absent = absent
  Confs <- SmallConfs
  SqlFiles <- SmallFiles
  Outcomes = {"same", "differs", "noanswer", "nonzero", "oserror", "undecodable", "undiffable", "unreadable", "hangs"}
  ReportFaults = {"unopenable", "unwritable"}
INVARIANTS
  TypeOK
  ConfMeaning
  FailedCommandsReported
  ReportsComplete
  DoneMeansReported
CHECK_DEADLOCK FALSE
