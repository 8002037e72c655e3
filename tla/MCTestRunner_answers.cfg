\* The reports of files with wrong answers.
\* Two suites, three files, two roots, every outcome, reports of an earlier run.
SPECIFICATION Spec
CONSTANTS
  a = a
  b = b
  f1 = f1
  f2 = f2
  f3 = f3
  q = q
  q3 = q3
  here = here
  there = there
  absent = absent
  Suites = {a, b}
  Roots = {here, there}
  Files = {f1, f2, f3}
  Names = {q, q3}
  CaseName <- SmallNames
  Cwd = here
  Absent = absent
  Confs <- SmallConfs
  SqlFiles <- SmallFiles
  Outcomes = {"same", "differs", "noanswer", "nonzero"}
  ReportFaults = {}
INVARIANTS
  WrongAnswersReported
CHECK_DEADLOCK FALSE
