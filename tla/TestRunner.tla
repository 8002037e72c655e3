----------------------------- MODULE TestRunner -----------------------------
(***************************************************************************)
(* TranswarpTest of behave-test/mainTest.py, with the parts of mod_utils   *)
(* it uses: the configuration is read entry by entry, every suite's sql    *)
(* files are run and their output compared with the answers, and a JUnit   *)
(* report is written for each suite.                                       *)
(*                                                                         *)
(* A dictionary of the suites list has one key, as in conf.yml.  A file is *)
(* a model value; what its command does is one of Outcomes:                *)
(*   "same", "differs", "noanswer"   exit code 0, and what the comparison  *)
(*                                   with 05_answer finds                  *)
(*   "nonzero", "oserror"            another exit code, or no such program *)
(*   "undecodable"                   output that is not UTF-8              *)
(*   "undiffable"                    a difference in an answer that is not *)
(*                                   ASCII, which "".join cannot combine   *)
(*   "unreadable"                    the sql file cannot be opened         *)
(*   "hangs"                         communicate() has no timeout          *)
(* A case is named after its file up to the first dot, without the         *)
(* directory os.walk found it in: two files of a suite may share a name.   *)
(***************************************************************************)
EXTENDS Integers, Sequences, FiniteSets, SequencesExt

CONSTANTS Suites,        \* names of suites
          Roots,         \* root directories
          Files,         \* sql files
          Cwd,           \* the root directory if no entry names one
          Absent,        \* a key that an entry of conf.yml does not have
          Confs,         \* the configurations to consider: sequences of entries
          SqlFiles,      \* SqlFiles[<<r, s>>]: the sql files os.walk finds there
          Names,         \* names of cases
          CaseName,      \* CaseName[f]: the file's name up to the first dot
          Outcomes,      \* what a command may do
          ReportFaults   \* how writing a report may fail

Aborting == {"undecodable", "undiffable", "unreadable"}
Lists == Seq(Suites) \cup {Absent}
ConfEntries == [transwarp_suites : Lists, jdbc_suites : Lists, rootdir : Roots \cup {Absent}]

ASSUME RunnerAssumption ==
  /\ Cwd \in Roots
  /\ \A c \in Confs : c \in Seq(ConfEntries)
  /\ IsFiniteSet(Files)
  /\ SqlFiles \in [Roots \X Suites -> SUBSET Files]
  /\ CaseName \in [Files -> Names]
  /\ Outcomes \subseteq Aborting \cup
       {"same", "differs", "noanswer", "nonzero", "oserror", "hangs"}
  /\ ReportFaults \subseteq {"unopenable", "unwritable"}

VARIABLES conf,               \* the entries of conf.yml
          entry,              \* the number of the next entry
          transwarp_suites, jdbc_suites, workdir,
          phase,              \* where the program is
          todo,               \* the suites to come, the current one first
          pending,            \* the files of the suite that have not run
          cases,              \* the results of those that have
          log,                \* history: which files, and what their commands did
          reports,            \* the files in ./reports, by suite
          ran                 \* history: the log each report was made from

confVars == <<conf, entry, transwarp_suites, jdbc_suites, workdir>>
suiteVars == <<pending, cases, log>>
vars == <<confVars, phase, todo, suiteVars, reports, ran>>

NoReport == [written |-> "no"]
OldReport == [written |-> "by an earlier run"]
CutReport == [written |-> "in part"]

Init ==
  /\ conf \in Confs
  /\ entry = 1
  /\ transwarp_suites = <<>>
  /\ jdbc_suites = <<>>
  /\ workdir = Cwd
  /\ phase = "conf"
  /\ todo = <<>>
  /\ pending = {}
  /\ cases = <<>>
  /\ log = <<>>
  /\ reports \in [Suites -> {NoReport, OldReport}]
  /\ ran = [s \in Suites |-> <<>>]

-----------------------------------------------------------------------------
(* _parse_conf and do_all_tests                                            *)

BugUnguarded(new, old) == new

Given(new, old) == IF new = Absent THEN old ELSE new

BugJdbcOnlyToo(e) == e.transwarp_suites # Absent \/ e.jdbc_suites # Absent

\* An entry without transwarp_suites is passed over, whatever else it has.
Counts(e) == e.transwarp_suites # Absent

ParseEntry ==
  /\ phase = "conf" /\ entry <= Len(conf)
  /\ entry' = entry + 1
  /\ IF Counts(conf[entry])
     THEN /\ transwarp_suites' = Given(conf[entry].transwarp_suites, transwarp_suites)
          /\ jdbc_suites' = Given(conf[entry].jdbc_suites, jdbc_suites)
          /\ workdir' = Given(conf[entry].rootdir, workdir)
     ELSE UNCHANGED <<transwarp_suites, jdbc_suites, workdir>>
  /\ UNCHANGED <<conf, phase, todo, suiteVars, reports, ran>>

\* The tasks of one runner, in the order of its list.
Tasks(runner, suites) == [k \in DOMAIN suites |-> [runner |-> runner, suite |-> suites[k]]]

BugJdbcFirst == Tasks("jdbc", jdbc_suites) \o Tasks("transwarp", transwarp_suites)

AllTasks == Tasks("transwarp", transwarp_suites) \o Tasks("jdbc", jdbc_suites)

StartTests ==
  /\ phase = "conf" /\ entry > Len(conf)
  /\ todo' = AllTasks
  /\ phase' = "next"
  /\ UNCHANGED <<confVars, suiteVars, reports, ran>>

(***************************************************************************)
(* prepare_data only prints: everything after its "continue" is dead.  A   *)
(* directory that does not exist has no files.                             *)
(***************************************************************************)
StartSuite ==
  /\ phase = "next" /\ todo # <<>>
  /\ pending' = SqlFiles[<<workdir, todo[1].suite>>]
  /\ cases' = <<>>
  /\ log' = <<>>
  /\ phase' = "files"
  /\ UNCHANGED <<confVars, todo, reports, ran>>

AllDone ==
  /\ phase = "next" /\ todo = <<>>
  /\ phase' = "done"
  /\ UNCHANGED <<confVars, todo, suiteVars, reports, ran>>

-----------------------------------------------------------------------------
(* _do_transwarp_sqls and run_case                                         *)

BugErrnoForgotten(o) == IF o = "nonzero" THEN "failed" ELSE "success"

\* An OSError becomes the return code errno.
Status(o) == IF o \in {"nonzero", "oserror"} THEN "failed" ELSE "success"

\* Whatever the comparison finds is the failmsg; the status is made of the return code.
Case(f, o) ==
  [name |-> CaseName[f], status |-> Status(o),
   failmsg |-> CASE o = "same" -> ""
                 [] o = "differs" -> "context diff"
                 [] o = "noanswer" -> "Origin filename not exist"
                 [] OTHER -> "None"]

RunFile(f, o) ==
  /\ phase = "files" /\ f \in pending
  /\ o \notin Aborting \cup {"hangs"}
  /\ pending' = pending \ {f}
  /\ cases' = Append(cases, Case(f, o))
  /\ log' = Append(log, [file |-> f, outcome |-> o])
  /\ UNCHANGED <<confVars, phase, todo, reports, ran>>

\* Instead of ending the program, the loop goes on with the next file.
BugSkips(f, o) ==
  /\ phase = "files" /\ f \in pending
  /\ o \in Aborting
  /\ pending' = pending \ {f}
  /\ UNCHANGED <<confVars, phase, todo, cases, log, reports, ran>>

\* An exception nobody catches ends the program, a command that hangs stops it.
RunEnds(f, o) ==
  /\ phase = "files" /\ f \in pending
  /\ o \in Aborting \cup {"hangs"}
  /\ phase' = IF o = "hangs" THEN "hung" ELSE "aborted"
  /\ UNCHANGED <<confVars, todo, suiteVars, reports, ran>>

-----------------------------------------------------------------------------
(* junit.py                                                                *)

EmptyReport(runner) ==
  [written |-> runner, tests |-> 0, errors |-> 0, failures |-> 0, skipped |-> 0,
   testcases |-> <<>>]

\* Only a case that did not succeed gets an element with its failmsg.
Element(c) ==
  [name |-> c.name, status |-> c.status,
   failure |-> IF c.status \in {"failed", "errors"} THEN c.failmsg ELSE "no element"]

One(b) == IF b THEN 1 ELSE 0

add_caseresult(report, c) ==
  [report EXCEPT !.tests = @ + 1,
                 !.failures = @ + One(c.status = "failed"),
                 !.errors = @ + One(c.status = "errors"),
                 !.skipped = @ + One(c.status \in {"skipped", "untested"}),
                 !.testcases = Append(@, Element(c))]

ReportOf(runner, results) == FoldLeft(add_caseresult, EmptyReport(runner), results)

\* The file is named after the suite alone: an older one is written over.
WriteReport ==
  /\ phase = "files" /\ pending = {}
  /\ reports' = [reports EXCEPT ![todo[1].suite] = ReportOf(todo[1].runner, cases)]
  /\ ran' = [ran EXCEPT ![todo[1].suite] = log]
  /\ todo' = Tail(todo)
  /\ phase' = "next"
  /\ UNCHANGED <<confVars, suiteVars>>

(***************************************************************************)
(* Nobody catches what makedirs, open or write raise.  The open with "wb"  *)
(* has emptied an older report before the first write.                     *)
(***************************************************************************)
WriteReportFails(fault) ==
  /\ phase = "files" /\ pending = {}
  /\ reports' = IF fault = "unwritable" THEN [reports EXCEPT ![todo[1].suite] = CutReport]
                ELSE reports
  /\ phase' = "aborted"
  /\ UNCHANGED <<confVars, todo, suiteVars, ran>>

Next ==
  \/ \E fault \in ReportFaults : WriteReportFails(fault)
  \/ ParseEntry \/ StartTests \/ StartSuite \/ AllDone \/ WriteReport
  \/ \E f \in pending, o \in Outcomes : RunFile(f, o) \/ RunEnds(f, o)

Spec == Init /\ [][Next]_vars

-----------------------------------------------------------------------------
(* What conf.yml means                                                     *)

\* The entries that have transwarp_suites and the key.
Having(key) == {k \in DOMAIN conf : conf[k].transwarp_suites # Absent /\ conf[k][key] # Absent}

\* The value of the key in the last of them.
LastOf(key, default) ==
  IF Having(key) = {} THEN default
  ELSE conf[CHOOSE k \in Having(key) : \A j \in Having(key) : j <= k][key]

Wanted(s) == \E key \in {"transwarp_suites", "jdbc_suites"} : s \in Range(LastOf(key, <<>>))

Fresh(s) == reports[s].written \in {"transwarp", "jdbc"}

\* What is remembered of a command.
Runs == [file : Files, outcome : Outcomes]

\* The cases of the report are those of the files, each file once, in some order.
CaseForEach(report, files) ==
  /\ report.tests = Len(report.testcases)
  /\ \E order \in Bijection(DOMAIN report.testcases, files) :
       \A k \in DOMAIN report.testcases : report.testcases[k].name = CaseName[order[k]]

-----------------------------------------------------------------------------
(* Properties                                                              *)

\* Every variable has the values the program gives it; the lists are those of some entry.
TypeOK ==
  /\ conf \in Confs
  /\ entry \in 1 .. Len(conf) + 1
  /\ transwarp_suites \in Seq(Suites) /\ jdbc_suites \in Seq(Suites)
  /\ workdir \in Roots
  /\ phase \in {"conf", "next", "files", "done", "aborted", "hung"}
  /\ pending \subseteq Files
  /\ Len(cases) = Len(log)
  /\ log \in Seq(Runs)
  /\ DOMAIN reports = Suites /\ DOMAIN ran = Suites

(***************************************************************************)
(* Each key has its value from the last entry that gives it, so a suite of *)
(* one entry may run under the root directory of another; an entry without *)
(* transwarp_suites leaves no trace, nor do its jdbc_suites and rootdir.   *)
(***************************************************************************)
ConfMeaning ==
  phase # "conf" =>
    /\ transwarp_suites = LastOf("transwarp_suites", <<>>)
    /\ jdbc_suites = LastOf("jdbc_suites", <<>>)
    /\ workdir = LastOf("rootdir", Cwd)

(***************************************************************************)
(* The k-th case of a report is that of the k-th file that was run.  Every *)
(* command that failed, by its exit code or for want of the program, has   *)
(* its "failure" element, no file whose output is the right answer has     *)
(* one, and the counts of the report are those of its elements.            *)
(***************************************************************************)
FailedCommandsReported ==
  \A s \in Suites : Fresh(s) =>
    LET r == reports[s]
        elements == {k \in DOMAIN r.testcases : r.testcases[k].failure # "no element"}
    IN /\ r.tests = Len(ran[s]) /\ r.tests = Len(r.testcases)
       /\ r.failures = Cardinality(elements)
       /\ r.errors = 0 /\ r.skipped = 0
       /\ \A k \in DOMAIN r.testcases :
            /\ r.testcases[k].name = CaseName[ran[s][k].file]
            /\ ran[s][k].outcome \in {"nonzero", "oserror"} => k \in elements
            /\ ran[s][k].outcome = "same" => k \notin elements

(***************************************************************************)
(* "# differ with answer" (mainTest.py 249): a file whose output differs   *)
(* from its answer is reported, with "Different With Right Result!" and    *)
(* the difference (256-258), as a failure of its case.                     *)
(***************************************************************************)
WrongAnswersReported ==
  \A s \in Suites : Fresh(s) =>
    \A k \in DOMAIN ran[s] :
      ran[s][k].outcome = "differs" => reports[s].testcases[k].failure = "context diff"

(***************************************************************************)
(* A report of this run has one case for each sql file of the suite under  *)
(* the root directory, however the program ended: a suite whose commands   *)
(* stopped it leaves no report of the files that were run before.          *)
(***************************************************************************)
ReportsComplete ==
  \A s \in Suites : Fresh(s) =>
    CaseForEach(reports[s], SqlFiles[<<LastOf("rootdir", Cwd), s>>])

(***************************************************************************)
(* When the program ends normally, the report of every configured suite is *)
(* of this run, although older reports lay there, and of the runner that   *)
(* had the suite last: jdbc, if both have it.                              *)
(***************************************************************************)
DoneMeansReported ==
  phase = "done" =>
    \A s \in Suites : Wanted(s) =>
      reports[s].written =
        IF s \in Range(LastOf("jdbc_suites", <<>>)) THEN "jdbc" ELSE "transwarp"

-----------------------------------------------------------------------------
(* The inductive invariant behind these properties                         *)

\* The value of the key in the last entry that was read and has it.
ValueSoFar(key, value, default) ==
  \/ value = default /\ \A k \in Having(key) : k >= entry
  \/ \E k \in Having(key) : /\ k < entry /\ value = conf[k][key]
                            /\ \A j \in Having(key) : j < entry => j <= k

ConfSoFar ==
  /\ ValueSoFar("transwarp_suites", transwarp_suites, <<>>)
  /\ ValueSoFar("jdbc_suites", jdbc_suites, <<>>)
  /\ ValueSoFar("rootdir", workdir, Cwd)
  /\ phase # "conf" => entry = Len(conf) + 1

\* How many tasks have their report; the rest is still to do.
DoneTasks == Len(AllTasks) - Len(todo)

TodoInv ==
  /\ todo \in Seq([runner : {"transwarp", "jdbc"}, suite : Suites])
  /\ phase = "files" => todo # <<>>
  /\ phase = "done" => todo = <<>>
  /\ phase # "conf" => /\ Len(todo) <= Len(AllTasks)
                       /\ \A k \in 1 .. Len(todo) : todo[k] = AllTasks[DoneTasks + k]

FilesOf(l) == {l[k].file : k \in DOMAIN l}

Results ==
  [name : Names, status : {"success", "failed"},
   failmsg : {"", "context diff", "Origin filename not exist", "None"}]

\* Each command that ran has its case, and the files left are those that did not run.
CasesInv ==
  /\ cases \in Seq(Results)
  /\ \A k \in 1 .. Len(cases) : cases[k] = Case(log[k].file, log[k].outcome)
  /\ phase = "files" =>
       /\ SqlFiles[<<workdir, todo[1].suite>>] = pending \cup FilesOf(log)
       /\ pending \cap FilesOf(log) = {}
       /\ \A j, k \in 1 .. Len(log) : log[j].file = log[k].file => j = k

Reported(runner, s) == \E k \in 1 .. DoneTasks : AllTasks[k] = [runner |-> runner, suite |-> s]

\* A report of this run is about all files of the suite; the last task with the suite wrote it.
ReportsInv ==
  /\ phase = "conf" => \A s \in Suites : ~ Fresh(s)
  /\ \A s \in Suites : Fresh(s) => CaseForEach(reports[s], SqlFiles[<<workdir, s>>])
  /\ phase # "aborted" => \A s \in Suites : reports[s] # CutReport
  /\ phase # "conf" => \A s \in Suites : reports[s] # CutReport =>
       /\ Reported("jdbc", s) => reports[s].written = "jdbc"
       /\ Reported("transwarp", s) /\ ~ Reported("jdbc", s) => reports[s].written = "transwarp"

=============================================================================
