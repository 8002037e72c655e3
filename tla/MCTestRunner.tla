---------------------------- MODULE MCTestRunner ----------------------------
(***************************************************************************)
(* Configurations of one or two entries: with and without each key, a      *)
(* suite that both runners have, an entry that does not count beside one   *)
(* that does, and suites whose directory is under another root.  Two of    *)
(* the three files share the name of their case.                           *)
(***************************************************************************)
EXTENDS TestRunner

CONSTANTS a, b, f1, f2, f3, q, q3, here, there, absent

Entry(t, j, r) == [transwarp_suites |-> t, jdbc_suites |-> j, rootdir |-> r]

Entries ==
  {Entry(<<a>>, <<a>>, here), Entry(<<a, b>>, absent, absent),
   Entry(<<b>>, <<a>>, absent), Entry(<<b>>, absent, there),
   Entry(absent, <<b>>, there)}

SmallConfs == {<<>>} \cup {<<e>> : e \in Entries} \cup {<<e1, e2>> : e1, e2 \in Entries}

SmallFiles ==
  [rs \in {here, there} \X {a, b} |->
     CASE rs = <<here, a>> -> {f1, f2}
       [] rs = <<there, b>> -> {f1, f3}
       [] OTHER -> {}]

\* As q.1.sql, q.2.sql and q3.sql.
SmallNames == [f \in {f1, f2, f3} |-> IF f = f3 THEN q3 ELSE q]

=============================================================================
