----------------------------- MODULE MCAhciDump -----------------------------
(***************************************************************************)
(* Small /proc/iomem files and register contents for AhciDump.             *)
(***************************************************************************)
EXTENDS AhciDump

ahci == <<"a", "h", "c", "i">>
xhci == <<"x", "h", "c", "i">>

\* A controller of 1024 bytes, one of 129 (so that two ports pass), one of 4
\* bytes, and one that does not start at a page, below a device or a bridge
\* and a device.
Controllers ==
  { [depth |-> 1, first |-> <<"1", "0", "0">>, last |-> <<"4", "f", "f">>, name |-> ahci],
    [depth |-> 2, first |-> <<"a", "0", "0">>, last |-> <<"a", "8", "0">>, name |-> ahci],
    [depth |-> 1, first |-> <<"2", "0", "0">>, last |-> <<"2", "0", "3">>, name |-> ahci],
    [depth |-> 1, first |-> <<"5", "8", "0">>, last |-> <<"5", "f", "f">>, name |-> ahci] }

\* Another device, and a line shorter than the others.
Others ==
  { [depth |-> 1, first |-> <<"a", "8", "1">>, last |-> <<"a", "f", "f">>, name |-> xhci],
    [depth |-> 0, first |-> <<"0">>, last |-> <<"0">>, name |-> <<"x">>] }

Some == CHOOSE l \in Controllers : l.first[1] = "a"

SmallFiles ==
  {<<>>} \cup [1..1 -> Controllers \cup Others] \cup [1..2 -> Controllers \cup Others]
    \cup {f \in [1..3 -> Others \cup {Some}] : \E k \in 1..3 : f[k] = Some}

\* Fresh memory is zero, or holds what an earlier line left there.
SmallGarbage ==
  {[c \in Cells |-> "NUL"],
   [c \in Cells |-> IF c = LastCell THEN "NUL"
                    ELSE <<"a", "h", "c", "i">>[(c % 4) + 1]]}

SmallPortSets == {{}, {0, 1}, {1, 2}, {7, 31}}
=============================================================================
