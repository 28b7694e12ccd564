---------------------------- MODULE MCOutputGate ----------------------------
(* Model-checking instances of OutputGate: a report, a workbook and a helper *)
(* script, and one content of each class the gate distinguishes.  The gate   *)
(* runs in the runner's process or behind the controller, and formulas of a  *)
(* workbook are refused in the one setting and made text in the other.       *)
EXTENDS OutputGate

CONSTANTS report, book, script, good, fixable, active, broken, g1, g2

InProcess == [controller |-> FALSE, stringify |-> FALSE, writes |-> 2]
Remote    == [controller |-> TRUE, stringify |-> TRUE, writes |-> 1]
Both      == {InProcess, Remote}

(* Single files, a repeated file, several files; or just a few of them.      *)
Lists == {<<report>>, <<report, book>>, <<report, report>>, <<script, book>>}
Pairs == {<<report>>, <<report, book>>}
=============================================================================
