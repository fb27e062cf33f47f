---------------------------- MODULE MCWorkbench ----------------------------
(* Instances of Workbench for TLC: the tasks follow each other in one      *)
(* session; the URL may also name one that AI Core does not know.          *)
EXTENDS Workbench

CONSTANTS s1, gone

OneSessionOf == [t \in Tasks |-> s1]
=============================================================================
