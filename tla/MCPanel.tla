------------------------------ MODULE MCPanel ------------------------------
(* Panel with a machine and two requests under way.                          *)
EXTENDS Panel
=============================================================================
