------------------------------- MODULE MCLogFile ------------------------------
(* The instance of LogFile that TLC checks. *)
EXTENDS LogFile
=============================================================================
