------------------------------ MODULE MCMonSync ------------------------------
(***************************************************************************)
(* Two threads that serve requests, three updates.                         *)
(***************************************************************************)
EXTENDS StingerMon
==============================================================================
