------------------------------ MODULE MCDoctor ------------------------------
(***************************************************************************)
(* Doctor for TLC: a tick is about 300 ms, so that the delay, the retry    *)
(* and the responder's interval are 1, 2 and 3 ticks as in the code's      *)
(* 300 ms, 700 ms and 1 s; two probes, one loss, another member and a      *)
(* rate table with one entry.                                              *)
(***************************************************************************)
EXTENDS Doctor

MCOthers == {"other"}
=============================================================================
