---------------------------- MODULE MCLifecycle -----------------------------
(***************************************************************************)
(* Lifecycle for TLC: the three hosts, two daemons in a process (a second  *)
(* start, or a stop and a start), a freshness of one second, a handshake   *)
(* that counts for two, three seconds, and three disturbances.             *)
(***************************************************************************)
EXTENDS Lifecycle

MCHosts == {"foreground", "windows", "android"}
=============================================================================
