----------------------------- MODULE MCRendezvous -----------------------------
(***************************************************************************)
(* Two usable addresses and one that is not (3); a table of one entry, two     *)
(* copies of the DHT record, one endpoint per record.                        *)
(***************************************************************************)
EXTENDS Rendezvous

MCSetups == {<<"lan", "linux">>, <<"dht", "macos">>, <<"webhook", "linux">>, <<"cloudflare", "windows">>}
=============================================================================
