----------------------------- MODULE MCRelayLink -----------------------------
(* RelayLink on small instances: one configured address a, an address b that
   the rendezvous layers or the peer's own packets bring up, two relay ports. *)
EXTENDS RelayLink, TLC

CONSTANTS a, b, r, s

MCEndpoints == {a, b, r, s}
MCRelays == {r, s}
MCConfigured == <<a>>
EmptyCache == [good |-> NoEndpoint, seen |-> <<>>]
MCCaches == {EmptyCache, [good |-> b, seen |-> <<b>>]}
NoCache == {EmptyCache}
\* b from an authoritative source and from one that is not, and b withdrawn; a is
\* configured, so that a report of it brings no candidate.
MCReports == {[src |-> LAN, eps |-> <<b>>], [src |-> Gossip, eps |-> <<b>>],
              [src |-> LAN, eps |-> <<>>]}
NewAddress == {[src |-> LAN, eps |-> <<b>>]}
MCLive == {{}, {a, b}}
NeverDirect == {{}}
=============================================================================
