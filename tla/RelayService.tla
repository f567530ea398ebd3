----------------------------- MODULE RelayService -----------------------------
(***************************************************************************)
(* What the relay promises to the daemons that use it, and what RelayLink    *)
(* takes from it: a pair has one port, which does not change as long as the  *)
(* session lives; a side is only told the port its own pair has when it is   *)
(* answered; a session may end at any time without notice.                  *)
(***************************************************************************)
CONSTANTS Pairs, Links, Ports, NoPort,
          PairOf(_)   \* the pair of a link

VARIABLES serving,   \* the port of each pair
          told       \* what each side believes
vars == <<serving, told>>

Init == serving = [k \in Pairs |-> NoPort] /\ told = [l \in Links |-> NoPort]

\* Sessions end and begin, and a side that asks is answered.
May(k) == IF serving[k] = NoPort THEN Ports \cup {NoPort} ELSE {serving[k], NoPort}
Serve ==
  /\ \A k \in Pairs : serving'[k] \in May(k)
  /\ \A l \in Links : told'[l] # told[l] =>
       told'[l] = serving'[PairOf(l)] /\ told'[l] # NoPort

Forget(l) == told' = [told EXCEPT ![l] = NoPort] /\ UNCHANGED serving

Next == Serve \/ \E l \in Links : Forget(l)
Spec == Init /\ [][Next]_vars
=============================================================================
