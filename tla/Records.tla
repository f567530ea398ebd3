-------------------------------- MODULE Records --------------------------------
(***************************************************************************)
(* The records of a node that others look up: in the DHT (discovery/src/      *)
(* client.rs, record.rs), sealed with a key of the network, and in DNS        *)
(* (discovery/src/ddns).  Sealing is kept as the property that what opens was  *)
(* sealed by a member; a foreign TXT string opens to nothing.                *)
(***************************************************************************)
EXTENDS Sequences, LanTable

(* The DHT: some nodes keep a copy of the record, each with the sequence       *)
(* number it last accepted.  BEP 44: a put names the number it read (cas).     *)
None == [seq |-> 0, value |-> {}]
seal(eps) == eps
open(value) == value \cap Usable
usable_endpoints(addrs) == addrs \cap Usable

get_mutable_most_recent(store, R) ==
  LET held == {store[r] : r \in R} \ {None}
  IN  IF held = {} THEN {None} ELSE {rec \in held : \A o \in held : o.seq <= rec.seq}
\* Mutant: the number that was read is used again.
publish_same_seq(recent, eps) ==
  [seq |-> IF recent = None THEN 1 ELSE recent.seq, cas |-> recent.seq, value |-> seal(eps)]
publish(recent, eps) ==
  [seq |-> recent.seq + 1, cas |-> recent.seq, value |-> seal(eps)]
put_mutable(rec, put) ==
  IF rec = None \/ (put.seq > rec.seq /\ put.cas \in {0, rec.seq})
  THEN [seq |-> put.seq, value |-> put.value]
  ELSE rec
lookup(rec) == open(rec.value)

(* DNS: the TXT strings of the node's name.  A provider's webhook replaces     *)
(* them; Cloudflare is asked for the first record and told to change it, or,    *)
(* when there was none, to add one.                                          *)
render_record(epoch, eps) == [prefix |-> "hxdd1.", epoch |-> epoch, value |-> seal(eps)]
parse_record(t) == t.prefix = "hxdd1."
webhook_set_txt(txts, t) == <<t>>
find_record_id(txts) == IF txts = <<>> THEN 0 ELSE 1
cloudflare_set_txt(txts, id, t) ==
  IF id = 0 THEN Append(txts, t) ELSE IF txts = <<>> THEN txts ELSE [txts EXCEPT ![id] = t]
Smallest(S) == CHOOSE i \in S : \A j \in S : i =< j
select_endpoints(txts) ==
  LET ok == {i \in 1..Len(txts) : parse_record(txts[i])}
      best == {i \in ok : \A j \in ok : txts[j].epoch <= txts[i].epoch}
  IN  IF ok = {} THEN {} ELSE open(txts[Smallest(best)].value)
===============================================================================
