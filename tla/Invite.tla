-------------------------------- MODULE Invite --------------------------------
(***************************************************************************)
(* The invitation token (core/src/invite.rs) and `hextet invite new`         *)
(* (cli/src/commands/invite.rs).  A token is its parts between the dots and  *)
(* its size; a payload is the record its JSON describes, or Garbage; a       *)
(* signature is ideal, the pair of the signer and the payload.               *)
(***************************************************************************)
EXTENDS Config

CONSTANTS MaxTokenLen,     \* MAX_TOKEN_LEN
          MaxBootstrap,    \* MAX_BOOTSTRAP
          MaxTtl           \* MAX_TTL_SECS

Prefix == "hxi1"
Version == 1
Garbage == [v |-> 0]

check_bootstrap_len(n) == n > 0 /\ n =< MaxBootstrap
\* Invite::new, but for the random id.
Invite(name, key, issuer, now, ttl, port, bootstrap) ==
  [v |-> Version, network_name |-> name, network_key |-> key, issuer |-> issuer,
   issued |-> now, expires |-> now + ttl, listen_port |-> port, bootstrap |-> bootstrap]
Token(parts, size) == [parts |-> parts, size |-> size]
encode(invite, identity) == Token(<<Prefix, invite, <<identity, invite>>>>, 1)

\* The error, or "ok".
\* Mutant: the signature is not looked at.
decode_unverified(t) ==
  IF Len(t.parts) # 3 \/ t.parts[2] = Garbage THEN "Malformed" ELSE "ok"
decode(t) ==
  IF t.size > MaxTokenLen THEN "TooLarge"
  ELSE IF Len(t.parts) # 3 THEN "Malformed"
  ELSE IF t.parts[1] # Prefix THEN "BadPrefix"
  ELSE IF t.parts[2] = Garbage THEN "BadJson"
  ELSE LET raw == t.parts[2] IN
       IF raw.v # Version THEN "BadVersion"
       ELSE IF raw.issuer \notin CurvePoints THEN "BadKey"
       ELSE IF t.parts[3] # <<raw.issuer, raw>> THEN "BadSignature"
       ELSE IF ~check_bootstrap_len(Len(raw.bootstrap)) THEN "BadBootstrap"
       ELSE IF raw.network_key \notin NetworkKeys THEN "BadKey"
       ELSE IF \E i \in DOMAIN raw.bootstrap :
                 LET b == raw.bootstrap[i] IN
                 b.public_key \notin CurvePoints \/ \E j \in DOMAIN b.endpoints : b.endpoints[j].family # "v6"
         THEN "BadPeer"
       ELSE "ok"
check_not_expired(invite, now) == now =< invite.expires

\* parse_ttl: a number and the seconds of its unit; 0 where it is refused.
parse_ttl(n, unit) == IF n * unit > MaxTtl THEN 0 ELSE n * unit
=============================================================================
