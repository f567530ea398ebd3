-------------------------------- MODULE Setup --------------------------------
(***************************************************************************)
(* How a node's key and configuration come to be: `hextet keygen`, `init`,   *)
(* `join`, `peer add`, `hosts` (core/src/bootstrap.rs, the rendering half of *)
(* config.rs, identity.rs, cli/src/commands), on one host, one command at a  *)
(* time, with writes that fail and commands that are killed half way, and a   *)
(* user who edits the file by hand.                                         *)
(*                                                                          *)
(* A configuration file is the sequence of its chunks: the template, then    *)
(* one block per peer; a write that was cut off leaves a torn chunk.         *)
(***************************************************************************)
EXTENDS Budget, Invite, FiniteSets

CONSTANTS Cwd,               \* the working directory, as a path
          ConfArg,           \* --out
          KeyArgs,           \* what --key-file may be
          Identities,        \* the keys that may be generated here
          NetworkNames, Unescaped,   \* network names, and those with a quote or a backslash
          Members, MembersKey,   \* who may invite, and the key of their network
          AddArgs,           \* the blocks `peer add` may be asked for
          HandWritten,       \* files a user may write, each one chunk
          HostBase(_),       \* peer name -> sanitised and cut to 63 characters: a label ("" if
                             \* nothing is left), and the numbers that follow it after dashes
          MaxNow             \* bound: the clock (changes: tokens, edits, failures and kills)

Paths == [abs : BOOLEAN, parts : Seq(STRING) \ {<<>>}]
NoKey == 0
TornKey == 99
ASSUME Arguments ==
  /\ Cwd \in Seq(STRING) /\ ConfArg \in Paths /\ KeyArgs \subseteq Paths
  /\ Identities \subseteq CurvePoints /\ TornKey \notin CurvePoints
  /\ Members \subseteq CurvePoints /\ MembersKey \in NetworkKeys
  /\ "bootstrap" \in PeerNames /\ AddArgs \subseteq Peers
  /\ \A file \in HandWritten : file.tag = "file" /\ file.peers \in Seq(Peers)
  /\ \A name \in PeerNames : HostBase(name) \in [label : STRING, numbers : Seq(Nat)]
  /\ MaxNow \in Nat

VARIABLES
  key,       \* path -> the key file
  conf,      \* the configuration file
  hosts, tmp,\* the file of `hosts --out` and its temporary file: none, whole or torn
  cmd,       \* the running command
  tokens,    \* the tokens people hand around
  now
setupVars == <<key, conf, hosts, tmp, cmd, tokens, now, changes>>

(* Paths. *)
Full(p) == IF p.abs THEN p.parts ELSE Cwd \o p.parts
parent(p) == [p EXCEPT !.parts = SubSeq(@, 1, Len(@) - 1)]
Below(p, dir) ==
  /\ p.abs = dir.abs /\ Len(dir.parts) =< Len(p.parts)
  /\ SubSeq(p.parts, 1, Len(dir.parts)) = dir.parts
strip_prefix(p, dir) ==
  IF Below(p, dir)
  THEN [abs |-> FALSE, parts |-> SubSeq(p.parts, Len(dir.parts) + 1, Len(p.parts))]
  ELSE p
\* Mutant: only the name of the file is written.
key_file_ref_for_config_name(config, k) == [abs |-> FALSE, parts |-> <<k.parts[Len(k.parts)]>>]
key_file_ref_for_config(config, k) == strip_prefix(k, parent(config))
Resolve(config, ref) == IF ref.abs THEN ref.parts ELSE Full(parent(config)) \o ref.parts
KeyFiles == {Full(k) : k \in KeyArgs} \cup {Resolve(ConfArg, key_file_ref_for_config(ConfArg, k)) : k \in KeyArgs}

(* Files. *)
NoFile == <<[tag |-> "absent"]>>
Torn == [tag |-> "torn"]
\* render_template writes the name as it is, render_peer_block escapes it.
render_template(name, netkey, ref) ==
  [tag |-> "file", parses |-> name \notin Unescaped, name |-> name, key |-> netkey, key_file |-> ref,
   node |-> [relay_allow |-> {}, admin_keys |-> {}], peers |-> <<>>]
render_peer_block(p) == [tag |-> "peer", peer |-> p]
Heads == HandWritten \cup
  {render_template(name, netkey, key_file_ref_for_config(ConfArg, k)) :
     name \in NetworkNames, netkey \in NetworkKeys, k \in KeyArgs}
Blocks == [tag : {"peer"}, peer : Peers]
Files == {f \in Seq(Heads \cup Blocks \cup {Torn}) :
            \A i \in DOMAIN f : f[i] \in (IF i = 1 THEN Heads ELSE Blocks) \cup {Torn}}
Parses(file) ==
  /\ Len(file) > 0 /\ file[1].tag = "file" /\ file[1].parses
  /\ \A i \in 2..Len(file) : file[i].tag = "peer"
RawOf(file) ==
  [key |-> file[1].key, node |-> file[1].node,
   peers |-> file[1].peers \o [i \in 1..Len(file) - 1 |-> file[i + 1].peer]]
ConfigError(file, own) ==
  IF file = NoFile THEN "Io" ELSE IF ~Parses(file) THEN "Toml" ELSE load(RawOf(file), own)
\* load_config_and_identity: the identity, or NoOne where an error comes of it.
IdentityAt(path) == IF path \in KeyFiles /\ key[path] # TornKey THEN key[path] ELSE NoOne
load_config_and_identity(file) ==
  IF ConfigError(file, NoOne) # "ok" THEN NoOne
  ELSE LET id == IdentityAt(Resolve(ConfArg, file[1].key_file))
       IN  IF id # NoOne /\ ConfigError(file, id) = "ok" THEN id ELSE NoOne

Idle == [op |-> "none"]
SetupInit ==
  /\ key = [p \in KeyFiles |-> NoKey]
  /\ conf = NoFile /\ hosts = "none" /\ tmp = "none"
  /\ cmd = Idle /\ tokens = {} /\ now = 0 /\ changes = 0

files == <<key, conf, hosts, tmp>>
world == <<tokens, now>>
Begin(c) == cmd = Idle /\ cmd' = c /\ UNCHANGED <<files, world, changes>>
End == cmd' = Idle

-----------------------------------------------------------------------------
(* join and init.  All checks come before the first write. *)
\* The identities it may come to; none where it returns an error.
load_or_generate_identity(k, require) ==
  LET there == key[Full(k)] IN
  IF there = TornKey THEN {}
  ELSE IF there # NoKey THEN {[id |-> there, generated |-> FALSE]}
  ELSE IF require THEN {}
  ELSE {[id |-> i, generated |-> TRUE] : i \in Identities}
\* The command with its file; the step that comes next.
Writing(op, k, who, file) ==
  [op |-> op, step |-> IF who.generated THEN "key" ELSE "create", k |-> k,
   id |-> who.id, generated |-> who.generated, file |-> file]
join_network(t, k) ==
  LET invite == t.parts[2]
      blocks == [i \in DOMAIN invite.bootstrap |-> render_peer_block(invite.bootstrap[i])]
  IN  /\ decode(t) = "ok" /\ check_not_expired(invite, now)
      /\ conf = NoFile
      /\ \E who \in load_or_generate_identity(k, FALSE) :
           /\ ~Degenerate(who.id) /\ \A i \in DOMAIN invite.bootstrap : ~Degenerate(invite.bootstrap[i].public_key)
           /\ check_subnet_collisions(Append(KeyOf(invite.bootstrap), who.id))
           /\ Begin(Writing("join", k, who,
                 <<render_template(invite.network_name, invite.network_key, key_file_ref_for_config(ConfArg, k))>>
                   \o blocks))
\* By the command line (the key must be there) or through the FFI.
init_network(name, netkey, k, require) ==
  /\ netkey \in NetworkKeys
  /\ \E who \in load_or_generate_identity(k, require) :
       /\ ~Degenerate(who.id)
       /\ Begin(Writing("init", k, who, <<render_template(name, netkey, key_file_ref_for_config(ConfArg, k))>>))

\* NodeIdentity::save: create_new, then one line.  With a file in the way, and
\* where the write fails, the error ends the command.
SaveKey ==
  /\ cmd.op \in {"join", "init", "keygen"} /\ cmd.step = "key"
  /\ \/ /\ key[Full(cmd.k)] = NoKey
        /\ key' = [key EXCEPT ![Full(cmd.k)] = cmd.id]
        /\ IF cmd.op = "keygen" THEN End ELSE cmd' = [cmd EXCEPT !.step = "create"]
        /\ UNCHANGED changes
     \/ /\ key[Full(cmd.k)] = NoKey /\ Spend
        /\ key' = [key EXCEPT ![Full(cmd.k)] = TornKey] /\ End
  /\ UNCHANGED <<conf, hosts, tmp, world>>
\* write_new_0600: create_new, then the text.
CreateConfig ==
  /\ cmd.op \in {"join", "init"} /\ cmd.step = "create"
  /\ \/ conf = NoFile /\ conf' = <<>> /\ cmd' = [cmd EXCEPT !.step = "write"] /\ UNCHANGED changes
     \/ conf # NoFile /\ cmd' = [cmd EXCEPT !.step = "undo"] /\ UNCHANGED <<conf, changes>>
     \/ Spend /\ cmd' = [cmd EXCEPT !.step = "undo"] /\ UNCHANGED conf
  /\ UNCHANGED <<key, hosts, tmp, world>>
WriteConfig ==
  /\ cmd.op \in {"join", "init"} /\ cmd.step = "write"
  /\ \/ conf' = cmd.file /\ End /\ UNCHANGED changes
     \/ Spend /\ conf' = <<Torn>> /\ cmd' = [cmd EXCEPT !.step = "undo"]
  /\ UNCHANGED <<key, hosts, tmp, world>>
\* The configuration could not be written: the key goes if it came with it.
\* Mutant: it goes in any case.
Orphan_any(c) == TRUE
Orphan(c) == c.generated
Undo ==
  /\ cmd.op \in {"join", "init"} /\ cmd.step = "undo"
  /\ \/ key' = (IF Orphan(cmd) THEN [key EXCEPT ![Full(cmd.k)] = NoKey] ELSE key) /\ UNCHANGED changes
     \/ Orphan(cmd) /\ Spend /\ UNCHANGED key
  /\ End /\ UNCHANGED <<conf, hosts, tmp, world>>

-----------------------------------------------------------------------------
(* keygen, with --force over an old key. *)
keygen(k, force) ==
  /\ cmd = Idle
  /\ key[Full(k)] = NoKey \/ force
  /\ key' = [key EXCEPT ![Full(k)] = NoKey]
  /\ \E i \in Identities : cmd' = [op |-> "keygen", step |-> "key", k |-> k, id |-> i, force |-> force]
  /\ UNCHANGED <<conf, hosts, tmp, world, changes>>

(* peer add: append, load, and write the old text back if it does not load. *)
peer_add(p) ==
  LET id == load_config_and_identity(conf)
      peers == RawOf(conf).peers
  IN  /\ id # NoOne
      /\ p.public_key \in CurvePoints /\ p.public_key # id
      /\ \A i \in DOMAIN p.endpoints : p.endpoints[i].family = "v6"
      /\ \A i \in DOMAIN p.routes : RouteError(p.routes[i]) = "ok"
      /\ \A i \in DOMAIN peers : peers[i].public_key # p.public_key /\ peers[i].name # p.name
      /\ ~Degenerate(p.public_key)
      /\ check_subnet_collisions(KeyOf(peers) \o <<id, p.public_key>>)
      /\ Begin([op |-> "add", step |-> "append", id |-> id, original |-> conf,
                block |-> render_peer_block(p)])
AppendBlock ==
  /\ cmd.op = "add" /\ cmd.step = "append"
  /\ \/ conf' = Append(conf, cmd.block) /\ cmd' = [cmd EXCEPT !.step = "verify"] /\ UNCHANGED changes
     \/ Spend /\ conf' = Append(conf, Torn) /\ End
     \/ Spend /\ End /\ UNCHANGED conf                          \* it could not be opened
  /\ UNCHANGED <<key, hosts, tmp, world>>
Restored(c) == c.original
Verify ==
  /\ cmd.op = "add" /\ cmd.step = "verify"
  /\ \/ ConfigError(conf, cmd.id) = "ok" /\ UNCHANGED <<conf, changes>>
     \/ ConfigError(conf, cmd.id) # "ok" /\ conf' = Restored(cmd) /\ UNCHANGED changes
     \/ ConfigError(conf, cmd.id) # "ok" /\ Spend /\ conf' = <<Torn>>
  /\ End /\ UNCHANGED <<key, hosts, tmp, world>>

(* hosts --out. *)
\* A line for every peer of whose name something is left, in the order of the
\* peers; count(i) is how often the name has come up.
render_hosts(peers, netkey) ==
  LET base(i) == HostBase(peers[i].name)
      count(i) == Cardinality({j \in 1..i : base(j) = base(i)})
  IN  [i \in {i \in DOMAIN peers : base(i).label # ""} |->
         <<derive_node_addr(netkey, peers[i].public_key).address,
           IF count(i) = 1 THEN base(i) ELSE [base(i) EXCEPT !.numbers = Append(@, count(i))]>>]
hosts_out ==
  /\ load_config_and_identity(conf) # NoOne
  /\ Begin([op |-> "hosts", step |-> "tmp", file |-> render_hosts(RawOf(conf).peers, conf[1].key), conf |-> conf])
\* write_atomic: the temporary file, all of it, then the rename.
WriteTmp(file) == tmp' = file /\ UNCHANGED hosts
WriteHosts ==
  /\ cmd.op = "hosts" /\ cmd.step = "tmp"
  /\ \/ WriteTmp("whole") /\ cmd' = [cmd EXCEPT !.step = "rename"] /\ UNCHANGED changes
     \/ Spend /\ WriteTmp("torn") /\ End
  /\ UNCHANGED <<key, conf, world>>
Rename ==
  /\ cmd.op = "hosts" /\ cmd.step = "rename"
  /\ hosts' = tmp /\ tmp' = "none"
  /\ End /\ UNCHANGED <<key, conf, world, changes>>

-----------------------------------------------------------------------------
\* The command is killed; a write it was in may be half done.
Kill ==
  /\ cmd # Idle /\ Spend /\ End
  /\ \/ UNCHANGED files
     \/ cmd.step = "key" /\ key[Full(cmd.k)] = NoKey /\ key' = [key EXCEPT ![Full(cmd.k)] = TornKey]
        /\ UNCHANGED <<conf, hosts, tmp>>
     \/ cmd.step = "write" /\ conf' = <<Torn>> /\ UNCHANGED <<key, hosts, tmp>>
     \/ cmd.step = "append" /\ conf' = Append(conf, Torn) /\ UNCHANGED <<key, hosts, tmp>>
     \/ cmd.op = "hosts" /\ cmd.step = "tmp" /\ WriteTmp("torn") /\ UNCHANGED <<key, conf>>
  /\ UNCHANGED world
\* The user writes the file, or moves it away.
Edit ==
  /\ cmd = Idle /\ Spend
  /\ \E file \in {<<f>> : f \in HandWritten} \cup {NoFile} : file # conf /\ conf' = file
  /\ UNCHANGED <<key, hosts, tmp, cmd, world>>
\* `invite new` at a member of a network; and a token that was changed on the way.
invite_new(m, name, netkey, n, unit, eps) ==
  /\ Spend /\ parse_ttl(n, unit) > 0 /\ eps # <<>>
  /\ tokens' = tokens \cup
       {encode(Invite(name, netkey, m, now, parse_ttl(n, unit), 4193, <<Peer("bootstrap", m, eps)>>), m)}
  /\ UNCHANGED <<files, cmd, now>>
Tampered(t) ==
  {Token([t.parts EXCEPT ![2] = [@ EXCEPT !.expires = @ + 1]], t.size),
   Token([t.parts EXCEPT ![2] = [@ EXCEPT !.network_key = "other"]], t.size),
   Token([t.parts EXCEPT ![2] = Garbage], t.size), Token(SubSeq(t.parts, 1, 2), t.size),
   Token(t.parts, MaxTokenLen + 1)}
ClockTick == now < MaxNow /\ now' = now + 1 /\ UNCHANGED <<files, cmd, tokens, changes>>

V6(a) == [family |-> "v6", addr |-> a]
\* One command at a time.
StartCommand ==
  \/ \E k \in KeyArgs :
       \/ \E t \in tokens : \E u \in {t} \cup Tampered(t) : join_network(u, k)
       \/ \E name \in NetworkNames, netkey \in NetworkKeys, require \in BOOLEAN :
            init_network(name, netkey, k, require)
       \/ \E force \in BOOLEAN : keygen(k, force)
  \/ \E p \in AddArgs : peer_add(p)
  \/ hosts_out
SetupNext ==
  \/ cmd = Idle /\ StartCommand
  \/ SaveKey \/ CreateConfig \/ WriteConfig \/ Undo
  \/ AppendBlock \/ Verify
  \/ WriteHosts \/ Rename
  \/ Kill \/ Edit \/ ClockTick
  \/ \E m \in Members, name \in NetworkNames : invite_new(m, name, MembersKey, 1, 1, <<V6(m)>>)
SetupSpec == SetupInit /\ [][SetupNext]_setupVars

-----------------------------------------------------------------------------
SetupTypeOK ==
  /\ key \in [KeyFiles -> Identities \cup {NoKey, TornKey}]
  /\ conf \in Files \cup {NoFile}
  /\ changes \in 0..MaxChanges /\ now \in 0..MaxNow

\* An address belongs to at most one: to this node's site or to the AllowedIPs
\* of one peer, whatever was written by hand, by `init`, `join` or `peer add`
\* into a file that loads (WireGuard takes a packet's source for a peer's by
\* them, and would move an address that two peers share to the later one).
Unambiguous ==
  LET id == load_config_and_identity(conf) IN
  id # NoOne =>
    LET raw == RawOf(conf)
        spec == build_device_spec(raw)
        ranges == [i \in DOMAIN spec |-> spec[i].allowed_ips] \o
                  <<{Route(derive_node_addr(raw.key, id).site, SiteLen)}>>
        owners(a) == {i \in DOMAIN ranges : \E r \in ranges[i] : contains(r, a)}
    IN  \A a \in Ipv6Addr : \A i, j \in owners(a) : i = j

\* A key that is there is the user's: only keygen --force replaces it, and only
\* the command that made it takes it away again ("never overwrites the user's
\* key", join_network).
KeyKept ==
  [][\A p \in KeyFiles : key[p] \in Identities /\ key'[p] # key[p] =>
       \/ cmd'.op = "keygen" /\ cmd'.force
       \/ cmd.op \in {"join", "init"} /\ cmd.generated /\ cmd.id = key[p]]_setupVars

\* Who joins gets into the network of a member who invited, while the invitation
\* lasts, whatever happened to the token on the way (decode, check_not_expired).
JoinedByInvitation ==
  [][cmd = Idle /\ cmd'.op = "join" =>
       \E t \in tokens : /\ t.parts[2].network_key = cmd'.file[1].key
                         /\ now =< t.parts[2].expires]_setupVars

\* A join or an init that reports success leaves a configuration that loads, with
\* the key it used (key_file_ref_for_config and load_config_and_identity), where
\* the network's name needs no escaping and the key's path is absolute or below
\* the directory of the configuration as it is written.
Succeeds == cmd.op \in {"join", "init"} /\ cmd.step = "write" /\ conf' = cmd.file
Located(k) == k.abs \/ Below(k, parent(ConfArg))
SetupUsableThere ==
  [][Succeeds /\ Located(cmd.k) /\ cmd.file[1].name \notin Unescaped
       => load_config_and_identity(conf)' = cmd.id]_setupVars

\* `peer add` changes a configuration that loads into one that loads, or not at
\* all, unless the write itself is cut off.
AddKeeps ==
  [][cmd.op = "add" /\ cmd' = Idle /\ changes' = changes =>
       /\ conf' \in {cmd.original, Append(cmd.original, cmd.block)}
       /\ load_config_and_identity(conf)' # NoOne]_setupVars

\* The hosts file is never half of one, wherever a command is killed.
HostsWhole == hosts # "torn"
\* No name stands for two nodes in it, unless a peer's own name looks like one
\* that was made unique (render_hosts counts the names before the suffix).
Suffixed == \E i \in DOMAIN RawOf(cmd.conf).peers : HostBase(RawOf(cmd.conf).peers[i].name).numbers # <<>>
HostsDistinct ==
  cmd.op = "hosts" => Suffixed \/ \A i, j \in DOMAIN cmd.file : i # j => cmd.file[i][2] # cmd.file[j][2]

\* What the commands leave on disk is fit for use, wherever they are interrupted:
\* configurations that load, and hosts files that are whole and say one thing.
FilesSound == [](SetupTypeOK /\ HostsWhole /\ HostsDistinct) /\ SetupUsableThere /\ AddKeeps
=============================================================================
