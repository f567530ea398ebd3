----------------------------- MODULE StatusFile -----------------------------
(***************************************************************************)
(* The daemon's state file and the reports built from it: how old a file   *)
(* may be before the daemon counts as stopped (engine/status.rs), what a   *)
(* peer's row says (engine/status.rs, engine/daemon.rs), and the temporary *)
(* file, write and rename of engine/atomic.rs that replace the file.       *)
(*                                                                         *)
(* A file's content is one peer's handshake age and the time of writing.   *)
(* A writer's open handle follows the file it opened: after a rename the   *)
(* handle points at the new state file, and after another at no file.      *)
(***************************************************************************)
EXTENDS Integers

CONSTANTS
    FreshSecs,      \* DAEMON_FRESH_SECS, 10 in the code
    ConnectedSecs,  \* a handshake younger than this is "connected", 180 s
    StateVersion,   \* STATE_VERSION
    MaxSecs         \* bound: the clock stays in 0 .. MaxSecs

ASSUME StatusAssumption ==
    FreshSecs \in Nat /\ ConnectedSecs \in Nat \ {0} /\ MaxSecs \in Nat /\ StateVersion \in Nat

\* `Option<u64>` of seconds: NoHandshake is `None`.
NoHandshake == -1

Secs == 0 .. MaxSecs

Whole(version, updated_unix, secs) ==
    [kind |-> "whole", version |-> version, updated_unix |-> updated_unix, secs |-> secs]

\* No file, and a file of which only a part is there (not JSON).
Absent == [kind |-> "absent", version |-> 0, updated_unix |-> 0, secs |-> NoHandshake]
Torn == [Absent EXCEPT !.kind = "torn"]

Contents == {Absent, Torn}
    \cup [kind: {"whole"}, version: {StateVersion - 1, StateVersion},
          updated_unix: Secs, secs: {NoHandshake} \cup Secs]

-----------------------------------------------------------------------------
(* atomic.rs: one shared temporary name beside the file.                   *)

Files == [path: Contents, tmp: Contents]

Targets == {"closed", "tmp", "path", "gone"}

\* open(tmp) with truncate
open_tmp(files) == [files EXCEPT !.tmp = Torn]

\* to_writer_pretty, write_all and sync_all through a handle opened earlier
write_all(files, target, content) ==
    CASE target = "tmp" -> [files EXCEPT !.tmp = content]
      [] target = "path" -> [files EXCEPT !.path = content]
      [] OTHER -> files

\* rename(tmp, path): an error when no temporary file is there
rename(files) ==
    IF files.tmp.kind = "absent" THEN files ELSE [path |-> files.tmp, tmp |-> Absent]

\* where another open handle points once the rename is done
Renamed(files, target) ==
    IF files.tmp.kind = "absent" THEN target
    ELSE CASE target = "tmp" -> "path" [] target = "path" -> "gone" [] OTHER -> target

-----------------------------------------------------------------------------
(* state.rs and status.rs                                                  *)

saturating_sub(a, b) == IF a > b THEN a - b ELSE 0

secs_ago(now_unix, updated_unix) == saturating_sub(now_unix, updated_unix)

daemon_freshness(updated_unix, now_unix) == secs_ago(now_unix, updated_unix) <= FreshSecs

\* state::read and the version filter: a file that does not parse, or of
\* another version, is no daemon state.
known(content) == content.kind = "whole" /\ content.version = StateVersion

\* `report.daemon`: absent, or running or not
daemon_info(content, now_unix) ==
    IF ~known(content) THEN "no daemon"
    ELSE IF daemon_freshness(content.updated_unix, now_unix) THEN "running" ELSE "not running"

\* classify: from the backend's handshake time
classify(last_handshake, now_unix) ==
    IF last_handshake = NoHandshake THEN "no-handshake"
    ELSE IF now_unix >= last_handshake /\ now_unix - last_handshake < ConnectedSecs THEN "connected"
    ELSE "stale"

\* Mutant: an age of ConnectedSecs still counts.
row_state_late(secs) ==
    IF secs = NoHandshake THEN "no-handshake" ELSE IF secs <= ConnectedSecs THEN "connected" ELSE "stale"

\* the same from the age the daemon recorded
row_state(secs) ==
    IF secs = NoHandshake THEN "no-handshake" ELSE IF secs < ConnectedSecs THEN "connected" ELSE "stale"

\* peer_state_of: `now.duration_since(t).ok()`, so a handshake of the future
\* is recorded as none.
last_handshake_secs(last_handshake, now_unix) ==
    IF last_handshake = NoHandshake \/ last_handshake > now_unix THEN NoHandshake
    ELSE now_unix - last_handshake

build_report(content, last_handshake, now_unix) ==
    [daemon |-> daemon_info(content, now_unix), row |-> classify(last_handshake, now_unix)]

build_report_from_state(content, now_unix) ==
    [daemon |-> daemon_info(content, now_unix),
     row |-> IF known(content) THEN row_state(content.secs) ELSE "no row"]
=============================================================================
