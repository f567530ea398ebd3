----------------------------- MODULE Lifecycle ------------------------------
(***************************************************************************)
(* The life of a daemon inside its host, and what a reader of its state    *)
(* file is told.  Three hosts run the same run_async:                      *)
(*   "foreground"  `hextet daemon`: run and its signal bridge (Linux, the  *)
(*                 status command asks the kernel),                        *)
(*   "windows"     `hextet service run` under the service manager,         *)
(*   "android"     the VpnService, through the FFI registry of handles.    *)
(* A daemon is named by its handle.  Side tasks of a daemon end when their *)
(* channel closes (gossip stands for them); the state file is written in   *)
(* three steps by every daemon of the process.                             *)
(***************************************************************************)
EXTENDS Slips, StatusFile, FiniteSets

CONSTANTS
    Hosts,          \* hosts to consider
    MaxDaemons      \* bound: daemons started in one process

ASSUME LifecycleAssumption == MaxDaemons \in Nat \ {0}

Daemons == 1 .. MaxDaemons

VARIABLES
    host,
    task,           \* per handle: the JoinHandle's task
    asked,          \* handles whose shutdown channel holds a message
    registry,       \* DAEMONS
    service,        \* the host's service: made, handle, stop, sticky
    main,           \* the host's thread: the handle it waits for and why
    binding,        \* daemons whose gossip task has not bound its port yet
    gossip,         \* the daemon whose gossip task holds the port, or 0
    writer,         \* per handle: where the open temporary file points
    files,          \* the state file and its temporary file
    wall,           \* the clock, in seconds
    age,            \* seconds since a daemon replaced the state file
    handshake       \* the backend's last handshake: clock time and age

process == <<task, asked, registry, binding, gossip, writer>>
clock == <<wall, age, handshake>>
lifecycleVars == <<host, service, main, process, files, clock, slips, changes>>

Live == {d \in Daemons : task[d] \in {"starting", "running"}}

NotWaiting == main.waits = 0

\* No temporary file is open in the daemon.
Closed == [at |-> "closed", written |-> FALSE]

NoProcess ==
    /\ task' = [d \in Daemons |-> "none"]
    /\ asked' = {}
    /\ registry' = {}
    /\ binding' = {}
    /\ gossip' = 0
    /\ writer' = [d \in Daemons |-> Closed]

LifecycleTypeOK ==
    /\ host \in Hosts
    /\ task \in [Daemons -> {"none", "starting", "running", "ended", "failed"}]
    /\ asked \subseteq Daemons
    /\ registry \subseteq Daemons
    /\ service \in [made: BOOLEAN, handle: {0} \cup Daemons, stop: BOOLEAN, sticky: BOOLEAN]
    /\ main \in [waits: {0} \cup Daemons, for: {"nothing", "destroy", "revoke", "stopped", "exit"}]
    /\ binding \subseteq Daemons
    /\ gossip \in {0} \cup Daemons
    /\ writer \in [Daemons -> [at: Targets, written: BOOLEAN]]
    /\ files \in Files
    /\ wall \in Secs
    /\ age \in 0 .. FreshSecs + 1
    /\ handshake \in [time: {NoHandshake} \cup Secs, age: 0 .. ConnectedSecs + FreshSecs]
    /\ slips \subseteq {"two daemons", "set back", "set ahead"}
    /\ changes \in 0 .. MaxChanges

LifecycleInit ==
    /\ host \in Hosts
    /\ service = [made |-> FALSE, handle |-> 0, stop |-> FALSE, sticky |-> FALSE]
    /\ main = [waits |-> 0, for |-> "nothing"]
    /\ task = [d \in Daemons |-> "none"]
    /\ asked = {} /\ registry = {} /\ binding = {} /\ gossip = 0
    /\ writer = [d \in Daemons |-> Closed]
    /\ files \in [path: {Absent, Whole(StateVersion - 1, 0, 0)}, tmp: {Absent}]
    /\ wall = 0 /\ age = FreshSecs + 1
    /\ handshake = [time |-> NoHandshake, age |-> 0]
    /\ slips = {} /\ changes = 0

-----------------------------------------------------------------------------
(* run_async, as far as its host and its side tasks see it                 *)

\* spawn_with_transport: the task is started; its errors are seen on joining.
spawn_with_transport(d) ==
    /\ task[d] = "none"
    /\ \A e \in Daemons : e < d => task[e] # "none"
    /\ task' = [task EXCEPT ![d] = "starting"]
    /\ UNCHANGED <<asked, binding, gossip, writer>>

\* The configuration, the state directory, the device or the address fails.
StartFails(d) ==
    /\ task[d] = "starting"
    /\ task' = [task EXCEPT ![d] = "failed"]
    /\ UNCHANGED <<host, service, main, asked, registry, binding, gossip, writer, files,
                   clock, slips, changes>>

\* Mutant: what the shutdown channel holds by now is dropped.
Started_drains(d) ==
    /\ task[d] = "starting"
    /\ task' = [task EXCEPT ![d] = "running"]
    /\ binding' = binding \cup {d}
    /\ asked' = asked \ {d}
    /\ UNCHANGED <<host, service, main, registry, gossip, writer, files, clock, slips, changes>>

\* The data plane is there and the side tasks are spawned.
Started(d) ==
    /\ task[d] = "starting"
    /\ task' = [task EXCEPT ![d] = "running"]
    /\ binding' = binding \cup {d}
    /\ UNCHANGED <<host, service, main, asked, registry, gossip, writer, files, clock,
                   slips, changes>>

\* gossip::serve binds its port, or ends with the error.
GossipBinds(d) ==
    /\ d \in binding
    /\ binding' = binding \ {d}
    /\ gossip' = IF gossip = 0 THEN d ELSE gossip
    /\ UNCHANGED <<host, service, main, task, asked, registry, writer, files, clock, slips,
                   changes>>

\* The daemon's ends of the channels are dropped: recv gives None.
GossipEnds ==
    /\ gossip # 0 /\ task[gossip] \notin {"starting", "running"}
    /\ gossip' = 0
    /\ UNCHANGED <<host, service, main, task, asked, registry, binding, writer, files, clock,
                   slips, changes>>

\* The handshake time that the backend reports: the kernel keeps the time, the
\* userspace backend an age.
observed ==
    IF host = "foreground" \/ handshake.time = NoHandshake THEN handshake.time
    ELSE saturating_sub(wall, handshake.age)

\* tick_once, at its end: the state file is written, once a second.
TickOpens(d) ==
    /\ task[d] = "running" /\ writer[d] = Closed
    /\ age > 0
    /\ files' = open_tmp(files)
    /\ writer' = [writer EXCEPT ![d] = [at |-> "tmp", written |-> FALSE]]
    /\ UNCHANGED <<host, service, main, task, asked, registry, binding, gossip, clock, slips,
                   changes>>

TickWrites(d) ==
    /\ writer[d] # Closed /\ ~writer[d].written
    /\ files' = write_all(files, writer[d].at,
                          Whole(StateVersion, wall, last_handshake_secs(observed, wall)))
    /\ writer' = [writer EXCEPT ![d].written = TRUE]
    /\ UNCHANGED <<host, service, main, task, asked, registry, binding, gossip, clock, slips,
                   changes>>

TickRenames(d) ==
    /\ writer[d].written
    /\ files' = rename(files)
    /\ writer' = [e \in Daemons |->
                    IF e = d THEN Closed ELSE [writer[e] EXCEPT !.at = Renamed(files, @)]]
    /\ age' = IF files.tmp.kind = "absent" THEN age ELSE 0
    /\ UNCHANGED <<host, service, main, task, asked, registry, binding, gossip, wall,
                   handshake, slips, changes>>

\* The loop takes the shutdown branch; the routes are removed and run_async ends.
LoopBreaks(d) ==
    /\ task[d] = "running" /\ writer[d] = Closed /\ d \in asked
    /\ task' = [task EXCEPT ![d] = "ended"]
    /\ UNCHANGED <<host, service, main, asked, registry, binding, gossip, writer, files,
                   clock, slips, changes>>

-----------------------------------------------------------------------------
(* `hextet daemon`: run and signal_shutdown_bridge; the thread blocks on    *)
(* run_async from the start.                                                *)

Run ==
    /\ host = "foreground" /\ NotWaiting /\ Spend
    /\ spawn_with_transport(1)
    /\ service' = [service EXCEPT !.made = TRUE]
    /\ main' = [waits |-> 1, for |-> "exit"]
    /\ UNCHANGED <<host, registry, files, clock, slips>>

Signal ==
    /\ main.for = "exit" /\ 1 \notin asked
    /\ asked' = asked \cup {1}
    /\ UNCHANGED <<host, service, main, task, registry, binding, gossip, writer, files, clock, slips,
                   changes>>

(* service.rs: the service manager is told "running" before the spawn.      *)

ServiceRuns ==
    /\ host = "windows" /\ ~service.made /\ Spend
    /\ spawn_with_transport(1)
    /\ service' = [service EXCEPT !.made = TRUE]
    /\ UNCHANGED <<host, main, registry, files, clock, slips>>

ServiceStops ==
    /\ host = "windows" /\ service.made /\ NotWaiting
    /\ asked' = asked \cup {1}
    /\ main' = [waits |-> 1, for |-> "stopped"]
    /\ UNCHANGED <<host, service, task, registry, binding, gossip, writer, files, clock, slips,
                   changes>>

(* engine-ffi: the registry of handles                                      *)

daemon_spawn_with_fd(d) == spawn_with_transport(d) /\ registry' = registry \cup {d}

\* The handle is taken out, the message is sent and the caller blocks until
\* run_async has ended.  A handle not in the registry is an error at once.
daemon_shutdown(handle, for) ==
    /\ handle \in registry
    /\ registry' = registry \ {handle}
    /\ asked' = asked \cup {handle}
    /\ main' = [waits |-> handle, for |-> for]
    /\ UNCHANGED <<task, binding, gossip, writer>>

(* HextetVpnService: its callbacks run one at a time on the main thread.    *)

Gone == [made |-> FALSE, handle |-> 0, stop |-> FALSE, sticky |-> FALSE]

\* The start button, after the consent, or the system restarting a sticky
\* service whose process died (the intent is null then).
Starting == host = "android" /\ NotWaiting /\ ~service.stop

\* No configuration, no tunnel, or no handle from the FFI: fail() stops the service.
OnStartFails ==
    /\ Starting
    /\ IF service.sticky /\ ~service.made THEN UNCHANGED changes ELSE Spend
    /\ service' = [service EXCEPT !.made = TRUE, !.stop = TRUE, !.sticky = FALSE]
    /\ UNCHANGED <<host, main, process, files, clock, slips>>

OnStartCommand(d) ==
    /\ Starting
    /\ IF service.sticky /\ ~service.made THEN UNCHANGED changes ELSE Spend
    /\ daemon_spawn_with_fd(d)
    /\ service' = [made |-> TRUE, handle |-> d, stop |-> FALSE, sticky |-> TRUE]
    /\ slips' = IF Live = {} THEN slips ELSE slips \cup {"two daemons"}
    /\ UNCHANGED <<host, main, files, clock>>

\* The stop button (stopService), or ACTION_STOP (stopSelf).
StopService ==
    /\ host = "android" /\ NotWaiting /\ service.made /\ ~service.stop
    /\ service' = [service EXCEPT !.stop = TRUE, !.sticky = FALSE]
    /\ UNCHANGED <<host, main, process, files, clock, slips, changes>>

OnDestroy ==
    /\ host = "android" /\ NotWaiting /\ service.made /\ service.stop
    /\ IF service.handle \in registry
       THEN /\ daemon_shutdown(service.handle, "destroy")
            /\ service' = [service EXCEPT !.handle = 0]
       ELSE service' = Gone /\ UNCHANGED <<process, main>>
    /\ UNCHANGED <<host, files, clock, slips, changes>>

\* Mutant: the handle is forgotten and only the service is stopped.
OnRevoke_only_stops ==
    /\ host = "android" /\ NotWaiting /\ service.made /\ ~service.stop /\ service.handle # 0
    /\ service' = [service EXCEPT !.handle = 0, !.stop = TRUE, !.sticky = FALSE]
    /\ UNCHANGED <<host, main, process, files, clock, slips, changes>>

\* The user takes the permission back.
OnRevoke ==
    /\ host = "android" /\ NotWaiting /\ service.made /\ ~service.stop /\ service.handle # 0
    /\ daemon_shutdown(service.handle, "revoke")
    /\ service' = [service EXCEPT !.handle = 0]
    /\ UNCHANGED <<host, files, clock, slips, changes>>

\* The task the thread waits for has ended, well or not.
Joined ==
    /\ ~NotWaiting /\ task[main.waits] \in {"ended", "failed"}
    /\ main' = [waits |-> 0, for |-> "nothing"]
    /\ IF main.for = "revoke"
       THEN service' = [service EXCEPT !.stop = TRUE, !.sticky = FALSE] /\ UNCHANGED process
       ELSE service' = Gone /\ IF host = "android" THEN UNCHANGED process ELSE NoProcess
    /\ UNCHANGED <<host, files, clock, slips, changes>>

\* The process is killed at any point.
Killed ==
    /\ service.made /\ Spend
    /\ NoProcess
    /\ service' = [Gone EXCEPT !.sticky = service.sticky]
    /\ main' = [waits |-> 0, for |-> "nothing"]
    /\ UNCHANGED <<host, files, clock, slips>>

-----------------------------------------------------------------------------
(* Time.  Writing the file takes less than a second.                        *)

Handshake ==
    /\ host # "android" /\ \E d \in Daemons : task[d] = "running"
    /\ handshake' = [time |-> wall, age |-> 0]
    /\ UNCHANGED <<host, service, main, process, files, wall, age, slips, changes>>

Min2(a, b) == IF a < b THEN a ELSE b

Second ==
    /\ wall < MaxSecs
    /\ \A d \in Daemons : writer[d] = Closed
    /\ wall' = wall + 1
    /\ age' = Min2(age + 1, FreshSecs + 1)
    /\ handshake' = [handshake EXCEPT !.age = Min2(@ + 1, ConnectedSecs + FreshSecs)]
    /\ UNCHANGED <<host, service, main, process, files, slips, changes>>

\* The clock is set.
ClockSet(t) ==
    /\ t # wall /\ Spend
    /\ wall' = t
    /\ slips' = slips \cup {IF t < wall THEN "set back" ELSE "set ahead"}
    /\ UNCHANGED <<host, service, main, process, files, age, handshake>>

DaemonSteps(d) ==
    \/ StartFails(d) \/ Started(d) \/ GossipBinds(d)
    \/ TickOpens(d) \/ TickWrites(d) \/ TickRenames(d) \/ LoopBreaks(d)

LifecycleNext ==
    \/ \E d \in Daemons : DaemonSteps(d) \/ OnStartCommand(d)
    \/ GossipEnds
    \/ Run \/ Signal \/ ServiceRuns \/ ServiceStops
    \/ OnStartFails \/ StopService \/ OnDestroy \/ OnRevoke \/ Joined \/ Killed
    \/ Handshake \/ Second \/ \E t \in Secs : ClockSet(t)

LifecycleSpec == LifecycleInit /\ [][LifecycleNext]_lifecycleVars

\* The runtime polls its ready tasks, and the thread returns from a join that is done.
FairLifecycle ==
    /\ LifecycleSpec
    /\ WF_lifecycleVars(\/ \E d \in Daemons : \/ StartFails(d) \/ Started(d) \/ GossipBinds(d)
                                     \/ TickWrites(d) \/ TickRenames(d) \/ LoopBreaks(d)
               \/ GossipEnds \/ Joined)

-----------------------------------------------------------------------------
(* Properties                                                              *)

\* What `hextet status` (or the FFI's status) says now.
report ==
    IF host = "foreground" THEN build_report(files.path, observed, wall)
    ELSE build_report_from_state(files.path, wall)

\* Once a host's service is gone (onDestroy has returned, the service manager
\* was told "stopped"), no daemon it started is at work, unless the service
\* was started while a daemon was up: onStartCommand then overwrites
\* daemonHandle.
StopsCleanly ==
    NotWaiting /\ ~service.made /\ "two daemons" \notin slips => Live = {}

\* A daemon of the app can always be stopped through the FFI: its handle is
\* in the registry, or a thread is waiting for its end, however often the
\* service was started.
HandleKept ==
    host = "android" => \A d \in Live : d \in registry \/ main.waits = d

\* Whoever reads the state file finds a whole one, whatever the daemon is
\* doing and wherever it was killed (atomic.rs), as long as one daemon writes.
NeverTorn ==
    "two daemons" \notin slips => files.path.kind # "torn"

\* "running" is only said of a daemon that replaced the state file within
\* the last FreshSecs seconds, unless the clock was set back.
StoppedShown ==
    report.daemon = "running" /\ "set back" \notin slips => age <= FreshSecs

\* A daemon that wrote within FreshSecs seconds is said to be running, also
\* after the clock was set back (the saturating subtraction).
RunningShown ==
    age <= FreshSecs /\ slips \subseteq {"set back"} => report.daemon = "running"

\* "connected" is only said, for a running daemon, of a peer whose handshake
\* is younger than ConnectedSecs, and up to FreshSecs more where the row comes
\* from the state file.
ConnectedIsFresh ==
    report.row = "connected" /\ report.daemon = "running" /\ slips \subseteq {"two daemons"} =>
        /\ handshake.time # NoHandshake
        /\ handshake.age < ConnectedSecs + IF host = "foreground" THEN 0 ELSE FreshSecs

\* A thread that waits for a daemon's end is let go: the message may come
\* while the daemon still starts, or after it failed.
ShutdownEnds ==
    main.waits # 0 /\ main.for # "exit" ~> main.waits = 0

\* The side tasks end with the daemon: when no daemon is left, the gossip port
\* is free in the end, for the next start in the same process.
SideTasksEnd ==
    <>[](Live = {}) => <>[](gossip = 0)

\* No daemon is out of its host's reach, in any state.
NoneLeftBehind == StopsCleanly /\ HandleKept

\* What `hextet status` and the apps show is true of the daemon, up to the
\* seconds between two writes of the state file.
StatusTrue == LifecycleTypeOK /\ NeverTorn /\ StoppedShown /\ RunningShown /\ ConnectedIsFresh

\* A shutdown comes to its end, and the side tasks with it.
TasksEnd == ShutdownEnds /\ SideTasksEnd
=============================================================================
