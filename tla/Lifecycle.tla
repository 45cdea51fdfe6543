----------------------------- MODULE Lifecycle -----------------------------
(***************************************************************************)
(* The life of one instance (runtime.py): init publishes a generation,     *)
(* build pins images, start closes the host guards, brings up the          *)
(* containers, fences them, starts the audit processes and enables the     *)
(* route, and stop takes it all down.  A command holds the lifecycle lock; *)
(* any of its steps may fail, the controller may be killed between two of  *)
(* them, processes and containers may die and the host may reboot.         *)
(*                                                                         *)
(* A process is seen as the manifest's pid in /proc: not there, before its *)
(* exec (nsenter), up, a zombie of the running controller, or reused by a  *)
(* foreign process.                                                        *)
(***************************************************************************)
EXTENDS Naturals, Sequences

CONSTANTS
    Controllers,     \* sandboxctl processes
    NumProbes,       \* audit probes, in the order they are started
    Wrapped,         \* the probes that nsenter starts (tcpdump)
    Images,          \* contents a build may produce
    None,
    MaxGenerations,  \* bound: calls of init
    MaxFaults        \* bound: failing operations, processes and pids per command

ASSUME LifecycleAssumption ==
    /\ NumProbes \in Nat \ {0} /\ Wrapped \subseteq 1..NumProbes
    /\ None \notin Controllers \cup Images
    /\ MaxGenerations \in Nat /\ MaxFaults \in Nat

Watchdog == NumProbes + 1
Audits == 1..Watchdog
Live == {"early", "up"}

VARIABLES
    \* the controllers
    lock, cmd, at,         \* the command and the index of its step
    item,                  \* index in the loop over audit processes
    faults,
    \* generated/current, the image tag and the image record
    current, image, pinned,
    \* the host: systemd units, nft tables, /etc/hosts.allow
    unit, guard, hostsAllow,
    \* the containers, and what the target was started from
    infra, target, runGen, runImage,
    \* their network namespaces: cdm_control tables and the default route
    infraFenced, fenced, route,
    \* audit-active.json, the audit processes and the flows
    manifest, entry, proc,
    flow,                  \* flows.mitm holds flows that are not archived
    child,                 \* started by the command that runs now
    stray,                 \* an older process lives that a newer one has replaced
    lost                   \* history, since the boot: a process was left between its
                           \* start and its record by a kill or by two failed writes

control == <<lock, cmd, at, item, faults>>
images == <<current, image, pinned>>
host == <<unit, guard, hostsAllow>>
started == <<runGen, runImage>>
net == <<infraFenced, fenced, route>>
docker == <<infra, target, started, net>>
audit == <<manifest, entry, proc, child, stray, lost, flow>>
vars == <<control, images, host, docker, audit>>

Init ==
    /\ lock = None /\ faults = 0
    /\ cmd = [c \in Controllers |-> "none"] /\ at = [c \in Controllers |-> 1]
    /\ item = [c \in Controllers |-> 1]
    /\ current = 0 /\ image = None /\ pinned = None
    /\ unit = FALSE /\ guard = [g \in {"parent", "ssh"} |-> "absent"] /\ hostsAllow = FALSE
    /\ infra = "absent" /\ target = "down" /\ runGen = 0 /\ runImage = None
    /\ infraFenced = FALSE /\ fenced = FALSE /\ route = FALSE
    /\ manifest = FALSE /\ child = {} /\ stray = {} /\ lost = {} /\ flow = FALSE
    /\ entry = [k \in Audits |-> "none"] /\ proc = [k \in Audits |-> "none"]

-----------------------------------------------------------------------------
(* The order of the steps *)

\* Mutant: the route is enabled before the target has its nft table.
Try_RouteFirst ==
    <<"openParent", "openSsh", "allowSsh", "upInfra", "waitHealthy", "fenceInfra", "upTarget",
      "enableRoute", "fenceTarget", "openAudit", "spawn", "record", "ready">>

\* What start does inside its try block.
Try ==
    <<"openParent", "openSsh", "allowSsh", "upInfra", "waitHealthy", "fenceInfra", "upTarget",
      "fenceTarget", "openAudit", "spawn", "record", "ready", "enableRoute">>

\* What it does before.
Before ==
    <<"check", "install", "closeParent", "closeSsh", "denySsh", "stopAudit", "archive", "create">>

\* The except clause of start, and most of stop.
Closing == <<"disableRoute", "stopAudit", "down", "closeParent", "closeSsh", "denySsh">>

Plan ==
    [none |-> << >>, init |-> <<"check", "activate">>, build |-> <<"check", "build", "pin">>,
     start |-> Before \o Try, cleanup |-> Closing, stop |-> Closing \o <<"archive">>,
     raised |-> << >>, aborted |-> << >>]

\* A command is done after its last step, or when an exception left it.
Done(c) == cmd[c] # "none" /\ at[c] > Len(Plan[cmd[c]])
At(c, name) == cmd[c] # "none" /\ ~Done(c) /\ Plan[cmd[c]][at[c]] = name

Goto(c, place, k) ==
    /\ at' = [at EXCEPT ![c] = place] /\ item' = [item EXCEPT ![c] = k]
    /\ UNCHANGED <<lock, cmd>>
Advance(c) == Goto(c, at[c] + 1, 1) /\ UNCHANGED faults

\* An exception: from the try block of start it leads to the except clause;
\* from anywhere else, that clause included, the rest is skipped.
Unwind(c) ==
    /\ cmd' = [cmd EXCEPT ![c] =
                 IF cmd[c] = "start" /\ at[c] > Len(Before) THEN "cleanup"
                 ELSE IF cmd[c] = "cleanup" THEN "aborted" ELSE "raised"]
    /\ at' = [at EXCEPT ![c] = 1] /\ item' = [item EXCEPT ![c] = 1]
    /\ UNCHANGED lock
Raise(c) == Unwind(c) /\ UNCHANGED faults

Faulty(n) == faults + n <= MaxFaults /\ faults' = faults + n
Fault(c) == Faulty(1) /\ Unwind(c)

\* The operation has its effect, and the check after it may still fail.
Proceed(c) == Advance(c) \/ Fault(c)

\* A step fails before it has any effect.  The down of the except clause
\* (check=False) raises nothing; recording and waiting have handlers of their own.
Fails(c) ==
    /\ cmd[c] # "none" /\ ~Done(c)
    /\ ~At(c, "record") /\ ~At(c, "ready") /\ ~(cmd[c] = "cleanup" /\ At(c, "down"))
    /\ Fault(c)
    /\ UNCHANGED <<images, host, docker, audit>>

-----------------------------------------------------------------------------
(* Commands *)

\* load_runtime finds the manifest of the generation that current points to.
Loads == current # 0

\* Mutant: the lock is taken shared.
Begin_NoLock(c, command) ==
    /\ cmd[c] = "none"
    /\ command = "stop" => Loads
    /\ command = "init" => current < MaxGenerations
    /\ lock' = c /\ cmd' = [cmd EXCEPT ![c] = command] /\ faults' = 0
    /\ UNCHANGED <<at, item, images, host, docker, audit>>

\* Without the lock a command ends at once; so does a stop with nothing to load.
Begin(c, command) ==
    /\ lock = None /\ cmd[c] = "none"
    /\ command = "stop" => Loads
    /\ command = "init" => current < MaxGenerations
    /\ lock' = c /\ cmd' = [cmd EXCEPT ![c] = command] /\ faults' = 0
    /\ UNCHANGED <<at, item, images, host, docker, audit>>

\* The children of a controller that ends are reaped by init.
Orphaned == [k \in Audits |-> IF proc[k] = "zombie" THEN "none" ELSE proc[k]]

Leave(c) ==
    /\ cmd' = [cmd EXCEPT ![c] = "none"]
    /\ at' = [at EXCEPT ![c] = 1] /\ item' = [item EXCEPT ![c] = 1]
    /\ lock' = IF lock = c THEN None ELSE lock
    /\ child' = {} /\ UNCHANGED faults

Return(c) ==
    /\ Done(c) /\ Leave(c) /\ proc' = Orphaned
    /\ UNCHANGED <<images, host, docker, manifest, entry, stray, lost, flow>>

Stopped == infra # "running" /\ target = "down"

\* Mutant: init does not ask whether the instance runs.
Permitted_InitRunning(command) ==
    \/ command = "init"
    \/ command = "build" /\ Loads /\ Stopped
    \/ command = "start" /\ Loads /\ pinned # None /\ image = pinned /\ target = "down"

\* init and build want a stopped instance; start wants an initialised one, the
\* pinned image and no target.
Permitted(command) ==
    \/ command = "init" /\ Stopped
    \/ command = "build" /\ Loads /\ Stopped
    \/ command = "start" /\ Loads /\ pinned # None /\ image = pinned /\ target = "down"

\* compose ps is not checked: if it fails, start takes a target for none.
Unnoticed(command) ==
    command = "start" /\ target = "up" /\ Loads /\ pinned # None /\ image = pinned

Check(c) ==
    /\ At(c, "check")
    /\ \/ Permitted(cmd[c]) /\ Advance(c)
       \/ ~Permitted(cmd[c]) /\ Raise(c)
       \/ Unnoticed(cmd[c]) /\ Faulty(1) /\ Goto(c, at[c] + 1, 1)
    /\ UNCHANGED <<images, host, docker, audit>>

\* The pointer is replaced.  If the fsync after it fails, the generation it
\* points to is removed, and there is none to load.
Activate(c) ==
    /\ At(c, "activate") /\ current < MaxGenerations
    /\ \/ current' = current + 1 /\ Advance(c)
       \/ current' = 0 /\ Fault(c)
    /\ UNCHANGED <<image, pinned, host, docker, audit>>

Build(c) ==
    /\ At(c, "build")
    /\ image' \in Images
    /\ Proceed(c)
    /\ UNCHANGED <<current, pinned, host, docker, audit>>

\* A record is never replaced.
Pin(c) ==
    /\ At(c, "pin")
    /\ IF pinned = None THEN pinned' = image /\ Proceed(c)
       ELSE UNCHANGED pinned /\ (IF pinned = image THEN Advance(c) ELSE Raise(c))
    /\ UNCHANGED <<current, image, host, docker, audit>>

-----------------------------------------------------------------------------
(* Host guards *)

\* Mutant: the guards are not made persistent.
Install_NoUnit(c) ==
    /\ At(c, "install") /\ Proceed(c)
    /\ UNCHANGED <<images, host, docker, audit>>

Install(c) ==
    /\ At(c, "install") /\ unit' = TRUE /\ Proceed(c)
    /\ UNCHANGED <<images, guard, hostsAllow, docker, audit>>

SetGuard(g, state) == guard' = [guard EXCEPT ![g] = state]

CloseGuard(c) ==
    /\ \/ At(c, "closeParent") /\ SetGuard("parent", "stopped")
       \/ At(c, "closeSsh") /\ SetGuard("ssh", "stopped")
    /\ Proceed(c)
    /\ UNCHANGED <<images, unit, hostsAllow, docker, audit>>

\* The open parent guard names the bridge of the upstream network.
OpenGuard(c) ==
    /\ \/ At(c, "openParent") /\ infra # "absent" /\ SetGuard("parent", "open") /\ Proceed(c)
       \/ At(c, "openParent") /\ infra = "absent" /\ UNCHANGED guard /\ Raise(c)
       \/ At(c, "openSsh") /\ SetGuard("ssh", "open") /\ Proceed(c)
    /\ UNCHANGED <<images, unit, hostsAllow, docker, audit>>

HostsAllow(c) ==
    /\ At(c, "allowSsh") \/ At(c, "denySsh")
    /\ hostsAllow' = At(c, "allowSsh")
    /\ Proceed(c)
    /\ UNCHANGED <<images, unit, guard, docker, audit>>

-----------------------------------------------------------------------------
(* Containers and their network *)

Create(c) ==
    /\ At(c, "create")
    /\ infra' = IF infra = "absent" THEN "created" ELSE infra
    /\ Proceed(c)
    /\ UNCHANGED <<images, host, target, started, net, audit>>

\* A container that is started has a new network namespace.
UpInfra(c) ==
    /\ At(c, "upInfra")
    /\ infra' = "running" /\ infraFenced' = (infra = "running" /\ infraFenced) /\ flow' = TRUE
    /\ Proceed(c)
    /\ UNCHANGED <<images, host, target, started, fenced, route, manifest, entry, proc, child, stray, lost>>

WaitHealthy(c) ==
    /\ At(c, "waitHealthy")
    /\ IF infra = "running" THEN Advance(c) ELSE Raise(c)
    /\ UNCHANGED <<images, host, docker, audit>>

FenceInfra(c) ==
    /\ At(c, "fenceInfra")
    /\ IF infra = "running" THEN infraFenced' = TRUE /\ Proceed(c)
       ELSE UNCHANGED infraFenced /\ Raise(c)
    /\ UNCHANGED <<images, host, infra, target, started, fenced, route, audit>>

\* The target depends on no other service; one that runs is left as it is.
UpTarget(c) ==
    /\ At(c, "upTarget")
    /\ target' = "up"
    /\ IF target = "up" THEN UNCHANGED <<started, fenced, route>>
       ELSE runGen' = current /\ runImage' = image /\ fenced' = FALSE /\ route' = FALSE
    /\ Proceed(c)
    /\ UNCHANGED <<images, host, infra, infraFenced, audit>>

FenceTarget(c) ==
    /\ At(c, "fenceTarget")
    /\ IF target = "up" THEN fenced' = TRUE /\ Proceed(c) ELSE UNCHANGED fenced /\ Raise(c)
    /\ UNCHANGED <<images, host, infra, target, started, infraFenced, route, audit>>

EnableRoute(c) ==
    /\ At(c, "enableRoute")
    /\ IF target = "up" THEN route' = TRUE /\ Proceed(c) ELSE UNCHANGED route /\ Raise(c)
    /\ UNCHANGED <<images, host, infra, target, started, infraFenced, fenced, audit>>

\* ip route del is not checked: it may fail unnoticed.
DisableRoute(c) ==
    /\ At(c, "disableRoute")
    /\ \/ route' = FALSE /\ Advance(c)
       \/ UNCHANGED route /\ Faulty(1) /\ Goto(c, at[c] + 1, 1)
    /\ UNCHANGED <<images, host, infra, target, started, infraFenced, fenced, audit>>

TargetGone == target' = "down" /\ fenced' = FALSE /\ route' = FALSE

Down(c) ==
    /\ At(c, "down")
    /\ \/ TargetGone /\ infra' = "absent" /\ infraFenced' = FALSE /\ Advance(c)
       \/ TargetGone /\ UNCHANGED <<infra, infraFenced>> /\ cmd[c] = "stop" /\ Fault(c)
       \/ /\ cmd[c] = "cleanup" /\ Faulty(1) /\ Goto(c, at[c] + 1, 1)
          /\ UNCHANGED <<infra, target, net>>
    /\ UNCHANGED <<images, host, started, audit>>

-----------------------------------------------------------------------------
(* Audit processes *)

OpenAudit(c) ==
    /\ At(c, "openAudit")
    /\ IF target = "up" /\ infra = "running"
       THEN manifest' = TRUE /\ entry' = [k \in Audits |-> "none"] /\ Proceed(c)
       ELSE UNCHANGED <<manifest, entry>> /\ Raise(c)
    /\ UNCHANGED <<images, host, docker, proc, child, stray, lost, flow>>

Spawn(c) ==
    /\ At(c, "spawn")
    /\ proc' = [proc EXCEPT ![item[c]] = IF item[c] \in Wrapped THEN "early" ELSE "up"]
    /\ stray' = IF proc[item[c]] \in Live THEN stray \cup {item[c]} ELSE stray
    /\ child' = child \cup {item[c]}
    /\ Goto(c, at[c] + 1, item[c])
    /\ UNCHANGED <<faults, images, host, docker, manifest, entry, lost, flow>>

\* The identity of a process is what it executes when it is looked at.
Record(c) ==
    LET k == item[c] IN
    /\ At(c, "record")
    /\ \/ /\ proc[k] \in Live /\ entry' = [entry EXCEPT ![k] = proc[k]]
          /\ \/ Goto(c, at[c] + 1, k) /\ UNCHANGED faults
             \/ Fault(c)              \* the except clause writes it again
          /\ UNCHANGED lost
       \/ /\ proc[k] \in Live /\ Faulty(2) /\ Unwind(c)   \* and fails, too
          /\ lost' = lost \cup {k} /\ UNCHANGED entry
       \/ proc[k] \notin Live /\ Raise(c) /\ UNCHANGED <<entry, lost>>
    /\ UNCHANGED <<images, host, docker, manifest, proc, child, stray, flow>>

\* The watchdog renews the three namespaces while every probe is the recorded one.
Supervised ==
    /\ \A k \in 1..NumProbes : proc[k] = "up"
    /\ target = "up" /\ infra = "running" /\ fenced /\ infraFenced

IsReady(k) == proc[k] = "up" /\ (k = Watchdog => Supervised)

\* Mutant: the identity taken before the exec stays in the manifest.
Identify_Early(k) == entry' = entry

\* The finally clause of the wait looks at the process again.
Identify(k) == entry' = [entry EXCEPT ![k] = IF proc[k] \in Live THEN proc[k] ELSE entry[k]]

Ready(c) ==
    /\ At(c, "ready") /\ IsReady(item[c]) /\ Identify(item[c])
    /\ \/ item[c] < Watchdog /\ Goto(c, at[c] - 2, item[c] + 1) /\ UNCHANGED faults
       \/ item[c] = Watchdog /\ Advance(c)
    /\ UNCHANGED <<images, host, docker, manifest, proc, child, stray, lost, flow>>

\* The process ended (and is reaped) or the deadline passed.
NotReady(c) ==
    /\ At(c, "ready") /\ Identify(item[c])
    /\ IF proc[item[c]] \in Live THEN Fault(c) ELSE Raise(c)
    /\ proc' = [proc EXCEPT ![item[c]] = IF @ = "zombie" THEN "none" ELSE @]
    /\ UNCHANGED <<images, host, docker, manifest, child, stray, lost, flow>>

\* A process that ends stays a zombie until its parent waits for it.
Ends(k) == proc' = [proc EXCEPT ![k] = IF k \in child THEN "zombie" ELSE "none"]

\* Mutant: an entry that does not match is passed over.
StopAudit_Skip(c) ==
    LET k == item[c] IN
    /\ At(c, "stopAudit")
    /\ \/ /\ manifest /\ k \in Audits /\ Goto(c, at[c], k + 1) /\ UNCHANGED faults
          /\ IF entry[k] # "none" /\ proc[k] = entry[k] THEN Ends(k) ELSE UNCHANGED proc
          /\ UNCHANGED <<manifest, entry>>
       \/ /\ ~manifest \/ k \notin Audits
          /\ manifest' = FALSE /\ entry' = [j \in Audits |-> "none"]
          /\ Advance(c) /\ UNCHANGED proc
    /\ UNCHANGED <<images, host, docker, child, stray, lost, flow>>

\* Each recorded process in turn: gone, killed if it is the recorded one, or refused.
StopAudit(c) ==
    LET k == item[c] IN
    /\ At(c, "stopAudit")
    /\ \/ /\ manifest /\ k \in Audits /\ (entry[k] = "none" \/ proc[k] \in {"none", entry[k]})
          /\ IF entry[k] # "none" /\ proc[k] = entry[k] THEN Ends(k) ELSE UNCHANGED proc
          /\ Goto(c, at[c], k + 1) /\ UNCHANGED <<faults, manifest, entry>>
       \/ /\ manifest /\ k \in Audits /\ entry[k] # "none" /\ proc[k] \notin {"none", entry[k]}
          /\ Raise(c) /\ UNCHANGED <<manifest, entry, proc>>
       \/ /\ ~manifest \/ k \notin Audits
          /\ manifest' = FALSE /\ entry' = [j \in Audits |-> "none"]
          /\ Advance(c) /\ UNCHANGED proc
    /\ UNCHANGED <<images, host, docker, child, stray, lost, flow>>

Archive(c) ==
    /\ At(c, "archive") /\ flow' = FALSE /\ Proceed(c)
    /\ UNCHANGED <<images, host, docker, manifest, entry, proc, child, stray, lost>>

-----------------------------------------------------------------------------
(* The host *)

Exec(k) ==
    /\ proc[k] = "early" /\ proc' = [proc EXCEPT ![k] = "up"]
    /\ UNCHANGED <<control, images, host, docker, manifest, entry, child, stray, lost, flow>>

Dies(k) ==
    /\ proc[k] \in Live /\ Ends(k) /\ Faulty(1)
    /\ UNCHANGED <<lock, cmd, at, item, images, host, docker, manifest, entry, child, stray, lost, flow>>

WatchdogExits ==
    /\ proc[Watchdog] = "up" /\ ~Supervised /\ Ends(Watchdog)
    /\ UNCHANGED <<control, images, host, docker, manifest, entry, child, stray, lost, flow>>

\* subprocess reaps a child whose Popen object is gone; a foreign process ends.
PidFreed(k) ==
    /\ proc[k] \in {"zombie", "other"} /\ proc' = [proc EXCEPT ![k] = "none"]
    /\ UNCHANGED <<control, images, host, docker, manifest, entry, child, stray, lost, flow>>

StrayEnds(k) ==
    /\ k \in stray /\ stray' = stray \ {k}
    /\ UNCHANGED <<control, images, host, docker, manifest, entry, proc, child, lost, flow>>

PidReused(k) ==
    /\ proc[k] = "none" /\ entry[k] # "none" /\ proc' = [proc EXCEPT ![k] = "other"]
    /\ Faulty(1)
    /\ UNCHANGED <<lock, cmd, at, item, images, host, docker, manifest, entry, child, stray, lost, flow>>

ContainerExits ==
    /\ Faulty(1)
    /\ \/ target = "up" /\ TargetGone /\ UNCHANGED <<infra, infraFenced>>
       \/ infra = "running" /\ infra' = "created" /\ infraFenced' = FALSE
          /\ UNCHANGED <<target, fenced, route>>
    /\ UNCHANGED <<lock, cmd, at, item, images, host, started, audit>>

\* A controller that is killed between spawn and record leaves a process nobody knows.
Unrecorded(c) == {k \in Audits : At(c, "record") /\ k = item[c] /\ proc[k] \in Live}

Crash(c) ==
    /\ cmd[c] # "none" /\ Leave(c)
    /\ lost' = lost \cup Unrecorded(c)
    /\ proc' = Orphaned
    /\ UNCHANGED <<images, host, docker, manifest, entry, stray, flow>>

\* The units load the closed tables before docker starts; no container restarts.
Reboot ==
    /\ lock' = None /\ cmd' = [c \in Controllers |-> "none"]
    /\ at' = [c \in Controllers |-> 1] /\ item' = [c \in Controllers |-> 1] /\ faults' = 0
    /\ guard' = [g \in {"parent", "ssh"} |-> IF unit THEN "stopped" ELSE "absent"]
    /\ infra' = (IF infra = "running" THEN "created" ELSE infra) /\ infraFenced' = FALSE
    /\ TargetGone
    /\ proc' = [k \in Audits |-> "none"] /\ child' = {} /\ stray' = {} /\ lost' = {}
    /\ UNCHANGED <<images, unit, hostsAllow, started, manifest, entry, flow>>

-----------------------------------------------------------------------------
Guarding(c) == Install(c) \/ CloseGuard(c) \/ OpenGuard(c) \/ HostsAllow(c)
Containing(c) == Create(c) \/ UpInfra(c) \/ WaitHealthy(c) \/ FenceInfra(c) \/ UpTarget(c)
                 \/ FenceTarget(c) \/ EnableRoute(c) \/ DisableRoute(c) \/ Down(c)
Auditing(c) == OpenAudit(c) \/ Spawn(c) \/ Record(c) \/ Ready(c) \/ NotReady(c) \/ StopAudit(c)
               \/ Archive(c)
Running(c) == Check(c) \/ Activate(c) \/ Build(c) \/ Pin(c) \/ Guarding(c) \/ Containing(c)
              \/ Auditing(c) \/ Fails(c) \/ Return(c)

Environment == WatchdogExits \/ ContainerExits \/ Reboot
               \/ \E k \in Audits : Exec(k) \/ Dies(k) \/ PidFreed(k) \/ PidReused(k)
                                  \/ StrayEnds(k)

Next == \/ Environment
        \/ \E c \in Controllers :
              \/ Running(c) \/ Crash(c)
              \/ \E command \in {"init", "build", "start", "stop"} : Begin(c, command)

Spec == Init /\ [][Next]_vars

-----------------------------------------------------------------------------
(* Properties *)

TypeOK ==
    /\ lock \in Controllers \cup {None} /\ faults \in 0..MaxFaults
    /\ cmd \in [Controllers -> DOMAIN Plan] /\ at \in [Controllers -> Nat]
    /\ \A c \in Controllers : at[c] \in 1..Len(Plan[cmd[c]]) + 1
    /\ item \in [Controllers -> 1..Watchdog + 1]
    /\ current \in 0..MaxGenerations /\ image \in Images \cup {None} /\ pinned \in Images \cup {None}
    /\ unit \in BOOLEAN /\ hostsAllow \in BOOLEAN
    /\ guard \in [{"parent", "ssh"} -> {"absent", "stopped", "open"}]
    /\ infra \in {"absent", "created", "running"} /\ target \in {"down", "up"}
    /\ runGen \in 0..MaxGenerations /\ runImage \in Images \cup {None}
    /\ infraFenced \in BOOLEAN /\ fenced \in BOOLEAN /\ route \in BOOLEAN
    /\ manifest \in BOOLEAN /\ flow \in BOOLEAN /\ child \subseteq Audits
    /\ stray \subseteq Audits /\ lost \subseteq Audits
    /\ entry \in [Audits -> Live \cup {"none"}]
    /\ proc \in [Audits -> Live \cup {"none", "zombie", "other"}]

\* A target has a default route only behind its nft table, through every
\* restart of it and every start that took a running target for none.
RouteIsFenced == route => fenced

\* A running target was started from the generation that current points to and
\* from the image on record for its build.
RunningIsCurrent == target = "up" => runGen = current /\ runImage = pinned

\* A live audit process is in the manifest, where stop looks for it, or about
\* to be written there by the controller that has just started it, unless a kill
\* or two failing writes struck exactly between its start and its record.
\* Nothing else, no failing start, cleanup or stop, loses one.
Accounted ==
    /\ \A k \in Audits : proc[k] \in Live /\ entry[k] = "none" =>
          k \in lost \/ \E c \in Controllers : At(c, "record") /\ item[c] = k
    /\ stray \subseteq lost

\* A stop that returns leaves nothing behind: no container, no open guard, no
\* host access, no audit process except one that was lost before its record.
StopClosesAll == \A c \in Controllers : cmd[c] = "stop" /\ Done(c) =>
    /\ infra = "absent" /\ target = "down" /\ ~route
    /\ guard["parent"] = "stopped" /\ guard["ssh"] = "stopped" /\ ~hostsAllow
    /\ ~manifest /\ ~flow
    /\ {k \in Audits : proc[k] \in Live} \cup stray \subseteq lost

\* A start that returns has every audit process on record under the identity it
\* keeps, so that watchdog and stop know it again, and those of its containers
\* that still run are fenced.
StartIsComplete == \A c \in Controllers : cmd[c] = "start" /\ Done(c) =>
    /\ manifest /\ \A k \in Audits : entry[k] = "up"
    /\ guard["parent"] = "open" /\ (target = "up" => fenced /\ route)
    /\ (infra = "running" => infraFenced)

\* Where the containers' networks exist the parent proxy is guarded, also after
\* a reboot and after a start that was interrupted anywhere.
GuardedNetwork == infra # "absent" => guard["parent"] # "absent" /\ guard["ssh"] # "absent"

\* docs/audit.md: when the start of the audit fails, the containers are stopped
\* and no run stays without audit.
FailedStartStops == \A c \in Controllers : cmd[c] \in {"cleanup", "aborted"} /\ Done(c) =>
    target = "down"
=============================================================================
