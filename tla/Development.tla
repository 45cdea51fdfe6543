---------------------------- MODULE Development ----------------------------
(***************************************************************************)
(* The versioned development sandbox of one host: development.py (main     *)
(* service, health timer, stop), next_start.py (staging and activating a   *)
(* release), egress_handoff.py (new relays for new connections) and the    *)
(* exit monitor as far as readiness governs it.                            *)
(*                                                                         *)
(* main, health and handoff hold lifecycle.lock, stage does not; the plan  *)
(* and the configuration are read before the lock is asked for.  A step    *)
(* may raise, and a process be killed between two steps.  The gateway,     *)
(* resolver and egress containers are one unit, side; the UID mappers too. *)
(***************************************************************************)
EXTENDS Naturals, Sequences

CONSTANTS
    Configs,     \* deployment configurations of the instance
    First,       \* the one its units were installed for
    None,
    MaxCommands, \* bound: calls of stage and of handoff
    MaxFaults    \* bound: failures, kills, crashes and manual commands

Roles == {"gateway", "dns"}
Forwarders == {"web", "dns"}
Procs == {"main", "health", "handoff", "stage"}

ASSUME DevelopmentAssumption ==
    /\ First \in Configs /\ None \notin Configs \union Procs /\ "alias" \notin Configs
    /\ MaxCommands \in Nat /\ MaxFaults \in Nat

VARIABLES
    \* processes: command, index of its step, and what it knows: its configuration, the
    \* plan it read or writes, whether it restarted a mapper, the namespaces it rerouted
    lock, cmd, at, local, faults,
    replaced, commands,   \* the target is not the one stage saw; calls of stage, handoff
    failed,               \* the main service is to be restarted by systemd
    \* files
    alias, plan,          \* configs/runtime.json, configs/next-start.json
    selector, dropin,     \* startup/controller.json, 99-next-start.conf
    unit,                 \* the configuration the installed units name
    watched, prepared,    \* the ones exit-monitor.json and compose.yaml were written for
    readiness, lease, manifest,
    \* systemd and docker
    timer, monitor,       \* monitor: its state and the configuration it has loaded
    side, target,
    mapper, mount,        \* a mapper is ready; the number of the latest mount
    fwd, tables           \* forwarders of the handoff, nft tables that lead to them

process == <<lock, cmd, at, local, failed>>
counts == <<replaced, commands>>
startup == <<alias, plan, selector, dropin>>
network == <<readiness, lease>>
containers == <<side, target>>
uidview == <<mapper, mount>>
handedOff == <<manifest, fwd, tables>>
files == <<startup, unit, watched, prepared>>
host == <<timer, monitor, containers, uidview>>
rest == <<files, network, host, handedOff>>
vars == <<process, faults, counts, rest>>

Off == [state |-> "off", cfg |-> None]
NoPlan == [state |-> "none", current |-> None, candidate |-> None]
Knows(c, p) == [cfg |-> c, plan |-> p, changed |-> FALSE, switched |-> {}]
Idle == Knows(None, NoPlan)

Init ==
    /\ lock = None /\ faults = 0
    /\ cmd = [p \in Procs |-> "none"] /\ at = [p \in Procs |-> 1]
    /\ local = [p \in Procs |-> Idle]
    /\ replaced = FALSE /\ commands = 0 /\ failed = FALSE
    /\ alias = None /\ plan = NoPlan /\ selector = FALSE /\ dropin = FALSE
    /\ unit = First /\ watched = First /\ prepared = First
    /\ readiness = [ok |-> FALSE, cfg |-> First, phase |-> "none"] /\ lease = FALSE
    /\ manifest = [state |-> "absent", listed |-> FALSE]
    /\ timer = FALSE /\ monitor = Off
    /\ side = [run |-> FALSE, cfg |-> None]
    /\ target = [run |-> FALSE, cfg |-> None, mount |-> 0]
    /\ mapper = FALSE /\ mount = 0 /\ fwd = {} /\ tables = {}

-----------------------------------------------------------------------------
(* The order of the steps *)

\* Mutant: the containers are changed while the old readiness stands.
Start_UnreadyLate ==
    <<"prepare", "render", "install", "mapper", "upSide", "unready", "unlink", "openNetwork",
      "verify", "enableMonitor", "upTarget", "enableTimer">>

Start ==
    <<"prepare", "render", "install", "unready", "unlink", "mapper", "upSide", "openNetwork",
      "verify", "enableMonitor", "upTarget", "enableTimer">>

\* retire_registered_capacity
Retire == <<"retireStop", "retireForwarders", "retireRecord">>

Plan ==
    [none |-> << >>,
     start |-> Start,
     activate |-> <<"quiesce">> \o Retire \o <<"select">> \o Start \o <<"entries", "applied">>,
     reactivate |-> Start \o <<"entries", "applied">>,
     close |-> <<"unready", "unlink">>,
     health |-> <<"inspect", "checkMapper", "conclude">>,
     stage |-> <<"choose", "writePlan", "writeSelector", "writeDropin", "confirm">>,
     handoff |-> <<"survey", "register", "createWeb", "createDns", "list", "probe", "commit",
                   "routeDns", "routeGateway", "finish">>,
     rollback |-> <<"unroute", "discard", "unregister">>]

At(p, step) == at[p] <= Len(Plan[cmd[p]]) /\ Plan[cmd[p]][at[p]] = step

\* The steps before this one are done.
Past(p, step) == \E i \in 1..at[p] - 1 : Plan[cmd[p]][i] = step

Leave(p) ==
    /\ cmd' = [cmd EXCEPT ![p] = "none"] /\ at' = [at EXCEPT ![p] = 1]
    /\ local' = [local EXCEPT ![p] = Idle]
    /\ lock' = IF lock = p THEN None ELSE lock

Goto(p, command, known) ==
    /\ cmd' = [cmd EXCEPT ![p] = command] /\ at' = [at EXCEPT ![p] = 1]
    /\ local' = [local EXCEPT ![p] = known] /\ UNCHANGED lock

\* On to the next step, now knowing this.
Skip(p, known) ==
    /\ UNCHANGED failed
    /\ IF at[p] = Len(Plan[cmd[p]]) THEN Leave(p)
       ELSE /\ at' = [at EXCEPT ![p] = @ + 1] /\ local' = [local EXCEPT ![p] = known]
            /\ UNCHANGED <<lock, cmd>>

Go(p) == Skip(p, local[p]) /\ UNCHANGED faults

\* What an exception runs before it ends the process: main closes what an
\* admitted start may have opened, health closes, handoff rolls back.
Handler(p) ==
    CASE p = "main" /\ Past(p, "render") -> "close"
      [] p = "health" /\ cmd[p] = "health" -> "close"
      [] p = "handoff" /\ Past(p, "register") -> "rollback"
      [] OTHER -> "none"

Except(p, known) ==
    /\ failed' = (failed \/ p = "main")
    /\ IF cmd[p] \in {"close", "rollback"} \/ Handler(p) = "none" THEN Leave(p)
       ELSE Goto(p, Handler(p), known)

Raise(p) == Except(p, local[p])

Faulty == faults < MaxFaults /\ faults' = faults + 1

\* The operation has its effect, and what follows it in the step may still raise.
Learn(p, known) == (Skip(p, known) /\ UNCHANGED faults) \/ (Faulty /\ Except(p, known))
Proceed(p) == Learn(p, local[p])

Refuse(p) == Raise(p) /\ UNCHANGED faults

\* A step fails before it has any effect.
Fails(p) ==
    /\ cmd[p] # "none" /\ Faulty /\ Raise(p)
    /\ UNCHANGED <<counts, rest>>

Killed(p) ==
    /\ cmd[p] # "none" /\ Faulty /\ Leave(p)
    /\ failed' = (failed \/ p = "main")
    /\ UNCHANGED <<counts, rest>>

Begin(p, command, known) ==
    /\ cmd[p] = "none"
    /\ cmd' = [cmd EXCEPT ![p] = command] /\ local' = [local EXCEPT ![p] = known]
    /\ UNCHANGED <<at, faults>>

-----------------------------------------------------------------------------
(* The main service *)

ServiceConfig == IF unit = "alias" THEN alias ELSE unit

\* With the drop-in the service activates the plan, otherwise it starts what its
\* unit names.  Plan and configuration are read here, the lock is taken later.
MainBegins ==
    /\ IF ~dropin THEN Begin("main", "start", Knows(ServiceConfig, NoPlan))
       ELSE IF plan.state = "applied" THEN Begin("main", "reactivate", Knows(alias, plan))
       ELSE Begin("main", "activate", Knows(plan.candidate, plan))
    /\ failed' = FALSE
    /\ UNCHANGED <<lock, counts, rest>>

Working(p) == cmd[p] # "none" /\ (p = "stage" \/ lock = p)

Lock(p) ==
    /\ cmd[p] # "none" /\ p \in {"main", "handoff"} /\ lock = None /\ lock' = p
    /\ UNCHANGED <<cmd, at, local, failed, faults, counts, rest>>

Locked(p) ==
    /\ cmd[p] # "none" /\ p \in {"main", "handoff"} /\ lock \notin {None, p}
    /\ Leave(p) /\ failed' = (failed \/ p = "main")
    /\ UNCHANGED <<faults, counts, rest>>

\* systemctl's result is not looked at, here and in Install.
Quiesce ==
    /\ At("main", "quiesce")
    /\ \/ timer' = FALSE /\ monitor' = Off /\ Go("main")
       \/ Faulty /\ Skip("main", local["main"]) /\ UNCHANGED <<timer, monitor>>
    /\ UNCHANGED <<counts, files, network, containers, uidview, handedOff>>

Applied == manifest.state = "applied"

\* The containers go first, and their network namespaces with them.
RetireStop ==
    /\ At("main", "retireStop")
    /\ IF ~Applied THEN Go("main") /\ UNCHANGED <<containers, tables>>
       ELSE IF ~manifest.listed THEN Refuse("main") /\ UNCHANGED <<containers, tables>>
       ELSE /\ side' = [side EXCEPT !.run = FALSE] /\ target' = [target EXCEPT !.run = FALSE]
            /\ tables' = {} /\ Proceed("main")
    /\ UNCHANGED <<counts, files, network, timer, monitor, uidview, manifest, fwd>>

RetireForwarders ==
    /\ At("main", "retireForwarders")
    /\ \/ /\ Applied
          /\ \/ fwd' = {} /\ Go("main")
             \/ \E left \in SUBSET fwd : fwd' = left /\ Faulty /\ Raise("main")
       \/ ~Applied /\ Go("main") /\ UNCHANGED fwd
    /\ UNCHANGED <<counts, files, network, host, manifest, tables>>

\* Mutant: the manifest still says applied.
RetireRecord_Skipped ==
    /\ At("main", "retireRecord") /\ Proceed("main")
    /\ UNCHANGED <<counts, rest>>

RetireRecord ==
    /\ At("main", "retireRecord")
    /\ manifest' = IF Applied THEN [manifest EXCEPT !.state = "retired"] ELSE manifest
    /\ Proceed("main")
    /\ UNCHANGED <<counts, files, network, host, fwd, tables>>

\* Mutant: the candidate runs, the alias still names the profile before it.
Select_Skipped ==
    /\ At("main", "select") /\ Proceed("main")
    /\ UNCHANGED <<counts, rest>>

Select ==
    /\ At("main", "select") /\ alias' = local["main"].cfg /\ Proceed("main")
    /\ UNCHANGED <<counts, plan, selector, dropin, unit, watched, prepared, network, host, handedOff>>

\* validate_host refuses while a handoff is registered; its other conditions, of the
\* host's files, are Fails.
HostValid == ~Applied

\* prepare writes the monitor's configuration first and the containers' last.
Prepare ==
    /\ At("main", "prepare")
    /\ \/ ~HostValid /\ Refuse("main") /\ UNCHANGED watched
       \/ HostValid /\ watched' = local["main"].cfg /\ Proceed("main")
    /\ UNCHANGED <<counts, startup, unit, prepared, network, host, handedOff>>

\* What follows the writing of compose.yaml, the mount points and the check of the file,
\* may fail with the file in place.
Render ==
    /\ At("main", "render") /\ prepared' = local["main"].cfg /\ Proceed("main")
    /\ UNCHANGED <<counts, startup, unit, watched, network, host, handedOff>>

UnitFor(c) == IF selector THEN "alias" ELSE c

\* install_units, then the monitor is stopped.
Install ==
    /\ At("main", "install") /\ unit' = UnitFor(local["main"].cfg)
    /\ \/ monitor' = Off /\ Go("main")
       \/ UNCHANGED monitor /\ Faulty /\ Raise("main")
       \/ UNCHANGED monitor /\ Faulty /\ Skip("main", local["main"])
    /\ UNCHANGED <<counts, startup, watched, prepared, network, timer, containers, uidview, handedOff>>

SetReadiness(p, ok, phase) == readiness' = [ok |-> ok, cfg |-> local[p].cfg, phase |-> phase]

Unready(p) ==
    /\ At(p, "unready") /\ SetReadiness(p, FALSE, "none") /\ Proceed(p)
    /\ UNCHANGED <<counts, files, lease, host, handedOff>>

Unlink(p) ==
    /\ At(p, "unlink") /\ lease' = FALSE /\ Proceed(p)
    /\ UNCHANGED <<counts, files, readiness, host, handedOff>>

\* A mapper that is not ready is replaced, and its view mounted anew.
Mapper ==
    /\ At("main", "mapper")
    /\ \/ mapper /\ UNCHANGED uidview /\ Proceed("main")
       \/ /\ ~mapper /\ mapper' = TRUE /\ mount' = mount + 1
          /\ Learn("main", [local["main"] EXCEPT !.changed = TRUE])
    /\ UNCHANGED <<counts, files, network, timer, monitor, containers, handedOff>>

\* compose up leaves a running container of the same configuration alone.
UpSide ==
    /\ At("main", "upSide")
    /\ side' = [run |-> TRUE, cfg |-> prepared]
    /\ tables' = IF side = side' THEN tables ELSE {}
    /\ Proceed("main")
    /\ UNCHANGED <<counts, files, network, timer, monitor, target, uidview, manifest, fwd>>

OpenNetwork ==
    /\ At("main", "openNetwork") /\ SetReadiness("main", TRUE, "network-ready")
    /\ Proceed("main")
    /\ UNCHANGED <<counts, files, lease, host, handedOff>>

\* refresh without a readiness path: it publishes what the probes say.
Verify ==
    /\ At("main", "verify")
    /\ \/ lease' = TRUE /\ Proceed("main")
       \/ lease' = FALSE /\ Faulty /\ Raise("main")
    /\ UNCHANGED <<counts, files, readiness, host, handedOff>>

EnableMonitor ==
    /\ At("main", "enableMonitor")
    /\ monitor' = IF monitor = Off THEN [state |-> "idle", cfg |-> watched] ELSE monitor
    /\ Proceed("main")
    /\ UNCHANGED <<counts, files, network, timer, containers, uidview, handedOff>>

\* The gateway answers its health check, the last of 45 at the latest.
Gate == side.run

\* The running target keeps its mounts unless it is recreated.
UpTarget ==
    /\ At("main", "upTarget") /\ Gate
    /\ LET recreate == local["main"].changed \/ target.cfg # prepared IN
       /\ target' = [run |-> TRUE, cfg |-> prepared,
                     mount |-> IF target.run /\ ~recreate THEN target.mount
                               ELSE IF mapper THEN mount ELSE 0]
       /\ replaced' = (replaced \/ recreate)
    /\ Proceed("main")
    /\ UNCHANGED <<commands, files, network, timer, monitor, side, uidview, handedOff>>

GateFails ==
    /\ At("main", "upTarget") /\ ~Gate /\ Refuse("main")
    /\ UNCHANGED <<counts, rest>>

\* apply_identity enters the running target.
Identity == target.run

IdentityFails(p) ==
    /\ At(p, "enableTimer") \/ At(p, "conclude")
    /\ ~Identity /\ Refuse(p)
    /\ UNCHANGED <<counts, rest>>

EnableTimer ==
    /\ At("main", "enableTimer") /\ Identity /\ timer' = TRUE /\ Proceed("main")
    /\ UNCHANGED <<counts, files, network, monitor, containers, uidview, handedOff>>

\* status: the lease is valid and readiness is that of this configuration.
ExitVerified(c) == lease /\ readiness.ok /\ readiness.cfg = c

\* The controller waits for the exit to be verified, and gives up in the end.
Entries ==
    /\ At("main", "entries")
    /\ LET selected == target.run /\ target.cfg = local["main"].cfg IN
       \/ selected /\ ExitVerified(local["main"].cfg) /\ Proceed("main")
       \/ ~selected /\ Refuse("main")
       \/ ~ExitVerified(local["main"].cfg) /\ Faulty /\ Raise("main")
    /\ UNCHANGED <<counts, rest>>

RecordApplied ==
    /\ At("main", "applied") /\ plan' = [local["main"].plan EXCEPT !.state = "applied"] /\ Proceed("main")
    /\ UNCHANGED <<counts, alias, selector, dropin, unit, watched, prepared, network, host, handedOff>>

MainStep ==
    /\ lock = "main"
    /\ \/ Quiesce \/ RetireStop \/ RetireForwarders \/ RetireRecord \/ Select
       \/ Prepare \/ Render \/ Install \/ Mapper \/ UpSide \/ OpenNetwork \/ Verify \/ EnableMonitor
       \/ GateFails \/ UpTarget \/ IdentityFails("main") \/ EnableTimer \/ Entries
       \/ RecordApplied \/ Unready("main") \/ Unlink("main")

-----------------------------------------------------------------------------
(* The health timer *)

\* It reads its configuration and asks for the lock, and leaves quietly without it.
HealthBegins ==
    /\ timer /\ lock = None /\ lock' = "health" /\ Begin("health", "health", Knows(ServiceConfig, NoPlan))
    /\ UNCHANGED <<failed, counts, rest>>

Inspect ==
    /\ At("health", "inspect")
    /\ IF target.run THEN Go("health") ELSE Leave("health") /\ UNCHANGED <<faults, failed>>
    /\ UNCHANGED <<counts, rest>>

CheckMapper ==
    /\ At("health", "checkMapper")
    /\ IF mapper THEN Go("health") ELSE Goto("health", "close", local["health"]) /\ UNCHANGED <<faults, failed>>
    /\ UNCHANGED <<counts, rest>>

Conclude ==
    /\ At("health", "conclude") /\ Identity
    /\ \/ target.cfg # local["health"].cfg /\ SetReadiness("health", FALSE, "none")
       \/ target.cfg = local["health"].cfg /\ SetReadiness("health", TRUE, "ready")
    /\ Proceed("health")
    /\ UNCHANGED <<counts, files, lease, host, handedOff>>

HealthStep ==
    /\ lock = "health"
    /\ \/ Inspect \/ CheckMapper \/ IdentityFails("health") \/ Conclude
       \/ Unready("health") \/ Unlink("health")

-----------------------------------------------------------------------------
(* stage, which takes no lock and is given the service's configuration; one    *)
(* runs at a time, so that its look at the alias and its writing of a missing  *)
(* one are one step.                                                           *)

Command == commands < MaxCommands /\ commands' = commands + 1

StageBegins ==
    /\ Command
    /\ \E c \in Configs \ {ServiceConfig} :
          Begin("stage", "stage", Knows(None,
                [state |-> "staged", current |-> ServiceConfig, candidate |-> c]))
    /\ UNCHANGED <<lock, failed, replaced, rest>>

Choose ==
    /\ At("stage", "choose")
    /\ \/ alias \notin {None, local["stage"].plan.current} /\ Refuse("stage") /\ UNCHANGED alias
       \/ /\ alias \in {None, local["stage"].plan.current} /\ alias' = local["stage"].plan.current
          /\ Proceed("stage")
    /\ UNCHANGED <<counts, plan, selector, dropin, unit, watched, prepared, network, host, handedOff>>

WritePlan ==
    /\ At("stage", "writePlan") /\ plan' = local["stage"].plan /\ replaced' = FALSE /\ Proceed("stage")
    /\ UNCHANGED <<commands, alias, selector, dropin, unit, watched, prepared, network, host, handedOff>>

WriteSelector ==
    /\ At("stage", "writeSelector") /\ selector' = TRUE /\ Proceed("stage")
    /\ UNCHANGED <<counts, alias, plan, dropin, unit, watched, prepared, network, host, handedOff>>

WriteDropin ==
    /\ At("stage", "writeDropin") /\ dropin' = TRUE /\ Proceed("stage")
    /\ UNCHANGED <<counts, alias, plan, selector, unit, watched, prepared, network, host, handedOff>>

\* The plan is written again, unless the target has been replaced meanwhile.
Confirm ==
    /\ At("stage", "confirm")
    /\ IF replaced THEN Refuse("stage") /\ UNCHANGED plan ELSE plan' = local["stage"].plan /\ Proceed("stage")
    /\ UNCHANGED <<counts, alias, selector, dropin, unit, watched, prepared, network, host, handedOff>>

StageStep == Choose \/ WritePlan \/ WriteSelector \/ WriteDropin \/ Confirm

-----------------------------------------------------------------------------
(* The egress handoff, of one generation *)

Running == side.run /\ target.run

HandoffBegins ==
    /\ manifest.state = "absent" /\ Command /\ Begin("handoff", "handoff", Idle)
    /\ UNCHANGED <<lock, failed, replaced, rest>>

Survey ==
    /\ At("handoff", "survey")
    /\ IF manifest.state = "absent" /\ Running
       THEN Go("handoff") ELSE Refuse("handoff")
    /\ UNCHANGED <<counts, rest>>

SetManifest(state, listed) == manifest' = [state |-> state, listed |-> listed]

Register ==
    /\ At("handoff", "register") /\ SetManifest("failed", FALSE) /\ Proceed("handoff")
    /\ UNCHANGED <<counts, files, network, host, fwd, tables>>

CreateForwarder ==
    /\ \/ At("handoff", "createWeb") /\ fwd' = fwd \union {"web"}
       \/ At("handoff", "createDns") /\ fwd' = fwd \union {"dns"}
    /\ Proceed("handoff")
    /\ UNCHANGED <<counts, files, network, host, manifest, tables>>

List ==
    /\ At("handoff", "list") /\ SetManifest("failed", TRUE) /\ Proceed("handoff")
    /\ UNCHANGED <<counts, files, network, host, fwd, tables>>

\* The new relays must admit and refuse what they should: a lease is needed.
Probe ==
    /\ At("handoff", "probe") /\ IF lease /\ Running THEN Go("handoff") ELSE Refuse("handoff")
    /\ UNCHANGED <<counts, rest>>

\* Mutant: the handoff is registered after the routes are in place.
Commit_Later ==
    /\ At("handoff", "commit") /\ Proceed("handoff")
    /\ UNCHANGED <<counts, rest>>

\* Ownership is registered before a route can put a session on the forwarders.
Commit ==
    /\ At("handoff", "commit") /\ SetManifest("applied", TRUE) /\ Proceed("handoff")
    /\ UNCHANGED <<counts, files, network, host, fwd, tables>>

\* A table that cannot be added is not in switched; one that was is recorded.
Route ==
    /\ \E role \in Roles :
          /\ At("handoff", IF role = "dns" THEN "routeDns" ELSE "routeGateway")
          /\ \/ /\ Running /\ tables' = tables \union {role}
                /\ Learn("handoff", [local["handoff"] EXCEPT !.switched = @ \union {role}])
             \/ ~Running /\ UNCHANGED tables /\ Refuse("handoff")
    /\ UNCHANGED <<counts, files, network, host, manifest, fwd>>

Switched == local["handoff"].switched

Finish ==
    /\ At("handoff", "finish") /\ SetManifest("applied", TRUE)
    /\ IF Running THEN Proceed("handoff") ELSE Refuse("handoff")
    /\ UNCHANGED <<counts, files, network, host, fwd, tables>>

\* nft's result is not looked at.
Unroute ==
    /\ At("handoff", "unroute")
    /\ \/ tables' = tables \ Switched /\ Go("handoff")
       \/ UNCHANGED tables /\ Faulty /\ Skip("handoff", local["handoff"])
    /\ UNCHANGED <<counts, files, network, host, manifest, fwd>>

\* Nor is docker's, which may leave some of the forwarders.
Discard ==
    /\ At("handoff", "discard")
    /\ \/ fwd' = (IF Switched = {} THEN {} ELSE fwd) /\ Go("handoff")
       \/ /\ Switched = {} /\ \E left \in SUBSET fwd : fwd' = left
          /\ Faulty /\ Skip("handoff", local["handoff"])
    /\ UNCHANGED <<counts, files, network, host, manifest, tables>>

Unregister ==
    /\ At("handoff", "unregister") /\ Go("handoff")
    /\ SetManifest(IF Switched = {} THEN "failed" ELSE "applied", manifest.listed)
    /\ UNCHANGED <<counts, files, network, host, fwd, tables>>

HandoffStep ==
    /\ lock = "handoff"
    /\ \/ Survey \/ Register \/ CreateForwarder \/ List \/ Probe \/ Commit \/ Route \/ Finish
       \/ Unroute \/ Discard \/ Unregister

-----------------------------------------------------------------------------
(* The exit monitor: readiness is read when a round begins; the result of its  *)
(* probes is published when they have ended, a refusal at once.                *)
MonitorAt(state) == monitor' = [monitor EXCEPT !.state = state]

MonitorRound ==
    /\ monitor.state = "idle"
    /\ IF readiness.ok /\ readiness.cfg = monitor.cfg
       THEN MonitorAt("probing") /\ UNCHANGED lease
       ELSE lease' = FALSE /\ UNCHANGED monitor
    /\ UNCHANGED <<process, faults, counts, files, readiness, timer, containers, uidview,
                   handedOff>>

MonitorPublishes ==
    /\ monitor.state = "probing" /\ MonitorAt("idle")
    /\ (lease' = TRUE /\ UNCHANGED faults) \/ (lease' = FALSE /\ Faulty)
    /\ UNCHANGED <<process, counts, files, readiness, timer, containers, uidview, handedOff>>

\* It unlinks the lease if it raised, and not if it was killed.
MonitorFails ==
    /\ monitor.state \in {"idle", "probing"} /\ MonitorAt("down") /\ Faulty
    /\ lease' \in {lease, FALSE}
    /\ UNCHANGED <<process, counts, files, readiness, timer, containers, uidview, handedOff>>

MonitorRestarts ==
    /\ monitor.state = "down" /\ monitor' = [state |-> "idle", cfg |-> watched]
    /\ UNCHANGED <<process, faults, counts, files, network, timer, containers, uidview, handedOff>>

LeaseExpires ==
    /\ lease /\ lease' = FALSE
    /\ UNCHANGED <<process, faults, counts, files, readiness, host, handedOff>>

Monitor == MonitorRound \/ MonitorPublishes \/ MonitorRestarts

-----------------------------------------------------------------------------
(* Commands of one step, for the service's configuration, and other events *)

Stop ==
    /\ lock = None /\ Faulty /\ tables' = {}
    /\ side' = [side EXCEPT !.run = FALSE] /\ target' = [target EXCEPT !.run = FALSE]
    /\ UNCHANGED <<process, counts, files, network, timer, monitor, uidview, manifest, fwd>>

PrepareCommand ==
    /\ lock = None /\ HostValid /\ Faulty
    /\ watched' = ServiceConfig /\ prepared' \in {prepared, ServiceConfig}
    /\ UNCHANGED <<process, counts, startup, unit, network, host, handedOff>>

InstallUnits ==
    /\ lock = None /\ Faulty /\ unit' = UnitFor(ServiceConfig)
    /\ UNCHANGED <<process, counts, startup, watched, prepared, network, host, handedOff>>

\* exit-check publishes whatever readiness says.
ExitCheck ==
    /\ Faulty /\ lease' = TRUE
    /\ UNCHANGED <<process, counts, files, readiness, host, handedOff>>

TargetDies ==
    /\ target.run /\ Faulty /\ target' = [target EXCEPT !.run = FALSE]
    /\ UNCHANGED <<process, counts, files, network, timer, monitor, side, uidview, handedOff>>

SideDies ==
    /\ side.run /\ Faulty /\ side' = [side EXCEPT !.run = FALSE] /\ tables' = {}
    /\ UNCHANGED <<process, counts, files, network, timer, monitor, target, uidview, manifest, fwd>>

MapperDies ==
    /\ mapper /\ Faulty /\ mapper' = FALSE
    /\ UNCHANGED <<process, counts, files, network, timer, monitor, containers, mount, handedOff>>

Environment ==
    \/ Stop \/ PrepareCommand \/ InstallUnits \/ ExitCheck
    \/ TargetDies \/ SideDies \/ MapperDies \/ MonitorFails

Step(p) ==
    \/ Lock(p) \/ Locked(p)
    \/ p = "main" /\ MainStep
    \/ p = "health" /\ HealthStep
    \/ p = "handoff" /\ HandoffStep
    \/ p = "stage" /\ StageStep

Next ==
    \/ MainBegins \/ HealthBegins \/ StageBegins \/ HandoffBegins
    \/ \E p \in Procs : Step(p) \/ (Working(p) /\ (Fails(p) \/ Killed(p)))
    \/ Monitor \/ LeaseExpires \/ Environment

Spec == Init /\ [][Next]_vars

(* Processes go on; a main service that failed is started again (Restart=       *)
(* on-failure), and finds the lock free sooner or later, since the others hold  *)
(* it for moments.                                                              *)
FairSpec ==
    /\ Spec
    /\ WF_vars(Step("main")) /\ WF_vars(Step("health") \/ Step("handoff"))
    /\ SF_vars(Lock("main")) /\ SF_vars(Entries)
    /\ SF_vars(failed /\ lock = None /\ MainBegins)
    /\ WF_vars(Monitor)

-----------------------------------------------------------------------------
\* What a file, a plan and a process may name.
Chosen == Configs \union {None}
Plans == [state : {"none", "staged", "applied"}, current : Chosen, candidate : Chosen]
Knowledge == [cfg : Chosen, plan : Plans, changed : BOOLEAN, switched : SUBSET Roles]

\* Types; a process that runs is at a step of its plan.
TypeOK ==
    /\ lock \in {"main", "health", "handoff", None}
    /\ cmd \in [Procs -> DOMAIN Plan] /\ at \in [Procs -> 1..19] /\ local \in [Procs -> Knowledge]
    /\ \A p \in Procs : cmd[p] # "none" => at[p] <= Len(Plan[cmd[p]])
    /\ faults \in 0..MaxFaults /\ commands \in 0..MaxCommands
    /\ replaced \in BOOLEAN /\ failed \in BOOLEAN
    /\ alias \in Chosen /\ plan \in Plans /\ selector \in BOOLEAN /\ dropin \in BOOLEAN
    /\ unit \in Configs \union {"alias"} /\ watched \in Configs /\ prepared \in Configs
    /\ readiness \in [ok : BOOLEAN, cfg : Configs, phase : {"none", "network-ready", "ready"}]
    /\ lease \in BOOLEAN /\ timer \in BOOLEAN
    /\ manifest \in [state : {"absent", "failed", "applied", "retired"}, listed : BOOLEAN]
    /\ monitor \in [state : {"off", "idle", "probing", "down"}, cfg : Chosen]
    /\ side \in [run : BOOLEAN, cfg : Chosen]
    /\ target \in [run : BOOLEAN, cfg : Chosen, mount : Nat]
    /\ mapper \in BOOLEAN /\ mount \in Nat
    /\ fwd \subseteq Forwarders /\ tables \subseteq Roles

\* A route to the forwarders of a handoff exists only while both run and the
\* manifest lists them as applied, so that the next activation can retire them,
\* wherever a handoff, a rollback or a retirement failed or was killed.
RoutedIsRegistered == tables # {} => Applied /\ manifest.listed /\ fwd = Forwarders

\* Readiness vouches for what it was written for: in the phase "network-ready" the
\* containers in the path, in the phase "ready" the target, were started for the
\* configuration it names, whoever starts, fails, is killed or checks in between.
ReadyMatches == readiness.ok =>
    /\ readiness.phase = "network-ready" => side.cfg = readiness.cfg
    /\ readiness.phase = "ready" => target.cfg = readiness.cfg

\* A plan is recorded as applied only with its candidate selected for the later
\* starts, whatever stage did in between.
AppliedIsSelected == plan.state = "applied" => alias = plan.candidate

\* An activation that failed or was killed anywhere is carried through by the
\* starts after it.
ActivationCompletes == (cmd["main"] = "activate") ~> (plan.state = "applied")

\* The health check calls a sandbox ready only with its target on the mapper's
\* live mounts.
HealthyMountsLive ==
    readiness.phase = "ready" /\ mapper /\ target.run => target.mount = mount
=============================================================================
