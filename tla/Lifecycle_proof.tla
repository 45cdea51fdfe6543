-------------------------- MODULE Lifecycle_proof --------------------------
(***************************************************************************)
(* Lifecycle for any number of controllers and audit processes, any images *)
(* and any bounds.  The lock leaves one command at work, and what the step *)
(* it is at has behind it is the strengthening that the invariants need.   *)
(***************************************************************************)
EXTENDS Lifecycle, SequenceTheorems, TLAPS

\* One command at a time, and one that has not begun is at its first step.
Locked == \A c \in Controllers :
    /\ cmd[c] # "none" => lock = c
    /\ cmd[c] = "none" => at[c] = 1 /\ item[c] = 1

\* The units outlive a reboot, so the guards come back before the network does.
Persistent == infra # "absent" => unit

\* Without a manifest there is no entry.
NoManifest == ~manifest => \A k \in Audits : entry[k] = "none"

\* No audit process lives, from number n on, unless it was lost before its record.
NoneFrom(n) == \A k \in Audits : k >= n /\ proc[k] \in Live => k \in lost
NoneLive == \A k \in Audits : proc[k] \in Live => k \in lost

\* init and build go on only with the target down.
Preparing(c) == cmd[c] \in {"init", "build"} /\ at[c] >= 2 => target = "down"

\* What a start has behind it: the checks and the guards,
StartHost(c) == cmd[c] = "start" =>
    /\ at[c] >= 2 => pinned # None /\ image = pinned
    /\ at[c] >= 3 => unit
    /\ at[c] >= 4 => guard["parent"] # "absent"
    /\ at[c] >= 5 => guard["ssh"] # "absent"
    /\ at[c] >= 10 => guard["parent"] = "open"

\* the containers and their tables,
StartNet(c) == cmd[c] = "start" =>
    /\ at[c] >= 15 /\ infra = "running" => infraFenced
    /\ at[c] >= 17 /\ target = "up" => fenced
    /\ at[c] >= 22 /\ target = "up" => route

\* and the audit processes up to the one it is at.
StartAudit(c) == cmd[c] = "start" =>
    /\ at[c] \in 7..17 => NoneLive
    /\ at[c] >= 18 => manifest
    /\ at[c] \in 18..20 => item[c] \in Audits /\ \A k \in 1..item[c] - 1 : entry[k] = "up"
    /\ at[c] = 18 => NoneFrom(item[c])
    /\ at[c] \in 19..20 => NoneFrom(item[c] + 1)
    /\ at[c] >= 21 => \A k \in Audits : entry[k] = "up"

\* What a stop has behind it.
Stopping(c) == cmd[c] = "stop" =>
    /\ at[c] >= 3 => ~manifest /\ NoneLive
    /\ at[c] >= 4 => infra = "absent" /\ target = "down" /\ ~route
    /\ at[c] >= 5 => guard["parent"] = "stopped"
    /\ at[c] >= 6 => guard["ssh"] = "stopped"
    /\ at[c] >= 7 => ~hostsAllow
    /\ at[c] >= 8 => ~flow

\* The processes the loop of stopAudit has passed are not live, or lost.
Passed(c) == At(c, "stopAudit") => \A k \in 1..item[c] - 1 : proc[k] \in Live => k \in lost

Progress == \A c \in Controllers :
    Preparing(c) /\ StartHost(c) /\ StartNet(c) /\ StartAudit(c) /\ Stopping(c) /\ Passed(c)

IInv == /\ TypeOK /\ Locked /\ Persistent /\ NoManifest /\ Progress
        /\ RouteIsFenced /\ RunningIsCurrent /\ Accounted /\ GuardedNetwork

-----------------------------------------------------------------------------
(* Where the steps stand *)

\* The plans that are put together, written out.
LEMMA StartPlan ==
  /\ Len(Plan["start"]) = 21
  /\ Plan["start"][1] = "check" /\ Plan["start"][2] = "install"
  /\ Plan["start"][3] = "closeParent" /\ Plan["start"][4] = "closeSsh"
  /\ Plan["start"][5] = "denySsh" /\ Plan["start"][6] = "stopAudit"
  /\ Plan["start"][7] = "archive" /\ Plan["start"][8] = "create"
  /\ Plan["start"][9] = "openParent" /\ Plan["start"][10] = "openSsh"
  /\ Plan["start"][11] = "allowSsh" /\ Plan["start"][12] = "upInfra"
  /\ Plan["start"][13] = "waitHealthy" /\ Plan["start"][14] = "fenceInfra"
  /\ Plan["start"][15] = "upTarget" /\ Plan["start"][16] = "fenceTarget"
  /\ Plan["start"][17] = "openAudit" /\ Plan["start"][18] = "spawn"
  /\ Plan["start"][19] = "record" /\ Plan["start"][20] = "ready"
  /\ Plan["start"][21] = "enableRoute"
<1>1. Plan["start"] = Before \o Try
  BY DEF Plan
<1> QED BY <1>1 DEF Before, Try

\* The same for stop.
LEMMA StopPlan ==
  /\ Len(Plan["stop"]) = 7
  /\ Plan["stop"][1] = "disableRoute" /\ Plan["stop"][2] = "stopAudit"
  /\ Plan["stop"][3] = "down" /\ Plan["stop"][4] = "closeParent"
  /\ Plan["stop"][5] = "closeSsh" /\ Plan["stop"][6] = "denySsh"
  /\ Plan["stop"][7] = "archive"
<1>1. Plan["stop"] = Closing \o <<"archive">>
  BY DEF Plan
<1> QED BY <1>1 DEF Closing

\* The other plans, and the names of all.
LEMMA OtherPlans ==
  /\ DOMAIN Plan = {"none", "init", "build", "start", "cleanup", "stop", "raised", "aborted"}
  /\ Plan["none"] = <<>> /\ Plan["raised"] = <<>> /\ Plan["aborted"] = <<>>
  /\ Plan["init"] = <<"check", "activate">> /\ Plan["build"] = <<"check", "build", "pin">>
  /\ Plan["cleanup"] = Closing
  /\ Len(Before) = 8
BY DEF Plan, Closing, Before

\* How long a command is: it is done one place behind its last step.
LEMMA Lengths ==
  /\ Len(Plan["none"]) = 0 /\ Len(Plan["raised"]) = 0 /\ Len(Plan["aborted"]) = 0
  /\ Len(Plan["init"]) = 2 /\ Len(Plan["build"]) = 3 /\ Len(Plan["start"]) = 21
  /\ Len(Plan["cleanup"]) = 6 /\ Len(Plan["stop"]) = 7
BY StartPlan, StopPlan, OtherPlans DEF Closing

\* Each step by its command and its place.
Place(x, n, name) == x # "none" /\ ~(n > Len(Plan[x])) /\ Plan[x][n] = name

\* No step is anywhere else.
LEMMA Places ==
  ASSUME NEW x \in DOMAIN Plan, NEW n \in 1..Len(Plan[x]) + 1
  PROVE
  /\ Place(x, n, "check") <=> x \in {"init", "build", "start"} /\ n = 1
  /\ Place(x, n, "activate") <=> x = "init" /\ n = 2
  /\ Place(x, n, "build") <=> x = "build" /\ n = 2
  /\ Place(x, n, "pin") <=> x = "build" /\ n = 3
  /\ Place(x, n, "install") <=> x = "start" /\ n = 2
  /\ Place(x, n, "closeParent") <=>
        \/ x = "start" /\ n = 3
        \/ x \in {"cleanup", "stop"} /\ n = 4
  /\ Place(x, n, "closeSsh") <=>
        \/ x = "start" /\ n = 4
        \/ x \in {"cleanup", "stop"} /\ n = 5
  /\ Place(x, n, "denySsh") <=>
        \/ x = "start" /\ n = 5
        \/ x \in {"cleanup", "stop"} /\ n = 6
  /\ Place(x, n, "stopAudit") <=>
        \/ x = "start" /\ n = 6
        \/ x \in {"cleanup", "stop"} /\ n = 2
  /\ Place(x, n, "archive") <=> x \in {"start", "stop"} /\ n = 7
  /\ Place(x, n, "create") <=> x = "start" /\ n = 8
  /\ Place(x, n, "openParent") <=> x = "start" /\ n = 9
  /\ Place(x, n, "openSsh") <=> x = "start" /\ n = 10
  /\ Place(x, n, "allowSsh") <=> x = "start" /\ n = 11
  /\ Place(x, n, "upInfra") <=> x = "start" /\ n = 12
  /\ Place(x, n, "waitHealthy") <=> x = "start" /\ n = 13
  /\ Place(x, n, "fenceInfra") <=> x = "start" /\ n = 14
  /\ Place(x, n, "upTarget") <=> x = "start" /\ n = 15
  /\ Place(x, n, "fenceTarget") <=> x = "start" /\ n = 16
  /\ Place(x, n, "openAudit") <=> x = "start" /\ n = 17
  /\ Place(x, n, "spawn") <=> x = "start" /\ n = 18
  /\ Place(x, n, "record") <=> x = "start" /\ n = 19
  /\ Place(x, n, "ready") <=> x = "start" /\ n = 20
  /\ Place(x, n, "enableRoute") <=> x = "start" /\ n = 21
  /\ Place(x, n, "disableRoute") <=> x \in {"cleanup", "stop"} /\ n = 1
  /\ Place(x, n, "down") <=> x \in {"cleanup", "stop"} /\ n = 3
<1>1. /\ x \in {"none", "init", "build", "start", "cleanup", "stop", "raised", "aborted"}
      /\ n \in Nat /\ n >= 1 /\ n <= Len(Plan[x]) + 1
  BY OtherPlans, Lengths
<1>2. CASE x \in {"none", "raised", "aborted"}
  BY <1>1, <1>2, Lengths DEF Place
<1>3. CASE x = "init"
  BY <1>1, <1>3, Lengths, OtherPlans DEF Place
<1>4. CASE x = "build"
  BY <1>1, <1>4, Lengths, OtherPlans DEF Place
<1>5. CASE x = "cleanup"
  BY <1>1, <1>5, Lengths, OtherPlans DEF Place, Closing
<1>6. CASE x = "stop"
  BY <1>1, <1>6, Lengths, StopPlan DEF Place
<1>7. CASE x = "start"
  <2>1. \A name : Place(x, n, name) <=> n <= 21 /\ Plan["start"][n] = name
    BY <1>1, <1>7, Lengths DEF Place
  <2>2. n \in 1..22
    BY <1>1, <1>7, Lengths
  <2>3. CASE n \in 1..8
    BY <1>7, <2>1, <2>3, StartPlan
  <2>4. CASE n \in 9..15
    BY <1>7, <2>1, <2>4, StartPlan
  <2>5. CASE n \in 16..21
    BY <1>7, <2>1, <2>5, StartPlan
  <2>6. CASE n = 22
    BY <1>7, <2>1, <2>6
  <2> QED BY <2>2, <2>3, <2>4, <2>5, <2>6
<1> QED BY <1>1, <1>2, <1>3, <1>4, <1>5, <1>6, <1>7

\* Where a controller is, now
LEMMA Where ==
  ASSUME TypeOK, NEW c \in Controllers
  PROVE  /\ \A name : At(c, name) <=> Place(cmd[c], at[c], name)
         /\ cmd[c] \in DOMAIN Plan /\ at[c] \in 1..Len(Plan[cmd[c]]) + 1
BY DEF TypeOK, At, Done, Place

\* and after a step.
LEMMA WhereNext ==
  ASSUME TypeOK', NEW c \in Controllers
  PROVE  /\ \A name : At(c, name)' <=> Place(cmd'[c], at'[c], name)
         /\ cmd'[c] \in DOMAIN Plan /\ at'[c] \in 1..Len(Plan[cmd'[c]]) + 1
BY DEF TypeOK, At, Done, Place

-----------------------------------------------------------------------------
(* Control *)

ControlOK ==
    /\ lock \in Controllers \cup {None}
    /\ cmd \in [Controllers -> DOMAIN Plan] /\ at \in [Controllers -> Nat]
    /\ \A c \in Controllers : at[c] \in 1..Len(Plan[cmd[c]]) + 1
    /\ item \in [Controllers -> 1..Watchdog + 1]

DataOK ==
    /\ current \in 0..MaxGenerations /\ image \in Images \cup {None} /\ pinned \in Images \cup {None}
    /\ unit \in BOOLEAN /\ hostsAllow \in BOOLEAN
    /\ guard \in [{"parent", "ssh"} -> {"absent", "stopped", "open"}]
    /\ infra \in {"absent", "created", "running"} /\ target \in {"down", "up"}
    /\ runGen \in 0..MaxGenerations /\ runImage \in Images \cup {None}
    /\ infraFenced \in BOOLEAN /\ fenced \in BOOLEAN /\ route \in BOOLEAN
    /\ manifest \in BOOLEAN /\ flow \in BOOLEAN /\ child \subseteq Audits
    /\ stray \subseteq Audits /\ lost \subseteq Audits
    /\ entry \in [Audits -> Live \cup {"none"}]
    /\ proc \in [Audits -> Live \cup {"none", "zombie", "other"}]

\* The two halves of the type invariant.
LEMMA TypeParts == /\ TypeOK <=> ControlOK /\ faults \in 0..MaxFaults /\ DataOK
                   /\ TypeOK' <=> ControlOK' /\ faults' \in 0..MaxFaults /\ DataOK'
BY DEF TypeOK, ControlOK, DataOK

\* A command that goes on: the others do not run.
LEMMA GoesOn ==
  ASSUME ControlOK, Locked, NEW c \in Controllers, cmd[c] # "none",
         NEW n \in 1..Len(Plan[cmd[c]]) + 1, NEW k \in 1..Watchdog + 1, Goto(c, n, k)
  PROVE  /\ ControlOK' /\ Locked'
         /\ cmd' = cmd /\ at'[c] = n /\ item'[c] = k
         /\ \A d \in Controllers \ {c} : cmd'[d] = "none"
<1> USE DEF Goto
<1>1. ControlOK'
  <2>1. cmd[c] \in DOMAIN Plan /\ n \in Nat
    BY Lengths, OtherPlans DEF ControlOK
  <2> QED BY <2>1 DEF ControlOK
<1>2. at'[c] = n /\ item'[c] = k /\ cmd' = cmd
  BY DEF ControlOK
<1>3. \A d \in Controllers \ {c} : cmd[d] = "none"
  BY DEF Locked
<1>4. Locked'
  BY <1>2, <1>3 DEF Locked, ControlOK
<1> QED BY <1>1, <1>2, <1>3, <1>4

\* An exception: whatever command follows is at its beginning.
LEMMA Unwinds ==
  ASSUME ControlOK, Locked, NEW c \in Controllers, cmd[c] # "none", Unwind(c)
  PROVE  /\ ControlOK' /\ Locked'
         /\ \A d \in Controllers : at'[d] = 1
<1> USE DEF Unwind
<1>1. cmd'[c] \in {"cleanup", "raised", "aborted"} /\ at'[c] = 1 /\ item'[c] = 1
  BY DEF ControlOK
<1>2. \A d \in Controllers \ {c} : cmd'[d] = "none" /\ at'[d] = 1 /\ item'[d] = 1
  BY DEF Locked, ControlOK
<1>3. ControlOK'
  <2>1. cmd' \in [Controllers -> DOMAIN Plan]
    BY OtherPlans DEF ControlOK
  <2>2. at' \in [Controllers -> Nat] /\ item' \in [Controllers -> 1..Watchdog + 1]
    BY LifecycleAssumption DEF ControlOK, Watchdog
  <2>3. \A d \in Controllers : at'[d] \in 1..Len(Plan[cmd'[d]]) + 1
    BY <1>1, <1>2, <2>1, Lengths
  <2> QED BY <2>1, <2>2, <2>3 DEF ControlOK
<1>4. Locked'
  BY <1>1, <1>2 DEF Locked, ControlOK
<1> QED BY <1>1, <1>2, <1>3, <1>4

\* A step does not do both.
LEMMA NotBoth ==
  ASSUME ControlOK, NEW c \in Controllers, cmd' = cmd,
         cmd[c] \in {"init", "build", "start", "cleanup", "stop"}
  PROVE  ~Unwind(c)
BY DEF Unwind, ControlOK

\* Nothing is claimed of the progress of a command at its first step.
LEMMA NoProgress ==
  ASSUME TypeOK', \A d \in Controllers : at'[d] = 1
  PROVE  /\ Progress'
         /\ \A d \in Controllers : ~At(d, "record")'
<1>1. ASSUME NEW d \in Controllers
      PROVE  ~At(d, "stopAudit")' /\ ~At(d, "record")'
  <2>1. /\ ~Place(cmd'[d], at'[d], "stopAudit")
        /\ ~Place(cmd'[d], at'[d], "record")
    BY WhereNext, Places
  <2> QED BY <2>1, WhereNext
<1> QED BY <1>1 DEF Progress, Preparing, StartHost, StartNet, StartAudit, Stopping, Passed

\* It is enough to look at the command that runs.
LEMMA OneProgress ==
  ASSUME TypeOK', NEW c \in Controllers, \A d \in Controllers \ {c} : cmd'[d] = "none",
         Preparing(c)', StartHost(c)', StartNet(c)', StartAudit(c)', Stopping(c)', Passed(c)'
  PROVE  Progress'
<1>1. ASSUME NEW d \in Controllers \ {c}
      PROVE  ~At(d, "stopAudit")'
  BY <1>1 DEF At
<1> QED BY <1>1 DEF Progress, Preparing, StartHost, StartNet, StartAudit, Stopping, Passed

-----------------------------------------------------------------------------
(* The steps of a command *)

StateInv == Persistent /\ NoManifest /\ RouteIsFenced /\ RunningIsCurrent /\ GuardedNetwork

\* Every live process is in the manifest or was lost before its record.
Known == /\ \A k \in Audits : proc[k] \in Live => entry[k] # "none" \/ k \in lost
         /\ stray \subseteq lost

Kept == faults \in 0..MaxFaults /\ DataOK /\ StateInv

\* The parts in which a step is shown to keep the invariant.
LEMMA InvParts ==
  /\ IInv => ControlOK /\ Locked /\ Kept /\ Progress /\ Accounted /\ TypeOK
  /\ ControlOK' /\ Locked' /\ Kept' /\ Progress' /\ Accounted' => IInv'
BY TypeParts DEF IInv, Kept, StateInv

\* Only a start that has just spawned a process knows more than the manifest.
LEMMA AllKnown ==
  ASSUME IInv, NEW c \in Controllers, cmd[c] # "none", ~At(c, "record")
  PROVE  Known
BY DEF IInv, Locked, Accounted, Known, At

\* Nor is there one when no command runs.
LEMMA NobodyKnown ==
  ASSUME IInv, \A c \in Controllers : cmd[c] = "none"
  PROVE  Known
BY DEF IInv, Accounted, Known, At

\* An exception keeps the invariant if what it leaves behind does.
LEMMA AfterUnwind ==
  ASSUME IInv, NEW c \in Controllers, cmd[c] # "none", Unwind(c), Kept', Known'
  PROVE  IInv'
<1>1. ControlOK' /\ Locked'
  BY InvParts, Unwinds
<1>2. TypeOK'
  BY <1>1, TypeParts DEF Kept
<1>3. Progress'
  BY <1>2, InvParts, Unwinds, NoProgress
<1>4. Accounted'
  BY DEF Known, Accounted
<1> QED BY <1>1, <1>3, <1>4, InvParts

\* A step keeps it if its command has behind it what its new place says.
LEMMA AfterGoto ==
  ASSUME IInv, NEW c \in Controllers, cmd[c] # "none",
         NEW n \in 1..Len(Plan[cmd[c]]) + 1, NEW k \in 1..Watchdog + 1, Goto(c, n, k), Kept',
         Accounted',
         Preparing(c)', StartHost(c)', StartNet(c)', StartAudit(c)', Stopping(c)', Passed(c)'
  PROVE  IInv'
<1>1. ControlOK' /\ Locked' /\ \A d \in Controllers \ {c} : cmd'[d] = "none"
  BY InvParts, GoesOn
<1>2. TypeOK'
  BY <1>1, TypeParts DEF Kept
<1>3. Progress'
  BY <1>1, <1>2, OneProgress
<1> QED BY <1>1, <1>3, InvParts

\* The common case: the next step of the plan.
LEMMA AfterAdvance ==
  ASSUME IInv, NEW c \in Controllers, cmd[c] # "none", ~Done(c), Goto(c, at[c] + 1, 1), Kept',
         Known',
         Preparing(c)', StartHost(c)', StartNet(c)', StartAudit(c)', Stopping(c)'
  PROVE  IInv'
<1>1. at[c] + 1 \in 1..Len(Plan[cmd[c]]) + 1
  <2>1. cmd[c] \in DOMAIN Plan /\ at[c] \in 1..Len(Plan[cmd[c]]) + 1 /\ at[c] <= Len(Plan[cmd[c]])
    BY InvParts DEF Done, ControlOK
  <2> QED BY <2>1, Lengths, OtherPlans
<1>2. 1 \in 1..Watchdog + 1
  BY LifecycleAssumption DEF Watchdog
<1>3. item'[c] = 1
  BY <1>1, <1>2, InvParts, GoesOn
<1>4. Passed(c)'
  BY <1>3 DEF Passed
<1>5. Accounted'
  BY DEF Known, Accounted
<1> QED BY <1>1, <1>2, <1>4, <1>5, AfterGoto

\* The units are installed before anything is opened.
LEMMA InstallStep ==
  ASSUME IInv, NEW c \in Controllers, Install(c)
  PROVE  IInv'
<1>1. cmd[c] = "start" /\ at[c] = 2
  BY Where, Places, InvParts DEF Install
<1>2. cmd[c] # "none" /\ ~Done(c) /\ ~At(c, "record")
  BY <1>1, Where, Places, InvParts DEF Install, At
<1>3. Known /\ Kept /\ Progress
  BY <1>2, AllKnown, InvParts
<1>4. faults' \in 0..MaxFaults /\ DataOK'
  <2>1. faults' \in 0..MaxFaults
    BY <1>3, LifecycleAssumption DEF Kept, Install, Proceed, Advance, Fault, Faulty, images, docker, audit, started, net
  <2>2. DataOK'
    BY <1>3 DEF Kept, DataOK, Install, Proceed, Advance, Fault, Faulty, images, docker, audit, started, net
  <2> QED BY <2>1, <2>2
<1>5. StateInv' /\ Known'
  BY <1>1, <1>3 DEF StateInv, Persistent, NoManifest, RouteIsFenced, RunningIsCurrent, GuardedNetwork, Known, Kept, DataOK, Progress, Preparing, StartHost, StartNet, Install, Proceed, Advance, Fault, Faulty, images, docker, audit, started, net
<1>6. Kept'
  BY <1>4, <1>5 DEF Kept
<1>7. CASE Unwind(c)
  BY <1>2, <1>5, <1>6, <1>7, AfterUnwind
<1>8. CASE Goto(c, at[c] + 1, 1)
  <2>1. cmd' = cmd /\ at'[c] = at[c] + 1
    BY <1>8, InvParts DEF Goto, ControlOK
  <2>2. Preparing(c)' /\ StartHost(c)'
    BY <1>1, <1>3, <1>8, <2>1 DEF Progress, Preparing, StartHost, Kept, DataOK, Install, Proceed, Advance, Fault, Faulty, images, docker, audit, started, net
  <2>3. StartNet(c)' /\ StartAudit(c)'
    BY <1>1, <1>3, <1>8, <2>1 DEF Progress, StartNet, StartAudit, NoneLive, NoneFrom, Kept, DataOK, Install, Proceed, Advance, Fault, Faulty, images, docker, audit, started, net
  <2>4. Stopping(c)'
    BY <1>1, <1>3, <1>8, <2>1 DEF Progress, Stopping, NoneLive, Kept, DataOK, Install, Proceed, Advance, Fault, Faulty, images, docker, audit, started, net
  <2> QED BY <1>2, <1>5, <1>6, <1>8, <2>2, <2>3, <2>4, AfterAdvance
<1> QED BY <1>7, <1>8 DEF Install, Proceed, Advance, Fault, Faulty, images, docker, audit, started, net

\* A guard that is closed is there.
LEMMA CloseGuardStep ==
  ASSUME IInv, NEW c \in Controllers, CloseGuard(c)
  PROVE  IInv'
<1>1. /\ At(c, "closeParent") <=>
            \/ cmd[c] = "start" /\ at[c] = 3
            \/ cmd[c] \in {"cleanup", "stop"} /\ at[c] = 4
      /\ At(c, "closeSsh") <=>
            \/ cmd[c] = "start" /\ at[c] = 4
            \/ cmd[c] \in {"cleanup", "stop"} /\ at[c] = 5
  BY Where, Places, InvParts
<1>2. cmd[c] # "none" /\ ~Done(c) /\ ~At(c, "record")
  BY <1>1, Where, Places, InvParts DEF CloseGuard, At
<1>3. Known /\ Kept /\ Progress
  BY <1>2, AllKnown, InvParts
<1>4. faults' \in 0..MaxFaults /\ DataOK'
  <2>1. faults' \in 0..MaxFaults
    BY <1>3, LifecycleAssumption DEF Kept, CloseGuard, SetGuard, Proceed, Advance, Fault, Faulty, images, docker, audit, started, net
  <2>2. DataOK'
    BY <1>3 DEF Kept, DataOK, CloseGuard, SetGuard, Proceed, Advance, Fault, Faulty, images, docker, audit, started, net
  <2> QED BY <2>1, <2>2
<1>5. StateInv' /\ Known'
  BY <1>1, <1>3 DEF StateInv, Persistent, NoManifest, RouteIsFenced, RunningIsCurrent, GuardedNetwork, Known, Kept, DataOK, Progress, Preparing, StartHost, StartNet, CloseGuard, SetGuard, Proceed, Advance, Fault, Faulty, images, docker, audit, started, net
<1>6. Kept'
  BY <1>4, <1>5 DEF Kept
<1>7. CASE Unwind(c)
  BY <1>2, <1>5, <1>6, <1>7, AfterUnwind
<1>8. CASE Goto(c, at[c] + 1, 1)
  <2>1. cmd' = cmd /\ at'[c] = at[c] + 1
    BY <1>8, InvParts DEF Goto, ControlOK
  <2>2. Preparing(c)' /\ StartHost(c)'
    BY <1>1, <1>3, <1>8, <2>1 DEF Progress, Preparing, StartHost, Kept, DataOK, CloseGuard, SetGuard, Proceed, Advance, Fault, Faulty, images, docker, audit, started, net
  <2>3. StartNet(c)' /\ StartAudit(c)'
    BY <1>1, <1>3, <1>8, <2>1 DEF Progress, StartNet, StartAudit, NoneLive, NoneFrom, Kept, DataOK, CloseGuard, SetGuard, Proceed, Advance, Fault, Faulty, images, docker, audit, started, net
  <2>4. Stopping(c)'
    BY <1>1, <1>3, <1>8, <2>1 DEF Progress, Stopping, NoneLive, Kept, DataOK, CloseGuard, SetGuard, Proceed, Advance, Fault, Faulty, images, docker, audit, started, net
  <2> QED BY <1>2, <1>5, <1>6, <1>8, <2>2, <2>3, <2>4, AfterAdvance
<1> QED BY <1>7, <1>8 DEF CloseGuard, SetGuard, Proceed, Advance, Fault, Faulty, images, docker, audit, started, net

\* The parent guard is open from its step on.
LEMMA OpenGuardStep ==
  ASSUME IInv, NEW c \in Controllers, OpenGuard(c)
  PROVE  IInv'
<1>1. /\ cmd[c] = "start"
      /\ At(c, "openParent") <=> at[c] = 9
      /\ At(c, "openSsh") <=> at[c] = 10
  BY Where, Places, InvParts DEF OpenGuard
<1>2. cmd[c] # "none" /\ ~Done(c) /\ ~At(c, "record")
  BY <1>1, Where, Places, InvParts DEF OpenGuard, At
<1>3. Known /\ Kept /\ Progress
  BY <1>2, AllKnown, InvParts
<1>4. faults' \in 0..MaxFaults /\ DataOK'
  <2>1. faults' \in 0..MaxFaults
    BY <1>3, LifecycleAssumption DEF Kept, OpenGuard, SetGuard, Proceed, Advance, Raise, Fault, Faulty, images, docker, audit, started, net
  <2>2. DataOK'
    BY <1>3 DEF Kept, DataOK, OpenGuard, SetGuard, Proceed, Advance, Raise, Fault, Faulty, images, docker, audit, started, net
  <2> QED BY <2>1, <2>2
<1>5. StateInv' /\ Known'
  BY <1>1, <1>3 DEF StateInv, Persistent, NoManifest, RouteIsFenced, RunningIsCurrent, GuardedNetwork, Known, Kept, DataOK, Progress, Preparing, StartHost, StartNet, OpenGuard, SetGuard, Proceed, Advance, Raise, Fault, Faulty, images, docker, audit, started, net
<1>6. Kept'
  BY <1>4, <1>5 DEF Kept
<1>7. CASE Unwind(c)
  BY <1>2, <1>5, <1>6, <1>7, AfterUnwind
<1>8. CASE Goto(c, at[c] + 1, 1)
  <2>1. cmd' = cmd /\ at'[c] = at[c] + 1 /\ ~Unwind(c)
    BY <1>1, <1>8, InvParts, NotBoth DEF Goto, ControlOK
  <2>2. Preparing(c)' /\ StartHost(c)'
    BY <1>1, <1>3, <1>8, <2>1 DEF Progress, Preparing, StartHost, Kept, DataOK, OpenGuard, SetGuard, Proceed, Advance, Raise, Fault, Faulty, images, docker, audit, started, net
  <2>3. StartNet(c)' /\ StartAudit(c)'
    BY <1>1, <1>3, <1>8, <2>1 DEF Progress, StartNet, StartAudit, NoneLive, NoneFrom, Kept, DataOK, OpenGuard, SetGuard, Proceed, Advance, Raise, Fault, Faulty, images, docker, audit, started, net
  <2>4. Stopping(c)'
    BY <1>1, <1>3, <1>8, <2>1 DEF Progress, Stopping, NoneLive, Kept, DataOK, OpenGuard, SetGuard, Proceed, Advance, Raise, Fault, Faulty, images, docker, audit, started, net
  <2> QED BY <1>2, <1>5, <1>6, <1>8, <2>2, <2>3, <2>4, AfterAdvance
<1> QED BY <1>7, <1>8 DEF OpenGuard, SetGuard, Proceed, Advance, Raise, Fault, Faulty, images, docker, audit, started, net

\* Host access.
LEMMA HostsAllowStep ==
  ASSUME IInv, NEW c \in Controllers, HostsAllow(c)
  PROVE  IInv'
<1>1. /\ At(c, "allowSsh") <=> cmd[c] = "start" /\ at[c] = 11
      /\ At(c, "denySsh") <=>
            \/ cmd[c] = "start" /\ at[c] = 5
            \/ cmd[c] \in {"cleanup", "stop"} /\ at[c] = 6
  BY Where, Places, InvParts
<1>2. cmd[c] # "none" /\ ~Done(c) /\ ~At(c, "record")
  BY <1>1, Where, Places, InvParts DEF HostsAllow, At
<1>3. Known /\ Kept /\ Progress
  BY <1>2, AllKnown, InvParts
<1>4. faults' \in 0..MaxFaults /\ DataOK'
  <2>1. faults' \in 0..MaxFaults
    BY <1>3, LifecycleAssumption DEF Kept, HostsAllow, Proceed, Advance, Fault, Faulty, images, docker, audit, started, net
  <2>2. DataOK'
    <3>1. hostsAllow' \in BOOLEAN
      BY DEF HostsAllow, At
    <3>2. UNCHANGED <<images, unit, guard, docker, audit>>
      BY DEF HostsAllow, images, docker, audit, started, net
    <3> QED BY <1>3, <3>1, <3>2 DEF Kept, DataOK, images, docker, audit, started, net
  <2> QED BY <2>1, <2>2
<1>5. StateInv' /\ Known'
  BY <1>1, <1>3 DEF StateInv, Persistent, NoManifest, RouteIsFenced, RunningIsCurrent, GuardedNetwork, Known, Kept, DataOK, Progress, Preparing, StartHost, StartNet, HostsAllow, Proceed, Advance, Fault, Faulty, images, docker, audit, started, net
<1>6. Kept'
  BY <1>4, <1>5 DEF Kept
<1>7. CASE Unwind(c)
  BY <1>2, <1>5, <1>6, <1>7, AfterUnwind
<1>8. CASE Goto(c, at[c] + 1, 1)
  <2>1. cmd' = cmd /\ at'[c] = at[c] + 1
    BY <1>8, InvParts DEF Goto, ControlOK
  <2>2. Preparing(c)' /\ StartHost(c)'
    BY <1>1, <1>3, <1>8, <2>1 DEF Progress, Preparing, StartHost, Kept, DataOK, HostsAllow, Proceed, Advance, Fault, Faulty, images, docker, audit, started, net
  <2>3. StartNet(c)' /\ StartAudit(c)'
    BY <1>1, <1>3, <1>8, <2>1 DEF Progress, StartNet, StartAudit, NoneLive, NoneFrom, Kept, DataOK, HostsAllow, Proceed, Advance, Fault, Faulty, images, docker, audit, started, net
  <2>4. Stopping(c)'
    BY <1>1, <1>3, <1>8, <2>1 DEF Progress, Stopping, NoneLive, Kept, DataOK, HostsAllow, Proceed, Advance, Fault, Faulty, images, docker, audit, started, net
  <2> QED BY <1>2, <1>5, <1>6, <1>8, <2>2, <2>3, <2>4, AfterAdvance
<1> QED BY <1>7, <1>8 DEF HostsAllow, Proceed, Advance, Fault, Faulty, images, docker, audit, started, net

\* The networks are created behind both guards.
LEMMA CreateStep ==
  ASSUME IInv, NEW c \in Controllers, Create(c)
  PROVE  IInv'
<1>1. cmd[c] = "start" /\ at[c] = 8
  BY Where, Places, InvParts DEF Create
<1>2. cmd[c] # "none" /\ ~Done(c) /\ ~At(c, "record")
  BY <1>1, Where, Places, InvParts DEF Create, At
<1>3. Known /\ Kept /\ Progress
  BY <1>2, AllKnown, InvParts
<1>4. faults' \in 0..MaxFaults /\ DataOK'
  <2>1. faults' \in 0..MaxFaults
    BY <1>3, LifecycleAssumption DEF Kept, Create, Proceed, Advance, Fault, Faulty, images, host, audit, started, net
  <2>2. DataOK'
    BY <1>3 DEF Kept, DataOK, Create, Proceed, Advance, Fault, Faulty, images, host, audit, started, net
  <2> QED BY <2>1, <2>2
<1>5. StateInv' /\ Known'
  BY <1>1, <1>3 DEF StateInv, Persistent, NoManifest, RouteIsFenced, RunningIsCurrent, GuardedNetwork, Known, Kept, DataOK, Progress, Preparing, StartHost, StartNet, Create, Proceed, Advance, Fault, Faulty, images, host, audit, started, net
<1>6. Kept'
  BY <1>4, <1>5 DEF Kept
<1>7. CASE Unwind(c)
  BY <1>2, <1>5, <1>6, <1>7, AfterUnwind
<1>8. CASE Goto(c, at[c] + 1, 1)
  <2>1. cmd' = cmd /\ at'[c] = at[c] + 1
    BY <1>8, InvParts DEF Goto, ControlOK
  <2>2. Preparing(c)' /\ StartHost(c)'
    BY <1>1, <1>3, <1>8, <2>1 DEF Progress, Preparing, StartHost, Kept, DataOK, Create, Proceed, Advance, Fault, Faulty, images, host, audit, started, net
  <2>3. StartNet(c)' /\ StartAudit(c)'
    BY <1>1, <1>3, <1>8, <2>1 DEF Progress, StartNet, StartAudit, NoneLive, NoneFrom, Kept, DataOK, Create, Proceed, Advance, Fault, Faulty, images, host, audit, started, net
  <2>4. Stopping(c)'
    BY <1>1, <1>3, <1>8, <2>1 DEF Progress, Stopping, NoneLive, Kept, DataOK, Create, Proceed, Advance, Fault, Faulty, images, host, audit, started, net
  <2> QED BY <1>2, <1>5, <1>6, <1>8, <2>2, <2>3, <2>4, AfterAdvance
<1> QED BY <1>7, <1>8 DEF Create, Proceed, Advance, Fault, Faulty, images, host, audit, started, net

\* Gateway, resolver and canary start.
LEMMA UpInfraStep ==
  ASSUME IInv, NEW c \in Controllers, UpInfra(c)
  PROVE  IInv'
<1>1. cmd[c] = "start" /\ at[c] = 12
  BY Where, Places, InvParts DEF UpInfra
<1>2. cmd[c] # "none" /\ ~Done(c) /\ ~At(c, "record")
  BY <1>1, Where, Places, InvParts DEF UpInfra, At
<1>3. Known /\ Kept /\ Progress
  BY <1>2, AllKnown, InvParts
<1>4. faults' \in 0..MaxFaults /\ DataOK'
  <2>1. faults' \in 0..MaxFaults
    BY <1>3, LifecycleAssumption DEF Kept, UpInfra, Proceed, Advance, Fault, Faulty, images, host, started, net
  <2>2. DataOK'
    BY <1>3 DEF Kept, DataOK, UpInfra, Proceed, Advance, Fault, Faulty, images, host, started, net
  <2> QED BY <2>1, <2>2
<1>5. StateInv' /\ Known'
  BY <1>1, <1>3 DEF StateInv, Persistent, NoManifest, RouteIsFenced, RunningIsCurrent, GuardedNetwork, Known, Kept, DataOK, Progress, Preparing, StartHost, StartNet, UpInfra, Proceed, Advance, Fault, Faulty, images, host, started, net
<1>6. Kept'
  BY <1>4, <1>5 DEF Kept
<1>7. CASE Unwind(c)
  BY <1>2, <1>5, <1>6, <1>7, AfterUnwind
<1>8. CASE Goto(c, at[c] + 1, 1)
  <2>1. cmd' = cmd /\ at'[c] = at[c] + 1
    BY <1>8, InvParts DEF Goto, ControlOK
  <2>2. Preparing(c)' /\ StartHost(c)'
    BY <1>1, <1>3, <1>8, <2>1 DEF Progress, Preparing, StartHost, Kept, DataOK, UpInfra, Proceed, Advance, Fault, Faulty, images, host, started, net
  <2>3. StartNet(c)' /\ StartAudit(c)'
    BY <1>1, <1>3, <1>8, <2>1 DEF Progress, StartNet, StartAudit, NoneLive, NoneFrom, Kept, DataOK, UpInfra, Proceed, Advance, Fault, Faulty, images, host, started, net
  <2>4. Stopping(c)'
    BY <1>1, <1>3, <1>8, <2>1 DEF Progress, Stopping, NoneLive, Kept, DataOK, UpInfra, Proceed, Advance, Fault, Faulty, images, host, started, net
  <2> QED BY <1>2, <1>5, <1>6, <1>8, <2>2, <2>3, <2>4, AfterAdvance
<1> QED BY <1>7, <1>8 DEF UpInfra, Proceed, Advance, Fault, Faulty, images, host, started, net

\* Nothing changes while start waits for them.
LEMMA WaitHealthyStep ==
  ASSUME IInv, NEW c \in Controllers, WaitHealthy(c)
  PROVE  IInv'
<1>1. cmd[c] = "start" /\ at[c] = 13
  BY Where, Places, InvParts DEF WaitHealthy
<1>2. cmd[c] # "none" /\ ~Done(c) /\ ~At(c, "record")
  BY <1>1, Where, Places, InvParts DEF WaitHealthy, At
<1>3. Known /\ Kept /\ Progress
  BY <1>2, AllKnown, InvParts
<1>4. faults' \in 0..MaxFaults /\ DataOK'
  <2>1. faults' \in 0..MaxFaults
    BY <1>3, LifecycleAssumption DEF Kept, WaitHealthy, Advance, Raise, images, host, docker, started, net, audit
  <2>2. DataOK'
    BY <1>3 DEF Kept, DataOK, WaitHealthy, Advance, Raise, images, host, docker, started, net, audit
  <2> QED BY <2>1, <2>2
<1>5. StateInv' /\ Known'
  BY <1>1, <1>3 DEF StateInv, Persistent, NoManifest, RouteIsFenced, RunningIsCurrent, GuardedNetwork, Known, Kept, DataOK, Progress, Preparing, StartHost, StartNet, WaitHealthy, Advance, Raise, images, host, docker, started, net, audit
<1>6. Kept'
  BY <1>4, <1>5 DEF Kept
<1>7. CASE Unwind(c)
  BY <1>2, <1>5, <1>6, <1>7, AfterUnwind
<1>8. CASE Goto(c, at[c] + 1, 1)
  <2>1. cmd' = cmd /\ at'[c] = at[c] + 1
    BY <1>8, InvParts DEF Goto, ControlOK
  <2>2. Preparing(c)' /\ StartHost(c)'
    BY <1>1, <1>3, <1>8, <2>1 DEF Progress, Preparing, StartHost, Kept, DataOK, WaitHealthy, Advance, Raise, images, host, docker, started, net, audit
  <2>3. StartNet(c)' /\ StartAudit(c)'
    BY <1>1, <1>3, <1>8, <2>1 DEF Progress, StartNet, StartAudit, NoneLive, NoneFrom, Kept, DataOK, WaitHealthy, Advance, Raise, images, host, docker, started, net, audit
  <2>4. Stopping(c)'
    BY <1>1, <1>3, <1>8, <2>1 DEF Progress, Stopping, NoneLive, Kept, DataOK, WaitHealthy, Advance, Raise, images, host, docker, started, net, audit
  <2> QED BY <1>2, <1>5, <1>6, <1>8, <2>2, <2>3, <2>4, AfterAdvance
<1> QED BY <1>7, <1>8 DEF WaitHealthy, Advance, Raise, images, host, docker, started, net, audit

\* Their tables are loaded.
LEMMA FenceInfraStep ==
  ASSUME IInv, NEW c \in Controllers, FenceInfra(c)
  PROVE  IInv'
<1>1. cmd[c] = "start" /\ at[c] = 14
  BY Where, Places, InvParts DEF FenceInfra
<1>2. cmd[c] # "none" /\ ~Done(c) /\ ~At(c, "record")
  BY <1>1, Where, Places, InvParts DEF FenceInfra, At
<1>3. Known /\ Kept /\ Progress
  BY <1>2, AllKnown, InvParts
<1>4. faults' \in 0..MaxFaults /\ DataOK'
  <2>1. faults' \in 0..MaxFaults
    BY <1>3, LifecycleAssumption DEF Kept, FenceInfra, Proceed, Advance, Raise, Fault, Faulty, images, host, started, audit
  <2>2. DataOK'
    <3>1. infraFenced' \in BOOLEAN
      BY <1>3 DEF Kept, DataOK, FenceInfra, images, host, started, audit
    <3>2. UNCHANGED <<images, host, infra, target, started, fenced, route, audit>>
      BY DEF FenceInfra, images, host, started, audit
    <3> QED BY <1>3, <3>1, <3>2 DEF Kept, DataOK, images, host, started, audit
  <2> QED BY <2>1, <2>2
<1>5. StateInv' /\ Known'
  BY <1>1, <1>3 DEF StateInv, Persistent, NoManifest, RouteIsFenced, RunningIsCurrent, GuardedNetwork, Known, Kept, DataOK, Progress, Preparing, StartHost, StartNet, FenceInfra, Proceed, Advance, Raise, Fault, Faulty, images, host, started, audit
<1>6. Kept'
  BY <1>4, <1>5 DEF Kept
<1>7. CASE Unwind(c)
  BY <1>2, <1>5, <1>6, <1>7, AfterUnwind
<1>8. CASE Goto(c, at[c] + 1, 1)
  <2>1. cmd' = cmd /\ at'[c] = at[c] + 1
    BY <1>8, InvParts DEF Goto, ControlOK
  <2>2. Preparing(c)' /\ StartHost(c)'
    BY <1>1, <1>3, <1>8, <2>1 DEF Progress, Preparing, StartHost, Kept, DataOK, FenceInfra, Proceed, Advance, Raise, Fault, Faulty, images, host, started, audit
  <2>3. StartNet(c)' /\ StartAudit(c)'
    BY <1>1, <1>3, <1>8, <2>1 DEF Progress, StartNet, StartAudit, NoneLive, NoneFrom, Kept, DataOK, FenceInfra, Proceed, Advance, Raise, Fault, Faulty, images, host, started, audit
  <2>4. Stopping(c)'
    BY <1>1, <1>3, <1>8, <2>1 DEF Progress, Stopping, NoneLive, Kept, DataOK, FenceInfra, Proceed, Advance, Raise, Fault, Faulty, images, host, started, audit
  <2> QED BY <1>2, <1>5, <1>6, <1>8, <2>2, <2>3, <2>4, AfterAdvance
<1> QED BY <1>7, <1>8 DEF FenceInfra, Proceed, Advance, Raise, Fault, Faulty, images, host, started, audit

\* The target starts from what was checked, or goes on as it is.
LEMMA UpTargetStep ==
  ASSUME IInv, NEW c \in Controllers, UpTarget(c)
  PROVE  IInv'
<1>1. cmd[c] = "start" /\ at[c] = 15
  BY Where, Places, InvParts DEF UpTarget
<1>2. cmd[c] # "none" /\ ~Done(c) /\ ~At(c, "record")
  BY <1>1, Where, Places, InvParts DEF UpTarget, At
<1>3. Known /\ Kept /\ Progress
  BY <1>2, AllKnown, InvParts
<1>4. faults' \in 0..MaxFaults /\ DataOK'
  <2>1. faults' \in 0..MaxFaults
    BY <1>3, LifecycleAssumption DEF Kept, UpTarget, Proceed, Advance, Fault, Faulty, images, host, started, audit
  <2>2. DataOK'
    <3>1. /\ target' \in {"down", "up"} /\ fenced' \in BOOLEAN /\ route' \in BOOLEAN
          /\ runGen' \in 0..MaxGenerations /\ runImage' \in Images \cup {None}
      BY <1>3 DEF Kept, DataOK, UpTarget, images, host, started, audit
    <3>2. UNCHANGED <<images, host, infra, infraFenced, audit>>
      BY DEF UpTarget, images, host, started, audit
    <3> QED BY <1>3, <3>1, <3>2 DEF Kept, DataOK, images, host, started, audit
  <2> QED BY <2>1, <2>2
<1>5. StateInv' /\ Known'
  BY <1>1, <1>3 DEF StateInv, Persistent, NoManifest, RouteIsFenced, RunningIsCurrent, GuardedNetwork, Known, Kept, DataOK, Progress, Preparing, StartHost, StartNet, UpTarget, Proceed, Advance, Fault, Faulty, images, host, started, audit
<1>6. Kept'
  BY <1>4, <1>5 DEF Kept
<1>7. CASE Unwind(c)
  BY <1>2, <1>5, <1>6, <1>7, AfterUnwind
<1>8. CASE Goto(c, at[c] + 1, 1)
  <2>1. cmd' = cmd /\ at'[c] = at[c] + 1
    BY <1>8, InvParts DEF Goto, ControlOK
  <2>2. Preparing(c)' /\ StartHost(c)'
    BY <1>1, <1>3, <1>8, <2>1 DEF Progress, Preparing, StartHost, Kept, DataOK, UpTarget, Proceed, Advance, Fault, Faulty, images, host, started, audit
  <2>3. StartNet(c)' /\ StartAudit(c)'
    BY <1>1, <1>3, <1>8, <2>1 DEF Progress, StartNet, StartAudit, NoneLive, NoneFrom, Kept, DataOK, UpTarget, Proceed, Advance, Fault, Faulty, images, host, started, audit
  <2>4. Stopping(c)'
    BY <1>1, <1>3, <1>8, <2>1 DEF Progress, Stopping, NoneLive, Kept, DataOK, UpTarget, Proceed, Advance, Fault, Faulty, images, host, started, audit
  <2> QED BY <1>2, <1>5, <1>6, <1>8, <2>2, <2>3, <2>4, AfterAdvance
<1> QED BY <1>7, <1>8 DEF UpTarget, Proceed, Advance, Fault, Faulty, images, host, started, audit

\* Its table is loaded,
LEMMA FenceTargetStep ==
  ASSUME IInv, NEW c \in Controllers, FenceTarget(c)
  PROVE  IInv'
<1>1. cmd[c] = "start" /\ at[c] = 16
  BY Where, Places, InvParts DEF FenceTarget
<1>2. cmd[c] # "none" /\ ~Done(c) /\ ~At(c, "record")
  BY <1>1, Where, Places, InvParts DEF FenceTarget, At
<1>3. Known /\ Kept /\ Progress
  BY <1>2, AllKnown, InvParts
<1>4. faults' \in 0..MaxFaults /\ DataOK'
  <2>1. faults' \in 0..MaxFaults
    BY <1>3, LifecycleAssumption DEF Kept, FenceTarget, Proceed, Advance, Raise, Fault, Faulty, images, host, started, audit
  <2>2. DataOK'
    <3>1. fenced' \in BOOLEAN
      BY <1>3 DEF Kept, DataOK, FenceTarget, images, host, started, audit
    <3>2. UNCHANGED <<images, host, infra, target, started, infraFenced, route, audit>>
      BY DEF FenceTarget, images, host, started, audit
    <3> QED BY <1>3, <3>1, <3>2 DEF Kept, DataOK, images, host, started, audit
  <2> QED BY <2>1, <2>2
<1>5. StateInv' /\ Known'
  BY <1>1, <1>3 DEF StateInv, Persistent, NoManifest, RouteIsFenced, RunningIsCurrent, GuardedNetwork, Known, Kept, DataOK, Progress, Preparing, StartHost, StartNet, FenceTarget, Proceed, Advance, Raise, Fault, Faulty, images, host, started, audit
<1>6. Kept'
  BY <1>4, <1>5 DEF Kept
<1>7. CASE Unwind(c)
  BY <1>2, <1>5, <1>6, <1>7, AfterUnwind
<1>8. CASE Goto(c, at[c] + 1, 1)
  <2>1. cmd' = cmd /\ at'[c] = at[c] + 1
    BY <1>8, InvParts DEF Goto, ControlOK
  <2>2. Preparing(c)' /\ StartHost(c)'
    BY <1>1, <1>3, <1>8, <2>1 DEF Progress, Preparing, StartHost, Kept, DataOK, FenceTarget, Proceed, Advance, Raise, Fault, Faulty, images, host, started, audit
  <2>3. StartNet(c)' /\ StartAudit(c)'
    BY <1>1, <1>3, <1>8, <2>1 DEF Progress, StartNet, StartAudit, NoneLive, NoneFrom, Kept, DataOK, FenceTarget, Proceed, Advance, Raise, Fault, Faulty, images, host, started, audit
  <2>4. Stopping(c)'
    BY <1>1, <1>3, <1>8, <2>1 DEF Progress, Stopping, NoneLive, Kept, DataOK, FenceTarget, Proceed, Advance, Raise, Fault, Faulty, images, host, started, audit
  <2> QED BY <1>2, <1>5, <1>6, <1>8, <2>2, <2>3, <2>4, AfterAdvance
<1> QED BY <1>7, <1>8 DEF FenceTarget, Proceed, Advance, Raise, Fault, Faulty, images, host, started, audit

\* so that a route comes behind it.
LEMMA EnableRouteStep ==
  ASSUME IInv, NEW c \in Controllers, EnableRoute(c)
  PROVE  IInv'
<1>1. cmd[c] = "start" /\ at[c] = 21
  BY Where, Places, InvParts DEF EnableRoute
<1>2. cmd[c] # "none" /\ ~Done(c) /\ ~At(c, "record")
  BY <1>1, Where, Places, InvParts DEF EnableRoute, At
<1>3. Known /\ Kept /\ Progress
  BY <1>2, AllKnown, InvParts
<1>4. faults' \in 0..MaxFaults /\ DataOK'
  <2>1. faults' \in 0..MaxFaults
    BY <1>3, LifecycleAssumption DEF Kept, EnableRoute, Proceed, Advance, Raise, Fault, Faulty, images, host, started, audit
  <2>2. DataOK'
    <3>1. route' \in BOOLEAN
      BY <1>3 DEF Kept, DataOK, EnableRoute, images, host, started, audit
    <3>2. UNCHANGED <<images, host, infra, target, started, infraFenced, fenced, audit>>
      BY DEF EnableRoute, images, host, started, audit
    <3> QED BY <1>3, <3>1, <3>2 DEF Kept, DataOK, images, host, started, audit
  <2> QED BY <2>1, <2>2
<1>5. StateInv' /\ Known'
  BY <1>1, <1>3 DEF StateInv, Persistent, NoManifest, RouteIsFenced, RunningIsCurrent, GuardedNetwork, Known, Kept, DataOK, Progress, Preparing, StartHost, StartNet, EnableRoute, Proceed, Advance, Raise, Fault, Faulty, images, host, started, audit
<1>6. Kept'
  BY <1>4, <1>5 DEF Kept
<1>7. CASE Unwind(c)
  BY <1>2, <1>5, <1>6, <1>7, AfterUnwind
<1>8. CASE Goto(c, at[c] + 1, 1)
  <2>1. cmd' = cmd /\ at'[c] = at[c] + 1
    BY <1>8, InvParts DEF Goto, ControlOK
  <2>2. Preparing(c)' /\ StartHost(c)'
    BY <1>1, <1>3, <1>8, <2>1 DEF Progress, Preparing, StartHost, Kept, DataOK, EnableRoute, Proceed, Advance, Raise, Fault, Faulty, images, host, started, audit
  <2>3. StartNet(c)' /\ StartAudit(c)'
    BY <1>1, <1>3, <1>8, <2>1 DEF Progress, StartNet, StartAudit, NoneLive, NoneFrom, Kept, DataOK, EnableRoute, Proceed, Advance, Raise, Fault, Faulty, images, host, started, audit
  <2>4. Stopping(c)'
    BY <1>1, <1>3, <1>8, <2>1 DEF Progress, Stopping, NoneLive, Kept, DataOK, EnableRoute, Proceed, Advance, Raise, Fault, Faulty, images, host, started, audit
  <2> QED BY <1>2, <1>5, <1>6, <1>8, <2>2, <2>3, <2>4, AfterAdvance
<1> QED BY <1>7, <1>8 DEF EnableRoute, Proceed, Advance, Raise, Fault, Faulty, images, host, started, audit

\* The route goes first, or stays unnoticed.
LEMMA DisableRouteStep ==
  ASSUME IInv, NEW c \in Controllers, DisableRoute(c)
  PROVE  IInv'
<1>1. cmd[c] \in {"cleanup", "stop"} /\ at[c] = 1
  BY Where, Places, InvParts DEF DisableRoute
<1>2. cmd[c] # "none" /\ ~Done(c) /\ ~At(c, "record")
  BY <1>1, Where, Places, InvParts DEF DisableRoute, At
<1>3. Known /\ Kept /\ Progress
  BY <1>2, AllKnown, InvParts
<1>4. faults' \in 0..MaxFaults /\ DataOK'
  <2>1. faults' \in 0..MaxFaults
    BY <1>3, LifecycleAssumption DEF Kept, DisableRoute, Advance, Faulty, images, host, started, audit
  <2>2. DataOK'
    <3>1. route' \in BOOLEAN
      BY <1>3 DEF Kept, DataOK, DisableRoute, images, host, started, audit
    <3>2. UNCHANGED <<images, host, infra, target, started, infraFenced, fenced, audit>>
      BY DEF DisableRoute, images, host, started, audit
    <3> QED BY <1>3, <3>1, <3>2 DEF Kept, DataOK, images, host, started, audit
  <2> QED BY <2>1, <2>2
<1>5. StateInv' /\ Known'
  BY <1>1, <1>3 DEF StateInv, Persistent, NoManifest, RouteIsFenced, RunningIsCurrent, GuardedNetwork, Known, Kept, DataOK, Progress, Preparing, StartHost, StartNet, DisableRoute, Advance, Faulty, images, host, started, audit
<1>6. Kept'
  BY <1>4, <1>5 DEF Kept
<1>7. CASE Unwind(c)
  BY <1>2, <1>5, <1>6, <1>7, AfterUnwind
<1>8. CASE Goto(c, at[c] + 1, 1)
  <2>1. cmd' = cmd /\ at'[c] = at[c] + 1
    BY <1>8, InvParts DEF Goto, ControlOK
  <2>2. Preparing(c)' /\ StartHost(c)'
    BY <1>1, <1>3, <1>8, <2>1 DEF Progress, Preparing, StartHost, Kept, DataOK, DisableRoute, Advance, Faulty, images, host, started, audit
  <2>3. StartNet(c)' /\ StartAudit(c)'
    BY <1>1, <1>3, <1>8, <2>1 DEF Progress, StartNet, StartAudit, NoneLive, NoneFrom, Kept, DataOK, DisableRoute, Advance, Faulty, images, host, started, audit
  <2>4. Stopping(c)'
    BY <1>1, <1>3, <1>8, <2>1 DEF Progress, Stopping, NoneLive, Kept, DataOK, DisableRoute, Advance, Faulty, images, host, started, audit
  <2> QED BY <1>2, <1>5, <1>6, <1>8, <2>2, <2>3, <2>4, AfterAdvance
<1> QED BY <1>7, <1>8 DEF DisableRoute, Advance, Faulty, images, host, started, audit

\* stop goes on only with everything down.
LEMMA DownStep ==
  ASSUME IInv, NEW c \in Controllers, Down(c)
  PROVE  IInv'
<1>1. cmd[c] \in {"cleanup", "stop"} /\ at[c] = 3
  BY Where, Places, InvParts DEF Down
<1>2. cmd[c] # "none" /\ ~Done(c) /\ ~At(c, "record")
  BY <1>1, Where, Places, InvParts DEF Down, At
<1>3. Known /\ Kept /\ Progress
  BY <1>2, AllKnown, InvParts
<1>4. faults' \in 0..MaxFaults /\ DataOK'
  <2>1. faults' \in 0..MaxFaults
    BY <1>3, LifecycleAssumption DEF Kept, Down, TargetGone, Advance, Fault, Faulty, images, host, started, net, audit
  <2>2. DataOK'
    <3>1. CASE TargetGone /\ infra' = "absent" /\ infraFenced' = FALSE
      BY <1>3, <3>1 DEF Kept, DataOK, Down, TargetGone, Advance, Fault, Faulty, images, host, started, net, audit
    <3>2. CASE TargetGone /\ UNCHANGED <<infra, infraFenced>>
      BY <1>3, <3>2 DEF Kept, DataOK, Down, TargetGone, Advance, Fault, Faulty, images, host, started, net, audit
    <3>3. CASE UNCHANGED <<infra, target, net>>
      BY <1>3, <3>3 DEF Kept, DataOK, Down, TargetGone, Advance, Fault, Faulty, images, host, started, net, audit
    <3> QED BY <3>1, <3>2, <3>3 DEF Down, TargetGone, Advance, Fault, Faulty, images, host, started, net, audit
  <2> QED BY <2>1, <2>2
<1>5. StateInv' /\ Known'
  BY <1>1, <1>3 DEF StateInv, Persistent, NoManifest, RouteIsFenced, RunningIsCurrent, GuardedNetwork, Known, Kept, DataOK, Progress, Preparing, StartHost, StartNet, Down, TargetGone, Advance, Fault, Faulty, images, host, started, net, audit
<1>6. Kept'
  BY <1>4, <1>5 DEF Kept
<1>7. CASE Unwind(c)
  BY <1>2, <1>5, <1>6, <1>7, AfterUnwind
<1>8. CASE Goto(c, at[c] + 1, 1)
  <2>1. cmd' = cmd /\ at'[c] = at[c] + 1 /\ ~Unwind(c)
    BY <1>1, <1>8, InvParts, NotBoth DEF Goto, ControlOK
  <2>2. Preparing(c)' /\ StartHost(c)'
    BY <1>1, <1>3, <1>8, <2>1 DEF Progress, Preparing, StartHost, Kept, DataOK, Down, TargetGone, Advance, Fault, Faulty, images, host, started, net, audit
  <2>3. StartNet(c)' /\ StartAudit(c)'
    BY <1>1, <1>3, <1>8, <2>1 DEF Progress, StartNet, StartAudit, NoneLive, NoneFrom, Kept, DataOK, Down, TargetGone, Advance, Fault, Faulty, images, host, started, net, audit
  <2>4. Stopping(c)'
    BY <1>1, <1>3, <1>8, <2>1 DEF Progress, Stopping, NoneLive, Kept, DataOK, Down, TargetGone, Advance, Fault, Faulty, images, host, started, net, audit
  <2> QED BY <1>2, <1>5, <1>6, <1>8, <2>2, <2>3, <2>4, AfterAdvance
<1> QED BY <1>7, <1>8 DEF Down, TargetGone, Advance, Fault, Faulty, images, host, started, net, audit

\* A new manifest, while no audit process lives.
LEMMA OpenAuditStep ==
  ASSUME IInv, NEW c \in Controllers, OpenAudit(c)
  PROVE  IInv'
<1>1. cmd[c] = "start" /\ at[c] = 17
  BY Where, Places, InvParts DEF OpenAudit
<1>2. cmd[c] # "none" /\ ~Done(c) /\ ~At(c, "record")
  BY <1>1, Where, Places, InvParts DEF OpenAudit, At
<1>3. Known /\ Kept /\ Progress
  BY <1>2, AllKnown, InvParts
<1>4. faults' \in 0..MaxFaults /\ DataOK'
  <2>1. faults' \in 0..MaxFaults
    BY <1>3, LifecycleAssumption DEF Kept, OpenAudit, Proceed, Advance, Raise, Fault, Faulty, images, host, docker, started, net
  <2>2. DataOK'
    <3>1. CASE target = "up" /\ infra = "running"
      BY <1>3, <3>1 DEF Kept, DataOK, OpenAudit, Proceed, Advance, Raise, Fault, Faulty, images, host, docker, started, net
    <3>2. CASE ~(target = "up" /\ infra = "running")
      BY <1>3, <3>2 DEF Kept, DataOK, OpenAudit, Proceed, Advance, Raise, Fault, Faulty, images, host, docker, started, net
    <3> QED BY <3>1, <3>2 DEF OpenAudit, Proceed, Advance, Raise, Fault, Faulty, images, host, docker, started, net
  <2> QED BY <2>1, <2>2
<1>5. StateInv' /\ Known'
  BY <1>1, <1>3 DEF StateInv, Persistent, NoManifest, RouteIsFenced, RunningIsCurrent, GuardedNetwork, Known, Kept, DataOK, Progress, StartAudit, NoneLive, NoneFrom, OpenAudit, Proceed, Advance, Raise, Fault, Faulty, images, host, docker, started, net
<1>6. Kept'
  BY <1>4, <1>5 DEF Kept
<1>7. CASE Unwind(c)
  BY <1>2, <1>5, <1>6, <1>7, AfterUnwind
<1>8. CASE Goto(c, at[c] + 1, 1)
  <2>1. cmd' = cmd /\ at'[c] = at[c] + 1 /\ item'[c] = 1 /\ ~Unwind(c)
    BY <1>1, <1>8, InvParts, NotBoth DEF Goto, ControlOK
  <2>2. Preparing(c)' /\ StartHost(c)'
    BY <1>1, <1>3, <1>8, <2>1 DEF Progress, Preparing, StartHost, Kept, DataOK, OpenAudit, Proceed, Advance, Raise, Fault, Faulty, images, host, docker, started, net
  <2>3. StartNet(c)'
    BY <1>1, <1>3, <1>8, <2>1 DEF Progress, StartNet, OpenAudit, host, docker, started, net
  <2>4. StartAudit(c)'
    <3>1. manifest' /\ 1 \in Audits /\ at'[c] = 18
      BY <1>1, <1>8, <2>1, LifecycleAssumption
      DEF OpenAudit, Raise, Audits, Watchdog
    <3>2. NoneLive
      BY <1>1, <1>3 DEF Progress, StartAudit
    <3>3. NoneFrom(item[c])'
      BY <3>2 DEF NoneLive, NoneFrom, OpenAudit
    <3> QED BY <2>1, <3>1, <3>3 DEF StartAudit
  <2>5. Stopping(c)'
    BY <1>1, <1>3, <1>8, <2>1 DEF Progress, Stopping, NoneLive, Kept, DataOK, OpenAudit, Proceed, Advance, Raise, Fault, Faulty, images, host, docker, started, net
  <2> QED BY <1>2, <1>5, <1>6, <1>8, <2>2, <2>3, <2>4, <2>5, AfterAdvance
<1> QED BY <1>7, <1>8 DEF OpenAudit, Proceed, Advance, Raise, Fault, Faulty, images, host, docker, started, net

\* The flows are archived.
LEMMA ArchiveStep ==
  ASSUME IInv, NEW c \in Controllers, Archive(c)
  PROVE  IInv'
<1>1. cmd[c] \in {"start", "stop"} /\ at[c] = 7
  BY Where, Places, InvParts DEF Archive
<1>2. cmd[c] # "none" /\ ~Done(c) /\ ~At(c, "record")
  BY <1>1, Where, Places, InvParts DEF Archive, At
<1>3. Known /\ Kept /\ Progress
  BY <1>2, AllKnown, InvParts
<1>4. faults' \in 0..MaxFaults /\ DataOK'
  <2>1. faults' \in 0..MaxFaults
    BY <1>3, LifecycleAssumption DEF Kept, Archive, Proceed, Advance, Fault, Faulty, images, host, docker, started, net
  <2>2. DataOK'
    <3>1. flow' \in BOOLEAN
      BY <1>3 DEF Kept, DataOK, Archive, images, host, docker, started, net
    <3>2. UNCHANGED <<images, host, docker, manifest, entry, proc, child, stray, lost>>
      BY DEF Archive, images, host, docker, started, net
    <3> QED BY <1>3, <3>1, <3>2 DEF Kept, DataOK, images, host, docker, started, net
  <2> QED BY <2>1, <2>2
<1>5. StateInv' /\ Known'
  BY <1>1, <1>3 DEF StateInv, Persistent, NoManifest, RouteIsFenced, RunningIsCurrent, GuardedNetwork, Known, Kept, DataOK, Progress, Preparing, StartHost, StartNet, Archive, Proceed, Advance, Fault, Faulty, images, host, docker, started, net
<1>6. Kept'
  BY <1>4, <1>5 DEF Kept
<1>7. CASE Unwind(c)
  BY <1>2, <1>5, <1>6, <1>7, AfterUnwind
<1>8. CASE Goto(c, at[c] + 1, 1)
  <2>1. cmd' = cmd /\ at'[c] = at[c] + 1
    BY <1>8, InvParts DEF Goto, ControlOK
  <2>2. Preparing(c)' /\ StartHost(c)'
    BY <1>1, <1>3, <1>8, <2>1 DEF Progress, Preparing, StartHost, Kept, DataOK, Archive, Proceed, Advance, Fault, Faulty, images, host, docker, started, net
  <2>3. StartNet(c)' /\ StartAudit(c)'
    BY <1>1, <1>3, <1>8, <2>1 DEF Progress, StartNet, StartAudit, NoneLive, NoneFrom, Kept, DataOK, Archive, Proceed, Advance, Fault, Faulty, images, host, docker, started, net
  <2>4. Stopping(c)'
    BY <1>1, <1>3, <1>8, <2>1 DEF Progress, Stopping, NoneLive, Kept, DataOK, Archive, Proceed, Advance, Fault, Faulty, images, host, docker, started, net
  <2> QED BY <1>2, <1>5, <1>6, <1>8, <2>2, <2>3, <2>4, AfterAdvance
<1> QED BY <1>7, <1>8 DEF Archive, Proceed, Advance, Fault, Faulty, images, host, docker, started, net

\* A command is let on.
LEMMA CheckStep ==
  ASSUME IInv, NEW c \in Controllers, Check(c)
  PROVE  IInv'
<1>1. cmd[c] \in {"init", "build", "start"} /\ at[c] = 1
  BY Where, Places, InvParts DEF Check
<1>2. cmd[c] # "none" /\ ~Done(c) /\ ~At(c, "record")
  BY <1>1, Where, Places, InvParts DEF Check, At
<1>3. Known /\ Kept /\ Progress
  BY <1>2, AllKnown, InvParts
<1>4. faults' \in 0..MaxFaults /\ DataOK'
  <2>1. faults' \in 0..MaxFaults
    BY <1>3, LifecycleAssumption DEF Kept, Check, Permitted, Unnoticed, Stopped, Advance, Raise, Faulty, images, host, docker, started, net, audit
  <2>2. DataOK'
    BY <1>3 DEF Kept, DataOK, Check, Permitted, Unnoticed, Stopped, Advance, Raise, Faulty, images, host, docker, started, net, audit
  <2> QED BY <2>1, <2>2
<1>5. StateInv' /\ Known'
  BY <1>1, <1>3 DEF StateInv, Persistent, NoManifest, RouteIsFenced, RunningIsCurrent, GuardedNetwork, Known, Kept, DataOK, Progress, Preparing, StartHost, StartNet, Check, Permitted, Unnoticed, Stopped, Advance, Raise, Faulty, images, host, docker, started, net, audit
<1>6. Kept'
  BY <1>4, <1>5 DEF Kept
<1>7. CASE Unwind(c)
  BY <1>2, <1>5, <1>6, <1>7, AfterUnwind
<1>8. CASE Goto(c, at[c] + 1, 1)
  <2>1. cmd' = cmd /\ at'[c] = at[c] + 1 /\ ~Unwind(c)
    BY <1>1, <1>8, InvParts, NotBoth DEF Goto, ControlOK
  <2>2. Preparing(c)' /\ StartHost(c)'
    BY <1>1, <1>3, <1>8, <2>1 DEF Progress, Preparing, StartHost, Kept, DataOK, Check, Permitted, Unnoticed, Stopped, Advance, Raise, Faulty, images, host, docker, started, net, audit
  <2>3. StartNet(c)' /\ StartAudit(c)'
    BY <1>1, <1>3, <1>8, <2>1 DEF Progress, StartNet, StartAudit, NoneLive, NoneFrom, Kept, DataOK, Check, Permitted, Unnoticed, Stopped, Advance, Raise, Faulty, images, host, docker, started, net, audit
  <2>4. Stopping(c)'
    BY <1>1, <1>3, <1>8, <2>1 DEF Progress, Stopping, NoneLive, Kept, DataOK, Check, Permitted, Unnoticed, Stopped, Advance, Raise, Faulty, images, host, docker, started, net, audit
  <2> QED BY <1>2, <1>5, <1>6, <1>8, <2>2, <2>3, <2>4, AfterAdvance
<1> QED BY <1>7, <1>8 DEF Check, Permitted, Unnoticed, Stopped, Advance, Raise, Faulty, images, host, docker, started, net, audit

\* The generation changes while no target runs.
LEMMA ActivateStep ==
  ASSUME IInv, NEW c \in Controllers, Activate(c)
  PROVE  IInv'
<1>1. cmd[c] = "init" /\ at[c] = 2
  BY Where, Places, InvParts DEF Activate
<1>2. cmd[c] # "none" /\ ~Done(c) /\ ~At(c, "record")
  BY <1>1, Where, Places, InvParts DEF Activate, At
<1>3. Known /\ Kept /\ Progress
  BY <1>2, AllKnown, InvParts
<1>4. faults' \in 0..MaxFaults /\ DataOK'
  <2>1. faults' \in 0..MaxFaults
    BY <1>3, LifecycleAssumption DEF Kept, Activate, Advance, Fault, Faulty, host, docker, started, net, audit
  <2>2. DataOK'
    BY <1>3, LifecycleAssumption DEF Kept, DataOK, Activate, Advance, Fault, Faulty, host, docker, started, net, audit
  <2> QED BY <2>1, <2>2
<1>5. StateInv' /\ Known'
  BY <1>1, <1>3 DEF StateInv, Persistent, NoManifest, RouteIsFenced, RunningIsCurrent, GuardedNetwork, Known, Kept, DataOK, Progress, Preparing, StartHost, StartNet, Activate, Advance, Fault, Faulty, host, docker, started, net, audit
<1>6. Kept'
  BY <1>4, <1>5 DEF Kept
<1>7. CASE Unwind(c)
  BY <1>2, <1>5, <1>6, <1>7, AfterUnwind
<1>8. CASE Goto(c, at[c] + 1, 1)
  <2>1. cmd' = cmd /\ at'[c] = at[c] + 1
    BY <1>8, InvParts DEF Goto, ControlOK
  <2>2. Preparing(c)' /\ StartHost(c)'
    BY <1>1, <1>3, <1>8, <2>1 DEF Progress, Preparing, StartHost, Kept, DataOK, Activate, Advance, Fault, Faulty, host, docker, started, net, audit
  <2>3. StartNet(c)' /\ StartAudit(c)'
    BY <1>1, <1>3, <1>8, <2>1 DEF Progress, StartNet, StartAudit, NoneLive, NoneFrom, Kept, DataOK, Activate, Advance, Fault, Faulty, host, docker, started, net, audit
  <2>4. Stopping(c)'
    BY <1>1, <1>3, <1>8, <2>1 DEF Progress, Stopping, NoneLive, Kept, DataOK, Activate, Advance, Fault, Faulty, host, docker, started, net, audit
  <2> QED BY <1>2, <1>5, <1>6, <1>8, <2>2, <2>3, <2>4, AfterAdvance
<1> QED BY <1>7, <1>8 DEF Activate, Advance, Fault, Faulty, host, docker, started, net, audit

\* So does the image,
LEMMA BuildStep ==
  ASSUME IInv, NEW c \in Controllers, Build(c)
  PROVE  IInv'
<1>1. cmd[c] = "build" /\ at[c] = 2
  BY Where, Places, InvParts DEF Build
<1>2. cmd[c] # "none" /\ ~Done(c) /\ ~At(c, "record")
  BY <1>1, Where, Places, InvParts DEF Build, At
<1>3. Known /\ Kept /\ Progress
  BY <1>2, AllKnown, InvParts
<1>4. faults' \in 0..MaxFaults /\ DataOK'
  <2>1. faults' \in 0..MaxFaults
    BY <1>3, LifecycleAssumption DEF Kept, Build, Proceed, Advance, Fault, Faulty, host, docker, started, net, audit
  <2>2. DataOK'
    BY <1>3 DEF Kept, DataOK, Build, Proceed, Advance, Fault, Faulty, host, docker, started, net, audit
  <2> QED BY <2>1, <2>2
<1>5. StateInv' /\ Known'
  BY <1>1, <1>3 DEF StateInv, Persistent, NoManifest, RouteIsFenced, RunningIsCurrent, GuardedNetwork, Known, Kept, DataOK, Progress, Preparing, StartHost, StartNet, Build, Proceed, Advance, Fault, Faulty, host, docker, started, net, audit
<1>6. Kept'
  BY <1>4, <1>5 DEF Kept
<1>7. CASE Unwind(c)
  BY <1>2, <1>5, <1>6, <1>7, AfterUnwind
<1>8. CASE Goto(c, at[c] + 1, 1)
  <2>1. cmd' = cmd /\ at'[c] = at[c] + 1
    BY <1>8, InvParts DEF Goto, ControlOK
  <2>2. Preparing(c)' /\ StartHost(c)'
    BY <1>1, <1>3, <1>8, <2>1 DEF Progress, Preparing, StartHost, Kept, DataOK, Build, Proceed, Advance, Fault, Faulty, host, docker, started, net, audit
  <2>3. StartNet(c)' /\ StartAudit(c)'
    BY <1>1, <1>3, <1>8, <2>1 DEF Progress, StartNet, StartAudit, NoneLive, NoneFrom, Kept, DataOK, Build, Proceed, Advance, Fault, Faulty, host, docker, started, net, audit
  <2>4. Stopping(c)'
    BY <1>1, <1>3, <1>8, <2>1 DEF Progress, Stopping, NoneLive, Kept, DataOK, Build, Proceed, Advance, Fault, Faulty, host, docker, started, net, audit
  <2> QED BY <1>2, <1>5, <1>6, <1>8, <2>2, <2>3, <2>4, AfterAdvance
<1> QED BY <1>7, <1>8 DEF Build, Proceed, Advance, Fault, Faulty, host, docker, started, net, audit

\* and the record of it, once.
LEMMA PinStep ==
  ASSUME IInv, NEW c \in Controllers, Pin(c)
  PROVE  IInv'
<1>1. cmd[c] = "build" /\ at[c] = 3
  BY Where, Places, InvParts DEF Pin
<1>2. cmd[c] # "none" /\ ~Done(c) /\ ~At(c, "record")
  BY <1>1, Where, Places, InvParts DEF Pin, At
<1>3. Known /\ Kept /\ Progress
  BY <1>2, AllKnown, InvParts
<1>4. faults' \in 0..MaxFaults /\ DataOK'
  <2>1. faults' \in 0..MaxFaults
    BY <1>3, LifecycleAssumption DEF Kept, Pin, Proceed, Advance, Raise, Fault, Faulty, host, docker, started, net, audit
  <2>2. DataOK'
    BY <1>3 DEF Kept, DataOK, Pin, Proceed, Advance, Raise, Fault, Faulty, host, docker, started, net, audit
  <2> QED BY <2>1, <2>2
<1>5. StateInv' /\ Known'
  BY <1>1, <1>3 DEF StateInv, Persistent, NoManifest, RouteIsFenced, RunningIsCurrent, GuardedNetwork, Known, Kept, DataOK, Progress, Preparing, StartHost, StartNet, Pin, Proceed, Advance, Raise, Fault, Faulty, host, docker, started, net, audit
<1>6. Kept'
  BY <1>4, <1>5 DEF Kept
<1>7. CASE Unwind(c)
  BY <1>2, <1>5, <1>6, <1>7, AfterUnwind
<1>8. CASE Goto(c, at[c] + 1, 1)
  <2>1. cmd' = cmd /\ at'[c] = at[c] + 1
    BY <1>8, InvParts DEF Goto, ControlOK
  <2>2. Preparing(c)' /\ StartHost(c)'
    BY <1>1, <1>3, <1>8, <2>1 DEF Progress, Preparing, StartHost, Kept, DataOK, Pin, Proceed, Advance, Raise, Fault, Faulty, host, docker, started, net, audit
  <2>3. StartNet(c)' /\ StartAudit(c)'
    BY <1>1, <1>3, <1>8, <2>1 DEF Progress, StartNet, StartAudit, NoneLive, NoneFrom, Kept, DataOK, Pin, Proceed, Advance, Raise, Fault, Faulty, host, docker, started, net, audit
  <2>4. Stopping(c)'
    BY <1>1, <1>3, <1>8, <2>1 DEF Progress, Stopping, NoneLive, Kept, DataOK, Pin, Proceed, Advance, Raise, Fault, Faulty, host, docker, started, net, audit
  <2> QED BY <1>2, <1>5, <1>6, <1>8, <2>2, <2>3, <2>4, AfterAdvance
<1> QED BY <1>7, <1>8 DEF Pin, Proceed, Advance, Raise, Fault, Faulty, host, docker, started, net, audit

-----------------------------------------------------------------------------
(* The loops over the audit processes *)

\* A new process is behind its recording, the one step where it is not on record.
LEMMA SpawnStep ==
  ASSUME IInv, NEW c \in Controllers, Spawn(c)
  PROVE  IInv'
<1>1. cmd[c] = "start" /\ at[c] = 18
  BY Where, Places, InvParts DEF Spawn
<1>2. Known /\ Kept /\ Progress /\ ControlOK
  <2>1. cmd[c] # "none" /\ ~At(c, "record")
    BY <1>1, Where, Places, InvParts
  <2> QED BY <2>1, AllKnown, InvParts
<1>3. /\ item[c] \in Audits /\ item[c] \in 1..Watchdog + 1 /\ 19 \in 1..Len(Plan[cmd[c]]) + 1
      /\ Goto(c, 19, item[c])
  BY <1>1, <1>2, Lengths DEF Progress, StartAudit, Spawn, ControlOK
<1>4. cmd' = cmd /\ at'[c] = 19 /\ item'[c] = item[c]
  BY <1>1, <1>2, <1>3 DEF Goto, ControlOK
<1>5. Kept'
  <2>1. DataOK'
    BY <1>2, <1>3 DEF Kept, DataOK, Spawn, Live, images, host, docker, started, net
  <2>2. StateInv' /\ faults' \in 0..MaxFaults
    BY <1>2 DEF Kept, StateInv, Persistent, NoManifest, RouteIsFenced, RunningIsCurrent,
                GuardedNetwork, Spawn, images, host, docker, started, net
  <2> QED BY <2>1, <2>2 DEF Kept
<1>6. Accounted'
  <2>1. At(c, "record")' /\ item'[c] = item[c]
    <3>1. TypeOK'
      BY <1>1, <1>2, <1>3, <1>5, GoesOn, InvParts, TypeParts DEF Kept
    <3> QED BY <1>1, <1>4, <3>1, WhereNext, Places
  <2>2. \A k \in Audits \ {item[c]} : proc'[k] = proc[k] /\ entry'[k] = entry[k]
    BY <1>2 DEF Spawn, Kept, DataOK
  <2>3. proc[item[c]] \in Live => item[c] \in lost
    <3>1. NoneFrom(item[c])
      BY <1>1, <1>2 DEF Progress, StartAudit
    <3> QED BY <1>3, <3>1, LifecycleAssumption DEF NoneFrom, Audits, Watchdog
  <2>4. stray' \subseteq lost' /\ lost' = lost
    BY <1>2, <2>3 DEF Known, Spawn
  <2> QED BY <1>2, <2>1, <2>2, <2>4 DEF Known, Accounted
<1>7. Preparing(c)' /\ StartHost(c)' /\ StartNet(c)' /\ Stopping(c)'
  BY <1>1, <1>2, <1>4 DEF Progress, Preparing, StartHost, StartNet, Stopping, Spawn, images, host,
                          docker, started, net
<1>8. StartAudit(c)'
  <2>1. NoneFrom(item[c] + 1)'
    <3>1. NoneFrom(item[c])
      BY <1>1, <1>2 DEF Progress, StartAudit
    <3> SUFFICES ASSUME NEW k \in Audits, k >= item[c] + 1, proc'[k] \in Live
                 PROVE  k \in lost'
      BY <1>4 DEF NoneFrom
    <3>2. k # item[c] /\ k >= item[c]
      BY <1>3, LifecycleAssumption DEF Audits, Watchdog
    <3>3. proc'[k] = proc[k] /\ lost' = lost
      BY <1>2, <3>2 DEF Spawn, Kept, DataOK
    <3> QED BY <3>1, <3>2, <3>3 DEF NoneFrom
  <2> QED BY <1>1, <1>2, <1>4, <2>1 DEF Progress, StartAudit, Spawn, Kept, DataOK
<1>9. Passed(c)'
  <2>1. ~At(c, "stopAudit")'
    <3>1. TypeOK'
      BY <1>1, <1>2, <1>3, <1>5, GoesOn, InvParts, TypeParts DEF Kept
    <3> QED BY <1>1, <1>4, <3>1, WhereNext, Places
  <2> QED BY <2>1 DEF Passed
<1> QED BY <1>1, <1>3, <1>5, <1>6, <1>7, <1>8, <1>9, AfterGoto

\* The one process that was not on record is now, or is gone, or is lost.
LEMMA RecordStep ==
  ASSUME IInv, NEW c \in Controllers, Record(c)
  PROVE  IInv'
<1>1. cmd[c] = "start" /\ at[c] = 19
  BY Where, Places, InvParts DEF Record
<1>2. Kept /\ Progress /\ ControlOK /\ item[c] \in Audits
  BY <1>1, InvParts DEF Progress, StartAudit
<1>3. /\ \A k \in Audits \ {item[c]} : proc[k] \in Live => entry[k] # "none" \/ k \in lost
      /\ stray \subseteq lost
  BY <1>1, InvParts DEF Accounted, Locked, At
<1>4. Known'
  BY <1>2, <1>3 DEF Record, Known, Kept, DataOK, Live
<1>5. Kept'
  <2>1. DataOK'
    <3>1. entry' \in [Audits -> Live \cup {"none"}]
      BY <1>2 DEF Record, Kept, DataOK
    <3>2. proc' \in [Audits -> Live \cup {"none", "zombie", "other"}] /\ lost' \subseteq Audits
      BY <1>2 DEF Record, Kept, DataOK
    <3> QED BY <1>2, <3>1, <3>2 DEF Kept, DataOK, Record, images, host, docker, started, net
  <2>2. NoManifest'
    BY <1>1, <1>2 DEF Progress, StartAudit, NoManifest, Record
  <2>3. StateInv'
    BY <1>2, <2>2 DEF Kept, StateInv, Persistent, RouteIsFenced, RunningIsCurrent,
                GuardedNetwork, Record, images, host, docker, started, net
  <2>4. faults' \in 0..MaxFaults
    BY <1>2, LifecycleAssumption DEF Kept, Record, Faulty, Fault, Raise
  <2> QED BY <2>1, <2>3, <2>4 DEF Kept
<1>6. CASE Unwind(c)
  BY <1>1, <1>4, <1>5, <1>6, AfterUnwind
<1>7. CASE Goto(c, at[c] + 1, item[c])
  <2>1. Goto(c, 20, item[c]) /\ item[c] \in 1..Watchdog + 1 /\ 20 \in 1..Len(Plan[cmd[c]]) + 1
    BY <1>1, <1>2, <1>7, Lengths DEF ControlOK
  <2>2. cmd' = cmd /\ at'[c] = 20 /\ item'[c] = item[c]
    BY <1>1, <1>2, <2>1 DEF Goto, ControlOK
  <2>3. Accounted'
    BY <1>4 DEF Known, Accounted
  <2>4. Preparing(c)' /\ StartHost(c)' /\ StartNet(c)' /\ Stopping(c)'
    BY <1>1, <1>2, <2>2 DEF Progress, Preparing, StartHost, StartNet, Stopping, Record, images,
                            host, docker, started, net
  <2>5. StartAudit(c)'
    <3>1. \A k \in 1..item[c] - 1 : entry'[k] = entry[k]
      BY <1>2, LifecycleAssumption DEF Record, Kept, DataOK, Audits, Watchdog
    <3>2. NoneFrom(item[c] + 1)'
      BY <1>1, <1>2, <2>2 DEF Progress, StartAudit, NoneFrom, Record
    <3> QED BY <1>1, <1>2, <2>2, <3>1, <3>2 DEF Progress, StartAudit, Record
  <2>6. Passed(c)'
    <3>1. TypeOK'
      BY <1>1, <1>2, <1>5, <2>1, GoesOn, InvParts, TypeParts DEF Kept
    <3>2. ~At(c, "stopAudit")'
      BY <1>1, <2>2, <3>1, WhereNext, Places
    <3> QED BY <3>2 DEF Passed
  <2> QED BY <1>1, <1>5, <2>1, <2>3, <2>4, <2>5, <2>6, AfterGoto
<1> QED BY <1>6, <1>7 DEF Record, Raise, Fault

\* The identity on record is the one after the exec.
LEMMA ReadyStep ==
  ASSUME IInv, NEW c \in Controllers, Ready(c)
  PROVE  IInv'
<1>1. cmd[c] = "start" /\ at[c] = 20
  BY Where, Places, InvParts DEF Ready
<1>2. Known /\ Kept /\ Progress /\ ControlOK /\ item[c] \in Audits
  <2>1. cmd[c] # "none" /\ ~At(c, "record")
    BY <1>1, Where, Places, InvParts
  <2> QED BY <1>1, <2>1, AllKnown, InvParts DEF Progress, StartAudit
<1>3. entry' = [entry EXCEPT ![item[c]] = "up"]
  BY <1>2 DEF Ready, IsReady, Identify, Live
<1>4. Kept' /\ Known'
  <2>1. DataOK' /\ Known'
    BY <1>2, <1>3 DEF Kept, Known, DataOK, Live, Ready, images, host, docker, started, net
  <2>2. NoManifest'
    BY <1>1, <1>2 DEF Progress, StartAudit, NoManifest, Ready
  <2>3. StateInv' /\ faults' \in 0..MaxFaults
    BY <1>2, <2>2 DEF Kept, StateInv, Persistent, RouteIsFenced, RunningIsCurrent,
                GuardedNetwork, Ready, Advance, images, host, docker, started, net
  <2> QED BY <2>1, <2>3 DEF Kept
<1>5. CASE item[c] < Watchdog /\ Goto(c, at[c] - 2, item[c] + 1)
  <2>1. /\ Goto(c, 18, item[c] + 1) /\ item[c] + 1 \in Audits /\ item[c] + 1 \in 1..Watchdog + 1
        /\ 18 \in 1..Len(Plan[cmd[c]]) + 1
    BY <1>1, <1>2, <1>5, Lengths, LifecycleAssumption DEF Audits, Watchdog
  <2>2. cmd' = cmd /\ at'[c] = 18 /\ item'[c] = item[c] + 1
    BY <1>1, <1>2, <2>1 DEF Goto, ControlOK
  <2>3. Accounted'
    BY <1>4 DEF Known, Accounted
  <2>4. Preparing(c)' /\ StartHost(c)' /\ StartNet(c)' /\ Stopping(c)'
    BY <1>1, <1>2, <2>2 DEF Progress, Preparing, StartHost, StartNet, Stopping, Ready, images,
                            host, docker, started, net
  <2>5. StartAudit(c)'
    <3>1. \A k \in 1..item[c] : entry'[k] = "up"
      BY <1>1, <1>2, <1>3 DEF Progress, StartAudit, Kept, DataOK, Audits
    <3>2. NoneFrom(item[c])'
      <4>1. NoneFrom(item[c] + 1)
        BY <1>1, <1>2 DEF Progress, StartAudit
      <4> QED BY <2>2, <4>1 DEF NoneFrom, Ready
    <3> QED BY <1>1, <1>2, <2>1, <2>2, <3>1, <3>2 DEF Progress, StartAudit, Ready, Audits
  <2>6. Passed(c)'
    <3>1. TypeOK'
      BY <1>1, <1>2, <1>4, <2>1, GoesOn, InvParts, TypeParts DEF Kept
    <3>2. ~At(c, "stopAudit")'
      BY <1>1, <2>2, <3>1, WhereNext, Places
    <3> QED BY <3>2 DEF Passed
  <2> QED BY <1>1, <1>4, <2>1, <2>3, <2>4, <2>5, <2>6, AfterGoto
<1>6. CASE item[c] = Watchdog /\ Goto(c, at[c] + 1, 1)
  <2>1. cmd' = cmd /\ at'[c] = 21 /\ ~Done(c)
    BY <1>1, <1>2, <1>6, Lengths DEF Goto, ControlOK, Done
  <2>2. Preparing(c)' /\ StartHost(c)' /\ StartNet(c)' /\ Stopping(c)'
    BY <1>1, <1>2, <2>1 DEF Progress, Preparing, StartHost, StartNet, Stopping, Ready, images,
                            host, docker, started, net
  <2>3. StartAudit(c)'
    <3>1. \A k \in Audits : entry'[k] = "up"
      BY <1>1, <1>2, <1>3, <1>6, LifecycleAssumption
      DEF Progress, StartAudit, Kept, DataOK, Audits, Watchdog
    <3> QED BY <1>1, <1>2, <2>1, <3>1 DEF Progress, StartAudit, Ready
  <2> QED BY <1>1, <1>4, <1>6, <2>1, <2>2, <2>3, AfterAdvance
<1> QED BY <1>5, <1>6 DEF Ready, Advance

\* A start that gives up waiting.
LEMMA NotReadyStep ==
  ASSUME IInv, NEW c \in Controllers, NotReady(c)
  PROVE  IInv'
<1>1. cmd[c] = "start" /\ at[c] = 20
  BY Where, Places, InvParts DEF NotReady
<1>2. Known /\ Kept /\ Progress /\ ControlOK /\ item[c] \in Audits
  <2>1. cmd[c] # "none" /\ ~At(c, "record")
    BY <1>1, Where, Places, InvParts
  <2> QED BY <1>1, <2>1, AllKnown, InvParts DEF Progress, StartAudit
<1>3. Kept' /\ Known'
  <2>1. DataOK' /\ Known'
    BY <1>2 DEF Kept, Known, DataOK, Live, NotReady, Identify, images, host, docker, started, net
  <2>2. NoManifest'
    BY <1>1, <1>2 DEF Progress, StartAudit, NoManifest, NotReady
  <2>3. StateInv'
    BY <1>2, <2>2 DEF Kept, StateInv, Persistent, RouteIsFenced, RunningIsCurrent,
                GuardedNetwork, NotReady, images, host, docker, started, net
  <2>4. faults' \in 0..MaxFaults
    BY <1>2, LifecycleAssumption DEF Kept, NotReady, Faulty, Fault, Raise
  <2> QED BY <2>1, <2>3, <2>4 DEF Kept
<1>4. Unwind(c)
  BY DEF NotReady, Fault, Raise
<1> QED BY <1>1, <1>3, <1>4, AfterUnwind

\* The processes are passed one by one, none of them live, before the manifest goes.
LEMMA StopAuditStep ==
  ASSUME IInv, NEW c \in Controllers, StopAudit(c)
  PROVE  IInv'
<1>1. \/ cmd[c] = "start" /\ at[c] = 6
      \/ cmd[c] \in {"cleanup", "stop"} /\ at[c] = 2
  BY Where, Places, InvParts DEF StopAudit
<1>2. Known /\ Kept /\ Progress /\ ControlOK /\ cmd[c] # "none" /\ ~Done(c)
  <2>1. cmd[c] # "none" /\ ~At(c, "record") /\ ~Done(c)
    BY <1>1, Where, Places, InvParts DEF StopAudit, At
  <2> QED BY <2>1, AllKnown, InvParts
<1>3. \A k \in 1..item[c] - 1 : proc[k] \in Live => k \in lost
  BY <1>2 DEF Progress, Passed, StopAudit
<1>4. item[c] \in Nat /\ item[c] >= 1 /\ Watchdog \in Nat
  BY <1>2, LifecycleAssumption DEF ControlOK, Watchdog
<1>5. ASSUME manifest, item[c] \in Audits, entry[item[c]] = "none" \/ proc[item[c]] \in {"none", entry[item[c]]},
             IF entry[item[c]] # "none" /\ proc[item[c]] = entry[item[c]]
             THEN Ends(item[c]) ELSE UNCHANGED proc,
             Goto(c, at[c], item[c] + 1), UNCHANGED <<faults, manifest, entry>>
      PROVE  IInv'
  <2>1. \A k \in Audits : proc'[k] \in Live => proc[k] \in Live /\ (k = item[c] => k \in lost)
    BY <1>2, <1>5 DEF Known, Ends, Kept, DataOK, Live
  <2>2. DataOK'
    BY <1>2, <1>5 DEF Kept, DataOK, StopAudit, Ends, images, host, docker, started, net
  <2>3. StateInv' /\ faults' \in 0..MaxFaults
    BY <1>2, <1>5 DEF Kept, StateInv, Persistent, NoManifest, RouteIsFenced, RunningIsCurrent,
                GuardedNetwork, StopAudit, images, host, docker, started, net
  <2>4. Kept'
    BY <2>2, <2>3 DEF Kept
  <2>5. Accounted'
    BY <1>2, <1>5, <2>1 DEF Known, Accounted, StopAudit
  <2>6. at[c] \in 1..Len(Plan[cmd[c]]) + 1 /\ item[c] + 1 \in 1..Watchdog + 1
    BY <1>2, <1>4, <1>5 DEF ControlOK, Audits
  <2>7. cmd' = cmd /\ at'[c] = at[c] /\ item'[c] = item[c] + 1
    BY <1>2, <1>5 DEF Goto, ControlOK
  <2>8. Preparing(c)' /\ StartHost(c)' /\ StartNet(c)' /\ Stopping(c)' /\ StartAudit(c)'
    BY <1>1, <1>2, <2>7 DEF Progress, Preparing, StartHost, StartNet, Stopping, StartAudit,
                            StopAudit, images, host, docker, started, net
  <2>9. Passed(c)'
    <3>1. \A k \in 1..item[c] : proc'[k] \in Live => k \in lost'
      BY <1>3, <1>4, <1>5, <2>1 DEF Audits, StopAudit
    <3> QED BY <1>4, <2>7, <3>1 DEF Passed
  <2> QED BY <1>2, <1>5, <2>4, <2>5, <2>6, <2>8, <2>9, AfterGoto
<1>6. ASSUME Raise(c), UNCHANGED <<manifest, entry, proc>>
      PROVE  IInv'
  <2>1. Kept'
    BY <1>2, <1>6 DEF Kept, DataOK, StateInv, Persistent, NoManifest, RouteIsFenced,
       RunningIsCurrent, GuardedNetwork, StopAudit, Raise, images, host, docker, started, net
  <2>2. Known' /\ Unwind(c)
    BY <1>2, <1>6 DEF Known, Raise, StopAudit
  <2> QED BY <1>2, <2>1, <2>2, AfterUnwind
<1>7. ASSUME ~manifest \/ item[c] \notin Audits, manifest' = FALSE,
             entry' = [j \in Audits |-> "none"], Advance(c), UNCHANGED proc
      PROVE  IInv'
  <2>1. NoneLive
    <3>1. CASE ~manifest
      BY <1>2, <3>1 DEF Kept, StateInv, NoManifest, Known, NoneLive
    <3>2. CASE item[c] \notin Audits
      BY <1>3, <1>4, <3>2 DEF NoneLive, Audits
    <3> QED BY <1>7, <3>1, <3>2
  <2>2. DataOK'
    <3>1. entry' \in [Audits -> Live \cup {"none"}] /\ manifest' \in BOOLEAN
      BY <1>7
    <3>2. UNCHANGED <<images, host, docker, child, stray, lost, flow, proc>>
      BY <1>7 DEF StopAudit
    <3> QED BY <1>2, <3>1, <3>2 DEF Kept, DataOK, images, host, docker, started, net
  <2>3. StateInv' /\ faults' \in 0..MaxFaults
    BY <1>2, <1>7 DEF Kept, StateInv, Persistent, NoManifest, RouteIsFenced, RunningIsCurrent,
                GuardedNetwork, StopAudit, Advance, images, host, docker, started, net
  <2>4. Kept'
    BY <2>2, <2>3 DEF Kept
  <2>5. NoneLive' /\ Known'
    BY <1>2, <1>7, <2>1 DEF NoneLive, Known, StopAudit
  <2>6. cmd' = cmd /\ at'[c] = at[c] + 1 /\ Goto(c, at[c] + 1, 1)
    BY <1>2, <1>7 DEF Advance, Goto, ControlOK
  <2>7. Preparing(c)' /\ StartHost(c)' /\ StartNet(c)'
    BY <1>1, <1>2, <2>6 DEF Progress, Preparing, StartHost, StartNet, StopAudit, images, host,
                            docker, started, net
  <2>8. Stopping(c)' /\ StartAudit(c)'
    BY <1>1, <1>7, <2>5, <2>6 DEF Stopping, StartAudit
  <2> QED BY <1>2, <2>4, <2>5, <2>6, <2>7, <2>8, AfterAdvance
<1> QED BY <1>5, <1>6, <1>7 DEF StopAudit

-----------------------------------------------------------------------------
(* Failures, the ends of commands and the host *)

\* A step that fails before its effect.
LEMMA FailsStep ==
  ASSUME IInv, NEW c \in Controllers, Fails(c)
  PROVE  IInv'
<1>1. Known /\ Kept
  BY AllKnown, InvParts DEF Fails
<1>2. Kept'
  <2>1. DataOK' /\ StateInv'
    BY <1>1 DEF Kept, DataOK, StateInv, Persistent, NoManifest, RouteIsFenced, RunningIsCurrent,
                GuardedNetwork, Fails, images, host, docker, started, net, audit
  <2>2. faults' \in 0..MaxFaults
    BY <1>1, LifecycleAssumption DEF Kept, Fails, Fault, Faulty
  <2> QED BY <2>1, <2>2 DEF Kept
<1>3. Known' /\ Unwind(c)
  BY <1>1 DEF Known, Fails, Fault, audit
<1> QED BY <1>2, <1>3, AfterUnwind DEF Fails

\* After a step that leaves every controller at a first step.
LEMMA AtBeginning ==
  ASSUME ControlOK', Locked', Kept', Known', \A d \in Controllers : at'[d] = 1
  PROVE  IInv'
<1>1. TypeOK'
  BY TypeParts DEF Kept
<1>2. Progress'
  BY <1>1, NoProgress
<1>3. Accounted'
  BY DEF Known, Accounted
<1> QED BY <1>2, <1>3, InvParts

\* A controller that ends leaves none at work.
LEMMA Leaves ==
  ASSUME IInv, NEW c \in Controllers, cmd[c] # "none", Leave(c)
  PROVE  ControlOK' /\ Locked' /\ \A d \in Controllers : at'[d] = 1
<1>1. ControlOK /\ Locked
  BY InvParts
<1>2. \A d \in Controllers : cmd'[d] = "none" /\ at'[d] = 1 /\ item'[d] = 1
  BY <1>1 DEF Leave, Locked, ControlOK
<1>3. ControlOK'
  <2>1. cmd' \in [Controllers -> DOMAIN Plan]
    BY <1>1, OtherPlans DEF Leave, ControlOK
  <2>2. /\ at' \in [Controllers -> Nat] /\ item' \in [Controllers -> 1..Watchdog + 1]
        /\ lock' \in Controllers \cup {None}
    BY <1>1, LifecycleAssumption DEF Leave, ControlOK, Watchdog
  <2> QED BY <1>2, <2>1, <2>2, Lengths DEF ControlOK
<1> QED BY <1>2, <1>3 DEF Locked

\* The zombies go with the controller that returns.
LEMMA ReturnStep ==
  ASSUME IInv, NEW c \in Controllers, Return(c)
  PROVE  IInv'
<1>1. cmd[c] # "none" /\ ~At(c, "record") /\ Leave(c)
  BY DEF Return, Done, At
<1>2. Known /\ Kept
  BY <1>1, AllKnown, InvParts
<1>3. \A k \in Audits : proc'[k] \in Live => proc[k] \in Live
  BY DEF Return, Orphaned, Live
<1>4. Kept'
  <2>1. DataOK'
    BY <1>2 DEF Kept, DataOK, Return, Leave, Orphaned, images, host, docker, started, net
  <2>2. StateInv' /\ faults' \in 0..MaxFaults
    BY <1>2 DEF Kept, StateInv, Persistent, NoManifest, RouteIsFenced, RunningIsCurrent,
                GuardedNetwork, Return, Leave, images, host, docker, started, net
  <2> QED BY <2>1, <2>2 DEF Kept
<1>5. Known'
  BY <1>2, <1>3 DEF Known, Return
<1> QED BY <1>1, <1>4, <1>5, Leaves, AtBeginning

\* A process that was not on record is lost from now on.
LEMMA CrashStep ==
  ASSUME IInv, NEW c \in Controllers, Crash(c)
  PROVE  IInv'
<1>1. cmd[c] # "none" /\ Leave(c) /\ Kept /\ Accounted /\ Locked
  BY InvParts DEF Crash
<1>2. \A k \in Audits : proc'[k] \in Live => proc[k] \in Live
  BY DEF Crash, Orphaned, Live
<1>3. Known'
  <2> SUFFICES ASSUME NEW k \in Audits, proc'[k] \in Live, entry'[k] = "none", k \notin lost'
               PROVE  FALSE
    BY <1>1 DEF Known, Accounted, Crash
  <2>1. proc[k] \in Live /\ entry[k] = "none" /\ k \notin lost /\ k \notin Unrecorded(c)
    BY <1>2 DEF Crash
  <2>2. PICK d \in Controllers : At(d, "record") /\ item[d] = k
    BY <1>1, <2>1 DEF Accounted
  <2>3. d = c
    BY <1>1, <2>2 DEF Locked, At
  <2> QED BY <2>1, <2>2, <2>3 DEF Unrecorded
<1>4. Kept'
  <2>1. DataOK'
    BY <1>1 DEF Kept, DataOK, Crash, Leave, Orphaned, Unrecorded, images, host, docker, started, net
  <2>2. StateInv' /\ faults' \in 0..MaxFaults
    BY <1>1 DEF Kept, StateInv, Persistent, NoManifest, RouteIsFenced, RunningIsCurrent,
                GuardedNetwork, Crash, Leave, images, host, docker, started, net
  <2> QED BY <2>1, <2>2 DEF Kept
<1> QED BY <1>1, <1>3, <1>4, Leaves, AtBeginning

\* The guards come back with the units.
LEMMA RebootStep ==
  ASSUME IInv, Reboot
  PROVE  IInv'
<1>1. Kept
  BY InvParts
<1>2. ControlOK' /\ Locked' /\ \A d \in Controllers : at'[d] = 1
  <2>1. \A d \in Controllers : cmd'[d] = "none" /\ at'[d] = 1 /\ item'[d] = 1
    BY DEF Reboot
  <2>2. /\ cmd' \in [Controllers -> DOMAIN Plan] /\ at' \in [Controllers -> Nat]
        /\ item' \in [Controllers -> 1..Watchdog + 1] /\ lock' \in Controllers \cup {None}
    BY OtherPlans, LifecycleAssumption DEF Reboot, Watchdog
  <2> QED BY <2>1, <2>2, Lengths DEF ControlOK, Locked
<1>3. DataOK' /\ Known'
  BY <1>1 DEF Kept, DataOK, Known, Live, Reboot, TargetGone, images, started
<1>4. StateInv' /\ faults' \in 0..MaxFaults
  BY <1>1, LifecycleAssumption
  DEF Kept, DataOK, StateInv, Persistent, NoManifest, RouteIsFenced, RunningIsCurrent,
      GuardedNetwork, Reboot, TargetGone, images, started
<1> QED BY <1>2, <1>3, <1>4, AtBeginning DEF Kept

\* A command begins when none is at work.
LEMMA BeginStep ==
  ASSUME IInv, NEW c \in Controllers, NEW command \in {"init", "build", "start", "stop"},
         Begin(c, command)
  PROVE  IInv'
<1>1. ControlOK /\ Locked /\ Kept
  BY InvParts
<1>2. \A d \in Controllers : cmd[d] = "none" /\ at[d] = 1 /\ item[d] = 1
  BY <1>1, LifecycleAssumption DEF Begin, Locked
<1>3. Known
  BY <1>2, NobodyKnown
<1>4. ControlOK' /\ Locked' /\ \A d \in Controllers : at'[d] = 1
  <2>1. cmd' \in [Controllers -> DOMAIN Plan]
    BY <1>1, OtherPlans DEF Begin, ControlOK
  <2>2. at' = at /\ item' = item /\ lock' = c
    BY DEF Begin
  <2>3. \A d \in Controllers : at'[d] \in 1..Len(Plan[cmd'[d]]) + 1
    BY <1>2, <2>1, <2>2, Lengths, OtherPlans
  <2>4. Locked'
    BY <1>1, <1>2, <2>2 DEF Begin, Locked, ControlOK
  <2> QED BY <1>1, <1>2, <2>1, <2>2, <2>3, <2>4 DEF ControlOK
<1>5. Kept' /\ Known'
  BY <1>1, <1>3, LifecycleAssumption
  DEF Kept, DataOK, StateInv, Persistent, NoManifest, RouteIsFenced, RunningIsCurrent,
      GuardedNetwork, Known, Begin, images, host, docker, started, net, audit
<1> QED BY <1>4, <1>5, AtBeginning

\* Processes that end, go on to their exec or give up their pid, known or stray.
LEMMA Fewer ==
  ASSUME IInv, faults' \in 0..MaxFaults,
         UNCHANGED <<lock, cmd, at, item, images, host, docker, manifest, entry, child, lost, flow>>,
         stray' \subseteq stray,
         proc' \in [Audits -> Live \cup {"none", "zombie", "other"}],
         \A k \in Audits : proc'[k] \in Live => proc[k] \in Live
  PROVE  IInv'
<1> USE DEF images, host, docker, started, net
<1>1. ControlOK' /\ Locked'
  BY InvParts DEF ControlOK, Locked
<1>2. Kept'
  BY InvParts DEF Kept, DataOK, StateInv, Persistent, NoManifest, RouteIsFenced, RunningIsCurrent,
                  GuardedNetwork
<1>3. \A c \in Controllers : \A name : At(c, name)' <=> At(c, name)
  BY DEF At, Done
<1>4. Accounted'
  BY <1>3, InvParts DEF Accounted
<1>5. Progress'
  <2> SUFFICES ASSUME NEW c \in Controllers
               PROVE  (/\ Preparing(c) /\ StartHost(c) /\ StartNet(c)
                       /\ StartAudit(c) /\ Stopping(c) /\ Passed(c))'
    BY DEF Progress
  <2>1. Preparing(c)' /\ StartHost(c)' /\ StartNet(c)'
    BY InvParts DEF Progress, Preparing, StartHost, StartNet
  <2>2. StartAudit(c)' /\ Stopping(c)'
    BY InvParts DEF Progress, StartAudit, Stopping, NoneLive, NoneFrom
  <2>3. Passed(c)'
    <3>1. \A k \in 1..item[c] - 1 : k \in Audits
      BY InvParts, LifecycleAssumption DEF ControlOK, Audits, Watchdog
    <3> QED BY <1>3, <3>1, InvParts DEF Progress, Passed
  <2> QED BY <2>1, <2>2, <2>3
<1> QED BY <1>1, <1>2, <1>4, <1>5, InvParts

\* What the audit processes do by themselves.
LEMMA ProcessStep ==
  ASSUME IInv,
         WatchdogExits \/ \E k \in Audits : \/ Exec(k) \/ Dies(k) \/ PidFreed(k) \/ PidReused(k)
                                           \/ StrayEnds(k)
  PROVE  IInv'
<1>1. Kept
  BY InvParts
<1>2. CASE WatchdogExits
  <2>1. Watchdog \in Audits
    BY LifecycleAssumption DEF Audits, Watchdog
  <2>2. /\ proc' \in [Audits -> Live \cup {"none", "zombie", "other"}]
        /\ \A k \in Audits : proc'[k] \in Live => proc[k] \in Live
    BY <1>1, <1>2, <2>1 DEF WatchdogExits, Ends, Kept, DataOK, Live
  <2> QED BY <1>1, <1>2, <2>2, Fewer DEF WatchdogExits, control, Kept
<1>3. ASSUME NEW j \in Audits,
             Exec(j) \/ Dies(j) \/ PidFreed(j) \/ PidReused(j) \/ StrayEnds(j)
      PROVE  IInv'
  <2>1. /\ proc' \in [Audits -> Live \cup {"none", "zombie", "other"}]
        /\ \A k \in Audits : proc'[k] \in Live => proc[k] \in Live
    BY <1>1, <1>3 DEF Exec, Dies, PidFreed, PidReused, StrayEnds, Ends, Kept, DataOK, Live
  <2>2. faults' \in 0..MaxFaults
    BY <1>1, <1>3, LifecycleAssumption DEF Exec, Dies, PidFreed, PidReused, StrayEnds, Faulty, Kept, control
  <2>3. /\ UNCHANGED <<lock, cmd, at, item, images, host, docker, manifest, entry, child, lost, flow>>
        /\ stray' \subseteq stray
    BY <1>3 DEF Exec, Dies, PidFreed, PidReused, StrayEnds, control
  <2> QED BY <2>1, <2>2, <2>3, Fewer
<1> QED BY <1>2, <1>3

\* A container that exits takes its table and its route with it.
LEMMA ContainerStep ==
  ASSUME IInv, ContainerExits
  PROVE  IInv'
<1> USE DEF images, host, started, audit
<1>0. Kept /\ Progress /\ ControlOK /\ Locked /\ Accounted
  BY InvParts
<1>1. ControlOK' /\ Locked'
  BY <1>0 DEF ContainerExits, ControlOK, Locked
<1>2. /\ target' = "up" => target = "up" /\ UNCHANGED <<fenced, route>>
      /\ infra' = "running" => infra = "running" /\ UNCHANGED infraFenced
      /\ target' = "down" \/ target' = target
      /\ infra' = "absent" <=> infra = "absent"
      /\ target' = "down" => ~route' \/ UNCHANGED <<target, fenced, route>>
  BY <1>0 DEF ContainerExits, TargetGone, Kept, DataOK
<1>3. DataOK'
  <2>1. /\ target' \in {"down", "up"} /\ infra' \in {"absent", "created", "running"}
        /\ fenced' \in BOOLEAN /\ route' \in BOOLEAN /\ infraFenced' \in BOOLEAN
    BY <1>0 DEF ContainerExits, TargetGone, Kept, DataOK
  <2>2. UNCHANGED <<images, host, started, audit>>
    BY DEF ContainerExits
  <2> QED BY <1>0, <2>1, <2>2 DEF Kept, DataOK
<1>4. StateInv' /\ faults' \in 0..MaxFaults
  BY <1>0, LifecycleAssumption
  DEF ContainerExits, TargetGone, Faulty, Kept, DataOK, StateInv, Persistent, NoManifest,
      RouteIsFenced, RunningIsCurrent, GuardedNetwork
<1>5. \A c \in Controllers : \A name : At(c, name)' <=> At(c, name)
  BY DEF At, Done, ContainerExits
<1>6. Accounted'
  BY <1>0, <1>5 DEF Accounted, ContainerExits
<1>7. Progress'
  <2> SUFFICES ASSUME NEW c \in Controllers
               PROVE  (/\ Preparing(c) /\ StartHost(c) /\ StartNet(c)
                       /\ StartAudit(c) /\ Stopping(c) /\ Passed(c))'
    BY DEF Progress
  <2>1. Preparing(c)' /\ StartHost(c)'
    BY <1>0, <1>2 DEF ContainerExits, Progress, Preparing, StartHost
  <2>2. StartNet(c)'
    BY <1>0, <1>2 DEF ContainerExits, Progress, StartNet
  <2>3. StartAudit(c)'
    BY <1>0 DEF ContainerExits, Progress, StartAudit, NoneLive, NoneFrom
  <2>4. Stopping(c)'
    BY <1>0, <1>2 DEF ContainerExits, Progress, Stopping, NoneLive
  <2>5. Passed(c)'
    BY <1>0, <1>5 DEF ContainerExits, Progress, Passed
  <2> QED BY <2>1, <2>2, <2>3, <2>4, <2>5
<1> QED BY <1>1, <1>3, <1>4, <1>6, <1>7, InvParts DEF Kept

-----------------------------------------------------------------------------
(* The invariant *)

\* Nothing runs, nothing is up, nothing is guarded.
LEMMA InitInv == Init => IInv
<1> SUFFICES ASSUME Init
             PROVE  IInv
  OBVIOUS
<1>1. \A c \in Controllers : cmd[c] = "none" /\ at[c] = 1 /\ item[c] = 1
  BY DEF Init
<1>2. ControlOK
  <2>1. /\ cmd \in [Controllers -> DOMAIN Plan] /\ at \in [Controllers -> Nat]
        /\ item \in [Controllers -> 1..Watchdog + 1] /\ lock \in Controllers \cup {None}
    BY OtherPlans, LifecycleAssumption DEF Init, Watchdog
  <2> QED BY <1>1, <2>1, Lengths DEF ControlOK
<1>3. DataOK /\ faults \in 0..MaxFaults
  <2>1. /\ entry \in [Audits -> Live \cup {"none"}]
        /\ proc \in [Audits -> Live \cup {"none", "zombie", "other"}]
        /\ guard \in [{"parent", "ssh"} -> {"absent", "stopped", "open"}]
    BY DEF Init
  <2>2. faults \in 0..MaxFaults /\ current \in 0..MaxGenerations /\ runGen \in 0..MaxGenerations
    BY LifecycleAssumption DEF Init
  <2> QED BY <2>1, <2>2 DEF Init, DataOK
<1>4. TypeOK
  BY <1>2, <1>3, TypeParts
<1>5. Locked /\ Persistent /\ NoManifest
  BY <1>1 DEF Init, Locked, Persistent, NoManifest
<1>6. Progress
  BY <1>1 DEF Progress, Preparing, StartHost, StartNet, StartAudit, Stopping, Passed, At
<1>7. RouteIsFenced /\ RunningIsCurrent /\ Accounted /\ GuardedNetwork
  BY DEF Init, RouteIsFenced, RunningIsCurrent, Accounted, GuardedNetwork, Live
<1> QED BY <1>4, <1>5, <1>6, <1>7 DEF IInv

\* The invariant is inductive: one case for each group of actions.
LEMMA NextInv == IInv /\ [Next]_vars => IInv'
<1> SUFFICES ASSUME IInv, [Next]_vars
             PROVE  IInv'
  OBVIOUS
<1>1. CASE UNCHANGED vars
  <2>1. /\ UNCHANGED <<lock, cmd, at, item, images, host, docker, manifest, entry, child, stray, lost, flow>>
        /\ UNCHANGED <<proc, faults>>
    BY <1>1 DEF vars, control, audit
  <2>2. Kept
    BY InvParts
  <2> QED BY <2>1, <2>2, Fewer DEF Kept, DataOK
<1>2. CASE Environment
  BY <1>2, ProcessStep, ContainerStep, RebootStep DEF Environment
<1>3. ASSUME NEW c \in Controllers, Guarding(c)
      PROVE  IInv'
  BY <1>3, InstallStep, CloseGuardStep, OpenGuardStep, HostsAllowStep DEF Guarding
<1>4. ASSUME NEW c \in Controllers, Containing(c)
      PROVE  IInv'
  BY <1>4, CreateStep, UpInfraStep, WaitHealthyStep, FenceInfraStep, UpTargetStep, FenceTargetStep,
     EnableRouteStep, DisableRouteStep, DownStep DEF Containing
<1>5. ASSUME NEW c \in Controllers, Auditing(c)
      PROVE  IInv'
  BY <1>5, OpenAuditStep, SpawnStep, RecordStep, ReadyStep, NotReadyStep, StopAuditStep, ArchiveStep
  DEF Auditing
<1>6. ASSUME NEW c \in Controllers, Running(c)
      PROVE  IInv'
  BY <1>3, <1>4, <1>5, <1>6, CheckStep, ActivateStep, BuildStep, PinStep, FailsStep, ReturnStep
  DEF Running
<1>7. ASSUME NEW c \in Controllers,
             Crash(c) \/ \E command \in {"init", "build", "start", "stop"} : Begin(c, command)
      PROVE  IInv'
  BY <1>7, CrashStep, BeginStep
<1> QED BY <1>1, <1>2, <1>6, <1>7 DEF Next

\* The strengthening holds in every reachable state: one command at a time, and
\* everything the running command's place in its plan says it has behind it.
THEOREM Invariance == Spec => []IInv
BY InitInv, NextInv, PTL DEF Spec

-----------------------------------------------------------------------------
(* The theorems *)

\* Every variable of the lifecycle keeps its type: a command is inside its plan
\* or one place behind it, an audit loop is at a process or behind the last.
THEOREM TypeCorrect == Spec => []TypeOK
<1>1. IInv => TypeOK
  BY DEF IInv
<1> QED BY <1>1, Invariance, PTL

\* The target has a default route only behind its nft table, whatever fails, is
\* killed or restarts between the two steps of start.
THEOREM RoutesFenced == Spec => []RouteIsFenced
<1>1. IInv => RouteIsFenced
  BY DEF IInv
<1> QED BY <1>1, Invariance, PTL

\* A running target is the one that the generation pointer and the image record
\* name: neither init nor build nor an interrupted start can part them.
THEOREM RunsCurrent == Spec => []RunningIsCurrent
<1>1. IInv => RunningIsCurrent
  BY DEF IInv
<1> QED BY <1>1, Invariance, PTL

\* No audit process lives outside the manifest, except one that the controller
\* which has just started it is about to write there, and one that a kill or two
\* failing writes struck exactly between its start and its record.
THEOREM AuditsAccounted == Spec => []Accounted
<1>1. IInv => Accounted
  BY DEF IInv
<1> QED BY <1>1, Invariance, PTL

\* The host guards are there whenever the containers' networks are, through
\* reboots and interrupted starts.
THEOREM NetworkGuarded == Spec => []GuardedNetwork
<1>1. IInv => GuardedNetwork
  BY DEF IInv
<1> QED BY <1>1, Invariance, PTL

\* A stop that returns has stopped everything: containers, route, guards, host
\* access and every audit process that was not lost before its record.
THEOREM StopComplete == Spec => []StopClosesAll
<1>1. IInv => StopClosesAll
  <2> SUFFICES ASSUME IInv, NEW c \in Controllers, cmd[c] = "stop", Done(c)
               PROVE  /\ infra = "absent" /\ target = "down" /\ ~route
                      /\ guard["parent"] = "stopped" /\ guard["ssh"] = "stopped" /\ ~hostsAllow
                      /\ ~manifest /\ ~flow /\ NoneLive
    BY DEF StopClosesAll, IInv, Accounted, NoneLive
  <2>1. at[c] >= 8 /\ at[c] \in Nat
    BY InvParts, Lengths DEF Done, ControlOK
  <2>2. Stopping(c)
    BY DEF IInv, Progress
  <2> QED BY <2>1, <2>2 DEF Stopping, NoneLive
<1> QED BY <1>1, Invariance, PTL

\* A start that returns has recorded every audit process under the identity it
\* keeps, opened the parent guard, and fenced what still runs.
THEOREM StartComplete == Spec => []StartIsComplete
<1>1. IInv => StartIsComplete
  <2> SUFFICES ASSUME IInv, NEW c \in Controllers, cmd[c] = "start", Done(c)
               PROVE  /\ manifest /\ \A k \in Audits : entry[k] = "up"
                      /\ guard["parent"] = "open" /\ (target = "up" => fenced /\ route)
                      /\ (infra = "running" => infraFenced)
    BY DEF StartIsComplete
  <2>1. at[c] >= 22 /\ at[c] \in Nat
    BY InvParts, Lengths DEF Done, ControlOK
  <2>2. StartHost(c) /\ StartNet(c) /\ StartAudit(c)
    BY DEF IInv, Progress
  <2> QED BY <2>1, <2>2 DEF StartHost, StartNet, StartAudit
<1> QED BY <1>1, Invariance, PTL
=============================================================================
