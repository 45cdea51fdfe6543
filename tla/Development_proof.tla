------------------------- MODULE Development_proof -------------------------
(***************************************************************************)
(* Development for any set of configurations and any number of commands,   *)
(* failures and kills.  The invariant says what the place of main, stage   *)
(* and handoff in their plans means for the files, the containers and the  *)
(* routes, and who can be inside a plan: the holder of the lock, and stage.*)
(***************************************************************************)
EXTENDS Development, Integers, TLAPS

\* The commands a process runs.
Commands ==
    [main    |-> {"none", "start", "activate", "reactivate", "close"},
     health  |-> {"none", "health", "close"},
     stage   |-> {"none", "stage"},
     handoff |-> {"none", "handoff", "rollback"}]

\* It runs one of them, and is not beyond its last step.
InPlan(p) ==
    /\ cmd[p] \in Commands[p]
    /\ cmd[p] = "none" => at[p] = 1
    /\ cmd[p] # "none" => at[p] <= Len(Plan[cmd[p]])

\* Without the lock nobody but stage is past the first step.
Holding ==
    /\ \A p \in {"main", "handoff"} :
          at[p] > 1 \/ cmd[p] \in {"close", "rollback"} => lock = p
    /\ cmd["health"] # "none" => lock = "health"

\* What the processes have read.
Known ==
    /\ cmd["main"] # "none" => local["main"].cfg \in Configs
    /\ cmd["main"] \in {"activate", "reactivate"} => local["main"].plan.candidate = local["main"].cfg
    /\ cmd["health"] # "none" => local["health"].cfg \in Configs
    /\ cmd["stage"] # "none" => /\ local["stage"].plan.state = "staged"
                                /\ local["stage"].plan.current \in Configs
                                /\ local["stage"].plan.candidate \in Configs

\* Types and places of the processes.
Control ==
    /\ lock \in {"main", "health", "handoff", None}
    /\ cmd \in [Procs -> DOMAIN Plan] /\ at \in [Procs -> 1..19] /\ local \in [Procs -> Knowledge]
    /\ faults \in 0..MaxFaults /\ failed \in BOOLEAN
    /\ \A p \in Procs : InPlan(p)
    /\ Holding /\ Known

\* The files of stage are there in the order it writes them, and stay.
Staged ==
    /\ plan.state # "none" => plan.candidate \in Configs
    /\ dropin => plan.state # "none"
    /\ selector \/ unit = "alias" => alias # None
    /\ cmd["stage"] = "stage" => /\ at["stage"] >= 2 => alias # None
                                 /\ at["stage"] >= 3 => plan.state # "none"

\* The place of main in the plan of a start, which an activation and a repeated
\* activation contain.
Starting == cmd["main"] \in {"start", "activate", "reactivate"}
Place == IF cmd["main"] = "activate" THEN at["main"] - 5 ELSE at["main"]
Config == local["main"].cfg

\* What a start has behind it.
MainOK == Starting =>
    /\ Place >= 3 => prepared = Config
    /\ Place \in 5..8 => ~readiness.ok
    /\ Place >= 8 => side.cfg = Config
    /\ Place >= 9 => readiness.phase = "network-ready"

\* An activation has retired the handoff before it selects its candidate; what
\* it is to record as applied is selected.
ActivateOK ==
    /\ cmd["main"] = "activate" => /\ plan.state # "applied"
                                   /\ at["main"] \in 3..4 => tables = {}
                                   /\ at["main"] >= 6 => alias = Config
    /\ cmd["main"] = "reactivate" => alias = Config

\* What a handoff has behind it, and what its rollback finds.
HandoffOK ==
    /\ cmd["handoff"] = "handoff" =>
          /\ at["handoff"] >= 2 => tables \subseteq Switched
          /\ at["handoff"] <= 8 => Switched = {}
          /\ at["handoff"] >= 4 => "web" \in fwd
          /\ at["handoff"] >= 5 => "dns" \in fwd
          /\ at["handoff"] >= 6 => manifest.listed
          /\ at["handoff"] >= 8 => Applied
    /\ cmd["handoff"] = "rollback" =>
          /\ tables \subseteq Switched
          /\ Switched # {} => Applied /\ manifest.listed /\ fwd = Forwarders

\* The types of what the processes share.
DataOK ==
    /\ commands \in 0..MaxCommands /\ replaced \in BOOLEAN
    /\ alias \in Chosen /\ plan \in Plans /\ selector \in BOOLEAN /\ dropin \in BOOLEAN
    /\ unit \in Configs \union {"alias"} /\ watched \in Configs /\ prepared \in Configs
    /\ readiness \in [ok : BOOLEAN, cfg : Configs, phase : {"none", "network-ready", "ready"}]
    /\ lease \in BOOLEAN /\ timer \in BOOLEAN
    /\ manifest \in [state : {"absent", "failed", "applied", "retired"}, listed : BOOLEAN]
    /\ monitor \in [state : {"off", "idle", "probing", "down"}, cfg : Chosen]
    /\ side \in [run : BOOLEAN, cfg : Chosen]
    /\ target \in [run : BOOLEAN, cfg : Chosen, mount : Nat]
    /\ mapper \in BOOLEAN /\ mount \in Nat
    /\ fwd \subseteq Forwarders /\ tables \subseteq Roles

\* The inductive invariant: the properties and what they rest on.
IInv == /\ Control /\ DataOK /\ Staged /\ MainOK /\ ActivateOK /\ HandoffOK
        /\ RoutedIsRegistered /\ ReadyMatches /\ AppliedIsSelected

-----------------------------------------------------------------------------
(* Where the steps stand *)

\* The plans that are put together, written out.
LEMMA ActivatePlan ==
  /\ Len(Plan["activate"]) = 19
  /\ Plan["activate"][1] = "quiesce" /\ Plan["activate"][2] = "retireStop"
  /\ Plan["activate"][3] = "retireForwarders" /\ Plan["activate"][4] = "retireRecord"
  /\ Plan["activate"][5] = "select" /\ Plan["activate"][6] = "prepare"
  /\ Plan["activate"][7] = "render" /\ Plan["activate"][8] = "install"
  /\ Plan["activate"][9] = "unready" /\ Plan["activate"][10] = "unlink"
  /\ Plan["activate"][11] = "mapper" /\ Plan["activate"][12] = "upSide"
  /\ Plan["activate"][13] = "openNetwork" /\ Plan["activate"][14] = "verify"
  /\ Plan["activate"][15] = "enableMonitor" /\ Plan["activate"][16] = "upTarget"
  /\ Plan["activate"][17] = "enableTimer" /\ Plan["activate"][18] = "entries"
  /\ Plan["activate"][19] = "applied"
<1>1. Plan["activate"] = <<"quiesce">> \o Retire \o <<"select">> \o Start \o <<"entries", "applied">>
  BY DEF Plan
<1> QED BY <1>1 DEF Retire, Start

\* The same for a start
LEMMA StartPlan ==
  /\ Len(Plan["start"]) = 12
  /\ Plan["start"][1] = "prepare" /\ Plan["start"][2] = "render"
  /\ Plan["start"][3] = "install" /\ Plan["start"][4] = "unready"
  /\ Plan["start"][5] = "unlink" /\ Plan["start"][6] = "mapper"
  /\ Plan["start"][7] = "upSide" /\ Plan["start"][8] = "openNetwork"
  /\ Plan["start"][9] = "verify" /\ Plan["start"][10] = "enableMonitor"
  /\ Plan["start"][11] = "upTarget" /\ Plan["start"][12] = "enableTimer"
BY DEF Plan, Start

\* and for the activation of a plan that was applied.
LEMMA ReactivatePlan ==
  /\ Len(Plan["reactivate"]) = 14
  /\ Plan["reactivate"][1] = "prepare" /\ Plan["reactivate"][2] = "render"
  /\ Plan["reactivate"][3] = "install" /\ Plan["reactivate"][4] = "unready"
  /\ Plan["reactivate"][5] = "unlink" /\ Plan["reactivate"][6] = "mapper"
  /\ Plan["reactivate"][7] = "upSide" /\ Plan["reactivate"][8] = "openNetwork"
  /\ Plan["reactivate"][9] = "verify" /\ Plan["reactivate"][10] = "enableMonitor"
  /\ Plan["reactivate"][11] = "upTarget" /\ Plan["reactivate"][12] = "enableTimer"
  /\ Plan["reactivate"][13] = "entries" /\ Plan["reactivate"][14] = "applied"
<1>1. Plan["reactivate"] = Start \o <<"entries", "applied">>
  BY DEF Plan
<1> QED BY <1>1 DEF Start

\* The other plans, and the names of all.
LEMMA OtherPlans ==
  /\ DOMAIN Plan = {"none", "start", "activate", "reactivate", "close", "health", "stage",
                    "handoff", "rollback"}
  /\ Plan["none"] = << >> /\ Plan["start"] = Start
  /\ Plan["close"] = <<"unready", "unlink">>
  /\ Plan["health"] = <<"inspect", "checkMapper", "conclude">>
  /\ Plan["stage"] = <<"choose", "writePlan", "writeSelector", "writeDropin", "confirm">>
  /\ Plan["handoff"] = <<"survey", "register", "createWeb", "createDns", "list", "probe", "commit",
                         "routeDns", "routeGateway", "finish">>
  /\ Plan["rollback"] = <<"unroute", "discard", "unregister">>
BY DEF Plan

\* How long they are.
LEMMA Lengths ==
  /\ Len(Plan["none"]) = 0 /\ Len(Plan["start"]) = 12 /\ Len(Plan["activate"]) = 19
  /\ Len(Plan["reactivate"]) = 14 /\ Len(Plan["close"]) = 2 /\ Len(Plan["health"]) = 3
  /\ Len(Plan["stage"]) = 5 /\ Len(Plan["handoff"]) = 10 /\ Len(Plan["rollback"]) = 3
BY ActivatePlan, ReactivatePlan, OtherPlans DEF Start

\* A step of main by its place: those of a start, and the others.
LEMMA MainPlaces ==
  ASSUME Control
  PROVE
  /\ At("main", "prepare") => Starting /\ Place = 1
  /\ At("main", "render") => Starting /\ Place = 2
  /\ At("main", "install") => Starting /\ Place = 3
  /\ At("main", "unready") => \/ Starting /\ Place = 4
                              \/ cmd["main"] = "close" /\ at["main"] = 1
  /\ At("main", "unlink") => \/ Starting /\ Place = 5
                             \/ cmd["main"] = "close" /\ at["main"] = 2
  /\ At("main", "mapper") => Starting /\ Place = 6
  /\ At("main", "upSide") => Starting /\ Place = 7
  /\ At("main", "openNetwork") => Starting /\ Place = 8
  /\ At("main", "verify") => Starting /\ Place = 9
  /\ At("main", "enableMonitor") => Starting /\ Place = 10
  /\ At("main", "upTarget") => Starting /\ Place = 11
  /\ At("main", "enableTimer") => Starting /\ Place = 12
  /\ At("main", "entries") => cmd["main"] \in {"activate", "reactivate"} /\ Place = 13
  /\ At("main", "applied") => cmd["main"] \in {"activate", "reactivate"} /\ Place = 14
  /\ At("main", "quiesce") => cmd["main"] = "activate" /\ at["main"] = 1
  /\ At("main", "retireStop") => cmd["main"] = "activate" /\ at["main"] = 2
  /\ At("main", "retireForwarders") => cmd["main"] = "activate" /\ at["main"] = 3
  /\ At("main", "retireRecord") => cmd["main"] = "activate" /\ at["main"] = 4
  /\ At("main", "select") => cmd["main"] = "activate" /\ at["main"] = 5
  /\ ~At("main", "conclude")
<1> DEFINE x == cmd["main"]
           n == at["main"]
<1>1. /\ x \in {"none", "start", "activate", "reactivate", "close"}
      /\ n \in 1..19 /\ (x = "none" => n = 1) /\ (x # "none" => n <= Len(Plan[x]))
  BY DEF Control, InPlan, Commands, Procs
<1>2. \A step : At("main", step) <=> n <= Len(Plan[x]) /\ Plan[x][n] = step
  BY DEF At
<1>3. CASE x = "none"
  BY <1>1, <1>2, <1>3, Lengths
<1>4. CASE x = "start"
  <2>1. CASE n \in 1..4
    BY <1>2, <1>4, <2>1, StartPlan DEF Starting, Place
  <2>2. CASE n \in 5..8
    BY <1>2, <1>4, <2>2, StartPlan DEF Starting, Place
  <2>3. CASE n \in 9..12
    BY <1>2, <1>4, <2>3, StartPlan DEF Starting, Place
  <2>4. n \in 1..12
    BY <1>1, <1>4, Lengths
  <2> QED BY <2>1, <2>2, <2>3, <2>4
<1>5. CASE x = "close"
  BY <1>1, <1>2, <1>5, Lengths, OtherPlans DEF Starting, Place
<1>6. CASE x = "reactivate"
  <2>1. CASE n \in 1..4
    BY <1>2, <1>6, <2>1, ReactivatePlan DEF Starting, Place
  <2>2. CASE n \in 5..8
    BY <1>2, <1>6, <2>2, ReactivatePlan DEF Starting, Place
  <2>3. CASE n \in 9..11
    BY <1>2, <1>6, <2>3, ReactivatePlan DEF Starting, Place
  <2>4. CASE n \in 12..14
    BY <1>2, <1>6, <2>4, ReactivatePlan DEF Starting, Place
  <2>5. n \in 1..14
    BY <1>1, <1>6, Lengths
  <2> QED BY <2>1, <2>2, <2>3, <2>4, <2>5
<1>7. CASE x = "activate"
  <2>1. CASE n \in 1..4
    BY <1>2, <1>7, <2>1, ActivatePlan DEF Starting, Place
  <2>2. CASE n \in 5..8
    BY <1>2, <1>7, <2>2, ActivatePlan DEF Starting, Place
  <2>3. CASE n \in 9..11
    BY <1>2, <1>7, <2>3, ActivatePlan DEF Starting, Place
  <2>4. CASE n \in 12..14
    BY <1>2, <1>7, <2>4, ActivatePlan DEF Starting, Place
  <2>5. CASE n \in 15..17
    BY <1>2, <1>7, <2>5, ActivatePlan DEF Starting, Place
  <2>6. CASE n \in 18..19
    BY <1>2, <1>7, <2>6, ActivatePlan DEF Starting, Place
  <2>7. n \in 1..19
    BY <1>1, <1>7, Lengths
  <2> QED BY <2>1, <2>2, <2>3, <2>4, <2>5, <2>6, <2>7
<1> QED BY <1>1, <1>3, <1>4, <1>5, <1>6, <1>7

\* The steps of the other processes by their places.
LEMMA OtherPlaces ==
  ASSUME Control
  PROVE
  /\ At("health", "inspect") => cmd["health"] = "health" /\ at["health"] = 1
  /\ At("health", "checkMapper") => cmd["health"] = "health" /\ at["health"] = 2
  /\ At("health", "conclude") => cmd["health"] = "health" /\ at["health"] = 3
  /\ At("health", "unready") => cmd["health"] = "close" /\ at["health"] = 1
  /\ At("health", "unlink") => cmd["health"] = "close" /\ at["health"] = 2
  /\ ~At("health", "enableTimer")
  /\ At("stage", "choose") => cmd["stage"] = "stage" /\ at["stage"] = 1
  /\ At("stage", "writePlan") => cmd["stage"] = "stage" /\ at["stage"] = 2
  /\ At("stage", "writeSelector") => cmd["stage"] = "stage" /\ at["stage"] = 3
  /\ At("stage", "writeDropin") => cmd["stage"] = "stage" /\ at["stage"] = 4
  /\ At("stage", "confirm") => cmd["stage"] = "stage" /\ at["stage"] = 5
  /\ At("handoff", "survey") => cmd["handoff"] = "handoff" /\ at["handoff"] = 1
  /\ At("handoff", "register") => cmd["handoff"] = "handoff" /\ at["handoff"] = 2
  /\ At("handoff", "createWeb") => cmd["handoff"] = "handoff" /\ at["handoff"] = 3
  /\ At("handoff", "createDns") => cmd["handoff"] = "handoff" /\ at["handoff"] = 4
  /\ At("handoff", "list") => cmd["handoff"] = "handoff" /\ at["handoff"] = 5
  /\ At("handoff", "probe") => cmd["handoff"] = "handoff" /\ at["handoff"] = 6
  /\ At("handoff", "commit") => cmd["handoff"] = "handoff" /\ at["handoff"] = 7
  /\ At("handoff", "routeDns") => cmd["handoff"] = "handoff" /\ at["handoff"] = 8
  /\ At("handoff", "routeGateway") => cmd["handoff"] = "handoff" /\ at["handoff"] = 9
  /\ At("handoff", "finish") => cmd["handoff"] = "handoff" /\ at["handoff"] = 10
  /\ At("handoff", "unroute") => cmd["handoff"] = "rollback" /\ at["handoff"] = 1
  /\ At("handoff", "discard") => cmd["handoff"] = "rollback" /\ at["handoff"] = 2
  /\ At("handoff", "unregister") => cmd["handoff"] = "rollback" /\ at["handoff"] = 3
<1>1. \A p, step : At(p, step) <=> at[p] <= Len(Plan[cmd[p]]) /\ Plan[cmd[p]][at[p]] = step
  BY DEF At
<1>2. \A p \in Procs : at[p] \in 1..19
  BY DEF Control
<1>3. /\ cmd["health"] \in {"none", "health", "close"} /\ cmd["stage"] \in {"none", "stage"}
      /\ cmd["handoff"] \in {"none", "handoff", "rollback"}
  BY DEF Control, InPlan, Commands, Procs
<1>4. \A p \in Procs : cmd[p] = "none" => \A step : ~At(p, step)
  BY <1>1, <1>2, Lengths
<1>5. \A n \in 1..3 : /\ Plan["health"][n] = "inspect" <=> n = 1
                      /\ Plan["health"][n] = "checkMapper" <=> n = 2
                      /\ Plan["health"][n] = "conclude" <=> n = 3
                      /\ Plan["health"][n] \notin {"unready", "unlink", "enableTimer"}
  BY OtherPlans
<1>6. \A n \in 1..2 : /\ Plan["close"][n] = "unready" <=> n = 1
                      /\ Plan["close"][n] = "unlink" <=> n = 2
                      /\ Plan["close"][n] \notin {"inspect", "checkMapper", "conclude", "enableTimer"}
  BY OtherPlans
<1>7. \A n \in 1..5 : /\ Plan["stage"][n] = "choose" <=> n = 1
                      /\ Plan["stage"][n] = "writePlan" <=> n = 2
                      /\ Plan["stage"][n] = "writeSelector" <=> n = 3
                      /\ Plan["stage"][n] = "writeDropin" <=> n = 4
                      /\ Plan["stage"][n] = "confirm" <=> n = 5
  BY OtherPlans
<1>8. \A n \in 1..10 : /\ Plan["handoff"][n] = "survey" <=> n = 1
                       /\ Plan["handoff"][n] = "register" <=> n = 2
                       /\ Plan["handoff"][n] = "createWeb" <=> n = 3
                       /\ Plan["handoff"][n] = "createDns" <=> n = 4
                       /\ Plan["handoff"][n] = "list" <=> n = 5
                       /\ Plan["handoff"][n] = "probe" <=> n = 6
                       /\ Plan["handoff"][n] = "commit" <=> n = 7
                       /\ Plan["handoff"][n] = "routeDns" <=> n = 8
                       /\ Plan["handoff"][n] = "routeGateway" <=> n = 9
                       /\ Plan["handoff"][n] = "finish" <=> n = 10
                       /\ Plan["handoff"][n] \notin {"unroute", "discard", "unregister"}
  BY OtherPlans
<1>9. \A n \in 1..3 : /\ Plan["rollback"][n] = "unroute" <=> n = 1
                      /\ Plan["rollback"][n] = "discard" <=> n = 2
                      /\ Plan["rollback"][n] = "unregister" <=> n = 3
                      /\ Plan["rollback"][n] \notin {"survey", "register", "createWeb", "createDns", "list"}
                      /\ Plan["rollback"][n] \notin {"probe", "commit", "routeDns", "routeGateway", "finish"}
  BY OtherPlans
<1>10. /\ At("health", "inspect") => cmd["health"] = "health" /\ at["health"] = 1
       /\ At("health", "checkMapper") => cmd["health"] = "health" /\ at["health"] = 2
       /\ At("health", "conclude") => cmd["health"] = "health" /\ at["health"] = 3
       /\ At("health", "unready") => cmd["health"] = "close" /\ at["health"] = 1
       /\ At("health", "unlink") => cmd["health"] = "close" /\ at["health"] = 2
       /\ ~At("health", "enableTimer")
  <2>1. CASE cmd["health"] = "none"
    BY <1>4, <2>1 DEF Procs
  <2>2. CASE cmd["health"] = "health"
    <3>1. at["health"] <= Len(Plan[cmd["health"]]) => at["health"] \in 1..3
      BY <1>2, <2>2, Lengths DEF Procs
    <3> QED BY <1>1, <1>5, <2>2, <3>1
  <2>3. CASE cmd["health"] = "close"
    <3>1. at["health"] <= Len(Plan[cmd["health"]]) => at["health"] \in 1..2
      BY <1>2, <2>3, Lengths DEF Procs
    <3> QED BY <1>1, <1>6, <2>3, <3>1
  <2> QED BY <1>3, <2>1, <2>2, <2>3
<1>11. /\ At("stage", "choose") => cmd["stage"] = "stage" /\ at["stage"] = 1
       /\ At("stage", "writePlan") => cmd["stage"] = "stage" /\ at["stage"] = 2
       /\ At("stage", "writeSelector") => cmd["stage"] = "stage" /\ at["stage"] = 3
       /\ At("stage", "writeDropin") => cmd["stage"] = "stage" /\ at["stage"] = 4
       /\ At("stage", "confirm") => cmd["stage"] = "stage" /\ at["stage"] = 5
  <2>1. CASE cmd["stage"] = "none"
    BY <1>4, <2>1 DEF Procs
  <2>2. CASE cmd["stage"] = "stage"
    <3>1. at["stage"] <= Len(Plan[cmd["stage"]]) => at["stage"] \in 1..5
      BY <1>2, <2>2, Lengths DEF Procs
    <3> QED BY <1>1, <1>7, <2>2, <3>1
  <2> QED BY <1>3, <2>1, <2>2
<1>12. CASE cmd["handoff"] = "none"
  BY <1>4, <1>10, <1>11, <1>12 DEF Procs
<1>13. CASE cmd["handoff"] = "handoff"
  <2>1. at["handoff"] \in 1..10 <=> at["handoff"] <= Len(Plan[cmd["handoff"]])
    BY <1>2, <1>13, Lengths DEF Procs
  <2>2. \A step : At("handoff", step) => at["handoff"] \in 1..10 /\ Plan["handoff"][at["handoff"]] = step
    BY <1>1, <1>13, <2>1
  <2>3. \A step : At("handoff", step) => step \notin {"unroute", "discard", "unregister"}
    BY <1>8, <2>2
  <2> QED BY <1>8, <1>10, <1>11, <1>13, <2>2, <2>3
<1>14. CASE cmd["handoff"] = "rollback"
  <2>1. at["handoff"] \in 1..3 <=> at["handoff"] <= Len(Plan[cmd["handoff"]])
    BY <1>2, <1>14, Lengths DEF Procs
  <2> QED BY <1>1, <1>9, <1>10, <1>11, <1>14, <2>1
<1> QED BY <1>3, <1>12, <1>13, <1>14

-----------------------------------------------------------------------------
(* Control *)

\* The processes but this one stay where they are.
Stay(p) == \A q \in Procs \ {p} : cmd'[q] = cmd[q] /\ at'[q] = at[q] /\ local'[q] = local[q]

\* The process ends.
Ends(p) == cmd'[p] = "none" /\ at'[p] = 1 /\ lock' = (IF lock = p THEN None ELSE lock)

\* On to the next step.
Advances(p, known) ==
    /\ cmd'[p] = cmd[p] /\ at'[p] = at[p] + 1 /\ at[p] < Len(Plan[cmd[p]])
    /\ local'[p] = known /\ lock' = lock

\* On to the handler of an exception.
Unwinds(p, known) ==
    /\ \/ p \in {"main", "health"} /\ cmd'[p] = "close"
       \/ p = "handoff" /\ cmd'[p] = "rollback" /\ at[p] >= 3
    /\ cmd[p] \notin {"close", "rollback"}
    /\ at'[p] = 1 /\ local'[p] = known /\ lock' = lock

\* One of these.
Moves(p, known) == Stay(p) /\ (Ends(p) \/ Advances(p, known) \/ Unwinds(p, known))

\* What a process may come to know in a step.
Fits(p, known) ==
    known \in Knowledge /\ known.cfg = local[p].cfg /\ known.plan = local[p].plan

\* The types of the control variables.
ControlTypes ==
    /\ lock \in {"main", "health", "handoff", None}
    /\ cmd \in [Procs -> DOMAIN Plan] /\ at \in [Procs -> 1..19] /\ local \in [Procs -> Knowledge]

\* A process that runs nothing knows nothing, which is of the type.
LEMMA IdleKnows == Idle \in Knowledge
BY DEF Idle, Knows, NoPlan, Knowledge, Plans, Chosen, Roles

\* Who is inside a plan, for one process.
LEMMA Inside ==
  ASSUME Control, NEW p \in Procs
  PROVE  /\ cmd[p] \in Commands[p] /\ cmd[p] \in DOMAIN Plan /\ at[p] \in 1..19 /\ local[p] \in Knowledge
         /\ cmd[p] # "none" => at[p] <= Len(Plan[cmd[p]])
BY DEF Control, InPlan

\* No plan is longer than 19 steps.
LEMMA LongestPlan ==
  ASSUME NEW x \in DOMAIN Plan
  PROVE  Len(Plan[x]) \in 0..19 /\ (x # "none" => Len(Plan[x]) >= 1)
<1>1. x \in {"none", "start", "activate", "reactivate", "close", "health", "stage", "handoff", "rollback"}
  BY OtherPlans
<1>2. CASE x = "none"
  BY <1>2, Lengths
<1>3. CASE x = "start"
  BY <1>3, Lengths
<1>4. CASE x = "activate"
  BY <1>4, Lengths
<1>5. CASE x = "reactivate"
  BY <1>5, Lengths
<1>6. CASE x = "close"
  BY <1>6, Lengths
<1>7. CASE x = "health"
  BY <1>7, Lengths
<1>8. CASE x = "stage"
  BY <1>8, Lengths
<1>9. CASE x = "handoff"
  BY <1>9, Lengths
<1>10. CASE x = "rollback"
  BY <1>10, Lengths
<1> QED BY <1>1, <1>2, <1>3, <1>4, <1>5, <1>6, <1>7, <1>8, <1>9, <1>10

\* A process that ends
LEMMA Leaves ==
  ASSUME Control, NEW p \in Procs, Leave(p)
  PROVE  ControlTypes' /\ Stay(p) /\ Ends(p)
<1>1. "none" \in DOMAIN Plan /\ 1 \in 1..19
  BY OtherPlans
<1> QED BY <1>1, IdleKnows DEF Control, ControlTypes, Leave, Stay, Ends, Procs

\* or goes on with a command.
LEMMA Gotos ==
  ASSUME Control, NEW p \in Procs, NEW x \in DOMAIN Plan, NEW known \in Knowledge, Goto(p, x, known)
  PROVE  /\ ControlTypes' /\ Stay(p) /\ lock' = lock
         /\ cmd'[p] = x /\ at'[p] = 1 /\ local'[p] = known
BY DEF Control, ControlTypes, Goto, Stay

\* A step that is done
LEMMA Skips ==
  ASSUME Control, NEW p \in Procs, cmd[p] # "none", NEW known \in Knowledge, Skip(p, known)
  PROVE  ControlTypes' /\ Moves(p, known) /\ failed' = failed
<1>1. CASE at[p] = Len(Plan[cmd[p]])
  <2>1. Leave(p)
    BY <1>1 DEF Skip
  <2> QED BY <2>1, Leaves DEF Moves, Skip
<1>2. CASE at[p] # Len(Plan[cmd[p]])
  <2>1. at[p] \in 1..19 /\ at[p] < Len(Plan[cmd[p]]) /\ at[p] + 1 \in 1..19
    <3>1. Len(Plan[cmd[p]]) \in 0..19 /\ at[p] \in 1..19 /\ at[p] <= Len(Plan[cmd[p]])
      BY Inside, LongestPlan
    <3>2. \A m \in 0..19, n \in 1..19 : n <= m /\ n # m => n < m /\ n + 1 \in 1..19
      OBVIOUS
    <3> QED BY <1>2, <3>1, <3>2
  <2> QED BY <1>2, <2>1 DEF Control, ControlTypes, Skip, Moves, Stay, Advances
<1> QED BY <1>1, <1>2

\* The handlers
LEMMA Handlers ==
  ASSUME Control, NEW p \in Procs, cmd[p] # "none", cmd[p] \notin {"close", "rollback"}, Handler(p) # "none"
  PROVE  /\ Handler(p) \in DOMAIN Plan
         /\ \/ p \in {"main", "health"} /\ Handler(p) = "close"
            \/ p = "handoff" /\ Handler(p) = "rollback" /\ at[p] >= 3
<1>1. "close" \in DOMAIN Plan /\ "rollback" \in DOMAIN Plan
  BY OtherPlans
<1>2. CASE p = "main"
  BY <1>1, <1>2 DEF Handler
<1>3. CASE p = "health"
  BY <1>1, <1>3 DEF Handler
<1>4. CASE p = "stage"
  BY <1>1, <1>4 DEF Handler
<1>5. CASE p = "handoff"
  <2>1. Past(p, "register") /\ Handler(p) = "rollback"
    BY <1>5 DEF Handler
  <2>2. PICK i \in 1..at[p] - 1 : Plan[cmd[p]][i] = "register"
    BY <2>1 DEF Past
  <2>3. cmd[p] = "handoff" /\ at[p] \in 1..19
    BY <1>5, Inside DEF Commands
  <2>4. i # 1 /\ i \in Nat
    BY <2>2, <2>3, OtherPlans
  <2> QED BY <1>1, <1>5, <2>1, <2>2, <2>3, <2>4
<1> QED BY <1>2, <1>3, <1>4, <1>5 DEF Procs

\* and what an exception leads to.
LEMMA Excepts ==
  ASSUME Control, NEW p \in Procs, cmd[p] # "none", NEW known \in Knowledge, Except(p, known)
  PROVE  ControlTypes' /\ Stay(p) /\ (Ends(p) \/ Unwinds(p, known)) /\ failed' \in BOOLEAN
<1>1. failed' \in BOOLEAN
  BY DEF Except, Control
<1>2. CASE cmd[p] \in {"close", "rollback"} \/ Handler(p) = "none"
  BY <1>1, <1>2, Leaves DEF Except
<1>3. CASE ~(cmd[p] \in {"close", "rollback"} \/ Handler(p) = "none")
  <2>1. Goto(p, Handler(p), known)
    BY <1>3 DEF Except
  <2> QED BY <1>1, <1>3, <2>1, Handlers, Gotos DEF Unwinds
<1> QED BY <1>2, <1>3

\* Moves of a process that may move keep the control.
LEMMA ControlAfter ==
  ASSUME Control, NEW p \in Procs, Working(p), NEW known, Fits(p, known), Moves(p, known),
         ControlTypes', faults' \in 0..MaxFaults, failed' \in BOOLEAN
  PROVE  Control'
<1>1. \A q \in Procs \ {p} : InPlan(q)'
  BY DEF Control, InPlan, Moves, Stay
<1>2. InPlan(p)'
  <2>1. CASE Ends(p)
    BY <2>1 DEF Ends, InPlan, Commands, Procs
  <2>2. CASE Advances(p, known)
    <3>1. at[p] \in 1..19 /\ cmd[p] \in DOMAIN Plan /\ cmd[p] \in Commands[p] /\ cmd[p] # "none"
      BY Inside DEF Working
    <3>2. Len(Plan[cmd[p]]) \in 0..19
      BY <3>1, LongestPlan
    <3>3. \A m \in 0..19, n \in 1..19 : n < m => n + 1 <= m
      OBVIOUS
    <3> QED BY <2>2, <3>1, <3>2, <3>3 DEF Advances, InPlan
  <2>3. CASE Unwinds(p, known)
    <3>1. 1 <= Len(Plan["close"]) /\ 1 <= Len(Plan["rollback"])
      BY Lengths
    <3> QED BY <2>3, <3>1 DEF Unwinds, InPlan, Commands
  <2> QED BY <2>1, <2>2, <2>3 DEF Moves
<1>3. p = "stage" \/ lock = p
  BY DEF Working
<1>4. Holding'
  <2>1. CASE p = "stage"
    <3>1. lock' = lock
      BY <2>1, DevelopmentAssumption DEF Moves, Ends, Advances, Unwinds, Control, Procs
    <3> QED BY <2>1, <3>1 DEF Moves, Stay, Holding, Control, Procs
  <2>2. CASE p # "stage"
    <3>1. \A q \in Procs \ {p, "stage"} : /\ at'[q] = at[q] /\ cmd'[q] = cmd[q]
                                         /\ lock # q
      BY <1>3, <2>2 DEF Moves, Stay
    <3>2. at[p] \in 1..19
      BY Inside
    <3>3. CASE Ends(p)
      BY <1>3, <2>2, <3>1, <3>3 DEF Ends, Holding, Control, Procs
    <3>4. CASE lock' = p
      BY <1>3, <2>2, <3>1, <3>4 DEF Holding, Control, Procs
    <3> QED BY <1>3, <2>2, <3>3, <3>4 DEF Moves, Advances, Unwinds
  <2> QED BY <2>1, <2>2
<1>5. Known'
  <2>1. CASE Ends(p)
    BY <2>1 DEF Known, Control, Moves, Stay, Ends, Procs
  <2>2. CASE ~Ends(p)
    <3>1. /\ local'[p].cfg = local[p].cfg /\ local'[p].plan = local[p].plan
          /\ cmd'[p] \in {cmd[p], "close", "rollback"} /\ cmd[p] # "none"
      BY <2>2 DEF Moves, Advances, Unwinds, Fits, Working
    <3> QED BY <3>1 DEF Known, Control, Moves, Stay, Procs
  <2> QED BY <2>1, <2>2
<1> QED BY <1>1, <1>2, <1>4, <1>5 DEF Control, ControlTypes

\* A step with an effect: on, or a fault
LEMMA Learned ==
  ASSUME Control, NEW p \in Procs, Working(p), NEW known, Fits(p, known),
         \/ Learn(p, known)
         \/ Skip(p, known) /\ (UNCHANGED faults \/ Faulty)
         \/ Except(p, known) /\ (UNCHANGED faults \/ Faulty)
  PROVE  Control' /\ Moves(p, known)
<1>1. faults' \in 0..MaxFaults
  BY DevelopmentAssumption DEF Learn, Faulty, Control
<1>2. known \in Knowledge /\ cmd[p] # "none" /\ failed \in BOOLEAN
  BY DEF Fits, Working, Control
<1>3. CASE Skip(p, known)
  BY <1>1, <1>2, <1>3, Skips, ControlAfter
<1>4. CASE Except(p, known)
  <2>1. Moves(p, known)
    BY <1>2, <1>4, Excepts DEF Moves
  <2> QED BY <1>1, <1>2, <1>4, <2>1, Excepts, ControlAfter
<1> QED BY <1>3, <1>4 DEF Learn

\* without new knowledge.
LEMMA Proceeded ==
  ASSUME Control, NEW p \in Procs, Working(p),
         \/ Proceed(p)
         \/ Go(p)
         \/ Refuse(p)
         \/ Faulty /\ Raise(p)
         \/ Faulty /\ Skip(p, local[p])
  PROVE  Control' /\ Moves(p, local[p])
<1>1. Fits(p, local[p])
  BY Inside DEF Fits
<1> QED BY <1>1, Learned DEF Proceed, Go, Refuse, Raise

-----------------------------------------------------------------------------
(* The main service *)

\* Main alone moves: a start goes on by one place, or is over; a handoff waits.
LEMMA MainMoves ==
  ASSUME Control, lock = "main", NEW known, Fits("main", known), Moves("main", known)
  PROVE  /\ Starting' => /\ Starting /\ cmd'["main"] = cmd["main"]
                         /\ at'["main"] = at["main"] + 1 /\ Place' = Place + 1
                         /\ local'["main"].cfg = local["main"].cfg
         /\ \A q \in {"stage", "handoff"} : cmd'[q] = cmd[q] /\ at'[q] = at[q] /\ local'[q] = local[q]
         /\ cmd["handoff"] # "rollback" /\ at["handoff"] = 1
         /\ at["main"] \in 1..19
<1>1. at["main"] \in 1..19 /\ at["handoff"] \in 1..19
  BY Inside DEF Procs
<1>2. Starting' => Advances("main", known)
  BY DEF Moves, Ends, Unwinds, Starting
<1>3. Starting' => /\ Starting /\ cmd'["main"] = cmd["main"]
                   /\ at'["main"] = at["main"] + 1 /\ local'["main"].cfg = local["main"].cfg
  BY <1>2 DEF Advances, Starting, Fits
<1>4. Starting' => Place' = Place + 1
  BY <1>1, <1>3 DEF Place
<1>5. cmd["handoff"] # "rollback" /\ at["handoff"] = 1
  BY <1>1 DEF Control, Holding
<1> QED BY <1>1, <1>3, <1>4, <1>5 DEF Moves, Stay, Procs

\* A handoff that waits claims nothing of the routes.
LEMMA HandoffWaits ==
  ASSUME HandoffOK, cmd'["handoff"] = cmd["handoff"], cmd["handoff"] # "rollback",
         at["handoff"] = 1, at'["handoff"] = 1, local'["handoff"] = local["handoff"]
  PROVE  HandoffOK'
BY DEF HandoffOK, Switched

\* A step of main that leaves the files of stage alone
LEMMA MainLeavesFiles ==
  ASSUME IInv, lock = "main", NEW known, Fits("main", known), Moves("main", known),
         UNCHANGED <<startup, unit>>, tables' \subseteq tables,
         cmd["main"] = "activate" => at["main"] # 5 /\ (at["main"] = 2 => tables' = {})
  PROVE  Staged' /\ ActivateOK' /\ HandoffOK' /\ AppliedIsSelected'
<1>1. Staged'
  BY MainMoves DEF IInv, Staged, startup
<1>2. ActivateOK'
  <2>1. cmd'["main"] \in {"activate", "reactivate"} => Starting'
    BY DEF Starting
  <2> QED BY <2>1, MainMoves DEF IInv, ActivateOK, Config, startup
<1>3. HandoffOK'
  BY MainMoves, HandoffWaits DEF IInv
<1> QED BY <1>1, <1>2, <1>3 DEF IInv, AppliedIsSelected, startup

\* or the network, and is none of the steps that later ones build on.
LEMMA MainLeavesNetwork ==
  ASSUME IInv, lock = "main", NEW known, Fits("main", known), Moves("main", known),
         UNCHANGED <<readiness, prepared>>, side'.cfg = side.cfg, target'.cfg = target.cfg,
         Starting => Place \notin {2, 4, 7, 8}
  PROVE  MainOK' /\ ReadyMatches'
<1>1. Starting => Place \in Int
  BY MainMoves DEF IInv, Place
<1>2. MainOK'
  BY <1>1, MainMoves DEF IInv, MainOK, Config
<1> QED BY <1>2 DEF IInv, ReadyMatches

\* The steps before the plan of a start.
LEMMA RetireSteps ==
  ASSUME IInv, lock = "main", Quiesce \/ RetireStop \/ RetireForwarders \/ RetireRecord \/ Select
  PROVE  IInv'
<1>1. Working("main") /\ cmd["main"] = "activate" /\ Fits("main", local["main"]) /\ Control
  BY MainPlaces, Inside DEF IInv, Quiesce, RetireStop, RetireForwarders, RetireRecord, Select, Working,
     Fits, Procs
<1>2. CASE Quiesce
  <2>1. at["main"] = 1
    BY <1>1, <1>2, MainPlaces DEF Quiesce
  <2>2. Control' /\ Moves("main", local["main"])
    BY <1>1, <1>2, Proceeded DEF Quiesce, Procs
  <2>3. Staged' /\ ActivateOK' /\ HandoffOK' /\ AppliedIsSelected'
    BY <1>1, <1>2, <2>1, <2>2, MainLeavesFiles DEF Quiesce, files, handedOff, startup
  <2>4. MainOK' /\ ReadyMatches'
    BY <1>1, <1>2, <2>1, <2>2, MainLeavesNetwork DEF Quiesce, files, network, containers, Place
  <2>5. monitor' \in [state : {"off", "idle", "probing", "down"}, cfg : Chosen] /\ timer' \in BOOLEAN
    <3>1. Off \in [state : {"off", "idle", "probing", "down"}, cfg : Chosen]
      BY DEF Off, Chosen
    <3>2. /\ monitor' = Off \/ monitor' = monitor
          /\ timer' = FALSE \/ timer' = timer
      BY <1>2 DEF Quiesce
    <3> QED BY <3>1, <3>2 DEF IInv, DataOK
  <2>6. DataOK' /\ RoutedIsRegistered'
    BY <1>2, <2>5 DEF Quiesce, IInv, DataOK, RoutedIsRegistered, Applied, counts, files, startup, network,
       containers, uidview, handedOff
  <2> QED BY <2>2, <2>3, <2>4, <2>6 DEF IInv
<1>3. CASE RetireStop
  <2>1. at["main"] = 2
    BY <1>1, <1>3, MainPlaces DEF RetireStop
  <2>2. Control' /\ Moves("main", local["main"])
    BY <1>1, <1>3, Proceeded DEF RetireStop, Procs
  <2>3. /\ side \in [run : BOOLEAN, cfg : Chosen] /\ target \in [run : BOOLEAN, cfg : Chosen, mount : Nat]
        /\ manifest.listed \in BOOLEAN
    BY DEF IInv, DataOK
  <2>4. /\ side' \in [run : BOOLEAN, cfg : Chosen] /\ side'.cfg = side.cfg
        /\ target' \in [run : BOOLEAN, cfg : Chosen, mount : Nat] /\ target'.cfg = target.cfg
    BY <1>3, <2>3 DEF RetireStop, containers
  <2>5. tables' = {}
    <3>1. CASE Applied /\ manifest.listed
      BY <1>3, <3>1 DEF RetireStop
    <3>2. CASE ~(Applied /\ manifest.listed)
      <4>1. tables' = tables \/ tables' = {}
        BY <1>3 DEF RetireStop
      <4> QED BY <3>2, <4>1 DEF IInv, RoutedIsRegistered
    <3> QED BY <3>1, <3>2
  <2>6. Staged' /\ ActivateOK' /\ HandoffOK' /\ AppliedIsSelected'
    BY <1>1, <1>3, <2>1, <2>2, <2>5, MainLeavesFiles DEF RetireStop, files, startup
  <2>7. MainOK' /\ ReadyMatches'
    BY <1>1, <1>3, <2>1, <2>2, <2>4, MainLeavesNetwork DEF RetireStop, files, network, Place
  <2>8. DataOK' /\ RoutedIsRegistered'
    BY <1>3, <2>4, <2>5 DEF RetireStop, IInv, DataOK, RoutedIsRegistered, counts, files, startup, network,
       uidview
  <2> QED BY <2>2, <2>6, <2>7, <2>8 DEF IInv
<1>4. CASE RetireForwarders
  <2>1. at["main"] = 3
    BY <1>1, <1>4, MainPlaces DEF RetireForwarders
  <2>2. Control' /\ Moves("main", local["main"])
    BY <1>1, <1>4, Proceeded DEF RetireForwarders, Procs
  <2>3. Staged' /\ ActivateOK' /\ HandoffOK' /\ AppliedIsSelected'
    BY <1>1, <1>4, <2>1, <2>2, MainLeavesFiles DEF RetireForwarders, files, startup
  <2>4. MainOK' /\ ReadyMatches'
    BY <1>1, <1>4, <2>1, <2>2, MainLeavesNetwork DEF RetireForwarders, files, network, host, containers, Place
  <2>5. tables' = {} /\ fwd' \subseteq Forwarders
    BY <1>1, <1>4, <2>1 DEF RetireForwarders, IInv, DataOK, ActivateOK
  <2>6. DataOK' /\ RoutedIsRegistered'
    BY <1>4, <2>5 DEF RetireForwarders, IInv, DataOK, RoutedIsRegistered, counts, files, startup, network,
       host, containers, uidview
  <2> QED BY <2>2, <2>3, <2>4, <2>6 DEF IInv
<1>5. CASE RetireRecord
  <2>1. at["main"] = 4
    BY <1>1, <1>5, MainPlaces DEF RetireRecord
  <2>2. Control' /\ Moves("main", local["main"])
    BY <1>1, <1>5, Proceeded DEF RetireRecord, Procs
  <2>3. Staged' /\ ActivateOK' /\ HandoffOK' /\ AppliedIsSelected'
    BY <1>1, <1>5, <2>1, <2>2, MainLeavesFiles DEF RetireRecord, files, startup
  <2>4. MainOK' /\ ReadyMatches'
    BY <1>1, <1>5, <2>1, <2>2, MainLeavesNetwork DEF RetireRecord, files, network, host, containers, Place
  <2>5. tables' = {}
    BY <1>1, <1>5, <2>1 DEF RetireRecord, IInv, ActivateOK
  <2>6. DataOK' /\ RoutedIsRegistered'
    BY <1>5, <2>5 DEF RetireRecord, IInv, DataOK, RoutedIsRegistered, counts, files, startup, network,
       host, containers, uidview
  <2> QED BY <2>2, <2>3, <2>4, <2>6 DEF IInv
<1>6. CASE Select
  <2>1. at["main"] = 5
    BY <1>1, <1>6, MainPlaces DEF Select
  <2>2. Control' /\ Moves("main", local["main"])
    BY <1>1, <1>6, Proceeded DEF Select, Procs
  <2>3. /\ alias' \in Configs /\ alias' # None /\ alias' = local["main"].cfg
        /\ plan' = plan /\ selector' = selector /\ dropin' = dropin /\ unit' = unit
    BY <1>1, <1>6, DevelopmentAssumption DEF Select, Control, Known
  <2>4. Staged'
    BY <1>1, <2>2, <2>3, MainMoves DEF IInv, Staged
  <2>5. ActivateOK' /\ AppliedIsSelected'
    <3>1. cmd'["main"] \in {"activate", "reactivate"} => Starting'
      BY DEF Starting
    <3>2. plan.state # "applied"
      BY <1>1 DEF IInv, ActivateOK
    <3> QED BY <1>1, <2>1, <2>2, <2>3, <3>1, <3>2, MainMoves DEF ActivateOK, AppliedIsSelected, Config
  <2>6. HandoffOK'
    BY <1>1, <2>2, MainMoves, HandoffWaits DEF IInv
  <2>7. MainOK' /\ ReadyMatches'
    BY <1>1, <1>6, <2>1, <2>2, MainLeavesNetwork DEF Select, network, host, containers, Place
  <2>8. DataOK' /\ RoutedIsRegistered'
    BY <1>6, <2>3 DEF Select, IInv, DataOK, RoutedIsRegistered, Applied, counts, network,
       host, containers, uidview, handedOff, Chosen
  <2> QED BY <2>2, <2>4, <2>5, <2>6, <2>7, <2>8 DEF IInv
<1> QED BY <1>2, <1>3, <1>4, <1>5, <1>6

\* The first steps of a start, up to the new readiness.
LEMMA PrepareSteps ==
  ASSUME IInv, lock = "main",
         Prepare \/ Render \/ Install \/ Unready("main") \/ Unlink("main") \/ Mapper
  PROVE  IInv'
<1>1. Working("main") /\ Fits("main", local["main"]) /\ Control /\ Config \in Configs
  BY MainPlaces, Inside DEF IInv, Prepare, Render, Install, Unready, Unlink, Mapper, Working, Fits, Procs,
     Starting, Control, Known, Config
<1>2. at["main"] \in 1..19
  BY <1>1, Inside DEF Procs
<1>3. CASE Prepare
  <2>1. Starting /\ Place = 1
    BY <1>1, <1>3, MainPlaces DEF Prepare
  <2>2. Control' /\ Moves("main", local["main"])
    BY <1>1, <1>3, Proceeded DEF Prepare, Procs
  <2>3. Staged' /\ ActivateOK' /\ HandoffOK' /\ AppliedIsSelected'
    BY <1>1, <1>2, <1>3, <2>1, <2>2, MainLeavesFiles DEF Prepare, handedOff, Place
  <2>4. MainOK' /\ ReadyMatches'
    BY <1>1, <1>3, <2>1, <2>2, MainLeavesNetwork DEF Prepare, network, host, containers
  <2>5. DataOK' /\ RoutedIsRegistered'
    BY <1>1, <1>3 DEF Prepare, IInv, DataOK, RoutedIsRegistered, Applied, counts, startup, network,
       host, containers, uidview, handedOff, Config
  <2> QED BY <2>2, <2>3, <2>4, <2>5 DEF IInv
<1>4. CASE Render
  <2>1. Starting /\ Place = 2
    BY <1>1, <1>4, MainPlaces DEF Render
  <2>2. Control' /\ Moves("main", local["main"])
    BY <1>1, <1>4, Proceeded DEF Render, Procs
  <2>3. Staged' /\ ActivateOK' /\ HandoffOK' /\ AppliedIsSelected'
    BY <1>1, <1>2, <1>4, <2>1, <2>2, MainLeavesFiles DEF Render, handedOff, Place
  <2>4. MainOK'
    BY <1>1, <1>4, <2>1, <2>2, MainMoves DEF Render, MainOK, Config
  <2>5. DataOK' /\ RoutedIsRegistered' /\ ReadyMatches'
    BY <1>1, <1>4 DEF Render, IInv, DataOK, RoutedIsRegistered, ReadyMatches, Applied, counts, startup,
       network, host, containers, uidview, handedOff, Config
  <2> QED BY <2>2, <2>3, <2>4, <2>5 DEF IInv
<1>5. CASE Install
  <2>1. Starting /\ Place = 3
    BY <1>1, <1>5, MainPlaces DEF Install
  <2>2. Control' /\ Moves("main", local["main"])
    BY <1>1, <1>5, Proceeded DEF Install, Procs
  <2>3. unit' \in Configs \union {"alias"} /\ (unit' = "alias" => selector) /\ UNCHANGED startup
    BY <1>1, <1>5, DevelopmentAssumption DEF Install, UnitFor, Config
  <2>4. Staged'
    BY <1>1, <2>2, <2>3, MainMoves DEF IInv, Staged, startup
  <2>5. ActivateOK' /\ AppliedIsSelected'
    <3>1. cmd'["main"] \in {"activate", "reactivate"} => Starting'
      BY DEF Starting
    <3>2. cmd["main"] = "activate" => at["main"] = 8
      BY <1>2, <2>1 DEF Place
    <3> QED BY <1>1, <2>2, <2>3, <3>1, <3>2, MainMoves DEF IInv, ActivateOK, AppliedIsSelected, Config, startup
  <2>6. HandoffOK'
    BY <1>1, <2>2, MainMoves, HandoffWaits DEF IInv
  <2>7. MainOK' /\ ReadyMatches'
    BY <1>1, <1>5, <2>1, <2>2, MainLeavesNetwork DEF Install, network, containers
  <2>8. monitor' \in [state : {"off", "idle", "probing", "down"}, cfg : Chosen]
    BY <1>5 DEF Install, IInv, DataOK, Off, Chosen
  <2>9. DataOK' /\ RoutedIsRegistered'
    BY <1>5, <2>3, <2>8 DEF Install, IInv, DataOK, RoutedIsRegistered, Applied, counts, startup, network,
       containers, uidview, handedOff
  <2> QED BY <2>2, <2>4, <2>5, <2>6, <2>7, <2>9 DEF IInv
<1>6. CASE Unready("main")
  <2>1. (Starting /\ Place = 4) \/ (~Starting /\ cmd["main"] = "close")
    BY <1>1, <1>6, MainPlaces DEF Unready, Starting
  <2>2. Control' /\ Moves("main", local["main"])
    BY <1>1, <1>6, Proceeded DEF Unready, Procs
  <2>3. Staged' /\ ActivateOK' /\ HandoffOK' /\ AppliedIsSelected'
    BY <1>1, <1>2, <1>6, <2>1, <2>2, MainLeavesFiles DEF Unready, handedOff, files, Place
  <2>4. readiness' = [ok |-> FALSE, cfg |-> Config, phase |-> "none"]
    BY <1>6 DEF Unready, SetReadiness, Config
  <2>5. MainOK' /\ ReadyMatches'
    <3>1. UNCHANGED <<prepared, side>> /\ ~readiness'.ok
      BY <1>6, <2>4 DEF Unready, files, host, containers
    <3> QED BY <1>1, <2>1, <2>2, <3>1, MainMoves DEF IInv, MainOK, ReadyMatches, Config
  <2>6. DataOK' /\ RoutedIsRegistered'
    BY <1>1, <1>6, <2>4 DEF Unready, IInv, DataOK, RoutedIsRegistered, Applied, counts, files, startup,
       host, containers, uidview, handedOff
  <2> QED BY <2>2, <2>3, <2>5, <2>6 DEF IInv
<1>7. CASE Unlink("main")
  <2>1. (Starting /\ Place = 5) \/ (~Starting /\ cmd["main"] = "close")
    BY <1>1, <1>7, MainPlaces DEF Unlink, Starting
  <2>2. Control' /\ Moves("main", local["main"])
    BY <1>1, <1>7, Proceeded DEF Unlink, Procs
  <2>3. Staged' /\ ActivateOK' /\ HandoffOK' /\ AppliedIsSelected'
    BY <1>1, <1>2, <1>7, <2>1, <2>2, MainLeavesFiles DEF Unlink, handedOff, files, Place
  <2>4. MainOK' /\ ReadyMatches'
    BY <1>1, <1>7, <2>1, <2>2, MainLeavesNetwork DEF Unlink, files, host, containers
  <2>5. DataOK' /\ RoutedIsRegistered'
    <3>1. lease' \in BOOLEAN
      BY <1>7 DEF Unlink
    <3> QED BY <1>7, <3>1 DEF Unlink, IInv, DataOK, RoutedIsRegistered, Applied, counts, files, startup,
       host, containers, uidview, handedOff
  <2> QED BY <2>2, <2>3, <2>4, <2>5 DEF IInv
<1>8. CASE Mapper
  <2>1. Starting /\ Place = 6
    BY <1>1, <1>8, MainPlaces DEF Mapper
  <2>2. PICK known : Fits("main", known) /\ Control' /\ Moves("main", known)
    <3>1. Fits("main", [local["main"] EXCEPT !.changed = TRUE])
      BY <1>1 DEF Fits, Knowledge
    <3> QED BY <1>1, <1>8, <3>1, Proceeded, Learned DEF Mapper, Procs
  <2>3. Staged' /\ ActivateOK' /\ HandoffOK' /\ AppliedIsSelected'
    BY <1>1, <1>2, <1>8, <2>1, <2>2, MainLeavesFiles DEF Mapper, handedOff, files, Place
  <2>4. MainOK' /\ ReadyMatches'
    BY <1>1, <1>8, <2>1, <2>2, MainLeavesNetwork DEF Mapper, files, network, containers
  <2>5. DataOK' /\ RoutedIsRegistered'
    <3>1. mapper' \in BOOLEAN
      BY <1>8 DEF Mapper, IInv, DataOK, uidview
    <3>2. mount \in Nat /\ mount' \in {mount, mount + 1}
      BY <1>8 DEF Mapper, IInv, DataOK, uidview
    <3> QED BY <1>8, <3>1, <3>2 DEF Mapper, IInv, DataOK, RoutedIsRegistered, Applied, counts, files, startup,
       network, containers, handedOff
  <2> QED BY <2>2, <2>3, <2>4, <2>5 DEF IInv
<1> QED BY <1>3, <1>4, <1>5, <1>6, <1>7, <1>8

\* The steps of a start that change containers and readiness.
LEMMA OpenSteps ==
  ASSUME IInv, lock = "main", UpSide \/ OpenNetwork \/ UpTarget
  PROVE  IInv'
<1>1. Working("main") /\ Fits("main", local["main"]) /\ Control /\ Starting /\ Config \in Configs
  BY MainPlaces, Inside DEF IInv, UpSide, OpenNetwork, UpTarget, Working, Fits, Procs, Starting, Control,
     Known, Config
<1>2. at["main"] \in 1..19 /\ (cmd["main"] = "activate" => Place = at["main"] - 5)
  BY <1>1, Inside DEF Procs, Place
<1>3. CASE UpSide
  <2>1. Place = 7
    BY <1>1, <1>3, MainPlaces DEF UpSide
  <2>2. Control' /\ Moves("main", local["main"])
    BY <1>1, <1>3, Proceeded DEF UpSide, Procs
  <2>3. prepared = Config /\ ~readiness.ok /\ tables' \in {tables, {}}
    BY <1>1, <1>3, <2>1 DEF IInv, MainOK, UpSide
  <2>4. Staged' /\ ActivateOK' /\ HandoffOK' /\ AppliedIsSelected'
    BY <1>1, <1>2, <1>3, <2>1, <2>2, <2>3, MainLeavesFiles DEF UpSide, files
  <2>5. MainOK' /\ ReadyMatches'
    <3>1. /\ UNCHANGED <<readiness, prepared>> /\ side'.cfg = prepared
          /\ readiness.ok \in BOOLEAN
      BY <1>3 DEF UpSide, files, network, IInv, DataOK
    <3> QED BY <1>1, <2>1, <2>2, <2>3, <3>1, MainMoves DEF MainOK, ReadyMatches, Config
  <2>6. DataOK' /\ RoutedIsRegistered'
    <3>1. side' \in [run : BOOLEAN, cfg : Chosen]
      BY <1>3 DEF UpSide, IInv, DataOK, Chosen
    <3> QED BY <1>3, <2>3, <3>1 DEF UpSide, IInv, DataOK, RoutedIsRegistered, Applied, counts, files,
       startup, network, uidview
  <2> QED BY <2>2, <2>4, <2>5, <2>6 DEF IInv
<1>4. CASE OpenNetwork
  <2>1. Place = 8
    BY <1>1, <1>4, MainPlaces DEF OpenNetwork
  <2>2. Control' /\ Moves("main", local["main"])
    BY <1>1, <1>4, Proceeded DEF OpenNetwork, Procs
  <2>3. Staged' /\ ActivateOK' /\ HandoffOK' /\ AppliedIsSelected'
    BY <1>1, <1>2, <1>4, <2>1, <2>2, MainLeavesFiles DEF OpenNetwork, files, handedOff
  <2>4. readiness' = [ok |-> TRUE, cfg |-> Config, phase |-> "network-ready"]
    BY <1>4 DEF OpenNetwork, SetReadiness, Config
  <2>5. MainOK' /\ ReadyMatches'
    <3>1. /\ UNCHANGED <<prepared, side>> /\ side.cfg = Config /\ prepared = Config
          /\ readiness'.phase = "network-ready" /\ readiness'.cfg = Config
      BY <1>1, <1>4, <2>1, <2>4 DEF OpenNetwork, files, host, containers, IInv, MainOK
    <3> QED BY <1>1, <2>1, <2>2, <3>1, MainMoves DEF MainOK, ReadyMatches, Config
  <2>6. DataOK' /\ RoutedIsRegistered'
    BY <1>1, <1>4, <2>4 DEF OpenNetwork, IInv, DataOK, RoutedIsRegistered, Applied, counts, files, startup,
       host, containers, uidview, handedOff
  <2> QED BY <2>2, <2>3, <2>5, <2>6 DEF IInv
<1>5. CASE UpTarget
  <2>1. Place = 11
    BY <1>1, <1>5, MainPlaces DEF UpTarget
  <2>2. Control' /\ Moves("main", local["main"])
    BY <1>1, <1>5, Proceeded DEF UpTarget, Procs
  <2>3. Staged' /\ ActivateOK' /\ HandoffOK' /\ AppliedIsSelected'
    BY <1>1, <1>2, <1>5, <2>1, <2>2, MainLeavesFiles DEF UpTarget, files, handedOff
  <2>4. MainOK' /\ ReadyMatches'
    <3>1. /\ UNCHANGED <<prepared, readiness, side>>
          /\ readiness.phase = "network-ready" /\ side.cfg = Config /\ prepared = Config
      BY <1>1, <1>5, <2>1 DEF UpTarget, files, network, IInv, MainOK
    <3> QED BY <1>1, <2>1, <2>2, <3>1, MainMoves DEF IInv, MainOK, ReadyMatches, Config
  <2>5. DataOK' /\ RoutedIsRegistered'
    <3>1. PICK m : target' = [run |-> TRUE, cfg |-> prepared, mount |-> m] /\ m \in {target.mount, mount, 0}
      BY <1>5 DEF UpTarget
    <3>2. target.mount \in Nat /\ mount \in Nat /\ prepared \in Configs
      BY DEF IInv, DataOK
    <3>3. target' \in [run : BOOLEAN, cfg : Chosen, mount : Nat]
      BY <3>1, <3>2 DEF Chosen
    <3>4. replaced' \in BOOLEAN
      BY <1>5 DEF UpTarget
    <3> QED BY <1>5, <3>3, <3>4 DEF UpTarget, IInv, DataOK, RoutedIsRegistered, Applied, files, startup,
       network, uidview, handedOff
  <2> QED BY <2>2, <2>3, <2>4, <2>5 DEF IInv
<1> QED BY <1>3, <1>4, <1>5

\* The other steps of a start.
LEMMA FinishSteps ==
  ASSUME IInv, lock = "main",
         Verify \/ EnableMonitor \/ GateFails \/ IdentityFails("main") \/ EnableTimer \/ Entries
  PROVE  IInv'
<1>1. Control
  BY DEF IInv
<1>2. Starting /\ Place \in 9..13
  BY <1>1, MainPlaces DEF Verify, EnableMonitor, GateFails, IdentityFails, EnableTimer, Entries, Starting
<1>3. Working("main") /\ Fits("main", local["main"])
  BY <1>1, <1>2, Inside DEF Working, Fits, Procs, Starting
<1>4. Control' /\ Moves("main", local["main"])
  BY <1>1, <1>3, Proceeded DEF Verify, EnableMonitor, GateFails, IdentityFails, EnableTimer, Entries, Procs
<1>5. UNCHANGED <<counts, files, readiness, containers, uidview, handedOff>>
  BY DEF Verify, EnableMonitor, GateFails, IdentityFails, EnableTimer, Entries, rest, files, network, host,
     handedOff
<1>6. Staged' /\ ActivateOK' /\ HandoffOK' /\ AppliedIsSelected'
  <2>1. at["main"] \in 1..19
    BY <1>1, Inside DEF Procs
  <2> QED BY <1>2, <1>3, <1>4, <1>5, <2>1, MainLeavesFiles DEF files, handedOff, Place
<1>7. MainOK' /\ ReadyMatches'
  BY <1>2, <1>3, <1>4, <1>5, MainLeavesNetwork DEF files, containers
<1>8. lease' \in BOOLEAN /\ timer' \in BOOLEAN
  BY DEF Verify, EnableMonitor, GateFails, IdentityFails, EnableTimer, Entries, rest, network, host, IInv, DataOK
<1>9. monitor' \in [state : {"off", "idle", "probing", "down"}, cfg : Chosen]
  <2>1. monitor' = monitor \/ monitor' = [state |-> "idle", cfg |-> watched]
    BY DEF Verify, EnableMonitor, GateFails, IdentityFails, EnableTimer, Entries, rest, host
  <2> QED BY <2>1 DEF IInv, DataOK, Chosen
<1>10. DataOK' /\ RoutedIsRegistered'
  BY <1>5, <1>8, <1>9 DEF IInv, DataOK, RoutedIsRegistered, Applied, counts, files, startup, containers,
     uidview, handedOff
<1> QED BY <1>4, <1>6, <1>7, <1>10 DEF IInv

\* The last step records what was selected.
LEMMA RecordStep ==
  ASSUME IInv, lock = "main", RecordApplied
  PROVE  IInv'
<1>1. Control /\ cmd["main"] \in {"activate", "reactivate"} /\ Place = 14
  BY MainPlaces DEF IInv, RecordApplied
<1>2. Working("main") /\ Fits("main", local["main"]) /\ at["main"] \in 1..19
  BY <1>1, Inside DEF Working, Fits, Procs
<1>3. Control' /\ Moves("main", local["main"])
  BY <1>1, <1>2, Proceeded DEF RecordApplied, Procs
<1>4. ~Starting'
  <2>1. at["main"] = Len(Plan[cmd["main"]])
    <3>1. CASE cmd["main"] = "activate"
      BY <1>1, <1>2, <3>1, Lengths DEF Place
    <3>2. CASE cmd["main"] = "reactivate"
      BY <1>1, <1>2, <3>2, Lengths DEF Place
    <3> QED BY <1>1, <3>1, <3>2
  <2>2. ~Advances("main", local["main"])
    BY <1>2, <2>1 DEF Advances
  <2> QED BY <1>3, <2>2 DEF Moves, Ends, Unwinds, Starting
<1>5. alias = Config /\ local["main"].plan.candidate = Config /\ Config \in Configs /\ Config # None
  <2>1. cmd["main"] = "activate" => at["main"] = 19
    BY <1>1, <1>2 DEF Place
  <2> QED BY <1>1, <2>1, DevelopmentAssumption DEF IInv, ActivateOK, Control, Known, Config
<1>6. plan' \in Plans /\ plan'.state = "applied" /\ plan'.candidate = Config
  BY <1>2, <1>5 DEF RecordApplied, Fits, Knowledge, Plans
<1>7. UNCHANGED <<alias, selector, dropin, unit, prepared>>
  BY DEF RecordApplied
<1>8. Staged'
  BY <1>1, <1>2, <1>3, <1>5, <1>6, <1>7, MainMoves DEF IInv, Staged
<1>9. AppliedIsSelected' /\ ActivateOK' /\ MainOK'
  BY <1>4, <1>5, <1>6, <1>7 DEF AppliedIsSelected, ActivateOK, MainOK, Starting
<1>10. HandoffOK'
  BY <1>1, <1>2, <1>3, MainMoves, HandoffWaits DEF IInv
<1>11. DataOK' /\ RoutedIsRegistered' /\ ReadyMatches'
  BY <1>6 DEF RecordApplied, IInv, DataOK, RoutedIsRegistered, ReadyMatches, Applied, counts, network,
     host, containers, uidview, handedOff
<1> QED BY <1>3, <1>8, <1>9, <1>10, <1>11 DEF IInv

\* Every step of main keeps the invariant.
LEMMA MainKeeps == ASSUME IInv, MainStep PROVE IInv'
BY RetireSteps, PrepareSteps, OpenSteps, FinishSteps, RecordStep DEF MainStep

-----------------------------------------------------------------------------
(* The other processes *)

\* Without the lock, main claims only what it has read and selected,
LEMMA MainWaits ==
  ASSUME IInv, lock # "main", cmd'["main"] = cmd["main"], at'["main"] = at["main"],
         local'["main"] = local["main"], plan'.state # "applied" \/ plan' = plan, alias # None => alias' = alias
  PROVE  MainOK' /\ ActivateOK'
<1>1. at["main"] = 1 \/ ~Starting
  BY Inside DEF IInv, Control, Holding, Procs, Starting
<1>2. cmd["main"] # "none" => local["main"].cfg \in Configs
  BY DEF IInv, Control, Known
<1>3. MainOK'
  BY <1>1 DEF MainOK, Starting, Place
<1>4. cmd["main"] = "reactivate" => alias' = Config
  BY <1>2, DevelopmentAssumption DEF IInv, ActivateOK, Config
<1>5. at["main"] \in 1..19
  BY Inside DEF IInv, Procs
<1> QED BY <1>1, <1>3, <1>4, <1>5 DEF IInv, ActivateOK, Starting, Config

\* The health check: it claims nothing of its own.
LEMMA HealthKeeps == ASSUME IInv, HealthStep PROVE IInv'
<1>1. Control /\ lock = "health"
  BY DEF IInv, HealthStep
<1>2. cmd["health"] # "none" /\ Working("health") /\ Fits("health", local["health"])
  <2>1. cmd["health"] # "none"
    BY <1>1, OtherPlaces DEF HealthStep, Inspect, CheckMapper, IdentityFails, Conclude, Unready, Unlink
  <2> QED BY <1>1, <2>1, Inside DEF Working, Fits, Procs
<1>3. Control' /\ Stay("health")
  <2>1. CASE Inspect /\ ~target.run
    <3>1. Leave("health") /\ UNCHANGED <<faults, failed>>
      BY <2>1 DEF Inspect
    <3>2. ControlTypes' /\ Moves("health", local["health"])
      BY <1>1, <3>1, Leaves DEF Moves, Procs
    <3> QED BY <1>1, <1>2, <3>1, <3>2, ControlAfter DEF Control, Moves, Procs
  <2>2. CASE CheckMapper /\ ~mapper
    <3>1. Goto("health", "close", local["health"]) /\ UNCHANGED <<faults, failed>>
      BY <2>2 DEF CheckMapper
    <3>2. "close" \in DOMAIN Plan /\ cmd["health"] = "health"
      BY <1>1, <2>2, OtherPlans, OtherPlaces DEF CheckMapper
    <3>3. ControlTypes' /\ Moves("health", local["health"])
      BY <1>1, <1>2, <3>1, <3>2, Gotos DEF Moves, Unwinds, Fits, Procs
    <3> QED BY <1>1, <1>2, <3>1, <3>3, ControlAfter DEF Control, Moves, Procs
  <2>3. CASE ~(Inspect /\ ~target.run) /\ ~(CheckMapper /\ ~mapper)
    <3>1. Go("health") \/ Proceed("health") \/ Refuse("health")
      BY <2>3 DEF HealthStep, Inspect, CheckMapper, IdentityFails, Conclude, Unready, Unlink
    <3> QED BY <1>1, <1>2, <3>1, Proceeded DEF Moves, Procs
  <2> QED BY <2>1, <2>2, <2>3
<1>4. /\ \A q \in {"main", "stage", "handoff"} : cmd'[q] = cmd[q] /\ at'[q] = at[q] /\ local'[q] = local[q]
      /\ cmd["handoff"] # "rollback" /\ at["handoff"] = 1
  BY <1>1, <1>3, Inside DEF Stay, Procs, Control, Holding
<1>5. UNCHANGED <<counts, files, host, handedOff>>
  BY DEF HealthStep, Inspect, CheckMapper, IdentityFails, Conclude, Unready, Unlink, rest
<1>6. Staged' /\ MainOK' /\ ActivateOK' /\ HandoffOK' /\ RoutedIsRegistered' /\ AppliedIsSelected'
  <2>1. MainOK' /\ ActivateOK'
    BY <1>1, <1>4, <1>5, MainWaits DEF files, startup
  <2>2. HandoffOK'
    BY <1>4, HandoffWaits DEF IInv
  <2> QED BY <1>4, <1>5, <2>1, <2>2 DEF IInv, Staged, RoutedIsRegistered, Applied, AppliedIsSelected, files,
     startup, handedOff
<1>7. /\ readiness' \in [ok : BOOLEAN, cfg : Configs, phase : {"none", "network-ready", "ready"}]
      /\ ReadyMatches'
  <2>1. local["health"].cfg \in Configs
    BY <1>1, <1>2 DEF Control, Known
  <2>2. \/ readiness' = readiness
        \/ readiness' = [ok |-> FALSE, cfg |-> local["health"].cfg, phase |-> "none"]
        \/ /\ readiness' = [ok |-> TRUE, cfg |-> local["health"].cfg, phase |-> "ready"]
           /\ target.cfg = local["health"].cfg
    BY DEF HealthStep, Inspect, CheckMapper, IdentityFails, Conclude, Unready, Unlink, rest, network,
       SetReadiness
  <2>3. UNCHANGED <<side, target>>
    BY <1>5 DEF host, containers
  <2>4. CASE readiness' = readiness
    BY <2>3, <2>4 DEF IInv, DataOK, ReadyMatches
  <2>5. CASE readiness' = [ok |-> FALSE, cfg |-> local["health"].cfg, phase |-> "none"]
    BY <2>1, <2>5 DEF ReadyMatches
  <2>6. CASE /\ readiness' = [ok |-> TRUE, cfg |-> local["health"].cfg, phase |-> "ready"]
             /\ target.cfg = local["health"].cfg
    BY <2>1, <2>3, <2>6 DEF ReadyMatches
  <2> QED BY <2>2, <2>4, <2>5, <2>6
<1>8. lease' \in BOOLEAN
  BY DEF HealthStep, Inspect, CheckMapper, IdentityFails, Conclude, Unready, Unlink, rest, network, IInv, DataOK
<1>9. DataOK'
  BY <1>5, <1>7, <1>8 DEF IInv, DataOK, counts, files, startup, host, containers, uidview, handedOff
<1> QED BY <1>3, <1>6, <1>7, <1>9 DEF IInv

\* stage writes its files whatever the others do meanwhile.
LEMMA StageKeeps == ASSUME IInv, StageStep PROVE IInv'
<1>1. Control
  BY DEF IInv
<1>2. /\ cmd["stage"] = "stage" /\ at["stage"] \in 1..5 /\ Working("stage") /\ Fits("stage", local["stage"])
      /\ local["stage"].plan.state = "staged" /\ local["stage"].plan.current \in Configs
      /\ local["stage"].plan.candidate \in Configs
  <2>1. cmd["stage"] = "stage" /\ at["stage"] \in 1..5
    BY <1>1, OtherPlaces DEF StageStep, Choose, WritePlan, WriteSelector, WriteDropin, Confirm
  <2> QED BY <1>1, <2>1, Inside DEF Working, Fits, Procs, Control, Known
<1>3. Control' /\ Moves("stage", local["stage"])
  BY <1>1, <1>2, Proceeded DEF StageStep, Choose, WritePlan, WriteSelector, WriteDropin, Confirm, Procs
<1>4. /\ \A q \in {"main", "handoff"} : cmd'[q] = cmd[q] /\ at'[q] = at[q] /\ local'[q] = local[q]
      /\ cmd'["stage"] = "stage" => at'["stage"] = at["stage"] + 1
  BY <1>3 DEF Moves, Stay, Ends, Advances, Unwinds, Procs
<1>5. UNCHANGED <<commands, unit, watched, prepared, network, host, handedOff>>
  BY DEF StageStep, Choose, WritePlan, WriteSelector, WriteDropin, Confirm, counts
<1>6. plan' = plan \/ plan' = local["stage"].plan
  BY DEF StageStep, Choose, WritePlan, WriteSelector, WriteDropin, Confirm
<1>7. /\ alias' \in Chosen /\ (alias # None => alias' = alias)
      /\ alias' # alias => alias' \in Configs
  BY <1>2 DEF StageStep, Choose, WritePlan, WriteSelector, WriteDropin, Confirm, IInv, DataOK, Chosen
<1>8. Staged'
  <2>1. None \notin Configs
    BY DevelopmentAssumption
  <2>2. CASE Choose
    <3>1. at["stage"] = 1
      BY <1>1, <2>2, OtherPlaces DEF Choose
    <3>2. /\ UNCHANGED <<plan, selector, dropin>>
          /\ cmd'["stage"] = "stage" => alias' # None
      <4>1. UNCHANGED <<plan, selector, dropin>>
        BY <2>2 DEF Choose
      <4>2. CASE alias \in {None, local["stage"].plan.current} /\ alias' = local["stage"].plan.current
        BY <1>2, <2>1, <4>1, <4>2
      <4>3. CASE Refuse("stage")
        <5>1. Except("stage", local["stage"])
          BY <4>3 DEF Refuse, Raise
        <5>2. Ends("stage") \/ Unwinds("stage", local["stage"])
          BY <1>1, <1>2, <5>1, Excepts DEF Fits, Procs
        <5> QED BY <4>1, <5>2 DEF Ends, Unwinds
      <4> QED BY <2>2, <4>2, <4>3 DEF Choose
    <3> QED BY <1>4, <1>5, <1>7, <2>1, <3>1, <3>2 DEF IInv, Staged
  <2>3. CASE WritePlan
    <3>1. at["stage"] = 2
      BY <1>1, <2>3, OtherPlaces DEF WritePlan
    <3>2. UNCHANGED <<alias, selector, dropin>> /\ plan' = local["stage"].plan
      BY <2>3 DEF WritePlan
    <3> QED BY <1>2, <1>4, <1>5, <3>1, <3>2 DEF IInv, Staged
  <2>4. CASE WriteSelector
    <3>1. at["stage"] = 3
      BY <1>1, <2>4, OtherPlaces DEF WriteSelector
    <3>2. UNCHANGED <<alias, plan, dropin>>
      BY <2>4 DEF WriteSelector
    <3> QED BY <1>2, <1>4, <1>5, <3>1, <3>2 DEF IInv, Staged
  <2>5. CASE WriteDropin
    <3>1. at["stage"] = 4
      BY <1>1, <2>5, OtherPlaces DEF WriteDropin
    <3>2. UNCHANGED <<alias, plan, selector>>
      BY <2>5 DEF WriteDropin
    <3> QED BY <1>2, <1>4, <1>5, <3>1, <3>2 DEF IInv, Staged
  <2>6. CASE Confirm
    <3>1. at["stage"] = 5
      BY <1>1, <2>6, OtherPlaces DEF Confirm
    <3>2. UNCHANGED <<alias, selector, dropin>>
      BY <2>6 DEF Confirm
    <3> QED BY <1>2, <1>4, <1>5, <1>6, <3>1, <3>2 DEF IInv, Staged
  <2> QED BY <2>2, <2>3, <2>4, <2>5, <2>6 DEF StageStep
<1>9. MainOK' /\ HandoffOK' /\ RoutedIsRegistered' /\ ReadyMatches'
  BY <1>4, <1>5 DEF IInv, MainOK, Starting, Place, Config, HandoffOK, Switched, RoutedIsRegistered, ReadyMatches,
     Applied, network, host, containers, handedOff
<1>10. ActivateOK' /\ AppliedIsSelected'
  <2>1. None \notin Configs /\ (plan.state = "applied" => plan.candidate \in Configs)
    BY DevelopmentAssumption DEF IInv, Staged
  <2>2. Starting => Config \in Configs
    BY <1>1 DEF Control, Known, Starting, Config
  <2>3. AppliedIsSelected'
    BY <1>2, <1>6, <1>7, <2>1 DEF IInv, AppliedIsSelected
  <2>4. ActivateOK'
    BY <1>2, <1>4, <1>5, <1>6, <1>7, <2>1, <2>2 DEF IInv, ActivateOK, Starting, Config, handedOff
  <2> QED BY <2>3, <2>4
<1>11. selector' \in BOOLEAN /\ dropin' \in BOOLEAN /\ replaced' \in BOOLEAN
  BY DEF StageStep, Choose, WritePlan, WriteSelector, WriteDropin, Confirm, IInv, DataOK, counts
<1>12. plan' \in Plans
  BY <1>2, <1>6 DEF IInv, DataOK, Fits, Knowledge
<1>13. DataOK'
  BY <1>5, <1>7, <1>11, <1>12 DEF IInv, DataOK, network, host, containers, uidview, handedOff
<1> QED BY <1>3, <1>8, <1>9, <1>10, <1>13 DEF IInv

-----------------------------------------------------------------------------
(* The handoff *)

\* The routes are those it has switched, and a switched route is registered.
Backed(switched) ==
    /\ tables \subseteq switched
    /\ switched # {} => Applied /\ manifest.listed /\ fwd = Forwarders

\* A handoff past its survey is backed, and so is its rollback.
LEMMA HandoffBacked ==
  ASSUME IInv, lock = "handoff", cmd["handoff"] = "handoff" => at["handoff"] >= 2, cmd["handoff"] # "none"
  PROVE  Backed(Switched)
<1>1. cmd["handoff"] \in {"handoff", "rollback"} /\ at["handoff"] \in 1..19
  BY Inside DEF IInv, Commands, Procs
<1>2. CASE cmd["handoff"] = "rollback"
  BY <1>2 DEF IInv, HandoffOK, Backed
<1>3. CASE cmd["handoff"] = "handoff"
  <2>1. Switched # {} => at["handoff"] >= 9
    BY <1>1, <1>3 DEF IInv, HandoffOK
  <2>2. at["handoff"] >= 9 => Applied /\ manifest.listed /\ "web" \in fwd /\ "dns" \in fwd
    BY <1>1, <1>3 DEF IInv, HandoffOK
  <2>3. fwd \subseteq Forwarders
    BY DEF IInv, DataOK
  <2> QED BY <1>3, <2>1, <2>2, <2>3 DEF IInv, HandoffOK, Backed, Forwarders
<1> QED BY <1>1, <1>2, <1>3

\* How a handoff moves.
LEMMA HandoffMoves ==
  ASSUME Control, lock = "handoff", NEW known, Fits("handoff", known), Moves("handoff", known)
  PROVE  /\ cmd'["handoff"] = "handoff" => /\ cmd["handoff"] = "handoff"
                                           /\ at'["handoff"] = at["handoff"] + 1
                                           /\ Switched' = known.switched
         /\ cmd'["handoff"] = "rollback" => /\ cmd["handoff"] = "handoff" => at["handoff"] >= 3
                                            /\ Switched' = known.switched
         /\ \A q \in {"main", "stage"} : cmd'[q] = cmd[q] /\ at'[q] = at[q] /\ local'[q] = local[q]
         /\ at["handoff"] \in 1..19
<1>1. at["handoff"] \in 1..19 /\ cmd["handoff"] \in {"none", "handoff", "rollback"}
  BY Inside DEF Commands, Procs
<1>2. Switched' = local'["handoff"].switched
  BY DEF Switched
<1>3. CASE Ends("handoff")
  BY <1>1, <1>3 DEF Moves, Stay, Ends, Procs
<1>4. CASE Advances("handoff", known)
  BY <1>1, <1>2, <1>4 DEF Moves, Stay, Advances, Procs
<1>5. CASE Unwinds("handoff", known)
  BY <1>1, <1>2, <1>5 DEF Moves, Stay, Unwinds, Procs
<1> QED BY <1>3, <1>4, <1>5 DEF Moves

\* A handoff leaves to the others what is theirs.
LEMMA HandoffLeaves ==
  ASSUME IInv, lock = "handoff", NEW known, Fits("handoff", known), Moves("handoff", known),
         UNCHANGED <<files, network, host>>
  PROVE  Staged' /\ MainOK' /\ ActivateOK' /\ ReadyMatches' /\ AppliedIsSelected'
<1>1. MainOK' /\ ActivateOK'
  BY HandoffMoves, MainWaits DEF IInv, files, startup
<1>2. Staged'
  BY HandoffMoves DEF IInv, Staged, files, startup
<1> QED BY <1>1, <1>2 DEF IInv, ReadyMatches, AppliedIsSelected, files, startup, network, host, containers

\* A process knows what it knew.
LEMMA Remembers ==
  ASSUME Control, NEW p \in Procs, cmd[p] # "none", p = "stage" \/ lock = p
  PROVE  Working(p) /\ Fits(p, local[p])
BY Inside DEF Working, Fits

\* The survey refuses a handoff after another one.
LEMMA SurveyStep == ASSUME IInv, lock = "handoff", Survey PROVE IInv'
<1>1. Control /\ cmd["handoff"] = "handoff" /\ at["handoff"] = 1
  BY OtherPlaces DEF IInv, Survey
<1>2. Working("handoff") /\ Fits("handoff", local["handoff"])
  BY <1>1, Remembers DEF Procs
<1>3. Control' /\ Moves("handoff", local["handoff"])
  BY <1>1, <1>2, Proceeded DEF Survey, Procs
<1>4. UNCHANGED <<counts, rest>>
  BY DEF Survey
<1>5. Staged' /\ MainOK' /\ ActivateOK' /\ ReadyMatches' /\ AppliedIsSelected'
  BY <1>2, <1>3, <1>4, HandoffLeaves DEF rest
<1>6. DataOK' /\ RoutedIsRegistered'
  BY <1>4 DEF IInv, DataOK, RoutedIsRegistered, Applied, counts, rest, files, startup, network, host, containers,
     uidview, handedOff
<1>7. cmd'["handoff"] # "rollback"
  BY <1>1, <1>2, <1>3, HandoffMoves
<1>8. cmd'["handoff"] = "handoff" => tables = {}
  <2>1. CASE manifest.state = "absent"
    BY <2>1 DEF IInv, RoutedIsRegistered, Applied
  <2>2. CASE manifest.state # "absent"
    <3>1. Except("handoff", local["handoff"])
      BY <2>2 DEF Survey, Refuse, Raise
    <3>2. Ends("handoff") \/ Unwinds("handoff", local["handoff"])
      BY <1>1, <1>2, <3>1, Excepts DEF Fits, Procs
    <3> QED BY <3>2 DEF Ends, Unwinds
  <2> QED BY <2>1, <2>2
<1>9. HandoffOK'
  <2>1. /\ Switched = {} /\ tables' = tables
        /\ cmd'["handoff"] = "handoff" => at'["handoff"] = 2 /\ Switched' = Switched
    BY <1>1, <1>2, <1>3, <1>4, HandoffMoves DEF IInv, HandoffOK, rest, handedOff, Switched
  <2> QED BY <1>7, <1>8, <2>1 DEF HandoffOK
<1> QED BY <1>3, <1>5, <1>6, <1>9 DEF IInv

\* What the manifest of a handoff may hold.
Manifests == [state : {"absent", "failed", "applied", "retired"}, listed : BOOLEAN]

\* The steps up to the registration: no route exists yet.
LEMMA RegisterSteps ==
  ASSUME IInv, lock = "handoff", Register \/ CreateForwarder \/ List \/ Probe \/ Commit
  PROVE  IInv'
<1>1. Control
  BY DEF IInv
<1>2. cmd["handoff"] = "handoff" /\ at["handoff"] \in 2..7
  <2>1. \/ At("handoff", "register") \/ At("handoff", "createWeb") \/ At("handoff", "createDns")
        \/ At("handoff", "list") \/ At("handoff", "probe") \/ At("handoff", "commit")
    BY DEF Register, CreateForwarder, List, Probe, Commit
  <2> QED BY <1>1, <2>1, OtherPlaces
<1>3. Working("handoff") /\ Fits("handoff", local["handoff"])
  BY <1>1, <1>2, Remembers DEF Procs
<1>4. Control' /\ Moves("handoff", local["handoff"])
  BY <1>1, <1>3, Proceeded DEF Register, CreateForwarder, List, Probe, Commit, Procs
<1>5. UNCHANGED <<counts, files, network, host, tables>>
  BY DEF Register, CreateForwarder, List, Probe, Commit, rest, handedOff
<1>6. Staged' /\ MainOK' /\ ActivateOK' /\ ReadyMatches' /\ AppliedIsSelected'
  BY <1>3, <1>4, <1>5, HandoffLeaves
<1>7. Switched = {} /\ tables = {} /\ tables' = {}
  BY <1>2, <1>5 DEF IInv, HandoffOK
<1>8. /\ fwd' \subseteq Forwarders
      /\ manifest' \in [state : {"absent", "failed", "applied", "retired"}, listed : BOOLEAN]
  <2>1. /\ fwd' \subseteq fwd \union Forwarders
        /\ manifest' \in {manifest, [state |-> "failed", listed |-> FALSE], [state |-> "failed", listed |-> TRUE],
                          [state |-> "applied", listed |-> TRUE]}
    BY DEF Register, CreateForwarder, List, Probe, Commit, SetManifest, Forwarders, rest, handedOff
  <2>2. /\ [state |-> "failed", listed |-> FALSE] \in Manifests /\ [state |-> "failed", listed |-> TRUE] \in Manifests
        /\ [state |-> "applied", listed |-> TRUE] \in Manifests
    BY DEF Manifests
  <2>3. manifest \in Manifests /\ fwd \subseteq Forwarders
    BY DEF IInv, DataOK, Manifests
  <2>4. manifest' \in Manifests
    BY <2>1, <2>2, <2>3
  <2> QED BY <2>1, <2>3, <2>4 DEF Manifests
<1>9. DataOK' /\ RoutedIsRegistered'
  BY <1>5, <1>7, <1>8 DEF IInv, DataOK, RoutedIsRegistered, counts, files, startup, network, host, containers,
     uidview
<1>10. /\ cmd'["handoff"] = "rollback" => Switched' = {}
       /\ cmd'["handoff"] = "handoff" => Switched' = {} /\ at'["handoff"] = at["handoff"] + 1
  BY <1>1, <1>3, <1>4, <1>7, HandoffMoves DEF Switched
<1>11. /\ at["handoff"] >= 3 => "web" \in fwd'
       /\ at["handoff"] >= 4 => "dns" \in fwd'
       /\ at["handoff"] >= 5 => manifest'.listed
       /\ at["handoff"] >= 7 => manifest'.state = "applied"
  <2>1. CASE Register
    <3>1. at["handoff"] = 2
      BY <1>1, <2>1, OtherPlaces DEF Register
    <3> QED BY <3>1
  <2>2. CASE CreateForwarder
    <3>1. \/ at["handoff"] = 3 /\ fwd' = fwd \union {"web"}
          \/ at["handoff"] = 4 /\ fwd' = fwd \union {"dns"}
      BY <1>1, <2>2, OtherPlaces DEF CreateForwarder
    <3> QED BY <1>2, <3>1 DEF IInv, HandoffOK
  <2>3. CASE List
    <3>1. at["handoff"] = 5 /\ fwd' = fwd /\ manifest'.listed
      BY <1>1, <2>3, OtherPlaces DEF List, SetManifest
    <3> QED BY <1>2, <3>1 DEF IInv, HandoffOK
  <2>4. CASE Probe
    <3>1. at["handoff"] = 6 /\ fwd' = fwd /\ manifest' = manifest
      BY <1>1, <2>4, OtherPlaces DEF Probe, rest, handedOff
    <3> QED BY <1>2, <3>1 DEF IInv, HandoffOK
  <2>5. CASE Commit
    <3>1. at["handoff"] = 7 /\ fwd' = fwd /\ manifest'.listed /\ manifest'.state = "applied"
      BY <1>1, <2>5, OtherPlaces DEF Commit, SetManifest
    <3> QED BY <1>2, <3>1 DEF IInv, HandoffOK
  <2> QED BY <2>1, <2>2, <2>3, <2>4, <2>5
<1>12. HandoffOK'
  BY <1>2, <1>7, <1>10, <1>11 DEF HandoffOK, Applied
<1> QED BY <1>4, <1>6, <1>9, <1>12 DEF IInv

\* The routes, of which every one that was added is known to the process.
LEMMA RouteStep == ASSUME IInv, lock = "handoff", Route PROVE IInv'
<1>1. Control /\ UNCHANGED <<counts, files, network, host, manifest, fwd>>
  BY DEF IInv, Route
<1>2. cmd["handoff"] = "handoff" /\ at["handoff"] \in 8..9
  BY <1>1, OtherPlaces DEF Route
<1>3. Working("handoff") /\ Fits("handoff", local["handoff"])
  BY <1>1, <1>2, Remembers DEF Procs
<1>4. Applied /\ manifest.listed /\ fwd = Forwarders /\ tables \subseteq Switched
  <2>1. "web" \in fwd /\ "dns" \in fwd /\ fwd \subseteq Forwarders
    BY <1>2 DEF IInv, HandoffOK, DataOK
  <2>2. Applied /\ manifest.listed /\ tables \subseteq Switched
    BY <1>2 DEF IInv, HandoffOK
  <2> QED BY <2>1, <2>2 DEF Forwarders
<1>5. Applied' /\ manifest'.listed /\ fwd' = Forwarders
  BY <1>1, <1>4 DEF Applied
<1>6. PICK known : /\ Fits("handoff", known) /\ Control' /\ Moves("handoff", known)
                   /\ tables' \subseteq known.switched /\ tables' \subseteq Roles
  <2>1. PICK role \in Roles :
          \/ /\ tables' = tables \union {role}
             /\ Learn("handoff", [local["handoff"] EXCEPT !.switched = @ \union {role}])
          \/ tables' = tables /\ Refuse("handoff")
    BY DEF Route
  <2>2. tables \subseteq Roles
    BY DEF IInv, DataOK
  <2>3. CASE tables' = tables /\ Refuse("handoff")
    <3>1. Control' /\ Moves("handoff", local["handoff"])
      BY <1>1, <1>3, <2>3, Proceeded DEF Procs
    <3> QED BY <1>3, <1>4, <2>2, <2>3, <3>1 DEF Switched
  <2>4. CASE /\ tables' = tables \union {role}
             /\ Learn("handoff", [local["handoff"] EXCEPT !.switched = @ \union {role}])
    <3> DEFINE known == [local["handoff"] EXCEPT !.switched = @ \union {role}]
    <3>1. Fits("handoff", known) /\ known.switched = Switched \union {role}
      BY <1>3 DEF Fits, Knowledge, Switched
    <3>2. Control' /\ Moves("handoff", known)
      BY <1>1, <1>3, <2>4, <3>1, Learned DEF Procs
    <3> QED BY <1>4, <2>2, <2>4, <3>1, <3>2
  <2> QED BY <2>1, <2>3, <2>4
<1>7. Staged' /\ MainOK' /\ ActivateOK' /\ ReadyMatches' /\ AppliedIsSelected'
  BY <1>1, <1>6, HandoffLeaves
<1>8. DataOK' /\ RoutedIsRegistered'
  BY <1>1, <1>5, <1>6 DEF IInv, DataOK, RoutedIsRegistered, counts, files, startup, network, host, containers,
     uidview
<1>9. HandoffOK'
  BY <1>1, <1>2, <1>5, <1>6, HandoffMoves DEF HandoffOK, Forwarders
<1> QED BY <1>6, <1>7, <1>8, <1>9 DEF IInv

\* The last step, and the rollback.
LEMMA RollbackSteps ==
  ASSUME IInv, lock = "handoff", Finish \/ Unroute \/ Discard \/ Unregister
  PROVE  IInv'
<1>1. Control /\ UNCHANGED <<counts, files, network, host>>
  BY DEF IInv, Finish, Unroute, Discard, Unregister
<1>2. \/ cmd["handoff"] = "handoff" /\ at["handoff"] = 10
      \/ cmd["handoff"] = "rollback"
  BY <1>1, OtherPlaces DEF Finish, Unroute, Discard, Unregister
<1>3. Working("handoff") /\ Fits("handoff", local["handoff"])
  BY <1>1, <1>2, Remembers DEF Procs
<1>4. Control' /\ Moves("handoff", local["handoff"])
  BY <1>1, <1>3, Proceeded DEF Finish, Unroute, Discard, Unregister, Procs
<1>5. Staged' /\ MainOK' /\ ActivateOK' /\ ReadyMatches' /\ AppliedIsSelected'
  BY <1>1, <1>3, <1>4, HandoffLeaves
<1>6. Backed(Switched)
  BY <1>2, HandoffBacked
<1>7. /\ cmd'["handoff"] # "handoff"
      /\ cmd'["handoff"] = "rollback" => Switched' = Switched
  <2>1. ~(Advances("handoff", local["handoff"]) /\ cmd["handoff"] = "handoff")
    <3>1. cmd["handoff"] = "handoff" => at["handoff"] = 10 /\ Len(Plan[cmd["handoff"]]) = 10
      BY <1>2, Lengths
    <3>2. Advances("handoff", local["handoff"]) => at["handoff"] < Len(Plan[cmd["handoff"]])
      BY DEF Advances
    <3>3. ~(10 < 10)
      OBVIOUS
    <3> QED BY <3>1, <3>2, <3>3
  <2>2. cmd'["handoff"] # "handoff"
    BY <1>2, <1>4, <2>1 DEF Moves, Ends, Advances, Unwinds
  <2> QED BY <1>1, <1>3, <1>4, <2>2, HandoffMoves DEF Switched
<1>8. /\ tables' \subseteq tables
      /\ Switched # {} => manifest'.state = "applied" /\ manifest'.listed /\ fwd' = fwd
  BY <1>6 DEF Finish, Unroute, Discard, Unregister, SetManifest, Backed, Applied, IInv, DataOK
<1>9. /\ fwd' \subseteq Forwarders
      /\ manifest' \in [state : {"absent", "failed", "applied", "retired"}, listed : BOOLEAN]
  <2>1. fwd' \subseteq fwd
    BY DEF Finish, Unroute, Discard, Unregister
  <2>2. \/ manifest' = manifest
        \/ \E x \in {"failed", "applied"}, b \in {TRUE, manifest.listed} : manifest' = [state |-> x, listed |-> b]
    BY DEF Finish, Unroute, Discard, Unregister, SetManifest
  <2>3. manifest.listed \in BOOLEAN
    BY DEF IInv, DataOK
  <2>4. \A x \in {"failed", "applied"}, b \in BOOLEAN : [state |-> x, listed |-> b] \in Manifests
    BY DEF Manifests
  <2>5. manifest \in Manifests /\ fwd \subseteq Forwarders
    BY DEF IInv, DataOK, Manifests
  <2>6. manifest' \in Manifests
    BY <2>2, <2>3, <2>4, <2>5
  <2> QED BY <2>1, <2>5, <2>6 DEF Manifests
<1>10. DataOK' /\ RoutedIsRegistered' /\ HandoffOK'
  BY <1>1, <1>6, <1>7, <1>8, <1>9 DEF IInv, DataOK, RoutedIsRegistered, HandoffOK, Applied, Backed, counts, files,
     startup, network, host, containers, uidview
<1> QED BY <1>4, <1>5, <1>10 DEF IInv

\* Every step of a handoff keeps the invariant.
LEMMA HandoffKeeps == ASSUME IInv, HandoffStep PROVE IInv'
BY SurveyStep, RegisterSteps, RouteStep, RollbackSteps DEF HandoffStep

-----------------------------------------------------------------------------
(* Processes that fail, are killed, wait and begin *)

\* A process that is no more leaves the control in order.
LEMMA ControlEnds ==
  ASSUME Control, NEW p \in Procs, Leave(p), faults' \in 0..MaxFaults, failed' \in BOOLEAN
  PROVE  Control' /\ Stay(p) /\ Ends(p)
<1>1. ControlTypes' /\ Stay(p) /\ Ends(p)
  BY Leaves
<1>2. \A q \in Procs \ {p} : InPlan(q)'
  BY <1>1 DEF Control, InPlan, Stay
<1>3. InPlan(p)'
  BY <1>1 DEF Ends, InPlan, Commands, Procs
<1>4. Known'
  BY <1>1 DEF Known, Control, Stay, Ends, Procs
<1>5. Holding'
  <2>1. \A q \in Procs \ {p} : at'[q] = at[q] /\ cmd'[q] = cmd[q] /\ (lock = q => lock' = q)
    BY <1>1 DEF Stay, Ends
  <2> QED BY <1>1, <2>1 DEF Ends, Holding, Control, Procs
<1> QED BY <1>1, <1>2, <1>3, <1>4, <1>5 DEF Control, ControlTypes

\* Whatever stops a process, the files and the host are as its place says.
LEMMA Stopped ==
  ASSUME IInv, NEW p \in Procs, Stay(p), Control', UNCHANGED <<counts, rest>>,
         Ends(p) \/ (Unwinds(p, local[p]) /\ Working(p))
  PROVE  IInv'
<1>1. cmd'[p] \in {"none", "close", "rollback"}
  BY DEF Ends, Unwinds
<1>2. \A q \in Procs \ {p} : cmd'[q] = cmd[q] /\ at'[q] = at[q] /\ local'[q] = local[q]
  BY DEF Stay
<1>3. Staged'
  <2>1. cmd'["stage"] = "stage" => cmd["stage"] = "stage" /\ at'["stage"] = at["stage"]
    BY <1>1, <1>2 DEF Procs
  <2> QED BY <2>1 DEF IInv, Staged, rest, files, startup
<1>4. MainOK' /\ ActivateOK'
  <2>1. Starting' => /\ cmd'["main"] = cmd["main"] /\ at'["main"] = at["main"]
                     /\ local'["main"] = local["main"]
    BY <1>1, <1>2 DEF Starting, Procs
  <2>2. MainOK'
    <3>1. Starting' => Starting /\ Place' = Place
      BY <2>1 DEF Starting, Place
    <3> QED BY <2>1, <3>1 DEF IInv, MainOK, Config, rest, files, network, host, containers
  <2>3. ActivateOK'
    BY <2>1 DEF IInv, ActivateOK, Starting, Config, rest, files, startup, handedOff
  <2> QED BY <2>2, <2>3
<1>5. HandoffOK'
  <2>1. UNCHANGED <<manifest, fwd, tables>>
    BY DEF rest, handedOff
  <2>2. CASE p # "handoff"
    <3>1. cmd'["handoff"] = cmd["handoff"] /\ at'["handoff"] = at["handoff"] /\ local'["handoff"] = local["handoff"]
      BY <1>2, <2>2 DEF Procs
    <3> QED BY <2>1, <3>1 DEF IInv, HandoffOK, Switched, Applied
  <2>3. CASE p = "handoff" /\ cmd'[p] = "rollback"
    <3>1. Unwinds(p, local[p]) /\ Working(p)
      BY <2>3 DEF Ends
    <3>2. lock = "handoff" /\ cmd["handoff"] # "none" /\ at["handoff"] >= 3 /\ Switched' = Switched
      BY <2>3, <3>1 DEF Working, Unwinds, Switched
    <3>3. Backed(Switched)
      BY <3>2, HandoffBacked, Inside DEF IInv, Procs
    <3> QED BY <2>1, <2>3, <3>2, <3>3 DEF HandoffOK, Backed, Applied
  <2>4. CASE p = "handoff" /\ cmd'[p] # "rollback"
    BY <1>1, <2>4 DEF HandoffOK
  <2> QED BY <2>2, <2>3, <2>4
<1>6. DataOK' /\ RoutedIsRegistered' /\ ReadyMatches' /\ AppliedIsSelected'
  BY DEF IInv, DataOK, RoutedIsRegistered, ReadyMatches, AppliedIsSelected, Applied, counts, rest, files, startup,
     network, host, containers, uidview, handedOff
<1> QED BY <1>3, <1>4, <1>5, <1>6 DEF IInv

\* A failure, a kill, and a lock that is taken.
LEMMA FaultKeeps ==
  ASSUME IInv, NEW p \in Procs, Locked(p) \/ (Working(p) /\ (Fails(p) \/ Killed(p)))
  PROVE  IInv'
<1>1. Control /\ faults \in 0..MaxFaults /\ failed \in BOOLEAN
  BY DEF IInv, Control
<1>2. CASE Locked(p)
  <2>1. Leave(p) /\ faults' \in 0..MaxFaults /\ failed' \in BOOLEAN /\ UNCHANGED <<counts, rest>>
    BY <1>1, <1>2 DEF Locked
  <2> QED BY <1>1, <2>1, ControlEnds, Stopped
<1>3. CASE Working(p) /\ Killed(p)
  <2>1. Leave(p) /\ failed' \in BOOLEAN /\ UNCHANGED <<counts, rest>>
    BY <1>3 DEF Killed
  <2>2. faults' \in 0..MaxFaults
    BY <1>1, <1>3, DevelopmentAssumption DEF Killed, Faulty
  <2> QED BY <1>1, <2>1, <2>2, ControlEnds, Stopped
<1>4. CASE Working(p) /\ Fails(p)
  <2>1. cmd[p] # "none" /\ Except(p, local[p]) /\ local[p] \in Knowledge /\ UNCHANGED <<counts, rest>>
    BY <1>1, <1>4, Inside DEF Fails, Raise
  <2>2. Control'
    BY <1>1, <1>4, Proceeded DEF Fails
  <2>3. Stay(p) /\ (Ends(p) \/ Unwinds(p, local[p]))
    BY <1>1, <2>1, Excepts
  <2> QED BY <1>4, <2>1, <2>2, <2>3, Stopped
<1> QED BY <1>2, <1>3, <1>4

\* A lock that is free is taken by a process at its first step.
LEMMA LockKeeps == ASSUME IInv, NEW p \in Procs, Lock(p) PROVE IInv'
<1>1. Control'
  <2>1. Holding'
    BY DevelopmentAssumption DEF Lock, IInv, Control, Holding, Procs
  <2>2. Known' /\ \A q \in Procs : InPlan(q)'
    BY DEF Lock, IInv, Control, Known, InPlan
  <2> QED BY <2>1, <2>2 DEF Lock, IInv, Control
<1>2. UNCHANGED <<cmd, at, local, counts, rest>>
  BY DEF Lock
<1>3. Staged' /\ MainOK' /\ ActivateOK' /\ HandoffOK'
  BY <1>2 DEF IInv, Staged, MainOK, Starting, Place, Config, ActivateOK, HandoffOK, Switched, Applied, rest, files,
     startup, network, host, containers, handedOff
<1>4. DataOK' /\ RoutedIsRegistered' /\ ReadyMatches' /\ AppliedIsSelected'
  BY <1>2 DEF IInv, DataOK, RoutedIsRegistered, ReadyMatches, AppliedIsSelected, Applied, counts, rest, files,
     startup, network, host, containers, uidview, handedOff
<1> QED BY <1>1, <1>3, <1>4 DEF IInv

\* A process that begins is at its first step.
LEMMA Begins ==
  ASSUME Control, NEW p \in Procs, NEW x \in DOMAIN Plan, x \in Commands[p] \ {"none", "close", "rollback"},
         NEW known \in Knowledge, Begin(p, x, known), failed' \in BOOLEAN,
         IF p = "health" THEN lock = None /\ lock' = p ELSE lock' = lock,
         p = "main" => known.cfg \in Configs,
         p = "main" /\ x \in {"activate", "reactivate"} => known.plan.candidate = known.cfg,
         p = "health" => known.cfg \in Configs,
         p = "stage" => /\ known.plan.state = "staged" /\ known.plan.current \in Configs
                        /\ known.plan.candidate \in Configs
  PROVE  Control' /\ Stay(p) /\ cmd'[p] = x /\ at'[p] = 1 /\ local'[p] = known
<1>1. cmd'[p] = x /\ at'[p] = 1 /\ local'[p] = known /\ at' = at
  BY DEF Begin, Control, InPlan
<1>2. Stay(p) /\ ControlTypes' /\ faults' = faults
  BY DEF Begin, Control, ControlTypes, Stay, Procs
<1>3. \A q \in Procs \ {p} : cmd'[q] = cmd[q] /\ at'[q] = at[q] /\ local'[q] = local[q]
  BY <1>2 DEF Stay
<1>4. \A q \in Procs : InPlan(q)'
  <2>1. \A q \in Procs \ {p} : InPlan(q)'
    BY <1>3 DEF Control, InPlan
  <2>2. 1 <= Len(Plan[x])
    BY LongestPlan
  <2>3. InPlan(p)'
    BY <1>1, <2>2 DEF InPlan
  <2> QED BY <2>1, <2>3
<1>5. Holding'
  <2>1. CASE p = "health"
    <3>1. lock' = "health" /\ lock = None /\ None \notin Procs
      BY <2>1, DevelopmentAssumption
    <3> QED BY <1>1, <1>3, <2>1, <3>1 DEF Control, Holding, Procs
  <2>2. CASE p # "health"
    BY <1>1, <1>3, <2>2 DEF Control, Holding, Procs
  <2> QED BY <2>1, <2>2
<1>6. Known'
  BY <1>1, <1>3 DEF Control, Known, Procs
<1> QED BY <1>1, <1>2, <1>4, <1>5, <1>6 DEF Control, ControlTypes

\* The configuration the service names is one of the instance's.
LEMMA ServiceKnown == ASSUME IInv PROVE ServiceConfig \in Configs
BY DEF IInv, DataOK, Staged, ServiceConfig, Chosen

\* A begin writes nothing: only what its process claims from its first step on is new.
LEMMA Begun ==
  ASSUME IInv, NEW p \in Procs, Stay(p), Control', at'[p] = 1, UNCHANGED <<replaced, rest>>,
         commands' \in 0..MaxCommands,
         p = "main" /\ cmd'[p] = "activate" => plan.state # "applied",
         p = "main" /\ cmd'[p] = "reactivate" => alias = local'[p].cfg,
         p = "handoff" => cmd'[p] = "handoff" /\ local'[p].switched = {}
  PROVE  IInv'
<1>1. \A q \in Procs \ {p} : cmd'[q] = cmd[q] /\ at'[q] = at[q] /\ local'[q] = local[q]
  BY DEF Stay
<1>2. Staged'
  <2>1. at'["stage"] = 1 \/ (cmd'["stage"] = cmd["stage"] /\ at'["stage"] = at["stage"])
    BY <1>1 DEF Procs
  <2> QED BY <2>1 DEF IInv, Staged, rest, files, startup
<1>3. MainOK' /\ ActivateOK'
  <2>1. CASE p = "main"
    BY <2>1 DEF MainOK, ActivateOK, Starting, Place, Config, rest, files, startup
  <2>2. CASE p # "main"
    <3>1. cmd'["main"] = cmd["main"] /\ at'["main"] = at["main"] /\ local'["main"] = local["main"]
      BY <1>1, <2>2 DEF Procs
    <3>2. MainOK'
      BY <3>1 DEF IInv, MainOK, Starting, Place, Config, rest, files, network, host, containers
    <3>3. ActivateOK'
      BY <3>1 DEF IInv, ActivateOK, Config, rest, files, startup, handedOff
    <3> QED BY <3>2, <3>3
  <2> QED BY <2>1, <2>2
<1>4. HandoffOK'
  <2>1. CASE p = "handoff"
    BY <2>1 DEF HandoffOK, Switched
  <2>2. CASE p # "handoff"
    <3>1. cmd'["handoff"] = cmd["handoff"] /\ at'["handoff"] = at["handoff"] /\ local'["handoff"] = local["handoff"]
      BY <1>1, <2>2 DEF Procs
    <3> QED BY <3>1 DEF IInv, HandoffOK, Switched, Applied, rest, handedOff
  <2> QED BY <2>1, <2>2
<1>5. DataOK' /\ RoutedIsRegistered' /\ ReadyMatches' /\ AppliedIsSelected'
  BY DEF IInv, DataOK, RoutedIsRegistered, ReadyMatches, AppliedIsSelected, Applied, rest, files, startup,
     network, host, containers, uidview, handedOff
<1> QED BY <1>2, <1>3, <1>4, <1>5 DEF IInv

\* Main reads the plan, and what an applied plan names is selected.
LEMMA MainBeginsKeeps == ASSUME IInv, MainBegins PROVE IInv'
<1>1. Control /\ plan \in Plans /\ NoPlan \in Plans /\ commands \in 0..MaxCommands /\ "main" \in Procs
  BY DEF IInv, DataOK, NoPlan, Plans, Chosen, Procs
<1>2. \A c \in Configs, q \in Plans :
        /\ Knows(c, q) \in Knowledge /\ Knows(c, q).cfg = c /\ Knows(c, q).plan = q
  BY DEF Knows, Knowledge, Chosen
<1>3. {"start", "activate", "reactivate"} \subseteq DOMAIN Plan
  BY OtherPlans
<1>4. {"start", "activate", "reactivate"} \subseteq Commands["main"] \ {"none", "close", "rollback"}
  BY DEF Commands
<1>5. lock' = lock /\ failed' \in BOOLEAN /\ UNCHANGED <<counts, rest>>
  BY DEF MainBegins
<1>6. replaced' = replaced /\ commands' \in 0..MaxCommands
  BY <1>1, <1>5 DEF counts
<1>7. CASE ~dropin
  <2>1. Begin("main", "start", Knows(ServiceConfig, NoPlan))
    BY <1>7 DEF MainBegins
  <2>2. Control' /\ Stay("main") /\ cmd'["main"] = "start" /\ at'["main"] = 1
    BY <1>1, <1>2, <1>3, <1>4, <1>5, <2>1, ServiceKnown, Begins
  <2> QED BY <1>1, <1>5, <1>6, <2>2, Begun
<1>8. CASE dropin /\ plan.state = "applied"
  <2>1. Begin("main", "reactivate", Knows(alias, plan)) /\ alias = plan.candidate /\ alias \in Configs
    BY <1>8 DEF MainBegins, IInv, AppliedIsSelected, Staged
  <2>2. /\ Control' /\ Stay("main") /\ cmd'["main"] = "reactivate" /\ at'["main"] = 1
        /\ local'["main"] = Knows(alias, plan)
    BY <1>1, <1>2, <1>3, <1>4, <1>5, <2>1, Begins
  <2>3. alias = local'["main"].cfg
    BY <1>1, <1>2, <2>1, <2>2
  <2> QED BY <1>1, <1>5, <1>6, <2>2, <2>3, Begun
<1>9. CASE dropin /\ plan.state # "applied"
  <2>1. Begin("main", "activate", Knows(plan.candidate, plan)) /\ plan.candidate \in Configs
    BY <1>9 DEF MainBegins, IInv, Staged
  <2>2. Control' /\ Stay("main") /\ cmd'["main"] = "activate" /\ at'["main"] = 1
    BY <1>1, <1>2, <1>3, <1>4, <1>5, <2>1, Begins
  <2> QED BY <1>1, <1>5, <1>6, <1>9, <2>2, Begun
<1> QED BY <1>7, <1>8, <1>9

\* The other processes begin.
LEMMA OtherBegins == ASSUME IInv, HealthBegins \/ StageBegins \/ HandoffBegins PROVE IInv'
<1>1. Control /\ NoPlan \in Plans /\ commands \in 0..MaxCommands /\ failed \in BOOLEAN /\ Procs = {"main", "health", "handoff", "stage"}
  BY DEF IInv, Control, DataOK, NoPlan, Plans, Chosen, Procs
<1>2. \A c \in Chosen, q \in Plans :
        /\ Knows(c, q) \in Knowledge /\ Knows(c, q).cfg = c /\ Knows(c, q).plan = q
        /\ Knows(c, q).switched = {}
  BY DEF Knows, Knowledge
<1>3. {"health", "stage", "handoff"} \subseteq DOMAIN Plan
  BY OtherPlans
<1>4. /\ "health" \in Commands["health"] \ {"none", "close", "rollback"}
      /\ "stage" \in Commands["stage"] \ {"none", "close", "rollback"}
      /\ "handoff" \in Commands["handoff"] \ {"none", "close", "rollback"}
  BY DEF Commands
<1>5. failed' = failed /\ replaced' = replaced /\ UNCHANGED rest /\ commands' \in 0..MaxCommands
  BY <1>1, DevelopmentAssumption DEF HealthBegins, StageBegins, HandoffBegins, counts, Command
<1>6. CASE HealthBegins
  <2>1. /\ Begin("health", "health", Knows(ServiceConfig, NoPlan)) /\ lock = None /\ lock' = "health"
        /\ ServiceConfig \in Configs /\ ServiceConfig \in Chosen
    BY <1>6, ServiceKnown DEF HealthBegins, Chosen
  <2>2. Control' /\ Stay("health") /\ at'["health"] = 1
    BY <1>1, <1>2, <1>3, <1>4, <1>5, <2>1, Begins
  <2> QED BY <1>1, <1>5, <2>2, Begun
<1>7. CASE StageBegins
  <2>1. PICK c \in Configs : Begin("stage", "stage", Knows(None,
                                 [state |-> "staged", current |-> ServiceConfig, candidate |-> c]))
    BY <1>7 DEF StageBegins
  <2>2. /\ [state |-> "staged", current |-> ServiceConfig, candidate |-> c] \in Plans
        /\ ServiceConfig \in Configs /\ None \in Chosen /\ lock' = lock
    BY <1>7, ServiceKnown DEF StageBegins, Plans, Chosen
  <2>3. Control' /\ Stay("stage") /\ at'["stage"] = 1
    BY <1>1, <1>2, <1>3, <1>4, <1>5, <2>1, <2>2, Begins
  <2> QED BY <1>1, <1>5, <2>3, Begun
<1>8. CASE HandoffBegins
  <2>1. Begin("handoff", "handoff", Idle) /\ lock' = lock /\ Idle = Knows(None, NoPlan) /\ None \in Chosen
    BY <1>8 DEF HandoffBegins, Idle, Chosen
  <2>2. Control' /\ Stay("handoff") /\ at'["handoff"] = 1 /\ cmd'["handoff"] = "handoff" /\ local'["handoff"] = Idle
    BY <1>1, <1>2, <1>3, <1>4, <1>5, <2>1, Begins
  <2>3. local'["handoff"].switched = {}
    BY <1>1, <1>2, <2>1, <2>2
  <2> QED BY <1>1, <1>5, <2>2, <2>3, Begun
<1> QED BY <1>6, <1>7, <1>8

-----------------------------------------------------------------------------
(* The monitor, single commands and failures of the host *)

\* What happens outside the processes leaves alone what they claim.
LEMMA Quiet ==
  ASSUME IInv, UNCHANGED <<process, startup, readiness, manifest, fwd>>, faults' \in 0..MaxFaults, DataOK',
         tables' \subseteq tables, side'.cfg = side.cfg, target'.cfg = target.cfg,
         prepared' = prepared \/ lock = None, unit' = "alias" => unit = "alias" \/ selector
  PROVE  IInv'
<1>1. UNCHANGED <<lock, cmd, at, local, failed>>
  BY DEF process
<1>2. Control'
  <2>1. Known' /\ Holding' /\ \A q \in Procs : InPlan(q)'
    BY <1>1 DEF IInv, Control, Known, Holding, InPlan
  <2> QED BY <1>1, <2>1 DEF IInv, Control
<1>3. Staged' /\ ActivateOK' /\ AppliedIsSelected'
  BY <1>1 DEF IInv, Staged, ActivateOK, Config, AppliedIsSelected, startup
<1>4. MainOK'
  <2>1. CASE prepared' = prepared
    BY <1>1, <2>1 DEF IInv, MainOK, Starting, Place, Config
  <2>2. CASE lock = None
    <3>1. at["main"] = 1 \/ ~Starting
      BY <2>2, DevelopmentAssumption, Inside DEF IInv, Control, Holding, Procs, Starting
    <3> QED BY <1>1, <3>1 DEF MainOK, Starting, Place
  <2> QED BY <2>1, <2>2
<1>5. HandoffOK'
  <2>1. \A switched : tables \subseteq switched => tables' \subseteq switched
    OBVIOUS
  <2> QED BY <1>1, <2>1 DEF IInv, HandoffOK, Switched, Applied
<1>6. RoutedIsRegistered' /\ ReadyMatches'
  BY DEF IInv, RoutedIsRegistered, ReadyMatches, Applied
<1> QED BY <1>2, <1>3, <1>4, <1>5, <1>6 DEF IInv

\* The states of the exit monitor.
Monitors == [state : {"off", "idle", "probing", "down"}, cfg : Chosen]

\* The exit monitor writes nothing but the lease.
LEMMA MonitorKeeps ==
  ASSUME IInv, MonitorRound \/ MonitorPublishes \/ MonitorRestarts \/ MonitorFails \/ LeaseExpires \/ ExitCheck
  PROVE  IInv'
<1> USE DEF MonitorRound, MonitorPublishes, MonitorRestarts, MonitorFails, LeaseExpires, ExitCheck
<1>1. UNCHANGED <<process, counts, files, readiness, timer, containers, uidview, handedOff>>
  BY DEF host, network
<1>2. faults' \in 0..MaxFaults
  <2>1. faults' = faults \/ Faulty
    OBVIOUS
  <2>2. faults \in 0..MaxFaults /\ MaxFaults \in Nat
    BY DevelopmentAssumption DEF IInv, Control
  <2> HIDE DEF MonitorRound, MonitorPublishes, MonitorRestarts, MonitorFails, LeaseExpires, ExitCheck
  <2> QED BY <2>1, <2>2 DEF Faulty
<1>3. lease' \in BOOLEAN
  BY DEF IInv, DataOK, network
<1>4. monitor' \in Monitors
  <2>1. monitor \in Monitors /\ watched \in Chosen
    BY DEF IInv, DataOK, Monitors, Chosen
  <2>2. \/ monitor' = monitor
        \/ \E x \in {"idle", "probing", "down"} : monitor' = [monitor EXCEPT !.state = x]
        \/ monitor' = [state |-> "idle", cfg |-> watched]
    BY DEF MonitorAt, host
  <2>3. \A x \in {"idle", "probing", "down"} : [monitor EXCEPT !.state = x] \in Monitors
    BY <2>1 DEF Monitors
  <2>4. [state |-> "idle", cfg |-> watched] \in Monitors
    BY <2>1 DEF Monitors
  <2> QED BY <2>1, <2>2, <2>3, <2>4
<1>5. DataOK'
  BY <1>1, <1>3, <1>4 DEF IInv, DataOK, Monitors, counts, files, startup, containers, uidview, handedOff
<1> QED BY <1>1, <1>2, <1>5, Quiet DEF files, containers, handedOff

\* Commands of one step, and what dies.
LEMMA EnvironmentKeeps ==
  ASSUME IInv, Stop \/ PrepareCommand \/ InstallUnits \/ TargetDies \/ SideDies \/ MapperDies
  PROVE  IInv'
<1> USE DEF Stop, PrepareCommand, InstallUnits, TargetDies, SideDies, MapperDies
<1>1. UNCHANGED <<process, counts, startup, network, timer, monitor, mount, manifest, fwd>>
  BY DEF host, handedOff, uidview, files
<1>2. faults' \in 0..MaxFaults
  BY DevelopmentAssumption DEF IInv, Control, Faulty
<1>3. ServiceConfig \in Configs
  BY ServiceKnown
<1>4. side' \in [run : BOOLEAN, cfg : Chosen] /\ side'.cfg = side.cfg
  <2>1. side' = side \/ side' = [side EXCEPT !.run = FALSE]
    BY DEF host, containers
  <2> QED BY <2>1 DEF IInv, DataOK
<1>5. target' \in [run : BOOLEAN, cfg : Chosen, mount : Nat] /\ target'.cfg = target.cfg
  <2>1. target' = target \/ target' = [target EXCEPT !.run = FALSE]
    BY DEF host, containers
  <2> QED BY <2>1 DEF IInv, DataOK
<1>6. mapper' \in BOOLEAN /\ tables' \in {tables, {}}
  BY DEF IInv, DataOK, host, uidview, handedOff
<1>7. /\ unit' \in Configs \union {"alias"} /\ (unit' = "alias" => unit = "alias" \/ selector)
      /\ watched' \in Configs /\ prepared' \in Configs /\ (prepared' = prepared \/ lock = None)
  <2>1. UnitFor(ServiceConfig) \in Configs \union {"alias"} /\ (UnitFor(ServiceConfig) = "alias" => selector)
    BY <1>3, DevelopmentAssumption DEF UnitFor
  <2> QED BY <1>3, <2>1 DEF IInv, DataOK, files
<1>8. DataOK'
  BY <1>1, <1>4, <1>5, <1>6, <1>7 DEF IInv, DataOK, counts, startup, network
<1> QED BY <1>1, <1>2, <1>4, <1>5, <1>6, <1>7, <1>8, Quiet DEF network

-----------------------------------------------------------------------------
(* The theorems *)

\* The invariant holds before the first start
LEMMA InitKeeps == ASSUME Init PROVE IInv
<1> USE DEF Init
<1>1. \A p \in Procs : cmd[p] = "none" /\ at[p] = 1 /\ local[p] = Idle
  OBVIOUS
<1>2. "none" \in DOMAIN Plan /\ \A p \in Procs : "none" \in Commands[p]
  BY OtherPlans DEF Commands, Procs
<1>3. Control
  <2>1. \A p \in Procs : InPlan(p)
    BY <1>1, <1>2 DEF InPlan
  <2>2. Holding /\ Known
    BY <1>1 DEF Holding, Known, Procs
  <2>3. cmd \in [Procs -> DOMAIN Plan]
    BY <1>2
  <2>4. at \in [Procs -> 1..19]
    OBVIOUS
  <2>5. local \in [Procs -> Knowledge]
    BY IdleKnows
  <2>6. faults \in 0..MaxFaults
    BY DevelopmentAssumption
  <2>7. lock \in {"main", "health", "handoff", None} /\ failed \in BOOLEAN
    OBVIOUS
  <2> QED BY <2>1, <2>2, <2>3, <2>4, <2>5, <2>6, <2>7 DEF Control
<1>4. DataOK
  <2>1. NoPlan \in Plans /\ Off \in [state : {"off", "idle", "probing", "down"}, cfg : Chosen]
    BY DEF NoPlan, Plans, Chosen, Off
  <2>2. commands \in 0..MaxCommands /\ mount \in Nat
    BY DevelopmentAssumption
  <2>3. /\ replaced \in BOOLEAN /\ selector \in BOOLEAN /\ dropin \in BOOLEAN /\ lease \in BOOLEAN
        /\ timer \in BOOLEAN /\ mapper \in BOOLEAN
    OBVIOUS
  <2>4. /\ alias \in Chosen /\ unit \in Configs \union {"alias"}
        /\ watched \in Configs /\ prepared \in Configs
    BY DevelopmentAssumption DEF Chosen
  <2>5. readiness \in [ok : BOOLEAN, cfg : Configs, phase : {"none", "network-ready", "ready"}]
    BY DevelopmentAssumption
  <2>6. manifest \in [state : {"absent", "failed", "applied", "retired"}, listed : BOOLEAN]
    OBVIOUS
  <2>7. side \in [run : BOOLEAN, cfg : Chosen]
    BY DEF Chosen
  <2>8. target \in [run : BOOLEAN, cfg : Chosen, mount : Nat]
    BY DEF Chosen
  <2>9. plan \in Plans /\ monitor \in [state : {"off", "idle", "probing", "down"}, cfg : Chosen]
    BY <2>1
  <2>10. fwd \subseteq Forwarders /\ tables \subseteq Roles
    OBVIOUS
  <2> QED BY <2>2, <2>3, <2>4, <2>5, <2>6, <2>7, <2>8, <2>9, <2>10 DEF DataOK
<1>5. Staged
  BY <1>1, DevelopmentAssumption DEF Staged, NoPlan, Procs
<1>6. MainOK /\ ActivateOK /\ HandoffOK
  BY <1>1 DEF MainOK, Starting, ActivateOK, HandoffOK, Procs
<1>7. RoutedIsRegistered /\ ReadyMatches /\ AppliedIsSelected
  BY DEF RoutedIsRegistered, ReadyMatches, AppliedIsSelected, NoPlan
<1> QED BY <1>3, <1>4, <1>5, <1>6, <1>7 DEF IInv

\* and after every step.
LEMMA NextKeeps == ASSUME IInv, [Next]_vars PROVE IInv'
<1>1. CASE UNCHANGED vars
  <2>1. DataOK'
    BY <1>1 DEF IInv, DataOK, vars, counts, rest, files, startup, network, host, containers, uidview, handedOff
  <2> QED BY <1>1, <2>1, Quiet DEF IInv, Control, vars, rest, files, network, host, containers, handedOff
<1>2. CASE MainBegins \/ HealthBegins \/ StageBegins \/ HandoffBegins
  BY <1>2, MainBeginsKeeps, OtherBegins
<1>3. CASE \E p \in Procs : Step(p) \/ (Working(p) /\ (Fails(p) \/ Killed(p)))
  BY <1>3, LockKeeps, FaultKeeps, MainKeeps, HealthKeeps, HandoffKeeps, StageKeeps DEF Step
<1>4. CASE Monitor \/ LeaseExpires \/ Environment
  BY <1>4, MonitorKeeps, EnvironmentKeeps DEF Monitor, Environment
<1> QED BY <1>1, <1>2, <1>3, <1>4 DEF Next

\* The strengthening holds in every reachable state: only the holder of the lock
\* and stage are past their first step, and the files, containers and routes are
\* what their places say.
THEOREM Invariance == Spec => []IInv
BY InitKeeps, NextKeeps, PTL DEF Spec

\* Every variable keeps its type; no process runs beyond its plan.
THEOREM TypeCorrect == Spec => []TypeOK
<1>1. IInv => TypeOK
  BY DEF IInv, Control, InPlan, DataOK, TypeOK
<1> QED BY <1>1, Invariance, PTL

\* A route to the forwarders of a handoff exists only while both run and the
\* manifest lists them as applied, wherever a handoff, its rollback or the
\* retirement of an activation failed or was killed, any number of times.
THEOREM RoutesRegistered == Spec => []RoutedIsRegistered
<1>1. IInv => RoutedIsRegistered
  BY DEF IInv
<1> QED BY <1>1, Invariance, PTL

\* Readiness names the configuration of what it was written for: the containers
\* in the path or the target.
THEOREM ReadinessMatches == Spec => []ReadyMatches
<1>1. IInv => ReadyMatches
  BY DEF IInv
<1> QED BY <1>1, Invariance, PTL

\* A plan recorded as applied has its candidate selected, although stage writes
\* plan and alias without the lock while an activation runs.
THEOREM AppliedSelected == Spec => []AppliedIsSelected
<1>1. IInv => AppliedIsSelected
  BY DEF IInv
<1> QED BY <1>1, Invariance, PTL
=============================================================================
