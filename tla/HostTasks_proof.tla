-------------------------- MODULE HostTasks_proof --------------------------
(***************************************************************************)
(* Proofs about the two programs that run on the host on their own.        *)
(* NetworkWatchdog: any number of probes and namespaces and any durations. *)
(* SessionMigration: any number of importers and new numbers, any changes  *)
(* of the source, any number of kills.                                     *)
(***************************************************************************)
EXTENDS NetworkWatchdog, SessionMigration, TLAPS

\* The pass under way has already checked probe p.
CheckedThisPass(p) == at = "refresh" \/ (at = "check" /\ p < index)

\* What is left of an element and the age of the check it rests on add up to
\* no more than the horizon ...
LeaseOnSeen == \A n \in Namespaces, p \in Probes :
    left[n] > 0 => seenAgo[p] + left[n] <= Horizon

\* ... because a check of this pass is no older than the pass.
SeenThisPass == \A p \in Probes : CheckedThisPass(p) => seenAgo[p] <= elapsed

\* The same for the time since a probe went: it cannot have passed a check since.
LeaseOnGone == \A n \in Namespaces, p \in Probes :
    probe[p] = "gone" /\ left[n] > 0 => goneFor[p] + left[n] <= Horizon

GoneThisPass == \A p \in Probes :
    probe[p] = "gone" /\ CheckedThisPass(p) => goneFor[p] <= elapsed

\* Namespaces refreshed in this pass keep their lease less the pass's age.
RefreshedThisPass == \A n \in Namespaces :
    at = "refresh" /\ n < index => left[n] + elapsed >= Lease

IInv ==
    /\ TypeOK
    /\ LeaseOnSeen /\ SeenThisPass
    /\ LeaseOnGone /\ GoneThisPass
    /\ RefreshedThisPass

\* The bound of the clocks is a natural number above the lease.
LEMMA HorizonNat == Horizon \in Nat /\ Lease \in 0..Horizon
  BY WatchdogAssumption DEF Horizon

\* The invariant holds at the start.
LEMMA InitIInv == Init => IInv
  <1> SUFFICES ASSUME Init PROVE IInv
    OBVIOUS
  <1>1. TypeOK
    <2>1. /\ left \in [Namespaces -> 0..Lease]
          /\ goneFor \in [Probes -> 0..Horizon]
          /\ seenAgo \in [Probes -> 0..Horizon]
      BY WatchdogAssumption, HorizonNat DEF Init
    <2>2. at = "check" /\ index \in Probes /\ elapsed \in 0..PassLimit /\ asleep \in 0..Interval
      BY WatchdogAssumption DEF Init, Probes
    <2>3. probe \in [Probes -> {"running", "stopped", "gone"}] /\ ready \in BOOLEAN
      BY DEF Init
    <2>4. netns \in [Namespaces -> BOOLEAN]
      BY DEF Init
    <2> QED BY <2>1, <2>2, <2>3, <2>4 DEF TypeOK
  <1>2. \A n \in Namespaces : ~(left[n] > 0)
    BY DEF Init
  <1>3. \A p \in Probes : ~CheckedThisPass(p)
    BY DEF Init, CheckedThisPass, Probes
  <1> QED BY <1>1, <1>2, <1>3 DEF Init, IInv, LeaseOnSeen, SeenThisPass, LeaseOnGone,
                                  GoneThisPass, RefreshedThisPass

\* Checking a probe learns only what is so at that moment.
LEMMA CheckProbeIInv == IInv /\ CheckProbe => IInv'
  <1> SUFFICES ASSUME IInv, CheckProbe PROVE IInv'
    OBVIOUS
  <1> USE WatchdogAssumption DEF CheckProbe, host
  <1> index \in Probes /\ index \in Nat
    BY DEF IInv, TypeOK, Probes
  <1>1. TypeOK'
    BY DEF IInv, TypeOK, Probes, Namespaces, Horizon
  <1>2. LeaseOnSeen'
    BY DEF IInv, TypeOK, LeaseOnSeen, Horizon
  <1>3. SeenThisPass'
    BY DEF IInv, TypeOK, SeenThisPass, CheckedThisPass, Probes
  <1>4. LeaseOnGone'
    BY DEF IInv, LeaseOnGone
  <1>5. GoneThisPass'
    BY DEF IInv, TypeOK, GoneThisPass, CheckedThisPass, Probes, ProcessMatches
  <1>6. RefreshedThisPass'
    BY DEF IInv, TypeOK, RefreshedThisPass, Namespaces
  <1> QED BY <1>1, <1>2, <1>3, <1>4, <1>5, <1>6 DEF IInv

\* A refresh extends only sets whose round checked every probe.
LEMMA RefreshIInv == IInv /\ Refresh => IInv'
  <1> SUFFICES ASSUME IInv, Refresh PROVE IInv'
    OBVIOUS
  <1> USE WatchdogAssumption DEF Refresh, host
  <1> index \in Namespaces /\ index \in Nat
    BY DEF IInv, TypeOK, Namespaces
  <1>0. \A p \in Probes : CheckedThisPass(p)
    BY DEF CheckedThisPass
  <1>1. TypeOK'
    BY DEF IInv, TypeOK, Probes, Namespaces, Horizon
  <1>2. LeaseOnSeen'
    BY <1>0 DEF IInv, TypeOK, LeaseOnSeen, SeenThisPass, Horizon
  <1>3. SeenThisPass'
    BY <1>0 DEF IInv, TypeOK, SeenThisPass, CheckedThisPass, Probes
  <1>4. LeaseOnGone'
    BY <1>0 DEF IInv, TypeOK, LeaseOnGone, GoneThisPass, Horizon
  <1>5. GoneThisPass'
    BY <1>0 DEF IInv, TypeOK, GoneThisPass, CheckedThisPass, Probes
  <1>6. RefreshedThisPass'
    <2> SUFFICES ASSUME NEW n \in Namespaces, at' = "refresh", n < index'
                 PROVE  left'[n] + elapsed' >= Lease
      BY DEF RefreshedThisPass
    <2>1. index' = index + 1 /\ n \in Nat /\ elapsed \in Nat
      BY DEF IInv, TypeOK, Namespaces
    <2>2. CASE n = index
      BY <2>1, <2>2 DEF IInv, TypeOK
    <2>3. CASE n < index
      BY <2>1, <2>3 DEF IInv, TypeOK, RefreshedThisPass
    <2> QED BY <2>1, <2>2, <2>3
  <1> QED BY <1>1, <1>2, <1>3, <1>4, <1>5, <1>6 DEF IInv

\* Time runs out for timeouts and readings alike.
LEMMA TickIInv == IInv /\ Tick => IInv'
  <1> SUFFICES ASSUME IInv, Tick PROVE IInv'
    OBVIOUS
  <1> USE WatchdogAssumption DEF Tick, TimeMayPass, Down, Up, Horizon
  <1>1. TypeOK'
    <2>1. /\ left' \in [Namespaces -> 0..Lease]
          /\ asleep' \in 0..Interval
          /\ elapsed' \in 0..PassLimit
      BY DEF IInv, TypeOK
    <2>2. /\ goneFor' \in [Probes -> 0..Horizon]
          /\ seenAgo' \in [Probes -> 0..Horizon]
      BY DEF IInv, TypeOK
    <2> QED BY <2>1, <2>2 DEF IInv, TypeOK
  <1>2. LeaseOnSeen'
    BY DEF IInv, TypeOK, LeaseOnSeen
  <1>3. SeenThisPass'
    BY DEF IInv, TypeOK, SeenThisPass, CheckedThisPass
  <1>4. LeaseOnGone'
    BY DEF IInv, TypeOK, LeaseOnGone
  <1>5. GoneThisPass'
    BY DEF IInv, TypeOK, GoneThisPass, CheckedThisPass
  <1>6. RefreshedThisPass'
    BY DEF IInv, TypeOK, RefreshedThisPass
  <1> QED BY <1>1, <1>2, <1>3, <1>4, <1>5, <1>6 DEF IInv

\* The watchdog ends; the timeouts go on.
LEMMA ExitIInv == IInv /\ Exit => IInv'
  BY DEF IInv, Exit, host, TypeOK, LeaseOnSeen, SeenThisPass, LeaseOnGone,
         GoneThisPass, RefreshedThisPass, CheckedThisPass, Probes, Namespaces

\* A new round starts with no reading.
LEMMA WakeUpIInv == IInv /\ WakeUp => IInv'
  BY WatchdogAssumption
     DEF IInv, WakeUp, host, TypeOK, LeaseOnSeen, SeenThisPass, LeaseOnGone,
         GoneThisPass, RefreshedThisPass, CheckedThisPass, Probes, Namespaces

\* A probe that dies or comes back changes no timeout.
LEMMA SetProbeIInv ==
  ASSUME NEW p \in Probes, NEW s \in {"running", "stopped", "gone"},
         IInv, SetProbe(p, s, 0)
  PROVE  IInv'
  <1> USE WatchdogAssumption DEF SetProbe, Horizon
  <1>1. TypeOK'
    BY DEF IInv, TypeOK, Probes, Namespaces
  <1>2. LeaseOnSeen' /\ SeenThisPass' /\ RefreshedThisPass'
    BY DEF IInv, TypeOK, LeaseOnSeen, SeenThisPass, RefreshedThisPass, CheckedThisPass
  <1>3. LeaseOnGone'
    BY DEF IInv, TypeOK, LeaseOnGone
  <1>4. GoneThisPass'
    BY DEF IInv, TypeOK, GoneThisPass, CheckedThisPass
  <1> QED BY <1>1, <1>2, <1>3, <1>4 DEF IInv

\* A namespace takes its set with it.
LEMMA NamespaceGoesIInv ==
  ASSUME NEW n \in Namespaces, IInv, NamespaceGoes(n)
  PROVE  IInv'
  BY DEF IInv, NamespaceGoes, TypeOK, LeaseOnSeen, SeenThisPass, LeaseOnGone,
         GoneThisPass, RefreshedThisPass, CheckedThisPass

\* Every step keeps the invariant.
LEMMA NextIInv == IInv /\ [Next]_vars => IInv'
  <1> SUFFICES ASSUME IInv, [Next]_vars PROVE IInv'
    OBVIOUS
  <1>1. CASE CheckProbe
    BY <1>1, CheckProbeIInv
  <1>2. CASE ProbeMissing \/ RefreshFails \/ WatchdogKilled
    BY <1>2, ExitIInv DEF ProbeMissing, RefreshFails, WatchdogKilled
  <1>3. CASE Refresh
    BY <1>3, RefreshIInv
  <1>4. CASE WakeUp
    BY <1>4, WakeUpIInv
  <1>5. CASE Tick
    BY <1>5, TickIInv
  <1>6. ASSUME NEW p \in Probes, ProbeStops(p) \/ ProbeContinues(p) \/ ProbeGoes(p)
        PROVE  IInv'
    BY <1>6, SetProbeIInv DEF ProbeStops, ProbeContinues, ProbeGoes
  <1>7. ASSUME NEW n \in Namespaces, NamespaceGoes(n) PROVE IInv'
    BY <1>7, NamespaceGoesIInv
  <1>8. CASE UNCHANGED vars
    BY <1>8 DEF vars, IInv, TypeOK, LeaseOnSeen, SeenThisPass, LeaseOnGone,
                GoneThisPass, RefreshedThisPass, CheckedThisPass
  <1> QED BY <1>1, <1>2, <1>3, <1>4, <1>5, <1>6, <1>7, <1>8 DEF Next, Watchdog

\* The type invariant, for every number of probes and namespaces.
THEOREM TypeCorrect == Spec => []TypeOK
  <1>1. IInv => TypeOK
    BY DEF IInv
  <1> QED BY <1>1, InitIInv, NextIInv, PTL DEF Spec

\* A namespace that accepts traffic rests on a recent check of every probe.
THEOREM Audited == Spec => []OpenIsAudited
  <1>1. IInv => OpenIsAudited
    BY WatchdogAssumption DEF IInv, TypeOK, LeaseOnSeen, OpenIsAudited, Open, Horizon
  <1> QED BY <1>1, InitIInv, NextIInv, PTL DEF Spec

\* A probe that has been gone for a lease and a pass leaves nothing open.
THEOREM Closed == Spec => []ClosedAfterProbeGone
  <1>1. IInv => ClosedAfterProbeGone
    BY WatchdogAssumption
       DEF IInv, TypeOK, LeaseOnGone, ClosedAfterProbeGone, Open, Horizon
  <1> QED BY <1>1, InitIInv, NextIInv, PTL DEF Spec

\* The ready file appears only when every namespace was refreshed in this pass.
THEOREM ReadyRefreshed == Spec => ReadyMeansRefreshed
  <1>1. IInv /\ [Next]_vars =>
            [~ready /\ ready' => \A n \in Namespaces : left'[n] + elapsed' >= Lease]_vars
    <2> SUFFICES ASSUME IInv, Next, ~ready, ready', NEW n \in Namespaces
                 PROVE  left'[n] + elapsed' >= Lease
      BY DEF vars
    <2>1. Refresh
      BY DEF Next, Watchdog, CheckProbe, ProbeMissing, RefreshFails, WakeUp, Exit,
             WatchdogKilled, Tick, ProbeStops, ProbeContinues, ProbeGoes, SetProbe,
             NamespaceGoes
    <2>2. index = NumNamespaces
      BY <2>1 DEF Refresh, IInv, TypeOK
    <2> QED BY <2>1, <2>2, WatchdogAssumption
            DEF Refresh, IInv, TypeOK, RefreshedThisPass, Namespaces
  <1> QED BY <1>1, InitIInv, NextIInv, PTL DEF Spec, ReadyMeansRefreshed

-----------------------------------------------------------------------------
(* Session migration.  A part never takes an earlier version again.  So    *)
(* what the first fingerprint read is either still there or gone for good, *)
(* and when the second one finds it again nothing in between read anything *)
(* else: the moment at which the first fingerprint was complete is the     *)
(* snapshot.  The rest is about who may touch what.  What is at a final    *)
(* path is on the lists of the import that reserved it.  Imports of one    *)
(* new number may run side by side and empty each other's staging          *)
(* directory; what is known of the copies is known of an import that ran   *)
(* beside no other of its number, and an rmtree that has come to a final   *)
(* path has come to that of one that did not.                              *)

\* The steps after the first fingerprint, in the order of the code.
Read == {"map", "home", "lock", "projects", "stage", "copy", "again",
         "manifest", "validate", "reserve", "replace", "verify"}

\* Those of an importer that may have a staging directory.
Staging == {"copy", "again", "manifest", "validate", "reserve", "replace",
            "verify", "undo", "wipe"}

\* The part has left this version, for good: versions never come back.
Moved(p, v) == src[p] = Gone \/ src[p] > v

\* The part has moved since it was first read and is still to be looked at
\* again, so that the import cannot succeed.
Doomed(i, p) ==
    /\ \/ pc[i] \in {"map", "home", "lock", "projects", "stage", "copy"}
       \/ pc[i] = "again" /\ p \in todo[i]
    /\ Moved(p, seen[i][p])

SeenOK(i) == \A p \in roots[i] :
    pc[i] \in Read \/ (pc[i] = "fingerprint" /\ p \notin todo[i]) =>
        seen[i][p] > 0 /\ (src[p] = seen[i][p] \/ Moved(p, seen[i][p]))

\* There was a moment at which the source was what the fingerprint read.
MomentOK(i) ==
    pc[i] \in Read => \E s \in past : \A p \in roots[i] : s[p] = seen[i][p] \/ Doomed(i, p)

\* The identifiers were collected from that version.
MapOK(i) == \A p \in roots[i] :
    pc[i] \in Read \ {"map"} \/ (pc[i] = "map" /\ p \notin todo[i]) =>
        mapped[i][p] = seen[i][p] \/ Doomed(i, p)

\* What a target of the import is: in its staging directory, then at its place.
Now(i, t) == IF t \in committed[i] THEN final[dest[i]][t] ELSE staged[dest[i]][t]

AsSeen(i, p) == [part |-> p, v |-> seen[i][p], m |-> seen[i][p]]

\* That version was copied, if no other import of the number ran beside.
CopyOK(i) == alone[i] => \A p \in roots[i] :
    pc[i] \in {"again", "manifest", "validate", "reserve", "replace", "verify"}
        \/ (pc[i] = "copy" /\ p \notin todo[i]) =>
        AsSeen(i, p) \in Now(i, Into(p)) \/ Doomed(i, p)

\* What is reserved and committed at each step.
ListsOK(i) ==
    /\ pc[i] \in {"idle", "fingerprint", "map", "home", "lock", "projects", "stage", "copy",
                  "again", "manifest", "validate", "failed"} => committed[i] = {} /\ reserved[i] = {}
    /\ pc[i] = "reserve" => committed[i] = {} /\ todo[i] \cap reserved[i] = {}
                               /\ todo[i] \cup reserved[i] = StagedTargets(i)
    /\ pc[i] = "replace" => todo[i] = reserved[i] /\ committed[i] \cap reserved[i] = {}
                               /\ committed[i] \cup reserved[i] = StagedTargets(i)
    /\ pc[i] \in {"wipe", "unlock", "rmdir"} => outcome[i] # "failed" \/ committed[i] \cup reserved[i] = {}

\* The paths that are there by this import are those of its lists.
OwnOK(i) ==
    /\ \A d \in Ids : \A t \in Targets :
          owner[d][t] = i <=> d = dest[i] /\ t \in committed[i] \cup reserved[i]
    /\ \A t \in reserved[i] : final[dest[i]][t] = {}

\* A manifest that is there is the last of the files to be there.
PlacedOK(i) == alone[i] /\ "manifest" \in committed[i] =>
    \E s \in past : \A p \in roots[i] :
        Into(p) \in committed[i] /\ [part |-> p, v |-> s[p], m |-> s[p]] \in final[dest[i]][Into(p)]

\* rmtree is in a directory only while the staging directory is removed.
OpenOK(i) == opened[i] # "no" => pc[i] = "wipe"

ImporterOK(i) ==
    /\ "main" \in roots[i] \/ ~Running(i)
    /\ SeenOK(i) /\ MomentOK(i) /\ MapOK(i) /\ CopyOK(i)
    /\ ListsOK(i) /\ OwnOK(i) /\ PlacedOK(i) /\ OpenOK(i)

\* An import that is alone is the only one of its number that runs.
AloneOK == \A i, j \in Importers :
    alone[i] /\ Running(i) /\ Running(j) /\ dest[i] = dest[j] => i = j

StagesOK == \A d \in stages : \E j \in Importers :
    dest[j] = d /\ pc[j] \in Staging \cup {"dead", "broken"}

NothingOK == \A d \in Ids : \A t \in Targets : owner[d][t] = Nobody => final[d][t] = {}

\* A directory that was placed with an rmtree in it belongs to an import that ran
\* beside the one that removes.
MovedOK == \A i \in Importers : opened[i] = "placed" =>
    /\ owner[dest[i]]["companion"] # Nobody
    /\ ~alone[owner[dest[i]]["companion"]]

MigrationInv ==
    /\ ImportTypeOK
    /\ src \in past
    /\ AloneOK /\ StagesOK /\ NothingOK /\ MovedOK
    /\ \A i \in Importers : ImporterOK(i)

-----------------------------------------------------------------------------
\* What a step of one importer leaves alone: the other importers, the other
\* numbers, the source, and at its own number what is there by another import;
\* what is there by one that did not run alone it may shrink.
Rest(i) ==
    /\ UNCHANGED <<src, past, dest>>
    /\ \A j \in Importers \ {i} :
          /\ pc'[j] = pc[j] /\ todo'[j] = todo[j] /\ roots'[j] = roots[j]
          /\ seen'[j] = seen[j] /\ mapped'[j] = mapped[j]
          /\ committed'[j] = committed[j] /\ reserved'[j] = reserved[j]
          /\ (opened'[j] # "no" => opened[j] # "no") /\ outcome'[j] = outcome[j]
          /\ (alone'[j] => alone[j])
    /\ \A d \in Ids \ {dest[i]} :
          staged'[d] = staged[d] /\ final'[d] = final[d] /\ owner'[d] = owner[d]
    /\ \A t \in Targets :
          /\ owner'[dest[i]][t] \in {owner[dest[i]][t], i, Nobody}
          /\ owner[dest[i]][t] \notin {i, Nobody} =>
                /\ owner'[dest[i]][t] = owner[dest[i]][t]
                /\ final'[dest[i]][t] \subseteq final[dest[i]][t]
                /\ alone[owner[dest[i]][t]] => final'[dest[i]][t] = final[dest[i]][t]

\* Imports of one number that run side by side know of each other.
Apart(i) == \A j \in Importers \ {i} :
    dest[j] = dest[i] /\ Running(j) => ~alone'[i] /\ ~alone'[j]

\* The staging directory of the step's number is accounted for.
StageKept(i) ==
    /\ stages' \ {dest[i]} \subseteq stages
    /\ dest[i] \in stages' =>
          \/ pc'[i] \in Staging \cup {"dead", "broken"}
          \/ dest[i] \in stages /\ pc[i] \notin Staging \cup {"dead", "broken"}

\* A step of one importer keeps what is known of the others.
LEMMA OtherImporters ==
  ASSUME MigrationInv, NEW i \in Importers, Rest(i), Apart(i), StageKept(i),
         ImportTypeOK', ImporterOK(i)', NothingOK', MovedOK'
  PROVE  MigrationInv'
<1> USE ImportAssumption
<1>1. src' \in past'
  BY DEF MigrationInv, Rest
<1>2. ASSUME NEW j \in Importers \ {i} PROVE ImporterOK(j)'
  <2>1. /\ pc'[j] = pc[j] /\ todo'[j] = todo[j] /\ roots'[j] = roots[j]
        /\ seen'[j] = seen[j] /\ mapped'[j] = mapped[j]
        /\ committed'[j] = committed[j] /\ reserved'[j] = reserved[j]
        /\ (opened'[j] # "no" => opened[j] # "no") /\ outcome'[j] = outcome[j]
        /\ (alone'[j] => alone[j]) /\ dest' = dest
        /\ src' = src /\ past' = past
    BY DEF Rest
  <2>2. ImporterOK(j)
    BY DEF MigrationInv
  <2>3. dest \in [Importers -> Ids] /\ roots[j] \subseteq Sources /\ committed[j] \subseteq Targets
        /\ reserved[j] \subseteq Targets
    BY DEF MigrationInv, ImportTypeOK
  <2>4. Running(j) /\ alone'[j] =>
           staged'[dest[j]] = staged[dest[j]] /\ final'[dest[j]] = final[dest[j]]
    BY <2>3 DEF Apart, Rest
  <2>5. \A d \in Ids : \A t \in Targets : owner'[d][t] = j <=> owner[d][t] = j
    BY <2>3 DEF Rest
  <2>6. \A t \in Targets : owner[dest[j]][t] = j =>
           /\ final'[dest[j]][t] \subseteq final[dest[j]][t]
           /\ alone[j] => final'[dest[j]][t] = final[dest[j]][t]
    BY <2>3 DEF Rest
  <2>7. ("main" \in roots[j] \/ ~Running(j))'
    BY <2>1, <2>2 DEF ImporterOK, Running
  <2>8. SeenOK(j)' /\ MomentOK(j)' /\ MapOK(j)'
    BY <2>1, <2>2 DEF ImporterOK, SeenOK, MomentOK, MapOK, Doomed, Moved
  <2>9. CopyOK(j)'
    <3>1. CASE Running(j)
      BY <2>1, <2>2, <2>4, <3>1 DEF ImporterOK, CopyOK, Doomed, Moved, Now, AsSeen
    <3>2. CASE ~Running(j)
      BY <2>1, <3>2 DEF CopyOK, Running
    <3> QED BY <3>1, <3>2
  <2>10. ListsOK(j)'
    BY <2>1, <2>2 DEF ImporterOK, ListsOK, StagedTargets
  <2>11. OwnOK(j)'
    BY <2>1, <2>2, <2>3, <2>5, <2>6 DEF ImporterOK, OwnOK
  <2>12. PlacedOK(j)'
    <3>1. alone[j] => \A t \in committed[j] : final'[dest[j]][t] = final[dest[j]][t]
      BY <2>2, <2>3, <2>6 DEF ImporterOK, OwnOK
    <3> QED BY <2>1, <2>2, <3>1 DEF ImporterOK, PlacedOK
  <2>13. OpenOK(j)'
    BY <2>1, <2>2 DEF ImporterOK, OpenOK
  <2> QED BY <2>7, <2>8, <2>9, <2>10, <2>11, <2>12, <2>13 DEF ImporterOK
<1>3. AloneOK'
  <2> SUFFICES ASSUME NEW j \in Importers, NEW k \in Importers, Running(j)', Running(k)',
                      alone'[j], dest'[j] = dest'[k], j # k
               PROVE  FALSE
    BY DEF AloneOK
  <2>1. CASE j # i /\ k # i
    BY <2>1 DEF MigrationInv, AloneOK, Rest, Running
  <2>2. CASE j = i \/ k = i
    BY <2>2 DEF Apart, Rest, Running
  <2> QED BY <2>1, <2>2
<1>4. StagesOK'
  <2> SUFFICES ASSUME NEW d \in stages'
               PROVE  \E j \in Importers : dest[j] = d /\ pc'[j] \in Staging \cup {"dead", "broken"}
    BY DEF StagesOK, Rest
  <2>1. CASE d = dest[i] /\ pc'[i] \in Staging \cup {"dead", "broken"}
    BY <2>1
  <2>2. CASE d \in stages /\ (d # dest[i] \/ pc[i] \notin Staging \cup {"dead", "broken"})
    <3>1. PICK j \in Importers : dest[j] = d /\ pc[j] \in Staging \cup {"dead", "broken"}
      BY <2>2 DEF MigrationInv, StagesOK
    <3>2. j # i
      BY <2>2, <3>1
    <3> QED BY <3>1, <3>2 DEF Rest
  <2> QED BY <2>1, <2>2 DEF StageKept
<1> QED BY <1>1, <1>2, <1>3, <1>4 DEF MigrationInv

\* An importer that runs is alone, or neither it nor the other one is.
LEMMA RunsAlone ==
  ASSUME MigrationInv, NEW i \in Importers, Running(i), UNCHANGED alone
  PROVE  Apart(i)
BY DEF MigrationInv, AloneOK, Apart

\* An rmtree that is where it was is in the directory of the import it was in.
LEMMA MovedKept ==
  ASSUME MigrationInv, UNCHANGED <<dest, alone>>,
         \A j \in Importers : opened'[j] = "placed" =>
            opened[j] = "placed" /\ owner'[dest[j]]["companion"] = owner[dest[j]]["companion"]
  PROVE  MovedOK'
BY DEF MigrationInv, MovedOK

\* A change of step keeps the types.
LEMMA GoToTypes ==
  ASSUME ImportTypeOK, NEW i \in Importers, NEW step \in Steps,
         NEW list \in SUBSET (Parts \cup Targets \cup Directories), GoTo(i, step, list)
  PROVE  /\ pc' \in [Importers -> Steps] /\ pc'[i] = step
         /\ todo' \in [Importers -> SUBSET (Parts \cup Targets \cup Directories)] /\ todo'[i] = list
         /\ \A j \in Importers \ {i} : pc'[j] = pc[j] /\ todo'[j] = todo[j]
BY DEF ImportTypeOK, GoTo

\* After the body, or out of it, nothing is to be known of the copies.
LEMMA Left ==
  ASSUME NEW i \in Importers, pc'[i] \in Steps \ (Read \cup {"fingerprint"})
  PROVE  SeenOK(i)' /\ MomentOK(i)' /\ MapOK(i)' /\ CopyOK(i)'
<1>1. pc'[i] \notin Read /\ pc'[i] # "fingerprint"
  OBVIOUS
<1>2. pc'[i] \notin {"again", "manifest", "validate", "reserve", "replace", "verify", "copy", "map"}
  BY <1>1 DEF Read
<1> QED BY <1>1, <1>2 DEF SeenOK, MomentOK, MapOK, CopyOK

\* The directories, the lock and the staging directories have their types.
HomeOK ==
    /\ dirs \subseteq Directories /\ inode \in Nat /\ held \in [Importers -> 0 .. inode]
    /\ created \in [Importers -> SUBSET Directories] /\ stages \subseteq Ids

\* A step that places nothing and reads nothing has the types it had.
LEMMA ControlTypes ==
  ASSUME ImportTypeOK, HomeOK', NEW i \in Importers, NEW step \in Steps,
         NEW list \in SUBSET (Parts \cup Targets \cup Directories), GoTo(i, step, list),
         UNCHANGED <<source, staged, places, dest, roots, seen, mapped, reserved, committed, alone>>,
         opened' \in [Importers -> {"no", "staged", "placed"}], outcome' \in [Importers -> {"done", "failed", "broken"}]
  PROVE  ImportTypeOK'
<1>1. /\ pc' \in [Importers -> Steps]
      /\ todo' \in [Importers -> SUBSET (Parts \cup Targets \cup Directories)]
  BY GoToTypes
<1> QED BY <1>1 DEF ImportTypeOK, HomeOK, source, places

\* Such a step is about its importer alone.
LEMMA ControlRest ==
  ASSUME ImportTypeOK, NEW i \in Importers, NEW step \in Steps,
         NEW list \in SUBSET (Parts \cup Targets \cup Directories), GoTo(i, step, list),
         UNCHANGED <<source, staged, places, dest, roots, seen, mapped, reserved, committed, alone>>,
         \A j \in Importers \ {i} : opened'[j] \in {"no", opened[j]} /\ outcome'[j] = outcome[j]
  PROVE  Rest(i)
<1>1. \A j \in Importers \ {i} : pc'[j] = pc[j] /\ todo'[j] = todo[j]
  BY GoToTypes
<1> QED BY <1>1 DEF Rest, source, places

\* An exception: the lists stay for the except clause.
LEMMA ThrowKeeps ==
  ASSUME MigrationInv, NEW i \in Importers, pc[i] \in Body, Throw(i), HomeOK',
         UNCHANGED <<source, stages, staged, places, dest, roots, seen, mapped, reserved, committed,
                     opened, outcome, alone>>
  PROVE  MigrationInv'
<1>1. "undo" \in Steps /\ {} \in SUBSET (Parts \cup Targets \cup Directories) /\ ImportTypeOK
  BY DEF Steps, MigrationInv
<1>2. GoTo(i, "undo", {})
  BY DEF Throw
<1>3. ImportTypeOK'
  BY <1>1, <1>2, ControlTypes DEF ImportTypeOK
<1>4. Rest(i)
  BY <1>1, <1>2, ControlRest
<1>5. pc'[i] = "undo" /\ Running(i)
  BY <1>1, <1>2, GoToTypes DEF Running, Body
<1>6. StageKept(i)
  BY <1>5 DEF StageKept, Staging
<1>7. SeenOK(i)' /\ MomentOK(i)' /\ MapOK(i)' /\ CopyOK(i)'
  BY <1>1, <1>5, Left DEF Read
<1>8. ImporterOK(i)
  BY DEF MigrationInv
<1>9. /\ ListsOK(i)' /\ OwnOK(i)' /\ PlacedOK(i)'
  BY <1>5, <1>8 DEF ImporterOK, ListsOK, OwnOK, PlacedOK, source, places
<1>10. OpenOK(i)'
  BY <1>5, <1>8 DEF ImporterOK, OpenOK, Body
<1>11. ("main" \in roots[i] \/ ~Running(i))'
  BY <1>5, <1>8 DEF ImporterOK
<1>12. NothingOK' /\ MovedOK'
  BY DEF MigrationInv, NothingOK, MovedOK, places
<1> QED BY <1>3, <1>4, <1>5, <1>6, <1>7, <1>9, <1>10, <1>11, <1>12, RunsAlone, OtherImporters DEF ImporterOK

\* The steps between the map and the copies keep what the fingerprint is good for.
LEMMA PrepareKeeps ==
  ASSUME MigrationInv, NEW i \in Importers, pc[i] \in {"home", "lock", "projects", "stage"},
         NEW step \in {"lock", "projects", "stage", "copy"},
         NEW list \in SUBSET (Parts \cup Targets \cup Directories), GoTo(i, step, list),
         step = "copy" => roots[i] \subseteq list,
         HomeOK', stages' \ {dest[i]} \subseteq stages,
         dest[i] \in stages' => dest[i] \in stages \/ step = "copy",
         UNCHANGED <<source, staged, places, dest, roots, seen, mapped, reserved, committed,
                     opened, outcome, alone>>
  PROVE  MigrationInv'
<1>1. step \in Steps /\ ImportTypeOK
  BY DEF Steps, Body, MigrationInv
<1>3. ImportTypeOK'
  BY <1>1, ControlTypes DEF ImportTypeOK
<1>4. Rest(i)
  BY <1>1, ControlRest
<1>5. pc'[i] = step /\ todo'[i] = list /\ Running(i)
  BY <1>1, GoToTypes DEF Running
<1>6. StageKept(i)
  BY <1>5 DEF StageKept, Staging
<1>7. ImporterOK(i)
  BY DEF MigrationInv
<1>8. pc[i] \in Read \ {"map"} /\ pc'[i] \in Read \ {"map"}
  BY <1>5 DEF Read
<1>9. \A p \in roots[i] : Doomed(i, p)' <=> Doomed(i, p)
  BY <1>5 DEF Doomed, Moved, source
<1>10. SeenOK(i)' /\ MomentOK(i)' /\ MapOK(i)'
  BY <1>7, <1>8, <1>9 DEF ImporterOK, SeenOK, MomentOK, MapOK, Moved, source
<1>11. CopyOK(i)'
  BY <1>5 DEF CopyOK
<1>12. ListsOK(i)'
  BY <1>5, <1>7 DEF ImporterOK, ListsOK
<1>13. OwnOK(i)' /\ PlacedOK(i)'
  BY <1>7 DEF ImporterOK, OwnOK, PlacedOK, source, places
<1>14. OpenOK(i)'
  BY <1>7 DEF ImporterOK, OpenOK
<1>15. ("main" \in roots[i] \/ ~Running(i))'
  BY <1>5, <1>7 DEF ImporterOK
<1>16. NothingOK' /\ MovedOK'
  BY DEF MigrationInv, NothingOK, MovedOK, places
<1> QED BY <1>3, <1>4, <1>5, <1>6, <1>10, <1>11, <1>12, <1>13, <1>14, <1>15, <1>16,
           RunsAlone, OtherImporters DEF ImporterOK

\* What making a directory does to the types.
LEMMA EnsureTypes ==
  ASSUME ImportTypeOK, NEW i \in Importers, NEW d \in Directories, Ensure(i, d), UNCHANGED <<held, stages>>
  PROVE  HomeOK'
<1>1. inode' \in {inode, inode + 1} /\ inode \in Nat /\ held \in [Importers -> 0 .. inode]
  BY DEF Ensure, ImportTypeOK
<1>2. held' \in [Importers -> 0 .. inode'] /\ inode' \in Nat
  BY <1>1
<1>3. created' \in [Importers -> SUBSET Directories] /\ dirs' \subseteq Directories
  BY DEF Ensure, ImportTypeOK
<1> QED BY <1>2, <1>3 DEF HomeOK, ImportTypeOK

\* The directories and the lock, in the order of the body.
LEMMA HomeKeeps ==
  ASSUME MigrationInv, NEW i \in Importers,
         EnsureHome(i) \/ AcquireLock(i) \/ EnsureProjects(i) \/ MakeStage(i)
  PROVE  MigrationInv'
<1>1. ImportTypeOK /\ HomeOK
  BY DEF MigrationInv, ImportTypeOK, HomeOK
<1>2. {} \in SUBSET (Parts \cup Targets \cup Directories) /\ "claude" \in Directories /\ "projects" \in Directories
  BY DEF Directories
<1>3. CASE EnsureHome(i)
  <2>1. HomeOK' /\ GoTo(i, "lock", {}) /\ pc[i] = "home"
    BY <1>1, <1>2, <1>3, EnsureTypes DEF EnsureHome, At, staging
  <2>2. UNCHANGED <<source, stages, staged, places, dest, roots, seen, mapped, reserved, committed, opened, outcome, alone>>
    BY <1>3 DEF EnsureHome, staging
  <2> QED BY <1>2, <2>1, <2>2, PrepareKeeps
<1>4. CASE AcquireLock(i)
  <2>1. pc[i] = "lock" /\ (Throw(i) \/ GoTo(i, "projects", {}))
    BY <1>4 DEF AcquireLock, At
  <2>2. UNCHANGED <<source, stages, staged, places, dest, roots, seen, mapped, created, reserved, committed,
                    opened, outcome, alone, dirs, inode>>
    BY <1>4 DEF AcquireLock, staging, local
  <2>3. HomeOK'
    BY <1>1, <1>4, <2>2 DEF AcquireLock, HomeOK
  <2> QED BY <1>2, <2>1, <2>2, <2>3, PrepareKeeps, ThrowKeeps DEF Body
<1>5. CASE EnsureProjects(i)
  <2>1. UNCHANGED <<source, stages, staged, places, dest, roots, seen, mapped, reserved, committed, opened, outcome, alone, held>>
    BY <1>5 DEF EnsureProjects, staging
  <2>2. pc[i] = "projects"
    BY <1>5 DEF EnsureProjects, At
  <2>3. CASE Throw(i) /\ UNCHANGED <<dirs, created, inode>>
    <3>1. HomeOK'
      BY <1>1, <2>1, <2>3 DEF HomeOK
    <3> QED BY <2>1, <2>2, <2>3, <3>1, ThrowKeeps DEF Body
  <2>4. CASE Ensure(i, "projects") /\ GoTo(i, "stage", {})
    <3>1. HomeOK'
      BY <1>1, <1>2, <2>1, <2>4, EnsureTypes
    <3> QED BY <1>2, <2>1, <2>2, <2>4, <3>1, PrepareKeeps
  <2> QED BY <1>5, <2>3, <2>4 DEF EnsureProjects
<1>6. CASE MakeStage(i)
  <2>1. UNCHANGED <<source, staged, places, dest, roots, seen, mapped, created, reserved, committed, opened, outcome, alone>>
        /\ UNCHANGED <<dirs, inode, held>>
    BY <1>6 DEF MakeStage, local, home
  <2>2. pc[i] = "stage"
    BY <1>6 DEF MakeStage, At
  <2>3. CASE Throw(i) /\ UNCHANGED stages
    <3>1. HomeOK'
      BY <1>1, <2>1, <2>3 DEF HomeOK
    <3> QED BY <2>1, <2>2, <2>3, <3>1, ThrowKeeps DEF Body
  <2>4. CASE stages' = stages \cup {dest[i]} /\ GoTo(i, "copy", Sources)
    <3>1. HomeOK'
      BY <1>1, <2>1, <2>4 DEF HomeOK, ImportTypeOK
    <3>2. Sources \in SUBSET (Parts \cup Targets \cup Directories) /\ roots[i] \subseteq Sources
      BY <1>1, ImportAssumption DEF ImportTypeOK
    <3> QED BY <2>1, <2>2, <2>4, <3>1, <3>2, PrepareKeeps
  <2> QED BY <1>6, <2>3, <2>4 DEF MakeStage
<1> QED BY <1>3, <1>4, <1>5, <1>6

\* An import begins; one of the same number that runs is no longer alone.
LEMMA BeginKeeps ==
  ASSUME MigrationInv, NEW i \in Importers, Begin(i)
  PROVE  MigrationInv'
<1> USE ImportAssumption
<1>1. ImportTypeOK /\ ImporterOK(i)
  BY DEF MigrationInv
<1>2. pc[i] = "idle" /\ Apart(i) /\ alone' \in [Importers -> BOOLEAN]
      /\ \A j \in Importers : alone'[j] => alone[j]
  BY <1>1 DEF Begin, At, Apart, Rivals, ImportTypeOK
<1>3. UNCHANGED <<src, past, dest, dirs, inode, held, stages, staged, final, owner, seen, mapped,
                  created, reserved, committed, opened, outcome>>
  BY DEF Begin, source, tree, home, staging, places
<1>4. roots' = [roots EXCEPT ![i] = {p \in Sources : Exists(p)}]
  BY DEF Begin
<1>5. /\ roots' \in [Importers -> SUBSET Sources] /\ roots'[i] = {p \in Sources : Exists(p)}
      /\ \A j \in Importers \ {i} : roots'[j] = roots[j]
  BY <1>1, <1>4 DEF ImportTypeOK
<1>6. /\ pc' \in [Importers -> Steps]
      /\ todo' \in [Importers -> SUBSET (Parts \cup Targets \cup Directories)]
      /\ \A j \in Importers \ {i} : pc'[j] = pc[j] /\ todo'[j] = todo[j]
      /\ \/ pc'[i] = "fingerprint" /\ todo'[i] = roots'[i] /\ "main" \in roots'[i]
         \/ pc'[i] = "failed"
  <2>1. {"fingerprint", "failed"} \subseteq Steps /\ roots'[i] \in SUBSET (Parts \cup Targets \cup Directories)
    BY <1>5 DEF Steps
  <2>2. \/ GoTo(i, "fingerprint", roots'[i]) /\ Exists("main")
        \/ GoTo(i, "failed", {})
    BY DEF Begin
  <2>3. "main" \in Sources
    OBVIOUS
  <2> QED BY <1>1, <1>5, <2>1, <2>2, <2>3, GoToTypes
<1>7. ImportTypeOK'
  BY <1>1, <1>2, <1>3, <1>5, <1>6 DEF ImportTypeOK
<1>8. Rest(i)
  BY <1>2, <1>3, <1>5, <1>6 DEF Rest
<1>9. StageKept(i)
  BY <1>2, <1>3 DEF StageKept, Staging
<1>10. SeenOK(i)' /\ MomentOK(i)' /\ MapOK(i)' /\ CopyOK(i)'
  BY <1>6 DEF SeenOK, MomentOK, MapOK, CopyOK, Read
<1>11. ListsOK(i)' /\ PlacedOK(i)'
  BY <1>1, <1>2, <1>3, <1>6 DEF ImporterOK, ListsOK, PlacedOK
<1>12. OwnOK(i)' /\ OpenOK(i)'
  BY <1>1, <1>2, <1>3, <1>6 DEF ImporterOK, OwnOK, OpenOK
<1>13. ("main" \in roots[i] \/ ~Running(i))'
  BY <1>6 DEF Running
<1>14. owner \in [Ids -> [Targets -> Importers \cup {Nobody}]] /\ dest \in [Importers -> Ids]
  BY <1>1 DEF ImportTypeOK
<1>15. NothingOK' /\ MovedOK'
  <2>1. NothingOK'
    BY <1>3 DEF MigrationInv, NothingOK
  <2>2. "companion" \in Targets
    BY DEF Targets
  <2>3. MovedOK'
    BY <1>2, <1>3, <1>14, <2>2 DEF MigrationInv, MovedOK
  <2> QED BY <2>1, <2>3
<1> QED BY <1>2, <1>7, <1>8, <1>9, <1>10, <1>11, <1>12, <1>13, <1>15, OtherImporters DEF ImporterOK

\* One member of a list is done.
LEMMA OnToTypes ==
  ASSUME ImportTypeOK, NEW i \in Importers, NEW p \in todo[i], NEW step \in Steps,
         NEW list \in SUBSET (Parts \cup Targets \cup Directories), OnTo(i, p, step, list)
  PROVE  /\ pc' \in [Importers -> Steps]
         /\ todo' \in [Importers -> SUBSET (Parts \cup Targets \cup Directories)]
         /\ \A j \in Importers \ {i} : pc'[j] = pc[j] /\ todo'[j] = todo[j]
         /\ \/ todo[i] = {p} /\ pc'[i] = step /\ todo'[i] = list
            \/ todo[i] # {p} /\ pc'[i] = pc[i] /\ todo'[i] = todo[i] \ {p}
<1>1. pc[i] \in Steps /\ todo[i] \ {p} \in SUBSET (Parts \cup Targets \cup Directories)
  BY DEF ImportTypeOK
<1>2. CASE todo[i] = {p}
  <2>1. GoTo(i, step, list)
    BY <1>2 DEF OnTo
  <2> QED BY <1>2, <2>1, GoToTypes
<1>3. CASE todo[i] # {p}
  <2>1. GoTo(i, pc[i], todo[i] \ {p})
    BY <1>3 DEF OnTo
  <2> QED BY <1>1, <1>3, <2>1, GoToTypes
<1> QED BY <1>2, <1>3

\* The first fingerprint: when it is complete, the source as it is now is the
\* moment, but for the parts that have moved since they were read.
LEMMA FingerprintKeeps ==
  ASSUME MigrationInv, NEW i \in Importers, Fingerprint(i)
  PROVE  MigrationInv'
<1> USE ImportAssumption
<1>1. ImportTypeOK /\ ImporterOK(i)
  BY DEF MigrationInv
<1>2. pc[i] = "fingerprint"
  BY DEF Fingerprint, At
<1>3. UNCHANGED <<src, past, dest, dirs, inode, held, stages, staged, final, owner, roots, mapped,
                  created, reserved, committed, opened, outcome, alone>>
  BY DEF Fingerprint, source, tree, home, staging, places
<1>4. PICK p \in Sources :
         /\ p \in todo[i] /\ seen' = [seen EXCEPT ![i][p] = src[p]]
         /\ \/ Exists(p) /\ OnTo(i, p, "map", roots[i])
            \/ GoTo(i, "failed", {})
  BY DEF Fingerprint, Turn
<1>5. /\ seen' \in [Importers -> [Sources -> Int]]
      /\ seen'[i][p] = src[p] /\ \A q \in Sources \ {p} : seen'[i][q] = seen[i][q]
      /\ \A j \in Importers \ {i} : seen'[j] = seen[j]
  BY <1>1, <1>4 DEF ImportTypeOK
<1>6. /\ {"map", "failed"} \subseteq Steps /\ roots[i] \in SUBSET (Parts \cup Targets \cup Directories)
      /\ {} \in SUBSET (Parts \cup Targets \cup Directories) /\ roots[i] \subseteq Sources
  BY <1>1 DEF Steps, ImportTypeOK
<1>7. /\ pc' \in [Importers -> Steps]
      /\ todo' \in [Importers -> SUBSET (Parts \cup Targets \cup Directories)]
      /\ \A j \in Importers \ {i} : pc'[j] = pc[j] /\ todo'[j] = todo[j]
      /\ \/ pc'[i] = "map" /\ todo[i] = {p} /\ todo'[i] = roots[i] /\ src[p] > 0
         \/ pc'[i] = "fingerprint" /\ todo'[i] = todo[i] \ {p} /\ src[p] > 0
         \/ pc'[i] = "failed"
  BY <1>1, <1>2, <1>4, <1>6, OnToTypes, GoToTypes DEF Exists
<1>8. ImportTypeOK'
  BY <1>1, <1>3, <1>5, <1>7 DEF ImportTypeOK
<1>9. Rest(i) /\ StageKept(i)
  BY <1>2, <1>3, <1>5, <1>7 DEF Rest, StageKept, Staging
<1>10. \A q \in roots[i] \ todo[i] : seen[i][q] > 0 /\ (src[q] = seen[i][q] \/ Moved(q, seen[i][q]))
  BY <1>1, <1>2 DEF ImporterOK, SeenOK
<1>11. SeenOK(i)'
  <2> SUFFICES ASSUME NEW q \in roots[i], pc'[i] \in Read \/ (pc'[i] = "fingerprint" /\ q \notin todo'[i])
               PROVE  seen'[i][q] > 0 /\ (src[q] = seen'[i][q] \/ Moved(q, seen'[i][q]))
    BY <1>3 DEF SeenOK, Moved
  <2>1. q = p \/ q \notin todo[i]
    BY <1>7 DEF Read
  <2>2. src[p] > 0
    BY <1>7 DEF Read
  <2> QED BY <1>5, <1>6, <1>10, <2>1, <2>2
<1>12. MomentOK(i)'
  <2> SUFFICES ASSUME pc'[i] \in Read
               PROVE  \E s \in past : \A q \in roots[i] : s[q] = seen'[i][q] \/ Doomed(i, q)'
    BY <1>3 DEF MomentOK
  <2>1. pc'[i] = "map"
    BY <1>7 DEF Read
  <2>2. \A q \in roots[i] : src[q] = seen'[i][q] \/ Doomed(i, q)'
    BY <1>3, <1>11, <2>1 DEF SeenOK, Doomed, Moved, Read
  <2> QED BY <2>2 DEF MigrationInv
<1>13. MapOK(i)' /\ CopyOK(i)'
  BY <1>3, <1>7 DEF MapOK, CopyOK, Read
<1>14. ListsOK(i)' /\ PlacedOK(i)' /\ OwnOK(i)' /\ OpenOK(i)'
  BY <1>1, <1>2, <1>3, <1>7 DEF ImporterOK, ListsOK, PlacedOK, OwnOK, OpenOK
<1>15. ("main" \in roots[i] \/ ~Running(i))' /\ Running(i)
  BY <1>1, <1>2, <1>3 DEF Running, ImporterOK
<1>16. NothingOK' /\ MovedOK'
  BY <1>3 DEF MigrationInv, NothingOK, MovedOK
<1> QED BY <1>3, <1>8, <1>9, <1>11, <1>12, <1>13, <1>14, <1>15, <1>16, RunsAlone, OtherImporters DEF ImporterOK

\* The identifiers are collected from the version that was read, or the part
\* has moved.
LEMMA MapIdentifiersKeeps ==
  ASSUME MigrationInv, NEW i \in Importers, MapIdentifiers(i)
  PROVE  MigrationInv'
<1> USE ImportAssumption
<1>1. ImportTypeOK /\ ImporterOK(i)
  BY DEF MigrationInv
<1>2. pc[i] = "map"
  BY DEF MapIdentifiers, At
<1>3. UNCHANGED <<src, past, dest, dirs, inode, held, stages, staged, final, owner, roots, seen,
                  created, reserved, committed, opened, outcome, alone>>
  BY DEF MapIdentifiers, source, tree, home, staging, places
<1>4. PICK p \in Sources :
         p \in todo[i] /\ mapped' = [mapped EXCEPT ![i][p] = src[p]] /\ OnTo(i, p, "home", {})
  BY DEF MapIdentifiers, Turn
<1>5. /\ mapped' \in [Importers -> [Sources -> Int]]
      /\ mapped'[i][p] = src[p] /\ \A q \in Sources \ {p} : mapped'[i][q] = mapped[i][q]
      /\ \A j \in Importers \ {i} : mapped'[j] = mapped[j]
  BY <1>1, <1>4 DEF ImportTypeOK
<1>6. "home" \in Steps /\ {} \in SUBSET (Parts \cup Targets \cup Directories) /\ roots[i] \subseteq Sources
  BY <1>1 DEF Steps, Body, ImportTypeOK
<1>7. /\ pc' \in [Importers -> Steps]
      /\ todo' \in [Importers -> SUBSET (Parts \cup Targets \cup Directories)]
      /\ \A j \in Importers \ {i} : pc'[j] = pc[j] /\ todo'[j] = todo[j]
      /\ \/ pc'[i] = "home" /\ todo[i] = {p}
         \/ pc'[i] = "map" /\ todo'[i] = todo[i] \ {p}
  BY <1>1, <1>2, <1>4, <1>6, OnToTypes
<1>8. ImportTypeOK'
  BY <1>1, <1>3, <1>5, <1>7 DEF ImportTypeOK
<1>9. Rest(i) /\ StageKept(i)
  BY <1>2, <1>3, <1>5, <1>7 DEF Rest, StageKept, Staging
<1>10. \A q \in roots[i] : Doomed(i, q)' <=> Moved(q, seen[i][q])
  BY <1>3, <1>7 DEF Doomed, Moved
<1>11. \A q \in roots[i] : Doomed(i, q) <=> Moved(q, seen[i][q])
  BY <1>2 DEF Doomed
<1>12. SeenOK(i)' /\ MomentOK(i)'
  BY <1>1, <1>2, <1>3, <1>7, <1>10, <1>11 DEF ImporterOK, SeenOK, MomentOK, Read, Moved
<1>13. MapOK(i)'
  <2> SUFFICES ASSUME NEW q \in roots[i], pc'[i] \in Read \ {"map"} \/ (pc'[i] = "map" /\ q \notin todo'[i])
               PROVE  mapped'[i][q] = seen[i][q] \/ Moved(q, seen[i][q])
    BY <1>3, <1>10 DEF MapOK
  <2>1. q = p \/ q \notin todo[i]
    BY <1>7
  <2>2. src[q] = seen[i][q] \/ Moved(q, seen[i][q])
    BY <1>1, <1>2 DEF ImporterOK, SeenOK, Read
  <2>3. q \notin todo[i] => mapped[i][q] = seen[i][q] \/ Moved(q, seen[i][q])
    BY <1>1, <1>2, <1>11 DEF ImporterOK, MapOK
  <2> QED BY <1>5, <1>6, <2>1, <2>2, <2>3
<1>14. CopyOK(i)'
  BY <1>7 DEF CopyOK
<1>15. ListsOK(i)' /\ PlacedOK(i)' /\ OwnOK(i)' /\ OpenOK(i)'
  BY <1>1, <1>2, <1>3, <1>7 DEF ImporterOK, ListsOK, PlacedOK, OwnOK, OpenOK
<1>16. ("main" \in roots[i] \/ ~Running(i))' /\ Running(i)
  BY <1>1, <1>2, <1>3 DEF Running, ImporterOK
<1>17. NothingOK' /\ MovedOK'
  BY <1>3 DEF MigrationInv, NothingOK, MovedOK
<1> QED BY <1>3, <1>8, <1>9, <1>12, <1>13, <1>14, <1>15, <1>16, <1>17, RunsAlone, OtherImporters DEF ImporterOK

\* Writing into the staging directory only adds to it.
LEMMA StageTypes ==
  ASSUME ImportTypeOK, NEW i \in Importers, NEW target \in Targets, NEW items \in SUBSET Item,
         Stage(i, target, items), UNCHANGED <<held, created>>
  PROVE  /\ HomeOK' /\ stages' = stages \cup {dest[i]}
         /\ staged' \in [Ids -> [Targets -> SUBSET Item]]
         /\ \A d \in Ids \ {dest[i]} : staged'[d] = staged[d]
         /\ items \subseteq staged'[dest[i]][target]
         /\ \A t \in Targets : staged[dest[i]][t] \subseteq staged'[dest[i]][t]
<1>1. inode' \in {inode, inode + 1} /\ inode \in Nat /\ held \in [Importers -> 0 .. inode]
  BY DEF Stage, ImportTypeOK
<1>2. held' \in [Importers -> 0 .. inode'] /\ inode' \in Nat
  BY <1>1
<1>3. /\ created' \in [Importers -> SUBSET Directories] /\ dirs' \subseteq Directories
      /\ dest[i] \in Ids /\ stages' = stages \cup {dest[i]} /\ stages' \subseteq Ids
  BY DEF Stage, ImportTypeOK, Directories
<1>4. HomeOK'
  BY <1>2, <1>3 DEF HomeOK
<1>5. staged' = [staged EXCEPT ![dest[i]][target] = staged[dest[i]][target] \cup items]
  BY DEF Stage
<1>6. staged \in [Ids -> [Targets -> SUBSET Item]]
  BY DEF ImportTypeOK
<1> QED BY <1>3, <1>4, <1>5, <1>6

\* A part is copied as it is: as it was read, or the import is doomed.
LEMMA CopyPartKeeps ==
  ASSUME MigrationInv, NEW i \in Importers, CopyPart(i)
  PROVE  MigrationInv'
<1> USE ImportAssumption
<1>1. ImportTypeOK /\ ImporterOK(i) /\ HomeOK
  BY DEF MigrationInv, ImportTypeOK, HomeOK
<1>2. pc[i] = "copy"
  BY DEF CopyPart, At
<1>3. UNCHANGED <<src, past, dest, held, final, owner, roots, seen, mapped, created, reserved, committed,
                  opened, outcome, alone>>
  BY DEF CopyPart, source, places, local
<1>4. PICK p \in Sources :
         /\ p \in todo[i]
         /\ \/ /\ IF Wanted(i, p)
                  THEN Stage(i, Into(p), IF Exists(p) THEN {Copied(i, p)} ELSE {})
                  ELSE UNCHANGED <<stages, staged, dirs, inode>>
               /\ p = "main" => Exists(p)
               /\ OnTo(i, p, "again", roots[i])
            \/ Throw(i) /\ UNCHANGED <<stages, staged, dirs, inode>>
  BY DEF CopyPart, Turn, staging
<1>5. CASE Throw(i) /\ UNCHANGED <<stages, staged, dirs, inode>>
  <2>1. HomeOK'
    BY <1>1, <1>3, <1>5 DEF HomeOK
  <2> QED BY <1>2, <1>3, <1>5, <2>1, ThrowKeeps DEF Body, source, places
<1>6. CASE /\ IF Wanted(i, p)
              THEN Stage(i, Into(p), IF Exists(p) THEN {Copied(i, p)} ELSE {})
              ELSE UNCHANGED <<stages, staged, dirs, inode>>
           /\ p = "main" => Exists(p)
           /\ OnTo(i, p, "again", roots[i])
  <2>1. /\ Exists(p) => Copied(i, p) \in Item
        /\ Into(p) \in Targets
    <3>1. src[p] \in Int /\ mapped[i][p] \in Int /\ p \in Parts
      BY <1>1 DEF ImportTypeOK
    <3> QED BY <3>1 DEF Copied, Item, Exists, Into, Targets
  <2>2. /\ HomeOK' /\ staged' \in [Ids -> [Targets -> SUBSET Item]]
        /\ stages' \subseteq stages \cup {dest[i]}
        /\ \A d \in Ids \ {dest[i]} : staged'[d] = staged[d]
        /\ \A t \in Targets : staged[dest[i]][t] \subseteq staged'[dest[i]][t]
        /\ Wanted(i, p) /\ Exists(p) => Copied(i, p) \in staged'[dest[i]][Into(p)]
    <3>1. CASE Wanted(i, p)
      <4> DEFINE items == IF Exists(p) THEN {Copied(i, p)} ELSE {}
      <4>1. items \in SUBSET Item /\ Stage(i, Into(p), items)
        BY <1>6, <2>1, <3>1
      <4> HIDE DEF items
      <4>2. /\ HomeOK' /\ staged' \in [Ids -> [Targets -> SUBSET Item]]
            /\ stages' = stages \cup {dest[i]}
            /\ \A d \in Ids \ {dest[i]} : staged'[d] = staged[d]
            /\ \A t \in Targets : staged[dest[i]][t] \subseteq staged'[dest[i]][t]
            /\ items \subseteq staged'[dest[i]][Into(p)]
        BY <1>1, <1>3, <2>1, <4>1, StageTypes
      <4> QED BY <4>2 DEF items
    <3>2. CASE ~Wanted(i, p)
      BY <1>1, <1>3, <1>6, <3>2 DEF HomeOK, ImportTypeOK
    <3> QED BY <3>1, <3>2
  <2>3. "again" \in Steps /\ roots[i] \in SUBSET (Parts \cup Targets \cup Directories) /\ roots[i] \subseteq Sources
    BY <1>1 DEF Steps, Body, ImportTypeOK
  <2>4. /\ pc' \in [Importers -> Steps]
        /\ todo' \in [Importers -> SUBSET (Parts \cup Targets \cup Directories)]
        /\ \A j \in Importers \ {i} : pc'[j] = pc[j] /\ todo'[j] = todo[j]
        /\ \/ pc'[i] = "again" /\ todo[i] = {p} /\ todo'[i] = roots[i]
           \/ pc'[i] = "copy" /\ todo'[i] = todo[i] \ {p}
    BY <1>1, <1>2, <1>4, <1>6, <2>3, OnToTypes
  <2>5. ImportTypeOK'
    BY <1>1, <1>3, <2>2, <2>4 DEF ImportTypeOK, HomeOK
  <2>6. Rest(i)
    BY <1>3, <2>2, <2>4 DEF Rest
  <2>7. StageKept(i)
    BY <2>2, <2>4 DEF StageKept, Staging
  <2>8. \A q \in roots[i] : Doomed(i, q)' <=> Moved(q, seen[i][q])
    BY <1>3, <2>4 DEF Doomed, Moved
  <2>9. \A q \in roots[i] : Doomed(i, q) <=> Moved(q, seen[i][q])
    BY <1>2 DEF Doomed
  <2>10. SeenOK(i)' /\ MomentOK(i)' /\ MapOK(i)'
    BY <1>1, <1>2, <1>3, <2>4, <2>8, <2>9 DEF ImporterOK, SeenOK, MomentOK, MapOK, Read, Moved
  <2>11. committed[i] = {}
    BY <1>1, <1>2 DEF ImporterOK, ListsOK
  <2>12. CopyOK(i)'
    <3> SUFFICES ASSUME alone[i], NEW q \in roots[i], pc'[i] = "again" \/ (pc'[i] = "copy" /\ q \notin todo'[i])
                 PROVE  AsSeen(i, q) \in staged'[dest[i]][Into(q)] \/ Moved(q, seen[i][q])
      BY <1>3, <2>4, <2>8, <2>11 DEF CopyOK, Now, AsSeen
    <3>1. CASE q = p
      <4>1. seen[i][p] > 0 /\ (src[p] = seen[i][p] \/ Moved(p, seen[i][p]))
        BY <1>1, <1>2, <3>1 DEF ImporterOK, SeenOK, Read
      <4>2. mapped[i][p] = seen[i][p] \/ Moved(p, seen[i][p])
        BY <1>1, <1>2, <2>9, <3>1 DEF ImporterOK, MapOK, Read
      <4>3. CASE src[p] = seen[i][p] /\ mapped[i][p] = seen[i][p]
        <5>1. Exists(p) /\ Wanted(i, p) /\ Copied(i, p) = AsSeen(i, p)
          BY <3>1, <4>1, <4>3 DEF Exists, Wanted, Copied, AsSeen
        <5> QED BY <2>2, <3>1, <5>1
      <4> QED BY <3>1, <4>1, <4>2, <4>3
    <3>2. CASE q # p
      <4>1. q \notin todo[i] /\ Into(q) \in Targets
        BY <2>4, <3>2 DEF Into, Targets
      <4>2. AsSeen(i, q) \in staged[dest[i]][Into(q)] \/ Moved(q, seen[i][q])
        BY <1>1, <1>2, <2>9, <2>11, <4>1 DEF ImporterOK, CopyOK, Now
      <4> QED BY <2>2, <4>1, <4>2
    <3> QED BY <3>1, <3>2
  <2>13. ListsOK(i)' /\ PlacedOK(i)' /\ OwnOK(i)' /\ OpenOK(i)'
    BY <1>1, <1>2, <1>3, <2>4 DEF ImporterOK, ListsOK, PlacedOK, OwnOK, OpenOK
  <2>14. ("main" \in roots[i] \/ ~Running(i))' /\ Running(i)
    BY <1>1, <1>2, <1>3 DEF Running, ImporterOK
  <2>15. NothingOK' /\ MovedOK'
    BY <1>3 DEF MigrationInv, NothingOK, MovedOK
  <2> QED BY <1>3, <2>5, <2>6, <2>7, <2>10, <2>12, <2>13, <2>14, <2>15, RunsAlone, OtherImporters DEF ImporterOK
<1> QED BY <1>4, <1>5, <1>6

\* The second fingerprint settles a part: it has not moved, so what was copied
\* is what was read.
LEMMA FingerprintAgainKeeps ==
  ASSUME MigrationInv, NEW i \in Importers, FingerprintAgain(i)
  PROVE  MigrationInv'
<1> USE ImportAssumption
<1>1. ImportTypeOK /\ ImporterOK(i) /\ HomeOK
  BY DEF MigrationInv, ImportTypeOK, HomeOK
<1>2. pc[i] = "again"
  BY DEF FingerprintAgain, At
<1>3. UNCHANGED <<src, past, dest, dirs, inode, held, stages, staged, final, owner, roots, seen, mapped,
                  created, reserved, committed, opened, outcome, alone>>
  BY DEF FingerprintAgain, source, tree, home, staging, places, local
<1>4. PICK p \in Sources :
         /\ p \in todo[i]
         /\ \/ Throw(i)
            \/ src[p] = seen[i][p] /\ OnTo(i, p, "manifest", {})
  BY DEF FingerprintAgain, Turn, Unchanged
<1>5. CASE Throw(i)
  <2>1. HomeOK'
    BY <1>1, <1>3 DEF HomeOK
  <2> QED BY <1>2, <1>3, <1>5, <2>1, ThrowKeeps DEF Body, source, places
<1>6. CASE src[p] = seen[i][p] /\ OnTo(i, p, "manifest", {})
  <2>1. "manifest" \in Steps /\ {} \in SUBSET (Parts \cup Targets \cup Directories) /\ roots[i] \subseteq Sources
    BY <1>1 DEF Steps, Body, ImportTypeOK
  <2>2. /\ pc' \in [Importers -> Steps]
        /\ todo' \in [Importers -> SUBSET (Parts \cup Targets \cup Directories)]
        /\ \A j \in Importers \ {i} : pc'[j] = pc[j] /\ todo'[j] = todo[j]
        /\ \/ pc'[i] = "manifest" /\ todo[i] = {p}
           \/ pc'[i] = "again" /\ todo'[i] = todo[i] \ {p}
    BY <1>1, <1>2, <1>4, <1>6, <2>1, OnToTypes
  <2>3. ImportTypeOK'
    BY <1>1, <1>3, <2>2 DEF ImportTypeOK
  <2>4. Rest(i)
    BY <1>3, <2>2 DEF Rest
  <2>5. StageKept(i)
    BY <1>3, <2>2 DEF StageKept, Staging
  <2>6. \A q \in roots[i] : seen[i][q] > 0 /\ seen[i][q] \in Int /\ src[q] \in Int
    BY <1>1, <1>2, <2>1 DEF ImporterOK, SeenOK, Read, ImportTypeOK
  <2>7. \A q \in roots[i] : Doomed(i, q) => Doomed(i, q)'
    <3> SUFFICES ASSUME NEW q \in roots[i], Doomed(i, q) PROVE Doomed(i, q)'
      OBVIOUS
    <3>1. q \in todo[i] /\ Moved(q, seen[i][q])
      BY <1>2 DEF Doomed
    <3>2. q # p
      BY <1>6, <2>6, <3>1 DEF Moved, Gone
    <3> QED BY <1>3, <2>2, <3>1, <3>2 DEF Doomed, Moved
  <2>8. pc'[i] \in Read \ {"map"} /\ pc[i] \in Read \ {"map"}
    BY <1>2, <2>2 DEF Read
  <2>9. SeenOK(i)' /\ MomentOK(i)' /\ MapOK(i)'
    BY <1>1, <1>3, <2>7, <2>8 DEF ImporterOK, SeenOK, MomentOK, MapOK, Moved
  <2>10. CopyOK(i)'
    BY <1>1, <1>2, <1>3, <2>2, <2>7 DEF ImporterOK, CopyOK, Now, AsSeen
  <2>11. ListsOK(i)' /\ PlacedOK(i)' /\ OwnOK(i)' /\ OpenOK(i)'
    BY <1>1, <1>2, <1>3, <2>2 DEF ImporterOK, ListsOK, PlacedOK, OwnOK, OpenOK
  <2>12. ("main" \in roots[i] \/ ~Running(i))' /\ Running(i)
    BY <1>1, <1>2, <1>3 DEF Running, ImporterOK
  <2>13. NothingOK' /\ MovedOK'
    BY <1>3 DEF MigrationInv, NothingOK, MovedOK
  <2> QED BY <1>3, <2>3, <2>4, <2>5, <2>9, <2>10, <2>11, <2>12, <2>13, RunsAlone, OtherImporters DEF ImporterOK
<1> QED BY <1>4, <1>5, <1>6

\* The manifest is written next to the copies.
LEMMA WriteManifestKeeps ==
  ASSUME MigrationInv, NEW i \in Importers, WriteManifest(i)
  PROVE  MigrationInv'
<1> USE ImportAssumption
<1> DEFINE files == staged[dest[i]]["main"] \cup staged[dest[i]]["companion"]
           items == {[part |-> p] : p \in {"main"} \cup {c.part : c \in files}}
<1>1. ImportTypeOK /\ ImporterOK(i)
  BY DEF MigrationInv
<1>2. pc[i] = "manifest"
  BY DEF WriteManifest, At
<1>3. UNCHANGED <<src, past, dest, held, final, owner, roots, seen, mapped, created, reserved, committed,
                  opened, outcome, alone>>
  BY DEF WriteManifest, source, places, local
<1>4. Stage(i, "manifest", items) /\ GoTo(i, "validate", {})
  BY DEF WriteManifest
<1>5. items \in SUBSET Item
  <2>1. files \subseteq Item
    BY <1>1 DEF ImportTypeOK, Targets
  <2>2. \A c \in Item : c.part \in Parts
    BY DEF Item
  <2>3. \A p \in Parts : [part |-> p] \in Item
    BY DEF Item
  <2>4. "main" \in Parts
    BY DEF Parts
  <2> QED BY <2>1, <2>2, <2>3, <2>4
<1> HIDE DEF items
<1>6. /\ HomeOK' /\ stages' = stages \cup {dest[i]}
      /\ staged' \in [Ids -> [Targets -> SUBSET Item]]
      /\ \A d \in Ids \ {dest[i]} : staged'[d] = staged[d]
      /\ \A t \in Targets : staged[dest[i]][t] \subseteq staged'[dest[i]][t]
  BY <1>1, <1>3, <1>4, <1>5, StageTypes DEF Targets
<1>7. "validate" \in Steps /\ {} \in SUBSET (Parts \cup Targets \cup Directories)
  BY DEF Steps, Body
<1>8. /\ pc' \in [Importers -> Steps] /\ pc'[i] = "validate"
      /\ todo' \in [Importers -> SUBSET (Parts \cup Targets \cup Directories)]
      /\ \A j \in Importers \ {i} : pc'[j] = pc[j] /\ todo'[j] = todo[j]
  BY <1>1, <1>4, <1>7, GoToTypes
<1>9. ImportTypeOK'
  BY <1>1, <1>3, <1>6, <1>8 DEF ImportTypeOK, HomeOK
<1>10. Rest(i)
  BY <1>3, <1>6, <1>8 DEF Rest
<1>11. StageKept(i)
  BY <1>6, <1>8 DEF StageKept, Staging
<1>12. \A q \in roots[i] : ~Doomed(i, q) /\ ~Doomed(i, q)'
  BY <1>2, <1>8 DEF Doomed
<1>13. pc'[i] \in Read \ {"map"} /\ pc[i] \in Read \ {"map"}
  BY <1>2, <1>8 DEF Read
<1>14. SeenOK(i)' /\ MomentOK(i)' /\ MapOK(i)'
  BY <1>1, <1>3, <1>12, <1>13 DEF ImporterOK, SeenOK, MomentOK, MapOK, Moved
<1>15. CopyOK(i)'
  <2>1. committed[i] = {}
    BY <1>1, <1>2 DEF ImporterOK, ListsOK
  <2>2. alone[i] => \A q \in roots[i] : AsSeen(i, q) \in staged[dest[i]][Into(q)]
    BY <1>1, <1>2, <1>12, <2>1 DEF ImporterOK, CopyOK, Now
  <2>3. alone[i] => \A q \in roots[i] : AsSeen(i, q) \in staged'[dest[i]][Into(q)]
    BY <1>6, <2>2 DEF Into, Targets
  <2> QED BY <1>3, <2>1, <2>3 DEF CopyOK, Now, AsSeen
<1>16. ListsOK(i)' /\ PlacedOK(i)' /\ OwnOK(i)' /\ OpenOK(i)'
  BY <1>1, <1>2, <1>3, <1>8 DEF ImporterOK, ListsOK, PlacedOK, OwnOK, OpenOK
<1>17. ("main" \in roots[i] \/ ~Running(i))' /\ Running(i)
  BY <1>1, <1>2, <1>3 DEF Running, ImporterOK
<1>18. NothingOK' /\ MovedOK'
  BY <1>3 DEF MigrationInv, NothingOK, MovedOK
<1> QED BY <1>3, <1>9, <1>10, <1>11, <1>14, <1>15, <1>16, <1>17, <1>18, RunsAlone, OtherImporters DEF ImporterOK

\* The staged tree is validated, and the list of its targets walked.
LEMMA ValidateKeeps ==
  ASSUME MigrationInv, NEW i \in Importers, Validate(i)
  PROVE  MigrationInv'
<1> USE ImportAssumption
<1>1. ImportTypeOK /\ ImporterOK(i) /\ HomeOK
  BY DEF MigrationInv, ImportTypeOK, HomeOK
<1>2. pc[i] = "validate"
  BY DEF Validate, At
<1>3. UNCHANGED <<src, past, dest, dirs, inode, held, stages, staged, final, owner, roots, seen, mapped,
                  created, reserved, committed, opened, outcome, alone>>
  BY DEF Validate, source, tree, home, staging, places, local
<1>4. HomeOK'
  BY <1>1, <1>3 DEF HomeOK
<1>5. CASE Throw(i)
  BY <1>2, <1>3, <1>4, <1>5, ThrowKeeps DEF Body, source, places
<1>6. CASE GoTo(i, "reserve", StagedTargets(i))
  <2>1. "reserve" \in Steps /\ StagedTargets(i) \in SUBSET (Parts \cup Targets \cup Directories)
    BY DEF Steps, Body, StagedTargets
  <2>2. pc'[i] = "reserve" /\ todo'[i] = StagedTargets(i)
    BY <1>1, <1>6, <2>1, GoToTypes
  <2>3. ImportTypeOK' /\ Rest(i)
    BY <1>1, <1>3, <1>4, <1>6, <2>1, ControlTypes, ControlRest DEF ImportTypeOK, source, places
  <2>4. StageKept(i)
    BY <1>3, <2>2 DEF StageKept, Staging
  <2>5. \A q \in roots[i] : ~Doomed(i, q) /\ ~Doomed(i, q)'
    BY <1>2, <2>2 DEF Doomed
  <2>6. pc'[i] \in Read \ {"map"} /\ pc[i] \in Read \ {"map"}
    BY <1>2, <2>2 DEF Read
  <2>7. SeenOK(i)' /\ MomentOK(i)' /\ MapOK(i)'
    BY <1>1, <1>3, <2>5, <2>6 DEF ImporterOK, SeenOK, MomentOK, MapOK, Moved
  <2>8. CopyOK(i)'
    BY <1>1, <1>2, <1>3, <2>2, <2>5 DEF ImporterOK, CopyOK, Now, AsSeen
  <2>9. ListsOK(i)' /\ PlacedOK(i)' /\ OwnOK(i)' /\ OpenOK(i)'
    BY <1>1, <1>2, <1>3, <2>2 DEF ImporterOK, ListsOK, PlacedOK, OwnOK, OpenOK, StagedTargets
  <2>10. ("main" \in roots[i] \/ ~Running(i))' /\ Running(i)
    BY <1>1, <1>2, <1>3 DEF Running, ImporterOK
  <2>11. NothingOK' /\ MovedOK'
    BY <1>3 DEF MigrationInv, NothingOK, MovedOK
  <2> QED BY <1>3, <2>3, <2>4, <2>7, <2>8, <2>9, <2>10, <2>11, RunsAlone, OtherImporters DEF ImporterOK
<1> QED BY <1>5, <1>6 DEF Validate

\* A path is reserved only when there is nothing at it.
LEMMA ReserveKeeps ==
  ASSUME MigrationInv, NEW i \in Importers, Reserve(i)
  PROVE  MigrationInv'
<1> USE ImportAssumption
<1>1. ImportTypeOK /\ ImporterOK(i) /\ HomeOK
  BY DEF MigrationInv, ImportTypeOK, HomeOK
<1>2. pc[i] = "reserve"
  BY DEF Reserve, At
<1>3. UNCHANGED <<src, past, dest, held, stages, staged, final, roots, seen, mapped, committed, opened, outcome, alone>>
  BY DEF Reserve, source, staging
<1>4. PICK t \in Targets :
         /\ t \in todo[i]
         /\ \/ Throw(i) /\ UNCHANGED <<dirs, created, inode, owner, reserved>>
            \/ Ensure(i, DirOf[t]) /\ Throw(i) /\ UNCHANGED <<owner, reserved>>
            \/ /\ Ensure(i, DirOf[t]) /\ owner[dest[i]][t] = Nobody
               /\ owner' = [owner EXCEPT ![dest[i]][t] = i]
               /\ reserved' = [reserved EXCEPT ![i] = @ \cup {t}]
               /\ OnTo(i, t, "replace", StagedTargets(i))
  BY DEF Reserve, Turn, Taken
<1>5. DirOf[t] \in Directories
  BY DEF DirOf, Directories, Targets
<1>6. HomeOK'
  <2>1. CASE UNCHANGED <<dirs, created, inode>>
    BY <1>1, <1>3, <2>1 DEF HomeOK
  <2>2. CASE Ensure(i, DirOf[t])
    BY <1>1, <1>3, <1>5, <2>2, EnsureTypes
  <2> QED BY <1>4, <2>1, <2>2
<1>7. CASE Throw(i) /\ UNCHANGED <<owner, reserved>>
  BY <1>2, <1>3, <1>6, <1>7, ThrowKeeps DEF Body, source, places
<1>8. CASE /\ owner[dest[i]][t] = Nobody
           /\ owner' = [owner EXCEPT ![dest[i]][t] = i]
           /\ reserved' = [reserved EXCEPT ![i] = @ \cup {t}]
           /\ OnTo(i, t, "replace", StagedTargets(i))
  <2>1. "replace" \in Steps /\ StagedTargets(i) \in SUBSET (Parts \cup Targets \cup Directories)
    BY DEF Steps, Body, StagedTargets
  <2>2. /\ pc' \in [Importers -> Steps]
        /\ todo' \in [Importers -> SUBSET (Parts \cup Targets \cup Directories)]
        /\ \A j \in Importers \ {i} : pc'[j] = pc[j] /\ todo'[j] = todo[j]
        /\ \/ pc'[i] = "replace" /\ todo[i] = {t} /\ todo'[i] = StagedTargets(i)
           \/ pc'[i] = "reserve" /\ todo'[i] = todo[i] \ {t}
    BY <1>1, <1>2, <1>4, <1>8, <2>1, OnToTypes
  <2>3. /\ owner' \in [Ids -> [Targets -> Importers \cup {Nobody}]]
        /\ owner'[dest[i]][t] = i /\ dest[i] \in Ids
        /\ \A u \in Targets \ {t} : owner'[dest[i]][u] = owner[dest[i]][u]
        /\ \A d \in Ids \ {dest[i]} : owner'[d] = owner[d]
    BY <1>1, <1>8 DEF ImportTypeOK
  <2>4. /\ reserved' \in [Importers -> SUBSET Targets] /\ reserved'[i] = reserved[i] \cup {t}
        /\ \A j \in Importers \ {i} : reserved'[j] = reserved[j]
    BY <1>1, <1>8 DEF ImportTypeOK
  <2>5. ImportTypeOK'
    BY <1>1, <1>3, <1>6, <2>2, <2>3, <2>4 DEF ImportTypeOK, HomeOK
  <2>6. Rest(i)
    BY <1>3, <1>8, <2>2, <2>3, <2>4 DEF Rest
  <2>7. StageKept(i)
    BY <1>3, <2>2 DEF StageKept, Staging
  <2>8. \A q \in roots[i] : ~Doomed(i, q) /\ ~Doomed(i, q)'
    BY <1>2, <2>2 DEF Doomed
  <2>9. pc'[i] \in Read \ {"map"} /\ pc[i] \in Read \ {"map"}
    BY <1>2, <2>2 DEF Read
  <2>10. SeenOK(i)' /\ MomentOK(i)' /\ MapOK(i)'
    BY <1>1, <1>3, <2>8, <2>9 DEF ImporterOK, SeenOK, MomentOK, MapOK, Moved
  <2>11. CopyOK(i)'
    BY <1>1, <1>2, <1>3, <2>2, <2>8 DEF ImporterOK, CopyOK, Now, AsSeen
  <2>12. committed[i] = {} /\ todo[i] \cap reserved[i] = {} /\ todo[i] \cup reserved[i] = StagedTargets(i)
    BY <1>1, <1>2 DEF ImporterOK, ListsOK
  <2>13. StagedTargets(i)' = StagedTargets(i)
    BY <1>3 DEF StagedTargets
  <2>14. ListsOK(i)'
    <3>1. CASE pc'[i] = "replace" /\ todo[i] = {t} /\ todo'[i] = StagedTargets(i)
      <4>1. reserved'[i] = StagedTargets(i)
        BY <2>4, <2>12, <3>1
      <4> QED BY <1>3, <2>12, <2>13, <3>1, <4>1 DEF ListsOK
    <3>2. CASE pc'[i] = "reserve" /\ todo'[i] = todo[i] \ {t}
      BY <1>3, <1>4, <2>4, <2>12, <2>13, <3>2 DEF ListsOK
    <3> QED BY <2>2, <3>1, <3>2
  <2>15. PlacedOK(i)' /\ OpenOK(i)'
    BY <1>1, <1>2, <1>3, <2>12 DEF ImporterOK, PlacedOK, OpenOK
  <2>16. OwnOK(i)'
    <3>1. /\ \A d \in Ids : \A u \in Targets : owner[d][u] = i <=> d = dest[i] /\ u \in reserved[i]
          /\ \A u \in reserved[i] : final[dest[i]][u] = {}
      BY <1>1, <2>12 DEF ImporterOK, OwnOK
    <3>2. final[dest[i]][t] = {}
      BY <1>8, <2>3 DEF MigrationInv, NothingOK
    <3>3. \A d \in Ids : \A u \in Targets : owner'[d][u] = i <=> d = dest[i] /\ u \in reserved'[i]
      BY <2>3, <2>4, <3>1
    <3>4. \A u \in reserved'[i] : final[dest[i]][u] = {}
      BY <2>4, <3>1, <3>2
    <3> QED BY <1>3, <2>12, <3>3, <3>4 DEF OwnOK
  <2>17. ("main" \in roots[i] \/ ~Running(i))' /\ Running(i)
    BY <1>1, <1>2, <1>3 DEF Running, ImporterOK
  <2>18. NothingOK'
    <3> SUFFICES ASSUME NEW d \in Ids, NEW u \in Targets, owner'[d][u] = Nobody
                 PROVE  final[d][u] = {}
      BY <1>3 DEF NothingOK
    <3>1. owner[d][u] = Nobody
      <4>1. CASE d = dest[i] /\ u = t
        BY <2>3, <4>1
      <4>2. CASE d # dest[i]
        BY <2>3, <4>2
      <4>3. CASE d = dest[i] /\ u # t
        BY <2>3, <4>3
      <4> QED BY <4>1, <4>2, <4>3
    <3> QED BY <3>1 DEF MigrationInv, NothingOK
  <2>19. MovedOK'
    <3> SUFFICES ASSUME NEW j \in Importers, opened[j] = "placed"
                 PROVE  owner'[dest[j]]["companion"] = owner[dest[j]]["companion"]
      BY <1>3, MovedKept
    <3>1. owner[dest[j]]["companion"] # Nobody /\ dest[j] \in Ids /\ "companion" \in Targets
      BY <1>1 DEF MigrationInv, MovedOK, ImportTypeOK, Targets
    <3> QED BY <1>8, <2>3, <3>1
  <2> QED BY <1>3, <2>5, <2>6, <2>7, <2>10, <2>11, <2>14, <2>15, <2>16, <2>17, <2>18, <2>19,
             RunsAlone, OtherImporters DEF ImporterOK
<1> QED BY <1>4, <1>7, <1>8

\* A target is put in its place: the manifest is the last.
LEMMA ReplaceKeeps ==
  ASSUME MigrationInv, NEW i \in Importers, Replace(i)
  PROVE  MigrationInv'
<1> USE ImportAssumption
<1>1. ImportTypeOK /\ ImporterOK(i) /\ HomeOK
  BY DEF MigrationInv, ImportTypeOK, HomeOK
<1>2. pc[i] = "replace"
  BY DEF Replace, At
<1>3. UNCHANGED <<src, past, dest, dirs, inode, held, stages, roots, seen, mapped, created, outcome, alone>>
  BY DEF Replace, source, home
<1>4. HomeOK'
  BY <1>1, <1>3 DEF HomeOK
<1>5. PICK t \in Targets :
         /\ Turn(i, TargetOrder, t)
         /\ \/ Throw(i) /\ UNCHANGED <<staged, final, owner, reserved, committed, opened>>
            \/ /\ final' = [final EXCEPT ![dest[i]][t] = staged[dest[i]][t]]
               /\ owner' = [owner EXCEPT ![dest[i]][t] = i]
               /\ staged' = [staged EXCEPT ![dest[i]][t] = {}]
               /\ reserved' = [reserved EXCEPT ![i] = @ \ {t}]
               /\ committed' = [committed EXCEPT ![i] = @ \cup {t}]
               /\ opened' = IF t = "companion" THEN Carried(i, "staged", "placed") ELSE opened
               /\ OnTo(i, t, "verify", {})
  BY DEF Replace, places
<1>6. CASE Throw(i) /\ UNCHANGED <<staged, final, owner, reserved, committed, opened>>
  BY <1>2, <1>3, <1>4, <1>6, ThrowKeeps DEF Body, source, places
<1>7. CASE /\ final' = [final EXCEPT ![dest[i]][t] = staged[dest[i]][t]]
           /\ owner' = [owner EXCEPT ![dest[i]][t] = i]
           /\ staged' = [staged EXCEPT ![dest[i]][t] = {}]
           /\ reserved' = [reserved EXCEPT ![i] = @ \ {t}]
           /\ committed' = [committed EXCEPT ![i] = @ \cup {t}]
           /\ opened' = IF t = "companion" THEN Carried(i, "staged", "placed") ELSE opened
           /\ OnTo(i, t, "verify", {})
  <2>1. "verify" \in Steps /\ {} \in SUBSET (Parts \cup Targets \cup Directories) /\ t \in todo[i]
    BY <1>5 DEF Steps, Body, Turn
  <2>2. /\ pc' \in [Importers -> Steps]
        /\ todo' \in [Importers -> SUBSET (Parts \cup Targets \cup Directories)]
        /\ \A j \in Importers \ {i} : pc'[j] = pc[j] /\ todo'[j] = todo[j]
        /\ \/ pc'[i] = "verify" /\ todo[i] = {t}
           \/ pc'[i] = "replace" /\ todo'[i] = todo[i] \ {t}
    BY <1>1, <1>2, <1>7, <2>1, OnToTypes
  <2>3. /\ final' \in [Ids -> [Targets -> SUBSET Item]] /\ dest[i] \in Ids
        /\ final'[dest[i]][t] = staged[dest[i]][t]
        /\ \A u \in Targets \ {t} : final'[dest[i]][u] = final[dest[i]][u]
        /\ \A d \in Ids \ {dest[i]} : final'[d] = final[d]
    BY <1>1, <1>7 DEF ImportTypeOK
  <2>4. /\ owner' \in [Ids -> [Targets -> Importers \cup {Nobody}]]
        /\ owner'[dest[i]][t] = i
        /\ \A u \in Targets \ {t} : owner'[dest[i]][u] = owner[dest[i]][u]
        /\ \A d \in Ids \ {dest[i]} : owner'[d] = owner[d]
    BY <1>1, <1>7 DEF ImportTypeOK
  <2>5. /\ staged' \in [Ids -> [Targets -> SUBSET Item]]
        /\ \A u \in Targets \ {t} : staged'[dest[i]][u] = staged[dest[i]][u]
        /\ \A d \in Ids \ {dest[i]} : staged'[d] = staged[d]
    BY <1>1, <1>7 DEF ImportTypeOK
  <2>6. /\ reserved' \in [Importers -> SUBSET Targets] /\ reserved'[i] = reserved[i] \ {t}
        /\ \A j \in Importers \ {i} : reserved'[j] = reserved[j]
        /\ committed' \in [Importers -> SUBSET Targets] /\ committed'[i] = committed[i] \cup {t}
        /\ \A j \in Importers \ {i} : committed'[j] = committed[j]
    BY <1>1, <1>7 DEF ImportTypeOK
  <2>26. /\ opened' \in [Importers -> {"no", "staged", "placed"}]
         /\ \A j \in Importers : opened'[j] # "no" => opened[j] # "no"
         /\ \A j \in Importers : opened'[j] = "placed" =>
               opened[j] = "placed" \/ (opened[j] = "staged" /\ t = "companion" /\ dest[j] = dest[i])
    BY <1>1, <1>7 DEF ImportTypeOK, Carried
  <2>7. ImportTypeOK'
    BY <1>1, <1>3, <1>4, <2>2, <2>3, <2>4, <2>5, <2>6, <2>26 DEF ImportTypeOK, HomeOK
  <2>8. /\ todo[i] = reserved[i] /\ committed[i] \cap reserved[i] = {}
        /\ committed[i] \cup reserved[i] = StagedTargets(i)
    BY <1>1, <1>2 DEF ImporterOK, ListsOK
  <2>9. owner[dest[i]][t] = i
    BY <1>1, <2>1, <2>3, <2>8 DEF ImporterOK, OwnOK
  <2>10. Rest(i)
    <3>1. \A u \in Targets :
             /\ owner'[dest[i]][u] = owner[dest[i]][u]
             /\ owner[dest[i]][u] # i => final'[dest[i]][u] = final[dest[i]][u]
      BY <2>3, <2>4, <2>9
    <3> QED BY <1>3, <2>2, <2>3, <2>4, <2>5, <2>6, <2>26, <3>1 DEF Rest
  <2>11. StageKept(i)
    BY <1>3, <2>2 DEF StageKept, Staging
  <2>12. \A q \in roots[i] : ~Doomed(i, q) /\ ~Doomed(i, q)'
    BY <1>2, <2>2 DEF Doomed
  <2>13. pc'[i] \in Read \ {"map"} /\ pc[i] \in Read \ {"map"}
    BY <1>2, <2>2 DEF Read
  <2>14. SeenOK(i)' /\ MomentOK(i)' /\ MapOK(i)'
    BY <1>1, <1>3, <2>12, <2>13 DEF ImporterOK, SeenOK, MomentOK, MapOK, Moved
  <2>15. t \notin committed[i]
    BY <2>1, <2>8
  <2>16. \A u \in Targets : Now(i, u)' = Now(i, u)
    <3> SUFFICES ASSUME NEW u \in Targets PROVE Now(i, u)' = Now(i, u)
      OBVIOUS
    <3>1. CASE u = t
      BY <1>3, <2>3, <2>6, <2>15, <3>1 DEF Now
    <3>2. CASE u # t
      BY <1>3, <2>3, <2>5, <2>6, <3>2 DEF Now
    <3> QED BY <3>1, <3>2
  <2>17. \A q \in roots[i] : (alone[i] => AsSeen(i, q) \in Now(i, Into(q))) /\ Into(q) \in Targets
    BY <1>1, <1>2, <2>12 DEF ImporterOK, CopyOK, Into, Targets
  <2>18. CopyOK(i)'
    BY <1>3, <2>16, <2>17 DEF CopyOK, AsSeen
  <2>19. StagedTargets(i)' = StagedTargets(i)
    BY <1>3 DEF StagedTargets
  <2>20. ListsOK(i)'
    <3>1. CASE pc'[i] = "verify"
      BY <3>1 DEF ListsOK
    <3>2. CASE pc'[i] = "replace" /\ todo'[i] = todo[i] \ {t}
      <4>1. /\ todo'[i] = reserved'[i] /\ committed'[i] \cap reserved'[i] = {}
            /\ committed'[i] \cup reserved'[i] = StagedTargets(i)
        BY <2>1, <2>6, <2>8, <3>2
      <4> QED BY <2>19, <3>2, <4>1 DEF ListsOK
    <3> QED BY <2>2, <3>1, <3>2
  <2>21. OwnOK(i)'
    <3>1. /\ \A d \in Ids : \A u \in Targets : owner[d][u] = i <=> d = dest[i] /\ u \in committed[i] \cup reserved[i]
          /\ \A u \in reserved[i] : final[dest[i]][u] = {}
      BY <1>1 DEF ImporterOK, OwnOK
    <3>2. committed'[i] \cup reserved'[i] = committed[i] \cup reserved[i]
      BY <2>1, <2>6, <2>8
    <3>3. \A d \in Ids : \A u \in Targets : owner'[d][u] = owner[d][u]
      BY <2>4, <2>9
    <3>4. \A u \in reserved'[i] : u \in Targets \ {t} /\ u \in reserved[i]
      BY <2>6
    <3>5. \A u \in reserved'[i] : final'[dest[i]][u] = {}
      BY <2>3, <3>1, <3>4
    <3> QED BY <1>3, <3>1, <3>2, <3>3, <3>5 DEF OwnOK
  <2>22. PlacedOK(i)'
    <3> SUFFICES ASSUME alone[i], "manifest" \in committed'[i]
                 PROVE  \E s \in past : \A q \in roots[i] :
                           /\ Into(q) \in committed'[i]
                           /\ [part |-> q, v |-> s[q], m |-> s[q]] \in final'[dest[i]][Into(q)]
      BY <1>3 DEF PlacedOK
    <3>1. \A q \in roots[i] : Into(q) \in StagedTargets(i) /\ Into(q) # "manifest"
      BY DEF Into, StagedTargets, Targets
    <3>2. CASE t = "manifest"
      <4>1. \A u \in todo[i] : u \in Targets /\ TargetOrder["manifest"] <= TargetOrder[u]
        BY <1>1, <1>5, <2>8, <3>2 DEF Turn, ImportTypeOK
      <4>2. todo[i] \subseteq {"manifest"}
        BY <4>1 DEF TargetOrder, Targets
      <4>3. \A q \in roots[i] : Into(q) \in committed[i] /\ Into(q) \in Targets \ {t}
        BY <2>8, <2>17, <3>1, <3>2, <4>2
      <4>4. PICK s \in past : \A q \in roots[i] : s[q] = seen[i][q]
        BY <1>1, <2>12, <2>13 DEF ImporterOK, MomentOK
      <4>5. \A q \in roots[i] : AsSeen(i, q) \in final'[dest[i]][Into(q)]
        BY <2>3, <2>17, <4>3 DEF Now
      <4> QED BY <2>6, <4>3, <4>4, <4>5 DEF AsSeen
    <3>3. CASE t # "manifest"
      <4>1. "manifest" \in committed[i]
        BY <2>6, <3>3
      <4>2. PICK s \in past : \A q \in roots[i] :
               Into(q) \in committed[i] /\ [part |-> q, v |-> s[q], m |-> s[q]] \in final[dest[i]][Into(q)]
        BY <1>1, <4>1 DEF ImporterOK, PlacedOK
      <4>3. \A q \in roots[i] : Into(q) \in Targets \ {t}
        BY <2>15, <2>17, <4>2
      <4> QED BY <2>3, <2>6, <4>2, <4>3
    <3> QED BY <3>2, <3>3
  <2>23. OpenOK(i)'
    BY <1>1, <1>2, <2>26 DEF ImporterOK, OpenOK
  <2>24. ("main" \in roots[i] \/ ~Running(i))' /\ Running(i)
    BY <1>1, <1>2, <1>3 DEF Running, ImporterOK
  <2>25. NothingOK'
    <3> SUFFICES ASSUME NEW d \in Ids, NEW u \in Targets, owner'[d][u] = Nobody
                 PROVE  final'[d][u] = {}
      BY DEF NothingOK
    <3>1. owner[d][u] = Nobody /\ ~(d = dest[i] /\ u = t)
      BY <2>4, <2>9
    <3>2. final'[d][u] = final[d][u]
      BY <2>3, <3>1
    <3> QED BY <3>1, <3>2 DEF MigrationInv, NothingOK
  <2>27. MovedOK'
    <3> SUFFICES ASSUME NEW j \in Importers, opened'[j] = "placed"
                 PROVE  /\ owner'[dest[j]]["companion"] # Nobody
                        /\ ~alone[owner'[dest[j]]["companion"]]
      BY <1>3 DEF MovedOK
    <3>1. dest[j] \in Ids /\ "companion" \in Targets
      BY <1>1 DEF ImportTypeOK, Targets
    <3>2. CASE opened[j] = "placed"
      <4>1. owner'[dest[j]]["companion"] = owner[dest[j]]["companion"]
        BY <2>4, <2>9, <3>1
      <4> QED BY <3>2, <4>1 DEF MigrationInv, MovedOK
    <3>3. CASE opened[j] = "staged" /\ t = "companion" /\ dest[j] = dest[i]
      <4>1. pc[j] = "wipe"
        BY <3>3 DEF MigrationInv, ImporterOK, OpenOK
      <4>2. Running(i) /\ Running(j) /\ i # j
        BY <1>2, <4>1 DEF Running
      <4>3. ~alone[i]
        BY <3>3, <4>2 DEF MigrationInv, AloneOK
      <4> QED BY <2>4, <3>3, <4>3
    <3> QED BY <2>26, <3>2, <3>3
  <2> QED BY <1>3, <2>7, <2>10, <2>11, <2>14, <2>18, <2>20, <2>21, <2>22, <2>23, <2>24, <2>25, <2>27,
             RunsAlone, OtherImporters DEF ImporterOK
<1> QED BY <1>5, <1>6, <1>7

\* Any step of the body may fail.
LEMMA RaisesKeeps ==
  ASSUME MigrationInv, NEW i \in Importers, Raises(i)
  PROVE  MigrationInv'
<1>1. UNCHANGED <<source, dirs, inode, held, stages, staged, places, dest, roots, seen, mapped, created,
                  reserved, committed, opened, outcome, alone>>
  BY DEF Raises, tree, home, staging, local
<1>2. HomeOK'
  BY <1>1 DEF MigrationInv, ImportTypeOK, HomeOK
<1> QED BY <1>1, <1>2, ThrowKeeps DEF Raises

\* The steps after the body that remove nothing from a final path.
LEMMA CloseKeeps ==
  ASSUME MigrationInv, NEW i \in Importers, Running(i),
         NEW step \in {"wipe", "unlock", "rmdir", "done", "failed", "broken", "dead"},
         NEW list \in SUBSET (Parts \cup Targets \cup Directories), GoTo(i, step, list), HomeOK',
         UNCHANGED <<source, staged, places, dest, roots, seen, mapped, reserved, committed, alone>>,
         opened' \in [Importers -> {"no", "staged", "placed"}], outcome' \in [Importers -> {"done", "failed", "broken"}], opened'[i] = "no",
         \A j \in Importers \ {i} : opened'[j] \in {"no", opened[j]} /\ outcome'[j] = outcome[j],
         stages' \subseteq stages,
         dest[i] \in stages' => step \in {"wipe", "dead", "broken"} \/ pc[i] \in {"unlock", "rmdir"},
         step \in {"wipe", "unlock", "rmdir"} => outcome'[i] # "failed" \/ committed[i] \cup reserved[i] = {},
         step = "failed" => committed[i] \cup reserved[i] = {}
  PROVE  MigrationInv'
<1>1. step \in Steps /\ ImportTypeOK /\ ImporterOK(i)
  BY DEF Steps, MigrationInv
<1>2. ImportTypeOK' /\ Rest(i)
  BY <1>1, ControlTypes, ControlRest
<1>3. pc'[i] = step
  BY <1>1, GoToTypes
<1>4. StageKept(i)
  BY <1>3 DEF StageKept, Staging
<1>5. SeenOK(i)' /\ MomentOK(i)' /\ MapOK(i)' /\ CopyOK(i)'
  BY <1>1, <1>3, Left DEF Read
<1>6. ListsOK(i)'
  BY <1>3 DEF ListsOK
<1>7. OwnOK(i)' /\ PlacedOK(i)' /\ OpenOK(i)'
  BY <1>1 DEF ImporterOK, OwnOK, PlacedOK, OpenOK, source, places
<1>8. ("main" \in roots[i] \/ ~Running(i))'
  BY <1>1 DEF ImporterOK
<1>9. NothingOK' /\ MovedOK'
  BY DEF MigrationInv, NothingOK, MovedOK, places
<1> QED BY <1>2, <1>4, <1>5, <1>6, <1>7, <1>8, <1>9, RunsAlone, OtherImporters DEF ImporterOK

\* The result is returned.
LEMMA ReturnResultKeeps ==
  ASSUME MigrationInv, NEW i \in Importers, ReturnResult(i)
  PROVE  MigrationInv'
<1>1. /\ pc[i] = "verify" /\ GoTo(i, "wipe", {}) /\ outcome' = [outcome EXCEPT ![i] = "done"]
      /\ UNCHANGED <<source, staged, places, dest, roots, seen, mapped, reserved, committed, opened, alone>>
      /\ UNCHANGED <<dirs, inode, held, created, stages>>
  BY DEF ReturnResult, At, tree, home, staging
<1>2. ImportTypeOK /\ ImporterOK(i)
  BY DEF MigrationInv
<1>3. HomeOK'
  BY <1>1, <1>2 DEF HomeOK, ImportTypeOK
<1>4. /\ outcome' \in [Importers -> {"done", "failed", "broken"}] /\ outcome'[i] = "done"
      /\ \A j \in Importers \ {i} : outcome'[j] = outcome[j]
      /\ opened' \in [Importers -> {"no", "staged", "placed"}]
  BY <1>1, <1>2 DEF ImportTypeOK
<1>5. opened'[i] = "no" /\ Running(i)
  BY <1>1, <1>2 DEF ImporterOK, OpenOK, Running
<1> QED BY <1>1, <1>3, <1>4, <1>5, CloseKeeps

\* The staging directory is gone.
LEMMA WipeEndsKeeps ==
  ASSUME MigrationInv, NEW i \in Importers, WipeEnds(i)
  PROVE  MigrationInv'
<1>1. /\ pc[i] = "wipe" /\ GoTo(i, "unlock", {})
      /\ opened' = [Carried(i, "staged", "no") EXCEPT ![i] = "no"]
      /\ stages' = stages \ {dest[i]}
      /\ UNCHANGED <<source, staged, places, dest, roots, seen, mapped, reserved, committed, outcome, alone>>
      /\ UNCHANGED <<dirs, inode, held, created>>
  BY DEF WipeEnds, At, home
<1>2. ImportTypeOK /\ ImporterOK(i)
  BY DEF MigrationInv
<1>3. HomeOK'
  BY <1>1, <1>2 DEF HomeOK, ImportTypeOK
<1>4. /\ opened' \in [Importers -> {"no", "staged", "placed"}] /\ opened'[i] = "no"
      /\ \A j \in Importers \ {i} : opened'[j] \in {"no", opened[j]}
      /\ outcome' \in [Importers -> {"done", "failed", "broken"}]
  BY <1>1, <1>2 DEF ImportTypeOK, Carried
<1>5. (outcome'[i] # "failed" \/ committed[i] \cup reserved[i] = {}) /\ Running(i)
  BY <1>1, <1>2 DEF ImporterOK, ListsOK, Running
<1> QED BY <1>1, <1>3, <1>4, <1>5, CloseKeeps

\* The lock is released and the new directories that are empty are removed.
LEMMA ReleaseKeeps ==
  ASSUME MigrationInv, NEW i \in Importers, ReleaseLock(i) \/ RemoveDirectory(i)
  PROVE  MigrationInv'
<1>1. ImportTypeOK /\ ImporterOK(i)
  BY DEF MigrationInv
<1>2. /\ pc[i] \in {"unlock", "rmdir"}
      /\ UNCHANGED <<source, staged, places, dest, roots, seen, mapped, reserved, committed, opened, outcome, alone>>
      /\ UNCHANGED <<inode, created, stages>>
  BY DEF ReleaseLock, RemoveDirectory, At, staging, local
<1>3. HomeOK'
  <2>1. CASE ReleaseLock(i)
    BY <1>1, <1>2, <2>1 DEF ReleaseLock, HomeOK, ImportTypeOK
  <2>2. CASE RemoveDirectory(i)
    BY <1>1, <1>2, <2>2 DEF RemoveDirectory, HomeOK, ImportTypeOK
  <2> QED BY <2>1, <2>2
<1>4. \E step \in {"rmdir", outcome[i]} : \E list \in SUBSET (Parts \cup Targets \cup Directories) :
         GoTo(i, step, list)
  <2>1. /\ {} \in SUBSET (Parts \cup Targets \cup Directories)
        /\ created[i] \in SUBSET (Parts \cup Targets \cup Directories)
        /\ \A d \in Directories : todo[i] \ {d} \in SUBSET (Parts \cup Targets \cup Directories)
    BY <1>1 DEF ImportTypeOK
  <2>2. CASE ReleaseLock(i)
    BY <2>1, <2>2 DEF ReleaseLock
  <2>3. CASE RemoveDirectory(i)
    BY <2>1, <2>3 DEF RemoveDirectory, OnTo, At
  <2> QED BY <2>2, <2>3
<1>5. outcome[i] # "failed" \/ committed[i] \cup reserved[i] = {}
  BY <1>1, <1>2 DEF ImporterOK, ListsOK
<1>6. PICK step \in {"rmdir", "done", "failed", "broken"}, list \in SUBSET (Parts \cup Targets \cup Directories) :
         GoTo(i, step, list) /\ (step = "failed" => outcome[i] = "failed")
  BY <1>1, <1>4 DEF ImportTypeOK
<1>7. /\ opened' \in [Importers -> {"no", "staged", "placed"}] /\ outcome' \in [Importers -> {"done", "failed", "broken"}] /\ opened'[i] = "no" /\ Running(i)
  BY <1>1, <1>2 DEF ImporterOK, OpenOK, Running, ImportTypeOK
<1> QED BY <1>2, <1>3, <1>5, <1>6, <1>7, CloseKeeps

\* An importer that is killed, or whose cleanup fails, leaves everything as it is.
LEMMA EndsKeeps ==
  ASSUME MigrationInv, NEW i \in Importers, WipeFails(i) \/ Crash(i)
  PROVE  MigrationInv'
<1>1. Running(i) /\ (Ends(i, "dead") \/ Ends(i, "broken"))
  BY DEF Crash, WipeFails, At, Running
<1>2. PICK step \in {"dead", "broken"} :
         /\ GoTo(i, step, {}) /\ opened' = [opened EXCEPT ![i] = "no"]
         /\ held' = [held EXCEPT ![i] = 0]
         /\ UNCHANGED <<source, staged, places, dest, roots, seen, mapped, reserved, committed, outcome, alone>>
         /\ UNCHANGED <<dirs, inode, created, stages>>
  BY <1>1 DEF Ends, staging
<1>3. ImportTypeOK
  BY DEF MigrationInv
<1>4. HomeOK'
  BY <1>2, <1>3 DEF HomeOK, ImportTypeOK
<1>5. /\ opened' \in [Importers -> {"no", "staged", "placed"}] /\ opened'[i] = "no"
      /\ \A j \in Importers \ {i} : opened'[j] \in {"no", opened[j]}
      /\ outcome' \in [Importers -> {"done", "failed", "broken"}]
  BY <1>2, <1>3 DEF ImportTypeOK
<1> QED BY <1>1, <1>2, <1>4, <1>5, CloseKeeps

\* The except clause takes back the newest path first: the manifest goes before
\* what it speaks of.
LEMMA UndoKeeps ==
  ASSUME MigrationInv, NEW i \in Importers, Undo(i)
  PROVE  MigrationInv'
<1> USE ImportAssumption
<1>1. ImportTypeOK /\ ImporterOK(i)
  BY DEF MigrationInv
<1>2. /\ pc[i] = "undo" /\ Running(i)
      /\ UNCHANGED <<src, past, dest, dirs, inode, held, stages, staged, roots, seen, mapped, created, outcome, alone>>
  BY DEF Undo, At, Running, source, home, staging
<1>3. CASE /\ committed[i] \cup reserved[i] = {} /\ GoTo(i, "wipe", {})
           /\ UNCHANGED <<places, reserved, committed, opened>>
  <2>1. HomeOK'
    BY <1>1, <1>2 DEF HomeOK, ImportTypeOK
  <2>2. opened' \in [Importers -> {"no", "staged", "placed"}] /\ outcome' \in [Importers -> {"done", "failed", "broken"}] /\ opened'[i] = "no"
    BY <1>1, <1>2, <1>3 DEF ImporterOK, OpenOK, ImportTypeOK
  <2> QED BY <1>2, <1>3, <2>1, <2>2, CloseKeeps DEF source
<1>4. CASE \E t \in Targets :
              /\ Newest(i, t)
              /\ Remove(i, t)
              /\ UNCHANGED <<pc, todo>>
  <2>1. PICK t \in Targets :
              /\ Newest(i, t)
              /\ Remove(i, t)
              /\ UNCHANGED <<pc, todo>>
    BY <1>4
  <2>2. t \in committed[i] \cup reserved[i] /\ owner[dest[i]][t] = i /\ dest[i] \in Ids
    BY <1>1, <2>1 DEF Newest, ImporterOK, OwnOK, ImportTypeOK
  <2>3. /\ final' \in [Ids -> [Targets -> SUBSET Item]] /\ final'[dest[i]][t] = {}
        /\ \A u \in Targets \ {t} : final'[dest[i]][u] = final[dest[i]][u]
        /\ \A d \in Ids \ {dest[i]} : final'[d] = final[d]
    BY <1>1, <2>1 DEF ImportTypeOK, Remove
  <2>4. /\ owner' \in [Ids -> [Targets -> Importers \cup {Nobody}]] /\ owner'[dest[i]][t] = Nobody
        /\ \A u \in Targets \ {t} : owner'[dest[i]][u] = owner[dest[i]][u]
        /\ \A d \in Ids \ {dest[i]} : owner'[d] = owner[d]
    BY <1>1, <2>1 DEF ImportTypeOK, Remove
  <2>5. /\ reserved' \in [Importers -> SUBSET Targets] /\ reserved'[i] = reserved[i] \ {t}
        /\ \A j \in Importers \ {i} : reserved'[j] = reserved[j]
        /\ committed' \in [Importers -> SUBSET Targets] /\ committed'[i] = committed[i] \ {t}
        /\ \A j \in Importers \ {i} : committed'[j] = committed[j]
    BY <1>1, <2>1 DEF ImportTypeOK, Remove
  <2>15. /\ opened' \in [Importers -> {"no", "staged", "placed"}]
         /\ \A j \in Importers : opened'[j] # "no" => opened[j] # "no"
         /\ \A j \in Importers : opened'[j] = "placed" =>
               opened[j] = "placed" /\ ~(t = "companion" /\ dest[j] = dest[i])
    BY <1>1, <2>1 DEF ImportTypeOK, Carried, Remove
  <2>6. ImportTypeOK'
    BY <1>1, <1>2, <2>1, <2>3, <2>4, <2>5, <2>15 DEF ImportTypeOK
  <2>7. Rest(i)
    <3>1. \A u \in Targets :
             /\ owner'[dest[i]][u] \in {owner[dest[i]][u], Nobody}
             /\ owner[dest[i]][u] # i =>
                   owner'[dest[i]][u] = owner[dest[i]][u] /\ final'[dest[i]][u] = final[dest[i]][u]
      BY <2>2, <2>3, <2>4
    <3> QED BY <1>2, <2>1, <2>3, <2>4, <2>5, <2>15, <3>1 DEF Rest
  <2>8. StageKept(i)
    BY <1>2, <2>1 DEF StageKept, Staging
  <2>9. SeenOK(i)' /\ MomentOK(i)' /\ MapOK(i)' /\ CopyOK(i)'
    BY <1>2, <2>1, Left DEF Read, Steps
  <2>10. ListsOK(i)' /\ OpenOK(i)'
    BY <1>1, <1>2, <2>1, <2>15 DEF ImporterOK, ListsOK, OpenOK
  <2>11. OwnOK(i)'
    <3>1. /\ \A d \in Ids : \A u \in Targets : owner[d][u] = i <=> d = dest[i] /\ u \in committed[i] \cup reserved[i]
          /\ \A u \in reserved[i] : final[dest[i]][u] = {}
      BY <1>1 DEF ImporterOK, OwnOK
    <3>2. ASSUME NEW d \in Ids, NEW u \in Targets
          PROVE  owner'[d][u] = i <=> d = dest[i] /\ u \in committed'[i] \cup reserved'[i]
      <4>1. CASE d = dest[i] /\ u = t
        BY <2>4, <2>5, <4>1
      <4>2. CASE d # dest[i]
        BY <2>4, <3>1, <4>2
      <4>3. CASE d = dest[i] /\ u # t
        <5>1. owner'[d][u] = owner[d][u]
          BY <2>4, <4>3
        <5>2. u \in committed'[i] \cup reserved'[i] <=> u \in committed[i] \cup reserved[i]
          BY <2>5, <4>3
        <5> QED BY <3>1, <5>1, <5>2
      <4> QED BY <4>1, <4>2, <4>3
    <3>3. \A u \in reserved'[i] : u \in Targets \ {t} /\ u \in reserved[i]
      BY <2>5
    <3>4. \A u \in reserved'[i] : final'[dest[i]][u] = {}
      BY <2>3, <3>1, <3>3
    <3> QED BY <1>2, <3>2, <3>4 DEF OwnOK
  <2>12. PlacedOK(i)'
    <3>1. "manifest" \notin committed'[i]
      <4> SUFFICES ASSUME "manifest" \in committed[i], t # "manifest" PROVE FALSE
        BY <2>5
      <4>1. t \in Targets /\ TargetOrder["manifest"] <= TargetOrder[t]
        BY <2>1 DEF Newest
      <4> QED BY <4>1 DEF TargetOrder, Targets
    <3> QED BY <3>1 DEF PlacedOK
  <2>13. ("main" \in roots[i] \/ ~Running(i))'
    BY <1>1, <1>2, <2>1 DEF ImporterOK
  <2>14. NothingOK'
    <3> SUFFICES ASSUME NEW d \in Ids, NEW u \in Targets, owner'[d][u] = Nobody
                 PROVE  final'[d][u] = {}
      BY DEF NothingOK
    <3>1. CASE d = dest[i] /\ u = t
      BY <2>3, <3>1
    <3>2. CASE ~(d = dest[i] /\ u = t)
      <4>1. owner[d][u] = Nobody /\ final'[d][u] = final[d][u]
        BY <2>3, <2>4, <3>2
      <4> QED BY <4>1 DEF MigrationInv, NothingOK
    <3> QED BY <3>1, <3>2
  <2>16. MovedOK'
    <3> SUFFICES ASSUME NEW j \in Importers, opened'[j] = "placed"
                 PROVE  owner'[dest[j]]["companion"] = owner[dest[j]]["companion"]
      BY <1>2, <2>15, MovedKept
    <3>1. dest[j] \in Ids /\ "companion" \in Targets
      BY <1>1 DEF ImportTypeOK, Targets
    <3> QED BY <2>4, <2>15, <3>1
  <2> QED BY <1>2, <2>6, <2>7, <2>8, <2>9, <2>10, <2>11, <2>12, <2>13, <2>14, <2>16,
             RunsAlone, OtherImporters DEF ImporterOK
<1> QED BY <1>3, <1>4 DEF Undo

\* The except clause stops at a path it cannot remove, which is the newest.
LEMMA UndoFailsKeeps ==
  ASSUME MigrationInv, NEW i \in Importers, UndoFails(i)
  PROVE  MigrationInv'
<1> USE ImportAssumption
<1>1. ImportTypeOK /\ ImporterOK(i)
  BY DEF MigrationInv
<1>2. /\ pc[i] = "undo" /\ Running(i)
      /\ UNCHANGED <<src, past, dest, dirs, inode, held, stages, staged, owner, roots, seen, mapped, created,
                     reserved, committed, opened, alone>>
      /\ outcome' = [outcome EXCEPT ![i] = "broken"] /\ GoTo(i, "wipe", {})
  BY DEF UndoFails, At, Running, source, home, staging
<1>20. PICK t \in Targets : \E rest \in SUBSET final[dest[i]][t] :
         /\ Newest(i, t) /\ (t # "companion" => rest = final[dest[i]][t])
         /\ final' = [final EXCEPT ![dest[i]][t] = rest]
  BY DEF UndoFails
<1>3. PICK rest \in SUBSET final[dest[i]][t] :
         /\ Newest(i, t) /\ (t # "companion" => rest = final[dest[i]][t])
         /\ final' = [final EXCEPT ![dest[i]][t] = rest]
  BY <1>20
<1>4. t \in committed[i] \cup reserved[i] /\ owner[dest[i]][t] = i /\ dest[i] \in Ids
  BY <1>1, <1>3 DEF Newest, ImporterOK, OwnOK, ImportTypeOK
<1>5. /\ final' \in [Ids -> [Targets -> SUBSET Item]] /\ final'[dest[i]][t] = rest
      /\ \A u \in Targets \ {t} : final'[dest[i]][u] = final[dest[i]][u]
      /\ \A d \in Ids \ {dest[i]} : final'[d] = final[d]
  BY <1>1, <1>3, <1>4 DEF ImportTypeOK
<1>6. \A d \in Ids : \A u \in Targets : final'[d][u] \subseteq final[d][u]
  BY <1>3, <1>5
<1>7. "wipe" \in Steps /\ {} \in SUBSET (Parts \cup Targets \cup Directories)
  BY DEF Steps
<1>8. /\ pc' \in [Importers -> Steps] /\ pc'[i] = "wipe"
      /\ todo' \in [Importers -> SUBSET (Parts \cup Targets \cup Directories)]
      /\ \A j \in Importers \ {i} : pc'[j] = pc[j] /\ todo'[j] = todo[j]
  BY <1>1, <1>2, <1>7, GoToTypes
<1>9. /\ outcome' \in [Importers -> {"done", "failed", "broken"}] /\ outcome'[i] = "broken"
      /\ \A j \in Importers \ {i} : outcome'[j] = outcome[j]
  BY <1>1, <1>2 DEF ImportTypeOK
<1>10. ImportTypeOK'
  BY <1>1, <1>2, <1>5, <1>8, <1>9 DEF ImportTypeOK
<1>11. Rest(i)
  <2>1. \A u \in Targets : owner[dest[i]][u] # i => final'[dest[i]][u] = final[dest[i]][u]
    BY <1>4, <1>5
  <2> QED BY <1>2, <1>5, <1>8, <1>9, <2>1 DEF Rest
<1>12. StageKept(i)
  BY <1>2, <1>8 DEF StageKept, Staging
<1>13. SeenOK(i)' /\ MomentOK(i)' /\ MapOK(i)' /\ CopyOK(i)'
  BY <1>8, Left DEF Read, Steps
<1>14. ListsOK(i)' /\ OpenOK(i)'
  BY <1>8, <1>9 DEF ListsOK, OpenOK
<1>15. OwnOK(i)'
  <2>1. reserved[i] \subseteq Targets
    BY <1>1 DEF ImportTypeOK
  <2>2. \A u \in reserved[i] : final'[dest[i]][u] = {}
    BY <1>1, <1>4, <1>6, <2>1 DEF ImporterOK, OwnOK
  <2> QED BY <1>1, <1>2, <2>2 DEF ImporterOK, OwnOK
<1>16. PlacedOK(i)'
  <2> SUFFICES ASSUME alone[i], "manifest" \in committed[i]
               PROVE  \E s \in past : \A p \in roots[i] :
                         /\ Into(p) \in committed[i]
                         /\ [part |-> p, v |-> s[p], m |-> s[p]] \in final'[dest[i]][Into(p)]
    BY <1>2 DEF PlacedOK
  <2>1. t \in Targets /\ TargetOrder["manifest"] <= TargetOrder[t]
    BY <1>3 DEF Newest
  <2>2. t # "companion"
    BY <2>1 DEF TargetOrder, Targets
  <2>3. final'[dest[i]] = final[dest[i]]
    BY <1>1, <1>3, <1>4, <2>2 DEF ImportTypeOK
  <2> QED BY <1>1, <2>3 DEF ImporterOK, PlacedOK
<1>17. ("main" \in roots[i] \/ ~Running(i))'
  BY <1>1, <1>2 DEF ImporterOK
<1>18. NothingOK'
  BY <1>2, <1>6 DEF MigrationInv, NothingOK
<1>19. MovedOK'
  BY <1>2, MovedKept
<1> QED BY <1>2, <1>10, <1>11, <1>12, <1>13, <1>14, <1>15, <1>16, <1>17, <1>18, <1>19,
           RunsAlone, OtherImporters DEF ImporterOK

\* rmtree stays in the staging directory, or goes on in the companion directory
\* of an import that is not alone.
LEMMA WipeWhere ==
  ASSUME MigrationInv, NEW i \in Importers, WipeEntry(i)
  PROVE  /\ final' \in [Ids -> [Targets -> SUBSET Item]]
         /\ \A d \in Ids \ {dest[i]} : final'[d] = final[d]
         /\ \A d \in Ids : \A t \in Targets : final'[d][t] \subseteq final[d][t]
         /\ \/ UNCHANGED final
            \/ /\ opened[i] = "placed"
               /\ owner[dest[i]]["companion"] # Nobody /\ ~alone[owner[dest[i]]["companion"]]
               /\ \A t \in Targets \ {"companion"} : final'[dest[i]][t] = final[dest[i]][t]
<1>1. final \in [Ids -> [Targets -> SUBSET Item]] /\ dest[i] \in Ids /\ "companion" \in Targets
  BY DEF MigrationInv, ImportTypeOK, Targets
<1>2. CASE UNCHANGED final
  BY <1>1, <1>2
<1>3. CASE ~UNCHANGED final
  <2>1. PICK c \in CompanionOf(i) :
           opened[i] = "placed" /\ final' = [final EXCEPT ![dest[i]]["companion"] = @ \ {c}]
    BY <1>3 DEF WipeEntry
  <2>2. /\ final' \in [Ids -> [Targets -> SUBSET Item]]
        /\ \A d \in Ids \ {dest[i]} : final'[d] = final[d]
        /\ final'[dest[i]]["companion"] = final[dest[i]]["companion"] \ {c}
        /\ \A t \in Targets \ {"companion"} : final'[dest[i]][t] = final[dest[i]][t]
    BY <1>1, <2>1
  <2>3. owner[dest[i]]["companion"] # Nobody /\ ~alone[owner[dest[i]]["companion"]]
    BY <2>1 DEF MigrationInv, MovedOK
  <2>4. \A d \in Ids : \A t \in Targets : final'[d][t] \subseteq final[d][t]
    BY <2>2
  <2> QED BY <2>1, <2>2, <2>3, <2>4
<1> QED BY <1>2, <1>3

\* An entry of the staging directory is removed.
LEMMA WipeEntryKeeps ==
  ASSUME MigrationInv, NEW i \in Importers, WipeEntry(i)
  PROVE  MigrationInv'
<1> USE ImportAssumption
<1>1. ImportTypeOK /\ ImporterOK(i)
  BY DEF MigrationInv
<1>2. /\ pc[i] = "wipe" /\ Running(i)
      /\ UNCHANGED <<src, past, dest, dirs, inode, held, stages, owner, pc, todo, roots, seen, mapped, created,
                     reserved, committed, outcome, alone>>
  BY DEF WipeEntry, At, Running, source, home
<1>3. /\ final' \in [Ids -> [Targets -> SUBSET Item]]
      /\ \A d \in Ids \ {dest[i]} : final'[d] = final[d]
      /\ \A d \in Ids : \A t \in Targets : final'[d][t] \subseteq final[d][t]
      /\ \/ UNCHANGED final
         \/ /\ owner[dest[i]]["companion"] # Nobody /\ ~alone[owner[dest[i]]["companion"]]
            /\ \A t \in Targets \ {"companion"} : final'[dest[i]][t] = final[dest[i]][t]
  BY WipeWhere
<1>4. /\ staged' \in [Ids -> [Targets -> SUBSET Item]]
      /\ opened' \in [Importers -> {"no", "staged", "placed"}]
      /\ \A d \in Ids \ {dest[i]} : staged'[d] = staged[d]
      /\ \A j \in Importers \ {i} : opened'[j] = opened[j]
      /\ opened'[i] \in {"staged", opened[i]}
  <2>1. /\ staged \in [Ids -> [Targets -> SUBSET Item]] /\ opened \in [Importers -> {"no", "staged", "placed"}]
        /\ dest[i] \in Ids /\ {"main", "companion", "manifest"} \subseteq Targets
    BY <1>1 DEF ImportTypeOK, Targets
  <2>2. CASE \E t \in {"main", "manifest"} :
                staged' = [staged EXCEPT ![dest[i]][t] = {}] /\ UNCHANGED opened
    BY <2>1, <2>2
  <2>3. CASE UNCHANGED <<staged, opened>>
    BY <2>1, <2>3
  <2>4. CASE \E c \in CompanionOf(i) :
                /\ staged' = [staged EXCEPT ![dest[i]]["companion"] = @ \ {c}]
                /\ opened' = [opened EXCEPT ![i] = "staged"]
    BY <2>1, <2>4
  <2> QED BY <2>2, <2>3, <2>4 DEF WipeEntry
<1>5. ImportTypeOK'
  BY <1>1, <1>2, <1>3, <1>4 DEF ImportTypeOK
<1>6. Rest(i)
  <2>1. \A t \in Targets : alone[owner[dest[i]][t]] => final'[dest[i]][t] = final[dest[i]][t]
    BY <1>3
  <2>2. dest[i] \in Ids
    BY <1>1 DEF ImportTypeOK
  <2> QED BY <1>2, <1>3, <1>4, <2>1, <2>2 DEF Rest
<1>7. StageKept(i)
  BY <1>2 DEF StageKept, Staging
<1>8. SeenOK(i)' /\ MomentOK(i)' /\ MapOK(i)' /\ CopyOK(i)'
  BY <1>2, Left DEF Read, Steps
<1>9. ListsOK(i)' /\ OpenOK(i)'
  BY <1>1, <1>2 DEF ImporterOK, ListsOK, OpenOK, StagedTargets
<1>10. OwnOK(i)'
  <2>1. reserved[i] \subseteq Targets /\ dest[i] \in Ids
    BY <1>1 DEF ImportTypeOK
  <2>2. \A u \in reserved[i] : final'[dest[i]][u] = {}
    BY <1>1, <1>3, <2>1 DEF ImporterOK, OwnOK
  <2> QED BY <1>1, <1>2, <2>2 DEF ImporterOK, OwnOK
<1>11. PlacedOK(i)'
  <2>1. \A t \in committed[i] : alone[i] => final'[dest[i]][t] = final[dest[i]][t]
    <3>1. \A t \in committed[i] : t \in Targets /\ owner[dest[i]][t] = i
      BY <1>1 DEF ImporterOK, OwnOK, ImportTypeOK
    <3> QED BY <1>3, <3>1
  <2> QED BY <1>1, <1>2, <2>1 DEF ImporterOK, PlacedOK
<1>12. ("main" \in roots[i] \/ ~Running(i))'
  BY <1>1, <1>2 DEF ImporterOK
<1>13. NothingOK'
  BY <1>2, <1>3 DEF MigrationInv, NothingOK
<1>14. MovedOK'
  BY <1>2, <1>4, MovedKept
<1> QED BY <1>2, <1>5, <1>6, <1>7, <1>8, <1>9, <1>10, <1>11, <1>12, <1>13, <1>14,
           RunsAlone, OtherImporters DEF ImporterOK

\* The source goes on: a part that was as it was read has now moved.
LEMMA SourceKeeps ==
  ASSUME MigrationInv, NEW p \in Sources, SourceChanges(p)
  PROVE  MigrationInv'
<1>1. ImportTypeOK
  BY DEF MigrationInv
<1>2. UNCHANGED <<dest, dirs, inode, held, stages, staged, final, owner, pc, todo, roots, seen, mapped, created,
                  reserved, committed, opened, outcome, alone>>
  BY DEF SourceChanges, tree, home, staging, places, local
<1>3. /\ src \in [Sources -> Int] /\ past' = past \cup {src'} /\ src[p] # Gone
      /\ \/ src' = [src EXCEPT ![p] = @ + 1]
         \/ src' = [src EXCEPT ![p] = Gone]
  BY <1>1 DEF SourceChanges, ImportTypeOK
<1>4. /\ src' \in [Sources -> Int] /\ src'[p] \in {src[p] + 1, Gone}
      /\ \A q \in Sources \ {p} : src'[q] = src[q]
  BY <1>3 DEF Gone
<1>5. ImportTypeOK'
  BY <1>1, <1>2, <1>3, <1>4 DEF ImportTypeOK
<1>6. src' \in past' /\ past \subseteq past'
  BY <1>3
<1>7. AloneOK' /\ StagesOK' /\ NothingOK' /\ MovedOK'
  BY <1>2 DEF MigrationInv, AloneOK, StagesOK, NothingOK, MovedOK, Running
<1>8. ASSUME NEW i \in Importers PROVE ImporterOK(i)'
  <2>1. ImporterOK(i) /\ roots[i] \subseteq Sources /\ seen[i] \in [Sources -> Int]
    BY <1>1 DEF MigrationInv, ImportTypeOK
  <2>2. \A q \in roots[i] : Moved(q, seen[i][q]) => Moved(q, seen[i][q])'
    BY <1>2, <1>3, <1>4, <2>1 DEF Moved
  <2>3. \A q \in roots[i] : Doomed(i, q) => Doomed(i, q)'
    BY <1>2, <2>2 DEF Doomed
  <2>4. \A q \in roots[i] : src[q] = seen[i][q] => src'[q] = seen[i][q] \/ Moved(q, seen[i][q])'
    BY <1>2, <1>3, <1>4, <2>1 DEF Moved
  <2>5. SeenOK(i)'
    BY <1>2, <2>1, <2>2, <2>4 DEF ImporterOK, SeenOK
  <2>6. MomentOK(i)'
    BY <1>2, <1>6, <2>1, <2>3 DEF ImporterOK, MomentOK
  <2>7. MapOK(i)' /\ CopyOK(i)'
    BY <1>2, <2>1, <2>3 DEF ImporterOK, MapOK, CopyOK, Now, AsSeen
  <2>8. ListsOK(i)' /\ OwnOK(i)' /\ OpenOK(i)' /\ ("main" \in roots[i] \/ ~Running(i))'
    BY <1>2, <2>1 DEF ImporterOK, ListsOK, OwnOK, OpenOK, StagedTargets, Running
  <2>9. PlacedOK(i)'
    BY <1>2, <1>6, <2>1 DEF ImporterOK, PlacedOK
  <2> QED BY <2>5, <2>6, <2>7, <2>8, <2>9 DEF ImporterOK
<1> QED BY <1>5, <1>6, <1>7, <1>8 DEF MigrationInv

\* Every step keeps the invariant.
LEMMA ImportStep ==
  ASSUME MigrationInv, [ImportNext]_importVars
  PROVE  MigrationInv'
<1>1. CASE UNCHANGED importVars
  <2>1. UNCHANGED <<src, past, dest, dirs, inode, held, stages, staged, final, owner, pc, todo, roots, seen, mapped,
                    created, reserved, committed, opened, outcome, alone>>
    BY <1>1 DEF importVars, source, tree, home, staging, places, local
  <2>2. ImportTypeOK' /\ src' \in past' /\ AloneOK' /\ StagesOK' /\ NothingOK' /\ MovedOK'
    BY <2>1 DEF MigrationInv, ImportTypeOK, AloneOK, StagesOK, NothingOK, MovedOK, Running
  <2>3. ASSUME NEW i \in Importers PROVE ImporterOK(i)'
    <3>1. ImporterOK(i)
      BY DEF MigrationInv
    <3>2. SeenOK(i)' /\ MomentOK(i)' /\ MapOK(i)' /\ CopyOK(i)'
      BY <2>1, <3>1 DEF ImporterOK, SeenOK, MomentOK, MapOK, CopyOK, Doomed, Moved, Now, AsSeen
    <3>3. ListsOK(i)' /\ OwnOK(i)' /\ PlacedOK(i)' /\ OpenOK(i)' /\ ("main" \in roots[i] \/ ~Running(i))'
      BY <2>1, <3>1 DEF ImporterOK, ListsOK, OwnOK, PlacedOK, OpenOK, StagedTargets, Running
    <3> QED BY <3>2, <3>3 DEF ImporterOK
  <2> QED BY <2>2, <2>3 DEF MigrationInv
<1>2. CASE ImportNext
  BY <1>2, SourceKeeps, BeginKeeps, FingerprintKeeps, MapIdentifiersKeeps, HomeKeeps, CopyPartKeeps,
     FingerprintAgainKeeps, WriteManifestKeeps, ValidateKeeps, ReserveKeeps, ReplaceKeeps, ReturnResultKeeps,
     UndoKeeps, UndoFailsKeeps, WipeEntryKeeps, WipeEndsKeeps, ReleaseKeeps, RaisesKeeps, EndsKeeps DEF ImportNext, Import
<1> QED BY <1>1, <1>2

\* It holds at the start.
LEMMA ImportStart == ImportInit => MigrationInv
<1> USE ImportAssumption
<1> SUFFICES ASSUME ImportInit PROVE MigrationInv
  OBVIOUS
<1>1. /\ \A i \in Importers : /\ pc[i] = "idle" /\ committed[i] = {} /\ reserved[i] = {}
                              /\ opened[i] = "no" /\ dest[i] \in Ids
      /\ \A d \in Ids : \A t \in Targets : owner[d][t] = Nobody /\ final[d][t] = {}
      /\ stages = {} /\ past = {src}
  BY DEF ImportInit
<1>2. ImportTypeOK
  BY DEF ImportInit, ImportTypeOK, Steps
<1>3. AloneOK /\ StagesOK /\ NothingOK /\ MovedOK /\ src \in past
  BY <1>1 DEF AloneOK, StagesOK, NothingOK, MovedOK, Running
<1>4. ASSUME NEW i \in Importers PROVE ImporterOK(i)
  <2>1. SeenOK(i) /\ MomentOK(i) /\ MapOK(i) /\ CopyOK(i) /\ ListsOK(i)
    BY <1>1 DEF SeenOK, MomentOK, MapOK, CopyOK, ListsOK, Read
  <2>2. OwnOK(i) /\ PlacedOK(i) /\ OpenOK(i) /\ ~Running(i)
    BY <1>1 DEF OwnOK, PlacedOK, OpenOK, Running
  <2> QED BY <2>1, <2>2 DEF ImporterOK
<1> QED BY <1>2, <1>3, <1>4 DEF MigrationInv

\* The invariant holds in every state.
LEMMA MigrationInvariance == ImportSpec => []MigrationInv
<1>1. MigrationInv /\ [ImportNext]_importVars => MigrationInv'
  BY ImportStep
<1> QED BY <1>1, ImportStart, PTL DEF ImportSpec

\* The variables of the importers keep their types.
THEOREM ImportTypes == ImportSpec => []ImportTypeOK
<1>1. MigrationInv => ImportTypeOK
  BY DEF MigrationInv
<1> QED BY <1>1, MigrationInvariance, PTL

\* A manifest at its place vouches for one moment of the source, whatever the
\* source does while it is read, mapped, copied and read again.
THEOREM Snapshot == ImportSpec => []ImportIsSnapshot
<1>1. MigrationInv => ImportIsSnapshot
  <2> SUFFICES ASSUME MigrationInv, NEW i \in Importers, alone[i],
                      owner[dest[i]]["manifest"] = i, final[dest[i]]["manifest"] # {}
               PROVE  \E s \in past : \A p \in roots[i] :
                         [part |-> p, v |-> s[p], m |-> s[p]] \in Placed(i)
    BY DEF ImportIsSnapshot
  <2>1. OwnOK(i) /\ PlacedOK(i) /\ dest[i] \in Ids /\ "manifest" \in Targets
    BY DEF MigrationInv, ImporterOK, ImportTypeOK, Targets
  <2>2. "manifest" \in committed[i]
    BY <2>1 DEF OwnOK
  <2>3. PICK s \in past : \A p \in roots[i] :
           [part |-> p, v |-> s[p], m |-> s[p]] \in final[dest[i]][Into(p)]
    BY <2>1, <2>2 DEF PlacedOK
  <2> QED BY <2>3 DEF Placed, Into
<1> QED BY <1>1, MigrationInvariance, PTL

\* An import that failed has taken back everything it placed.
THEOREM FailureIsClean == ImportSpec => []FailedLeavesNothing
<1>1. MigrationInv => FailedLeavesNothing
  <2> SUFFICES ASSUME MigrationInv, NEW i \in Importers, pc[i] = "failed"
               PROVE  /\ \A t \in Targets : owner[dest[i]][t] # i
                      /\ dest[i] \in stages =>
                            \E j \in Importers :
                               dest[j] = dest[i] /\ (Running(j) \/ pc[j] \in {"dead", "broken"})
    BY DEF FailedLeavesNothing
  <2>1. committed[i] = {} /\ reserved[i] = {} /\ OwnOK(i) /\ dest[i] \in Ids
    BY DEF MigrationInv, ImporterOK, ListsOK, ImportTypeOK
  <2>2. \A t \in Targets : owner[dest[i]][t] # i
    BY <2>1 DEF OwnOK
  <2>3. dest[i] \in stages =>
           \E j \in Importers :
                               dest[j] = dest[i] /\ (Running(j) \/ pc[j] \in {"dead", "broken"})
    BY DEF MigrationInv, StagesOK, Staging, Running
  <2> QED BY <2>2, <2>3
<1> QED BY <1>1, MigrationInvariance, PTL

\* No other import, and no cleanup, touches what an import has placed, but for
\* the companion directory of one that another import of its number ran beside.
THEOREM PlacedIsKept == ImportSpec => OthersUntouched
<1> USE ImportAssumption
<1>1. ASSUME MigrationInv, [ImportNext]_importVars
      PROVE  [\A d \in Ids : \A t \in Targets :
                 /\ owner[d][t] # Nobody
                 /\ <<owner'[d][t], final'[d][t]>> # <<owner[d][t], final[d][t]>>
                 => \/ pc[owner[d][t]] \in {"replace", "undo"}
                    \/ /\ t = "companion" /\ owner'[d][t] = owner[d][t] /\ ~alone[owner[d][t]]
                       /\ \E j \in Importers : dest[j] = d /\ opened[j] = "placed"]_importVars
  <2> SUFFICES ASSUME ImportNext, NEW d \in Ids, NEW t \in Targets, owner[d][t] # Nobody,
                      <<owner'[d][t], final'[d][t]>> # <<owner[d][t], final[d][t]>>
               PROVE  \/ pc[owner[d][t]] \in {"replace", "undo"}
                      \/ /\ t = "companion" /\ owner'[d][t] = owner[d][t] /\ ~alone[owner[d][t]]
                         /\ \E j \in Importers : dest[j] = d /\ opened[j] = "placed"
    BY <1>1
  <2>1. ImportTypeOK
    BY <1>1 DEF MigrationInv
  <2>2. ~UNCHANGED <<final, owner>>
    OBVIOUS
  <2>3. \E i \in Importers : Reserve(i) \/ Replace(i) \/ Undo(i) \/ UndoFails(i) \/ WipeEntry(i)
    <3>2. ASSUME NEW i \in Importers,
                 \/ Begin(i) \/ Fingerprint(i) \/ MapIdentifiers(i) \/ EnsureHome(i) \/ AcquireLock(i)
                 \/ EnsureProjects(i) \/ MakeStage(i) \/ CopyPart(i) \/ FingerprintAgain(i)
                 \/ WriteManifest(i) \/ Validate(i) \/ ReturnResult(i) \/ WipeEnds(i) \/ ReleaseLock(i)
                 \/ RemoveDirectory(i) \/ WipeFails(i) \/ Raises(i) \/ Crash(i)
          PROVE  FALSE
      BY <2>2, <3>2 DEF Begin, Fingerprint, MapIdentifiers, EnsureHome, AcquireLock, EnsureProjects, MakeStage,
         CopyPart, FingerprintAgain, WriteManifest, Validate, ReturnResult, WipeEnds, ReleaseLock,
         RemoveDirectory, WipeFails, Raises, Crash, Ends, tree, places
    <3>3. ASSUME NEW p \in Sources, SourceChanges(p) PROVE FALSE
      BY <2>2, <3>3 DEF SourceChanges, tree, places
    <3> QED BY <3>2, <3>3 DEF ImportNext, Import
  <2>4. PICK i \in Importers : Reserve(i) \/ Replace(i) \/ Undo(i) \/ UndoFails(i) \/ WipeEntry(i)
    BY <2>3
  <2>5. ImporterOK(i) /\ dest[i] \in Ids /\ owner \in [Ids -> [Targets -> Importers \cup {Nobody}]]
        /\ final \in [Ids -> [Targets -> SUBSET Item]]
    BY <1>1, <2>1 DEF MigrationInv, ImportTypeOK
  <2>6. CASE Reserve(i)
    <3>1. UNCHANGED final
      BY <2>6 DEF Reserve
    <3>2. PICK u \in Targets : owner[dest[i]][u] = Nobody /\ owner' = [owner EXCEPT ![dest[i]][u] = i]
      BY <2>2, <2>6, <3>1 DEF Reserve, Taken
    <3>3. owner'[d][t] = owner[d][t]
      BY <2>5, <3>2
    <3> QED BY <3>1, <3>3
  <2>7. CASE Replace(i)
    <3>1. pc[i] = "replace" /\ todo[i] = reserved[i]
      BY <2>5, <2>7 DEF Replace, At, ImporterOK, ListsOK
    <3>2. PICK u \in Targets :
             /\ u \in todo[i] /\ owner' = [owner EXCEPT ![dest[i]][u] = i]
             /\ final' = [final EXCEPT ![dest[i]][u] = staged[dest[i]][u]]
      BY <2>2, <2>7 DEF Replace, Turn, places
    <3>3. owner[dest[i]][u] = i
      BY <2>5, <3>1, <3>2 DEF ImporterOK, OwnOK
    <3>4. d = dest[i] /\ t = u
      BY <2>5, <3>2
    <3> QED BY <3>1, <3>3, <3>4
  <2>8. CASE Undo(i)
    <3>1. pc[i] = "undo"
      BY <2>8 DEF Undo, At
    <3>2. PICK u \in Targets :
             /\ Newest(i, u) /\ owner' = [owner EXCEPT ![dest[i]][u] = Nobody]
             /\ final' = [final EXCEPT ![dest[i]][u] = {}]
      BY <2>2, <2>8 DEF Undo, Remove, places
    <3>3. owner[dest[i]][u] = i
      BY <2>5, <3>2 DEF Newest, ImporterOK, OwnOK
    <3>4. d = dest[i] /\ t = u
      BY <2>5, <3>2
    <3> QED BY <3>1, <3>3, <3>4
  <2>9. CASE UndoFails(i)
    <3>1. pc[i] = "undo" /\ UNCHANGED owner
      BY <2>9 DEF UndoFails, At
    <3>2. PICK u \in Targets : Newest(i, u) /\ \E rest : final' = [final EXCEPT ![dest[i]][u] = rest]
      BY <2>9 DEF UndoFails
    <3>3. owner[dest[i]][u] = i
      BY <2>5, <3>2 DEF Newest, ImporterOK, OwnOK
    <3>4. d = dest[i] /\ t = u
      BY <2>5, <3>1, <3>2
    <3> QED BY <3>1, <3>3, <3>4
  <2>10. CASE WipeEntry(i)
    <3>1. UNCHANGED owner
      BY <2>10 DEF WipeEntry
    <3>2. /\ opened[i] = "placed" /\ d = dest[i] /\ t = "companion"
          /\ ~alone[owner[dest[i]]["companion"]]
      BY <1>1, <2>10, <3>1, WipeWhere
    <3> QED BY <3>1, <3>2
  <2> QED BY <2>4, <2>6, <2>7, <2>8, <2>9, <2>10
<1> QED BY <1>1, MigrationInvariance, PTL DEF OthersUntouched, ImportSpec
=============================================================================
