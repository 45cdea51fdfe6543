-------------------------- MODULE SessionMigration --------------------------
(***************************************************************************)
(* The import of a conversation into the sandbox home                      *)
(* (session_migration.py, import_claude_session): importers that may run   *)
(* at the same time, a source conversation that goes on while it is read,  *)
(* and importers that are killed between two steps.                        *)
(*                                                                         *)
(* The source is a set of parts: the main record, the companion directory, *)
(* the temporary directory and the file history of the session.  What a    *)
(* part holds is its version; a conversation is appended to, so a part     *)
(* never takes an earlier version again.  The destination holds, for every *)
(* new session number, a staging directory and the three final paths main, *)
(* companion and manifest; all but the main record lands in companion.     *)
(*                                                                         *)
(* The code's lists are in the order in which it walks or fills them, and  *)
(* that order is fixed; a list is the set of its members here, walked from *)
(* the lowest rank and undone from the highest.                            *)
(***************************************************************************)
EXTENDS Integers, FiniteSets

CONSTANTS
    Importers,   \* runs of "sandboxctl session import"
    Ids,         \* new session numbers
    Dests,       \* the new numbers the importers may be given (--new-id)
    Sources,     \* parts the source may have
    Initially,   \* parts it has at the start
    MaxEdits,    \* bound: changes of the source
    MaxCrashes,  \* bound: importers that are killed
    Nobody       \* no importer

Parts == {"main", "companion", "tmp", "history"}
Targets == {"main", "companion", "manifest"}
Directories == {"claude", "projects", "project", "imports"}

ASSUME ImportAssumption ==
    /\ Dests \subseteq [Importers -> Ids] /\ Dests # {}
    /\ Sources \subseteq Parts
    /\ Initially \subseteq Sources
    /\ "main" \in Initially
    /\ MaxEdits \in Nat /\ MaxCrashes \in Nat
    /\ Nobody \notin Importers

VARIABLES
    dest,      \* the new number of every importer
    src,       \* version of every source part: 0 not there yet, Gone deleted
    past,      \* history: every state the source has been in
    dirs,      \* directories of the home: .claude and the ones below it
    inode,     \* which incarnation of .claude exists
    held,      \* incarnation whose lock the importer holds, 0 for none
    stages,    \* new numbers whose staging directory exists
    staged,    \* what is in it, for every target
    final,     \* what is at the final paths of every new number
    owner,     \* who reserved the path; Nobody: there is nothing at it
    pc,        \* step of the importer
    todo,      \* what is left of the list the step walks
    roots,     \* source_roots: parts the fingerprint covers
    seen,      \* versions the first fingerprint read
    mapped,    \* versions the identifier map was built from
    created,   \* created_directories
    reserved,  \* reservations
    committed, \* committed
    opened,    \* rmtree is in the companion directory: not yet, where it was
               \* staged, or where it has been placed meanwhile
    outcome,   \* how the import will end
    alone      \* history: no other import of the same number ran beside it

source == <<src, past>>
home   == <<dirs, inode, held>>
staging == <<stages, staged>>
places == <<final, owner>>
tree   == <<home, staging, places>>
local  == <<dest, roots, seen, mapped, created, reserved, committed, opened,
            outcome, alone>>
importVars == <<source, tree, pc, todo, local>>

Gone == -1
Exists(p) == src[p] > 0

\* What a file holds.  A copy: its part, the version copied and the version the
\* map knew.  The manifest: which parts there are.
Item == [part : Parts, v : Nat, m : Int] \cup [part : Parts]

\* Order of source_roots, of the copies, of staged_targets, and of
\* created_directories from the end.
RootOrder   == [main |-> 1, companion |-> 2, history |-> 3, tmp |-> 4]
CopyOrder   == [main |-> 1, companion |-> 2, tmp |-> 3, history |-> 4]
TargetOrder == [main |-> 1, companion |-> 2, manifest |-> 3]
RemoveOrder == [imports |-> 1, project |-> 2, projects |-> 3, claude |-> 4]

Parent == [projects |-> "claude", project |-> "projects", imports |-> "claude"]
DirOf  == [main |-> "project", companion |-> "project", manifest |-> "imports"]
Into(p) == IF p = "main" THEN "main" ELSE "companion"

Running(i) == pc[i] \notin {"idle", "done", "failed", "broken", "dead"}

ImportInit ==
    /\ dest \in Dests
    /\ src = [p \in Sources |-> IF p \in Initially THEN 1 ELSE 0]
    /\ past = {src}
    /\ dirs = {} /\ inode = 0 /\ held = [i \in Importers |-> 0]
    /\ stages = {}
    /\ staged = [d \in Ids |-> [t \in Targets |-> {}]]
    /\ final = staged
    /\ owner = [d \in Ids |-> [t \in Targets |-> Nobody]]
    /\ pc = [i \in Importers |-> "idle"]
    /\ todo = [i \in Importers |-> {}]
    /\ roots = todo
    /\ seen = [i \in Importers |-> [p \in Sources |-> 0]]
    /\ mapped = seen
    /\ created = todo /\ reserved = todo /\ committed = todo
    /\ opened = [i \in Importers |-> "no"]
    /\ outcome = [i \in Importers |-> "failed"]
    /\ alone = [i \in Importers |-> TRUE]

-----------------------------------------------------------------------------
(* Control: go to a step with a list to walk, go on along the list, raise. *)

At(i, step) == pc[i] = step

GoTo(i, step, list) == /\ pc' = [pc EXCEPT ![i] = step]
                       /\ todo' = [todo EXCEPT ![i] = list]

\* The member of the list whose turn it is.
Turn(i, order, p) == p \in todo[i] /\ \A q \in todo[i] : order[p] <= order[q]

\* p is done; after the last one comes the next step.
OnTo(i, p, step, list) ==
    IF todo[i] = {p}
    THEN GoTo(i, step, list)
    ELSE GoTo(i, pc[i], todo[i] \ {p})

\* An exception in the body: the except clause undoes what was placed.
Throw(i) == GoTo(i, "undo", {})

-----------------------------------------------------------------------------
(* The source session goes on: a part is written to, appears or is removed. *)

SourceChanges(p) ==
    /\ Cardinality(past) <= MaxEdits
    /\ src[p] # Gone
    /\ \/ src' = [src EXCEPT ![p] = @ + 1]
       \/ Exists(p) /\ src' = [src EXCEPT ![p] = Gone]
    /\ past' = past \cup {src'}
    /\ UNCHANGED <<tree, pc, todo, local>>

-----------------------------------------------------------------------------
(* Before anything is written: find the parts, fingerprint them one after  *)
(* the other, and collect the identifiers to renumber.                     *)

\* Nothing keeps two imports of one new number apart; the history notes it.
Rivals(i) == {j \in Importers \ {i} : dest[j] = dest[i] /\ Running(j)}

Begin(i) ==
    /\ At(i, "idle")
    /\ alone' = [j \in Importers |->
                    alone[j] /\ j \notin Rivals(i) /\ (j = i => Rivals(i) = {})]
    /\ roots' = [roots EXCEPT ![i] = {p \in Sources : Exists(p)}]
    /\ IF Exists("main")
       THEN GoTo(i, "fingerprint", roots'[i])
       ELSE GoTo(i, "failed", {})
    /\ UNCHANGED <<source, dest, tree, seen, mapped, created, reserved,
                   committed, opened, outcome>>

\* _fingerprint_paths: a root that is gone raises, outside the try block.
Fingerprint(i) ==
    /\ At(i, "fingerprint")
    /\ \E p \in Sources :
          /\ Turn(i, RootOrder, p)
          /\ seen' = [seen EXCEPT ![i][p] = src[p]]
          /\ IF Exists(p) THEN OnTo(i, p, "map", roots[i])
                          ELSE GoTo(i, "failed", {})
    /\ UNCHANGED <<source, dest, tree, roots, mapped, created, reserved,
                   committed, opened, outcome, alone>>

\* _build_identifier_map: a root that is gone contributes nothing.
MapIdentifiers(i) ==
    /\ At(i, "map")
    /\ \E p \in Sources :
          /\ Turn(i, RootOrder, p)
          /\ mapped' = [mapped EXCEPT ![i][p] = src[p]]
          /\ OnTo(i, p, "home", {})
    /\ UNCHANGED <<source, dest, tree, roots, seen, created, reserved,
                   committed, opened, outcome, alone>>

-----------------------------------------------------------------------------
(* The home: _ensure_private_directory and the lock on .claude.            *)

Missing(d) == d \notin dirs
Unplaced(d) == d # "claude" /\ Missing(Parent[d])

\* Create the directory unless it is there; the caller has its parent.
Ensure(i, d) ==
    /\ dirs' = dirs \cup {d}
    /\ created' = [created EXCEPT ![i] = IF Missing(d) THEN @ \cup {d} ELSE @]
    /\ inode' = IF d = "claude" /\ Missing(d) THEN inode + 1 ELSE inode

EnsureHome(i) ==
    /\ At(i, "home")
    /\ Ensure(i, "claude")
    /\ GoTo(i, "lock", {})
    /\ UNCHANGED <<source, dest, held, staging, places, roots, seen, mapped,
                   reserved, committed, opened, outcome, alone>>

\* _acquire_import_lock: flock without waiting, on the directory as it is now.
AcquireLock(i) ==
    /\ At(i, "lock")
    /\ IF Missing("claude") \/ \E j \in Importers : held[j] = inode
       THEN Throw(i) /\ UNCHANGED held
       ELSE /\ held' = [held EXCEPT ![i] = inode]
            /\ GoTo(i, "projects", {})
    /\ UNCHANGED <<source, dirs, inode, staging, places, local>>

EnsureProjects(i) ==
    /\ At(i, "projects")
    /\ IF Unplaced("projects") /\ Missing("projects")
       THEN Throw(i) /\ UNCHANGED <<dirs, created, inode>>
       ELSE Ensure(i, "projects") /\ GoTo(i, "stage", {})
    /\ UNCHANGED <<source, dest, held, staging, places, roots, seen, mapped,
                   reserved, committed, opened, outcome, alone>>

-----------------------------------------------------------------------------
(* The staging directory: copy, check the source again, write the manifest *)

MakeStage(i) ==
    /\ At(i, "stage")
    /\ IF dest[i] \in stages \/ Missing("claude")
       THEN Throw(i) /\ UNCHANGED stages
       ELSE /\ stages' = stages \cup {dest[i]}
            /\ GoTo(i, "copy", Sources)
    /\ UNCHANGED <<source, home, staged, places, local>>

\* Writing into the stage makes its parents, the stage and .claude included.
Stage(i, target, items) ==
    /\ stages' = stages \cup {dest[i]}
    /\ staged' = [staged EXCEPT ![dest[i]][target] = @ \cup items]
    /\ dirs' = dirs \cup {"claude"}
    /\ inode' = IF Missing("claude") THEN inode + 1 ELSE inode

Copied(i, p) == [part |-> p, v |-> src[p], m |-> mapped[i][p]]

\* Companions are the ones found at the start; the temporary directory and
\* the file history are looked for again, so one that has just appeared is
\* copied although no fingerprint covers it.  A companion that is gone leaves
\* an empty directory.
Wanted(i, p) == IF p = "companion" THEN p \in roots[i] ELSE Exists(p)

CopyPart(i) ==
    /\ At(i, "copy")
    /\ \E p \in Sources :
          /\ Turn(i, CopyOrder, p)
          /\ \/ /\ p = "main" => Exists(p)
                /\ IF Wanted(i, p)
                   THEN Stage(i, Into(p), IF Exists(p) THEN {Copied(i, p)} ELSE {})
                   ELSE UNCHANGED <<staging, dirs, inode>>
                /\ OnTo(i, p, "again", roots[i])
             \/ /\ p = "main" /\ ~Exists(p)
                /\ Throw(i)
                /\ UNCHANGED <<staging, dirs, inode>>
    /\ UNCHANGED <<source, held, places, local>>

\* Mutant: the copy is believed without a second look at the source.
Unchanged_Believed(i, p) == TRUE

\* The second fingerprint; the comparison is made part by part.
Unchanged(i, p) == src[p] = seen[i][p]

FingerprintAgain(i) ==
    /\ At(i, "again")
    /\ \E p \in Sources :
          /\ Turn(i, RootOrder, p)
          /\ IF Unchanged(i, p) THEN OnTo(i, p, "manifest", {}) ELSE Throw(i)
    /\ UNCHANGED <<source, tree, local>>

\* The manifest tells which parts were copied.
WriteManifest(i) ==
    /\ At(i, "manifest")
    /\ Stage(i, "manifest",
             {[part |-> p] : p \in {"main"} \cup
                {c.part : c \in staged[dest[i]]["main"] \cup staged[dest[i]]["companion"]}})
    /\ GoTo(i, "validate", {})
    /\ UNCHANGED <<source, held, places, local>>

\* final_companions is settled at the start, from the parts found then.
StagedTargets(i) == IF roots[i] = {"main"} THEN Targets \ {"companion"} ELSE Targets

\* The residue checks and _validate_main_session, which opens the main record.
Validate(i) ==
    /\ At(i, "validate")
    /\ IF staged[dest[i]]["main"] = {}
       THEN Throw(i)
       ELSE GoTo(i, "reserve", StagedTargets(i))
    /\ UNCHANGED <<source, tree, local>>

-----------------------------------------------------------------------------
(* Placing the result: reserve every path, then replace one by one.        *)

\* Mutant: an existing path is taken over (no O_EXCL).
Taken_Over(i, t) == FALSE

Taken(i, t) == owner[dest[i]][t] # Nobody

\* _reserve_path: O_EXCL or mkdir, after the parent directory.
Reserve(i) ==
    /\ At(i, "reserve")
    /\ \E t \in Targets :
          /\ Turn(i, TargetOrder, t)
          /\ IF Missing(DirOf[t]) /\ Unplaced(DirOf[t])
             THEN Throw(i) /\ UNCHANGED <<dirs, created, inode, owner, reserved>>
             ELSE /\ Ensure(i, DirOf[t])
                  /\ IF Taken(i, t)
                     THEN Throw(i) /\ UNCHANGED <<owner, reserved>>
                     ELSE /\ owner' = [owner EXCEPT ![dest[i]][t] = i]
                          /\ reserved' = [reserved EXCEPT ![i] = @ \cup {t}]
                          /\ OnTo(i, t, "replace", StagedTargets(i))
    /\ UNCHANGED <<source, dest, held, staging, final, roots, seen, mapped,
                   committed, opened, outcome, alone>>

\* A companion directory that an rmtree has emptied and not yet removed is there.
Movable(i, t) ==
    \/ staged[dest[i]][t] # {}
    \/ t = "companion" /\ \E j \in Importers : dest[j] = dest[i] /\ opened[j] = "staged"

\* Every rmtree in a companion directory of this number goes where it goes.
Carried(i, from, to) ==
    [j \in Importers |-> IF dest[j] = dest[i] /\ opened[j] = from THEN to ELSE opened[j]]

\* os.replace: the staged path becomes the final one in a single step.
Replace(i) ==
    /\ At(i, "replace")
    /\ \E t \in Targets :
          /\ Turn(i, TargetOrder, t)
          /\ IF ~Movable(i, t)
             THEN Throw(i) /\ UNCHANGED <<staged, places, reserved, committed, opened>>
             ELSE /\ final' = [final EXCEPT ![dest[i]][t] = staged[dest[i]][t]]
                  /\ owner' = [owner EXCEPT ![dest[i]][t] = i]
                  /\ staged' = [staged EXCEPT ![dest[i]][t] = {}]
                  /\ reserved' = [reserved EXCEPT ![i] = @ \ {t}]
                  /\ committed' = [committed EXCEPT ![i] = @ \cup {t}]
                  /\ opened' = IF t = "companion" THEN Carried(i, "staged", "placed") ELSE opened
                  /\ OnTo(i, t, "verify", {})
    /\ UNCHANGED <<source, dest, home, stages, roots, seen, mapped, created,
                   outcome, alone>>

\* The check of the committed paths passes and the result is returned.
ReturnResult(i) ==
    /\ At(i, "verify")
    /\ outcome' = [outcome EXCEPT ![i] = "done"]
    /\ GoTo(i, "wipe", {})
    /\ UNCHANGED <<source, dest, tree, roots, seen, mapped, created,
                   reserved, committed, opened, alone>>

-----------------------------------------------------------------------------
(* Failure: any step of the body may raise (no space, no permission, a     *)
(* residue found); the except clause undoes, newest first.                 *)

Body == {"home", "lock", "projects", "stage", "copy", "again", "manifest",
         "validate", "reserve", "replace", "verify"}

Raises(i) ==
    /\ pc[i] \in Body
    /\ Throw(i)
    /\ UNCHANGED <<source, tree, local>>

\* What the except clause removes next: the newest of committed, then the
\* newest of reservations.
Newest(i, t) ==
    LET list == IF committed[i] # {} THEN committed[i] ELSE reserved[i]
    IN  t \in list /\ \A u \in list : TargetOrder[u] <= TargetOrder[t]

\* The path is gone, and with it the directory an rmtree may be in.
Remove(i, t) ==
    /\ final' = [final EXCEPT ![dest[i]][t] = {}]
    /\ owner' = [owner EXCEPT ![dest[i]][t] = Nobody]
    /\ committed' = [committed EXCEPT ![i] = @ \ {t}]
    /\ reserved' = [reserved EXCEPT ![i] = @ \ {t}]
    /\ opened' = IF t = "companion" THEN Carried(i, "placed", "no") ELSE opened

\* Mutant: the reservations are left behind.
Undo_CommittedOnly(i) ==
    /\ At(i, "undo")
    /\ \/ /\ committed[i] = {}
          /\ GoTo(i, "wipe", {})
          /\ UNCHANGED <<places, reserved, committed, opened>>
       \/ /\ committed[i] # {}
          /\ \E t \in Targets : Newest(i, t) /\ Remove(i, t)
          /\ UNCHANGED <<pc, todo>>
    /\ UNCHANGED <<source, dest, home, staging, roots, seen, mapped, created, outcome, alone>>

Undo(i) ==
    /\ At(i, "undo")
    /\ \/ /\ committed[i] \cup reserved[i] = {}
          /\ GoTo(i, "wipe", {})
          /\ UNCHANGED <<places, reserved, committed, opened>>
       \/ /\ \E t \in Targets : Newest(i, t) /\ Remove(i, t)
          /\ UNCHANGED <<pc, todo>>
    /\ UNCHANGED <<source, dest, home, staging, roots, seen, mapped, created, outcome, alone>>

\* _remove_path raises inside the except clause: the rest of the lists stays, of
\* a companion directory whatever rmtree had not removed yet.
UndoFails(i) ==
    /\ At(i, "undo")
    /\ \E t \in Targets : \E rest \in SUBSET final[dest[i]][t] :
          /\ Newest(i, t) /\ (t # "companion" => rest = final[dest[i]][t])
          /\ final' = [final EXCEPT ![dest[i]][t] = rest]
    /\ outcome' = [outcome EXCEPT ![i] = "broken"]
    /\ GoTo(i, "wipe", {})
    /\ UNCHANGED <<source, dest, home, staging, owner, roots, seen, mapped, created, reserved,
                   committed, opened, alone>>

-----------------------------------------------------------------------------
(* The finally clause: _remove_path(stage), also by an importer that never *)
(* had the lock, then the lock, then the directories that are still empty. *)

\* rmtree removes entry after entry.  Inside the companion directory it goes
\* on by descriptor, wherever the directory has been moved meanwhile.
CompanionOf(i) ==
    IF opened[i] = "placed" THEN final[dest[i]]["companion"] ELSE staged[dest[i]]["companion"]

WipeEntry(i) ==
    /\ At(i, "wipe")
    /\ \/ \E t \in {"main", "manifest"} :
             /\ staged[dest[i]][t] # {}
             /\ staged' = [staged EXCEPT ![dest[i]][t] = {}]
             /\ UNCHANGED <<final, opened>>
       \/ \E c \in CompanionOf(i) :
             IF opened[i] = "placed"
             THEN /\ final' = [final EXCEPT ![dest[i]]["companion"] = @ \ {c}]
                  /\ UNCHANGED <<staged, opened>>
             ELSE /\ staged' = [staged EXCEPT ![dest[i]]["companion"] = @ \ {c}]
                  /\ opened' = [opened EXCEPT ![i] = "staged"]
                  /\ UNCHANGED final
    /\ UNCHANGED <<source, dest, home, stages, owner, pc, todo, roots, seen,
                   mapped, created, reserved, committed, outcome, alone>>

Wiped(i) == CompanionOf(i) = {} /\ \A t \in Targets : staged[dest[i]][t] = {}

WipeEnds(i) ==
    /\ At(i, "wipe")
    /\ Wiped(i)
    /\ stages' = stages \ {dest[i]}
    /\ opened' = [Carried(i, "staged", "no") EXCEPT ![i] = "no"]
    /\ GoTo(i, "unlock", {})
    /\ UNCHANGED <<source, dest, home, staged, places, roots, seen, mapped,
                   created, reserved, committed, outcome, alone>>

\* The process ends where it is: its lock is released, its files stay.
Ends(i, step) ==
    /\ held' = [held EXCEPT ![i] = 0]
    /\ opened' = [opened EXCEPT ![i] = "no"]
    /\ GoTo(i, step, {})
    /\ UNCHANGED <<source, dest, dirs, inode, staging, places, roots, seen,
                   mapped, created, reserved, committed, outcome, alone>>

\* _remove_path raises inside the finally clause: the rest of it is skipped.
WipeFails(i) == At(i, "wipe") /\ Ends(i, "broken")

ReleaseLock(i) ==
    /\ At(i, "unlock")
    /\ held' = [held EXCEPT ![i] = 0]
    /\ IF created[i] = {}
       THEN GoTo(i, outcome[i], {})
       ELSE GoTo(i, "rmdir", created[i])
    /\ UNCHANGED <<source, dirs, inode, staging, places, local>>

Empty(d) ==
    /\ \A e \in dirs \ {"claude"} : Parent[e] # d
    /\ d = "claude" => stages = {}
    /\ \A t \in Targets : DirOf[t] = d => \A n \in Ids : owner[n][t] = Nobody

RemoveDirectory(i) ==
    /\ At(i, "rmdir")
    /\ \E d \in Directories :
          /\ Turn(i, RemoveOrder, d)
          /\ dirs' = IF Empty(d) THEN dirs \ {d} ELSE dirs
          /\ OnTo(i, d, outcome[i], {})
    /\ UNCHANGED <<source, inode, held, staging, places, local>>

\* The process is killed.
Crash(i) ==
    /\ Running(i)
    /\ Cardinality({j \in Importers : pc[j] = "dead"}) < MaxCrashes
    /\ Ends(i, "dead")
-----------------------------------------------------------------------------
Import(i) ==
    \/ Fingerprint(i) \/ MapIdentifiers(i)
    \/ EnsureHome(i) \/ AcquireLock(i) \/ EnsureProjects(i) \/ MakeStage(i)
    \/ CopyPart(i) \/ FingerprintAgain(i) \/ WriteManifest(i) \/ Validate(i)
    \/ Reserve(i) \/ Replace(i) \/ ReturnResult(i)
    \/ Undo(i) \/ UndoFails(i) \/ WipeEntry(i) \/ WipeEnds(i) \/ WipeFails(i) \/ ReleaseLock(i)
    \/ RemoveDirectory(i)

ImportNext ==
    \/ \E p \in Sources : SourceChanges(p)
    \/ \E i \in Importers : Begin(i) \/ Import(i) \/ Raises(i) \/ Crash(i)

ImportSpec == ImportInit /\ [][ImportNext]_importVars
-----------------------------------------------------------------------------
Steps == {"idle", "fingerprint", "map", "undo", "wipe", "unlock", "rmdir",
          "done", "failed", "broken", "dead"} \cup Body

\* Every variable has its type.
ImportTypeOK ==
    /\ dest \in [Importers -> Ids]
    /\ src \in [Sources -> Int] /\ past \subseteq [Sources -> Int]
    /\ dirs \subseteq Directories
    /\ inode \in Nat /\ held \in [Importers -> 0 .. inode]
    /\ stages \subseteq Ids
    /\ staged \in [Ids -> [Targets -> SUBSET Item]]
    /\ final \in [Ids -> [Targets -> SUBSET Item]]
    /\ owner \in [Ids -> [Targets -> Importers \cup {Nobody}]]
    /\ pc \in [Importers -> Steps]
    /\ todo \in [Importers -> SUBSET (Parts \cup Targets \cup Directories)]
    /\ roots \in [Importers -> SUBSET Sources]
    /\ seen \in [Importers -> [Sources -> Int]]
    /\ mapped \in [Importers -> [Sources -> Int]]
    /\ created \in [Importers -> SUBSET Directories]
    /\ reserved \in [Importers -> SUBSET Targets]
    /\ committed \in [Importers -> SUBSET Targets]
    /\ opened \in [Importers -> {"no", "staged", "placed"}]
    /\ outcome \in [Importers -> {"done", "failed", "broken"}]
    /\ alone \in [Importers -> BOOLEAN]

Placed(i) == final[dest[i]]["main"] \cup final[dest[i]]["companion"]

\* Whenever a manifest stands at its final path - the import succeeded, or was
\* killed right after, or could not take it back - every part the import set out
\* with stands there too, all of them as they were at ONE moment of the source,
\* and every one was renumbered with a map that had read that very version.  The
\* parts are fingerprinted, mapped, copied and fingerprinted again one by one
\* while the source goes on, and placed one by one with the manifest last.  It is
\* said of an import that ran beside no other of its number: the cleanup of one
\* that did not get the lock empties the staging directory of the one that did.
ImportIsSnapshot ==
    \A i \in Importers :
        alone[i] /\ owner[dest[i]]["manifest"] = i /\ final[dest[i]]["manifest"] # {} =>
            \E s \in past : \A p \in roots[i] :
                [part |-> p, v |-> s[p], m |-> s[p]] \in Placed(i)

\* An import that reports failure has left neither a file nor an empty
\* reservation at a final path, and no staging directory but one of an import of
\* the same number that runs, was killed or could not remove it.  Imports of one
\* number may run side by side; one that could not take back what it placed
\* reports the error of the removal instead.
FailedLeavesNothing ==
    \A i \in Importers : pc[i] = "failed" =>
        /\ \A t \in Targets : owner[dest[i]][t] # i
        /\ dest[i] \in stages =>
              \E j \in Importers :
                  dest[j] = dest[i] /\ (Running(j) \/ pc[j] \in {"dead", "broken"})

\* What stands at a final path is changed or removed only by the import that
\* reserved it, while it places or undoes: no rollback, cleanup or retry touches
\* a conversation that was imported before, whatever number it was given.  The
\* one exception is an import that ran beside another of its number: the cleanup
\* of that one, which was inside the companion directory when it was moved to
\* its place, goes on emptying it.
OthersUntouched ==
    [][\A d \in Ids : \A t \in Targets :
          /\ owner[d][t] # Nobody
          /\ <<owner'[d][t], final'[d][t]>> # <<owner[d][t], final[d][t]>>
          => \/ pc[owner[d][t]] \in {"replace", "undo"}
             \/ /\ t = "companion" /\ owner'[d][t] = owner[d][t] /\ ~alone[owner[d][t]]
                /\ \E j \in Importers : dest[j] = d /\ opened[j] = "placed"]_importVars
=============================================================================
