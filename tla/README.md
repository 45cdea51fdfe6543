# Formal models of the controlled development machine

TLA+ models of the parts of this repository that decide what a sandboxed
program may send to the network, with TLC runs on small instances and TLAPS
proofs for every value of the constants. `PROJECT.json` is the index: which
definition stands for which lines, what each run checks, the hazards the
properties are for.

    tlc -config ReviewQueue.cfg MCReviewQueue     # a run
    tlapm ReviewQueue_proof.tla                   # a proof

## The system

An untrusted development program runs in a target container without a route of
its own. Everything it sends passes components on the host or in side
containers:

| component | source | state | operations | modelled in |
|---|---|---|---|---|
| request review queue | `review.py`, `cli.py` (review commands) | a directory of request records under one `flock` | enqueue, approve once, reject, consume, expire, outcomes | `ReviewQueue`, `OneShotApproval` |
| policy gateway addon | `gateway/mitmproxy/cdm_addon.py`, `gateway_bindings.py` | flows of one event loop, latched faults, bindings of client connections, shared lease lookups, audited WebSockets | request, response, error, upgrade and message hooks | `ReviewQueue`, `GatewayDestination`, `CodexWebSocket` |
| network watchdog | `network_watchdog.py` | position in its loop; nftables elements with a timeout | check probes, refresh sets, sleep, exit | `NetworkWatchdog` |
| controlled resolver | `dns_gateway.py` | answer cache, lease registry, query log | resolve, grant, authorize | `DnsLease` |
| exit monitor and pinned relay | `exit_monitor.py`, `degraded_egress.py`, `gateway/egress/transport.py` | lease file; sessions, slots, audit latch | probe rounds; admit, relay, close | `ExitLease` |
| runtime lifecycle | `runtime.py` | lock, generations, image record, host guards, containers, routes, audit manifest | init, build, start, stop | `Lifecycle` |
| development sandbox, egress handoff, next start | `development.py`, `egress_handoff.py`, `next_start.py` | lock, plan, selected configuration, units, readiness, manifest of a handoff, containers, routes | start, health, stop, prepare, install-units; stage, activate, retire; handoff | `Development` |
| byte bridges, SSH bridges | `proxy_bridge.py`, `service_relay.py`, `ssh_bridge.py`, `ssh_alias_bridge.py` | sessions, slots, buffers, audit lines | accept, connect, relay, half-close, time out, close | `ByteRelay`, `DuplexPipe` |
| UID mapping | `rootless_uid_ssh.py`, `rootless_uid_mount.py` | shadow sockets and their sessions; mounts | prepare, relay, close; mount | `ByteRelay`; mounts as `Development` sees them |
| session migration | `session_migration.py` | a staging directory, reservations, final paths, lock | fingerprint, copy, place, roll back, clean up | `SessionMigration` |
| rootless degraded sandbox | `degraded_rootless.py`, `degraded_topology.py` | like runtime | start, stop | not modelled |
| container exit monitor | `gateway/egress/*.py` except `transport.py` | one probe, the lease file | probe, publish | not modelled (a one-probe `ExitLease`) |
| HTTP policy | `http_policy.py`, `policy.py` | none (rules) | evaluate | not modelled |
| storage | `storage.py`, `state_archive.py` | directories | create, archive | not modelled |
| configuration, doctor, verification, traffic analysis, health probe, CLI, automation, scripts | the rest | none over time | parse, check, report | not modelled: no behaviour over time |

How they interact. The target's DNS queries go to the resolver, which records a
query, grants a lease for each address of the answer and replies. The target's
connections are redirected to the gateway, which asks the resolver over a Unix
socket whether the address is leased for the requested name, evaluates the
policy and, for a rule that asks for review, puts a record into the queue and
holds the flow until an operator (another process) has decided. Audit probes
record all traffic; the watchdog keeps the network open only while all of them
live. On hosts with a fixed parent proxy the relay carries what the gateway
lets through, as long as the exit monitor keeps the exit lease alive. The
versioned development sandbox starts all of this through systemd: a main service,
a health timer and the exit monitor share files under one lifecycle lock, and an
operator stages the release the next start activates, or hands new connections
over to new relays while the target runs. Services and SSH of the host are
reachable through relays of bytes over Unix sockets; a conversation from outside
is imported into the sandbox home by a command of its own.

What is hard here. Processes share files and sockets and nothing else, so
every reader acts on something another process may have changed; the gateway's
coroutines interleave at each `await`; every permission is a lease that must run
out when the process that renews it is late, stuck or dead; every write that
records something may fail before or after it took effect; a command of many
steps may be killed between any two, and what it knew in local variables is gone.

What makes the parts correct: a reviewed request is sent at most once and only
under an approval and a policy that were in force; whatever was sent has an
outcome on record, or the gateway has stopped accepting; the network closes
when it is no longer audited; an address is reachable only while a DNS answer
justifies it and the justification is on record; a client connection has one
target; bytes leave only through an exit that was verified recently; what a
relay delivers is what was written; readiness names what it was written
for; an interrupted activation is carried through; a failed import leaves nothing.

## Modules

Each component has a module with its state and one action per operation, an
`MC` module with what the model checker needs besides (symmetry, views, constant
functions). Their theorems are in the `_proof` modules; `GatewayAddon_proof` is about
`GatewayDestination` and `CodexWebSocket`, `HostTasks_proof` about `NetworkWatchdog` and
`SessionMigration`. Mutants (definitions named `X_Something` before
`X`) change one definition the way a plausible bug would; each property is shown
to fail under one of them.

### OneShotApproval and ReviewQueue

`OneShotApproval` is the promise: a ticket per request that is asked for, granted, spent
at most once (by the gateway or by `review consume`) and at most `Grace` after it expired,
and then settled; or closed for good before that. A request held for review is sent once, by
a gateway that has spent its ticket, before the outcome is on record. `ReviewIsOneShot` is
this specification with the record's state as the ticket, the wall clock as its clock and
`LockWait` as `Grace`.

`state`, `reviewExpires`, `decisionExpires` and `policyDigest` are the record
files. `pc` is the place of a flow's coroutine or hook; `Busy` are the places at
which the coroutine holds the event loop (no `await` since it read something), so
two flows interleave only elsewhere, while operators' processes interleave
everywhere. A store operation is one step because it runs under the lock; its
clock reading may be `LockWait` old. A failing write (`ok = FALSE`) may have
replaced the record already: `os.replace` precedes the directory fsync. The
wall clock may jump, the monotonic one may not. Crash and restart of the gateway
lose all flows and keep all records.

Facts that are not properties: when the poll loop runs into its deadline,
`review_expires_at` has passed as well unless the clock was set back, so that the
`reject` behind the loop expires the record and raises, and the flow is answered by the
exception handler; a record approved at that moment can stay
`approved_once` until it expires; the latched faults stop new flows, not those
already past the check.

### NetworkWatchdog

A pass checks the probes one by one, refreshes the namespaces one by one and
sleeps. `left` is what remains of each namespace's elements. `PassLimit` bounds
the time of a pass; the code has no such bound (nft is called without a timeout), so it
is a parameter of every statement and nothing is assumed about it. A stopped probe does
not pass as running (`network_watchdog.py:42` refuses the state T), a continued one does
again.

### DnsLease

A query is a thread. The lock stripes serialise queries of one name and type;
stripes that two keys share would only remove interleavings. A DoH answer is a set of
CNAME links and of address records with their sections, owners and TTLs; `WellFormed`,
`Owned` and `Ttls` are what `checked_response` makes of it: the addresses at the end of
the chain and the least TTL on the way, which `Capped` limits. A cached answer is used
again while its TTL lasts and, until its lease would end, when DoH fails. `WriteLimit`
bounds the time from a DoH answer to its lease. `vouched` (history) keeps what each answer
said of each address: when, and with which TTLs, so that `NoStaleAuthority` compares a lease
with the answer's own TTLs and not with the greatest one allowed. The run uses symmetry of
queries and types, which no constant distinguishes, and a view without the locals of ended
queries that keeps of the history the latest end an answer justifies.

### GatewayDestination

`bindings` and `target` are the weak registry, `attempt` the shared lookups,
`leased` the resolver's registry as seen through its socket, which changes at
any time (`LeasesChange`; `DnsLease` says how). Ports, schemes and SNI are checks
that may refuse any request. In degraded mode `todo` holds the addresses
`getaddrinfo` returned.

### ExitLease

The lease file has a kind (`ok`, `failed`: a failure the relay may tolerate,
`revoked`: anything else) and an age. All times are ages up to `Horizon`: beyond
it no comparison in the module changes any more except `newer_than`, for which
two saturated ages count as equal, which only allows more. `results` counts how the probes
of a round ended, apart from `failed`, the local flag that decides what is published, and
`matched` (history) says whether every probe of the round on file saw the expected address:
`FailureStands` holds the flag against the results. `transparent`, chosen in `Init`, says
which server runs: the CONNECT relay or the transparent transport, which checks
less often and leaves by an exception without a closing audit line. `StartLimit` bounds the
time from the last check of a lease to the relay loop (fsync, connect timeout).

### Lifecycle

`Plan` is the order of the steps of each command; `at` is the step a controller is
at and `item` the index in its loop over the audit processes. A step has its effect
and goes on, fails before it (`Fails`), or has its effect and fails after it
(`Proceed`); an exception inside the try block of start leads to its except
clause, which is the command `cleanup`, and an exception there ends it as `aborted`.
Operations the code runs with `check=False` (`ip route del`, the down of the except
clause, `compose ps`) fail unnoticed. A controller may be killed and the host may
reboot between any two steps.

`proc` is what /proc shows under the pid of each audit process and `entry` the
identity in `audit-active.json`: `early` before nsenter's exec, `up` after. A
process that lives without a record, because a kill or two failing writes struck between its
start and its record, stays in `proc` and is in the history `lost`; when the next start puts
another in its place it is `stray` and lives on until it ends by itself (`StrayEnds`). A
process that ends while its starter runs is a zombie until some Popen call reaps
it, which may happen at any time (`PidFreed`) or not before the command ends. The
comparison of an identity and the signal after it are one step. `infra` stands for
gateway, resolver and canary together, `fenced` and `infraFenced` for the
`cdm_control` tables, `unit` for the installed systemd units. Host SSH access is
enabled in the model, the case with more steps. `faults` counts what goes wrong
within a command and bounds it by `MaxFaults`; it is reset by the next command.

Facts that are not properties: a controller killed before the wait for a tcpdump is over
leaves its early identity on record, and start and stop then refuse; the parent guard stays open when the cleanup of a start is cut short; when
the fsync after the switch of `current` fails, the generation it points to is
removed and the instance has to be initialised again.

### DuplexPipe and ByteRelay

`DuplexPipe` is the promise: two independent streams, each in order and without
loss, whose end is passed on only after the last byte and leaves the other
direction open; a session may be cut at any time but then does not count as ended.
`ByteRelay` is the code of six servers, chosen by `kind` in `Init`: the bridge of
`proxy_bridge.py`, the SSH broker, the shadow sockets of a mapped target, the alias
transport and the fixed agent, and the ports of a service. The first three share
`relay_sockets`, whose loop the model follows one ready socket at a time
(`ready` is what `select` returned); the alias and the agent write what they read
before they look at anything else; the service relay has a coroutine for each
direction, no timeout, and reads when its writer has drained. In every server a client
that finds no free slot is closed at once (`Full`). `RelaysPipe` is
`DuplexPipe` instantiated with `over` mapped to what the relay returned.

A session walks through its `Stages` (header, route, audit, connect, register,
check, ack, relay, record, release; which ones depends on `kind`) while the server
closes under it. It ends as `done`, or in the alias server as `lost`: when the process of its
route outlives the kill, the second wait of the `finally` clause raises and the slot is not
released (`Outlives`). Byte values are their positions in the stream. Endpoints write,
end and read as they like, or not at all.

### Development

Processes: `main` (start, activate, its health check and stop), `health` (the
timer), `stage`, `handoff` and the exit monitor. `Plan` is the order of the steps
of each command, `at` the step, `local` what it has read before it took the lock. A
step may fail, and any process may be killed between two of them; `failed` makes
systemd start the main service again. `watched` and `prepared` are the two files
one `prepare` writes in turn, so that a kill in between leaves them apart. The side
containers are one unit, the mappers another. `mount` counts mounts and
`target.mount` is the one the target was created on.

Assumed: `stage` is given a configuration that names the running service; the
health check reads its configuration and takes the lock in one step; a monitor that
refuses has published its refusal when the next step looks; one generation of
handoff at a time, and one `stage`: its look at `configs/runtime.json` and the writing of a
missing one (`next_start.py:96` and `100`) are one step. Image and digest checks are steps that may fail.

### SessionMigration

The source conversation is a set of parts with versions and goes on while it is
read. `roots` is what the fingerprint covers, `mapped` the versions the identifier
map was built from; an item that is placed carries both the version that was copied
and the one the map knew, so `ImportIsSnapshot` speaks of both. The code's lists
(`source_roots`, the copies, `staged_targets`, `reservations`, `committed`,
`created_directories`) are filled and walked in a fixed order; here they are sets with a
rank for each member (`RootOrder` and its like), walked from the lowest and undone from the
highest. `stages` and `staged` are the staging directories and what is in them, `final` and
`owner` what is at the final paths and who reserved them; `held` and `inode` are the lock
and the incarnation of the directory it is a lock of.

Nothing keeps importers of one new number (`--new-id`) apart before the lock, and the
`finally` clause of one that did not get it removes the staging directory of the one that
did. The model has all of it: `rmtree` goes entry by entry and, once inside the companion
directory, goes on by descriptor where the winner has placed it (`opened`). `alone` (history)
says that no other import of the number ran beside this one; `FailedLeavesNothing` holds
without it, `ImportIsSnapshot` is said of imports that were alone, and `OthersUntouched`
names the one way in which a rival's cleanup reaches a placed file. A removal of the `except`
or of the `finally` clause may raise and leave the rest in place (`UndoFails`, `WipeFails`):
the import then ends as `broken`, which is neither the success nor the failure the properties
speak of.

An interrupt from the keyboard is not modelled: `except Exception` does not catch it, so
that the `finally` clause would clean up without the undo.

### CodexWebSocket

Hooks are atomic except the request hook, which waits for its destination between
the check of the latched fault and the decision. A write of the audit fails before
or after the record is on disk. Messages are sizes, a form and a direction.
`TrailCoversForwarded` compares the audit file with what was forwarded line by line, and
`AddsUpTo` states a sum of bytes by its running totals, without recursion.

## Runs

| run | bounds | shows |
|---|---|---|
| `review` | 1 request, 2 digests, clock to 3, clock jumps, crash, fairness | the whole implements `OneShotApproval`; what is sent was approved under its policy and its outcome is recorded or new flows are refused; a held flow is released |
| `watchdog` | 2 probes, 3 namespaces, lease 3, pass limit 2, fairness | open means audited; closes for good |
| `dns` | 3 queries, 2 types, 1 public, 1 static, 1 refused name; answers with chains that end, fork or loop, records of other names and sections, TTLs of 0, below and above the cap | leases recorded, never longer than the TTLs of an answer justify |
| `gateway` | both modes, 2 flows of one connection, a name and the canary, 2 public and 1 internal address, answers of 2 addresses, fairness | one target, own lease, no waiter lost |
| `exit` | 2 streams of 1 slot, 2 probes, lease 1, grace 2, both servers, fairness | an ok lease means that each probe matched, forwarding bounded, slots come back; streams end without verification or audit |
| `lifecycle` | 2 controllers, 2 probes (one behind nsenter) and the watchdog, 2 images, 2 generations, 2 faults per command | what runs is fenced, current, pinned, guarded; a live audit process is on record or was lost in the one gap; a returned start is complete, a returned stop leaves nothing else |
| `lifecycle_failed` | 1 controller, 1 probe, 1 fault | **violation**: the cleanup of a failed start refuses a zombie and leaves the containers running |
| `relay` | six servers, 2 clients of 1 slot, one with 2 bytes out and 1 back, one that only connects; buffer 2, idle timeout 1, fairness | every relay implements `DuplexPipe`; slots and audit lines add up, and only the alias server loses a slot; close reaches every session; sessions of silent endpoints end |
| `development` | 2 configurations, 2 calls of stage or handoff, 1 fault, fairness | routes are registered, readiness names what it was written for, a plan is applied only as selected, an interrupted activation completes |
| `development_mounts` | no calls, 2 faults | **violation**: a target on dead mounts is called ready |
| `migration` | 2 importers side by side or in turn, of 1 or 2 new numbers, main, companion and temporary parts, 1 change of the source, 1 kill, failing steps and removals | what is placed is one moment of the source; a reported failure leaves nothing; nobody else's import is touched but in the one way named |
| `websocket` | 2 flows, messages of at most 2, 3 bytes and 2 messages a session, 2 failing writes | the audit covers what was forwarded and has an end, or the gateway is latched |

Two queries, flows, streams or controllers are the fewest that interfere; requests
of the review queue share only the loop and the latched faults, and what holds of
several is proved; a third query is needed for an answer to be cached, evicted and
fallen back on. Time bounds are the smallest at which every comparison of two durations comes out
both ways. `CHECK_DEADLOCK FALSE` is used where a run ends when its requests are
used up; the review queue, the watchdog, the exit lease and the lifecycle never stop.

Two faults per command let a step fail and its cleanup, too, and a write and its
repetition; one fault in `development` is a failure or a kill at any of its steps with the
restart after it, and two would exceed what the checker enumerates with liveness in minutes (the inductive
invariant of `Development_proof` was checked with two, and the proof has any number). A second client
that only connects is enough to contend for the slot and to be inside any stage at
close. The file history is left out of the migration's run: the code treats it
as it does the temporary directory, down to a late appearance. The
two violations compare the code with a sentence of the documentation; the texts are
under `findings`.

Type invariants are proved for all ten component modules, and are not repeated in the runs;
so are `RecoveryIsFresh`, `ApprovalUsedOnce`, `AuthorizedInTime` (part of `ReviewIsOneShot`),
`ReadyMeansRefreshed` and `PinnedIsPublic`.

Divergences between a text and the code that were met while modelling and have no
run of their own:

- The watchdog closes the network up to a pass later than the lease
  (`docs/audit.md:55`); `ClosedAfterProbeGone` has the bound that holds.
- The transparent transport checks the lease once, before it writes its audit line and
  connects, so that a stream may begin on a lease that has run out since
  (`gateway/egress/transport.py:17`, `docs/versioned-development.md:220`);
  `ForwardVerified` has the bound that holds.
- An address may lose its lease before the TTL of an answer that listed it and the
  grace are over: a grant replaces the lease of an earlier one even with a shorter
  life (`dns_gateway.py:536`, `docs/network.md:54`).
- A request that the gateway answers itself becomes `completed` without having
  been sent (`cdm_addon.py:599`, `docs/targets/claude-code.md:138`).
- A temporary directory or file history that appears after the fingerprint is copied although no
  fingerprint covers it (`session_migration.py:301` and `308`); `ImportIsSnapshot` speaks of
  the parts covered.
- An importer that fails to get the lock removes the staging directory of the
  winner when both were given the same new number (`session_migration.py:390`), and an
  `rmtree` that is inside the companion directory goes on after the winner has placed it:
  without the conjunct `alone` the run refutes `ImportIsSnapshot`, and without its last
  disjunct `OthersUntouched`.
- A removal of the staging directory that fails after the files were placed turns a
  finished import into an error (`session_migration.py:390`); the files stay.
- The alias server loses a slot for good when the process of a route does not end within
  five seconds of its kill (`ssh_alias_bridge.py:279-280`); after `max_sessions` of them it
  refuses every client.
- A stop ends the audit processes on record (`docs/operations.md:176` speaks of the
  instance's); one that was started and not recorded, by a controller killed at that moment
  or whose two writes failed (`runtime.py:2888` and `3051`), survives it: `lost` in
  `Accounted` and `StopClosesAll`.
- A session over `relay_sockets` has no greatest duration: every byte in either direction
  refreshes `last_activity` (`proxy_bridge.py:68` and `78`), so that endpoints that go on
  writing keep their slot; `SessionsEnd` has the premise that they stop.
- A plan staged between the activation's read and its rewrite is overwritten as
  applied (`next_start.py:189`).
- The health check looks at the label of the target and at no other container before it
  writes `ready` (`development.py:706-710`), so that readiness can name a configuration
  other than that of the containers in the path. It takes four faults: two activations in
  a row, of a new configuration and back, whose unchecked `systemctl stop` fails
  (`next_start.py:178`), so that the health timer stays; the first is killed when it has
  replaced the containers in the path and not yet the target, the second after its
  selection. `ReadyMatches` therefore speaks of the containers in the path while the
  phase is `network-ready` and of the target while it is `ready`.
- The latched audit fault of the addon is checked before an `await` and not again
  for each WebSocket message; `TrailCoversForwarded` holds nevertheless, since each
  message needs its own record.

## Fairness

`review`: `asyncio` runs ready callbacks in order, so a flow whose sleep is
over is polled although others keep the loop busy in between (strong fairness of
the poll, weak of its continuation), and time passes. `watchdog`: the process is
scheduled and time passes. `gateway`: the lease socket has a
timeout, so a lookup answers or fails, and a woken coroutine runs. `exit`:
the loop's `select` waits at most 0.1 s, so what its head finds for good is acted
on, and time passes. `relay`: a session's thread goes on when it can, every stage
has a timeout, and time passes; `SessionsEnd` is claimed only for the servers with an
idle timeout and for endpoints that write no more from some time on (`Silent`), which the
bound `MaxWrites` makes of all endpoints of the run. `development`: a process goes on; `flock` waiters and
the restart of a failed main service (`Restart=on-failure`) get their turn although
the lock is free only again and again, hence strong fairness; the monitor runs its
rounds. Nothing is assumed of operators, clients, peers, endpoints, the health timer or the
resolver.

## Proofs

Each `_proof` module shows `Spec => []IInv` for an inductive `IInv`, one lemma or
step per action, and derives the properties. The assumptions are the named
`ASSUME`s of the modules: types of the constants, values that stand for "none" are not
members of the sets they are added to, sessions and streams are finitely many. Bounds of the runs (faults, commands, generations, time) are
constants too, so the theorems hold for every value of them.

- `ReviewQueue_proof`: the invariant relates what a coroutine has read to the
  record although operators act in between: what it verified, whether the
  approval it acts on was already counted, that a terminal record stays. `IsOneShot` maps
  every step to one of `OneShotApproval` or to none, one lemma per operation of the store.
- `HostTasks_proof`, watchdog: the reading of each probe in this pass is at most
  `elapsed` old, and what is left of each namespace is bounded by the age of
  every reading; both are needed because checks and refreshes are apart.
- `HostTasks_proof`, migration (`MigrationInv`): versions never come back, so a part that
  has left the version the first fingerprint read cannot pass the second one (`Doomed`). The
  moment at which the first fingerprint was complete is therefore the snapshot
  (`MomentOK`): what was mapped and copied is that version or doomed (`MapOK`, `CopyOK`),
  and when the manifest is placed nothing is doomed any more (`PlacedOK`). For the failure
  and for the others' imports the invariant says that what is at a final path is on the
  lists of the import that reserved it (`ListsOK`, `OwnOK`) and who may have a staging
  directory (`StagesOK`). Importers of one number may run side by side: the copies are only
  claimed of one that was alone (`AloneOK`, `CopyOK`), and an `rmtree` that has followed a
  companion directory to its place belongs to a rival of an import that was not (`MovedOK`).
- `DnsLease_proof`: every cached answer, every lease and every answer on its way is covered,
  for each of its addresses, by an entry of `vouched` none of whose TTLs is shorter than what
  it is used for (the least TTL is below each of them); a fallback keeps the expiry of its
  entry, so it cannot renew it.
- `GatewayAddon_proof`, destinations: bindings agree with the target at all times and
  what a waiter is woken with is about its own name and address.
- `GatewayAddon_proof`, WebSockets (`WebSocketInv`): up to the handshake the file has at most
  the authorisation (`Before`); from then on it begins with the two records and one for each
  forwarded message (`Trail`), the counters are those of the messages (`Counted`), and only a
  socket that was killed or has ended has more (`Ended`).
- `ExitLease_proof`: the age of the newest verification is below
  `Lease + stage` while a stream starts and below
  `Lease + StartLimit + verifiedAge` while it relays; a record on its way to the
  file is newer than what was published, so a publication never makes it older; a round's
  flag is clear only if each result so far matched, and a doubtful record is on file before
  the next probe is waited for (`RoundIsHonest`), which is what `FailureStands` needs;
  slots are counted with finite-set theorems.
- `Lifecycle_proof`: the lock leaves one command at work (`Locked`), so what the place
  of a command in its plan has behind it is still there (`Progress`: guards, containers,
  tables, the audit processes before the one it is at). The units are installed before
  the networks and outlive a reboot (`Persistent`), which is what keeps `GuardedNetwork`
  there; `NoManifest` is needed for `Accounted`: what lives without a record was lost, or is
  being recorded by the one command at work. `StopClosesAll` and `StartIsComplete`
  follow from the place behind the last step of the plan.
- `ByteRelay_proof`: one half of the invariant is about servers and stages (slots, which
  servers reach which stage, what close has registered and cut, what is on record; `Lost`
  says that a returned loop of the alias server had an approved route), the other about the loops: until its sockets are closed, what a session has delivered, what
  it has buffered and what is unread are together what was written (`Conserved`), the
  loop has seen an end only where nothing more can come (`Ends`), and what `select`
  returned still holds when the loop comes to it (`StillReady`, without which a read
  would block or exceed the buffer). `RelayIsPipe` shows from it that the initial states
  map to initial states of `DuplexPipe` and every step to one of its steps or to none.
- `Development_proof`: only the holder of the lock and `stage` are past the first step of
  a plan (`Holding`); then the place of main says which configuration was prepared, that
  readiness is withdrawn while containers change and which one they run (`MainOK`), that
  an activation has retired the handoff before it selects its candidate (`ActivateOK`),
  and what a handoff or its rollback has in place (`HandoffOK`). `Staged` is the order of
  the files that `stage` writes without the lock: a drop-in has a plan and a selector has
  an alias, whenever main reads them.

Every invariant, every safety action property and both refinements of the passing runs are
proved. Only model-checked are the liveness properties (`InterceptedReleased`,
`GoneClosesForGood`, `WaiterDecided`, `UnverifiedEnds`, `AuditFaultEnds`, `SessionsEnd`,
`ActivationCompletes`): they need fairness and `ENABLED`, which are out of the prover's
reach.

## Not modelled

- What `init` writes into a generation (profiles, certificates, compose file), the
  stop of instances with a legacy manifest and the commands run inside the target.
- Byte formats (DNS wire format, HTTP headers, JSON) are data: a message is valid
  or not, by choice. Loss of power is not modelled beyond failing writes.
- The DNS server's worker pool and lease socket; the health answer of the addon,
  which clears the storage fault.
- The rootless degraded sandbox: a lifecycle on the same helpers and with the same
  hazards as `Lifecycle` and `Development`.
- The container exit monitor: the rounds of `ExitLease` with one probe.
- HTTP policy: blocks, then the first match by priority and identifier, then the
  default. A definition in TLA+ would be the code again, with nothing to compare it to.
- Storage, archive, generated SSH client configuration: file rewriting by one process.
- Configuration, doctor, verification, traffic analysis, CLI, automation, scripts:
  their result is their output.

## What could follow

- An expiring permission as an abstract specification that `NetworkWatchdog` and `ExitLease`
  implement; `ClosedAfterProbeGone` and `ForwardVerified` state its bound.
- A composition of resolver and gateway that replaces `LeasesChange`.
- The rootless degraded sandbox as a third lifecycle.
