---------------------------- MODULE ReviewQueue ----------------------------
(***************************************************************************)
(* The request review queue: RequestStore (review.py), a directory of      *)
(* records shared by the gateway and the operator's `sandboxctl review`    *)
(* processes under one flock, and the gateway addon's request coroutine    *)
(* (cdm_addon.py), which intercepts a flow, polls its record and lets the  *)
(* flow go upstream only after it consumed an operator's approval.         *)
(*                                                                         *)
(* A step is what runs without giving another process a chance: one store  *)
(* operation under the lock.  The gateway is a single event loop, so two   *)
(* of its flows interleave only where the coroutine awaits; an operator's  *)
(* process interleaves with it between any two store operations.           *)
(***************************************************************************)
EXTENDS Naturals

CONSTANTS
    Requests,     \* the requests of the target, each with a distinct sha256
    Digests,      \* policy digests
    ReviewTTL,    \* CDM_REVIEW_TTL: life of a pending record and of the poll loop
    ApproveTTLs,  \* the --ttl values operators give to approve-once
    FutureSlack,  \* the 5 s of _require_pending for a record from the future
    LockWait,     \* longest wait between reading the clock and holding the lock
    MaxTime       \* bound on the clock

ASSUME ReviewAssumption ==
    /\ ReviewTTL \in Nat \ {0}
    /\ ApproveTTLs \subseteq Nat \ {0}
    /\ FutureSlack \in Nat
    /\ LockWait \in Nat
    /\ MaxTime \in Nat
    /\ Digests # {}

VARIABLES
    \* record.json of each request
    state, reviewExpires, decisionExpires, policyDigest,
    \* the flow's coroutine and connection in the gateway
    pc, seen, deadline, connected, hasRecord,
    \* the gateway process, the policy file, the clocks
    gatewayUp, auditFault, storageFault, expectedDigest, policyFile, wall, mono,
    \* history: requests sent upstream, the policy each poll verified,
    \* and how often an approval was turned into an authorization
    sent, verified, gatewayUses, cliUses

record == <<state, reviewExpires, decisionExpires, policyDigest>>
flow   == <<pc, seen, deadline, connected, hasRecord>>
process == <<gatewayUp, auditFault, storageFault, expectedDigest>>
clocks == <<wall, mono>>
history == <<sent, verified, gatewayUses, cliUses>>
vars == <<record, flow, process, policyFile, clocks, history>>

Undecided == {"pending", "approved_once"}
Outcomes  == {"completed", "upstream_error", "dispatch_unknown"}
Refusals  == {"blocked", "expired", "client_disconnected"}
Terminal  == Outcomes \cup Refusals
States    == {"absent", "authorized"} \cup Undecided \cup Terminal

\* Points of the coroutine and of the hooks at which the event loop is held:
\* the flow has read something and has not awaited since.
Busy == {"got", "verified", "refused", "late", "late_got", "failing", "fail_got",
         "response_got", "error_got", "upgrade_got"}
\* The flow is held back: the request hook has not finished.
Intercepted == {"waiting", "got", "verified", "refused", "late", "late_got",
                "failing", "fail_got"}
Places == Intercepted \cup Busy \cup
    {"idle", "checking", "resumed", "answered", "upstream", "response_hook",
     "error_hook", "upgrade_hook", "done", "gone", "no_flow"}

LoopFree == gatewayUp /\ \A q \in Requests : pc[q] \notin Busy

Init ==
    /\ expectedDigest \in Digests /\ policyFile = expectedDigest
    /\ state = [r \in Requests |-> "absent"]
    /\ reviewExpires = [r \in Requests |-> 0]
    /\ decisionExpires = [r \in Requests |-> 0]
    /\ policyDigest = [r \in Requests |-> expectedDigest]
    /\ pc = [r \in Requests |-> "idle"]
    /\ seen = [r \in Requests |-> "absent"]
    /\ deadline = [r \in Requests |-> 0]
    /\ connected = [r \in Requests |-> TRUE]
    /\ hasRecord = [r \in Requests |-> FALSE]
    /\ gatewayUp = TRUE /\ auditFault = FALSE /\ storageFault = FALSE
    /\ wall = 0 /\ mono = 0
    /\ sent = [r \in Requests |-> FALSE]
    /\ verified = policyDigest
    /\ gatewayUses = [r \in Requests |-> 0]
    /\ cliUses = [r \in Requests |-> 0]

-----------------------------------------------------------------------------
(***************************************************************************)
(* RequestStore.  Every operation reads the clock, waits for the lock and  *)
(* reads the record.  `ok` says whether the call returned: it raises with  *)
(* the record unchanged (wrong state, unreadable record, failed write) and *)
(* also after os.replace took effect, when the directory's fsync fails.    *)
(***************************************************************************)
Captured == {t \in 0..wall : wall - t <= LockWait}

Raised(ok) == ~ok /\ UNCHANGED record

Replace(r, s, expires) ==
    /\ state' = [state EXCEPT ![r] = s]
    /\ decisionExpires' = [decisionExpires EXCEPT ![r] = expires]
    /\ UNCHANGED <<reviewExpires, policyDigest>>

\* Pending records leave the queue when a command meets them too late.
ReviewOpen(r, t) ==
    /\ state[r] = "pending"
    /\ reviewExpires[r] > t
    /\ reviewExpires[r] - ReviewTTL <= t + FutureSlack
ReviewOverdue(r, t) == state[r] = "pending" /\ reviewExpires[r] <= t

\* The directory is renamed into place under the lock, and back if it cannot
\* be made durable: a failed enqueue publishes nothing.
Enqueue(r, digest, t, ok) ==
    \/ /\ ok
       /\ state' = [state EXCEPT ![r] = "pending"]
       /\ reviewExpires' = [reviewExpires EXCEPT ![r] = t + ReviewTTL]
       /\ decisionExpires' = [decisionExpires EXCEPT ![r] = 0]
       /\ policyDigest' = [policyDigest EXCEPT ![r] = digest]
    \/ Raised(ok)

ApproveOnce(r, ttl, t, ok) ==
    \/ ReviewOpen(r, t) /\ Replace(r, "approved_once", t + ttl)
    \/ ~ok /\ ReviewOverdue(r, t) /\ Replace(r, "expired", 0)
    \/ Raised(ok)

Reject(r, t, ok) ==
    \/ ReviewOpen(r, t) /\ Replace(r, "blocked", 0)
    \/ ~ok /\ ReviewOverdue(r, t) /\ Replace(r, "expired", 0)
    \/ Raised(ok)

\* Mutant: closes whatever it finds.
FailClosed_AnyState(r, ok) ==
    \/ state[r] # "absent" /\ Replace(r, "blocked", 0)
    \/ Raised(ok)

FailClosed(r, ok) ==
    \/ state[r] \in Undecided /\ Replace(r, "blocked", 0)
    \/ Raised(ok)

MarkClientDisconnected(r, ok) ==
    \/ state[r] \in Undecided /\ Replace(r, "client_disconnected", 0)
    \/ Raised(ok)

MarkOutcome(r, s, ok) ==
    \/ state[r] = "authorized" /\ Replace(r, s, 0)
    \/ Raised(ok)

\* Mutant: the approval's expiry is not compared.
Consumable_Expired(r, sha, digest, t) ==
    /\ state[r] = "approved_once"
    /\ sha = r
    /\ digest = policyDigest[r]

\* The record's own state, expiry, sha256 and policy are compared under the lock.
Consumable(r, sha, digest, t) ==
    /\ state[r] = "approved_once"
    /\ decisionExpires[r] > t
    /\ sha = r
    /\ digest = policyDigest[r]

ConsumeApproval(r, sha, digest, t, ok) ==
    \/ Consumable(r, sha, digest, t) /\ Replace(r, "authorized", 0)
    \/ /\ ~ok /\ state[r] = "approved_once" /\ decisionExpires[r] <= t
       /\ Replace(r, "expired", 0)
    \/ Raised(ok)

\* Consumed(r): this step turned the approval into an authorization.
Consumed(r) == state[r] # "authorized" /\ state'[r] = "authorized"

Due(t) == {r \in Requests :
    \/ state[r] = "approved_once" /\ decisionExpires[r] <= t
    \/ ReviewOverdue(r, t)}

\* One record after another: a failing write leaves the rest for the next call.
ExpireDue(t, ok) ==
    \E S \in SUBSET Due(t) :
        /\ ok => S = Due(t)
        /\ state' = [r \in Requests |-> IF r \in S THEN "expired" ELSE state[r]]
        /\ decisionExpires' =
               [r \in Requests |-> IF r \in S THEN 0 ELSE decisionExpires[r]]
        /\ UNCHANGED <<reviewExpires, policyDigest>>

-----------------------------------------------------------------------------
(***************************************************************************)
(* The gateway addon.                                                      *)
(***************************************************************************)
Goto(r, place) == pc' = [pc EXCEPT ![r] = place]

PolicyVerified == policyFile = expectedDigest

\* Mutant: the fault is logged only.
Latch_LogOnly(faulty) == auditFault' = auditFault

Latch(faulty) == auditFault' = (auditFault \/ faulty)

\* request(), up to the await of the destination's DNS lease.
Arrive(r) ==
    /\ LoopFree /\ pc[r] = "idle" /\ connected[r]
    /\ Goto(r, IF PolicyVerified /\ ~auditFault /\ ~storageFault
               THEN "checking" ELSE "answered")
    /\ UNCHANGED <<record, seen, deadline, connected, hasRecord, process,
                   policyFile, clocks, history>>

\* The local health request: a durable probe write sets or clears the storage
\* fault.  It does not clear a latched audit fault.
HealthProbe ==
    /\ LoopFree /\ PolicyVerified
    /\ storageFault' \in BOOLEAN
    /\ UNCHANGED <<record, flow, gatewayUp, auditFault, expectedDigest,
                   policyFile, clocks, history>>

\* After the await: the destination or the policy blocks the request, ...
DecideBlock(r) ==
    /\ LoopFree /\ pc[r] = "checking"
    /\ Goto(r, "answered")
    /\ UNCHANGED <<record, seen, deadline, connected, hasRecord, process,
                   policyFile, clocks, history>>

\* ... an exception escapes the checks: request() latches the audit fault, ...
RequestFails(r) ==
    /\ LoopFree /\ pc[r] = "checking"
    /\ Goto(r, "answered") /\ auditFault' = TRUE
    /\ UNCHANGED <<record, seen, deadline, connected, hasRecord, gatewayUp,
                   storageFault, expectedDigest, policyFile, clocks, history>>

\* ... the policy allows it, ...
DecideAllow(r) ==
    /\ LoopFree /\ pc[r] = "checking"
    /\ Goto(r, "resumed")
    /\ UNCHANGED <<record, seen, deadline, connected, hasRecord, process,
                   policyFile, clocks, history>>

\* ... or asks for a review.  The digest is that of the policy loaded on arrival.
\* Bound: the review's deadline lies within MaxTime.
DecideReview(r) ==
    /\ LoopFree /\ pc[r] = "checking"
    /\ mono + ReviewTTL <= MaxTime
    /\ \E ok \in BOOLEAN, t \in Captured :
          /\ Enqueue(r, expectedDigest, t, ok)
          /\ Goto(r, IF ok THEN "waiting" ELSE "answered")
          /\ hasRecord' = [hasRecord EXCEPT ![r] = ok]
          /\ deadline' = [deadline EXCEPT ![r] = IF ok THEN mono + ReviewTTL ELSE @]
    /\ UNCHANGED <<seen, connected, process, policyFile, clocks, history>>

\* A store.get from `from`: `to` with what it saw, or `broken` if it raised.
Get(r, from, to, broken) ==
    /\ pc[r] = from
    /\ \/ Goto(r, to) /\ seen' = [seen EXCEPT ![r] = state[r]]
       \/ Goto(r, broken) /\ UNCHANGED seen
    /\ UNCHANGED <<record, deadline, connected, hasRecord, gatewayUp, storageFault,
                   expectedDigest, policyFile, clocks, history>>

\* The poll loop: the sleep is over.
PollGet(r) ==
    /\ LoopFree
    /\ Get(r, "waiting", "got", "failing")
    /\ UNCHANGED auditFault

\* Mutant: the loop has no deadline.
PollAgain_Forever(r) ==
    /\ gatewayUp /\ pc[r] = "got" /\ connected[r]
    /\ seen[r] \notin {"approved_once", "blocked", "expired"}
    /\ Goto(r, "waiting")
    /\ UNCHANGED <<record, seen, deadline, connected, hasRecord, process,
                   policyFile, clocks, history>>

\* Nothing to act on: the loop's condition is evaluated again.
PollAgain(r) ==
    /\ gatewayUp /\ pc[r] = "got" /\ connected[r]
    /\ seen[r] \notin {"approved_once", "blocked", "expired"}
    /\ Goto(r, IF mono < deadline[r] THEN "waiting" ELSE "late")
    /\ UNCHANGED <<record, seen, deadline, connected, hasRecord, process,
                   policyFile, clocks, history>>

PollDisconnected(r) ==
    /\ gatewayUp /\ pc[r] = "got" /\ ~connected[r]
    /\ IF seen[r] \in Undecided
       THEN \E ok \in BOOLEAN :
               /\ MarkClientDisconnected(r, ok)
               /\ Goto(r, IF ok THEN "resumed" ELSE "failing")
       ELSE Goto(r, "resumed") /\ UNCHANGED record
    /\ UNCHANGED <<seen, deadline, connected, hasRecord, process, policyFile,
                   clocks, history>>

PollRejected(r) ==
    /\ gatewayUp /\ pc[r] = "got" /\ connected[r]
    /\ seen[r] \in {"blocked", "expired"}
    /\ Goto(r, "answered")
    /\ UNCHANGED <<record, seen, deadline, connected, hasRecord, process,
                   policyFile, clocks, history>>

\* Approved: the policy file is loaded and compared again.
VerifyPolicy(r) ==
    /\ gatewayUp /\ pc[r] = "got" /\ connected[r] /\ seen[r] = "approved_once"
    /\ Goto(r, IF PolicyVerified THEN "verified" ELSE "refused")
    /\ verified' = [verified EXCEPT ![r] = policyFile]
    /\ UNCHANGED <<record, seen, deadline, connected, hasRecord, process,
                   policyFile, clocks, sent, gatewayUses, cliUses>>

\* The policy is gone: the record is closed if it can be, the flow is answered.
RefuseApproved(r) ==
    /\ gatewayUp /\ pc[r] = "refused"
    /\ \E ok \in BOOLEAN : FailClosed(r, ok)
    /\ Goto(r, "answered")
    /\ UNCHANGED <<seen, deadline, connected, hasRecord, process, policyFile,
                   clocks, history>>

\* Mutant: the exception of consume_approval is swallowed.
GatewayConsume_Swallow(r) ==
    /\ gatewayUp /\ pc[r] = "verified"
    /\ \E ok \in BOOLEAN, t \in Captured : ConsumeApproval(r, r, verified[r], t, ok)
    /\ Goto(r, "resumed")
    /\ gatewayUses' = [gatewayUses EXCEPT ![r] = @ + (IF Consumed(r) THEN 1 ELSE 0)]
    /\ UNCHANGED <<seen, deadline, connected, hasRecord, process, policyFile,
                   clocks, sent, verified, cliUses>>

GatewayConsume(r) ==
    /\ gatewayUp /\ pc[r] = "verified"
    /\ \E ok \in BOOLEAN, t \in Captured :
          /\ ConsumeApproval(r, r, verified[r], t, ok)
          /\ Goto(r, IF ok THEN "resumed" ELSE "failing")
    /\ gatewayUses' = [gatewayUses EXCEPT ![r] = @ + (IF Consumed(r) THEN 1 ELSE 0)]
    /\ UNCHANGED <<seen, deadline, connected, hasRecord, process, policyFile,
                   clocks, sent, verified, cliUses>>

\* The loop ran out: a record still pending is rejected.
LateGet(r) ==
    /\ gatewayUp
    /\ Get(r, "late", "late_got", "failing")
    /\ UNCHANGED auditFault

\* Mutant: the flow is answered, the record is left.
LateClose_Leave(r) ==
    /\ gatewayUp /\ pc[r] = "late_got"
    /\ Goto(r, "answered")
    /\ UNCHANGED <<record, seen, deadline, connected, hasRecord, process,
                   policyFile, clocks, history>>

LateClose(r) ==
    /\ gatewayUp /\ pc[r] = "late_got"
    /\ IF seen[r] = "pending"
       THEN \E ok \in BOOLEAN, t \in Captured :
               /\ Reject(r, t, ok)
               /\ Goto(r, IF ok THEN "answered" ELSE "failing")
       ELSE Goto(r, "answered") /\ UNCHANGED record
    /\ UNCHANGED <<seen, deadline, connected, hasRecord, process, policyFile,
                   clocks, history>>

\* The exception handler of the poll loop.
FailGet(r) ==
    /\ gatewayUp
    /\ Get(r, "failing", "fail_got", "answered")
    /\ Latch(pc'[r] = "answered")

FailClose(r) ==
    /\ gatewayUp /\ pc[r] = "fail_got"
    /\ \E ok \in BOOLEAN :
          /\ CASE seen[r] \in Undecided    -> FailClosed(r, ok)
               [] seen[r] = "authorized"   -> MarkOutcome(r, "dispatch_unknown", ok)
               [] OTHER                    -> ok /\ UNCHANGED record
          /\ Latch(~ok)
    /\ Goto(r, "answered")
    /\ UNCHANGED <<seen, deadline, connected, hasRecord, gatewayUp, storageFault,
                   expectedDigest, policyFile, clocks, history>>

-----------------------------------------------------------------------------
(***************************************************************************)
(* mitmproxy around the addon (external): a flow that leaves the request   *)
(* hook without a response is sent upstream unless the client has gone, a  *)
(* flow with one is answered with it; either way the response or the error *)
(* hook follows.                                                           *)
(***************************************************************************)
Dispatch(r) ==
    /\ LoopFree /\ pc[r] = "resumed"
    /\ Goto(r, IF connected[r] THEN "upstream" ELSE "error_hook")
    /\ sent' = [sent EXCEPT ![r] = connected[r]]
    /\ UNCHANGED <<record, seen, deadline, connected, hasRecord, process,
                   policyFile, clocks, verified, gatewayUses, cliUses>>

LocalResponse(r) ==
    /\ LoopFree /\ pc[r] = "answered"
    /\ Goto(r, IF connected[r] THEN "response_hook" ELSE "error_hook")
    /\ UNCHANGED <<record, seen, deadline, connected, hasRecord, process,
                   policyFile, clocks, history>>

UpstreamEnds(r) ==
    /\ LoopFree /\ pc[r] = "upstream"
    /\ \/ connected[r] /\ Goto(r, "response_hook")
       \/ connected[r] /\ Goto(r, "upgrade_hook")     \* status 101
       \/ Goto(r, "error_hook")
    /\ UNCHANGED <<record, seen, deadline, connected, hasRecord, process,
                   policyFile, clocks, history>>

\* response(), error() and responseheaders() read the record and, if it is
\* authorized, mark it; a failure of either latches the audit fault.
HookGet(r, from, to, next) ==
    /\ LoopFree
    /\ \/ hasRecord[r] /\ Get(r, from, to, next) /\ Latch(pc'[r] = next)
       \/ /\ ~hasRecord[r] /\ pc[r] = from /\ Goto(r, next)
          /\ UNCHANGED <<record, seen, deadline, connected, hasRecord, process,
                         policyFile, clocks, history>>

HookMark(r, from, s, next) ==
    /\ gatewayUp /\ pc[r] = from
    /\ \E ok \in BOOLEAN :
          /\ IF seen[r] = "authorized" THEN MarkOutcome(r, s, ok)
                                       ELSE ok /\ UNCHANGED record
          /\ Latch(~ok)
    /\ Goto(r, next)
    /\ UNCHANGED <<seen, deadline, connected, hasRecord, gatewayUp, storageFault,
                   expectedDigest, policyFile, clocks, history>>

ResponseHook(r) ==
    \/ HookGet(r, "response_hook", "response_got", "done")
    \/ HookMark(r, "response_got", "completed", "done")

ErrorHook(r) ==
    \/ HookGet(r, "error_hook", "error_got", "done")
    \/ HookMark(r, "error_got", "upstream_error", "done")

UpgradeHook(r) ==
    \/ HookGet(r, "upgrade_hook", "upgrade_got", "answered")
    \/ HookMark(r, "upgrade_got", "upstream_error", "answered")

-----------------------------------------------------------------------------
(***************************************************************************)
(* The operator's processes, the client, the clocks and the gateway's own  *)
(* life.                                                                   *)
(***************************************************************************)
CliDone == UNCHANGED <<flow, process, policyFile, clocks, history>>

\* `review enqueue`: a record without a flow.
CliEnqueue(r) ==
    /\ pc[r] = "idle"
    /\ \E d \in Digests, t \in Captured : Enqueue(r, d, t, TRUE)
    /\ Goto(r, "no_flow")
    /\ UNCHANGED <<seen, deadline, connected, hasRecord, process, policyFile,
                   clocks, history>>

CliApprove(r) ==
    /\ \E ok \in BOOLEAN, t \in Captured, ttl \in ApproveTTLs : ApproveOnce(r, ttl, t, ok)
    /\ CliDone

CliReject(r) ==
    /\ \E ok \in BOOLEAN, t \in Captured : Reject(r, t, ok)
    /\ CliDone

\* `review consume` authorizes without any flow of the gateway.
CliConsume(r) ==
    /\ \E ok \in BOOLEAN, t \in Captured, sha \in Requests, d \in Digests :
          ConsumeApproval(r, sha, d, t, ok)
    /\ cliUses' = [cliUses EXCEPT ![r] = @ + (IF Consumed(r) THEN 1 ELSE 0)]
    /\ UNCHANGED <<flow, process, policyFile, clocks, sent, verified, gatewayUses>>

CliExpire ==
    /\ \E ok \in BOOLEAN, t \in Captured : ExpireDue(t, ok)
    /\ CliDone

ClientLeaves(r) ==
    /\ connected[r] /\ pc[r] \notin {"idle", "done", "gone", "no_flow"}
    /\ connected' = [connected EXCEPT ![r] = FALSE]
    /\ UNCHANGED <<record, pc, seen, deadline, hasRecord, process, policyFile,
                   clocks, history>>

\* A new snapshot replaces the policy file.
PolicyFileChanges ==
    /\ policyFile' \in Digests
    /\ UNCHANGED <<record, flow, process, clocks, history>>

Tick ==
    /\ mono < MaxTime
    /\ mono' = mono + 1 /\ wall' = wall + 1
    /\ UNCHANGED <<record, flow, process, policyFile, history>>

\* The wall clock may be set back; the event loop's clock may not.
WallStepsBack ==
    /\ wall > 0 /\ wall' = wall - 1
    /\ UNCHANGED <<record, flow, process, policyFile, mono, history>>

\* The process dies with its flows; its records stay.
GatewayCrash ==
    /\ gatewayUp
    /\ gatewayUp' = FALSE
    /\ pc' = [r \in Requests |->
                IF pc[r] \in {"idle", "no_flow"} THEN pc[r] ELSE "gone"]
    /\ UNCHANGED <<record, seen, deadline, connected, hasRecord, auditFault,
                   storageFault, expectedDigest, policyFile, clocks, history>>

\* CdmAddon.__init__ and running(): the faults are process memory.
GatewayStart ==
    /\ ~gatewayUp
    /\ gatewayUp' = TRUE /\ auditFault' = FALSE /\ storageFault' = FALSE
    /\ expectedDigest' = policyFile
    /\ UNCHANGED <<record, flow, policyFile, clocks, history>>

-----------------------------------------------------------------------------
FlowStep(r) ==
    \/ Arrive(r) \/ DecideBlock(r) \/ RequestFails(r) \/ DecideAllow(r)
    \/ DecideReview(r)
    \/ PollGet(r) \/ PollAgain(r) \/ PollDisconnected(r) \/ PollRejected(r)
    \/ VerifyPolicy(r) \/ RefuseApproved(r) \/ GatewayConsume(r)
    \/ LateGet(r) \/ LateClose(r) \/ FailGet(r) \/ FailClose(r)
    \/ Dispatch(r) \/ LocalResponse(r) \/ UpstreamEnds(r)
    \/ ResponseHook(r) \/ ErrorHook(r) \/ UpgradeHook(r)

Operator(r) == CliEnqueue(r) \/ CliApprove(r) \/ CliReject(r) \/ CliConsume(r)

Next ==
    \/ \E r \in Requests : FlowStep(r) \/ Operator(r) \/ ClientLeaves(r)
    \/ CliExpire \/ HealthProbe \/ PolicyFileChanges \/ Tick \/ WallStepsBack
    \/ GatewayCrash \/ GatewayStart

Spec == Init /\ [][Next]_vars

\* asyncio runs the callbacks that are ready in order, so a flow whose sleep is
\* over is polled although other flows keep the loop busy in between; a flow that
\* holds the loop goes on.  Time passes.
Fairness ==
    /\ WF_vars(Tick)
    /\ \A r \in Requests :
          /\ SF_vars(PollGet(r))
          /\ WF_vars(PollAgain(r) \/ PollDisconnected(r) \/ PollRejected(r)
                     \/ VerifyPolicy(r) \/ RefuseApproved(r) \/ GatewayConsume(r)
                     \/ LateGet(r) \/ LateClose(r) \/ FailGet(r) \/ FailClose(r))
          /\ WF_vars(ResponseHook(r) \/ ErrorHook(r) \/ UpgradeHook(r))

FairSpec == Spec /\ Fairness

-----------------------------------------------------------------------------
TypeOK ==
    /\ state \in [Requests -> States]
    /\ reviewExpires \in [Requests -> Nat]
    /\ decisionExpires \in [Requests -> Nat]
    /\ policyDigest \in [Requests -> Digests]
    /\ pc \in [Requests -> Places]
    /\ seen \in [Requests -> States]
    /\ deadline \in [Requests -> Nat]
    /\ connected \in [Requests -> BOOLEAN]
    /\ hasRecord \in [Requests -> BOOLEAN]
    /\ gatewayUp \in BOOLEAN /\ auditFault \in BOOLEAN /\ storageFault \in BOOLEAN
    /\ expectedDigest \in Digests /\ policyFile \in Digests
    /\ wall \in Nat /\ mono \in Nat
    /\ sent \in [Requests -> BOOLEAN]
    /\ verified \in [Requests -> Digests]
    /\ gatewayUses \in [Requests -> Nat] /\ cliUses \in [Requests -> Nat]

\* A request that went through review was sent upstream only after the gateway
\* itself consumed an approval for it, under the policy the record was queued
\* with, and its record says so: the polls, commands, crashes and failed
\* writes between enqueue and flow.resume() never let another one out.
ReviewedDispatch == \A r \in Requests :
    sent[r] /\ hasRecord[r] =>
        /\ gatewayUses[r] = 1
        /\ verified[r] = policyDigest[r]
        /\ state[r] \in {"authorized", "completed", "upstream_error"}

\* An operator's approval is turned into an authorization at most once, by the
\* gateway's poll or by `review consume`, whichever holds the lock first.
ApprovalUsedOnce == \A r \in Requests : gatewayUses[r] + cliUses[r] <= 1

\* response()/error() record what became of a request that was sent, or latch
\* the audit fault: no dispatched request ends with its record still saying
\* authorized while the gateway keeps serving.
OutcomeRecordedOrLatched == \A r \in Requests :
    pc[r] = "done" /\ hasRecord[r] /\ sent[r] =>
        state[r] \in {"completed", "upstream_error"} \/ auditFault

\* A flow that is over leaves no pending record behind for an operator to
\* approve in vain, unless the store failed and the gateway stopped serving.
NoOrphanPending == \A r \in Requests :
    pc[r] = "done" /\ hasRecord[r] /\ state[r] = "pending" => auditFault

\* completed, upstream_error, dispatch_unknown, blocked, expired and
\* client_disconnected are final whatever process writes next.
TerminalIsFinal == [][\A r \in Requests :
    state[r] \in Terminal => state'[r] = state[r]]_vars

\* No authorization later than the lock wait after the approval's expiry: the
\* clock consume_approval compares was read before it waited for the lock.
AuthorizedInTime == [][\A r \in Requests :
    Consumed(r) => wall < decisionExpires[r] + LockWait]_vars

\* The record as the ticket of its request, and who turned it into an authorization.
Ticket(s) ==
    CASE s = "absent"        -> "none"
      [] s = "pending"       -> "asked"
      [] s = "approved_once" -> "granted"
      [] s = "authorized"    -> "spent"
      [] s \in Outcomes      -> "settled"
      [] OTHER               -> "closed"

Spender(gateway, cli) ==
    IF gateway > 0 THEN "gateway" ELSE IF cli > 0 THEN "operator" ELSE "nobody"

OneShot == INSTANCE OneShotApproval WITH
    Grace    <- LockWait,
    ticket   <- [r \in Requests |-> Ticket(state[r])],
    expires  <- decisionExpires,
    spender  <- [r \in Requests |-> Spender(gatewayUses[r], cliUses[r])],
    reviewed <- hasRecord,
    now      <- wall

\* The store, the operators' commands and the gateway's coroutine together
\* implement a one-shot approval: spent at most once, at most the lock wait after
\* decision_expires_at (the clock is read before the lock is waited for), sent
\* only by the gateway that spent it and before an outcome is recorded, final
\* once refused or settled.
ReviewIsOneShot == OneShot!Spec

\* A flow held for review is released: by a decision, by its client leaving, or
\* by the deadline of the poll loop, whatever the store does.
InterceptedReleased == \A r \in Requests :
    (pc[r] \in Intercepted) ~> (pc[r] \notin Intercepted)

=============================================================================
