------------------------- MODULE ReviewQueue_proof -------------------------
(***************************************************************************)
(* Proofs about ReviewQueue, for any set of requests, digests and times.   *)
(***************************************************************************)
EXTENDS ReviewQueue, TLAPS

Used == {"authorized"} \cup Outcomes
After == {"answered", "upstream", "response_hook", "error_hook", "upgrade_hook",
          "response_got", "error_got", "upgrade_got", "done"}

\* A flow without a record has sent nothing for review, and before the decision
\* there is no record at all.
Fresh(r) ==
    /\ pc[r] \in {"idle", "checking"} => state[r] = "absent"
    /\ pc[r] \in {"idle", "checking", "no_flow"} => ~hasRecord[r] /\ ~sent[r]

\* Authorizations are counted by the record: it was used once or never.
UsesCounted(r) ==
    gatewayUses[r] + cliUses[r] = IF state[r] \in Used THEN 1 ELSE 0

NotSentYet(r) == pc[r] \in Intercepted \cup {"resumed"} => ~sent[r]

\* A reviewed flow about to go upstream has just consumed its approval.
Released(r) ==
    pc[r] = "resumed" /\ hasRecord[r] /\ connected[r] =>
        /\ gatewayUses[r] = 1
        /\ verified[r] = policyDigest[r]
        /\ state[r] = "authorized"

Dispatched(r) ==
    sent[r] /\ hasRecord[r] =>
        /\ gatewayUses[r] = 1
        /\ verified[r] = policyDigest[r]
        /\ state[r] \in {"authorized", "completed", "upstream_error"}

\* A record read as decided is not pending when the answer is acted on.
SeenDecided(r) ==
    /\ pc[r] \in {"got", "late_got", "fail_got", "verified", "refused"}
          /\ seen[r] # "pending" => state[r] # "pending"
    /\ pc[r] \in {"verified", "refused"} => seen[r] = "approved_once"

NothingPending(r) ==
    pc[r] \in After \cup {"resumed"} /\ hasRecord[r] /\ state[r] = "pending" => auditFault

SeenOutcome(r) ==
    pc[r] \in {"response_got", "error_got", "upgrade_got"} /\ sent[r] /\ hasRecord[r]
          /\ seen[r] # "authorized" => state[r] \in {"completed", "upstream_error"}

Ended(r) ==
    pc[r] = "done" /\ hasRecord[r] /\ sent[r] =>
        state[r] \in {"completed", "upstream_error"} \/ auditFault

DownMeansGone(r) == ~gatewayUp => pc[r] \in {"idle", "no_flow", "gone"}

RInv(r) ==
    /\ Fresh(r) /\ UsesCounted(r) /\ NotSentYet(r) /\ Released(r) /\ Dispatched(r)
    /\ SeenDecided(r) /\ NothingPending(r) /\ SeenOutcome(r) /\ Ended(r)
    /\ DownMeansGone(r)

IInv == TypeOK /\ \A r \in Requests : RInv(r)

-----------------------------------------------------------------------------
\* What a step leaves alone of flow q.
Same(q) ==
    /\ state'[q] = state[q] /\ policyDigest'[q] = policyDigest[q]
    /\ pc'[q] = pc[q] /\ seen'[q] = seen[q]
    /\ connected'[q] = connected[q] /\ hasRecord'[q] = hasRecord[q]
    /\ sent'[q] = sent[q] /\ verified'[q] = verified[q]
    /\ gatewayUses'[q] = gatewayUses[q] /\ cliUses'[q] = cliUses[q]

\* A flow that a step leaves alone keeps its invariant if the step neither
\* clears the audit fault nor stops the gateway.
LEMMA Frame ==
  ASSUME NEW q \in Requests, RInv(q), Same(q),
         auditFault => auditFault', gatewayUp => gatewayUp'
  PROVE  RInv(q)'
  BY DEF RInv, Same, Fresh, UsesCounted, NotSentYet, Released, Dispatched, SeenDecided,
         NothingPending, SeenOutcome, Ended, DownMeansGone

\* The initial states satisfy the invariant.
LEMMA InitIInv == Init => IInv
  <1> SUFFICES ASSUME Init PROVE IInv
    OBVIOUS
  <1>1. TypeOK
    BY ReviewAssumption
       DEF Init, TypeOK, States, Undecided, Terminal, Outcomes, Refusals, Places, Intercepted, Busy
  <1>2. ASSUME NEW r \in Requests PROVE RInv(r)
    BY <1>2 DEF Init, RInv, Fresh, UsesCounted, NotSentYet, Released, Dispatched, SeenDecided,
         NothingPending, SeenOutcome, Ended, DownMeansGone, Used, Outcomes, Intercepted, After
  <1> QED BY <1>1, <1>2 DEF IInv

-----------------------------------------------------------------------------
(* Type correctness, one step per action. *)

RecordType ==
    /\ state \in [Requests -> States]
    /\ reviewExpires \in [Requests -> Nat]
    /\ decisionExpires \in [Requests -> Nat]
    /\ policyDigest \in [Requests -> Digests]

\* _replace with a known state keeps the records well-typed.
LEMMA ReplaceType ==
  ASSUME TypeOK, NEW r \in Requests, NEW x \in States, NEW e \in Nat, Replace(r, x, e)
  PROVE  RecordType'
  BY DEF TypeOK, RecordType, Replace

\* The store operations keep the records well-typed.
LEMMA CloseType ==
  ASSUME TypeOK, NEW r \in Requests, NEW ok \in BOOLEAN,
         Raised(ok) \/ FailClosed(r, ok) \/ MarkClientDisconnected(r, ok)
  PROVE  RecordType'
  BY ReplaceType DEF Raised, record, FailClosed, MarkClientDisconnected, TypeOK, RecordType,
                     States, Terminal, Refusals

\* Recording an outcome keeps the types of the store.
LEMMA OutcomeType ==
  ASSUME TypeOK, NEW r \in Requests, NEW ok \in BOOLEAN, NEW s \in Terminal,
         MarkOutcome(r, s, ok)
  PROVE  RecordType'
  BY ReplaceType DEF Raised, record, MarkOutcome, TypeOK, RecordType, States

\* So does rejecting.
LEMMA RejectType ==
  ASSUME TypeOK, NEW r \in Requests, NEW ok \in BOOLEAN, NEW t, Reject(r, t, ok)
  PROVE  RecordType'
  BY ReplaceType DEF Raised, record, Reject, TypeOK, RecordType, States, Terminal, Refusals

\* So does approving.
LEMMA ApproveType ==
  ASSUME TypeOK, NEW r \in Requests, NEW ok \in BOOLEAN, NEW t \in Captured,
         NEW ttl \in ApproveTTLs, ApproveOnce(r, ttl, t, ok)
  PROVE  RecordType'
  <1>1. t + ttl \in Nat
    BY ReviewAssumption DEF Captured
  <1> QED BY <1>1, ReplaceType
          DEF Raised, record, ApproveOnce, TypeOK, RecordType, States, Terminal, Refusals, Undecided

\* So does consuming an approval.
LEMMA ConsumeType ==
  ASSUME TypeOK, NEW r \in Requests, NEW ok \in BOOLEAN, NEW t, NEW sha, NEW d,
         ConsumeApproval(r, sha, d, t, ok)
  PROVE  RecordType'
  BY ReplaceType
     DEF Raised, record, ConsumeApproval, TypeOK, RecordType, States, Terminal, Refusals

\* So does adding a record.
LEMMA EnqueueType ==
  ASSUME TypeOK, NEW r \in Requests, NEW ok \in BOOLEAN, NEW t \in Captured, NEW d \in Digests,
         Enqueue(r, d, t, ok)
  PROVE  RecordType'
  <1>1. t + ReviewTTL \in Nat
    BY ReviewAssumption DEF Captured
  <1> QED BY <1>1 DEF Raised, record, Enqueue, TypeOK, RecordType, States, Undecided

FlowType ==
    /\ pc \in [Requests -> Places]
    /\ seen \in [Requests -> States]
    /\ deadline \in [Requests -> Nat]
    /\ connected \in [Requests -> BOOLEAN]
    /\ hasRecord \in [Requests -> BOOLEAN]

RestType ==
    /\ gatewayUp \in BOOLEAN /\ auditFault \in BOOLEAN /\ storageFault \in BOOLEAN
    /\ expectedDigest \in Digests /\ policyFile \in Digests
    /\ wall \in Nat /\ mono \in Nat
    /\ sent \in [Requests -> BOOLEAN]
    /\ verified \in [Requests -> Digests]
    /\ gatewayUses \in [Requests -> Nat] /\ cliUses \in [Requests -> Nat]

\* Moving a flow to another place keeps the type of pc.
LEMMA GotoType ==
  ASSUME TypeOK, NEW r \in Requests, NEW place \in Places, Goto(r, place)
  PROVE  pc' \in [Requests -> Places]
  BY DEF TypeOK, Goto

\* Every step of a flow's coroutine and of its hooks is well-typed.
LEMMA FlowStepType ==
  ASSUME TypeOK, NEW r \in Requests, FlowStep(r)
  PROVE  TypeOK'
  <1> USE DEF TypeOK, RecordType, FlowType, RestType, flow, process, clocks, history, record
  <1>p. {"checking", "answered", "resumed", "waiting", "got", "failing", "late", "verified",
         "refused", "late_got", "fail_got", "upstream", "error_hook", "response_hook",
         "upgrade_hook", "response_got", "error_got", "upgrade_got", "done"} \subseteq Places
    BY DEF Places, Intercepted, Busy
  <1>q. {"completed", "upstream_error", "dispatch_unknown"} \subseteq Terminal
    BY DEF Terminal, Outcomes
  <1>1. CASE Arrive(r)
    BY <1>1, <1>p, GotoType DEF Arrive
  <1>2. CASE DecideBlock(r) \/ DecideAllow(r)
    BY <1>2, <1>p, GotoType DEF DecideBlock, DecideAllow
  <1>3. CASE RequestFails(r)
    BY <1>3, <1>p, GotoType DEF RequestFails
  <1>4. CASE DecideReview(r)
    <2>1. PICK ok \in BOOLEAN, t \in Captured :
             /\ Enqueue(r, expectedDigest, t, ok)
             /\ Goto(r, IF ok THEN "waiting" ELSE "answered")
             /\ hasRecord' = [hasRecord EXCEPT ![r] = ok]
             /\ deadline' = [deadline EXCEPT ![r] = IF ok THEN mono + ReviewTTL ELSE @]
      BY <1>4 DEF DecideReview
    <2>2. RecordType'
      BY <2>1, EnqueueType
    <2>3. FlowType'
      BY <1>4, <2>1, <1>p, GotoType, ReviewAssumption DEF DecideReview
    <2> QED BY <1>4, <2>2, <2>3 DEF DecideReview
  <1>5. ASSUME NEW from, NEW to \in Places, NEW broken \in Places, Get(r, from, to, broken),
               auditFault' \in BOOLEAN
        PROVE  TypeOK'
    BY <1>5, GotoType DEF Get
  <1>6. CASE PollGet(r) \/ LateGet(r) \/ FailGet(r)
    BY <1>6, <1>5, <1>p DEF PollGet, LateGet, FailGet, Latch
  <1>7. CASE PollAgain(r) \/ PollRejected(r)
    BY <1>7, <1>p, GotoType DEF PollAgain, PollRejected
  <1>8. CASE PollDisconnected(r)
    <2>1. RecordType'
      BY <1>8, CloseType DEF PollDisconnected
    <2>2. pc' \in [Requests -> Places]
      BY <1>8, <1>p, GotoType DEF PollDisconnected
    <2> QED BY <1>8, <2>1, <2>2 DEF PollDisconnected
  <1>9. CASE VerifyPolicy(r)
    BY <1>9, <1>p, GotoType DEF VerifyPolicy
  <1>10. CASE RefuseApproved(r)
    <2>1. RecordType'
      BY <1>10, CloseType DEF RefuseApproved
    <2> QED BY <1>10, <2>1, <1>p, GotoType DEF RefuseApproved
  <1>11. CASE GatewayConsume(r)
    <2>1. RecordType'
      BY <1>11, ConsumeType DEF GatewayConsume
    <2>2. pc' \in [Requests -> Places]
      BY <1>11, <1>p, GotoType DEF GatewayConsume
    <2>3. gatewayUses' \in [Requests -> Nat]
      BY <1>11 DEF GatewayConsume
    <2> QED BY <1>11, <2>1, <2>2, <2>3 DEF GatewayConsume
  <1>12. CASE LateClose(r)
    <2>1. RecordType'
      BY <1>12, RejectType DEF LateClose
    <2>2. pc' \in [Requests -> Places]
      BY <1>12, <1>p, GotoType DEF LateClose
    <2> QED BY <1>12, <2>1, <2>2 DEF LateClose
  <1>13. CASE FailClose(r)
    <2>1. PICK ok \in BOOLEAN :
             CASE seen[r] \in Undecided    -> FailClosed(r, ok)
               [] seen[r] = "authorized"   -> MarkOutcome(r, "dispatch_unknown", ok)
               [] OTHER                    -> ok /\ UNCHANGED record
      BY <1>13 DEF FailClose
    <2>2. RecordType'
      BY <2>1, <1>q, CloseType, OutcomeType DEF Undecided
    <2> QED BY <1>13, <2>2, <1>p, GotoType DEF FailClose, Latch
  <1>14. CASE Dispatch(r) \/ LocalResponse(r)
    BY <1>14, <1>p, GotoType DEF Dispatch, LocalResponse
  <1>15. CASE UpstreamEnds(r)
    BY <1>15, <1>p, GotoType DEF UpstreamEnds
  <1>16. ASSUME NEW from, NEW to \in Places, NEW next \in Places, HookGet(r, from, to, next)
         PROVE  TypeOK'
    BY <1>16, <1>5, GotoType DEF HookGet, Latch
  <1>17. ASSUME NEW from, NEW s \in Terminal, NEW next \in Places, HookMark(r, from, s, next)
         PROVE  TypeOK'
    <2>1. RecordType'
      BY <1>17, OutcomeType DEF HookMark
    <2> QED BY <1>17, <2>1, GotoType DEF HookMark, Latch
  <1>18. CASE ResponseHook(r) \/ ErrorHook(r) \/ UpgradeHook(r)
    BY <1>18, <1>16, <1>17, <1>p, <1>q DEF ResponseHook, ErrorHook, UpgradeHook
  <1> QED BY <1>1, <1>2, <1>3, <1>4, <1>6, <1>7, <1>8, <1>9, <1>10, <1>11, <1>12, <1>13,
             <1>14, <1>15, <1>18 DEF FlowStep

\* The steps of the operator, the client, the clocks and the process are well-typed.
LEMMA OtherStepType ==
  ASSUME TypeOK, [Next]_vars, ~ \E r \in Requests : FlowStep(r)
  PROVE  TypeOK'
  <1> USE DEF TypeOK, RecordType, FlowType, RestType, flow, process, clocks, history, record, CliDone
  <1>1. ASSUME NEW r \in Requests, CliEnqueue(r) PROVE TypeOK'
    <2>1. RecordType'
      BY <1>1, EnqueueType DEF CliEnqueue
    <2>2. "no_flow" \in Places
      BY DEF Places
    <2> QED BY <1>1, <2>1, <2>2, GotoType DEF CliEnqueue
  <1>2. ASSUME NEW r \in Requests, CliApprove(r) PROVE TypeOK'
    <2>1. RecordType'
      BY <1>2, ApproveType DEF CliApprove
    <2> QED BY <1>2, <2>1 DEF CliApprove
  <1>3. ASSUME NEW r \in Requests, CliReject(r) PROVE TypeOK'
    <2>1. RecordType'
      BY <1>3, RejectType DEF CliReject
    <2> QED BY <1>3, <2>1 DEF CliReject
  <1>4. ASSUME NEW r \in Requests, CliConsume(r) PROVE TypeOK'
    <2>1. RecordType'
      BY <1>4, ConsumeType DEF CliConsume
    <2>2. cliUses' \in [Requests -> Nat]
      BY <1>4 DEF CliConsume
    <2> QED BY <1>4, <2>1, <2>2 DEF CliConsume
  <1>5. CASE CliExpire
    <2>1. RecordType'
      BY <1>5 DEF CliExpire, ExpireDue, States, Terminal, Refusals
    <2> QED BY <1>5, <2>1 DEF CliExpire
  <1>6. ASSUME NEW r \in Requests, ClientLeaves(r) PROVE TypeOK'
    BY <1>6 DEF ClientLeaves
  <1>7. CASE HealthProbe \/ PolicyFileChanges
    BY <1>7 DEF HealthProbe, PolicyFileChanges
  <1>8. CASE Tick \/ WallStepsBack
    BY <1>8 DEF Tick, WallStepsBack
  <1>9. CASE GatewayCrash
    BY <1>9 DEF GatewayCrash, Places
  <1>10. CASE GatewayStart
    BY <1>10 DEF GatewayStart
  <1>11. CASE UNCHANGED vars
    BY <1>11 DEF vars
  <1> QED BY <1>1, <1>2, <1>3, <1>4, <1>5, <1>6, <1>7, <1>8, <1>9, <1>10, <1>11
          DEF Next, Operator

\* Every step preserves the types.
LEMMA NextType == TypeOK /\ [Next]_vars => TypeOK'
  BY FlowStepType, OtherStepType

-----------------------------------------------------------------------------
(* The invariant of a flow, one step per action. *)

\* A step of flow r that only moves it changes nothing of the others.
LEMMA OtherFlows ==
  ASSUME TypeOK, NEW r \in Requests, FlowStep(r), NEW q \in Requests \ {r}
  PROVE  Same(q) /\ (auditFault => auditFault') /\ gatewayUp' = gatewayUp
  <1> USE DEF TypeOK, flow, process, clocks, history, record, Goto
  <1>r. \A x, e : Replace(r, x, e) => state'[q] = state[q] /\ policyDigest'[q] = policyDigest[q]
    BY DEF Replace
  <1>u. \A ok \in BOOLEAN : Raised(ok) => state'[q] = state[q] /\ policyDigest'[q] = policyDigest[q]
    BY DEF Raised
  <1>1. CASE Arrive(r) \/ DecideBlock(r) \/ DecideAllow(r) \/ RequestFails(r)
    BY <1>1 DEF Arrive, DecideBlock, DecideAllow, RequestFails, Same
  <1>2. CASE DecideReview(r)
    BY <1>2, <1>u DEF DecideReview, Enqueue, Same
  <1>3. CASE PollGet(r) \/ LateGet(r) \/ FailGet(r)
    BY <1>3 DEF PollGet, LateGet, FailGet, Get, Latch, Same
  <1>4. CASE PollAgain(r) \/ PollRejected(r) \/ VerifyPolicy(r)
    BY <1>4 DEF PollAgain, PollRejected, VerifyPolicy, Same
  <1>5. CASE PollDisconnected(r)
    BY <1>5, <1>r, <1>u DEF PollDisconnected, MarkClientDisconnected, Same
  <1>6. CASE RefuseApproved(r)
    BY <1>6, <1>r, <1>u DEF RefuseApproved, FailClosed, Same
  <1>7. CASE GatewayConsume(r)
    BY <1>7, <1>r, <1>u DEF GatewayConsume, ConsumeApproval, Same
  <1>8. CASE LateClose(r)
    BY <1>8, <1>r, <1>u DEF LateClose, Reject, Same
  <1>9. CASE FailClose(r)
    <2>1. state'[q] = state[q] /\ policyDigest'[q] = policyDigest[q]
      BY <1>9, <1>r, <1>u DEF FailClose, FailClosed, MarkOutcome, Undecided
    <2> QED BY <1>9, <2>1 DEF FailClose, Latch, Same
  <1>10. CASE Dispatch(r) \/ LocalResponse(r) \/ UpstreamEnds(r)
    BY <1>10 DEF Dispatch, LocalResponse, UpstreamEnds, Same
  <1>11. ASSUME NEW from, NEW to, NEW next, HookGet(r, from, to, next)
         PROVE  Same(q) /\ (auditFault => auditFault') /\ gatewayUp' = gatewayUp
    BY <1>11 DEF HookGet, Get, Latch, Same
  <1>12. ASSUME NEW from, NEW s, NEW next, HookMark(r, from, s, next)
         PROVE  Same(q) /\ (auditFault => auditFault') /\ gatewayUp' = gatewayUp
    BY <1>12, <1>r, <1>u DEF HookMark, MarkOutcome, Latch, Same
  <1>13. CASE ResponseHook(r) \/ ErrorHook(r) \/ UpgradeHook(r)
    BY <1>13, <1>11, <1>12 DEF ResponseHook, ErrorHook, UpgradeHook
  <1> QED BY <1>1, <1>2, <1>3, <1>4, <1>5, <1>6, <1>7, <1>8, <1>9, <1>10, <1>13 DEF FlowStep

\* The acting flow keeps its own invariant.
LEMMA ActingFlow ==
  ASSUME TypeOK, TypeOK', NEW r \in Requests, RInv(r), FlowStep(r)
  PROVE  RInv(r)'
  <1> USE DEF TypeOK, flow, process, clocks, history, record, Goto, LoopFree,
          RInv, Fresh, UsesCounted, NotSentYet, Released, Dispatched, SeenDecided,
          NothingPending, SeenOutcome, Ended, DownMeansGone,
          Used, Outcomes, Refusals, Undecided, Intercepted, Busy, After
  <1>1. CASE Arrive(r) \/ DecideBlock(r) \/ DecideAllow(r) \/ RequestFails(r)
    BY <1>1 DEF Arrive, DecideBlock, DecideAllow, RequestFails
  <1>2. CASE DecideReview(r)
    BY <1>2 DEF DecideReview, Enqueue, Raised
  <1>3. CASE PollGet(r) \/ LateGet(r) \/ FailGet(r)
    BY <1>3 DEF PollGet, LateGet, FailGet, Get, Latch
  <1>4. CASE PollAgain(r) \/ PollRejected(r) \/ VerifyPolicy(r)
    BY <1>4 DEF PollAgain, PollRejected, VerifyPolicy
  <1>5. CASE PollDisconnected(r)
    BY <1>5 DEF PollDisconnected, MarkClientDisconnected, Replace, Raised
  <1>6. CASE RefuseApproved(r)
    BY <1>6 DEF RefuseApproved, FailClosed, Replace, Raised
  <1>7. CASE GatewayConsume(r)
    BY <1>7 DEF GatewayConsume, ConsumeApproval, Consumable, Consumed, Replace, Raised
  <1>8. CASE LateClose(r)
    BY <1>8 DEF LateClose, Reject, ReviewOpen, ReviewOverdue, Replace, Raised
  <1>9. CASE FailClose(r)
    BY <1>9 DEF FailClose, FailClosed, MarkOutcome, Latch, Replace, Raised
  <1>10. CASE Dispatch(r) \/ LocalResponse(r) \/ UpstreamEnds(r)
    BY <1>10 DEF Dispatch, LocalResponse, UpstreamEnds
  <1>11. CASE ResponseHook(r)
    BY <1>11 DEF ResponseHook, HookGet, HookMark, Get, MarkOutcome, Latch, Replace, Raised
  <1>12. CASE ErrorHook(r)
    BY <1>12 DEF ErrorHook, HookGet, HookMark, Get, MarkOutcome, Latch, Replace, Raised
  <1>13. CASE UpgradeHook(r)
    BY <1>13 DEF UpgradeHook, HookGet, HookMark, Get, MarkOutcome, Latch, Replace, Raised
  <1> QED BY <1>1, <1>2, <1>3, <1>4, <1>5, <1>6, <1>7, <1>8, <1>9, <1>10, <1>11, <1>12,
             <1>13 DEF FlowStep

\* Commands, the client, the clocks and the process keep every flow's invariant.
LEMMA OtherSteps ==
  ASSUME IInv, TypeOK', [Next]_vars, ~ \E r \in Requests : FlowStep(r), NEW q \in Requests
  PROVE  RInv(q)'
  <1>i. TypeOK /\ RInv(q)
    BY DEF IInv
  <1> USE <1>i DEF TypeOK, flow, process, clocks, history, record, Goto, CliDone,
          RInv, Fresh, UsesCounted, NotSentYet, Released, Dispatched, SeenDecided,
          NothingPending, SeenOutcome, Ended, DownMeansGone,
          Used, Outcomes, Refusals, Undecided, Intercepted, Busy, After
  <1>1. ASSUME NEW r \in Requests, CliEnqueue(r) PROVE RInv(q)'
    BY <1>1 DEF CliEnqueue, Enqueue, Raised
  <1>2. ASSUME NEW r \in Requests, CliApprove(r) PROVE RInv(q)'
    BY <1>2 DEF CliApprove, ApproveOnce, ReviewOpen, ReviewOverdue, Replace, Raised
  <1>3. ASSUME NEW r \in Requests, CliReject(r) PROVE RInv(q)'
    BY <1>3 DEF CliReject, Reject, ReviewOpen, ReviewOverdue, Replace, Raised
  <1>4. ASSUME NEW r \in Requests, CliConsume(r) PROVE RInv(q)'
    <2>1. CASE q # r
      BY <1>4, <2>1 DEF CliConsume, ConsumeApproval, Replace, Raised
    <2>2. CASE q = r /\ state'[r] = state[r]
      BY <1>4, <2>2 DEF CliConsume, ConsumeApproval, Consumable, Consumed, Replace, Raised
    <2>3. CASE q = r /\ state'[r] # state[r]
      BY <1>4, <2>3 DEF CliConsume, ConsumeApproval, Consumable, Consumed, Replace, Raised
    <2> QED BY <2>1, <2>2, <2>3
  <1>5. CASE CliExpire
    BY <1>5 DEF CliExpire, ExpireDue, Due, ReviewOverdue
  <1>6. ASSUME NEW r \in Requests, ClientLeaves(r) PROVE RInv(q)'
    BY <1>6 DEF ClientLeaves
  <1>7. CASE HealthProbe \/ PolicyFileChanges \/ Tick \/ WallStepsBack
    BY <1>7 DEF HealthProbe, PolicyFileChanges, Tick, WallStepsBack
  <1>8. CASE GatewayCrash
    BY <1>8 DEF GatewayCrash
  <1>9. CASE GatewayStart
    BY <1>9 DEF GatewayStart
  <1>10. CASE UNCHANGED vars
    BY <1>10 DEF vars
  <1> QED BY <1>1, <1>2, <1>3, <1>4, <1>5, <1>6, <1>7, <1>8, <1>9, <1>10 DEF Next, Operator

\* Every step preserves the invariant.
LEMMA NextIInv == IInv /\ [Next]_vars => IInv'
  <1> SUFFICES ASSUME IInv, [Next]_vars PROVE IInv'
    OBVIOUS
  <1>1. TypeOK /\ TypeOK'
    BY NextType DEF IInv
  <1>2. ASSUME NEW r \in Requests, FlowStep(r), NEW q \in Requests PROVE RInv(q)'
    <2>1. CASE q = r
      BY <1>1, <1>2, <2>1, ActingFlow DEF IInv
    <2>2. CASE q # r
      BY <1>1, <1>2, <2>2, OtherFlows, Frame DEF IInv
    <2> QED BY <2>1, <2>2
  <1>3. ASSUME ~ \E r \in Requests : FlowStep(r), NEW q \in Requests PROVE RInv(q)'
    BY <1>1, <1>3, OtherSteps
  <1> QED BY <1>1, <1>2, <1>3 DEF IInv

-----------------------------------------------------------------------------
\* The type invariant, for every set of requests and policies.
THEOREM TypeCorrect == Spec => []TypeOK
  <1>1. IInv => TypeOK
    BY DEF IInv
  <1> QED BY <1>1, InitIInv, NextIInv, PTL DEF Spec

\* No reviewed request goes upstream without the gateway having consumed an
\* approval for it under the policy of its record.
THEOREM DispatchSafe == Spec => []ReviewedDispatch
  <1>1. IInv => ReviewedDispatch
    BY DEF IInv, RInv, Dispatched, ReviewedDispatch
  <1> QED BY <1>1, InitIInv, NextIInv, PTL DEF Spec

\* The gateway and the operator's commands together use an approval once at most.
THEOREM UsedOnce == Spec => []ApprovalUsedOnce
  <1>1. IInv => ApprovalUsedOnce
    <2> SUFFICES ASSUME IInv, NEW r \in Requests PROVE gatewayUses[r] + cliUses[r] <= 1
      BY DEF ApprovalUsedOnce
    <2>1. gatewayUses[r] + cliUses[r] = IF state[r] \in Used THEN 1 ELSE 0
      BY DEF IInv, RInv, UsesCounted
    <2> QED BY <2>1
  <1> QED BY <1>1, InitIInv, NextIInv, PTL DEF Spec

\* The outcome of a dispatched request is recorded or the audit fault is latched.
THEOREM OutcomeSafe == Spec => []OutcomeRecordedOrLatched
  <1>1. IInv => OutcomeRecordedOrLatched
    BY DEF IInv, RInv, Ended, OutcomeRecordedOrLatched
  <1> QED BY <1>1, InitIInv, NextIInv, PTL DEF Spec

\* A flow that is over leaves no pending record, or the audit fault is latched.
THEOREM NoOrphan == Spec => []NoOrphanPending
  <1>1. IInv => NoOrphanPending
    BY DEF IInv, RInv, NothingPending, NoOrphanPending, After
  <1> QED BY <1>1, InitIInv, NextIInv, PTL DEF Spec

\* Terminal records are final: no process ever rewrites one.
THEOREM Final == Spec => TerminalIsFinal
  <1>1. IInv /\ [Next]_vars =>
           [\A r \in Requests : state[r] \in Terminal => state'[r] = state[r]]_vars
    <2> SUFFICES ASSUME IInv, Next, NEW q \in Requests, state[q] \in Terminal
                 PROVE  state'[q] = state[q]
      BY DEF vars
    <2> USE DEF IInv, TypeOK, flow, process, clocks, history, record, CliDone, Terminal,
                Outcomes, Refusals, Undecided, Replace, Raised
    <2>r. RInv(q)
      OBVIOUS
    <2>1. ASSUME NEW r \in Requests, FlowStep(r) PROVE state'[q] = state[q]
      <3>1. CASE DecideReview(r)
        BY <3>1, <2>r DEF DecideReview, Enqueue, RInv, Fresh
      <3>2. CASE PollDisconnected(r) \/ RefuseApproved(r) \/ FailClose(r)
        BY <3>2 DEF PollDisconnected, RefuseApproved, FailClose, FailClosed,
                    MarkClientDisconnected, MarkOutcome
      <3>3. CASE GatewayConsume(r)
        BY <3>3 DEF GatewayConsume, ConsumeApproval, Consumable
      <3>4. CASE LateClose(r)
        BY <3>4 DEF LateClose, Reject, ReviewOpen, ReviewOverdue
      <3>5. CASE ResponseHook(r) \/ ErrorHook(r) \/ UpgradeHook(r)
        BY <3>5 DEF ResponseHook, ErrorHook, UpgradeHook, HookGet, HookMark, Get, MarkOutcome
      <3> QED BY <2>1, <3>1, <3>2, <3>3, <3>4, <3>5
              DEF FlowStep, Arrive, DecideBlock, RequestFails, DecideAllow, PollGet, PollAgain,
                  PollRejected, VerifyPolicy, LateGet, FailGet, Get, Dispatch, LocalResponse,
                  UpstreamEnds
    <2>2. ASSUME NEW r \in Requests, CliEnqueue(r) PROVE state'[q] = state[q]
      BY <2>2, <2>r DEF CliEnqueue, Enqueue, RInv, Fresh
    <2>3. ASSUME NEW r \in Requests, CliApprove(r) \/ CliReject(r) PROVE state'[q] = state[q]
      BY <2>3 DEF CliApprove, ApproveOnce, CliReject, Reject, ReviewOpen, ReviewOverdue
    <2>4. ASSUME NEW r \in Requests, CliConsume(r) PROVE state'[q] = state[q]
      BY <2>4 DEF CliConsume, ConsumeApproval, Consumable
    <2>5. CASE CliExpire
      BY <2>5 DEF CliExpire, ExpireDue, Due, ReviewOverdue
    <2> QED BY <2>1, <2>2, <2>3, <2>4, <2>5
            DEF Next, Operator, ClientLeaves, HealthProbe, PolicyFileChanges, Tick,
                WallStepsBack, GatewayCrash, GatewayStart
  <1> QED BY <1>1, InitIInv, NextIInv, PTL DEF Spec, TerminalIsFinal

\* No authorization is taken later than the lock wait after the approval expired.
THEOREM InTime == Spec => AuthorizedInTime
  <1>1. IInv /\ [Next]_vars =>
           [\A r \in Requests : Consumed(r) => wall < decisionExpires[r] + LockWait]_vars
    <2> SUFFICES ASSUME IInv, Next, NEW q \in Requests, Consumed(q)
                 PROVE  wall < decisionExpires[q] + LockWait
      BY DEF vars, Consumed
    <2> USE ReviewAssumption
            DEF IInv, TypeOK, flow, process, clocks, history, record, CliDone, Consumed,
                Undecided, Replace, Raised
    <2>c. ASSUME NEW r \in Requests, NEW sha, NEW d, NEW ok \in BOOLEAN, NEW t \in Captured,
                 ConsumeApproval(r, sha, d, t, ok)
          PROVE  wall < decisionExpires[q] + LockWait
      BY <2>c DEF ConsumeApproval, Consumable, Captured
    <2>1. ASSUME NEW r \in Requests, FlowStep(r) PROVE wall < decisionExpires[q] + LockWait
      <3>1. CASE GatewayConsume(r)
        BY <3>1, <2>c DEF GatewayConsume
      <3>2. CASE DecideReview(r) \/ PollDisconnected(r) \/ RefuseApproved(r) \/ LateClose(r)
        BY <3>2 DEF DecideReview, Enqueue, PollDisconnected, RefuseApproved, FailClosed,
                    MarkClientDisconnected, LateClose, Reject
      <3>3. CASE FailClose(r)
        BY <3>3 DEF FailClose, FailClosed, MarkOutcome
      <3>4. CASE ResponseHook(r) \/ ErrorHook(r) \/ UpgradeHook(r)
        BY <3>4 DEF ResponseHook, ErrorHook, UpgradeHook, HookGet, HookMark, Get, MarkOutcome
      <3> QED BY <2>1, <3>1, <3>2, <3>3, <3>4
              DEF FlowStep, Arrive, DecideBlock, RequestFails, DecideAllow, PollGet, PollAgain,
                  PollRejected, VerifyPolicy, LateGet, FailGet, Get, Dispatch, LocalResponse,
                  UpstreamEnds
    <2>2. ASSUME NEW r \in Requests, CliConsume(r) PROVE wall < decisionExpires[q] + LockWait
      BY <2>2, <2>c DEF CliConsume
    <2>3. ASSUME NEW r \in Requests, CliEnqueue(r) \/ CliApprove(r) \/ CliReject(r)
          PROVE  wall < decisionExpires[q] + LockWait
      BY <2>3 DEF CliEnqueue, Enqueue, CliApprove, ApproveOnce, CliReject, Reject
    <2>4. CASE CliExpire
      BY <2>4 DEF CliExpire, ExpireDue
    <2> QED BY <2>1, <2>2, <2>3, <2>4
            DEF Next, Operator, ClientLeaves, HealthProbe, PolicyFileChanges, Tick,
                WallStepsBack, GatewayCrash, GatewayStart
  <1> QED BY <1>1, InitIInv, NextIInv, PTL DEF Spec, AuthorizedInTime

-----------------------------------------------------------------------------
(* The refinement: every step of the store, of an operator or of the gateway  *)
(* is one of OneShotApproval, or none.                                         *)

Seen == <<state, decisionExpires, gatewayUses, cliUses, hasRecord, sent, wall>>
BesideRecord == <<gatewayUses, cliUses, hasRecord, sent, wall>>
Abstractly == OneShot!Next \/ UNCHANGED OneShot!vars

\* What the mapping makes of each state, and of the counts.
LEMMA TicketIs ==
  /\ Ticket("absent") = "none" /\ Ticket("pending") = "asked"
  /\ Ticket("approved_once") = "granted" /\ Ticket("authorized") = "spent"
  /\ \A s \in Outcomes : Ticket(s) = "settled"
  /\ \A s \in Refusals : Ticket(s) = "closed"
  BY DEF Ticket, Outcomes, Refusals

\* The gateway counts before the operator, and without a use nobody has spent it.
LEMMA SpenderIs ==
  /\ Spender(0, 0) = "nobody" /\ Spender(0, 1) = "operator"
  /\ \A c : Spender(1, c) = "gateway"
  BY DEF Spender

\* A step that touches nothing of this is invisible.
LEMMA Invisible ==
  ASSUME UNCHANGED Seen PROVE Abstractly
  BY DEF Seen, Abstractly, OneShot!vars

\* Nothing has been asked for, granted or sent.
LEMMA OneShotInit == Init => OneShot!Init
  BY TicketIs, SpenderIs DEF Init, OneShot!Init

\* Refusing, expiring or abandoning an undecided record closes its ticket.
LEMMA ClosesTicket ==
  ASSUME TypeOK, NEW r \in Requests, NEW s \in Refusals, state[r] \in Undecided,
         Replace(r, s, 0), UNCHANGED BesideRecord
  PROVE  Abstractly
  <1>1. {r} \in SUBSET {q \in Requests : [p \in Requests |-> Ticket(state[p])][q] \in {"asked", "granted"}}
    BY TicketIs DEF Undecided
  <1>2. [q \in Requests |-> Ticket(state'[q])] =
           [q \in Requests |-> IF q \in {r} THEN "closed"
                               ELSE [p \in Requests |-> Ticket(state[p])][q]]
    BY TicketIs DEF TypeOK, Replace, Refusals, Outcomes
  <1>3. decisionExpires' = [q \in Requests |-> IF q \in {r} THEN 0 ELSE decisionExpires[q]]
    BY DEF TypeOK, Replace
  <1>4. OneShot!Close
    BY <1>1, <1>2, <1>3 DEF OneShot!Close, BesideRecord
  <1> QED BY <1>4 DEF Abstractly, OneShot!Next

\* The outcome of an authorized request settles its ticket.
LEMMA SettlesTicket ==
  ASSUME TypeOK, NEW r \in Requests, NEW s \in Outcomes, state[r] = "authorized",
         Replace(r, s, 0), UNCHANGED BesideRecord
  PROVE  Abstractly
  <1>1. [p \in Requests |-> Ticket(state[p])][r] = "spent"
    BY TicketIs
  <1>2. [q \in Requests |-> Ticket(state'[q])] =
           [[p \in Requests |-> Ticket(state[p])] EXCEPT ![r] = "settled"]
    BY TicketIs DEF TypeOK, Replace, Outcomes
  <1>3. OneShot!Settle(r)
    BY <1>1, <1>2 DEF OneShot!Settle, OneShot!Becomes, BesideRecord, Replace
  <1> QED BY <1>3 DEF Abstractly, OneShot!Next

\* enqueue asks for a ticket that nobody has asked for.
LEMMA AsksForTicket ==
  ASSUME TypeOK, NEW r \in Requests, NEW d, NEW t, state[r] = "absent", ~sent[r],
         Enqueue(r, d, t, TRUE), hasRecord' = [hasRecord EXCEPT ![r] = hasRecord'[r]],
         hasRecord'[r] \in BOOLEAN,
         UNCHANGED <<gatewayUses, cliUses, sent, wall>>
  PROVE  Abstractly
  <1>1. [p \in Requests |-> Ticket(state[p])][r] = "none"
    BY TicketIs
  <1>2. [q \in Requests |-> Ticket(state'[q])] =
           [[p \in Requests |-> Ticket(state[p])] EXCEPT ![r] = "asked"]
    BY TicketIs DEF TypeOK, Enqueue, Raised
  <1>3. OneShot!Ask(r)
    BY <1>1, <1>2 DEF OneShot!Ask, OneShot!Becomes, Enqueue, Raised
  <1> QED BY <1>3 DEF Abstractly, OneShot!Next

\* approve-once grants a ticket that is good from the moment the lock was asked
\* for, or closes an overdue one.
LEMMA GrantsTicket ==
  ASSUME TypeOK, NEW r \in Requests, NEW ttl \in ApproveTTLs, NEW t \in Captured,
         NEW ok \in BOOLEAN, ApproveOnce(r, ttl, t, ok), UNCHANGED BesideRecord
  PROVE  Abstractly
  <1>1. CASE ReviewOpen(r, t) /\ Replace(r, "approved_once", t + ttl)
    <2>1. [p \in Requests |-> Ticket(state[p])][r] = "asked"
      BY <1>1, TicketIs DEF ReviewOpen
    <2>2. [q \in Requests |-> Ticket(state'[q])] =
             [[p \in Requests |-> Ticket(state[p])] EXCEPT ![r] = "granted"]
      BY <1>1, TicketIs DEF TypeOK, Replace
    <2>3. decisionExpires'[r] = t + ttl
      BY <1>1 DEF TypeOK, Replace
    <2>4. t + ttl \in Nat /\ wall < t + ttl + LockWait
      BY ReviewAssumption DEF Captured, TypeOK
    <2>5. decisionExpires' = [decisionExpires EXCEPT ![r] = decisionExpires'[r]]
      BY <1>1, <2>3 DEF Replace
    <2>6. OneShot!Grant(r)
      BY <2>1, <2>2, <2>3, <2>4, <2>5 DEF OneShot!Grant, OneShot!Becomes, BesideRecord
    <2> QED BY <2>6 DEF Abstractly, OneShot!Next
  <1>2. CASE ReviewOverdue(r, t) /\ Replace(r, "expired", 0)
    BY <1>2, ClosesTicket DEF ReviewOverdue, Undecided, Refusals
  <1>3. CASE UNCHANGED record
    BY <1>3, Invisible DEF record, Seen, BesideRecord
  <1> QED BY <1>1, <1>2, <1>3 DEF ApproveOnce, Raised

\* fail_closed, mark_client_disconnected and reject close the ticket or leave it.
LEMMA RefusesTicket ==
  ASSUME TypeOK, NEW r \in Requests, NEW ok \in BOOLEAN, NEW t, UNCHANGED BesideRecord,
         \/ FailClosed(r, ok) \/ MarkClientDisconnected(r, ok) \/ Reject(r, t, ok)
         \/ Raised(ok) \/ UNCHANGED record
  PROVE  Abstractly
  <1>1. CASE UNCHANGED record
    BY <1>1, Invisible DEF record, Seen, BesideRecord
  <1>2. CASE ~UNCHANGED record
    <2>1. \E s \in Refusals : state[r] \in Undecided /\ Replace(r, s, 0)
      BY <1>2 DEF FailClosed, MarkClientDisconnected, Reject, Raised, ReviewOpen, ReviewOverdue,
                  Undecided, Refusals
    <2> QED BY <2>1, ClosesTicket
  <1> QED BY <1>1, <1>2

\* Recording an outcome settles the ticket or leaves it.
LEMMA RecordsOutcome ==
  ASSUME TypeOK, NEW r \in Requests, NEW ok \in BOOLEAN, NEW s \in Outcomes,
         UNCHANGED BesideRecord, MarkOutcome(r, s, ok) \/ UNCHANGED record
  PROVE  Abstractly
  <1>1. CASE UNCHANGED record
    BY <1>1, Invisible DEF record, Seen, BesideRecord
  <1>2. CASE state[r] = "authorized" /\ Replace(r, s, 0)
    BY <1>2, SettlesTicket
  <1> QED BY <1>1, <1>2 DEF MarkOutcome, Raised

\* consume_approval spends the ticket in time and for one of the two, closes an
\* expired one or leaves it.
LEMMA SpendsTicket ==
  ASSUME IInv, NEW r \in Requests, NEW sha, NEW d, NEW t \in Captured, NEW ok \in BOOLEAN,
         ConsumeApproval(r, sha, d, t, ok), UNCHANGED <<hasRecord, sent, wall>>,
         \/ /\ gatewayUses' = [gatewayUses EXCEPT ![r] = @ + (IF Consumed(r) THEN 1 ELSE 0)]
            /\ UNCHANGED cliUses
         \/ /\ cliUses' = [cliUses EXCEPT ![r] = @ + (IF Consumed(r) THEN 1 ELSE 0)]
            /\ UNCHANGED gatewayUses
  PROVE  Abstractly
  <1>0. TypeOK /\ RInv(r)
    BY DEF IInv
  <1>1. CASE Consumable(r, sha, d, t) /\ Replace(r, "authorized", 0)
    <2>0. Consumed(r)
      BY <1>0, <1>1 DEF Consumable, Consumed, Replace, TypeOK
    <2>1. [p \in Requests |-> Ticket(state[p])][r] = "granted"
      BY <1>1, TicketIs DEF Consumable
    <2>2. [q \in Requests |-> Ticket(state'[q])] =
             [[p \in Requests |-> Ticket(state[p])] EXCEPT ![r] = "spent"]
      BY <1>0, <1>1, TicketIs DEF TypeOK, Replace
    <2>3. wall < decisionExpires[r] + LockWait
      BY <1>0, <1>1, ReviewAssumption DEF Consumable, Captured, TypeOK
    <2>4. gatewayUses[r] = 0 /\ cliUses[r] = 0
      BY <1>0, <1>1 DEF Consumable, RInv, UsesCounted, Used, Outcomes, TypeOK
    <2>5. CASE gatewayUses' = [gatewayUses EXCEPT ![r] = 1] /\ cliUses' = cliUses
      <3>1. [q \in Requests |-> Spender(gatewayUses'[q], cliUses'[q])] =
               [[p \in Requests |-> Spender(gatewayUses[p], cliUses[p])] EXCEPT ![r] = "gateway"]
        BY <1>0, <2>5, SpenderIs DEF TypeOK
      <3>2. OneShot!Spend(r, "gateway")
        BY <1>1, <2>1, <2>2, <2>3, <3>1 DEF OneShot!Spend, OneShot!Becomes, Replace
      <3> QED BY <3>2 DEF Abstractly, OneShot!Next
    <2>6. CASE cliUses' = [cliUses EXCEPT ![r] = 1] /\ gatewayUses' = gatewayUses
      <3>1. [q \in Requests |-> Spender(gatewayUses'[q], cliUses'[q])] =
               [[p \in Requests |-> Spender(gatewayUses[p], cliUses[p])] EXCEPT ![r] = "operator"]
        BY <1>0, <2>4, <2>6, SpenderIs DEF TypeOK
      <3>2. OneShot!Spend(r, "operator")
        BY <1>1, <2>1, <2>2, <2>3, <3>1 DEF OneShot!Spend, OneShot!Becomes, Replace
      <3> QED BY <3>2 DEF Abstractly, OneShot!Next
    <2> QED BY <1>0, <2>0, <2>4, <2>5, <2>6 DEF TypeOK
  <1>2. CASE \/ state[r] = "approved_once" /\ Replace(r, "expired", 0)
             \/ UNCHANGED record
    <2>1. ~Consumed(r)
      BY <1>0, <1>2 DEF Consumed, record, Replace, TypeOK
    <2>2. UNCHANGED BesideRecord
      BY <1>0, <2>1 DEF BesideRecord, TypeOK
    <2> QED BY <1>0, <1>2, <2>2, ClosesTicket, Invisible
            DEF Undecided, Refusals, record, Seen, BesideRecord
  <1> QED BY <1>1, <1>2 DEF ConsumeApproval, Raised

\* Expiry closes all tickets that are due, or some when a write fails.
LEMMA ExpiresTickets ==
  ASSUME TypeOK, NEW t, NEW ok \in BOOLEAN, ExpireDue(t, ok), UNCHANGED BesideRecord
  PROVE  Abstractly
  <1>1. PICK S \in SUBSET Due(t) :
           /\ state' = [r \in Requests |-> IF r \in S THEN "expired" ELSE state[r]]
           /\ decisionExpires' = [r \in Requests |-> IF r \in S THEN 0 ELSE decisionExpires[r]]
    BY DEF ExpireDue
  <1>2. S \in SUBSET {q \in Requests : [p \in Requests |-> Ticket(state[p])][q] \in {"asked", "granted"}}
    BY TicketIs DEF Due, ReviewOverdue
  <1>3. [q \in Requests |-> Ticket(state'[q])] =
           [q \in Requests |-> IF q \in S THEN "closed"
                               ELSE [p \in Requests |-> Ticket(state[p])][q]]
    BY <1>1, TicketIs DEF Refusals
  <1>4. OneShot!Close
    BY <1>1, <1>2, <1>3 DEF OneShot!Close, BesideRecord
  <1> QED BY <1>4 DEF Abstractly, OneShot!Next

\* A step of a flow.  Only the request itself is sent, and a reviewed one has
\* spent its ticket.
LEMMA FlowStepOneShot ==
  ASSUME IInv, NEW r \in Requests, FlowStep(r)
  PROVE  Abstractly
  <1>0. TypeOK /\ RInv(r)
    BY DEF IInv
  <1> USE DEF flow, process, clocks, history, BesideRecord
  <1>1. CASE \/ Arrive(r) \/ DecideBlock(r) \/ RequestFails(r) \/ DecideAllow(r) \/ PollGet(r)
             \/ PollAgain(r) \/ PollRejected(r) \/ VerifyPolicy(r) \/ LateGet(r) \/ FailGet(r)
             \/ LocalResponse(r) \/ UpstreamEnds(r)
    <2>1. UNCHANGED Seen
      BY <1>1 DEF Arrive, DecideBlock, RequestFails, DecideAllow, PollGet, PollAgain, PollRejected,
                  VerifyPolicy, LateGet, FailGet, Get, LocalResponse, UpstreamEnds, record, Seen
    <2> QED BY <2>1, Invisible
  <1>2. CASE DecideReview(r)
    <2>1. state[r] = "absent" /\ ~sent[r] /\ ~hasRecord[r]
      BY <1>0, <1>2 DEF DecideReview, RInv, Fresh
    <2>2. PICK ok \in BOOLEAN, t \in Captured :
             /\ Enqueue(r, expectedDigest, t, ok)
             /\ hasRecord' = [hasRecord EXCEPT ![r] = ok]
      BY <1>2 DEF DecideReview
    <2>3. UNCHANGED <<gatewayUses, cliUses, sent, wall>>
      BY <1>2 DEF DecideReview
    <2>4. CASE ok
      BY <1>0, <2>1, <2>2, <2>3, <2>4, AsksForTicket DEF TypeOK
    <2>5. CASE ~ok
      <3>1. UNCHANGED record /\ UNCHANGED hasRecord
        BY <1>0, <2>1, <2>2, <2>5 DEF Enqueue, Raised, TypeOK
      <3> QED BY <2>3, <3>1, Invisible DEF record, Seen
    <2> QED BY <2>4, <2>5
  <1>3. CASE PollDisconnected(r)
    BY <1>0, <1>3, RefusesTicket DEF PollDisconnected
  <1>4. CASE RefuseApproved(r)
    BY <1>0, <1>4, RefusesTicket DEF RefuseApproved
  <1>5. CASE GatewayConsume(r)
    BY <1>5, SpendsTicket DEF GatewayConsume
  <1>6. CASE LateClose(r)
    BY <1>0, <1>6, RefusesTicket DEF LateClose
  <1>7. CASE FailClose(r)
    <2>1. PICK ok \in BOOLEAN : FailClosed(r, ok) \/ MarkOutcome(r, "dispatch_unknown", ok)
                                 \/ UNCHANGED record
      BY <1>7 DEF FailClose
    <2>2. UNCHANGED BesideRecord
      BY <1>7 DEF FailClose
    <2> QED BY <1>0, <2>1, <2>2, RefusesTicket, RecordsOutcome DEF Outcomes
  <1>8. CASE Dispatch(r)
    <2>0. UNCHANGED <<state, decisionExpires, gatewayUses, cliUses, hasRecord, wall>>
      BY <1>8 DEF Dispatch, record
    <2>1. ~sent[r]
      BY <1>0, <1>8 DEF Dispatch, RInv, NotSentYet
    <2>2. CASE ~connected[r]
      <3>1. UNCHANGED sent
        BY <1>0, <1>8, <2>1, <2>2 DEF Dispatch, TypeOK
      <3> QED BY <2>0, <3>1, Invisible DEF Seen
    <2>3. CASE connected[r]
      <3>1. sent' = [sent EXCEPT ![r] = TRUE]
        BY <1>0, <1>8, <2>3 DEF Dispatch, TypeOK
      <3>2. hasRecord[r] => state[r] = "authorized" /\ gatewayUses[r] = 1
        BY <1>0, <1>8, <2>3 DEF Dispatch, RInv, Released
      <3>3. hasRecord[r] => /\ [p \in Requests |-> Ticket(state[p])][r] = "spent"
                            /\ [p \in Requests |-> Spender(gatewayUses[p], cliUses[p])][r] = "gateway"
        BY <3>2, TicketIs, SpenderIs
      <3>4. OneShot!Send(r)
        BY <2>0, <2>1, <3>1, <3>3 DEF OneShot!Send
      <3> QED BY <3>4 DEF Abstractly, OneShot!Next
    <2> QED BY <2>2, <2>3
  <1>9. CASE ResponseHook(r) \/ ErrorHook(r) \/ UpgradeHook(r)
    <2>1. UNCHANGED BesideRecord
      BY <1>9 DEF ResponseHook, ErrorHook, UpgradeHook, HookGet, HookMark, Get
    <2>2. \E ok \in BOOLEAN, s \in Outcomes : MarkOutcome(r, s, ok) \/ UNCHANGED record
      BY <1>9 DEF ResponseHook, ErrorHook, UpgradeHook, HookGet, HookMark, Get, Outcomes
    <2> QED BY <1>0, <2>1, <2>2, RecordsOutcome
  <1> QED BY <1>1, <1>2, <1>3, <1>4, <1>5, <1>6, <1>7, <1>8, <1>9 DEF FlowStep

\* Every step of the system is a step of OneShotApproval or none.
LEMMA NextOneShot == IInv /\ [Next]_vars => [OneShot!Next]_OneShot!vars
  <1> SUFFICES ASSUME IInv, [Next]_vars PROVE Abstractly
    BY DEF Abstractly
  <1>0. TypeOK /\ \A r \in Requests : RInv(r)
    BY DEF IInv
  <1> USE DEF flow, process, clocks, history, BesideRecord, CliDone
  <1>1. ASSUME NEW r \in Requests, FlowStep(r) PROVE Abstractly
    BY <1>1, FlowStepOneShot
  <1>2. ASSUME NEW r \in Requests, CliEnqueue(r) PROVE Abstractly
    BY <1>0, <1>2, AsksForTicket DEF CliEnqueue, RInv, Fresh, TypeOK
  <1>3. ASSUME NEW r \in Requests, CliApprove(r) PROVE Abstractly
    BY <1>0, <1>3, GrantsTicket DEF CliApprove
  <1>4. ASSUME NEW r \in Requests, CliReject(r) PROVE Abstractly
    BY <1>0, <1>4, RefusesTicket DEF CliReject
  <1>5. ASSUME NEW r \in Requests, CliConsume(r) PROVE Abstractly
    BY <1>5, SpendsTicket DEF CliConsume
  <1>6. CASE CliExpire
    BY <1>0, <1>6, ExpiresTickets DEF CliExpire
  <1>7. CASE Tick \/ WallStepsBack
    <2>1. wall' \in Nat /\ UNCHANGED <<state, decisionExpires, gatewayUses, cliUses, hasRecord, sent>>
      BY <1>0, <1>7 DEF Tick, WallStepsBack, TypeOK, record
    <2>2. OneShot!ClockMoves
      BY <2>1 DEF OneShot!ClockMoves
    <2> QED BY <2>2 DEF Abstractly, OneShot!Next
  <1>8. CASE \/ HealthProbe \/ PolicyFileChanges \/ GatewayCrash \/ GatewayStart \/ UNCHANGED vars
             \/ \E r \in Requests : ClientLeaves(r)
    <2>1. UNCHANGED Seen
      BY <1>8 DEF HealthProbe, PolicyFileChanges, GatewayCrash, GatewayStart, ClientLeaves, vars,
                  record, Seen
    <2> QED BY <2>1, Invisible
  <1> QED BY <1>1, <1>2, <1>3, <1>4, <1>5, <1>6, <1>7, <1>8 DEF Next, Operator

\* The review queue, its operators and the gateway implement the one-shot approval,
\* for any number of requests, any lives of approvals and any lock wait.
THEOREM IsOneShot == Spec => ReviewIsOneShot
  <1> QED BY OneShotInit, NextOneShot, InitIInv, NextIInv, PTL
          DEF Spec, ReviewIsOneShot, OneShot!Spec
=============================================================================
