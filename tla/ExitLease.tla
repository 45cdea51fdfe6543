----------------------------- MODULE ExitLease -----------------------------
(***************************************************************************)
(* The exit lease: a monitor (exit_monitor.py) probes the public address   *)
(* of the parent proxy and publishes a short lease file; the relay         *)
(* (degraded_egress.py, gateway/egress/transport.py) admits a new stream   *)
(* only under a valid lease and keeps an admitted one through failed or    *)
(* late probes for a bounded grace.  The file is the only thing the two    *)
(* share, and every reader sees it at its own time.                        *)
(*                                                                         *)
(* Times are ages: how long ago something happened, counted up to Horizon. *)
(***************************************************************************)
EXTENDS Naturals, FiniteSets

CONSTANTS
    Streams,
    NumProbes,    \* probe_urls of a round
    Lease,        \* lease_seconds
    Grace,        \* established_grace_seconds
    StartLimit,   \* longest time from a stream's last check to its relay loop
    MaxSessions   \* max_sessions

ASSUME ExitAssumption ==
    /\ IsFiniteSet(Streams)
    /\ NumProbes \in Nat \ {0}
    /\ Lease \in Nat \ {0} /\ Grace \in Nat /\ StartLimit \in Nat
    /\ MaxSessions \in Nat \ {0}

Horizon == Lease + Grace + StartLimit
Ages == 0..Horizon
Older(age) == IF age < Horizon THEN age + 1 ELSE age

VARIABLES
    \* the lease file: its kind and the age of checked_monotonic
    file, fileAge,
    \* the monitor: place, results and failed of the round, the record it is writing
    monitor, results, failed, record, recordAge,
    \* the relay process
    transparent,  \* transport.py (TRUE) or degraded_egress.py, never changed
    serverAge,    \* since lease_started of the server
    auditFailed, slots,
    \* the streams
    pc, stage,    \* place; age of the last check before the relay loop
    newerThan,    \* age of the stream's own lease_started
    uncertain, uncertainAge,   \* unverified_at is set, and its age
    verifiedAge,  \* age of last_verified_at
    \* history
    goodAgo,      \* age of the newest successful verification published
    matched       \* every probe of the round that wrote the file had matched

mon == <<monitor, results, failed, record, recordAge>>
lease == <<file, fileAge, goodAgo, matched>>
process == <<transparent, serverAge>>
server == <<auditFailed, slots>>
stream == <<pc, stage, newerThan, uncertain, uncertainAge, verifiedAge>>
vars == <<lease, mon, process, server, stream>>

\* ok; probe-failed without a foreign address; anything else, or no file.
Kinds == {"ok", "failed", "revoked"}
Outcomes == {"ok", "error", "wrong"}   \* of a probe: matched, failed, another address
NoResults == [outcome \in Outcomes |-> 0]   \* how many probes ended so
Starting == {"admitted", "connecting", "tunnelling", "ready"}
Ended == {"ended", "dropped"}   \* with and without a closing audit line
Active == Starting \cup Ended \cup {"accepted", "relay"}

Init ==
    /\ file = "revoked" /\ fileAge = Horizon /\ goodAgo = Horizon /\ matched = FALSE
    /\ monitor = "sleep" /\ results = NoResults /\ failed = FALSE
    /\ record = "failed" /\ recordAge = 0
    /\ transparent \in BOOLEAN
    /\ serverAge = 0 /\ auditFailed = FALSE /\ slots = MaxSessions
    /\ pc = [s \in Streams |-> "idle"]
    /\ stage = [s \in Streams |-> 0]
    /\ newerThan = [s \in Streams |-> 0]
    /\ uncertain = [s \in Streams |-> FALSE]
    /\ uncertainAge = [s \in Streams |-> 0]
    /\ verifiedAge = [s \in Streams |-> 0]

-----------------------------------------------------------------------------
(* The monitor: refresh() and main() *)

Write(kind) == record' = kind /\ recordAge' = 0

StartRound ==
    /\ monitor = "sleep"
    /\ \/ monitor' = "probing" /\ UNCHANGED <<record, recordAge>>
       \/ monitor' = "final" /\ Write("revoked")   \* the runtime is not ready
    /\ UNCHANGED <<lease, results, failed, process, server, stream>>

\* What a reader of a record with ok = FALSE makes of its list of probes.
Doubtful(rs) == IF rs["wrong"] > 0 THEN "revoked" ELSE "failed"

Answers(rs) == rs["ok"] + rs["error"] + rs["wrong"]

\* Mutant: failed is what the last probe says.
FailedWith_Last(outcome) == outcome # "ok"

FailedWith(outcome) == failed \/ outcome # "ok"

\* One probe of the round ends, in any order.  A failure is published at once.
ProbeEnds ==
    /\ monitor = "probing" /\ Answers(results) < NumProbes
    /\ \E outcome \in Outcomes :
          /\ results' = [results EXCEPT ![outcome] = @ + 1]
          /\ failed' = FailedWith(outcome)
          /\ IF outcome = "ok" THEN UNCHANGED <<monitor, record, recordAge>>
             ELSE monitor' = "partial" /\ Write(Doubtful(results'))
    /\ UNCHANGED <<lease, process, server, stream>>

FinishRound ==
    /\ monitor = "probing" /\ Answers(results) = NumProbes
    /\ monitor' = "final"
    /\ Write(IF failed THEN Doubtful(results) ELSE "ok")
    /\ UNCHANGED <<lease, results, failed, process, server, stream>>

\* The locals of refresh() end with it.
RoundOver == results' = NoResults /\ failed' = FALSE /\ Write("failed")

\* atomic_json: the file is replaced some time after the record was made.
Replace ==
    /\ file' = record /\ fileAge' = recordAge
    /\ goodAgo' = IF record = "ok" THEN recordAge ELSE goodAgo
    /\ matched' = (results["ok"] = NumProbes)

Publish ==
    /\ monitor \in {"partial", "final"}
    /\ Replace
    /\ \/ /\ monitor = "partial" /\ monitor' = "probing"
          /\ Write("failed") /\ UNCHANGED <<results, failed>>
       \/ monitor = "final" /\ monitor' = "sleep" /\ RoundOver
    /\ UNCHANGED <<process, server, stream>>

\* atomic_json raises, before or after the replacement.
PublishFails ==
    /\ monitor \in {"partial", "final"}
    /\ monitor' = "failing" /\ RoundOver
    /\ Replace \/ UNCHANGED lease
    /\ UNCHANGED <<process, server, stream>>

\* main() removes the file, or fails to, and the monitor ends.
RemoveLease ==
    /\ monitor = "failing"
    /\ monitor' = "down"
    /\ file' \in {file, "revoked"}
    /\ UNCHANGED <<fileAge, goodAgo, matched, results, failed, record, recordAge, process,
                   server, stream>>

MonitorKilled ==
    /\ monitor # "down"
    /\ monitor' = "down" /\ RoundOver
    /\ UNCHANGED <<lease, process, server, stream>>

MonitorStarts ==
    /\ monitor = "down"
    /\ monitor' = "sleep"
    /\ UNCHANGED <<lease, results, failed, record, recordAge, process, server, stream>>

-----------------------------------------------------------------------------
(* The relay *)

\* exit_lease_state for a lease_started of this age.
LeaseState(newer) ==
    IF file = "revoked" \/ fileAge > newer THEN "revoked"
    ELSE IF file = "failed" THEN "probe-failed"
    ELSE IF fileAge < Lease THEN "valid" ELSE "expired"

Admissible == LeaseState(serverAge) = "valid"

Goto(s, place) == pc' = [pc EXCEPT ![s] = place]
Checked(s) == stage' = [stage EXCEPT ![s] = 0]

\* _Audit.write: a failure is latched, and a latched failure fails every write.
AuditWrite(ok) ==
    /\ ok => ~auditFailed
    /\ auditFailed' = ~ok

\* The locals of _relay, which end with it.
loop == <<newerThan, uncertain, uncertainAge, verifiedAge>>

\* Where an OSError of a started stream leads: transport.py leaves at once.
Raised == IF transparent THEN "dropped" ELSE "ended"

\* Mutant: the slot is not returned when the worker cannot be started.
Accept_LeakSlot(s) ==
    /\ pc[s] = "idle"
    /\ \/ slots > 0 /\ slots' = slots - 1 /\ Goto(s, "accepted") /\ UNCHANGED auditFailed
       \/ slots > 0 /\ slots' = slots - 1 /\ UNCHANGED <<pc, auditFailed>>
       \/ slots = 0 /\ UNCHANGED <<slots, pc>> /\ \E ok \in BOOLEAN : AuditWrite(ok)
    /\ UNCHANGED <<lease, mon, process, stage, loop>>

\* process_request: a slot and a worker, or neither.
Accept(s) ==
    /\ pc[s] = "idle"
    /\ \/ slots > 0 /\ slots' = slots - 1 /\ Goto(s, "accepted") /\ UNCHANGED auditFailed
       \/ slots > 0 /\ UNCHANGED <<slots, pc, auditFailed>>   \* no worker: released
       \/ slots = 0 /\ UNCHANGED <<slots, pc>> /\ \E ok \in BOOLEAN : AuditWrite(ok)
    /\ UNCHANGED <<lease, mon, process, stage, loop>>

\* Source, header and target, the lease, then the audit line that comes before
\* any contact with the parent.
Admit(s) ==
    /\ pc[s] = "accepted"
    /\ \E ok \in BOOLEAN, wanted \in BOOLEAN :
          /\ AuditWrite(ok)
          /\ Goto(s, IF ok /\ wanted /\ Admissible THEN "admitted" ELSE "dropped")
    /\ Checked(s)
    /\ UNCHANGED <<lease, mon, process, slots, loop>>

\* degraded_egress checks again before the connect, after it and after CONNECT;
\* each of these can also fail by itself.
Advance(s) ==
    /\ ~transparent /\ pc[s] \in Starting \ {"ready"}
    /\ \/ /\ Admissible
          /\ Goto(s, [admitted |-> "connecting", connecting |-> "tunnelling",
                      tunnelling |-> "ready"][pc[s]])
       \/ Goto(s, "ended")
    /\ Checked(s)
    /\ UNCHANGED <<lease, mon, process, server, loop>>

StartRelay(s) ==
    /\ pc[s] = IF transparent THEN "admitted" ELSE "ready"
    /\ \/ Goto(s, "relay") /\ newerThan' = [newerThan EXCEPT ![s] = serverAge]
       \/ Goto(s, Raised) /\ UNCHANGED newerThan   \* the connect, or the 200 to the client, fails
    /\ Checked(s)
    /\ UNCHANGED <<lease, mon, process, server, uncertain, uncertainAge, verifiedAge>>

\* A lease made before the uncertainty began does not end it.
Verified(s) ==
    /\ LeaseState(newerThan[s]) = "valid"
    /\ uncertain[s] => fileAge <= uncertainAge[s]

\* Mutant: a failed audit log does not close the streams it cannot record.
RelayCloses_NoAudit(s) ==
    /\ pc[s] = "relay"
    /\ \/ LeaseState(newerThan[s]) = "revoked"
       \/ ~Verified(s) /\ (Grace = 0 \/ verifiedAge[s] >= Grace)
    /\ Goto(s, "ended")
    /\ UNCHANGED <<lease, mon, process, server, stage, loop>>

\* Mutant: the end of the grace stops the bytes but does not close the stream.
RelayCloses_NoGrace(s) ==
    /\ pc[s] = "relay"
    /\ auditFailed \/ LeaseState(newerThan[s]) = "revoked" \/ (~Verified(s) /\ Grace = 0)
    /\ Goto(s, "ended")
    /\ UNCHANGED <<lease, mon, process, server, stage, loop>>

\* The head of the loop in _relay: close, ...
RelayCloses(s) ==
    /\ pc[s] = "relay"
    /\ \/ auditFailed
       \/ LeaseState(newerThan[s]) = "revoked"
       \/ ~Verified(s) /\ (Grace = 0 \/ verifiedAge[s] >= Grace)
    /\ Goto(s, "ended")
    /\ UNCHANGED <<lease, mon, process, server, stage, loop>>

\* ... note that the exit is verified, ...
RelayVerified(s) ==
    /\ pc[s] = "relay" /\ ~auditFailed /\ Verified(s)
    /\ verifiedAge' = [verifiedAge EXCEPT ![s] = 0]
    /\ IF uncertain[s]
       THEN \* recovered, which is recorded; an older lease is not accepted again
            \E ok \in BOOLEAN :
               /\ AuditWrite(ok)
               /\ Goto(s, IF ok THEN "relay" ELSE Raised)
               /\ uncertain' = [uncertain EXCEPT ![s] = FALSE]
               /\ uncertainAge' = [uncertainAge EXCEPT ![s] = 0]
               /\ newerThan' = [newerThan EXCEPT ![s] =
                     IF uncertainAge[s] < @ THEN uncertainAge[s] ELSE @]
       ELSE UNCHANGED <<auditFailed, pc, uncertain, uncertainAge, newerThan>>
    /\ UNCHANGED <<lease, mon, process, slots, stage>>

\* Mutant: each failed look at the lease starts the grace again.
RelayUncertain_Restart(s) ==
    /\ pc[s] = "relay" /\ ~auditFailed /\ ~Verified(s)
    /\ LeaseState(newerThan[s]) # "revoked" /\ Grace > 0 /\ verifiedAge[s] < Grace
    /\ verifiedAge' = [verifiedAge EXCEPT ![s] = 0]
    /\ UNCHANGED <<lease, mon, process, server, stage, pc, newerThan, uncertain, uncertainAge>>

\* ... or note that it is not, once, and go on within the grace.
RelayUncertain(s) ==
    /\ pc[s] = "relay" /\ ~auditFailed /\ ~Verified(s)
    /\ LeaseState(newerThan[s]) # "revoked" /\ Grace > 0 /\ verifiedAge[s] < Grace
    /\ ~uncertain[s]
    /\ \E ok \in BOOLEAN :
          /\ AuditWrite(ok)
          /\ Goto(s, IF ok THEN "relay" ELSE Raised)
          /\ uncertain' = [uncertain EXCEPT ![s] = TRUE]
          /\ uncertainAge' = [uncertainAge EXCEPT ![s] = 0]
    /\ UNCHANGED <<lease, mon, process, slots, stage, newerThan, verifiedAge>>

\* End of file or timeout; or a broken socket.
RelayEnds(s) ==
    /\ pc[s] = "relay"
    /\ Goto(s, "ended") \/ Goto(s, Raised)
    /\ UNCHANGED <<lease, mon, process, server, stage, loop>>

\* The closing audit line, the end of the worker, and its slot.
Finish(s, released) ==
    /\ pc[s] \in Ended
    /\ IF pc[s] = "ended" THEN \E ok \in BOOLEAN : AuditWrite(ok) ELSE UNCHANGED auditFailed
    /\ Goto(s, "idle") /\ slots' = slots + released
    /\ newerThan' = [newerThan EXCEPT ![s] = 0]
    /\ uncertain' = [uncertain EXCEPT ![s] = FALSE]
    /\ uncertainAge' = [uncertainAge EXCEPT ![s] = 0]
    /\ verifiedAge' = [verifiedAge EXCEPT ![s] = 0]
    /\ UNCHANGED <<lease, mon, process, stage>>

End(s) == Finish(s, 1)

\* can_forward_existing: asked before every send and every receive.
CanForward(s) ==
    /\ pc[s] = "relay" /\ ~auditFailed
    /\ LeaseState(newerThan[s]) # "revoked"
    /\ LeaseState(newerThan[s]) = "valid" \/ verifiedAge[s] < Grace

\* The relay process is replaced: its streams are gone.
ServerRestarts ==
    /\ serverAge' = 0 /\ auditFailed' = FALSE /\ slots' = MaxSessions
    /\ pc' = [s \in Streams |-> "idle"]
    /\ stage' = [s \in Streams |-> 0]
    /\ newerThan' = [s \in Streams |-> 0]
    /\ uncertain' = [s \in Streams |-> FALSE]
    /\ uncertainAge' = [s \in Streams |-> 0]
    /\ verifiedAge' = [s \in Streams |-> 0]
    /\ UNCHANGED <<lease, mon, transparent>>

\* What exists grows older.
Ageing(age, S) == [s \in Streams |-> IF s \in S THEN Older(age[s]) ELSE age[s]]

Tick ==
    /\ \A s \in Streams : pc[s] \in Starting => stage[s] < StartLimit
    /\ fileAge' = Older(fileAge) /\ goodAgo' = Older(goodAgo) /\ serverAge' = Older(serverAge)
    /\ recordAge' = IF monitor \in {"partial", "final"} THEN Older(recordAge) ELSE recordAge
    /\ stage' = Ageing(stage, {s \in Streams : pc[s] \in Starting})
    /\ newerThan' = Ageing(newerThan, {s \in Streams : pc[s] = "relay"})
    /\ verifiedAge' = Ageing(verifiedAge, {s \in Streams : pc[s] = "relay"})
    /\ uncertainAge' = Ageing(uncertainAge, {s \in Streams : pc[s] = "relay" /\ uncertain[s]})
    /\ UNCHANGED <<file, matched, monitor, results, failed, record, transparent, server, pc,
                   uncertain>>

Monitor == StartRound \/ ProbeEnds \/ FinishRound \/ Publish \/ PublishFails \/ RemoveLease
           \/ MonitorKilled \/ MonitorStarts
RelayLoop(s) == RelayCloses(s) \/ RelayVerified(s) \/ RelayUncertain(s)
Stream(s) == Accept(s) \/ Admit(s) \/ Advance(s) \/ StartRelay(s) \/ RelayLoop(s)
             \/ RelayEnds(s) \/ End(s)

Next == Monitor \/ ServerRestarts \/ Tick \/ \E s \in Streams : Stream(s)

Spec == Init /\ [][Next]_vars

\* The loop looks at the lease at least every 0.1 s, and time passes.
FairSpec ==
    /\ Spec
    /\ WF_vars(Tick)
    /\ \A s \in Streams : WF_vars(RelayCloses(s)) /\ WF_vars(RelayVerified(s))
                          /\ WF_vars(RelayUncertain(s))

-----------------------------------------------------------------------------
TypeOK ==
    /\ file \in Kinds /\ record \in Kinds
    /\ fileAge \in Ages /\ goodAgo \in Ages /\ recordAge \in Ages /\ serverAge \in Ages
    /\ transparent \in BOOLEAN
    /\ monitor \in {"sleep", "probing", "partial", "final", "failing", "down"}
    /\ results \in [Outcomes -> 0..NumProbes]
    /\ failed \in BOOLEAN /\ matched \in BOOLEAN
    /\ auditFailed \in BOOLEAN /\ slots \in 0..MaxSessions
    /\ pc \in [Streams -> Active \cup {"idle"}]
    /\ stage \in [Streams -> Ages] /\ newerThan \in [Streams -> Ages]
    /\ uncertain \in [Streams -> BOOLEAN] /\ uncertainAge \in [Streams -> Ages]
    /\ verifiedAge \in [Streams -> Ages]

\* Bytes move only within the lease, the grace and the start-up time of the
\* newest successful verification: however often probes fail, the monitor dies
\* or leases arrive late, the clocks of the loop cannot be extended.
ForwardVerified == \A s \in Streams : CanForward(s) => goodAgo < Horizon

\* A lease that says ok comes from a round in which each single probe saw the
\* expected address, whatever the order they ended in and however many records
\* the round wrote before; and from the moment the monitor waits for the other
\* probes after one that did not, no such lease is on file.
FailureStands ==
    /\ file = "ok" => matched
    /\ monitor = "probing" /\ results["error"] + results["wrong"] > 0
          => file # "ok"

\* The grace clock of an uncertain stream is only reset by a verification that
\* began after the uncertainty was noticed.
RecoveryIsFresh == [][\A s \in Streams :
    pc[s] = "relay" /\ pc'[s] = "relay" /\ uncertain[s] /\ ~uncertain'[s] =>
        file = "ok" /\ fileAge <= uncertainAge[s]]_vars

\* Every session has its slot and every slot comes back.
SlotsReturned == slots + Cardinality({s \in Streams : pc[s] \in Active}) = MaxSessions

\* If verification never succeeds again, every stream ends.
UnverifiedEnds == \A s \in Streams : <>[](goodAgo = Horizon) => []<>(pc[s] # "relay")

\* If the audit log has failed for good, every stream ends.
AuditFaultEnds == \A s \in Streams : <>[]auditFailed => <>[](pc[s] # "relay")

=============================================================================
