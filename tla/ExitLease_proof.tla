-------------------------- MODULE ExitLease_proof --------------------------
(***************************************************************************)
(* ExitLease for any number of streams, probes and slots and any lease,    *)
(* grace and start-up time.  Every clock of a stream is tied to the age of *)
(* the newest successful verification: the start-up clock until the loop   *)
(* begins, last_verified_at from then on.                                  *)
(***************************************************************************)
EXTENDS ExitLease, FiniteSetTheorems, TLAPS

FileIsGood == file = "ok" => goodAgo = fileAge

\* What is being written is newer than what was written.
RecordIsNewer == monitor \in {"partial", "final"} /\ record = "ok" => recordAge <= goodAgo

StartingIsGood == \A s \in Streams :
    pc[s] \in Starting => stage[s] <= StartLimit /\ goodAgo < Lease + stage[s]

RelayIsGood == \A s \in Streams :
    pc[s] = "relay" => goodAgo < Lease + StartLimit + verifiedAge[s]

\* No failure of the round is missing from failed; a record that says ok has the
\* whole round behind it.
RoundIsHonest ==
    /\ ~failed => results["error"] = 0 /\ results["wrong"] = 0
    /\ monitor \in {"sleep", "failing", "down"} => ~failed
    /\ monitor = "partial" => record # "ok"
    /\ monitor = "final" /\ record = "ok" => results["ok"] = NumProbes

Clocks == FileIsGood /\ RecordIsNewer /\ StartingIsGood /\ RelayIsGood

IInv == TypeOK /\ SlotsReturned /\ Clocks /\ RoundIsHonest /\ FailureStands

Occupied(place) == {s \in Streams : place[s] \in Active}

-----------------------------------------------------------------------------
\* Ageing by one step, and where it stops.
LEMMA OlderFacts ==
  /\ Horizon \in Nat
  /\ \A age \in Ages : /\ Older(age) \in Ages /\ age <= Older(age) /\ Older(age) <= age + 1
                       /\ age < Horizon => Older(age) = age + 1
                       /\ age = Horizon => Older(age) = Horizon
  /\ \A a, b \in Ages : a <= b => Older(a) <= Older(b)
BY ExitAssumption DEF Horizon, Ages, Older

\* A stream that takes a slot, gives it back, or keeps it.
LEMMA OccupiedChange ==
  ASSUME NEW f, NEW g, NEW s \in Streams,
         \A t \in Streams \ {s} : (g[t] \in Active) <=> (f[t] \in Active)
  PROVE  /\ Cardinality(Occupied(f)) \in Nat
         /\ ((g[s] \in Active) <=> (f[s] \in Active)) => Occupied(g) = Occupied(f)
         /\ f[s] \notin Active /\ g[s] \in Active =>
               Cardinality(Occupied(g)) = Cardinality(Occupied(f)) + 1
         /\ f[s] \in Active /\ g[s] \notin Active =>
               /\ Cardinality(Occupied(g)) = Cardinality(Occupied(f)) - 1
               /\ Cardinality(Occupied(f)) > 0
<1>1. IsFiniteSet(Occupied(f)) /\ IsFiniteSet(Occupied(g))
  <2>1. Occupied(f) \in SUBSET Streams /\ Occupied(g) \in SUBSET Streams
    BY DEF Occupied
  <2> QED BY <2>1, ExitAssumption, FS_Subset
<1>2. Cardinality(Occupied(f)) \in Nat /\ Cardinality(Occupied(g)) \in Nat
  BY <1>1, FS_CardinalityType
<1>3. ((g[s] \in Active) <=> (f[s] \in Active)) => Occupied(g) = Occupied(f)
  BY DEF Occupied
<1>4. ASSUME f[s] \notin Active, g[s] \in Active
      PROVE  Cardinality(Occupied(g)) = Cardinality(Occupied(f)) + 1
  <2>1. Occupied(g) = Occupied(f) \cup {s} /\ s \notin Occupied(f)
    BY <1>4 DEF Occupied
  <2> QED BY <2>1, <1>1, FS_AddElement
<1>5. ASSUME f[s] \in Active, g[s] \notin Active
      PROVE  /\ Cardinality(Occupied(g)) = Cardinality(Occupied(f)) - 1
             /\ Cardinality(Occupied(f)) > 0
  <2>1. Occupied(g) = Occupied(f) \ {s} /\ s \in Occupied(f)
    BY <1>5 DEF Occupied
  <2>2. Cardinality(Occupied(g)) = Cardinality(Occupied(f)) - 1
    BY <2>1, <1>1, FS_RemoveElement
  <2> QED BY <2>2, <1>2
<1> QED BY <1>2, <1>3, <1>4, <1>5

-----------------------------------------------------------------------------
(* The monitor *)

\* What no step of the monitor touches.
MonitorOnly == UNCHANGED <<process, server, stream>>

\* A monitor step keeps the invariant if it keeps its own part of it and never
\* makes the newest verification older.
LEMMA MonitorKeeps ==
  ASSUME IInv, MonitorOnly,
         file' \in Kinds, record' \in Kinds, fileAge' \in Ages, goodAgo' \in Ages,
         recordAge' \in Ages, goodAgo' <= goodAgo,
         monitor' \in {"sleep", "probing", "partial", "final", "failing", "down"},
         results' \in [Outcomes -> 0..NumProbes], failed' \in BOOLEAN, matched' \in BOOLEAN,
         FileIsGood', RecordIsNewer', RoundIsHonest', FailureStands'
  PROVE  IInv'
<1> USE ExitAssumption
<1>1. TypeOK'
  BY DEF IInv, TypeOK, MonitorOnly, process, server, stream
<1>2. SlotsReturned'
  BY DEF IInv, SlotsReturned, MonitorOnly, process, server, stream
<1>3. StartingIsGood' /\ RelayIsGood'
  BY OlderFacts DEF IInv, TypeOK, Clocks, StartingIsGood, RelayIsGood, MonitorOnly, stream, Ages
<1> QED BY <1>1, <1>2, <1>3 DEF IInv, Clocks

\* Every step of the monitor keeps the invariant.
LEMMA MonitorStep ==
  ASSUME IInv, Monitor
  PROVE  IInv'
<1> USE ExitAssumption, OlderFacts
<1>a. /\ 0 \in Ages /\ "failed" \in Kinds /\ "revoked" \in Kinds /\ "ok" \in Kinds
      /\ goodAgo \in Ages /\ fileAge \in Ages /\ recordAge \in Ages
      /\ file \in Kinds /\ record \in Kinds
      /\ results \in [Outcomes -> 0..NumProbes]
      /\ results["ok"] \in 0..NumProbes /\ results["error"] \in 0..NumProbes
      /\ results["wrong"] \in 0..NumProbes
  BY DEF Ages, Kinds, Outcomes, IInv, TypeOK
<1>b. FileIsGood /\ RecordIsNewer /\ RoundIsHonest /\ FailureStands
  BY DEF IInv, Clocks
<1>c. goodAgo <= goodAgo /\ 0 <= goodAgo
  BY <1>a DEF Ages
<1>d. failed \in BOOLEAN /\ matched \in BOOLEAN
  BY DEF IInv, TypeOK
<1>1. CASE StartRound
  <2>1. /\ monitor = "sleep" /\ UNCHANGED <<file, fileAge, goodAgo, matched, results, failed>>
        /\ MonitorOnly /\ record' \in Kinds /\ recordAge' \in Ages
        /\ monitor' \in {"probing", "final"} /\ (monitor' = "final" => record' = "revoked")
    BY <1>1, <1>a DEF StartRound, Write, MonitorOnly, lease
  <2>2. results["error"] = 0 /\ results["wrong"] = 0
    BY <2>1, <1>b DEF RoundIsHonest, FailureStands
  <2> QED BY <2>1, <2>2, <1>a, <1>b, <1>c, <1>d, MonitorKeeps
     DEF FileIsGood, RecordIsNewer, RoundIsHonest, FailureStands
<1>2. CASE ProbeEnds
  <2>1. PICK outcome \in Outcomes :
          /\ results' = [results EXCEPT ![outcome] = @ + 1]
          /\ failed' = FailedWith(outcome)
          /\ IF outcome = "ok" THEN UNCHANGED <<monitor, record, recordAge>>
             ELSE monitor' = "partial" /\ Write(Doubtful(results'))
    BY <1>2 DEF ProbeEnds
  <2>2. failed' \in BOOLEAN /\ failed' = (failed \/ outcome # "ok")
    BY <2>1, <1>d, Zenon DEF FailedWith
  <2>3. monitor = "probing" /\ Answers(results) < NumProbes /\ MonitorOnly /\ UNCHANGED lease
    BY <1>2 DEF ProbeEnds, MonitorOnly
  <2>4. record' \in Kinds /\ recordAge' \in Ages /\ (monitor' = "partial" => record' # "ok")
        /\ monitor' \in {"probing", "partial"}
        /\ (outcome = "ok" => monitor' = "probing")
    BY <2>1, <2>3, <1>a DEF Write, Kinds, Doubtful
  <2>5. results[outcome] + 1 \in 0..NumProbes
    BY <2>3, <1>a DEF Answers, Outcomes
  <2>6. results' \in [Outcomes -> 0..NumProbes]
    BY <2>1, <2>5, <1>a
  <2>7. /\ results'["error"] = results["error"] + (IF outcome = "error" THEN 1 ELSE 0)
        /\ results'["wrong"] = results["wrong"] + (IF outcome = "wrong" THEN 1 ELSE 0)
    BY <2>1, <1>a DEF Outcomes
  <2>8. RoundIsHonest'
    <3>1. ~failed' => ~failed /\ outcome = "ok"
      BY <2>2, Zenon
    <3>2. ~failed' => results'["error"] = 0 /\ results'["wrong"] = 0
      BY <3>1, <2>7, <1>b, <1>a DEF RoundIsHonest
    <3> QED BY <3>2, <2>4 DEF RoundIsHonest
  <2>9. FileIsGood' /\ RecordIsNewer'
    BY <2>3, <2>4, <1>b DEF lease, FileIsGood, RecordIsNewer
  <2>10. FailureStands'
    <3>1. CASE outcome = "ok"
      BY <3>1, <2>3, <2>7, <1>a, <1>b DEF FailureStands, lease
    <3>2. CASE outcome # "ok"
      <4>1. monitor' = "partial"
        BY <3>2, <2>1
      <4> QED BY <4>1, <2>3, <1>b DEF FailureStands, lease
    <3> QED BY <3>1, <3>2
  <2> QED BY <1>a, <1>c, <1>d, <2>2, <2>3, <2>4, <2>6, <2>8, <2>9, <2>10, MonitorKeeps DEF lease
<1>3. CASE FinishRound
  <2>1. record' \in Kinds /\ (record' = "ok" => ~failed) /\ recordAge' = 0
    BY <1>3, <1>a DEF FinishRound, Write, Kinds, Doubtful
  <2>2. /\ monitor' = "final" /\ Answers(results) = NumProbes /\ MonitorOnly
        /\ UNCHANGED <<lease, results, failed>>
    BY <1>3 DEF FinishRound, MonitorOnly
  <2>3. RoundIsHonest'
    BY <2>1, <2>2, <1>b, <1>a DEF RoundIsHonest, Answers
  <2>4. FileIsGood' /\ RecordIsNewer' /\ FailureStands'
    BY <2>1, <2>2, <1>b, <1>c DEF lease, FileIsGood, RecordIsNewer, FailureStands
  <2> QED BY <1>a, <1>c, <1>d, <2>1, <2>2, <2>3, <2>4, MonitorKeeps DEF lease
<1>4. ASSUME monitor \in {"partial", "final"}, Replace
      PROVE  /\ file' \in Kinds /\ fileAge' \in Ages /\ goodAgo' \in Ages /\ goodAgo' <= goodAgo
             /\ FileIsGood' /\ matched' \in BOOLEAN /\ (file' = "ok" => matched')
             /\ (monitor = "partial" => file' # "ok")
  <2>1. matched' \in BOOLEAN
    BY <1>4, Zenon DEF Replace
  <2>2. (file' = "ok" => matched') /\ (monitor = "partial" => file' # "ok")
    BY <1>4, <1>b DEF Replace, RoundIsHonest
  <2> QED BY <2>1, <2>2, <1>4, <1>a, <1>b, <1>c DEF Replace, FileIsGood, RecordIsNewer
<1>r. ASSUME RoundOver, monitor' \in {"sleep", "failing", "down"}
      PROVE  /\ results' \in [Outcomes -> 0..NumProbes] /\ failed' \in BOOLEAN
             /\ record' \in Kinds /\ recordAge' \in Ages /\ RecordIsNewer' /\ RoundIsHonest'
  <2>1. 0 \in 0..NumProbes
    OBVIOUS
  <2> QED BY <1>r, <2>1, <1>a DEF RoundOver, NoResults, Write, RecordIsNewer, RoundIsHonest, Outcomes
<1>5. CASE Publish
  <2>1. monitor \in {"partial", "final"} /\ Replace /\ MonitorOnly
    BY <1>5 DEF Publish, MonitorOnly
  <2>2. CASE monitor = "partial"
    <3>1. monitor' = "probing" /\ record' = "failed" /\ recordAge' = 0 /\ UNCHANGED <<results, failed>>
      BY <1>5, <2>2 DEF Publish, Write
    <3>2. RecordIsNewer' /\ RoundIsHonest' /\ FailureStands'
      BY <2>1, <2>2, <3>1, <1>4, <1>b DEF RecordIsNewer, RoundIsHonest, FailureStands
    <3> QED BY <2>1, <2>2, <3>1, <3>2, <1>4, <1>a, <1>d, MonitorKeeps
  <2>3. CASE monitor = "final"
    <3>1. monitor' = "sleep" /\ RoundOver
      BY <1>5, <2>3 DEF Publish
    <3>2. FailureStands'
      BY <2>1, <3>1, <1>4 DEF FailureStands
    <3> QED BY <2>1, <3>1, <3>2, <1>4, <1>r, MonitorKeeps
  <2> QED BY <2>1, <2>2, <2>3
<1>6. CASE PublishFails
  <2>1. monitor \in {"partial", "final"} /\ monitor' = "failing" /\ RoundOver /\ MonitorOnly
    BY <1>6 DEF PublishFails, MonitorOnly
  <2>2. CASE Replace
    BY <2>1, <2>2, <1>4, <1>r, MonitorKeeps DEF FailureStands
  <2>3. CASE UNCHANGED lease
    BY <2>1, <2>3, <1>r, <1>a, <1>b, <1>c, <1>d, MonitorKeeps DEF lease, FileIsGood, FailureStands
  <2> QED BY <1>6, <2>2, <2>3 DEF PublishFails
<1>7. CASE RemoveLease
  BY <1>7, <1>a, <1>b, <1>c, <1>d, MonitorKeeps
     DEF RemoveLease, MonitorOnly, FileIsGood, RecordIsNewer, RoundIsHonest, FailureStands
<1>8. CASE MonitorKilled
  BY <1>8, <1>r, <1>a, <1>b, <1>c, <1>d, MonitorKeeps
     DEF MonitorKilled, MonitorOnly, lease, FileIsGood, FailureStands
<1>9. CASE MonitorStarts
  BY <1>9, <1>a, <1>b, <1>c, <1>d, MonitorKeeps
     DEF MonitorStarts, MonitorOnly, lease, FileIsGood, RecordIsNewer, RoundIsHonest, FailureStands
<1> QED BY <1>1, <1>2, <1>3, <1>5, <1>6, <1>7, <1>8, <1>9 DEF Monitor

-----------------------------------------------------------------------------
(* The relay *)

\* How one stream's step changes the number of free slots.
SlotsFollow(s, place) ==
    \/ ((pc[s] \in Active) <=> (place \in Active)) /\ slots' = slots
    \/ pc[s] \notin Active /\ place \in Active /\ slots > 0 /\ slots' = slots - 1
    \/ pc[s] \in Active /\ place \notin Active /\ slots' = slots + 1

LoopTyped ==
    /\ newerThan' \in [Streams -> Ages] /\ uncertain' \in [Streams -> BOOLEAN]
    /\ uncertainAge' \in [Streams -> Ages] /\ verifiedAge' \in [Streams -> Ages]

\* A step of one stream keeps the invariant if its slot follows its place and
\* its own clocks stay tied to the newest verification.
LEMMA StreamKeeps ==
  ASSUME IInv, NEW s \in Streams, NEW place \in Active \cup {"idle"}, Goto(s, place),
         UNCHANGED <<lease, mon, process>>, auditFailed' \in BOOLEAN, SlotsFollow(s, place),
         stage' \in [Streams -> Ages], LoopTyped,
         \A t \in Streams \ {s} : stage'[t] = stage[t] /\ verifiedAge'[t] = verifiedAge[t],
         place \in Starting => stage'[s] <= StartLimit /\ goodAgo < Lease + stage'[s],
         place = "relay" => goodAgo < Lease + StartLimit + verifiedAge'[s]
  PROVE  IInv'
<1> USE ExitAssumption
<1>1. /\ pc \in [Streams -> Active \cup {"idle"}] /\ pc' \in [Streams -> Active \cup {"idle"}]
      /\ pc'[s] = place /\ \A t \in Streams \ {s} : pc'[t] = pc[t]
  BY DEF IInv, TypeOK, Goto
<1>2. slots' \in 0..MaxSessions /\ slots' + Cardinality(Occupied(pc')) = MaxSessions
  <2>1. slots \in 0..MaxSessions /\ slots + Cardinality(Occupied(pc)) = MaxSessions
    BY DEF IInv, TypeOK, SlotsReturned, Occupied
  <2>2. /\ Cardinality(Occupied(pc)) \in Nat
        /\ ((place \in Active) <=> (pc[s] \in Active)) => Occupied(pc') = Occupied(pc)
        /\ pc[s] \notin Active /\ place \in Active =>
              Cardinality(Occupied(pc')) = Cardinality(Occupied(pc)) + 1
        /\ pc[s] \in Active /\ place \notin Active =>
              /\ Cardinality(Occupied(pc')) = Cardinality(Occupied(pc)) - 1
              /\ Cardinality(Occupied(pc)) > 0
    <3>1. \A t \in Streams \ {s} : (pc'[t] \in Active) <=> (pc[t] \in Active)
      BY <1>1
    <3> QED BY <1>1, <3>1, OccupiedChange
  <2>3. CASE ((pc[s] \in Active) <=> (place \in Active)) /\ slots' = slots
    BY <2>1, <2>2, <2>3
  <2>4. CASE pc[s] \notin Active /\ place \in Active /\ slots > 0 /\ slots' = slots - 1
    BY <2>1, <2>2, <2>4
  <2>5. CASE pc[s] \in Active /\ place \notin Active /\ slots' = slots + 1
    BY <2>1, <2>2, <2>5
  <2> QED BY <2>3, <2>4, <2>5 DEF SlotsFollow
<1>3. TypeOK'
  BY <1>1, <1>2 DEF IInv, TypeOK, LoopTyped, lease, mon, process
<1>4. SlotsReturned'
  BY <1>2 DEF SlotsReturned, Occupied
<1>5. FileIsGood' /\ RecordIsNewer' /\ RoundIsHonest' /\ FailureStands'
  BY DEF IInv, Clocks, FileIsGood, RecordIsNewer, RoundIsHonest, FailureStands, lease, mon, process
<1>6. StartingIsGood' /\ RelayIsGood'
  BY <1>1 DEF IInv, Clocks, StartingIsGood, RelayIsGood, lease
<1> QED BY <1>3, <1>4, <1>5, <1>6 DEF IInv, Clocks

\* Every step of a stream keeps the invariant.
LEMMA StreamStep ==
  ASSUME IInv, NEW s \in Streams, Stream(s)
  PROVE  IInv'
<1> USE ExitAssumption, OlderFacts
<1>a. /\ pc \in [Streams -> Active \cup {"idle"}] /\ stage \in [Streams -> Ages]
      /\ newerThan \in [Streams -> Ages] /\ uncertain \in [Streams -> BOOLEAN]
      /\ uncertainAge \in [Streams -> Ages] /\ verifiedAge \in [Streams -> Ages]
      /\ auditFailed \in BOOLEAN /\ goodAgo \in Ages /\ fileAge \in Ages /\ serverAge \in Ages
      /\ 0 \in Ages
  BY DEF IInv, TypeOK, Ages
<1>b. /\ pc[s] \in Starting => stage[s] <= StartLimit /\ goodAgo < Lease + stage[s]
      /\ pc[s] = "relay" => goodAgo < Lease + StartLimit + verifiedAge[s]
      /\ \A newer : LeaseState(newer) = "valid" => goodAgo < Lease
  BY DEF IInv, TypeOK, Kinds, Clocks, StartingIsGood, RelayIsGood, FileIsGood, LeaseState
<1>c. ASSUME UNCHANGED loop PROVE LoopTyped /\ UNCHANGED verifiedAge
  BY <1>a, <1>c DEF loop, LoopTyped
<1>d. \A ok \in BOOLEAN : AuditWrite(ok) => auditFailed' \in BOOLEAN
  BY DEF AuditWrite
<1>e. ASSUME Checked(s)
      PROVE  /\ stage' \in [Streams -> Ages] /\ stage'[s] = 0
             /\ \A t \in Streams \ {s} : stage'[t] = stage[t]
  BY <1>a, <1>e DEF Checked
<1>f. 0 <= StartLimit /\ (goodAgo < Lease => goodAgo < Lease + 0)
  BY <1>a DEF Ages
<1>1. CASE Accept(s)
  <2>1. pc[s] = "idle" /\ UNCHANGED <<lease, mon, process, stage, loop>>
    BY <1>1 DEF Accept
  <2>2. CASE slots > 0 /\ slots' = slots - 1 /\ Goto(s, "accepted") /\ UNCHANGED auditFailed
    <3>1. SlotsFollow(s, "accepted")
      BY <2>1, <2>2 DEF SlotsFollow, Active, Starting, Ended
    <3> QED BY <2>1, <2>2, <3>1, <1>a, <1>c, StreamKeeps DEF Active, Starting, Ended
  <2>3. CASE UNCHANGED <<slots, pc>> /\ auditFailed' \in BOOLEAN
    <3>1. SlotsFollow(s, "idle") /\ Goto(s, "idle")
      BY <2>1, <2>3, <1>a DEF SlotsFollow, Goto
    <3> QED BY <2>1, <2>3, <3>1, <1>a, <1>c, StreamKeeps DEF Starting
  <2> QED BY <1>1, <2>2, <2>3, <1>a, <1>d DEF Accept
<1>2. CASE Admit(s)
  <2>1. PICK ok \in BOOLEAN, wanted \in BOOLEAN :
          AuditWrite(ok) /\ Goto(s, IF ok /\ wanted /\ Admissible THEN "admitted" ELSE "dropped")
    BY <1>2 DEF Admit
  <2>2. /\ pc[s] = "accepted" /\ Checked(s) /\ auditFailed' \in BOOLEAN
        /\ UNCHANGED <<lease, mon, process, slots, loop>>
    BY <1>2, <2>1, <1>d DEF Admit
  <2>3. CASE ok /\ wanted /\ Admissible
    <3>1. SlotsFollow(s, "admitted") /\ Goto(s, "admitted") /\ goodAgo < Lease
      BY <2>1, <2>2, <2>3, <1>b DEF SlotsFollow, Active, Starting, Admissible
    <3> QED BY <2>2, <3>1, <1>c, <1>e, <1>f, StreamKeeps DEF Active, Starting
  <2>4. CASE ~(ok /\ wanted /\ Admissible)
    <3>1. SlotsFollow(s, "dropped") /\ Goto(s, "dropped")
      BY <2>1, <2>2, <2>4 DEF SlotsFollow, Active, Ended
    <3> QED BY <2>2, <3>1, <1>c, <1>e, StreamKeeps DEF Active, Starting, Ended
  <2> QED BY <2>3, <2>4
<1>3. CASE Advance(s)
  <2>1. /\ pc[s] \in Starting \ {"ready"} /\ Checked(s)
        /\ UNCHANGED <<lease, mon, process, slots, auditFailed, loop>>
    BY <1>3 DEF Advance, server
  <2>2. CASE Goto(s, "ended")
    <3>1. SlotsFollow(s, "ended")
      BY <2>1 DEF SlotsFollow, Active, Ended
    <3> QED BY <2>1, <2>2, <3>1, <1>a, <1>c, <1>e, StreamKeeps DEF Active, Starting, Ended
  <2>3. ASSUME Admissible, NEW place \in Starting, Goto(s, place) PROVE IInv'
    <3>1. SlotsFollow(s, place) /\ goodAgo < Lease /\ place # "relay"
      BY <2>1, <2>3, <1>b DEF SlotsFollow, Active, Starting, Admissible
    <3> QED BY <2>1, <2>3, <3>1, <1>a, <1>c, <1>e, <1>f, StreamKeeps DEF Active
  <2>4. \/ Goto(s, "ended")
        \/ Admissible /\ \E place \in Starting : Goto(s, place)
    BY <1>3, <2>1 DEF Advance, Starting
  <2> QED BY <2>2, <2>3, <2>4
<1>4. CASE StartRelay(s)
  <2>1. /\ pc[s] \in Starting /\ Checked(s)
        /\ UNCHANGED <<lease, mon, process, slots, auditFailed, uncertain, uncertainAge, verifiedAge>>
    BY <1>4 DEF StartRelay, server, Starting
  <2>2. CASE Goto(s, "relay") /\ newerThan' = [newerThan EXCEPT ![s] = serverAge]
    <3>1. LoopTyped /\ SlotsFollow(s, "relay")
      BY <2>1, <2>2, <1>a DEF LoopTyped, SlotsFollow, Active
    <3>2. goodAgo < Lease + StartLimit + verifiedAge'[s]
      BY <2>1, <1>a, <1>b DEF Ages
    <3> QED BY <2>1, <2>2, <3>1, <3>2, <1>a, <1>e, StreamKeeps DEF Active, Starting
  <2>3. CASE Goto(s, Raised) /\ UNCHANGED newerThan
    <3>1. LoopTyped /\ SlotsFollow(s, Raised) /\ Raised \in Ended
      BY <2>1, <2>3, <1>a DEF LoopTyped, SlotsFollow, Active, Raised, Ended
    <3> QED BY <2>1, <2>3, <3>1, <1>a, <1>e, StreamKeeps DEF Active, Starting, Ended
  <2> QED BY <1>4, <2>2, <2>3 DEF StartRelay
<1>5. ASSUME pc[s] = "relay", NEW place \in {"ended", "dropped"}, Goto(s, place),
             UNCHANGED <<lease, mon, process, slots, stage>>, auditFailed' \in BOOLEAN,
             LoopTyped, \A t \in Streams \ {s} : verifiedAge'[t] = verifiedAge[t]
      PROVE  IInv'
  <2>1. SlotsFollow(s, place) /\ place \notin Starting \cup {"relay"} /\ place \in Active
    BY <1>5 DEF SlotsFollow, Active, Starting, Ended
  <2> QED BY <1>5, <2>1, <1>a, StreamKeeps
<1>6. ASSUME pc[s] = "relay", Goto(s, "relay"),
             UNCHANGED <<lease, mon, process, slots, stage>>, auditFailed' \in BOOLEAN,
             LoopTyped, \A t \in Streams \ {s} : verifiedAge'[t] = verifiedAge[t],
             verifiedAge'[s] = verifiedAge[s] \/ goodAgo < Lease
      PROVE  IInv'
  <2>1. SlotsFollow(s, "relay") /\ "relay" \in Active
    BY <1>6 DEF SlotsFollow, Active
  <2>2. goodAgo < Lease + StartLimit + verifiedAge'[s]
    BY <1>6, <1>a, <1>b DEF LoopTyped, Ages
  <2> QED BY <1>6, <2>1, <2>2, <1>a, StreamKeeps DEF Starting
<1>7. CASE RelayCloses(s)
  BY <1>7, <1>5, <1>a, <1>c DEF RelayCloses, server
<1>8. CASE RelayEnds(s)
  BY <1>8, <1>5, <1>a, <1>c DEF RelayEnds, server, Raised
<1>9. CASE RelayUncertain(s)
  <2>1. PICK ok \in BOOLEAN :
          /\ AuditWrite(ok) /\ Goto(s, IF ok THEN "relay" ELSE Raised)
          /\ uncertain' = [uncertain EXCEPT ![s] = TRUE]
          /\ uncertainAge' = [uncertainAge EXCEPT ![s] = 0]
    BY <1>9 DEF RelayUncertain
  <2>2. /\ pc[s] = "relay" /\ auditFailed' \in BOOLEAN
        /\ UNCHANGED <<lease, mon, process, slots, stage, newerThan, verifiedAge>>
    BY <1>9, <2>1, <1>d DEF RelayUncertain
  <2>3. LoopTyped
    BY <2>1, <2>2, <1>a DEF LoopTyped
  <2>4. CASE ok
    BY <2>1, <2>2, <2>3, <2>4, <1>6
  <2>5. CASE ~ok
    BY <2>1, <2>2, <2>3, <2>5, <1>5 DEF Raised
  <2> QED BY <2>4, <2>5
<1>10. CASE RelayVerified(s)
  <2>1. /\ pc[s] = "relay" /\ goodAgo < Lease
        /\ verifiedAge' = [verifiedAge EXCEPT ![s] = 0]
        /\ UNCHANGED <<lease, mon, process, slots, stage>>
    BY <1>10, <1>b DEF RelayVerified, Verified
  <2>2. verifiedAge' \in [Streams -> Ages] /\ \A t \in Streams \ {s} : verifiedAge'[t] = verifiedAge[t]
    BY <2>1, <1>a
  <2>3. CASE uncertain[s]
    <3>1. PICK ok \in BOOLEAN :
            /\ AuditWrite(ok) /\ Goto(s, IF ok THEN "relay" ELSE Raised)
            /\ uncertain' = [uncertain EXCEPT ![s] = FALSE]
            /\ uncertainAge' = [uncertainAge EXCEPT ![s] = 0]
            /\ newerThan' = [newerThan EXCEPT ![s] =
                  IF uncertainAge[s] < @ THEN uncertainAge[s] ELSE @]
      BY <1>10, <2>3 DEF RelayVerified
    <3>2. LoopTyped /\ auditFailed' \in BOOLEAN
      BY <3>1, <2>2, <1>a, <1>d DEF LoopTyped
    <3>3. CASE ok
      BY <3>1, <3>2, <3>3, <2>1, <2>2, <1>6
    <3>4. CASE ~ok
      BY <3>1, <3>2, <3>4, <2>1, <2>2, <1>5 DEF Raised
    <3> QED BY <3>3, <3>4
  <2>4. CASE ~uncertain[s]
    <3>1. UNCHANGED <<auditFailed, pc, uncertain, uncertainAge, newerThan>>
      BY <1>10, <2>4 DEF RelayVerified
    <3>2. LoopTyped /\ Goto(s, "relay")
      BY <3>1, <2>1, <2>2, <1>a DEF LoopTyped, Goto
    <3> QED BY <3>1, <3>2, <2>1, <2>2, <1>a, <1>6
  <2> QED BY <2>3, <2>4
<1>11. CASE End(s)
  <2>1. /\ pc[s] \in Ended /\ Goto(s, "idle") /\ slots' = slots + 1
        /\ UNCHANGED <<lease, mon, process, stage>>
    BY <1>11 DEF End, Finish
  <2>2. auditFailed' \in BOOLEAN
    BY <1>11, <1>a, <1>d DEF End, Finish
  <2>3. LoopTyped /\ \A t \in Streams \ {s} : verifiedAge'[t] = verifiedAge[t]
    BY <1>11, <1>a DEF End, Finish, LoopTyped
  <2>4. SlotsFollow(s, "idle") /\ "idle" \notin Starting
    BY <2>1 DEF SlotsFollow, Active, Starting, Ended
  <2> QED BY <2>1, <2>2, <2>3, <2>4, <1>a, StreamKeeps
<1> QED BY <1>1, <1>2, <1>3, <1>4, <1>7, <1>8, <1>9, <1>10, <1>11 DEF Stream, RelayLoop

-----------------------------------------------------------------------------
(* Time, restarts and the whole system *)

\* Time makes every clock older by the same step.
LEMMA TickStep ==
  ASSUME IInv, Tick
  PROVE  IInv'
<1> USE ExitAssumption, OlderFacts
<1>1. /\ goodAgo \in Ages /\ fileAge \in Ages /\ serverAge \in Ages /\ recordAge \in Ages
      /\ stage \in [Streams -> Ages] /\ newerThan \in [Streams -> Ages]
      /\ verifiedAge \in [Streams -> Ages] /\ uncertainAge \in [Streams -> Ages]
  BY DEF IInv, TypeOK
<1>2. ASSUME NEW age \in [Streams -> Ages], NEW S
      PROVE  Ageing(age, S) \in [Streams -> Ages]
  BY <1>2 DEF Ageing
<1>3. TypeOK'
  <2>1. /\ goodAgo' \in Ages /\ fileAge' \in Ages /\ serverAge' \in Ages /\ recordAge' \in Ages
    BY <1>1 DEF Tick
  <2>2. /\ stage' \in [Streams -> Ages] /\ newerThan' \in [Streams -> Ages]
        /\ verifiedAge' \in [Streams -> Ages] /\ uncertainAge' \in [Streams -> Ages]
    BY <1>1, <1>2 DEF Tick
  <2> QED BY <2>1, <2>2 DEF IInv, TypeOK, Tick, server
<1>4. SlotsReturned' /\ RoundIsHonest' /\ FailureStands'
  BY DEF IInv, SlotsReturned, RoundIsHonest, FailureStands, Tick, server
<1>5. FileIsGood'
  BY DEF IInv, Clocks, FileIsGood, Tick
<1>6. RecordIsNewer'
  BY <1>1 DEF IInv, Clocks, RecordIsNewer, Tick
<1>7. StartingIsGood'
  <2> SUFFICES ASSUME NEW s \in Streams, pc[s] \in Starting
               PROVE  stage'[s] <= StartLimit /\ goodAgo' < Lease + stage'[s]
    BY DEF StartingIsGood, Tick
  <2>1. stage[s] < StartLimit /\ goodAgo < Lease + stage[s]
    BY DEF Tick, IInv, Clocks, StartingIsGood
  <2>2. stage'[s] = stage[s] + 1
    BY <2>1, <1>1 DEF Tick, Ageing, Older, Horizon, Ages
  <2>3. goodAgo' <= goodAgo + 1 /\ goodAgo' \in Ages
    BY <1>1 DEF Tick
  <2> QED BY <2>1, <2>2, <2>3, <1>1 DEF Ages
<1>8. RelayIsGood'
  <2> SUFFICES ASSUME NEW s \in Streams, pc[s] = "relay"
               PROVE  goodAgo' < Lease + StartLimit + verifiedAge'[s]
    BY DEF RelayIsGood, Tick
  <2>1. goodAgo < Lease + StartLimit + verifiedAge[s] /\ verifiedAge[s] \in Ages
    BY <1>1 DEF IInv, Clocks, RelayIsGood
  <2>2. goodAgo' <= goodAgo + 1 /\ goodAgo' \in Ages /\ verifiedAge'[s] = Older(verifiedAge[s])
    BY <1>1 DEF Tick, Ageing
  <2>3. CASE verifiedAge[s] < Horizon
    BY <2>1, <2>2, <2>3, <1>1 DEF Ages
  <2>4. CASE verifiedAge[s] = Horizon
    BY <2>1, <2>2, <2>4 DEF Ages
  <2> QED BY <2>1, <2>3, <2>4 DEF Ages
<1> QED BY <1>3, <1>4, <1>5, <1>6, <1>7, <1>8 DEF IInv, Clocks

\* With every stream idle no slot is taken.
LEMMA IdleIsFree ==
  ASSUME NEW place, \A s \in Streams : place[s] = "idle"
  PROVE  Cardinality({s \in Streams : place[s] \in Active}) = 0
<1>1. {s \in Streams : place[s] \in Active} = {}
  BY DEF Active, Starting, Ended
<1> QED BY <1>1, FS_EmptySet

\* A new relay process starts with no stream and every slot.
LEMMA RestartStep ==
  ASSUME IInv, ServerRestarts
  PROVE  IInv'
<1> USE ExitAssumption, OlderFacts
<1>0. 0 \in Ages /\ pc' = [s \in Streams |-> "idle"] /\ slots' = MaxSessions /\ UNCHANGED <<lease, mon>>
  BY DEF Ages, ServerRestarts
<1>1. TypeOK'
  <2>1. auditFailed' \in BOOLEAN /\ uncertain' \in [Streams -> BOOLEAN] /\ transparent' \in BOOLEAN
    BY DEF ServerRestarts, IInv, TypeOK
  <2>2. /\ serverAge' \in Ages /\ slots' \in 0..MaxSessions
        /\ pc' \in [Streams -> Active \cup {"idle"}]
        /\ stage' \in [Streams -> Ages] /\ newerThan' \in [Streams -> Ages]
        /\ uncertainAge' \in [Streams -> Ages] /\ verifiedAge' \in [Streams -> Ages]
    BY <1>0 DEF ServerRestarts
  <2> QED BY <1>0, <2>1, <2>2 DEF IInv, TypeOK, lease, mon
<1>2. SlotsReturned'
  BY <1>0, IdleIsFree DEF SlotsReturned
<1>3. Clocks' /\ RoundIsHonest' /\ FailureStands'
  BY <1>0 DEF IInv, Clocks, FileIsGood, RecordIsNewer, StartingIsGood, RelayIsGood,
              RoundIsHonest, FailureStands, Starting, lease, mon
<1> QED BY <1>1, <1>2, <1>3 DEF IInv

\* The inductive invariant holds in every behaviour.
THEOREM Invariance == Spec => []IInv
<1>1. Init => IInv
  <2> SUFFICES ASSUME Init PROVE IInv
    OBVIOUS
  <2> USE ExitAssumption, OlderFacts
  <2>1. 0 \in Ages /\ Horizon \in Ages
    BY DEF Ages
  <2>2. TypeOK
    <3>1. /\ auditFailed \in BOOLEAN /\ uncertain \in [Streams -> BOOLEAN]
          /\ failed \in BOOLEAN /\ matched \in BOOLEAN /\ transparent \in BOOLEAN
      BY DEF Init
    <3>2. /\ serverAge \in Ages /\ slots \in 0..MaxSessions
          /\ pc \in [Streams -> Active \cup {"idle"}]
          /\ stage \in [Streams -> Ages] /\ newerThan \in [Streams -> Ages]
          /\ uncertainAge \in [Streams -> Ages] /\ verifiedAge \in [Streams -> Ages]
      BY <2>1 DEF Init
    <3>3. /\ file \in Kinds /\ record \in Kinds /\ results \in [Outcomes -> 0..NumProbes]
          /\ fileAge \in Ages /\ goodAgo \in Ages /\ recordAge \in Ages
          /\ monitor \in {"sleep", "probing", "partial", "final", "failing", "down"}
      BY <2>1 DEF Init, Kinds, NoResults
    <3> QED BY <3>1, <3>2, <3>3 DEF TypeOK
  <2>3. SlotsReturned
    BY IdleIsFree DEF Init, SlotsReturned
  <2>4. Clocks /\ RoundIsHonest /\ FailureStands
    BY DEF Init, Clocks, FileIsGood, RecordIsNewer, StartingIsGood, RelayIsGood, RoundIsHonest,
           FailureStands, NoResults, Outcomes, Starting
  <2> QED BY <2>2, <2>3, <2>4 DEF IInv
<1>2. IInv /\ [Next]_vars => IInv'
  <2> SUFFICES ASSUME IInv, [Next]_vars PROVE IInv'
    OBVIOUS
  <2>1. CASE UNCHANGED vars
    BY <2>1 DEF IInv, TypeOK, SlotsReturned, Clocks, FileIsGood, RecordIsNewer, StartingIsGood,
                RelayIsGood, RoundIsHonest, FailureStands, vars, lease, mon, process, server, stream
  <2> QED BY <2>1, MonitorStep, TickStep, RestartStep, StreamStep DEF Next
<1> QED BY <1>1, <1>2, PTL DEF Spec

\* TypeOK for every value of the constants.
THEOREM TypeCorrect == Spec => []TypeOK
BY Invariance, PTL DEF IInv

\* No byte moves later than lease, grace and start-up after the newest
\* successful verification, whatever the monitor and the other streams do.
THEOREM Forwarding == Spec => []ForwardVerified
<1>1. IInv => ForwardVerified
  <2> SUFFICES ASSUME IInv, NEW s \in Streams, CanForward(s) PROVE goodAgo < Horizon
    BY DEF ForwardVerified
  <2> USE ExitAssumption DEF Horizon, Ages
  <2>1. CASE LeaseState(newerThan[s]) = "valid"
    BY <2>1 DEF LeaseState, IInv, TypeOK, Kinds, Clocks, FileIsGood
  <2>2. CASE verifiedAge[s] < Grace
    BY <2>2 DEF CanForward, IInv, TypeOK, Clocks, RelayIsGood
  <2> QED BY <2>1, <2>2 DEF CanForward
<1> QED BY <1>1, Invariance, PTL

\* A failed probe is not undone within its round.
THEOREM Failures == Spec => []FailureStands
BY Invariance, PTL DEF IInv

\* Sessions and free slots always add up to max_sessions.
THEOREM Slots == Spec => []SlotsReturned
BY Invariance, PTL DEF IInv

\* The grace clock is only reset by a verification newer than the uncertainty.
THEOREM Recovery == Spec => RecoveryIsFresh
<1> DEFINE Fresh == \A s \in Streams :
      pc[s] = "relay" /\ pc'[s] = "relay" /\ uncertain[s] /\ ~uncertain'[s] =>
          file = "ok" /\ fileAge <= uncertainAge[s]
<1>1. TypeOK /\ [Next]_vars => [Fresh]_vars
  <2> SUFFICES ASSUME TypeOK, Next, NEW s \in Streams, pc[s] = "relay", pc'[s] = "relay",
                      uncertain[s], ~uncertain'[s]
               PROVE  file = "ok" /\ fileAge <= uncertainAge[s]
    OBVIOUS
  <2>1. ~Monitor /\ ~Tick
    BY DEF Monitor, StartRound, ProbeEnds, FinishRound, Publish, PublishFails, RemoveLease,
           MonitorKilled, MonitorStarts, Tick, stream
  <2>2. ~ServerRestarts
    BY DEF ServerRestarts
  <2>3. PICK t \in Streams : Stream(t)
    BY <2>1, <2>2 DEF Next
  <2>4. RelayVerified(t) /\ t = s
    BY <2>3 DEF Stream, RelayLoop, Accept, Admit, Advance, StartRelay, RelayCloses, RelayUncertain,
                RelayVerified, RelayEnds, End, Finish, Goto, loop, TypeOK
  <2> QED BY <2>4 DEF RelayVerified, Verified, LeaseState, TypeOK, Kinds
<1> QED BY <1>1, TypeCorrect, PTL DEF Spec, RecoveryIsFresh

=============================================================================
