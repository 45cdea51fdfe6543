------------------------- MODULE GatewayAddon_proof -------------------------
(***************************************************************************)
(* GatewayDestination for any number of flows, connections and addresses.  *)
(* What a flow knew before it awaited a lookup may be wrong after it; the  *)
(* invariant keeps what survives: the bindings of a connection agree with  *)
(* its target, and what a waiter is woken with is about its own address.   *)
(* Then CodexWebSocket, the other state of the addon's flows, for any      *)
(* limits, any number of flows and any number of failing writes.           *)
(***************************************************************************)
EXTENDS GatewayDestination, CodexWebSocket, SequenceTheorems, TLAPS

\* The hosts and addresses bound to names were confirmed by the resolver.
BoundWasLeased == \A c \in Connections : \A b \in bindings[c] : b[1] \in Names => b \in told

\* A flow is woken with a lease only if its own name and address have one.
WokenWasLeased == \A f \in Flows :
    pc[f] = "woken" /\ found[f] = "lease" => <<host[f], dest[f]>> \in told

OnlyNamesWait == \A f \in Flows :
    pc[f] \in {"waiting", "woken", "candidates"} \/ degraded => host[f] \in Names

DegradedIsPublic == \A f \in Flows :
    degraded /\ pc[f] \in {"waiting", "woken"} => dest[f] \in Public

IInv ==
    /\ TypeOK
    /\ OneTarget
    /\ BoundWasLeased
    /\ WokenWasLeased
    /\ OnlyNamesWait
    /\ DegradedIsPublic
    /\ VerifiedWasLeased
    /\ PinnedIsPublic

-----------------------------------------------------------------------------
\* A lookup that ends wakes exactly the flows that asked for its name and address.
LEMMA LookupKeeps ==
  ASSUME IInv, NEW k \in LookupKeys, NEW result \in Results, LookupDone(k, result), UNCHANGED degraded,
         told' \in SUBSET (Names \X Addresses), told \subseteq told',
         result = "lease" => <<k[2], k[3]>> \in told'
  PROVE  IInv'
<1> USE DestinationAssumption
<1>1. TypeOK'
  BY DEF IInv, TypeOK, LookupDone, request, registry, Results
<1>2. OneTarget'
  BY DEF IInv, TypeOK, OneTarget, LookupDone, request, registry
<1>3. BoundWasLeased' /\ PinnedIsPublic'
  BY DEF IInv, BoundWasLeased, PinnedIsPublic, LookupDone, request, registry
<1>4. OnlyNamesWait' /\ DegradedIsPublic' /\ VerifiedWasLeased'
  BY DEF IInv, TypeOK, OnlyNamesWait, DegradedIsPublic, VerifiedWasLeased, LookupDone,
         Awaited, request, registry
<1>5. WokenWasLeased'
  <2> SUFFICES ASSUME NEW f \in Flows, pc'[f] = "woken", found'[f] = "lease"
               PROVE  <<host[f], dest[f]>> \in told'
    BY DEF WokenWasLeased, LookupDone, request
  <2>1. CASE Awaited(f, k)
    BY <2>1 DEF LookupDone, Awaited
  <2>2. CASE ~Awaited(f, k)
    BY <2>2 DEF LookupDone, IInv, WokenWasLeased
  <2> QED BY <2>1, <2>2
<1> QED BY <1>1, <1>2, <1>3, <1>4, <1>5 DEF IInv

\* A flow that starts to wait has decided nothing yet.
LEMMA AwaitKeeps ==
  ASSUME IInv, NEW f \in Flows, NEW a \in Addresses, AwaitLease(f, a), host[f] \in Names,
         pc[f] \in {"idle", "candidates"}, degraded => a \in Public,
         todo' \in [Flows -> Seq(Addresses)],
         UNCHANGED <<conn, host, found, pinned, registry, leased, told, degraded>>
  PROVE  IInv'
<1> USE DestinationAssumption
<1>1. TypeOK'
  <2>1. attempt' \in [LookupKeys -> 0..Attempts]
    <3>1. <<conn[f], host[f], a>> \in LookupKeys /\ 1 \in 0..Attempts
      BY DEF IInv, TypeOK, LookupKeys
    <3> QED BY <3>1 DEF IInv, TypeOK, AwaitLease
  <2> QED BY <2>1 DEF IInv, TypeOK, AwaitLease, Goto, registry
<1>2. OneTarget' /\ BoundWasLeased' /\ PinnedIsPublic'
  BY DEF IInv, TypeOK, OneTarget, BoundWasLeased, PinnedIsPublic, AwaitLease, Goto, registry
<1>3. WokenWasLeased' /\ OnlyNamesWait' /\ DegradedIsPublic' /\ VerifiedWasLeased'
  BY DEF IInv, TypeOK, WokenWasLeased, OnlyNamesWait, DegradedIsPublic, VerifiedWasLeased,
         AwaitLease, Goto
<1> QED BY <1>1, <1>2, <1>3 DEF IInv

\* A verdict that binds nothing: sound when the connection is already bound to
\* the request, or when the flow is not let through.
LEMMA VerdictKeeps ==
  ASSUME IInv, NEW f \in Flows, NEW place \in {"verified", "refused", "killed", "candidates"},
         Goto(f, place),
         ~degraded /\ place = "verified" => Binding(f) \in bindings[conn[f]],
         degraded /\ place = "verified" => <<host[f], dest[f]>> \in told,
         place = "candidates" => degraded,
         todo' \in [Flows -> Seq(Addresses)],
         pinned' = pinned \/ (/\ pinned' = [pinned EXCEPT ![f] = dest[f]]
                              /\ dest[f] \in Public /\ <<host[f], dest[f]>> \in told),
         UNCHANGED <<request, found, registry, attempt, leased, told, degraded>>
  PROVE  IInv'
<1> USE DestinationAssumption
<1>1. TypeOK'
  BY DEF IInv, TypeOK, Goto, registry, request
<1>2. BoundWasLeased' /\ WokenWasLeased' /\ OnlyNamesWait' /\ DegradedIsPublic'
  BY DEF IInv, TypeOK, BoundWasLeased, WokenWasLeased, OnlyNamesWait, DegradedIsPublic, Goto,
         registry, request
<1>3. PinnedIsPublic'
  BY DEF IInv, TypeOK, PinnedIsPublic, registry, request
<1>4. OneTarget'
  BY DEF IInv, TypeOK, OneTarget, Goto, Binding, registry, request
<1>5. VerifiedWasLeased'
  BY DEF IInv, TypeOK, VerifiedWasLeased, BoundWasLeased, Goto, Binding, registry, request
<1> QED BY <1>1, <1>2, <1>3, <1>4, <1>5 DEF IInv

\* A new binding agrees with the target of its connection.
LEMMA RememberKeeps ==
  ASSUME IInv, NEW f \in Flows, ~degraded, Goto(f, "verified"), Remember(f),
         ~OtherTarget(f), host[f] \in Names => <<host[f], dest[f]>> \in told,
         UNCHANGED <<request, found, todo, pinned, attempt, leased, told, degraded>>
  PROVE  IInv'
<1> USE DestinationAssumption
<1>0. /\ conn[f] \in Connections /\ dest[f] \in Addresses /\ dest[f] # None
      /\ Binding(f) \in Bindings
  BY DEF IInv, TypeOK, Binding, Bindings
<1>1. TypeOK'
  BY <1>0 DEF IInv, TypeOK, Goto, Remember, request
<1>2. /\ target'[conn[f]] = dest[f]
      /\ \A c \in Connections : target[c] # None => target'[c] = target[c]
      /\ \A c \in Connections : c # conn[f] => target'[c] = target[c] /\ bindings'[c] = bindings[c]
      /\ bindings'[conn[f]] = bindings[conn[f]] \cup {Binding(f)}
  BY <1>0 DEF Remember, OtherTarget, IInv, TypeOK
<1>3. \A c \in Connections : \A b \in bindings[c] : target[c] # None
  BY DestinationAssumption DEF IInv, OneTarget, TypeOK, Bindings
<1>4. OneTarget'
  <2>1. ASSUME NEW c \in Connections, NEW b \in bindings'[c] PROVE b[2] = target'[c]
    <3>1. CASE b \in bindings[c]
      BY <1>2, <1>3, <3>1 DEF IInv, OneTarget
    <3>2. CASE b \notin bindings[c]
      BY <1>2, <2>1, <3>2 DEF Binding
    <3> QED BY <3>1, <3>2
  <2>2. ASSUME NEW g \in Flows, pc'[g] = "verified" PROVE dest[g] = target'[conn[g]]
    <3>1. CASE g = f
      BY <1>2, <3>1
    <3>2. CASE g # f
      <4>1. pc[g] = "verified"
        BY <2>2, <3>2 DEF Goto, IInv, TypeOK
      <4>2. dest[g] = target[conn[g]] /\ dest[g] # None /\ conn[g] \in Connections
        BY <4>1 DEF IInv, OneTarget, TypeOK
      <4> QED BY <1>2, <4>2
    <3> QED BY <3>1, <3>2
  <2> QED BY <2>1, <2>2 DEF OneTarget, request
<1>5. BoundWasLeased'
  <2> SUFFICES ASSUME NEW c \in Connections, NEW b \in bindings'[c], b[1] \in Names
               PROVE  b \in told
    BY DEF BoundWasLeased
  <2>1. CASE b \in bindings[c]
    BY <2>1 DEF IInv, BoundWasLeased
  <2>2. CASE b \notin bindings[c]
    BY <1>2, <2>2 DEF Binding
  <2> QED BY <2>1, <2>2
<1>6. WokenWasLeased' /\ OnlyNamesWait' /\ DegradedIsPublic' /\ PinnedIsPublic'
  BY DEF IInv, TypeOK, WokenWasLeased, OnlyNamesWait, DegradedIsPublic, PinnedIsPublic, Goto,
         request
<1>7. VerifiedWasLeased'
  BY DEF IInv, TypeOK, VerifiedWasLeased, Goto, request
<1> QED BY <1>1, <1>4, <1>5, <1>6, <1>7 DEF IInv

-----------------------------------------------------------------------------
\* Every step of a flow keeps the invariant.
LEMMA FlowKeeps == ASSUME IInv, NEW f \in Flows, FlowStep(f) PROVE IInv'
<1> USE DestinationAssumption
<1>0. todo \in [Flows -> Seq(Addresses)] /\ dest[f] \in Addresses /\ host[f] \in Hosts
  BY DEF IInv, TypeOK
<1>1. CASE Verify(f)
  <2>1. CASE Refuse(f) /\ UNCHANGED <<dest, attempt>>
    BY <1>0, <1>1, <2>1, VerdictKeeps DEF Verify, Refuse, request, registry
  <2>2. CASE Binding(f) \in bindings[conn[f]] /\ Goto(f, "verified")
             /\ UNCHANGED <<registry, dest, attempt>>
    BY <1>0, <1>1, <2>2, VerdictKeeps DEF Verify, request
  <2>3. CASE ~OtherTarget(f) /\ host[f] \in Fixed /\ Goto(f, "verified") /\ Remember(f)
             /\ UNCHANGED <<dest, attempt>>
    BY <1>1, <2>3, RememberKeeps DEF Verify, request
  <2>4. CASE host[f] \notin Fixed /\ AwaitLease(f, dest[f]) /\ UNCHANGED registry
    BY <1>0, <1>1, <2>4, AwaitKeeps DEF Verify, Hosts
  <2> QED BY <1>1, <2>1, <2>2, <2>3, <2>4 DEF Verify
<1>2. CASE AfterLease(f)
  <2>1. CASE Refuse(f)
    BY <1>0, <1>2, <2>1, VerdictKeeps DEF AfterLease, Refuse, request, registry
  <2>2. CASE ~OtherTarget(f) /\ Binding(f) \in bindings[conn[f]] /\ ~Refuse(f)
    BY <1>0, <1>2, <2>2, VerdictKeeps DEF AfterLease, request
  <2>3. CASE ~OtherTarget(f) /\ Binding(f) \notin bindings[conn[f]] /\ ~Refuse(f)
    <3>1. <<host[f], dest[f]>> \in told
      BY <1>2, <2>3 DEF AfterLease, IInv, WokenWasLeased
    <3> QED BY <1>2, <2>3, <3>1, RememberKeeps DEF AfterLease, request
  <2> QED BY <1>2, <2>1, <2>2, <2>3 DEF AfterLease
<1>3. CASE ResolveName(f)
  <2>1. ASSUME NEW n \in 1..MaxAnswer, NEW as \in [1..n -> Addresses], Goto(f, "candidates"),
               todo' = [todo EXCEPT ![f] = as]
        PROVE  IInv'
    <3>1. todo' \in [Flows -> Seq(Addresses)]
      <4>1. as \in Seq(Addresses)
        BY SeqDef, n \in Nat, Zenon
      <4> QED BY <1>0, <2>1, <4>1
    <3> QED BY <1>3, <2>1, <3>1, VerdictKeeps DEF ResolveName, request
  <2>2. ASSUME NEW place \in {"killed", "refused"}, Goto(f, place), UNCHANGED todo PROVE IInv'
    BY <1>0, <1>3, <2>2, VerdictKeeps DEF ResolveName, request
  <2> QED BY <1>3, <2>1, <2>2 DEF ResolveName
<1>4. CASE TryCandidate(f)
  <2>1. CASE todo[f] = <<>>
    BY <1>0, <1>4, <2>1, VerdictKeeps DEF TryCandidate, request
  <2>2. CASE todo[f] # <<>>
    <3>1. Head(todo[f]) \in Addresses /\ Tail(todo[f]) \in Seq(Addresses)
      BY <1>0, <2>2
    <3>2. todo' \in [Flows -> Seq(Addresses)]
      BY <1>0, <1>4, <2>2, <3>1 DEF TryCandidate
    <3>3. CASE Head(todo[f]) \in Public
      BY <1>4, <2>2, <3>1, <3>2, <3>3, AwaitKeeps DEF TryCandidate, IInv, OnlyNamesWait
    <3>4. CASE Head(todo[f]) \notin Public
      BY <1>4, <2>2, <3>2, <3>4 DEF TryCandidate, IInv, TypeOK, OneTarget, BoundWasLeased,
         WokenWasLeased, OnlyNamesWait, DegradedIsPublic, VerifiedWasLeased, PinnedIsPublic,
         registry
    <3> QED BY <3>3, <3>4
  <2> QED BY <2>1, <2>2
<1>5. CASE AfterCandidate(f)
  <2>1. CASE found[f] = "lease"
    <3>1. dest[f] \in Public /\ <<host[f], dest[f]>> \in told
      BY <1>5, <2>1 DEF AfterCandidate, IInv, WokenWasLeased, DegradedIsPublic
    <3>2. Goto(f, "verified") /\ pinned' = [pinned EXCEPT ![f] = dest[f]]
      BY <1>5, <2>1 DEF AfterCandidate
    <3> QED BY <1>0, <1>5, <3>1, <3>2, VerdictKeeps DEF AfterCandidate
  <2>2. CASE found[f] # "lease"
    <3>1. pinned' = pinned
      BY <1>5, <2>2 DEF AfterCandidate, IInv, TypeOK
    <3>2. \E place \in {"refused", "candidates"} : Goto(f, place)
      BY <1>5, <2>2 DEF AfterCandidate, IInv, TypeOK, Results
    <3> QED BY <1>0, <1>5, <3>1, <3>2, VerdictKeeps DEF AfterCandidate
  <2> QED BY <2>1, <2>2
<1> QED BY <1>1, <1>2, <1>3, <1>4, <1>5 DEF FlowStep

\* A connection that goes takes its bindings and its flows with it.
LEMMA GoneKeeps == ASSUME IInv, NEW c \in Connections, ConnectionGoes(c) PROVE IInv'
<1> USE DestinationAssumption
<1>1. TypeOK'
  BY DEF IInv, TypeOK, ConnectionGoes, request
<1>2. OneTarget'
  BY DEF IInv, TypeOK, OneTarget, ConnectionGoes, request
<1>3. BoundWasLeased' /\ WokenWasLeased' /\ OnlyNamesWait' /\ DegradedIsPublic'
  BY DEF IInv, TypeOK, BoundWasLeased, WokenWasLeased, OnlyNamesWait, DegradedIsPublic,
         ConnectionGoes, request
<1>4. VerifiedWasLeased' /\ PinnedIsPublic'
  BY DEF IInv, TypeOK, VerifiedWasLeased, PinnedIsPublic, ConnectionGoes, request
<1> QED BY <1>1, <1>2, <1>3, <1>4 DEF IInv

\* The invariant holds at the start and every step keeps it.
LEMMA Inductive == /\ Init => IInv
                   /\ IInv /\ [Next]_vars => IInv'
<1> USE DestinationAssumption
<1>1. Init => IInv
  <2> SUFFICES ASSUME Init PROVE IInv
    OBVIOUS
  <2>1. TypeOK
    BY DEF Init, TypeOK, Hosts, Results
  <2> QED BY <2>1 DEF Init, IInv, OneTarget, BoundWasLeased, WokenWasLeased, OnlyNamesWait,
             DegradedIsPublic, VerifiedWasLeased, PinnedIsPublic
<1>2. IInv /\ [Next]_vars => IInv'
  <2> SUFFICES ASSUME IInv, [Next]_vars PROVE IInv'
    OBVIOUS
  <2>1. ASSUME NEW f \in Flows, FlowStep(f) PROVE IInv'
    BY <2>1, FlowKeeps
  <2>2. ASSUME NEW k \in LookupKeys, LookupAnswers(k) PROVE IInv'
    <3>1. <<k[2], k[3]>> \in Names \X Addresses
      BY DEF LookupKeys
    <3> QED BY <2>2, <3>1, LookupKeeps DEF LookupAnswers, Results, IInv, TypeOK
  <2>3. ASSUME NEW k \in LookupKeys, LookupFails(k) PROVE IInv'
    <3>1. CASE attempt[k] < Attempts
      <4>1. attempt' \in [LookupKeys -> 0..Attempts]
        <5>1. attempt[k] + 1 \in 0..Attempts
          BY <3>1 DEF IInv, TypeOK
        <5>2. attempt' = [attempt EXCEPT ![k] = attempt[k] + 1]
          BY <2>3, <3>1 DEF LookupFails
        <5> QED BY <5>1, <5>2 DEF IInv, TypeOK
      <4>2. UNCHANGED <<conn, host, dest, pc, found, todo, pinned, bindings, target, leased, told, degraded>>
        BY <2>3, <3>1 DEF LookupFails, flow, request, registry
      <4> QED BY <4>1, <4>2 DEF IInv, TypeOK, OneTarget, BoundWasLeased, WokenWasLeased,
                 OnlyNamesWait, DegradedIsPublic, VerifiedWasLeased, PinnedIsPublic
    <3>2. CASE ~(attempt[k] < Attempts)
      BY <2>3, <3>2, LookupKeeps DEF LookupFails, Results, IInv, TypeOK
    <3> QED BY <3>1, <3>2
  <2>4. ASSUME NEW c \in Connections, ConnectionGoes(c) PROVE IInv'
    BY <2>4, GoneKeeps
  <2>5. CASE LeasesChange
    BY <2>5 DEF LeasesChange, IInv, TypeOK, OneTarget, BoundWasLeased, WokenWasLeased,
       OnlyNamesWait, DegradedIsPublic, VerifiedWasLeased, PinnedIsPublic, flow, request,
       registry
  <2>6. CASE UNCHANGED vars
    BY <2>6 DEF vars, IInv, TypeOK, OneTarget, BoundWasLeased, WokenWasLeased, OnlyNamesWait,
       DegradedIsPublic, VerifiedWasLeased, PinnedIsPublic, flow, request, registry
  <2> QED BY <2>1, <2>2, <2>3, <2>4, <2>5, <2>6 DEF Next, Lookup
<1> QED BY <1>1, <1>2

\* The invariant is an invariant of the gateway.
THEOREM Invariance == Spec => []IInv
BY Inductive, PTL DEF Spec

\* Every variable keeps its type.
THEOREM TypeCorrect == Spec => []TypeOK
<1>1. IInv => TypeOK
  BY DEF IInv
<1> QED BY <1>1, Invariance, PTL

\* A client connection never gets a second target.
THEOREM SingleTarget == Spec => []OneTarget
<1>1. IInv => OneTarget
  BY DEF IInv
<1> QED BY <1>1, Invariance, PTL

\* A flow for a name goes only where the resolver leased that name.
THEOREM Leased == Spec => []VerifiedWasLeased
<1>1. IInv => VerifiedWasLeased
  BY DEF IInv
<1> QED BY <1>1, Invariance, PTL

\* A pinned address is public and was leased.
THEOREM Pinned == Spec => []PinnedIsPublic
<1>1. IInv => PinnedIsPublic
  BY DEF IInv
<1> QED BY <1>1, Invariance, PTL

-----------------------------------------------------------------------------
(* The audited WebSocket.  Before the handshake the file has at most the   *)
(* authorisation; from then on the file is one record per forwarded        *)
(* message behind the first two, and the counters are those of the         *)
(* messages.                                                               *)

\* A socket is there, or was.
Opened == {"open", "killed", "ended"}

\* Before the handshake there is at most the authorisation.
Before(f) ==
    /\ stage[f] \in {"new", "resolving"} => ~allowed[f] /\ log[f] = <<>>
    /\ stage[f] = "dispatched" /\ allowed[f] => log[f] = <<Event("authorized")>>
    /\ stage[f] \notin Opened => forwarded[f] = <<>> /\ count[f] = 0 /\ bytes[f] = 0

\* After it the file and the counters are about what was forwarded.
Counted(f) ==
    stage[f] \in Opened => /\ verified[f] /\ count[f] = Len(forwarded[f]) /\ count[f] <= MaxMessages
                           /\ bytes[f] <= MaxSession /\ AddsUpTo(forwarded[f], bytes[f])

\* The file begins with the two records and one for every forwarded message.
Trail(f) == stage[f] \in Opened =>
    /\ Len(forwarded[f]) + 2 <= Len(log[f])
    /\ log[f][1] = Event("authorized") /\ log[f][2] = Event("opened")
    /\ \A n \in 1 .. Len(forwarded[f]) :
          /\ log[f][n + 2] = [event |-> "message", sequence |-> n, body |-> forwarded[f][n]]
          /\ forwarded[f][n].size <= MaxMessage

\* What may stand behind those, and what the last record of a socket says.
Ended(f) ==
    /\ stage[f] = "open" => Len(log[f]) = Len(forwarded[f]) + 2
    /\ stage[f] = "killed" => Len(log[f]) <= Len(forwarded[f]) + 3
    /\ stage[f] = "ended" =>
          /\ \A n \in Len(forwarded[f]) + 4 .. Len(log[f]) : log[f][n].event # "message"
          /\ fault \/ log[f][Len(log[f])] = ClosedRecord(f)

\* The inductive invariant.
WebSocketInv == WebSocketTypeOK /\ \A f \in Sockets : Before(f) /\ Counted(f) /\ Trail(f) /\ Ended(f)

\* No bytes.
LEMMA NothingAdded == AddsUpTo(<<>>, 0)
<1> DEFINE sum == [n \in 0 .. 0 |-> 0]
<1>1. sum \in [0 .. Len(<<>>) -> 0 .. MaxSession] /\ sum[0] = 0
  BY LimitsAssumption
<1>2. \A n \in DOMAIN <<>> : sum[n] = sum[n - 1] + <<>>[n].size
  OBVIOUS
<1> HIDE DEF sum
<1> QED BY <1>1, <1>2 DEF AddsUpTo

\* A message more within the limit of the session: its bytes more.
LEMMA OneAdded ==
  ASSUME NEW s \in Seq(Message), NEW m \in Message, NEW total \in Nat,
         AddsUpTo(s, total), total + m.size <= MaxSession
  PROVE  AddsUpTo(Append(s, m), total + m.size)
<1>1. PICK sum \in [0 .. Len(s) -> 0 .. MaxSession] :
         /\ sum[0] = 0 /\ sum[Len(s)] = total
         /\ \A n \in DOMAIN s : sum[n] = sum[n - 1] + s[n].size
  BY DEF AddsUpTo
<1>2. m.size \in Nat /\ MaxSession \in Nat
  BY LimitsAssumption DEF Message
<1>3. /\ Len(Append(s, m)) = Len(s) + 1 /\ DOMAIN Append(s, m) = 1 .. Len(s) + 1
      /\ \A n \in 1 .. Len(s) : Append(s, m)[n] = s[n] 
      /\ Append(s, m)[Len(s) + 1] = m /\ Len(s) \in Nat /\ DOMAIN s = 1 .. Len(s)
  OBVIOUS
<1> DEFINE more == [n \in 0 .. Len(s) + 1 |-> IF n = Len(s) + 1 THEN total + m.size ELSE sum[n]]
<1>4. more \in [0 .. Len(Append(s, m)) -> 0 .. MaxSession]
  BY <1>1, <1>2, <1>3
<1>5. more[0] = 0 /\ more[Len(Append(s, m))] = total + m.size
  BY <1>1, <1>2, <1>3
<1>6. ASSUME NEW n \in DOMAIN Append(s, m)
      PROVE  more[n] = more[n - 1] + Append(s, m)[n].size
  <2>1. CASE n = Len(s) + 1
    <3>1. more[n] = total + m.size /\ n - 1 = Len(s) /\ Append(s, m)[n] = m
      BY <1>3, <2>1
    <3>2. \A k \in Nat : k \in 0 .. k + 1 /\ k # k + 1
      OBVIOUS
    <3>3. more[Len(s)] = sum[Len(s)]
      BY <1>3, <3>2
    <3> QED BY <1>1, <3>1, <3>3
  <2>2. CASE n \in 1 .. Len(s)
    BY <1>1, <1>3, <2>2
  <2> QED BY <1>3, <2>1, <2>2
<1> HIDE DEF more
<1> QED BY <1>4, <1>5, <1>6 DEF AddsUpTo

\* What a step of a flow leaves alone.
Others(f) == \A g \in Sockets \ {f} :
    /\ stage'[g] = stage[g] /\ allowed'[g] = allowed[g] /\ verified'[g] = verified[g]
    /\ count'[g] = count[g] /\ bytes'[g] = bytes[g] /\ log'[g] = log[g] /\ forwarded'[g] = forwarded[g]

\* A step of one flow keeps what is known of the others: a fault stays latched.
LEMMA OthersKept ==
  ASSUME WebSocketInv, NEW f \in Sockets, Others(f), fault => fault',
         WebSocketTypeOK', Before(f)', Counted(f)', Trail(f)', Ended(f)'
  PROVE  WebSocketInv'
<1>1. ASSUME NEW g \in Sockets \ {f} PROVE Before(g)' /\ Counted(g)' /\ Trail(g)' /\ Ended(g)'
  <2>1. Before(g) /\ Counted(g) /\ Trail(g) /\ Ended(g)
    BY DEF WebSocketInv
  <2>2. /\ stage'[g] = stage[g] /\ allowed'[g] = allowed[g] /\ verified'[g] = verified[g]
        /\ count'[g] = count[g] /\ bytes'[g] = bytes[g]
        /\ log'[g] = log[g] /\ forwarded'[g] = forwarded[g]
    BY DEF Others
  <2>3. Before(g)' /\ Counted(g)'
    BY <2>1, <2>2 DEF Before, Counted, Opened
  <2>4. Trail(g)'
    BY <2>1, <2>2 DEF Trail, Opened
  <2>5. Ended(g)'
    BY <2>1, <2>2 DEF Ended, ClosedRecord
  <2> QED BY <2>3, <2>4, <2>5
<1> QED BY <1>1 DEF WebSocketInv

\* The records that are written are records.
LEMMA Records ==
  ASSUME WebSocketTypeOK, NEW f \in Sockets
  PROVE  /\ \A name \in {"authorized", "opened", "blocked"} : Event(name) \in Record
         /\ \A m \in Message : RecordOf(f, m) \in Record
         /\ ClosedRecord(f) \in Record
BY DEF WebSocketTypeOK, Record, Event, RecordOf, ClosedRecord

\* Either outcome of a write keeps the types and is about the one file.
LEMMA WriteTypes ==
  ASSUME WebSocketTypeOK, NEW f \in Sockets, NEW r \in Record,
         Recorded(f, r) \/ NotRecorded(f, r)
  PROVE  /\ log' \in [Sockets -> Seq(Record)] /\ failures' \in 0 .. Faults
         /\ log'[f] \in {log[f], Append(log[f], r)}
         /\ Recorded(f, r) => log'[f] = Append(log[f], r)
         /\ \A g \in Sockets \ {f} : log'[g] = log[g]
<1>1. log \in [Sockets -> Seq(Record)] /\ failures \in 0 .. Faults /\ Faults \in Nat
  BY LimitsAssumption DEF WebSocketTypeOK
<1>2. Append(log[f], r) \in Seq(Record)
  BY <1>1
<1>3. failures' \in 0 .. Faults
  BY <1>1 DEF Recorded, NotRecorded
<1>4. \/ log' = log /\ ~Recorded(f, r)
      \/ log' = [log EXCEPT ![f] = Append(log[f], r)]
  BY <1>1 DEF Recorded, NotRecorded
<1> QED BY <1>1, <1>2, <1>3, <1>4

\* A step to a stage without a socket, with the log such a stage has.
LEMMA NoSocket ==
  ASSUME WebSocketInv, NEW f \in Sockets, NEW w \in {"resolving", "refused", "dispatched", "answered"},
         stage[f] \notin Opened, Goes(f, w), WebSocketTypeOK', fault => fault',
         UNCHANGED <<verified, count, bytes, forwarded>>,
         \A g \in Sockets \ {f} : allowed'[g] = allowed[g] /\ log'[g] = log[g],
         w = "resolving" => ~allowed'[f] /\ log'[f] = <<>>,
         w = "dispatched" /\ allowed'[f] => log'[f] = <<Event("authorized")>>
  PROVE  WebSocketInv'
<1>1. stage'[f] = w /\ (\A g \in Sockets \ {f} : stage'[g] = stage[g]) /\ w \notin Opened /\ w # "new"
  BY DEF WebSocketInv, WebSocketTypeOK, Goes, Opened
<1>2. Others(f)
  BY <1>1 DEF Others
<1>3. Before(f)'
  BY <1>1 DEF WebSocketInv, Before
<1>4. Counted(f)' /\ Trail(f)' /\ Ended(f)'
  BY <1>1 DEF Counted, Trail, Ended, Opened
<1> QED BY <1>2, <1>3, <1>4, OthersKept

\* A request that is received keeps it.
LEMMA RequestKeeps ==
  ASSUME WebSocketInv, NEW f \in Sockets, Request(f)
  PROVE  WebSocketInv'
<1>1. PICK k \in Kinds :
         /\ kind' = [kind EXCEPT ![f] = k]
         /\ Goes(f, IF k = "upgrade" \/ fault THEN "refused" ELSE "resolving")
  BY DEF Request
<1>2. WebSocketTypeOK'
  BY <1>1 DEF WebSocketInv, WebSocketTypeOK, Request, Goes
<1>3. stage[f] = "new" /\ ~allowed[f] /\ log[f] = <<>>
  BY DEF WebSocketInv, Request, Before
<1>4. UNCHANGED <<allowed, verified, count, bytes, log, forwarded, fault>>
  BY DEF Request
<1> QED BY <1>1, <1>2, <1>3, <1>4, NoSocket DEF Opened

\* So do the hooks that write nothing.
LEMMA MoveKeeps ==
  ASSUME WebSocketInv, NEW f \in Sockets,
         RequestBlocked(f) \/ RequestDispatched(f) \/ OrdinaryResponse(f)
  PROVE  WebSocketInv'
<1>1. UNCHANGED <<kind, allowed, verified, count, bytes, log, forwarded, fault, failures>>
  BY DEF RequestBlocked, RequestDispatched, OrdinaryResponse, meta
<1>2. PICK w \in {"refused", "dispatched", "answered"} :
         Goes(f, w) /\ (w = "dispatched" => stage[f] = "resolving")
  BY DEF RequestBlocked, RequestDispatched, OrdinaryResponse
<1>3. stage[f] \in {"resolving", "dispatched"}
  BY DEF RequestBlocked, RequestDispatched, OrdinaryResponse
<1>4. WebSocketTypeOK'
  BY <1>1, <1>2 DEF WebSocketInv, WebSocketTypeOK, Goes
<1>5. stage[f] = "resolving" => ~allowed[f]
  BY DEF WebSocketInv, Before
<1> QED BY <1>1, <1>2, <1>3, <1>4, <1>5, NoSocket DEF Opened

\* The authorisation is the first record of the file.
LEMMA AuthorizeKeeps ==
  ASSUME WebSocketInv, NEW f \in Sockets, Authorize(f)
  PROVE  WebSocketInv'
<1> DEFINE r == Event("authorized")
<1>1. WebSocketTypeOK /\ r \in Record
  BY Records DEF WebSocketInv
<1>2. stage[f] = "resolving" /\ ~allowed[f] /\ log[f] = <<>>
  BY DEF WebSocketInv, Authorize, Before
<1>3. Recorded(f, r) \/ NotRecorded(f, r)
  BY DEF Authorize
<1>4. /\ log' \in [Sockets -> Seq(Record)] /\ failures' \in 0 .. Faults
      /\ Recorded(f, r) => log'[f] = Append(log[f], r)
      /\ \A g \in Sockets \ {f} : log'[g] = log[g]
  BY <1>1, <1>3, WriteTypes
<1>5. UNCHANGED <<kind, verified, count, bytes, forwarded>>
  BY DEF Authorize
<1>6. CASE /\ Recorded(f, r) /\ allowed' = [allowed EXCEPT ![f] = TRUE]
           /\ Goes(f, "dispatched") /\ UNCHANGED fault
  <2>1. WebSocketTypeOK'
    BY <1>1, <1>4, <1>5, <1>6 DEF WebSocketTypeOK, Goes
  <2>2. log'[f] = <<r>>
    BY <1>2, <1>4, <1>6
  <2>3. \A g \in Sockets \ {f} : allowed'[g] = allowed[g]
    BY <1>1, <1>6 DEF WebSocketTypeOK
  <2> QED BY <1>2, <1>4, <1>5, <1>6, <2>1, <2>2, <2>3, NoSocket DEF Opened
<1>7. CASE fault' = TRUE /\ Goes(f, "refused") /\ UNCHANGED allowed
  <2>1. WebSocketTypeOK'
    BY <1>1, <1>4, <1>5, <1>7 DEF WebSocketTypeOK, Goes
  <2> QED BY <1>2, <1>4, <1>5, <1>7, <2>1, NoSocket DEF Opened
<1> QED BY <1>6, <1>7 DEF Authorize

\* A file that is longer begins with the same records.
LEMMA Longer ==
  ASSUME NEW s \in Seq(Record), NEW r \in Record
  PROVE  /\ Len(Append(s, r)) = Len(s) + 1 /\ Append(s, r)[Len(s) + 1] = r
         /\ \A n \in 1 .. Len(s) : Append(s, r)[n] = s[n]
OBVIOUS

\* The handshake is the second.
LEMMA SwitchingProtocolsKeeps ==
  ASSUME WebSocketInv, NEW f \in Sockets, SwitchingProtocols(f)
  PROVE  WebSocketInv'
<1> DEFINE r == Event("opened")
<1>1. WebSocketTypeOK /\ r \in Record
  BY Records DEF WebSocketInv
<1>2. stage[f] = "dispatched" /\ forwarded[f] = <<>> /\ count[f] = 0 /\ bytes[f] = 0
  BY DEF WebSocketInv, SwitchingProtocols, Before, Opened
<1>3. UNCHANGED <<kind, allowed, count, bytes, forwarded>>
  BY DEF SwitchingProtocols
<1>4. CASE Goes(f, "refused") /\ UNCHANGED <<verified, log, fault, failures>>
  <2>1. WebSocketTypeOK'
    BY <1>1, <1>3, <1>4 DEF WebSocketTypeOK, Goes
  <2> QED BY <1>2, <1>3, <1>4, <2>1, NoSocket DEF Opened
<1>5. ASSUME Recorded(f, r) \/ NotRecorded(f, r)
      PROVE  /\ log' \in [Sockets -> Seq(Record)] /\ failures' \in 0 .. Faults
             /\ Recorded(f, r) => log'[f] = Append(log[f], r)
             /\ \A g \in Sockets \ {f} : log'[g] = log[g]
  BY <1>1, <1>5, WriteTypes
<1>6. CASE NotRecorded(f, r) /\ fault' = TRUE /\ Goes(f, "refused") /\ UNCHANGED verified
  <2>1. WebSocketTypeOK'
    BY <1>1, <1>3, <1>5, <1>6 DEF WebSocketTypeOK, Goes
  <2> QED BY <1>2, <1>3, <1>5, <1>6, <2>1, NoSocket DEF Opened
<1>7. CASE /\ allowed[f] /\ Recorded(f, r) /\ verified' = [verified EXCEPT ![f] = TRUE]
           /\ Goes(f, "open") /\ UNCHANGED fault
  <2>1. WebSocketTypeOK'
    BY <1>1, <1>3, <1>5, <1>7 DEF WebSocketTypeOK, Goes
  <2>2. log[f] = <<Event("authorized")>>
    BY <1>2, <1>7 DEF WebSocketInv, Before
  <2>3. log'[f] = <<Event("authorized"), r>>
    BY <1>5, <1>7, <2>2
  <2>4. stage'[f] = "open" /\ verified'[f]
    BY <1>1, <1>7 DEF WebSocketTypeOK, Goes
  <2>5. Others(f)
    BY <1>1, <1>3, <1>5, <1>7 DEF Others, WebSocketTypeOK, Goes
  <2>6. Before(f)'
    BY <2>4 DEF Before, Opened
  <2>7. Counted(f)'
    BY <1>2, <1>3, <2>4, NothingAdded, LimitsAssumption DEF Counted
  <2>8. Trail(f)' /\ Ended(f)'
    BY <1>2, <1>3, <2>3, <2>4 DEF Trail, Ended
  <2> QED BY <1>7, <2>1, <2>5, <2>6, <2>7, <2>8, OthersKept
<1> QED BY <1>4, <1>6, <1>7 DEF SwitchingProtocols, Accepted

\* A record after the last message, or the failure to write it, leaves what
\* is known of the messages as it was.
LEMMA TrailKept ==
  ASSUME WebSocketInv, NEW f \in Sockets, NEW w \in {"killed", "ended"}, NEW r \in Record,
         stage[f] \in {"open", "killed"}, Goes(f, w), UNCHANGED <<kind, allowed, verified, count, bytes, forwarded>>,
         Recorded(f, r) \/ NotRecorded(f, r), fault' \in BOOLEAN, fault => fault',
         Ended(f)'
  PROVE  WebSocketInv'
<1>1. WebSocketTypeOK
  BY DEF WebSocketInv
<1>2. /\ log' \in [Sockets -> Seq(Record)] /\ failures' \in 0 .. Faults
      /\ log'[f] \in {log[f], Append(log[f], r)}
      /\ \A g \in Sockets \ {f} : log'[g] = log[g]
  BY <1>1, WriteTypes
<1>3. WebSocketTypeOK'
  BY <1>1, <1>2 DEF WebSocketTypeOK, Goes
<1>4. stage'[f] = w /\ Others(f)
  BY <1>1, <1>2 DEF Others, WebSocketTypeOK, Goes
<1>5. Before(f)'
  BY <1>4 DEF Before, Opened
<1>6. Counted(f)'
  BY <1>4 DEF WebSocketInv, Counted, Opened
<1>7. Trail(f)'
  <2>1. /\ Len(forwarded[f]) + 2 <= Len(log[f])
        /\ log[f][1] = Event("authorized") /\ log[f][2] = Event("opened")
        /\ \A n \in 1 .. Len(forwarded[f]) :
              /\ log[f][n + 2] = [event |-> "message", sequence |-> n, body |-> forwarded[f][n]]
              /\ forwarded[f][n].size <= MaxMessage
    BY DEF WebSocketInv, Trail, Opened
  <2>2. log[f] \in Seq(Record) /\ Len(forwarded[f]) \in Nat /\ Len(log[f]) \in Nat
    BY <1>1 DEF WebSocketTypeOK
  <2>3. Len(log'[f]) >= Len(log[f]) /\ \A n \in 1 .. Len(log[f]) : log'[f][n] = log[f][n]
    <3>1. CASE log'[f] = log[f]
      BY <2>2, <3>1
    <3>2. CASE log'[f] = Append(log[f], r)
      BY <2>2, <3>2, Longer
    <3> QED BY <1>2, <3>1, <3>2
  <2>4. /\ 1 \in 1 .. Len(log[f]) /\ 2 \in 1 .. Len(log[f])
        /\ \A n \in 1 .. Len(forwarded[f]) : n + 2 \in 1 .. Len(log[f])
    BY <2>1, <2>2
  <2>5. Len(log'[f]) \in Nat /\ Len(forwarded[f]) + 2 <= Len(log'[f])
    BY <1>2, <2>1, <2>2, <2>3
  <2> QED BY <2>1, <2>3, <2>4, <2>5 DEF Trail
<1> QED BY <1>3, <1>4, <1>5, <1>6, <1>7, OthersKept

\* A message that is not sent adds one record at most.
LEMMA MessageNotSentKeeps ==
  ASSUME WebSocketInv, NEW f \in Sockets, MessageRefused(f) \/ MessageUnrecorded(f)
  PROVE  WebSocketInv'
<1>1. /\ stage[f] = "open" /\ Goes(f, "killed")
      /\ UNCHANGED <<kind, allowed, verified, count, bytes, forwarded>>
  BY DEF MessageRefused, MessageUnrecorded, meta
<1>2. WebSocketTypeOK
  BY DEF WebSocketInv
<1>3. PICK r \in Record : Recorded(f, r) \/ NotRecorded(f, r)
  BY <1>2, Records DEF MessageRefused, MessageUnrecorded
<1>4. fault' \in BOOLEAN /\ (fault => fault')
  BY <1>2 DEF MessageRefused, MessageUnrecorded, WebSocketTypeOK
<1>5. Ended(f)'
  <2>1. log'[f] \in {log[f], Append(log[f], r)} /\ stage'[f] = "killed"
    BY <1>1, <1>2, <1>3, WriteTypes DEF WebSocketTypeOK, Goes
  <2>2. Len(log[f]) = Len(forwarded[f]) + 2 /\ log[f] \in Seq(Record) /\ Len(forwarded[f]) \in Nat
    BY <1>1, <1>2 DEF WebSocketInv, Ended, WebSocketTypeOK
  <2>3. Len(log'[f]) <= Len(forwarded[f]) + 3
    BY <2>1, <2>2
  <2> QED BY <1>1, <2>1, <2>3 DEF Ended
<1> QED BY <1>1, <1>3, <1>4, <1>5, TrailKept

\* The closing record is the last, or the fault is latched.
LEMMA WebSocketEndKeeps ==
  ASSUME WebSocketInv, NEW f \in Sockets, WebSocketEnd(f)
  PROVE  WebSocketInv'
<1> DEFINE r == ClosedRecord(f)
<1>1. /\ stage[f] \in {"open", "killed"} /\ Goes(f, "ended")
      /\ UNCHANGED <<kind, allowed, verified, count, bytes, forwarded>>
  BY DEF WebSocketEnd, meta
<1>2. WebSocketTypeOK /\ r \in Record
  BY Records DEF WebSocketInv
<1>3. \/ Recorded(f, r) /\ UNCHANGED fault
      \/ NotRecorded(f, r) /\ fault' = TRUE
  BY <1>1 DEF WebSocketEnd, WebSocketInv, Counted, Opened
<1>4. fault' \in BOOLEAN /\ (fault => fault')
  BY <1>2, <1>3 DEF WebSocketTypeOK
<1>5. Ended(f)'
  <2>1. /\ log'[f] \in {log[f], Append(log[f], r)} /\ stage'[f] = "ended"
        /\ Recorded(f, r) => log'[f] = Append(log[f], r)
    BY <1>1, <1>2, <1>3, WriteTypes DEF WebSocketTypeOK, Goes
  <2>2. Len(log[f]) <= Len(forwarded[f]) + 3 /\ log[f] \in Seq(Record) /\ Len(forwarded[f]) \in Nat
    BY <1>1, <1>2 DEF WebSocketInv, Ended, WebSocketTypeOK
  <2>3. CASE log'[f] = log[f]
    <3>1. fault'
      <4>1. log[f] # Append(log[f], r)
        BY <1>2, <2>2
      <4> QED BY <1>3, <2>1, <2>3, <4>1
    <3>2. \A n \in Len(forwarded[f]) + 4 .. Len(log[f]) : FALSE
      BY <2>2
    <3> QED BY <1>1, <2>1, <2>3, <3>1, <3>2 DEF Ended
  <2>4. CASE log'[f] = Append(log[f], r)
    <3>1. Len(log'[f]) = Len(log[f]) + 1 /\ log'[f][Len(log[f]) + 1] = r
      BY <1>2, <2>2, <2>4, Longer
    <3>2. \A n \in Len(forwarded[f]) + 4 .. Len(log'[f]) : n = Len(log[f]) + 1
      BY <2>2, <3>1
    <3>3. r.event # "message" /\ ClosedRecord(f)' = r
      BY <1>1 DEF ClosedRecord
    <3> QED BY <1>1, <2>1, <3>1, <3>2, <3>3 DEF Ended
  <2> QED BY <2>1, <2>3, <2>4
<1> QED BY <1>1, <1>2, <1>3, <1>4, <1>5, TrailKept

\* A message that is sent on has its record, and is counted.
LEMMA MessageForwardedKeeps ==
  ASSUME WebSocketInv, NEW f \in Sockets, MessageForwarded(f)
  PROVE  WebSocketInv'
<1>1. PICK m \in Message :
         /\ ~Refused(f, m) /\ Recorded(f, RecordOf(f, m))
         /\ count' = [count EXCEPT ![f] = @ + 1]
         /\ bytes' = [bytes EXCEPT ![f] = @ + m.size]
         /\ forwarded' = [forwarded EXCEPT ![f] = Append(@, m)]
  BY DEF MessageForwarded
<1> DEFINE r == RecordOf(f, m)
           s == forwarded[f]
<1>2. stage[f] = "open" /\ UNCHANGED <<stage, kind, allowed, verified, fault>>
  BY DEF MessageForwarded
<1>3. WebSocketTypeOK /\ r \in Record
  BY Records DEF WebSocketInv
<1>4. /\ log' \in [Sockets -> Seq(Record)] /\ failures' \in 0 .. Faults
      /\ log'[f] = Append(log[f], r)
      /\ \A g \in Sockets \ {f} : log'[g] = log[g]
  BY <1>1, <1>3, WriteTypes
<1>5. m.size \in Nat /\ s \in Seq(Message) /\ Len(s) \in Nat /\ bytes[f] \in Nat /\ count[f] \in Nat
  <2>1. m.size \in Nat
    BY LimitsAssumption DEF Message
  <2> QED BY <1>3, <2>1 DEF WebSocketTypeOK
<1>6. WebSocketTypeOK'
  <2>1. Append(s, m) \in Seq(Message) /\ count[f] + 1 \in Nat /\ bytes[f] + m.size \in Nat
    BY <1>5
  <2>2. count' \in [Sockets -> Nat] /\ bytes' \in [Sockets -> Nat] /\ forwarded' \in [Sockets -> Seq(Message)]
    BY <1>1, <1>3, <2>1 DEF WebSocketTypeOK
  <2> QED BY <1>2, <1>3, <1>4, <2>2 DEF WebSocketTypeOK
<1>7. /\ forwarded'[f] = Append(s, m) /\ count'[f] = count[f] + 1 /\ bytes'[f] = bytes[f] + m.size
      /\ Others(f)
  BY <1>1, <1>2, <1>3, <1>4 DEF WebSocketTypeOK, Others
<1>8. /\ verified[f] /\ count[f] = Len(s) /\ AddsUpTo(s, bytes[f])
      /\ Len(log[f]) = Len(s) + 2
  BY <1>2 DEF WebSocketInv, Counted, Ended, Opened
<1>9. m.size <= MaxMessage /\ bytes[f] + m.size <= MaxSession /\ count[f] + 1 <= MaxMessages
  BY <1>1, <1>5, LimitsAssumption DEF Refused
<1>10. Len(Append(s, m)) = Len(s) + 1 /\ Append(s, m)[Len(s) + 1] = m
       /\ \A n \in 1 .. Len(s) : Append(s, m)[n] = s[n]
  BY <1>5
<1>11. Before(f)'
  BY <1>2 DEF Before, Opened
<1>12. Counted(f)'
  <2>1. AddsUpTo(Append(s, m), bytes[f] + m.size)
    BY <1>5, <1>8, <1>9, OneAdded
  <2> QED BY <1>2, <1>7, <1>8, <1>9, <1>10, <2>1 DEF Counted
<1>13. log[f] \in Seq(Record) /\ Len(log'[f]) = Len(log[f]) + 1 /\ log'[f][Len(log[f]) + 1] = r
       /\ \A n \in 1 .. Len(log[f]) : log'[f][n] = log[f][n]
  BY <1>3, <1>4, Longer DEF WebSocketTypeOK
<1>14. Ended(f)'
  BY <1>2, <1>5, <1>7, <1>8, <1>10, <1>13 DEF Ended
<1>15. Trail(f)'
  <2>1. /\ log[f][1] = Event("authorized") /\ log[f][2] = Event("opened")
        /\ \A n \in 1 .. Len(s) :
              /\ log[f][n + 2] = [event |-> "message", sequence |-> n, body |-> s[n]]
              /\ s[n].size <= MaxMessage
    BY <1>2 DEF WebSocketInv, Trail, Opened
  <2>2. /\ 1 \in 1 .. Len(log[f]) /\ 2 \in 1 .. Len(log[f])
        /\ \A n \in 1 .. Len(s) : n + 2 \in 1 .. Len(log[f])
        /\ Len(Append(s, m)) + 2 <= Len(log'[f])
    BY <1>5, <1>8, <1>10, <1>13
  <2>3. log'[f][1] = Event("authorized") /\ log'[f][2] = Event("opened")
    BY <1>13, <2>1, <2>2
  <2>4. ASSUME NEW n \in 1 .. Len(Append(s, m))
        PROVE  /\ log'[f][n + 2] = [event |-> "message", sequence |-> n, body |-> Append(s, m)[n]]
               /\ Append(s, m)[n].size <= MaxMessage
    <3>1. CASE n \in 1 .. Len(s)
      BY <1>10, <1>13, <2>1, <2>2, <3>1
    <3>2. CASE n = Len(s) + 1
      <4>1. n + 2 = Len(log[f]) + 1 /\ n = count[f] + 1
        BY <1>5, <1>8, <3>2
      <4>2. r = [event |-> "message", sequence |-> n, body |-> m]
        BY <4>1 DEF RecordOf
      <4> QED BY <1>9, <1>10, <1>13, <3>2, <4>1, <4>2
    <3> QED BY <1>5, <1>10, <3>1, <3>2
  <2> QED BY <1>7, <2>2, <2>3, <2>4 DEF Trail
<1> QED BY <1>2, <1>6, <1>7, <1>11, <1>12, <1>14, <1>15, OthersKept

\* Every step keeps it.
LEMMA WebSocketStep ==
  ASSUME WebSocketInv, [WebSocketNext]_socketVars
  PROVE  WebSocketInv'
<1>1. CASE UNCHANGED socketVars
  <2>1. UNCHANGED <<stage, kind, allowed, verified, count, bytes, log, forwarded, fault, failures>>
    BY <1>1 DEF socketVars, meta
  <2>2. WebSocketTypeOK'
    BY <2>1 DEF WebSocketInv, WebSocketTypeOK
  <2>3. ASSUME NEW f \in Sockets PROVE Before(f)' /\ Counted(f)' /\ Trail(f)' /\ Ended(f)'
    BY <2>1 DEF WebSocketInv, Before, Counted, Trail, Ended, ClosedRecord
  <2> QED BY <2>2, <2>3 DEF WebSocketInv
<1>2. CASE WebSocketNext
  <2>1. PICK f \in Sockets :
           \/ Request(f) \/ RequestBlocked(f) \/ RequestDispatched(f)
           \/ Authorize(f) \/ OrdinaryResponse(f) \/ SwitchingProtocols(f)
           \/ MessageRefused(f) \/ MessageForwarded(f) \/ MessageUnrecorded(f)
           \/ WebSocketEnd(f)
    BY <1>2 DEF WebSocketNext
  <2> QED BY <2>1, RequestKeeps, MoveKeeps, AuthorizeKeeps, SwitchingProtocolsKeeps,
             MessageNotSentKeeps, MessageForwardedKeeps, WebSocketEndKeeps
<1> QED BY <1>1, <1>2

\* In every reachable state.
LEMMA WebSocketInvHolds == WebSocketSpec => []WebSocketInv
<1>1. WebSocketInit => WebSocketInv
  <2> SUFFICES ASSUME WebSocketInit PROVE WebSocketInv
    OBVIOUS
  <2>1. WebSocketTypeOK
    <3>1. <<>> \in Seq(Record) /\ <<>> \in Seq(Message) /\ 0 \in 0 .. Faults /\ "plain" \in Kinds
      BY LimitsAssumption DEF Kinds
    <3> QED BY <3>1 DEF WebSocketInit, WebSocketTypeOK
  <2> QED BY <2>1 DEF WebSocketInit, WebSocketInv, Before, Counted, Trail, Ended, Opened
<1>2. WebSocketInv /\ [WebSocketNext]_socketVars => WebSocketInv'
  BY WebSocketStep
<1> QED BY <1>1, <1>2, PTL DEF WebSocketSpec

\* The variables of the audited WebSocket keep their types.
THEOREM WebSocketTypes == WebSocketSpec => []WebSocketTypeOK
<1>1. WebSocketInv => WebSocketTypeOK
  BY DEF WebSocketInv
<1> QED BY <1>1, WebSocketInvHolds, PTL

\* Whatever reached the other side of a socket is within the limits and was
\* recorded first, in order (websocket_message, _codex_ws_audit).
THEOREM TrailCovers == WebSocketSpec => []TrailCoversForwarded
<1>1. WebSocketInv => TrailCoversForwarded
  <2> SUFFICES ASSUME WebSocketInv, NEW f \in Sockets, forwarded[f] # <<>>
               PROVE  /\ Len(forwarded[f]) <= MaxMessages
                      /\ \E total \in 0 .. MaxSession : AddsUpTo(forwarded[f], total)
                      /\ Len(forwarded[f]) + 2 <= Len(log[f])
                      /\ log[f][1] = Event("authorized") /\ log[f][2] = Event("opened")
                      /\ \A n \in DOMAIN forwarded[f] :
                            /\ log[f][n + 2] = [event |-> "message", sequence |-> n, body |-> forwarded[f][n]]
                            /\ forwarded[f][n].size <= MaxMessage
                      /\ \A n \in Len(forwarded[f]) + 4 .. Len(log[f]) : log[f][n].event # "message"
    BY DEF TrailCoversForwarded
  <2>1. stage[f] \in Opened
    BY DEF WebSocketInv, Before
  <2>2. /\ forwarded[f] \in Seq(Message) /\ Len(forwarded[f]) \in Nat /\ Len(log[f]) \in Nat
        /\ bytes[f] \in Nat /\ DOMAIN forwarded[f] = 1 .. Len(forwarded[f])
    BY DEF WebSocketInv, WebSocketTypeOK
  <2>3. Len(forwarded[f]) <= MaxMessages /\ AddsUpTo(forwarded[f], bytes[f]) /\ bytes[f] \in 0 .. MaxSession
    BY <2>1, <2>2, LimitsAssumption DEF WebSocketInv, Counted
  <2>4. /\ Len(forwarded[f]) + 2 <= Len(log[f])
        /\ log[f][1] = Event("authorized") /\ log[f][2] = Event("opened")
        /\ \A n \in DOMAIN forwarded[f] :
              /\ log[f][n + 2] = [event |-> "message", sequence |-> n, body |-> forwarded[f][n]]
              /\ forwarded[f][n].size <= MaxMessage
    BY <2>1, <2>2 DEF WebSocketInv, Trail
  <2>5. \A n \in Len(forwarded[f]) + 4 .. Len(log[f]) : log[f][n].event # "message"
    <3>1. CASE stage[f] = "ended"
      BY <3>1 DEF WebSocketInv, Ended
    <3>2. CASE stage[f] \in {"open", "killed"}
      <4>1. Len(log[f]) <= Len(forwarded[f]) + 3
        BY <2>2, <3>2 DEF WebSocketInv, Ended
      <4> QED BY <2>2, <4>1
    <3> QED BY <2>1, <3>1, <3>2 DEF Opened
  <2> QED BY <2>3, <2>4, <2>5
<1> QED BY <1>1, WebSocketInvHolds, PTL

\* A socket that has ended has a closing record that adds up, or the fault is
\* latched (websocket_end).
THEOREM TrailEnds == WebSocketSpec => []TrailEndsOrLatched
<1>1. WebSocketInv => TrailEndsOrLatched
  <2> SUFFICES ASSUME WebSocketInv, NEW f \in Sockets, stage[f] = "ended", ~fault
               PROVE  /\ log[f] # <<>> /\ log[f][Len(log[f])].event = "closed"
                      /\ log[f][Len(log[f])].messages = Len(forwarded[f])
                      /\ AddsUpTo(forwarded[f], log[f][Len(log[f])].bytes)
    BY DEF TrailEndsOrLatched
  <2>1. log[f][Len(log[f])] = [event |-> "closed", messages |-> count[f], bytes |-> bytes[f]]
    BY DEF WebSocketInv, Ended, ClosedRecord
  <2>2. count[f] = Len(forwarded[f]) /\ AddsUpTo(forwarded[f], bytes[f])
    BY DEF WebSocketInv, Counted, Opened
  <2>3. log[f] # <<>>
    <3>1. Len(forwarded[f]) + 2 <= Len(log[f]) /\ Len(forwarded[f]) \in Nat
      BY DEF WebSocketInv, Trail, Opened, WebSocketTypeOK
    <3> QED BY <3>1
  <2> QED BY <2>1, <2>2, <2>3
<1> QED BY <1>1, WebSocketInvHolds, PTL
=============================================================================
