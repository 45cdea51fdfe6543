------------------------- MODULE GatewayDestination -------------------------
(***************************************************************************)
(* How the gateway addon ties a flow to an address (cdm_addon.py,          *)
(* gateway_bindings.py).  Transparent mode: the flow's original            *)
(* destination must be the one target of its client connection and, for a  *)
(* name, be leased by the resolver when the connection first uses it.      *)
(* Degraded mode: the gateway resolves the name itself and pins the first  *)
(* public address that is leased.                                          *)
(*                                                                         *)
(* The addon runs in one event loop.  A lease lookup is a thread, shared   *)
(* by the flows of a connection that ask for the same name and address;    *)
(* while a flow awaits it, every other flow may run.                       *)
(***************************************************************************)
EXTENDS Naturals, Sequences

CONSTANTS
    Flows, Connections,
    Names,          \* hostnames: a lease is needed
    Fixed,          \* canary.test and literal addresses: no lease, one address
    FixedAddress,   \* that address
    Addresses, Public,
    Attempts,       \* of a lookup: 3
    MaxAnswer,      \* bound on the addresses of a getaddrinfo answer
    None

ASSUME DestinationAssumption ==
    /\ Names \cap Fixed = {}
    /\ FixedAddress \in [Fixed -> Addresses]
    /\ Public \subseteq Addresses
    /\ Attempts \in Nat \ {0} /\ MaxAnswer \in Nat
    /\ None \notin Addresses

Hosts == Names \cup Fixed
LookupKeys == Connections \X Names \X Addresses

VARIABLES
    degraded,    \* the gateway's mode, from its environment
    \* the request of each flow: chosen when it arrives
    conn, host, dest,
    pc,
    found,       \* what the lookup it awaited returned
    todo,        \* degraded: addresses still to try
    pinned,      \* degraded: cdm_pinned_destination
    \* ConnectionBindingRegistry: hosts and targets bound to a connection, and the
    \* target of the first binding
    bindings, target,
    \* pending_lease_lookups: attempts made by each running lookup; 0: none
    attempt,
    \* the resolver's registry, and every lease it ever told the gateway of
    leased, told

request == <<conn, host, dest>>
flow == <<request, pc, found, todo, pinned>>
registry == <<bindings, target>>
vars == <<degraded, flow, registry, attempt, leased, told>>

Bindings == Hosts \X Addresses
Binding(f) == <<host[f], dest[f]>>

\* What a lookup may return.
Results == {"lease", "none", "unavailable"}

Init ==
    /\ degraded \in BOOLEAN
    /\ conn \in [Flows -> Connections]
    /\ host \in [Flows -> IF degraded THEN Names ELSE Hosts]
    /\ dest \in [Flows -> Addresses]
    /\ pc = [f \in Flows |-> "idle"]
    /\ found = [f \in Flows |-> "none"]
    /\ todo = [f \in Flows |-> <<>>]
    /\ pinned = [f \in Flows |-> None]
    /\ bindings = [c \in Connections |-> {}]
    /\ target = [c \in Connections |-> None]
    /\ attempt = [k \in LookupKeys |-> 0]
    /\ leased = {}
    /\ told = {}

Goto(f, place) == pc' = [pc EXCEPT ![f] = place]

-----------------------------------------------------------------------------
(* _shared_dns_lease, _dns_lease *)

\* Mutant: flows to different addresses of a name share a lookup.
Awaited_ByName(f, k) == pc[f] = "waiting" /\ k[1] = conn[f] /\ k[2] = host[f]

\* The lookup the flow awaits.
Awaited(f, k) == pc[f] = "waiting" /\ k = <<conn[f], host[f], dest[f]>>

\* Join the running lookup of this key or start one.
AwaitLease(f, a) ==
    /\ Goto(f, "waiting")
    /\ dest' = [dest EXCEPT ![f] = a]
    /\ attempt' = [attempt EXCEPT ![<<conn[f], host[f], a>>] = IF @ = 0 THEN 1 ELSE @]

\* Mutant: an exception of the lookup does not reach its waiters.
LookupDone_LoseWaiters(k, result) ==
    /\ attempt' = [attempt EXCEPT ![k] = 0]
    /\ pc' = [f \in Flows |->
                IF Awaited(f, k) /\ result # "unavailable" THEN "woken" ELSE pc[f]]
    /\ found' = [f \in Flows |-> IF Awaited(f, k) THEN result ELSE found[f]]
    /\ UNCHANGED <<request, todo, pinned, registry, leased>>

\* The lookup ends: it is forgotten and its waiters are woken with its result.
LookupDone(k, result) ==
    /\ attempt' = [attempt EXCEPT ![k] = 0]
    /\ pc' = [f \in Flows |-> IF Awaited(f, k) THEN "woken" ELSE pc[f]]
    /\ found' = [f \in Flows |-> IF Awaited(f, k) THEN result ELSE found[f]]
    /\ UNCHANGED <<request, todo, pinned, registry, leased>>

LookupAnswers(k) ==
    /\ attempt[k] > 0
    /\ LookupDone(k, IF <<k[2], k[3]>> \in leased THEN "lease" ELSE "none")
    /\ told' = IF <<k[2], k[3]>> \in leased THEN told \cup {<<k[2], k[3]>>} ELSE told
    /\ UNCHANGED degraded

\* No answer, or one that is malformed: tried again, then given up.
LookupFails(k) ==
    /\ attempt[k] > 0
    /\ IF attempt[k] < Attempts
       THEN attempt' = [attempt EXCEPT ![k] = @ + 1] /\ UNCHANGED <<flow, registry, leased>>
       ELSE LookupDone(k, "unavailable")
    /\ UNCHANGED <<told, degraded>>

-----------------------------------------------------------------------------
(* _verify_original_destination *)

OtherTarget(f) == target[conn[f]] \notin {None, dest[f]}

Remember(f) ==
    /\ bindings' = [bindings EXCEPT ![conn[f]] = @ \cup {Binding(f)}]
    /\ target' = [target EXCEPT ![conn[f]] = IF @ = None THEN dest[f] ELSE @]

\* The literal or canary address of the request, and the destination's class.
AddressMismatch(f) ==
    IF host[f] \in Fixed THEN dest[f] # FixedAddress[host[f]] ELSE dest[f] \notin Public

Refuse(f) == Goto(f, "refused") /\ UNCHANGED registry

\* Up to the first await, or to the verdict if there is none.  A destination that
\* is no address, the wrong port or an SNI that is not the host is refused, too.
Verify(f) ==
    /\ ~degraded /\ pc[f] = "idle"
    /\ \/ Refuse(f) /\ UNCHANGED <<dest, attempt>>
       \/ /\ ~OtherTarget(f) /\ ~AddressMismatch(f)
          /\ IF Binding(f) \in bindings[conn[f]]
             THEN Goto(f, "verified") /\ UNCHANGED <<registry, dest, attempt>>
             ELSE IF host[f] \in Fixed
             THEN Goto(f, "verified") /\ Remember(f) /\ UNCHANGED <<dest, attempt>>
             ELSE AwaitLease(f, dest[f]) /\ UNCHANGED registry
    /\ UNCHANGED <<conn, host, found, todo, pinned, leased, told, degraded>>

\* Mutant: what was checked before the await is taken to hold after it.
AfterLease_NoRecheck(f) ==
    /\ ~degraded /\ pc[f] = "woken"
    /\ IF found[f] = "lease" THEN Goto(f, "verified") /\ Remember(f) ELSE Refuse(f)
    /\ UNCHANGED <<request, found, todo, pinned, attempt, leased, told, degraded>>

\* After the await the target is compared again: another flow may have bound the
\* connection.  A binding it made for this request serves without a lease.
AfterLease(f) ==
    /\ ~degraded /\ pc[f] = "woken"
    /\ IF found[f] = "unavailable" \/ OtherTarget(f) THEN Refuse(f)
       ELSE IF Binding(f) \in bindings[conn[f]]
       THEN Goto(f, "verified") /\ UNCHANGED registry
       ELSE IF found[f] = "lease" THEN Goto(f, "verified") /\ Remember(f) ELSE Refuse(f)
    /\ UNCHANGED <<request, found, todo, pinned, attempt, leased, told, degraded>>

-----------------------------------------------------------------------------
(* _verify_degraded_destination, _resolve_degraded_destination *)

\* getaddrinfo through the controlled resolver: addresses, an error or a timeout
\* (the flow is killed), or the request is malformed.
ResolveName(f) ==
    /\ degraded /\ pc[f] = "idle"
    /\ \/ \E n \in 1..MaxAnswer : \E as \in [1..n -> Addresses] :
             Goto(f, "candidates") /\ todo' = [todo EXCEPT ![f] = as]
       \/ \E place \in {"killed", "refused"} : Goto(f, place) /\ UNCHANGED todo
    /\ UNCHANGED <<request, found, pinned, registry, attempt, leased, told, degraded>>

TryCandidate(f) ==
    /\ degraded /\ pc[f] = "candidates"
    /\ IF todo[f] = <<>> THEN Goto(f, "refused") /\ UNCHANGED <<dest, attempt, todo>>
       ELSE /\ todo' = [todo EXCEPT ![f] = Tail(@)]
            /\ IF Head(todo[f]) \in Public THEN AwaitLease(f, Head(todo[f]))
               ELSE UNCHANGED <<pc, dest, attempt>>
    /\ UNCHANGED <<conn, host, found, pinned, registry, leased, told, degraded>>

AfterCandidate(f) ==
    /\ degraded /\ pc[f] = "woken"
    /\ Goto(f, [lease |-> "verified", none |-> "candidates", unavailable |-> "refused"][found[f]])
    /\ pinned' = [pinned EXCEPT ![f] = IF found[f] = "lease" THEN dest[f] ELSE @]
    /\ UNCHANGED <<request, found, todo, registry, attempt, leased, told, degraded>>

-----------------------------------------------------------------------------
\* The resolver grants a lease or lets one expire (module DnsLease).
LeasesChange ==
    /\ \E n \in Names, a \in Addresses :
          leased' \in {leased \cup {<<n, a>>}, leased \ {<<n, a>>}}
    /\ UNCHANGED <<flow, registry, attempt, told, degraded>>

\* The client connection is closed and its object collected with its flows: the
\* weak registry forgets it.  Flows that were not there yet may use a new one.
ConnectionGoes(c) ==
    /\ \A f \in Flows : conn[f] = c => pc[f] \notin {"waiting", "woken", "candidates"}
    /\ pc' = [f \in Flows |-> IF conn[f] = c /\ pc[f] # "idle" THEN "gone" ELSE pc[f]]
    /\ bindings' = [bindings EXCEPT ![c] = {}]
    /\ target' = [target EXCEPT ![c] = None]
    /\ UNCHANGED <<request, found, todo, pinned, attempt, leased, told, degraded>>

FlowStep(f) ==
    Verify(f) \/ AfterLease(f) \/ ResolveName(f) \/ TryCandidate(f) \/ AfterCandidate(f)
Lookup(k) == LookupAnswers(k) \/ LookupFails(k)

Next ==
    \/ \E f \in Flows : FlowStep(f)
    \/ \E k \in LookupKeys : Lookup(k)
    \/ \E c \in Connections : ConnectionGoes(c)
    \/ LeasesChange

Spec == Init /\ [][Next]_vars

\* The socket of a lookup has a timeout, and asyncio runs what is ready.
FairSpec ==
    /\ Spec
    /\ \A f \in Flows : WF_vars(AfterLease(f) \/ TryCandidate(f) \/ AfterCandidate(f))
    /\ \A k \in LookupKeys : WF_vars(Lookup(k))

-----------------------------------------------------------------------------
TypeOK ==
    /\ degraded \in BOOLEAN
    /\ conn \in [Flows -> Connections] /\ host \in [Flows -> Hosts]
    /\ dest \in [Flows -> Addresses]
    /\ pc \in [Flows -> {"idle", "waiting", "woken", "candidates", "verified", "refused",
                         "killed", "gone"}]
    /\ found \in [Flows -> Results]
    /\ todo \in [Flows -> Seq(Addresses)]
    /\ pinned \in [Flows -> Addresses \cup {None}]
    /\ bindings \in [Connections -> SUBSET Bindings]
    /\ target \in [Connections -> Addresses \cup {None}]
    /\ attempt \in [LookupKeys -> 0..Attempts]
    /\ leased \subseteq Names \X Addresses /\ told \subseteq Names \X Addresses

\* A client connection has one target: flows that found the connection unbound
\* and awaited their leases together cannot bind it to two addresses, and a flow
\* that was let through goes there.
OneTarget ==
    /\ \A c \in Connections : \A b \in bindings[c] : b[2] = target[c]
    /\ ~degraded => \A f \in Flows : pc[f] = "verified" => dest[f] = target[conn[f]]

\* A flow for a name is let through only to an address for which the resolver
\* confirmed a lease for that very name, although lookups are shared.
VerifiedWasLeased == \A f \in Flows :
    pc[f] = "verified" /\ host[f] \in Names => <<host[f], dest[f]>> \in told

\* In degraded mode the address that is dialled instead of the name is public
\* and was leased for the name.
PinnedIsPublic == \A f \in Flows :
    pinned[f] # None => pinned[f] \in Public /\ <<host[f], pinned[f]>> \in told

\* A flow that awaits a lookup gets a verdict: no waiter is left behind when the
\* shared lookup is forgotten.
WaiterDecided == \A f \in Flows :
    (pc[f] = "waiting") ~> (pc[f] \in {"verified", "refused", "gone"})
=============================================================================
