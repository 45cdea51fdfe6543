------------------------------ MODULE DnsLease ------------------------------
(***************************************************************************)
(* The controlled resolver (dns_gateway.py): DnsGateway.resolve, its cache *)
(* of validated answers and the LeaseRegistry the policy gateway asks      *)
(* before it connects a flow to an address.  A query is a worker thread;   *)
(* threads for the same name and type are serialised by a lock, threads    *)
(* for different types of one name are not, yet share the name's leases.   *)
(***************************************************************************)
EXTENDS Naturals, FiniteSets

CONSTANTS
    Queries,     \* the queries of a run, each with its own lease_id
    Names, QTypes, Addresses,
    StaticNames, RefusedNames,  \* answered locally; not allowed by the policy
    Owners,      \* the names a DoH answer may mention
    Responses,   \* well-formed DoH answers: CNAME links and address records
    MaxTTL,      \* max_ttl_seconds
    Grace,       \* expiry_grace_seconds
    MaxEntries,  \* _DNS_CACHE_MAX_ENTRIES
    WriteLimit,  \* longest time from a DoH answer to the grant of its lease
    MaxTime,     \* bound on the clock
    NoLease      \* the registry has no entry

ASSUME DnsAssumption ==
    /\ Names \subseteq Owners
    /\ \A r \in Responses :
          /\ \A l \in r.links : l.owner \in Owners /\ l.target \in Owners /\ l.ttl \in Nat
          /\ \A h \in r.hosts : h.owner \in Owners /\ h.ttl \in Nat
    /\ MaxTTL \in Nat \ {0} /\ Grace \in Nat
    /\ MaxEntries \in Nat \ {0}
    /\ WriteLimit \in Nat /\ MaxTime \in Nat
    /\ NoLease \notin Queries

Keys == Names \X QTypes
Pairs == Names \X Addresses

VARIABLES
    now,
    cachedAddrs, cachedExpires,  \* _response_cache, by key; 0: no entry
    leaseExpires, leaseId,       \* _leases, by name and address
    recorded,                    \* lease ids in the fsynced query log
    \* the thread of each query
    key,        \* the question: name and type
    pc,
    fallback,   \* the answer is a cached one
    addrs, ttl, \* the answer: addresses, and the TTL the client is given
    expires,    \* fallback: expires_at of the cached entry
    age,        \* time since the answer
    \* history
    vouched     \* who vouched for an address of a name, when, with which TTLs

cache == <<cachedAddrs, cachedExpires>>
registry == <<leaseExpires, leaseId>>
thread == <<key, pc, fallback, addrs, ttl, expires, age>>
history == <<vouched>>
vars == <<now, cache, registry, recorded, thread, history>>

Working == {"static", "lookup", "query", "prepare", "write", "grant", "failed"}

Init ==
    /\ now = 0
    /\ cachedAddrs = [k \in Keys |-> {}] /\ cachedExpires = [k \in Keys |-> 0]
    /\ leaseExpires = [p \in Pairs |-> 0] /\ leaseId = [p \in Pairs |-> NoLease]
    /\ recorded = {}
    /\ key \in [Queries -> Keys]
    /\ pc = [q \in Queries |-> "idle"]
    /\ fallback = [q \in Queries |-> FALSE]
    /\ addrs = [q \in Queries |-> {}]
    /\ ttl = [q \in Queries |-> 0]
    /\ expires = [q \in Queries |-> 0]
    /\ age = [q \in Queries |-> 0]
    /\ vouched = {}

Goto(q, place) == pc' = [pc EXCEPT ![q] = place]
Capped(t) == IF t < MaxTTL THEN t ELSE MaxTTL

-----------------------------------------------------------------------------
(* checked_response: what an answer says about a question.  Byte offsets and  *)
(* lengths are left out; an address outside Addresses is not public.          *)

\* The names the CNAME links lead to from this one, itself included.
Chain(r, name) == {n \in Owners : \A s \in SUBSET Owners :
    name \in s /\ (\A l \in r.links : l.owner \in s => l.target \in s) => n \in s}

IsAlias(r, n) == \E l \in r.links : l.owner = n

\* Refused: a record of any section that is not public, two targets of one
\* name, a chain that never ends, a question answered about another one.
WellFormed(r, k) ==
    /\ r.question = k
    /\ \A h \in r.hosts : h.address \in Addresses
    /\ \A l, m \in r.links : l.owner = m.owner => l.target = m.target
    /\ \E n \in Chain(r, k[1]) : ~IsAlias(r, n)

\* The address records of the answer section that the end of the chain owns.
Owned(r, k) == {h \in r.hosts :
    /\ h.answer /\ h.type = k[2]
    /\ h.owner \in Chain(r, k[1]) /\ ~IsAlias(r, h.owner)}

LinkTtls(r, k) == {l.ttl : l \in {l \in r.links : l.owner \in Chain(r, k[1])}}

\* Mutant: the TTLs of the links that lead to the addresses do not count.
Ttls_AddressesOnly(r, k) == {h.ttl : h \in Owned(r, k)}

Ttls(r, k) == LinkTtls(r, k) \cup {h.ttl : h \in Owned(r, k)}

\* The answer in the cache, the log and the registry: its addresses and least TTL.
Checked(r, k, as, t) ==
    /\ as = {h.address : h \in Owned(r, k)}
    /\ IF as = {} THEN t = 0 ELSE t \in Ttls(r, k) /\ \A u \in Ttls(r, k) : t <= u

-----------------------------------------------------------------------------
(* _response_cache and LeaseRegistry *)

\* _cached_response: expired entries are purged before the lookup.
Cached(k) == cachedExpires[k] > now

\* _cache_response: the entry replaces the key's own, expired ones go, and so do
\* older ones beyond the limit (which of them, the recency order, is left open).
CacheResponse(k, as, t) ==
    IF as = {} \/ t = 0 THEN UNCHANGED cache
    ELSE \E keep \in SUBSET {j \in Keys : Cached(j) /\ j # k} :
           /\ Cardinality(keep) < MaxEntries
           /\ Cardinality(keep) < MaxEntries - 1
                 => keep = {j \in Keys : Cached(j) /\ j # k}
           /\ cachedAddrs' = [j \in Keys |-> IF j = k THEN as
                                             ELSE IF j \in keep THEN cachedAddrs[j] ELSE {}]
           /\ cachedExpires' = [j \in Keys |-> IF j = k THEN now + Capped(t) + Grace
                                               ELSE IF j \in keep THEN cachedExpires[j] ELSE 0]

\* grant: every address of the answer gets this expiry, whatever it had before.
Grant(name, as, until, id) ==
    /\ leaseExpires' = [p \in Pairs |->
          IF p[1] = name /\ p[2] \in as THEN until ELSE leaseExpires[p]]
    /\ leaseId' = [p \in Pairs |->
          IF p[1] = name /\ p[2] \in as THEN id ELSE leaseId[p]]

\* authorize, as the gateway's lease lookup sees it.
Authorized(name, a) == leaseExpires[<<name, a>>] > now

-----------------------------------------------------------------------------
(* DnsGateway._resolve, under the lock of its name and type *)

Start(q) ==
    /\ pc[q] = "idle"
    /\ \A p \in Queries : pc[p] \in Working => key[p] # key[q]
    /\ Goto(q, IF key[q][1] \in StaticNames THEN "static"
               ELSE IF key[q][1] \in RefusedNames THEN "failed" ELSE "lookup")
    /\ UNCHANGED <<now, cache, registry, recorded, key, fallback, addrs, ttl, expires,
                   age, history>>

UseCached(q) ==
    /\ fallback' = [fallback EXCEPT ![q] = TRUE]
    /\ addrs' = [addrs EXCEPT ![q] = cachedAddrs[key[q]]]
    /\ expires' = [expires EXCEPT ![q] = cachedExpires[key[q]]]
    /\ Goto(q, "prepare")

\* An answer whose TTL has not passed is used again; else the DoH server is asked.
Lookup(q) ==
    /\ pc[q] = "lookup"
    /\ IF cachedExpires[key[q]] > now + Grace
       THEN UseCached(q)
       ELSE Goto(q, "query") /\ UNCHANGED <<fallback, addrs, expires>>
    /\ UNCHANGED <<now, cache, registry, recorded, key, ttl, age, history>>

\* What this answer says of one of its addresses: the TTLs of the record itself
\* and of the links that lead to it.
Vouches(r, k) == {[name |-> k[1], address |-> h.address, at |-> now,
                   ttls |-> LinkTtls(r, k)
                              \cup {g.ttl : g \in {g \in Owned(r, k) : g.address = h.address}}]
                  : h \in Owned(r, k)}

\* A validated DoH answer.
DohAnswer(q) ==
    /\ pc[q] = "query"
    /\ \E r \in Responses :
          /\ WellFormed(r, key[q])
          /\ \E as \in SUBSET Addresses, t \in Ttls(r, key[q]) \cup {0} :
                /\ Checked(r, key[q], as, t)
                /\ CacheResponse(key[q], as, t)
                /\ addrs' = [addrs EXCEPT ![q] = as]
                /\ ttl' = [ttl EXCEPT ![q] = t]
          /\ vouched' = vouched \cup Vouches(r, key[q])
    /\ age' = [age EXCEPT ![q] = 0]
    /\ Goto(q, "write")
    /\ UNCHANGED <<now, registry, recorded, key, fallback, expires>>

\* An answer that cannot be parsed or is not WellFormed: checked_response
\* raises, and no cached answer takes its place.
DohInvalid(q) ==
    /\ pc[q] = "query"
    /\ Goto(q, "failed")
    /\ UNCHANGED <<now, cache, registry, recorded, key, fallback, addrs, ttl, expires,
                   age, history>>

\* Both attempts failed: the cached answer serves until its lease would end.
DohFails(q) ==
    /\ pc[q] = "query"
    /\ IF Cached(key[q]) THEN UseCached(q)
                         ELSE Goto(q, "failed") /\ UNCHANGED <<fallback, addrs, expires>>
    /\ UNCHANGED <<now, cache, registry, recorded, key, ttl, age, history>>

\* A cached answer goes out with TTL 0, and only before its lease would end.
Prepare(q) ==
    /\ pc[q] = "prepare"
    /\ Goto(q, IF expires[q] > now THEN "write" ELSE "failed")
    /\ ttl' = [ttl EXCEPT ![q] = 0]
    /\ age' = [age EXCEPT ![q] = 0]
    /\ UNCHANGED <<now, cache, registry, recorded, key, fallback, addrs, expires, history>>

\* Mutant: the exception of the log is swallowed.
WriteRecord_Swallow(q) ==
    /\ pc[q] = "write"
    /\ Goto(q, "grant") /\ recorded' \in {recorded, recorded \cup {q}}
    /\ UNCHANGED <<now, cache, registry, key, fallback, addrs, ttl, expires, age, history>>

\* The query log line: written and fsynced, or an exception (the line may be there).
WriteRecord(q) ==
    /\ pc[q] = "write"
    /\ \/ Goto(q, "grant") /\ recorded' = recorded \cup {q}
       \/ Goto(q, "failed") /\ recorded' \in {recorded, recorded \cup {q}}
    /\ UNCHANGED <<now, cache, registry, key, fallback, addrs, ttl, expires, age, history>>

\* Mutant: whatever its TTL, an answer is leased for the longest time.
LeaseUntil_Longest(q) == IF fallback[q] THEN expires[q] ELSE now + MaxTTL + Grace

\* A cached answer keeps the end its own answer had.
LeaseUntil(q) == IF fallback[q] THEN expires[q] ELSE now + Capped(ttl[q]) + Grace

Answered(q) == Goto(q, "answered")

\* Mutant: grant does not look at the clock again after the fsync.
GrantLease_Unchecked(q) ==
    /\ pc[q] = "grant"
    /\ IF addrs[q] # {} /\ (fallback[q] \/ ttl[q] > 0)
       THEN Grant(key[q][1], addrs[q], LeaseUntil(q), q)
       ELSE UNCHANGED registry
    /\ Answered(q)
    /\ UNCHANGED <<now, cache, recorded, key, fallback, addrs, ttl, expires, age, vouched>>

GrantLease(q) ==
    /\ pc[q] = "grant"
    /\ IF fallback[q] /\ expires[q] <= now
       THEN \* the cached answer ran out while the record was written
            Goto(q, "failed") /\ UNCHANGED registry
       ELSE /\ IF addrs[q] # {} /\ (fallback[q] \/ ttl[q] > 0)
               THEN Grant(key[q][1], addrs[q], LeaseUntil(q), q)
               ELSE UNCHANGED registry
            /\ Answered(q)
    /\ UNCHANGED <<now, cache, recorded, key, fallback, addrs, ttl, expires, age, vouched>>

\* A static answer is recorded and returned; it needs no lease.  If the record
\* cannot be written the exception ends the thread without an answer.
Static(q) ==
    /\ pc[q] = "static"
    /\ Answered(q) \/ Goto(q, "lost")
    /\ UNCHANGED <<now, cache, registry, recorded, key, fallback, addrs, ttl, expires,
                   age, vouched>>

\* SERVFAIL, once its record is written.
Fail(q) ==
    /\ pc[q] = "failed"
    /\ \E place \in {"servfail", "lost"} : Goto(q, place)
    /\ UNCHANGED <<now, cache, registry, recorded, key, fallback, addrs, ttl, expires,
                   age, history>>

Tick ==
    /\ now < MaxTime
    /\ \A q \in Queries : pc[q] \in {"write", "grant"} => age[q] < WriteLimit
    /\ now' = now + 1
    /\ age' = [q \in Queries |-> IF pc[q] \in {"write", "grant"} THEN age[q] + 1 ELSE age[q]]
    /\ UNCHANGED <<cache, registry, recorded, key, pc, fallback, addrs, ttl, expires, history>>

Resolve(q) ==
    \/ Start(q) \/ Lookup(q) \/ DohAnswer(q) \/ DohInvalid(q) \/ DohFails(q)
    \/ Prepare(q) \/ WriteRecord(q) \/ GrantLease(q) \/ Static(q) \/ Fail(q)

Next == Tick \/ \E q \in Queries : Resolve(q)

Spec == Init /\ [][Next]_vars

-----------------------------------------------------------------------------
TypeOK ==
    /\ now \in Nat
    /\ cachedAddrs \in [Keys -> SUBSET Addresses] /\ cachedExpires \in [Keys -> Nat]
    /\ leaseExpires \in [Pairs -> Nat] /\ leaseId \in [Pairs -> Queries \cup {NoLease}]
    /\ recorded \subseteq Queries
    /\ key \in [Queries -> Keys]
    /\ pc \in [Queries -> Working \cup {"idle", "answered", "servfail", "lost"}]
    /\ fallback \in [Queries -> BOOLEAN]
    /\ addrs \in [Queries -> SUBSET Addresses]
    /\ ttl \in [Queries -> Nat] /\ expires \in [Queries -> Nat] /\ age \in [Queries -> Nat]
    /\ \A v \in vouched : v.name \in Names /\ v.address \in Addresses /\ v.at \in Nat
                           /\ v.ttls \subseteq Nat

\* Every lease the gateway would accept is backed by a line of the query log
\* that was durable before the lease existed.
LeaseIsRecorded == \A p \in Pairs :
    leaseExpires[p] > 0 => leaseId[p] \in recorded

\* An address is authorized only for as long as one DoH answer can justify that
\* listed it at the end of the name's CNAME chain: until the shortest TTL among
\* its own record and the links that lead to it (each capped), and the grace,
\* have passed since that answer, plus the time its log line took.  Reused and
\* fallback answers, of whatever type and order, never push a lease past that.
NoStaleAuthority == \A n \in Names, a \in Addresses :
    Authorized(n, a) =>
        \E v \in vouched :
            /\ v.name = n /\ v.address = a
            /\ \A t \in v.ttls : t > 0 /\ now < v.at + Capped(t) + Grace + WriteLimit

\* A cached answer that reaches the client is leased at that moment, although
\* the cache entry may have been on the point of expiry when the fsync began.
CachedAnswerIsLeased == [][\A q \in Queries :
    fallback[q] /\ pc[q] # "answered" /\ pc'[q] = "answered" =>
        \A a \in addrs[q] : leaseExpires'[<<key[q][1], a>>] > now]_vars

=============================================================================
