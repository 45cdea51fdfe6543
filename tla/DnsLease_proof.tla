--------------------------- MODULE DnsLease_proof ---------------------------
(***************************************************************************)
(* DnsLease for any number of queries, names and addresses and any times.  *)
(* The invariant follows an expiry from the DoH answer that justifies it:  *)
(* through the cache entry, the thread that serves it and the registry.    *)
(***************************************************************************)
EXTENDS DnsLease, TLAPS

\* An expiry a DoH answer for this name and address justifies, given this slack.
Justified(until, name, a, slack) == \E v \in vouched :
    /\ v.name = name /\ v.address = a
    /\ \A t \in v.ttls : t > 0 /\ until <= v.at + Capped(t) + Grace + slack

CacheJustified == \A k \in Keys : \A a \in cachedAddrs[k] :
    Justified(cachedExpires[k], k[1], a, 0)

LeaseJustified == \A p \in Pairs :
    leaseExpires[p] > 0 => Justified(leaseExpires[p], p[1], p[2], WriteLimit)

SourceKnown == \A q \in Queries :
    /\ pc[q] \in {"idle", "static", "lookup", "query"} => ~fallback[q]
    /\ pc[q] = "prepare" => fallback[q]

FallbackJustified == \A q \in Queries : fallback[q] =>
    \A a \in addrs[q] : Justified(expires[q], key[q][1], a, 0)

\* An answer of that age listed the address with TTLs of at least t.
Listed(name, a, t, old) == \E v \in vouched :
    /\ v.name = name /\ v.address = a /\ now <= v.at + old
    /\ \A u \in v.ttls : t <= u

FreshIsRecent == \A q \in Queries : pc[q] \in {"write", "grant"} /\ ~fallback[q] =>
    /\ age[q] <= WriteLimit
    /\ \A a \in addrs[q] : Listed(key[q][1], a, ttl[q], age[q])

GrantRecorded == \A q \in Queries : pc[q] = "grant" => q \in recorded

IInv ==
    /\ TypeOK
    /\ CacheJustified
    /\ LeaseJustified
    /\ SourceKnown
    /\ FallbackJustified
    /\ FreshIsRecent
    /\ GrantRecorded
    /\ LeaseIsRecorded

-----------------------------------------------------------------------------
\* A thread that takes a cached answer keeps its type.
LEMMA UseCachedType ==
  ASSUME TypeOK, NEW q \in Queries, UseCached(q)
  PROVE  /\ fallback' \in [Queries -> BOOLEAN] /\ addrs' \in [Queries -> SUBSET Addresses]
         /\ expires' \in [Queries -> Nat]
         /\ pc' \in [Queries -> Working \cup {"idle", "answered", "servfail", "lost"}]
<1>1. fallback' \in [Queries -> BOOLEAN]
  BY Zenon DEF UseCached, TypeOK
<1>2. addrs' \in [Queries -> SUBSET Addresses] /\ expires' \in [Queries -> Nat]
  BY DEF UseCached, TypeOK
<1>3. pc' \in [Queries -> Working \cup {"idle", "answered", "servfail", "lost"}]
  BY DEF UseCached, TypeOK, Goto, Working
<1> QED BY <1>1, <1>2, <1>3

\* A number that is not 0 is positive.
LEMMA Positive == \A t \in Nat : t = 0 \/ t > 0
OBVIOUS

\* What a validated answer brings: every address it lists is vouched for now,
\* with TTLs none of which is below the TTL the answer is cached and leased for.
Brings(q, as, t) ==
    /\ CacheResponse(key[q], as, t)
    /\ addrs' = [addrs EXCEPT ![q] = as]
    /\ ttl' = [ttl EXCEPT ![q] = t]
    /\ vouched \subseteq vouched'
    /\ \A v \in vouched' : \/ v \in vouched
                           \/ /\ v.name \in Names /\ v.address \in Addresses
                              /\ v.at = now /\ v.ttls \subseteq Nat
    /\ \A a \in as : \E v \in vouched' : /\ v.name = key[q][1] /\ v.address = a
                                        /\ v.at = now /\ \A u \in v.ttls : t <= u

\* A validated answer brings such addresses and TTL.
LEMMA AnswerFacts ==
  ASSUME TypeOK, NEW q \in Queries, DohAnswer(q)
  PROVE  \E as \in SUBSET Addresses, t \in Nat : Brings(q, as, t)
<1>1. PICK r \in Responses :
        /\ WellFormed(r, key[q])
        /\ \E as \in SUBSET Addresses, t \in Ttls(r, key[q]) \cup {0} :
              /\ Checked(r, key[q], as, t)
              /\ CacheResponse(key[q], as, t)
              /\ addrs' = [addrs EXCEPT ![q] = as]
              /\ ttl' = [ttl EXCEPT ![q] = t]
        /\ vouched' = vouched \cup Vouches(r, key[q])
  BY DEF DohAnswer
<1>2. PICK as \in SUBSET Addresses, t \in Ttls(r, key[q]) \cup {0} :
              /\ Checked(r, key[q], as, t)
              /\ CacheResponse(key[q], as, t)
              /\ addrs' = [addrs EXCEPT ![q] = as]
              /\ ttl' = [ttl EXCEPT ![q] = t]
  BY <1>1
<1>3. /\ Ttls(r, key[q]) \subseteq Nat
      /\ LinkTtls(r, key[q]) \subseteq Nat
      /\ \A h \in Owned(r, key[q]) : h.ttl \in Nat
  BY DnsAssumption DEF Ttls, LinkTtls, Owned
<1>4. \A h \in Owned(r, key[q]) : h.address \in Addresses
  BY <1>1 DEF WellFormed, Owned
<1>5. key[q][1] \in Names
  BY DEF TypeOK, Keys
<1>6. \A v \in Vouches(r, key[q]) : /\ v.name \in Names /\ v.address \in Addresses
                                    /\ v.at = now /\ v.ttls \subseteq Nat
  BY <1>3, <1>4, <1>5 DEF Vouches
<1>7. ASSUME NEW a \in as
      PROVE  \E v \in vouched' : /\ v.name = key[q][1] /\ v.address = a
                                 /\ v.at = now /\ \A u \in v.ttls : t <= u
  <2>1. PICK h \in Owned(r, key[q]) : h.address = a
    BY <1>2 DEF Checked
  <2> DEFINE v == [name |-> key[q][1], address |-> h.address, at |-> now,
                   ttls |-> LinkTtls(r, key[q])
                              \cup {g.ttl : g \in {g \in Owned(r, key[q]) : g.address = h.address}}]
  <2>2. v \in Vouches(r, key[q])
    BY DEF Vouches
  <2>3. v.ttls \subseteq Ttls(r, key[q])
    BY DEF Ttls
  <2>4. \A u \in Ttls(r, key[q]) : t <= u
    BY <1>2, <1>7 DEF Checked
  <2> QED BY <1>1, <2>1, <2>2, <2>3, <2>4
<1>8. t \in Nat
  BY <1>2, <1>3
<1>9. /\ vouched \subseteq vouched'
      /\ \A v \in vouched' : \/ v \in vouched
                             \/ /\ v.name \in Names /\ v.address \in Addresses
                                /\ v.at = now /\ v.ttls \subseteq Nat
  BY <1>1, <1>6
<1>10. Brings(q, as, t)
  BY <1>2, <1>7, <1>9 DEF Brings
<1> QED BY <1>8, <1>10

\* Every variable keeps its type through the steps of one query.
LEMMA ResolveType == ASSUME TypeOK, NEW q \in Queries, Resolve(q) PROVE TypeOK'
<1> USE DnsAssumption
<1>1. CASE Start(q)
  BY <1>1 DEF Start, TypeOK, Goto, Working, cache, registry, history
<1>2. CASE Lookup(q)
  <2>1. CASE UseCached(q)
    BY <1>2, <2>1, UseCachedType DEF Lookup, TypeOK, cache, registry, history
  <2>2. CASE Goto(q, "query") /\ UNCHANGED <<fallback, addrs, expires>>
    BY <1>2, <2>2 DEF Lookup, TypeOK, Goto, Working, cache, registry, history
  <2> QED BY <1>2, <2>1, <2>2 DEF Lookup
<1>3. CASE DohAnswer(q)
  <2>0. PICK as \in SUBSET Addresses, t \in Nat : Brings(q, as, t)
    BY <1>3, AnswerFacts
  <2>1. /\ CacheResponse(key[q], as, t)
        /\ addrs' = [addrs EXCEPT ![q] = as]
        /\ ttl' = [ttl EXCEPT ![q] = t]
        /\ \A v \in vouched' : \/ v \in vouched
                               \/ /\ v.name \in Names /\ v.address \in Addresses
                                  /\ v.at = now /\ v.ttls \subseteq Nat
    BY <2>0 DEF Brings
  <2>2. /\ cachedAddrs' \in [Keys -> SUBSET Addresses]
        /\ cachedExpires' \in [Keys -> Nat]
    <3>1. CASE as = {} \/ t = 0
      BY <2>1, <3>1 DEF CacheResponse, cache, TypeOK
    <3>2. CASE ~(as = {} \/ t = 0)
      <4>1. Capped(t) \in Nat /\ now + Capped(t) + Grace \in Nat
        BY DEF Capped, TypeOK
      <4>2. PICK keep \in SUBSET Keys :
              /\ cachedAddrs' = [j \in Keys |-> IF j = key[q] THEN as
                                     ELSE IF j \in keep THEN cachedAddrs[j] ELSE {}]
              /\ cachedExpires' = [j \in Keys |-> IF j = key[q] THEN now + Capped(t) + Grace
                                     ELSE IF j \in keep THEN cachedExpires[j] ELSE 0]
        BY <2>1, <3>2 DEF CacheResponse
      <4> QED BY <4>1, <4>2 DEF TypeOK
    <3> QED BY <3>1, <3>2
  <2>3. \A v \in vouched' : v.name \in Names /\ v.address \in Addresses /\ v.at \in Nat
                            /\ v.ttls \subseteq Nat
    BY <2>1 DEF TypeOK
  <2> QED BY <1>3, <2>1, <2>2, <2>3 DEF DohAnswer, TypeOK, Goto, Working, registry
<1>4. CASE DohInvalid(q)
  BY <1>4 DEF DohInvalid, TypeOK, Goto, Working, cache, registry, history
<1>5. CASE DohFails(q)
  <2>1. CASE UseCached(q)
    BY <1>5, <2>1, UseCachedType DEF DohFails, TypeOK, cache, registry, history
  <2>2. CASE Goto(q, "failed") /\ UNCHANGED <<fallback, addrs, expires>>
    BY <1>5, <2>2 DEF DohFails, TypeOK, Goto, Working, cache, registry, history
  <2> QED BY <1>5, <2>1, <2>2 DEF DohFails
<1>6. CASE Prepare(q)
  BY <1>6 DEF Prepare, TypeOK, Goto, Working, cache, registry, history
<1>7. CASE WriteRecord(q)
  BY <1>7 DEF WriteRecord, TypeOK, Goto, Working, cache, registry, history
<1>8. CASE GrantLease(q)
  <2>1. LeaseUntil(q) \in Nat
    BY DEF LeaseUntil, Capped, TypeOK
  <2>2. /\ leaseExpires' \in [Pairs -> Nat]
        /\ leaseId' \in [Pairs -> Queries \cup {NoLease}]
    BY <1>8, <2>1 DEF GrantLease, Grant, registry, TypeOK
  <2>3. pc' \in [Queries -> Working \cup {"idle", "answered", "servfail", "lost"}]
    BY <1>8 DEF GrantLease, Answered, Goto, TypeOK, Working
  <2> QED BY <1>8, <2>2, <2>3 DEF GrantLease, TypeOK, cache
<1>9. CASE Static(q)
  BY <1>9 DEF Static, Answered, TypeOK, Goto, Working, cache, registry
<1>10. CASE Fail(q)
  BY <1>10 DEF Fail, TypeOK, Goto, Working, cache, registry, history
<1> QED BY <1>1, <1>2, <1>3, <1>4, <1>5, <1>6, <1>7, <1>8, <1>9, <1>10 DEF Resolve

\* What a step that writes nothing but the thread's own place leaves true.
LEMMA OnlyMoves ==
  ASSUME IInv, NEW q \in Queries, NEW place \in {"static", "lookup", "query", "failed",
                                                 "servfail", "lost", "answered"},
         TypeOK', Goto(q, place),
         place \in {"static", "lookup", "query"} => pc[q] \in {"idle", "lookup"},
         UNCHANGED <<now, cache, registry, recorded, key, fallback, addrs, ttl, expires,
                     age, vouched>>
  PROVE  IInv'
<1>1. CacheJustified' /\ LeaseJustified' /\ LeaseIsRecorded'
  BY DEF IInv, CacheJustified, LeaseJustified, LeaseIsRecorded, Justified,
         cache, registry
<1>2. SourceKnown' /\ FallbackJustified' /\ FreshIsRecent' /\ GrantRecorded'
  BY DEF IInv, SourceKnown, FallbackJustified, FreshIsRecent, Listed, GrantRecorded, Justified,
         Goto, TypeOK
<1> QED BY <1>1, <1>2 DEF IInv

\* Taking an answer from the cache: the thread inherits the entry's end.
LEMMA CachedIsJustified ==
  ASSUME IInv, NEW q \in Queries, TypeOK', UseCached(q),
         UNCHANGED <<now, cache, registry, recorded, key, ttl, age, history>>
  PROVE  IInv'
<1>1. CacheJustified' /\ LeaseJustified' /\ LeaseIsRecorded'
  BY DEF IInv, CacheJustified, LeaseJustified, LeaseIsRecorded, Justified,
         cache, registry, history
<1>2. SourceKnown' /\ FreshIsRecent' /\ GrantRecorded'
  BY DEF IInv, SourceKnown, FreshIsRecent, Listed, GrantRecorded, UseCached, Goto, TypeOK, history
<1>3. FallbackJustified'
  BY DEF IInv, FallbackJustified, CacheJustified, Justified, UseCached, TypeOK, history, cache
<1> QED BY <1>1, <1>2, <1>3 DEF IInv

\* A fresh answer vouches for its addresses now, in the cache and in the thread.
LEMMA AnswerIsJustified ==
  ASSUME IInv, NEW q \in Queries, TypeOK', DohAnswer(q) PROVE IInv'
<1> USE DnsAssumption
<1>0. PICK as \in SUBSET Addresses, t \in Nat : Brings(q, as, t)
  BY AnswerFacts DEF IInv
<1>1. /\ CacheResponse(key[q], as, t)
      /\ addrs' = [addrs EXCEPT ![q] = as]
      /\ ttl' = [ttl EXCEPT ![q] = t]
      /\ vouched \subseteq vouched'
      /\ \A a \in as : \E v \in vouched' : /\ v.name = key[q][1] /\ v.address = a
                                          /\ v.at = now /\ \A u \in v.ttls : t <= u
  BY <1>0 DEF Brings
<1>2. /\ UNCHANGED <<now, leaseExpires, leaseId, recorded, key, fallback, expires>>
      /\ pc' = [pc EXCEPT ![q] = "write"] /\ age' = [age EXCEPT ![q] = 0] /\ pc[q] = "query"
  BY DEF DohAnswer, registry, Goto
<1>3. \A until, n, a, slack : Justified(until, n, a, slack) => Justified(until, n, a, slack)'
  BY <1>1 DEF Justified
<1>4. \A n, a, u, old : Listed(n, a, u, old) => Listed(n, a, u, old)'
  BY <1>1, <1>2 DEF Listed
<1>5. LeaseJustified' /\ LeaseIsRecorded'
  BY <1>2, <1>3 DEF LeaseJustified, LeaseIsRecorded, IInv
<1>7. CacheJustified'
  <2>1. SUFFICES ASSUME NEW k \in Keys, NEW a \in cachedAddrs'[k]
                 PROVE  Justified(cachedExpires[k], k[1], a, 0)'
    BY DEF CacheJustified
  <2>3. a \in cachedAddrs[k] /\ cachedExpires'[k] = cachedExpires[k]
            => Justified(cachedExpires[k], k[1], a, 0)'
    BY <1>1 DEF IInv, CacheJustified, Justified
  <2>4. CASE as = {} \/ t = 0
    BY <1>1, <2>1, <2>3, <2>4 DEF CacheResponse, cache
  <2>5. CASE ~(as = {} \/ t = 0)
    <3>0. t > 0
      BY <2>5, Positive
    <3>1. PICK keep \in SUBSET Keys :
            /\ cachedAddrs' = [j \in Keys |-> IF j = key[q] THEN as
                                   ELSE IF j \in keep THEN cachedAddrs[j] ELSE {}]
            /\ cachedExpires' = [j \in Keys |-> IF j = key[q] THEN now + Capped(t) + Grace
                                   ELSE IF j \in keep THEN cachedExpires[j] ELSE 0]
      BY <1>1, <2>5 DEF CacheResponse
    <3>2. CASE k = key[q]
      <4>1. a \in as /\ cachedExpires'[k] = now + Capped(t) + Grace
        BY <2>1, <3>1, <3>2
      <4>2. PICK v \in vouched' : /\ v.name = key[q][1] /\ v.address = a
                                 /\ v.at = now /\ \A u \in v.ttls : t <= u
        BY <1>1, <4>1
      <4>3. \A u \in v.ttls : u > 0 /\ now + Capped(t) + Grace <= v.at + Capped(u) + Grace + 0
        <5> SUFFICES ASSUME NEW u \in v.ttls
                     PROVE  u > 0 /\ now + Capped(t) + Grace <= v.at + Capped(u) + Grace + 0
          OBVIOUS
        <5>1. u \in Nat /\ now \in Nat /\ t <= u /\ t > 0 /\ v.at = now
          <6>1. v.ttls \subseteq Nat
            BY DEF TypeOK
          <6>2. now \in Nat
            BY DEF TypeOK, IInv
          <6>3. t <= u /\ v.at = now
            BY <4>2
          <6>4. u \in Nat
            BY <6>1
          <6> QED BY <6>2, <6>3, <6>4, <3>0
        <5> QED BY <5>1 DEF Capped
      <4> QED BY <3>2, <4>1, <4>2, <4>3 DEF Justified
    <3>3. CASE k # key[q]
      BY <3>1, <3>3, <2>1, <2>3
    <3> QED BY <3>2, <3>3
  <2> QED BY <2>4, <2>5
<1>8. SourceKnown' /\ GrantRecorded'
  BY <1>2 DEF SourceKnown, GrantRecorded, IInv, TypeOK
<1>9. FallbackJustified'
  <2> SUFFICES ASSUME NEW p \in Queries, fallback[p], NEW a \in addrs'[p]
               PROVE  Justified(expires[p], key[p][1], a, 0)'
    BY <1>2 DEF FallbackJustified
  <2>1. p # q
    BY <1>2 DEF IInv, SourceKnown
  <2>2. a \in addrs[p]
    BY <1>1, <2>1 DEF IInv, TypeOK
  <2>3. Justified(expires[p], key[p][1], a, 0)
    BY <2>2 DEF IInv, FallbackJustified
  <2> QED BY <1>1, <1>2, <2>3 DEF Justified
<1>10. FreshIsRecent'
  <2> SUFFICES ASSUME NEW p \in Queries, pc'[p] \in {"write", "grant"}, ~fallback[p]
               PROVE  /\ age'[p] <= WriteLimit
                      /\ \A a \in addrs'[p] : Listed(key[p][1], a, ttl[p], age[p])'
    BY <1>2 DEF FreshIsRecent
  <2>1. CASE p = q
    <3>1. addrs'[p] = as /\ age'[p] = 0 /\ ttl'[p] = t /\ now \in Nat
      BY <2>1, <1>1, <1>2 DEF IInv, TypeOK
    <3>2. \A a \in as : \E v \in vouched' : /\ v.name = key[q][1] /\ v.address = a
                                          /\ now <= v.at + 0 /\ \A u \in v.ttls : t <= u
      <4>1. now <= now + 0
        BY <3>1
      <4> QED BY <1>1, <4>1
    <3>3. key'[p] = key[q] /\ now' = now
      BY <2>1, <1>2
    <3>4. age'[p] <= WriteLimit
      BY <3>1
    <3>5. ASSUME NEW a \in addrs'[p] PROVE Listed(key[p][1], a, ttl[p], age[p])'
      <4>1. PICK v \in vouched' : /\ v.name = key[q][1] /\ v.address = a
                                 /\ now <= v.at + 0 /\ \A u \in v.ttls : t <= u
        BY <3>1, <3>2, <3>5
      <4> QED BY <3>1, <3>3, <4>1 DEF Listed
    <3> QED BY <3>4, <3>5
  <2>2. CASE p # q
    <3>1. age[p] <= WriteLimit /\ \A a \in addrs[p] : Listed(key[p][1], a, ttl[p], age[p])
      BY <2>2, <1>2 DEF IInv, FreshIsRecent, TypeOK
    <3>3. addrs'[p] = addrs[p] /\ age'[p] = age[p] /\ ttl'[p] = ttl[p] /\ key'[p] = key[p]
      BY <2>2, <1>1, <1>2 DEF IInv, TypeOK
    <3>4. now' = now /\ vouched \subseteq vouched'
      BY <1>1, <1>2
    <3>5. ASSUME NEW a \in addrs[p] PROVE Listed(key[p][1], a, ttl[p], age[p])'
      <4>1. Listed(key[p][1], a, ttl[p], age[p])
        BY <3>1
      <4> QED BY <4>1, <3>3, <3>4 DEF Listed
    <3> QED BY <3>1, <3>3, <3>5
  <2> QED BY <2>1, <2>2
<1> QED BY <1>5, <1>7, <1>8, <1>9, <1>10 DEF IInv

\* A lease starts from a durable record and ends when its answer allows.
LEMMA GrantIsJustified ==
  ASSUME IInv, NEW q \in Queries, TypeOK', GrantLease(q) PROVE IInv'
<1> USE DnsAssumption
<1>1. /\ UNCHANGED <<now, cachedAddrs, cachedExpires, recorded, key, fallback, addrs,
                     ttl, expires, age, vouched>>
      /\ \E place \in {"failed", "answered"} : pc' = [pc EXCEPT ![q] = place]
  BY DEF GrantLease, Answered, Goto, cache
<1>2. CacheJustified'
  BY <1>1 DEF IInv, CacheJustified, Justified
<1>3. SourceKnown' /\ FallbackJustified' /\ FreshIsRecent' /\ GrantRecorded'
  BY <1>1 DEF IInv, SourceKnown, FallbackJustified, FreshIsRecent, Listed, GrantRecorded,
              Justified, TypeOK
<1>4. LeaseJustified' /\ LeaseIsRecorded'
  <2>1. CASE UNCHANGED registry
    BY <2>1, <1>1 DEF IInv, LeaseJustified, LeaseIsRecorded, Justified, registry
  <2>2. CASE Grant(key[q][1], addrs[q], LeaseUntil(q), q)
    <3>3. LeaseIsRecorded'
      <4>1. q \in recorded
        BY DEF IInv, GrantRecorded, GrantLease
      <4> QED BY <4>1, <2>2, <1>1 DEF Grant, IInv, LeaseIsRecorded
    <3>0. (addrs[q] # {} /\ (fallback[q] \/ ttl[q] > 0)) \/ UNCHANGED registry
      BY DEF GrantLease
    <3>1. CASE addrs[q] # {} /\ (fallback[q] \/ ttl[q] > 0)
      <4>1. \A a \in addrs[q] : Justified(LeaseUntil(q), key[q][1], a, WriteLimit)
        <5> SUFFICES ASSUME NEW a \in addrs[q]
                     PROVE  Justified(LeaseUntil(q), key[q][1], a, WriteLimit)
          OBVIOUS
        <5>1. CASE fallback[q]
          <6>1. PICK v \in vouched :
                  /\ v.name = key[q][1] /\ v.address = a
                  /\ \A t \in v.ttls : t > 0 /\ expires[q] <= v.at + Capped(t) + Grace + 0
            BY <5>1 DEF IInv, FallbackJustified, Justified
          <6>2. \A t \in v.ttls : t > 0 /\ expires[q] <= v.at + Capped(t) + Grace + WriteLimit
            BY <6>1 DEF IInv, TypeOK, Capped
          <6> QED BY <5>1, <6>1, <6>2 DEF Justified, LeaseUntil
        <5>2. CASE ~fallback[q]
          <6>1. pc[q] = "grant" /\ age[q] <= WriteLimit /\ Listed(key[q][1], a, ttl[q], age[q])
            BY <5>2 DEF IInv, FreshIsRecent, GrantLease
          <6>2. PICK v \in vouched :
                  /\ v.name = key[q][1] /\ v.address = a /\ now <= v.at + age[q]
                  /\ \A u \in v.ttls : ttl[q] <= u
            BY <6>1 DEF Listed
          <6>3. ttl[q] > 0 /\ ttl[q] \in Nat /\ age[q] \in Nat /\ now \in Nat /\ v.at \in Nat
            BY <3>1, <5>2 DEF IInv, TypeOK
          <6>4. ASSUME NEW u \in v.ttls
                PROVE  u > 0 /\ now + Capped(ttl[q]) + Grace <= v.at + Capped(u) + Grace + WriteLimit
            <7>1. u \in Nat /\ ttl[q] <= u
              BY <6>2 DEF IInv, TypeOK
            <7>2. Capped(ttl[q]) \in Nat /\ Capped(u) \in Nat /\ Capped(ttl[q]) <= Capped(u)
              BY <6>3, <7>1 DEF Capped
            <7> QED BY <6>1, <6>2, <6>3, <7>1, <7>2
          <6> QED BY <5>2, <6>2, <6>4 DEF Justified, LeaseUntil
        <5> QED BY <5>1, <5>2
      <4>2. SUFFICES ASSUME NEW p \in Pairs, leaseExpires'[p] > 0
                     PROVE  Justified(leaseExpires'[p], p[1], p[2], WriteLimit)
        BY <1>1, <3>3 DEF LeaseJustified, Justified
      <4>3. CASE p[1] = key[q][1] /\ p[2] \in addrs[q]
        BY <2>2, <4>1, <4>3 DEF Grant
      <4>4. CASE ~(p[1] = key[q][1] /\ p[2] \in addrs[q])
        BY <2>2, <4>2, <4>4 DEF Grant, IInv, LeaseJustified
      <4> QED BY <4>3, <4>4
    <3> QED BY <2>1, <3>0, <3>1
  <2> QED BY <2>1, <2>2 DEF GrantLease
<1> QED BY <1>2, <1>3, <1>4 DEF IInv

\* Time passing uses up the slack of fresh answers and of nothing else.
LEMMA TickIsJustified == ASSUME IInv, Tick PROVE IInv'
<1> USE DnsAssumption
<1>1. TypeOK'
  BY DEF IInv, Tick, TypeOK, cache, registry, history
<1>2. CacheJustified' /\ LeaseJustified' /\ LeaseIsRecorded'
  BY DEF IInv, Tick, CacheJustified, LeaseJustified, LeaseIsRecorded, Justified, cache,
         registry, history
<1>3. SourceKnown' /\ FallbackJustified' /\ GrantRecorded'
  BY DEF IInv, Tick, SourceKnown, FallbackJustified, GrantRecorded, Justified, history
<1>4. FreshIsRecent'
  <2> SUFFICES ASSUME NEW q \in Queries, pc[q] \in {"write", "grant"}, ~fallback[q]
               PROVE  /\ age'[q] <= WriteLimit
                      /\ \A a \in addrs[q] : Listed(key[q][1], a, ttl[q], age[q])'
    BY DEF FreshIsRecent, Tick, history
  <2>2. age[q] \in Nat /\ age[q] < WriteLimit /\ age'[q] = age[q] + 1 /\ now' = now + 1 /\ now \in Nat
    BY DEF Tick, IInv, TypeOK
  <2>3. ASSUME NEW a \in addrs[q] PROVE Listed(key[q][1], a, ttl[q], age[q])'
    <3>1. PICK v \in vouched :
            /\ v.name = key[q][1] /\ v.address = a /\ now <= v.at + age[q]
            /\ \A u \in v.ttls : ttl[q] <= u
      BY <2>3 DEF IInv, FreshIsRecent, Listed
    <3>2. v.at \in Nat
      BY DEF IInv, TypeOK
    <3>3. now' <= v.at + age'[q]
      BY <2>2, <3>1, <3>2
    <3> QED BY <3>1, <3>3 DEF Listed, Tick, history
  <2> QED BY <2>2, <2>3
<1> QED BY <1>1, <1>2, <1>3, <1>4 DEF IInv

-----------------------------------------------------------------------------
\* The invariant holds at the start and every step keeps it.
LEMMA Inductive == /\ Init => IInv
                   /\ IInv /\ [Next]_vars => IInv'
<1>1. Init => IInv
  <2> SUFFICES ASSUME Init PROVE IInv
    OBVIOUS
  <2>1. TypeOK
    BY DEF Init, TypeOK, Working
  <2>2. CacheJustified /\ LeaseJustified /\ LeaseIsRecorded
    <3>1. \A p \in Pairs : p = <<p[1], p[2]>>
      BY DEF Pairs
    <3> QED BY <3>1, DnsAssumption DEF Init, CacheJustified, LeaseJustified,
               LeaseIsRecorded, Justified
  <2>3. SourceKnown /\ FallbackJustified /\ FreshIsRecent /\ GrantRecorded
    BY DEF Init, SourceKnown, FallbackJustified, FreshIsRecent, GrantRecorded
  <2> QED BY <2>1, <2>2, <2>3 DEF IInv
<1>2. IInv /\ [Next]_vars => IInv'
  <2> SUFFICES ASSUME IInv, [Next]_vars PROVE IInv'
    OBVIOUS
  <2>1. CASE Tick
    BY <2>1, TickIsJustified
  <2>2. CASE UNCHANGED vars
    BY <2>2 DEF vars, cache, registry, thread, history, IInv, TypeOK, Listed,
       CacheJustified, LeaseJustified, SourceKnown, FallbackJustified, FreshIsRecent, Listed,
       GrantRecorded, LeaseIsRecorded, Justified
  <2>3. ASSUME NEW q \in Queries, Resolve(q) PROVE IInv'
    <3> USE <2>3
    <3>0. TypeOK'
      BY ResolveType DEF IInv
    <3>1. CASE Start(q)
      BY <3>0, <3>1, OnlyMoves DEF Start, history
    <3>2. CASE Lookup(q)
      <4>1. CASE cachedExpires[key[q]] > now + Grace
        BY <3>0, <3>2, <4>1, CachedIsJustified DEF Lookup
      <4>2. CASE ~(cachedExpires[key[q]] > now + Grace)
        BY <3>0, <3>2, <4>2, OnlyMoves DEF Lookup, history
      <4> QED BY <4>1, <4>2
    <3>3. CASE DohAnswer(q)
      BY <3>0, <3>3, AnswerIsJustified
    <3>4. CASE DohInvalid(q)
      BY <3>0, <3>4, OnlyMoves DEF DohInvalid, history
    <3>5. CASE DohFails(q)
      <4>1. CASE Cached(key[q])
        BY <3>0, <3>5, <4>1, CachedIsJustified DEF DohFails
      <4>2. CASE ~Cached(key[q])
        BY <3>0, <3>5, <4>2, OnlyMoves DEF DohFails, history
      <4> QED BY <4>1, <4>2
    <3>6. CASE Prepare(q)
      <4>1. CacheJustified' /\ LeaseJustified' /\ LeaseIsRecorded'
        BY <3>6 DEF Prepare, IInv, CacheJustified, LeaseJustified,
           LeaseIsRecorded, Justified, cache, registry, history
      <4>2. SourceKnown' /\ FallbackJustified' /\ GrantRecorded'
        BY <3>6 DEF Prepare, IInv, SourceKnown, FallbackJustified, GrantRecorded,
           Justified, Goto, TypeOK, history
      <4>3. FreshIsRecent'
        BY <3>6 DEF Prepare, IInv, FreshIsRecent, Listed, SourceKnown, Goto, TypeOK, history
      <4> QED BY <3>0, <4>1, <4>2, <4>3 DEF IInv
    <3>7. CASE WriteRecord(q)
      <4>1. CacheJustified' /\ LeaseJustified' /\ LeaseIsRecorded'
        BY <3>7 DEF WriteRecord, IInv, CacheJustified, LeaseJustified,
           LeaseIsRecorded, Justified, cache, registry, history
      <4>2. SourceKnown' /\ FallbackJustified' /\ FreshIsRecent' /\ GrantRecorded'
        BY <3>7 DEF WriteRecord, IInv, SourceKnown, FallbackJustified, FreshIsRecent, Listed,
           GrantRecorded, Justified, Goto, TypeOK, history
      <4> QED BY <3>0, <4>1, <4>2 DEF IInv
    <3>8. CASE GrantLease(q)
      BY <3>0, <3>8, GrantIsJustified
    <3>9. CASE Static(q)
      BY <3>0, <3>9, OnlyMoves DEF Static, Answered
    <3>10. CASE Fail(q)
      BY <3>0, <3>10, OnlyMoves DEF Fail, history
    <3> QED BY <3>1, <3>2, <3>3, <3>4, <3>5, <3>6, <3>7, <3>8, <3>9, <3>10 DEF Resolve
  <2> QED BY <2>1, <2>2, <2>3 DEF Next
<1> QED BY <1>1, <1>2

\* The invariant is an invariant of the resolver.
THEOREM Invariance == Spec => []IInv
BY Inductive, PTL DEF Spec

\* Every variable of the resolver keeps its type.
THEOREM TypeCorrect == Spec => []TypeOK
<1>1. IInv => TypeOK
  BY DEF IInv
<1> QED BY <1>1, Invariance, PTL

\* A lease exists only after its line of the query log is durable.
THEOREM Recorded == Spec => []LeaseIsRecorded
<1>1. IInv => LeaseIsRecorded
  BY DEF IInv
<1> QED BY <1>1, Invariance, PTL

\* No reuse of cached answers keeps an address authorized beyond what a DoH
\* answer that listed it can justify.
THEOREM NotStale == Spec => []NoStaleAuthority
<1>1. IInv => NoStaleAuthority
  <2> SUFFICES ASSUME IInv, NEW n \in Names, NEW a \in Addresses, Authorized(n, a)
               PROVE  \E v \in vouched :
                         /\ v.name = n /\ v.address = a
                         /\ \A t \in v.ttls : t > 0 /\ now < v.at + Capped(t) + Grace + WriteLimit
    BY DEF NoStaleAuthority
  <2>1. <<n, a>> \in Pairs
    BY DEF Pairs
  <2>2. leaseExpires[<<n, a>>] > now /\ leaseExpires[<<n, a>>] \in Nat /\ now \in Nat
    BY <2>1 DEF Authorized, IInv, TypeOK
  <2>3. PICK v \in vouched : /\ v.name = n /\ v.address = a
           /\ \A t \in v.ttls :
                 t > 0 /\ leaseExpires[<<n, a>>] <= v.at + Capped(t) + Grace + WriteLimit
    BY <2>1, <2>2 DEF IInv, LeaseJustified, Justified
  <2>4. ASSUME NEW t \in v.ttls PROVE now < v.at + Capped(t) + Grace + WriteLimit
    <3>1. t \in Nat /\ v.at \in Nat
      BY DEF IInv, TypeOK
    <3>2. v.at + Capped(t) + Grace + WriteLimit \in Nat
      BY <3>1, DnsAssumption DEF Capped
    <3> QED BY <2>2, <2>3, <3>2
  <2> QED BY <2>3, <2>4
<1> QED BY <1>1, Invariance, PTL

\* A cached answer is given to the client only with a lease that still runs.
THEOREM AnswerLeased == Spec => CachedAnswerIsLeased
<1>1. IInv /\ [Next]_vars => [\A q \in Queries :
         fallback[q] /\ pc[q] # "answered" /\ pc'[q] = "answered" =>
            \A a \in addrs[q] : leaseExpires'[<<key[q][1], a>>] > now]_vars
  <2> SUFFICES ASSUME IInv, Next, NEW q \in Queries, fallback[q], pc[q] # "answered",
                      pc'[q] = "answered", NEW a \in addrs[q]
               PROVE  leaseExpires'[<<key[q][1], a>>] > now
    OBVIOUS
  <2>1. PICK p \in Queries : Resolve(p)
    BY DEF Next, Tick
  <2>2. p = q /\ (GrantLease(q) \/ Static(q))
    BY <2>1 DEF Resolve, Start, Lookup, UseCached, DohAnswer, DohInvalid, DohFails, Prepare,
       WriteRecord, GrantLease, Static, Fail, Answered, Goto, IInv, TypeOK
  <2>3. GrantLease(q)
    BY <2>2 DEF Static, IInv, SourceKnown
  <2>4. expires[q] > now /\ addrs[q] # {}
    BY <2>3 DEF GrantLease, Goto, IInv, TypeOK
  <2>5. Grant(key[q][1], addrs[q], expires[q], q)
    BY <2>3, <2>4 DEF GrantLease, LeaseUntil, Goto, IInv, TypeOK
  <2>6. <<key[q][1], a>> \in Pairs
    BY DEF IInv, TypeOK, Pairs, Keys
  <2> QED BY <2>4, <2>5, <2>6 DEF Grant
<1> QED BY <1>1, Invariance, PTL DEF Spec, CachedAnswerIsLeased
=============================================================================
