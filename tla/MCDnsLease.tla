----------------------------- MODULE MCDnsLease -----------------------------
(* DnsLease with the bounds of the cfg file and answers of every kind: TTLs   *)
(* below, at and above the cap, CNAME chains that end, fork or loop, records  *)
(* of other names, of another section and of addresses that are not public.   *)
EXTENDS DnsLease, FiniteSetsExt, TLC

CONSTANTS n1, w1, a1, p1

Link(o, g, t) == [owner |-> o, target |-> g, ttl |-> t]
Host(o, ty, a, t, ans) == [owner |-> o, type |-> ty, address |-> a, ttl |-> t, answer |-> ans]

MCLinks == {{}, {Link(n1, w1, 1)}, {Link(n1, w1, 3)},
            {Link(n1, w1, 3), Link(w1, n1, 3)}, {Link(n1, w1, 3), Link(n1, n1, 3)}}
MCHosts(ty) == {{}, {Host(n1, ty, a1, 3, FALSE)}, {Host(n1, ty, p1, 3, FALSE)}}
    \cup {{Host(o, ty, a1, t, TRUE)} : o \in {n1, w1}, t \in {0, 1, 3}}
    \cup {{Host(n1, ty, a1, 1, TRUE), Host(n1, ty, a1, 3, TRUE)}}
MCResponses == UNION {{[question |-> <<n1, ty>>, links |-> ls, hosts |-> hs]
                         : ls \in MCLinks, hs \in MCHosts(uy)} : ty \in QTypes, uy \in QTypes}

Symmetry == Permutations(Queries) \cup Permutations(QTypes)

\* A query that has ended matters only by what it left in cache, registry and
\* log: its locals tell no two states apart.
Alive(q) == pc[q] \in Working \cup {"idle"}
Local(q) == <<key[q], pc[q], fallback[q], addrs[q], ttl[q], expires[q], age[q]>>

\* Of the history only the latest end that an answer justifies matters.
Ends(p) == {v.at + Capped(Min(v.ttls)) : v \in {v \in vouched :
               v.name = p[1] /\ v.address = p[2] /\ 0 \notin v.ttls}}
Latest == [p \in Pairs |-> IF Ends(p) = {} THEN 0 ELSE Max(Ends(p))]

View == <<now, cache, registry, recorded, Latest,
          [q \in Queries |-> IF Alive(q) THEN Local(q) ELSE <<"ended">>]>>
=============================================================================
