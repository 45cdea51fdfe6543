-------------------------- MODULE OneShotApproval --------------------------
(***************************************************************************)
(* What review promises for a request that needs an operator's consent: a  *)
(* ticket is granted once, spent at most once and not later than Grace     *)
(* after it expired, and only who spent it may send the request, once and  *)
(* before the outcome is on record.  A ticket that was refused, or whose   *)
(* request is settled, is never good for anything again.                   *)
(***************************************************************************)
EXTENDS Naturals

CONSTANTS Requests, Grace

VARIABLES
    ticket,    \* "none", "asked", "granted", "spent", "settled" or "closed"
    expires,   \* of a granted ticket
    spender,   \* "nobody", "gateway" or "operator"
    reviewed,  \* the gateway holds the request back until it is reviewed
    sent,
    now        \* a clock that may be set

vars == <<ticket, expires, spender, reviewed, sent, now>>

Init ==
    /\ ticket = [r \in Requests |-> "none"]
    /\ expires = [r \in Requests |-> 0]
    /\ spender = [r \in Requests |-> "nobody"]
    /\ reviewed = [r \in Requests |-> FALSE]
    /\ sent = [r \in Requests |-> FALSE]
    /\ now = 0

Becomes(r, t, e) ==
    /\ ticket' = [ticket EXCEPT ![r] = t]
    /\ expires' = [expires EXCEPT ![r] = e]

(* The gateway asks for a request it holds, or an operator for one it does not. *)
Ask(r) ==
    /\ ticket[r] = "none" /\ ~sent[r]
    /\ Becomes(r, "asked", 0)
    /\ \E held \in BOOLEAN : reviewed' = [reviewed EXCEPT ![r] = held]
    /\ UNCHANGED <<spender, sent, now>>

Grant(r) ==
    /\ ticket[r] = "asked"
    /\ Becomes(r, "granted", expires'[r])
    /\ expires'[r] \in Nat /\ now < expires'[r] + Grace
    /\ UNCHANGED <<spender, reviewed, sent, now>>

Spend(r, by) ==
    /\ ticket[r] = "granted" /\ now < expires[r] + Grace
    /\ Becomes(r, "spent", 0)
    /\ spender' = [spender EXCEPT ![r] = by]
    /\ UNCHANGED <<reviewed, sent, now>>

Send(r) ==
    /\ ~sent[r]
    /\ reviewed[r] => ticket[r] = "spent" /\ spender[r] = "gateway"
    /\ sent' = [sent EXCEPT ![r] = TRUE]
    /\ UNCHANGED <<ticket, expires, spender, reviewed, now>>

Settle(r) ==
    /\ ticket[r] = "spent"
    /\ Becomes(r, "settled", 0)
    /\ UNCHANGED <<spender, reviewed, sent, now>>

(* Tickets are refused one by one, and expire several at a time. *)
Close ==
    /\ \E S \in SUBSET {r \in Requests : ticket[r] \in {"asked", "granted"}} :
          /\ ticket' = [r \in Requests |-> IF r \in S THEN "closed" ELSE ticket[r]]
          /\ expires' = [r \in Requests |-> IF r \in S THEN 0 ELSE expires[r]]
    /\ UNCHANGED <<spender, reviewed, sent, now>>

ClockMoves == now' \in Nat /\ UNCHANGED <<ticket, expires, spender, reviewed, sent>>

Next ==
    \/ \E r \in Requests :
          \/ Ask(r) \/ Grant(r) \/ Send(r) \/ Settle(r)
          \/ Spend(r, "gateway") \/ Spend(r, "operator")
    \/ Close \/ ClockMoves

Spec == Init /\ [][Next]_vars
=============================================================================
