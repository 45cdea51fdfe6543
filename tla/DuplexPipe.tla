----------------------------- MODULE DuplexPipe -----------------------------
(***************************************************************************)
(* What a byte relay promises its two endpoints: two independent streams.  *)
(* Each delivers what was written, in order and without loss, and its end  *)
(* only after its last byte; the end of one leaves the other open.  A      *)
(* session may be cut at any time, but then it does not count as ended.    *)
(***************************************************************************)
EXTENDS Naturals, Sequences

CONSTANTS Sessions, Sides, Bytes

VARIABLES
    written,    \* by each endpoint
    finished,   \* the endpoints that have ended their stream
    delivered,  \* to each endpoint
    eof,        \* the endpoints that have been told of the other's end
    over        \* "open", "eof" (both streams complete) or "cut"

vars == <<written, finished, delivered, eof, over>>

Init ==
    /\ written = [c \in Sessions |-> [s \in Sides |-> <<>>]]
    /\ finished = [c \in Sessions |-> {}]
    /\ delivered = [c \in Sessions |-> [s \in Sides |-> <<>>]]
    /\ eof = [c \in Sessions |-> {}]
    /\ over = [c \in Sessions |-> "open"]

Write(c, s) ==
    /\ over[c] = "open" /\ s \notin finished[c]
    /\ \E b \in Bytes : written' = [written EXCEPT ![c][s] = Append(@, b)]
    /\ UNCHANGED <<finished, delivered, eof, over>>

Finish(c, s) ==
    /\ over[c] = "open"
    /\ finished' = [finished EXCEPT ![c] = @ \union {s}]
    /\ UNCHANGED <<written, delivered, eof, over>>

(* A step brings s some of the bytes the other side, t, has written. *)
Deliver(c, s, t) ==
    /\ over[c] = "open"
    /\ \E n \in Len(delivered[c][s]) + 1 .. Len(written[c][t]) :
          delivered' = [delivered EXCEPT ![c][s] = SubSeq(written[c][t], 1, n)]
    /\ UNCHANGED <<written, finished, eof, over>>

Complete(c, s, t) == t \in finished[c] /\ delivered[c][s] = written[c][t]

DeliverEnd(c) ==
    /\ over[c] = "open"
    /\ \E told \in SUBSET {s \in Sides : \A t \in Sides \ {s} : Complete(c, s, t)} :
          eof' = [eof EXCEPT ![c] = @ \union told]
    /\ UNCHANGED <<written, finished, delivered, over>>

End(c) ==
    /\ over[c] = "open"
    /\ \A s \in Sides : \A t \in Sides \ {s} : Complete(c, s, t)
    /\ eof' = [eof EXCEPT ![c] = Sides]
    /\ over' = [over EXCEPT ![c] = "eof"]
    /\ UNCHANGED <<written, finished, delivered>>

(* Sessions are cut one by one, or all with the program that relays them. *)
Cut ==
    /\ \E C \in SUBSET {c \in Sessions : over[c] = "open"} :
          over' = [c \in Sessions |-> IF c \in C THEN "cut" ELSE over[c]]
    /\ UNCHANGED <<written, finished, delivered, eof>>

Next ==
    \/ \E c \in Sessions : DeliverEnd(c) \/ End(c)
    \/ \E c \in Sessions, s \in Sides : Write(c, s) \/ Finish(c, s)
    \/ \E c \in Sessions, s, t \in Sides : s # t /\ Deliver(c, s, t)
    \/ Cut

Spec == Init /\ [][Next]_vars
=============================================================================
