----------------------------- MODULE ByteRelay -----------------------------
(***************************************************************************)
(* The servers that carry byte streams between two sockets:                *)
(*   bridge  proxy_bridge.py, Unix socket to TCP and back                  *)
(*   broker  ssh_bridge.py, audited connections to listed SSH targets      *)
(*   shadow  rootless_uid_ssh.py, the sockets of a mapped target           *)
(*   alias, agent  ssh_alias_bridge.py, Transport and Agent                *)
(*   service       service_relay.py, the ports of a service, in asyncio    *)
(* The first three share relay_sockets, a loop over non-blocking sockets   *)
(* with bounded buffers and an idle timeout; the next two a loop that      *)
(* writes what it read before it looks at anything else; the last has a    *)
(* coroutine for each direction and no timeout.                            *)
(*                                                                         *)
(* A session is a thread or a task.  An endpoint is the program at the far *)
(* end of one of its sockets: it writes, ends and reads as it likes.       *)
(***************************************************************************)
EXTENDS Naturals, Sequences, FiniteSets

CONSTANTS
    Clients,
    MaxSessions,   \* max_sessions, the BoundedSemaphore
    MaxBuffer,     \* max_buffer
    IdleTimeout,   \* idle_timeout
    MaxWrites      \* bound: bytes the endpoints of a client write

Sides == {"client", "peer"}
Other(s) == IF s = "client" THEN "peer" ELSE "client"

ASSUME RelayAssumption ==
    /\ IsFiniteSet(Clients)
    /\ MaxSessions \in Nat \ {0} /\ MaxBuffer \in Nat \ {0} /\ IdleTimeout \in Nat \ {0}
    /\ MaxWrites \in [Clients -> [Sides -> Nat]]

VARIABLES
    kind,         \* which server runs, never changed
    server,       \* "new", "serving", "closing" (closed is set), "cut" (sessions shut), "down"
    slots, auditFailed,
    pc, lines,    \* of a session: its place, "done" or "lost" (with its slot) at the end, and
                  \* the audit lines written for it
    registered,   \* the sockets in SSHShadow.sessions
    cut,          \* the sockets close() has shut down
    written, finished,   \* by the endpoints
    wire,         \* written and not yet received by the relay
    buffers,      \* received, to be sent to this side
    delivered, eof,      \* to the endpoints: bytes, and a half-close
    ended,        \* the sides whose EOF the relay has read
    ready,        \* what select returned and the loop has still to serve
    age,          \* since last_activity
    reason        \* what the relay returned

control == <<kind, server, slots, auditFailed>>
session == <<pc, lines, registered, cut>>
endpoints == <<written, finished>>
loop == <<ended, ready, age, reason>>
vars == <<control, session, endpoints, wire, buffers, delivered, eof, loop>>

Kinds == {"bridge", "broker", "shadow", "alias", "agent", "service"}
Blocking == kind \in {"alias", "agent"}
Async == kind = "service"
None == [r |-> {}, w |-> {}]
Stages == {"header", "route", "audit", "connect", "register", "check", "ack", "relay",
           "refuse", "record", "release"}

Init ==
    /\ kind \in Kinds /\ server = "new"
    /\ slots = MaxSessions /\ auditFailed = FALSE
    /\ pc = [c \in Clients |-> "idle"] /\ lines = [c \in Clients |-> {}]
    /\ registered = [c \in Clients |-> {}] /\ cut = [c \in Clients |-> {}]
    /\ written = [c \in Clients |-> [s \in Sides |-> <<>>]]
    /\ wire = written /\ buffers = written /\ delivered = written
    /\ finished = [c \in Clients |-> {}] /\ eof = finished /\ ended = finished
    /\ ready = [c \in Clients |-> None]
    /\ age = [c \in Clients |-> 0] /\ reason = [c \in Clients |-> "none"]

Goto(c, stage) == pc' = [pc EXCEPT ![c] = stage]
data == <<endpoints, wire, buffers, delivered, eof, loop>>

-----------------------------------------------------------------------------
(* Start: a server does not take the socket of one that runs.  SSHShadow       *)
(* listens when its directory is complete, and closes what it has made if it   *)
(* cannot be; the service relay listens on all of its ports or on none.        *)
Listen ==
    /\ kind # "shadow" /\ server = "new" /\ server' \in {"serving", "down"}
    /\ UNCHANGED <<kind, slots, auditFailed, session, data>>

Prepare ==
    /\ kind = "shadow" /\ server = "new" /\ server' \in {"serving", "closing"}
    /\ UNCHANGED <<kind, slots, auditFailed, session, data>>

(* The accept loop: without a free slot the client is closed at once. *)
Full == slots = 0

FirstStage == CASE kind \in {"broker", "alias"} -> "header"
                [] kind = "agent" -> "audit"
                [] OTHER -> "connect"

Accept(c) ==
    /\ server = "serving" /\ pc[c] = "idle"
    /\ \/ /\ Full /\ Goto(c, "done")
          /\ UNCHANGED <<slots, registered>>
       \/ /\ ~Full /\ slots' = slots - 1 /\ Goto(c, FirstStage)
          /\ registered' = IF kind = "shadow" THEN [registered EXCEPT ![c] = {"client"}]
                                              ELSE registered
    /\ UNCHANGED <<kind, server, auditFailed, lines, cut, data>>

\* Mutant: the slot is kept when the thread cannot be started.
AcceptFails_KeepSlot(c) ==
    /\ server = "serving" /\ pc[c] = "idle" /\ ~Full /\ kind \notin {"bridge", "service"}
    /\ Goto(c, "done") /\ slots' = slots - 1
    /\ UNCHANGED <<kind, server, auditFailed, lines, registered, cut, data>>

(* The thread cannot be started: client closed, slot returned.  The broker's  *)
(* server survives that; SSHShadow.serve leaves its loop and closes; the     *)
(* bridge's process ends and its daemon threads with it.                      *)
AcceptFails(c) ==
    /\ server = "serving" /\ pc[c] = "idle" /\ ~Full /\ ~Async
    /\ \/ /\ kind # "bridge" /\ Goto(c, "done")
          /\ server' = IF kind = "shadow" THEN "closing" ELSE server
       \/ /\ kind = "bridge" /\ server' = "down"
          /\ pc' = [d \in Clients |-> "done"]
    /\ UNCHANGED <<kind, slots, auditFailed, lines, registered, cut, data>>

-----------------------------------------------------------------------------
(* The stages of a session before its relay. *)
Header(c) ==
    /\ pc[c] = "header"
    /\ Goto(c, IF kind = "alias" THEN "route" ELSE "audit") \/ Goto(c, "refuse")
    /\ UNCHANGED <<control, lines, registered, cut, data>>

(* route_plan: only what the configuration says of the alias. *)
Route(c) ==
    /\ pc[c] = "route"
    /\ Goto(c, "audit") \/ Goto(c, "refuse")
    /\ UNCHANGED <<control, lines, registered, cut, data>>

(* Audit.write of the broker latches its first failure; Server.log does not. *)
AuditWrite(c, line) ==
    /\ ~auditFailed
    /\ lines' = [lines EXCEPT ![c] = @ \union {line}]
    /\ UNCHANGED auditFailed

AuditError ==
    /\ auditFailed' = (kind = "broker")
    /\ UNCHANGED lines

\* Mutant: a session goes on without its line.
Approve_NotLatched(c) ==
    /\ pc[c] = "audit"
    /\ \/ AuditWrite(c, "approved") /\ Goto(c, "connect")
       \/ UNCHANGED <<lines, auditFailed>> /\ Goto(c, "connect")
    /\ UNCHANGED <<kind, server, slots, registered, cut, data>>

Approve(c) ==
    /\ pc[c] = "audit"
    /\ \/ AuditWrite(c, "approved") /\ Goto(c, "connect")
       \/ AuditError /\ Goto(c, IF kind = "agent" THEN "release" ELSE "refuse")
    /\ UNCHANGED <<kind, server, slots, registered, cut, data>>

AfterConnect == CASE kind \in {"broker", "alias"} -> "ack"
                  [] kind = "shadow" -> "register"
                  [] OTHER -> "relay"

AfterFailure == IF kind \in {"broker", "alias"} THEN "refuse" ELSE "release"

Connect(c) ==
    /\ pc[c] = "connect"
    /\ Goto(c, AfterConnect) \/ Goto(c, AfterFailure)
    /\ UNCHANGED <<control, lines, registered, cut, data>>

(* SSHShadow._session puts its peer where close() looks for it, and only then *)
(* asks whether close() has begun.                                            *)
Register(c) ==
    /\ pc[c] = "register"
    /\ registered' = [registered EXCEPT ![c] = Sides]
    /\ Goto(c, "check")
    /\ UNCHANGED <<control, lines, cut, data>>

\* Mutant: the session does not look at closed.
CheckClosed_Dropped(c) ==
    /\ pc[c] = "check"
    /\ Goto(c, "relay")
    /\ UNCHANGED <<control, lines, registered, cut, data>>

CheckClosed(c) ==
    /\ pc[c] = "check"
    /\ Goto(c, IF server = "serving" THEN "relay" ELSE "release")
    /\ UNCHANGED <<control, lines, registered, cut, data>>

Ack(c) ==
    /\ pc[c] = "ack"
    /\ \/ Goto(c, "relay") /\ UNCHANGED reason
       \/ /\ Goto(c, IF kind = "broker" THEN "record" ELSE "refuse")
          /\ reason' = [reason EXCEPT ![c] = "closed"]
    /\ UNCHANGED <<control, lines, registered, cut, endpoints, wire, buffers, delivered,
                   eof, ended, ready, age>>

(* Both write a last line, the result of a refusal or of the relay. *)
Refuse(c) ==
    /\ pc[c] = "refuse" /\ Goto(c, "release")
    /\ AuditWrite(c, "rejected") \/ AuditError
    /\ UNCHANGED <<kind, server, slots, registered, cut, data>>

Record(c) ==
    /\ pc[c] = "record" /\ Goto(c, "release")
    /\ AuditWrite(c, "ended") \/ AuditError
    /\ UNCHANGED <<kind, server, slots, registered, cut, data>>

(* The finally clause of Transport.handle waits for the process of an opened   *)
(* route, kills it and waits once more; the second wait may raise, and the     *)
(* release after it is skipped.                                                *)
Outlives(c) == kind = "alias" /\ reason[c] # "none"

(* The sockets are closed by now, and what they and the buffers held is lost. *)
Release(c) ==
    /\ pc[c] = "release"
    /\ \/ Goto(c, "done") /\ slots' = slots + 1
       \/ Outlives(c) /\ Goto(c, "lost") /\ UNCHANGED slots
    /\ registered' = [registered EXCEPT ![c] = {}]
    /\ wire' = [wire EXCEPT ![c] = [s \in Sides |-> <<>>]]
    /\ buffers' = [buffers EXCEPT ![c] = [s \in Sides |-> <<>>]]
    /\ ended' = [ended EXCEPT ![c] = {}] /\ age' = [age EXCEPT ![c] = 0]
    /\ UNCHANGED <<kind, server, auditFailed, lines, cut, endpoints, delivered, eof, ready,
                   reason>>

-----------------------------------------------------------------------------
(* relay_sockets.  At the head of its loop it passes on the ends of streams   *)
(* whose bytes are all sent, returns, or waits for sockets that are ready.    *)
AtHead(c) == pc[c] = "relay" /\ ready[c] = None

\* Mutant: the end is passed on before the buffered bytes.
Drained_EofOnly(c, s) == Other(s) \in ended[c]

Drained(c, s) == Other(s) \in ended[c] /\ buffers[c][s] = <<>>

ToShut(c) == {s \in Sides : Drained(c, s)} \ (cut[c] \union eof[c])

Shut(c) ==
    /\ ~Blocking /\ AtHead(c) /\ ToShut(c) # {}
    /\ eof' = [eof EXCEPT ![c] = @ \union ToShut(c)]
    /\ UNCHANGED <<control, session, endpoints, wire, buffers, delivered, loop>>

Return(c, why) ==
    /\ reason' = [reason EXCEPT ![c] = why]
    /\ ready' = [ready EXCEPT ![c] = None]
    /\ Goto(c, IF kind = "broker" \/ (kind = "alias" /\ why # "remote")
               THEN "record" ELSE "release")

\* Mutant: no idle timeout.
HeadReturns_NoTimeout(c) ==
    /\ ~Blocking /\ AtHead(c) /\ ToShut(c) = {}
    /\ (\A s \in Sides : Drained(c, s)) /\ Return(c, "eof")
    /\ UNCHANGED <<control, lines, registered, cut, endpoints, wire, buffers, delivered, eof,
                   ended, age>>

HeadReturns(c) ==
    /\ ~Blocking /\ AtHead(c) /\ ToShut(c) = {}
    /\ IF \A s \in Sides : Drained(c, s)
       THEN Return(c, "eof")
       ELSE ~Async /\ age[c] >= IdleTimeout /\ Return(c, "timeout")
    /\ UNCHANGED <<control, lines, registered, cut, endpoints, wire, buffers, delivered, eof,
                   ended, age>>

Readable(c, s) ==
    /\ s \notin ended[c]
    /\ wire[c][s] # <<>> \/ s \in finished[c] \/ s \in cut[c]

Room(c, s) == Len(buffers[c][Other(s)]) < MaxBuffer

Select(c) ==
    /\ ~Blocking /\ ~Async /\ AtHead(c) /\ ToShut(c) = {} /\ age[c] < IdleTimeout
    /\ ~(\A s \in Sides : Drained(c, s))
    /\ \E R \in SUBSET {s \in Sides : Readable(c, s) /\ Room(c, s)},
          W \in SUBSET {s \in Sides : buffers[c][s] # <<>>} :
          R \union W # {} /\ ready' = [ready EXCEPT ![c] = [r |-> R, w |-> W]]
    /\ UNCHANGED <<control, session, endpoints, wire, buffers, delivered, eof, ended, age,
                   reason>>

(* A ready socket may still say that it would block. *)
Send(c, s) ==
    /\ ~Blocking /\ pc[c] = "relay" /\ s \in ready[c].w
    /\ ready' = [ready EXCEPT ![c].w = @ \ {s}]
    /\ \/ /\ s \notin cut[c]
          /\ \E n \in 1..Len(buffers[c][s]) :
                /\ delivered' = [delivered EXCEPT ![c][s] = @ \o SubSeq(buffers[c][s], 1, n)]
                /\ buffers' = [buffers EXCEPT ![c][s] = SubSeq(@, n + 1, Len(@))]
          /\ age' = [age EXCEPT ![c] = 0]
       \/ UNCHANGED <<delivered, buffers, age>>
    /\ UNCHANGED <<control, session, endpoints, wire, eof, ended, reason>>

(* recv(n) takes up to n bytes; nothing, which means EOF, if n is 0. *)
Take(c, s, limit) ==
    IF wire[c][s] # <<>> /\ limit > 0
    THEN /\ \E n \in 1..Len(wire[c][s]) :
               /\ n <= limit
               /\ buffers' = [buffers EXCEPT ![c][Other(s)] = @ \o SubSeq(wire[c][s], 1, n)]
               /\ wire' = [wire EXCEPT ![c][s] = SubSeq(@, n + 1, Len(@))]
         /\ age' = [age EXCEPT ![c] = 0]
         /\ UNCHANGED ended
    ELSE /\ ended' = [ended EXCEPT ![c] = @ \union {s}]
         /\ UNCHANGED <<buffers, wire, age>>

Receive(c, s) ==
    /\ ~Blocking /\ pc[c] = "relay" /\ ready[c].w = {} /\ s \in ready[c].r
    /\ ready' = [ready EXCEPT ![c].r = @ \ {s}]
    /\ \/ Take(c, s, MaxBuffer - Len(buffers[c][Other(s)]))
       \/ UNCHANGED <<buffers, wire, age, ended>>
    /\ UNCHANGED <<control, session, endpoints, delivered, eof, reason>>

(* An OSError, in any loop. *)
Fails(c) ==
    /\ pc[c] = "relay"
    /\ Async \/ ready[c] # None \/ \E s \in Sides : buffers[c][s] # <<>>
    /\ Return(c, "closed")
    /\ UNCHANGED <<control, lines, registered, cut, endpoints, wire, buffers, delivered, eof,
                   ended, age>>

-----------------------------------------------------------------------------
(* relay of ssh_alias_bridge.py: a piece is written out before anything else; *)
(* the end of the remote stream ends the session, the end of the local one is *)
(* passed on.                                                                 *)
Idle(c) == \A s \in Sides : buffers[c][s] = <<>>

Wait(c) ==
    /\ Blocking /\ AtHead(c) /\ Idle(c)
    /\ LET R == {s \in Sides : Readable(c, s)} IN
       \/ /\ \E some \in SUBSET R \ {{}} :
                ready' = [ready EXCEPT ![c] = [r |-> some, w |-> {}]]
          /\ UNCHANGED <<pc, reason>>
       \/ R = {} /\ age[c] >= IdleTimeout /\ Return(c, "timeout")
    /\ UNCHANGED <<control, lines, registered, cut, endpoints, wire, buffers, delivered, eof,
                   ended, age>>

Copy(c, s) ==
    /\ Blocking /\ pc[c] = "relay" /\ Idle(c) /\ s \in ready[c].r
    /\ Take(c, s, MaxBuffer)
    /\ IF s \in ended'[c] /\ s = "peer"
       THEN Return(c, "remote") /\ UNCHANGED eof
       ELSE /\ ready' = [ready EXCEPT ![c].r = @ \ {s}]
            /\ eof' = IF s \in ended'[c] THEN [eof EXCEPT ![c] = @ \union {"peer"}] ELSE eof
            /\ UNCHANGED <<pc, reason>>
    /\ UNCHANGED <<control, lines, registered, cut, endpoints, delivered>>

WriteOut(c, s) ==
    /\ Blocking \/ Async
    /\ pc[c] = "relay" /\ buffers[c][s] # <<>>
    /\ \E n \in 1..Len(buffers[c][s]) :
          /\ delivered' = [delivered EXCEPT ![c][s] = @ \o SubSeq(buffers[c][s], 1, n)]
          /\ buffers' = [buffers EXCEPT ![c][s] = SubSeq(@, n + 1, Len(@))]
    /\ age' = [age EXCEPT ![c] = 0]
    /\ UNCHANGED <<control, session, endpoints, wire, eof, ended, ready, reason>>

(* _copy of service_relay.py, one coroutine for each side: it reads when the   *)
(* writer has drained.  The writers pass their bytes on, and the end after     *)
(* them, by themselves (WriteOut, Shut), also while _proxy closes them.        *)
Forward(c, s) ==
    /\ Async /\ pc[c] = "relay" /\ Readable(c, s) /\ Room(c, s)
    /\ Take(c, s, MaxBuffer)
    /\ UNCHANGED <<control, session, endpoints, delivered, eof, ready, reason>>

-----------------------------------------------------------------------------
(* SSHShadow: serve leaves its loop and calls close; the service relay is told *)
(* to stop.                                                                    *)
Stop ==
    /\ kind \in {"shadow", "service"} /\ server = "serving" /\ server' = "closing"
    /\ UNCHANGED <<kind, slots, auditFailed, session, data>>

(* close copies the sockets it knows under the lock and shuts them down. *)
CutSessions ==
    /\ kind = "shadow" /\ server = "closing" /\ server' = "cut"
    /\ cut' = [c \in Clients |-> IF pc[c] = "release" THEN cut[c] ELSE registered[c]]
    /\ UNCHANGED <<kind, slots, auditFailed, pc, lines, registered, data>>

(* ServiceRelay.close cancels every task, wherever it waits. *)
Cancel ==
    /\ Async /\ server = "closing" /\ server' = "cut"
    /\ pc' = [c \in Clients |-> IF pc[c] \in Stages THEN "release" ELSE pc[c]]
    /\ UNCHANGED <<kind, slots, auditFailed, lines, registered, cut, data>>

(* It waits for the tasks; for the threads only for a while, and the process   *)
(* ends with those left.                                                       *)
CloseReturns ==
    /\ server = "cut" /\ server' = "down"
    /\ Async => \A c \in Clients : pc[c] \notin Stages
    /\ pc' = [c \in Clients |-> "done"]
    /\ UNCHANGED <<kind, slots, auditFailed, lines, registered, cut, data>>

-----------------------------------------------------------------------------
EndpointWrites(c, s) ==
    /\ pc[c] = "relay" /\ s \notin finished[c] \union cut[c]
    /\ Len(written[c][s]) < MaxWrites[c][s]
    /\ written' = [written EXCEPT ![c][s] = Append(@, Len(@) + 1)]
    /\ wire' = [wire EXCEPT ![c][s] = Append(@, Len(written[c][s]) + 1)]
    /\ UNCHANGED <<control, session, finished, buffers, delivered, eof, loop>>

EndpointEnds(c, s) ==
    /\ pc[c] = "relay" /\ s \notin finished[c] \union cut[c]
    /\ finished' = [finished EXCEPT ![c] = @ \union {s}]
    /\ UNCHANGED <<control, session, written, wire, buffers, delivered, eof, loop>>

Tick ==
    /\ ~Async
    /\ \E c \in Clients : pc[c] = "relay" /\ age[c] < IdleTimeout
    /\ age' = [c \in Clients |-> IF pc[c] = "relay" /\ age[c] < IdleTimeout
                                 THEN age[c] + 1 ELSE age[c]]
    /\ UNCHANGED <<control, session, endpoints, wire, buffers, delivered, eof, ended, ready,
                   reason>>

Before(c) == Header(c) \/ Route(c) \/ Approve(c) \/ Connect(c) \/ Register(c)
             \/ CheckClosed(c) \/ Ack(c)
After(c) == Refuse(c) \/ Record(c) \/ Release(c)
Relay(c) == Shut(c) \/ HeadReturns(c) \/ Select(c) \/ Fails(c) \/ Wait(c)
            \/ \E s \in Sides : Send(c, s) \/ Receive(c, s) \/ Copy(c, s) \/ WriteOut(c, s)
                                 \/ Forward(c, s)

Next ==
    \/ Listen \/ Prepare \/ Stop \/ CutSessions \/ Cancel \/ CloseReturns \/ Tick
    \/ \E c \in Clients : Accept(c) \/ AcceptFails(c) \/ Before(c) \/ After(c) \/ Relay(c)
    \/ \E c \in Clients, s \in Sides : EndpointWrites(c, s) \/ EndpointEnds(c, s)

Spec == Init /\ [][Next]_vars

(* Every stage has a timeout of its own, a thread goes on when it can, and    *)
(* time passes.  Nothing is assumed of the endpoints: not that they read.     *)
FairSpec ==
    /\ Spec /\ WF_vars(Tick)
    /\ \A c \in Clients :
          WF_vars(\/ Before(c) \/ After(c) \/ Shut(c) \/ HeadReturns(c)
                  \/ \E s \in Sides : Send(c, s) \/ Receive(c, s))

-----------------------------------------------------------------------------
TypeOK ==
    /\ kind \in Kinds /\ server \in {"new", "serving", "closing", "cut", "down"}
    /\ slots \in 0..MaxSessions /\ auditFailed \in BOOLEAN
    /\ pc \in [Clients -> Stages \union {"idle", "done", "lost"}]
    /\ lines \in [Clients -> SUBSET {"approved", "rejected", "ended"}]
    /\ registered \in [Clients -> SUBSET Sides] /\ cut \in [Clients -> SUBSET Sides]
    /\ finished \in [Clients -> SUBSET Sides] /\ eof \in [Clients -> SUBSET Sides]
    /\ ended \in [Clients -> SUBSET Sides]
    /\ \A f \in {written, wire, buffers, delivered} : f \in [Clients -> [Sides -> Seq(Nat)]]
    /\ ready \in [Clients -> [r : SUBSET Sides, w : SUBSET Sides]]
    /\ age \in [Clients -> 0..IdleTimeout]
    /\ reason \in [Clients -> {"none", "eof", "timeout", "closed", "remote"}]

\* What the endpoints write: the place of a byte in its stream.
Bytes == UNION {UNION {1..MaxWrites[c][s] : s \in Sides} : c \in Clients}

\* A session as its endpoints see it: two streams.
Pipe == INSTANCE DuplexPipe WITH
    Sessions <- Clients,
    over <- [c \in Clients |->
        IF reason[c] = "eof" /\ cut[c] = {} THEN "eof"
        ELSE IF cut[c] # {} \/ pc[c] \in {"refuse", "record", "release", "done", "lost"}
             THEN "cut"
        ELSE "open"]

\* Every relay implements the two streams: nothing lost or reordered in the
\* bounded buffers, a half-close passed on only after the last byte and without
\* ending the other direction, "eof" returned only when both are complete.
RelaysPipe == Pipe!Spec

\* A slot is free, held by one session, or lost with one, on every path, refusals
\* and errors included; and it is lost only by the alias server, whose finally clause
\* can raise before its release, with a session whose route was open.
SlotsReturned == server # "down" =>
    /\ slots + Cardinality({c \in Clients : pc[c] \in Stages \union {"lost"}}) = MaxSessions
    /\ \A c \in Clients : pc[c] = "lost" => kind = "alias" /\ "approved" \in lines[c]

\* An SSH session that relays was approved on record, and one of the broker that
\* is over has its outcome on record unless the audit log has failed, which
\* stops every later approval.
AuditTrail == \A c \in Clients :
    /\ kind \in {"broker", "alias", "agent"} /\ pc[c] = "relay" => "approved" \in lines[c]
    /\ kind = "broker" /\ pc[c] = "release" /\ ~auditFailed =>
          ("ended" \in lines[c]) # ("rejected" \in lines[c])

\* After SSHShadow.close has shut the sockets it knew, no session relays over one
\* it did not know, wherever the session was between its connect and its loop; the
\* service relay has none left that relays.
CloseCutsAll == server = "cut" => \A c \in Clients : pc[c] = "relay" => cut[c] = Sides

\* A session over relay_sockets whose endpoints write no more from some time on ends
\* and gives its slot back, although they neither read nor close: bytes that can no
\* longer be sent do not keep it.  (Endpoints that go on writing and reading refresh
\* last_activity for ever.)
Silent(c) == <>[][UNCHANGED written[c]]_vars

SessionsEnd == \A c \in Clients : Silent(c) =>
    ((pc[c] \in Stages /\ kind \in {"bridge", "broker", "shadow"}) ~> (pc[c] = "done"))
=============================================================================
