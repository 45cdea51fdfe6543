---------------------------- MODULE CodexWebSocket ----------------------------
(***************************************************************************)
(* The one WebSocket the gateway lets through (cdm_addon.py): a request    *)
(* that asks for an upgrade is authorised, its handshake verified, and     *)
(* every message is written to the audit before it is forwarded, within    *)
(* the limits of the session.  Hooks run one at a time on the event loop,  *)
(* but a request hook waits for the resolution of its destination between  *)
(* the check of the latched fault and the decision.                        *)
(*                                                                         *)
(* An audit write may fail before anything is on disk, or after the record *)
(* is there (the flush of the directory fails).                            *)
(***************************************************************************)
EXTENDS Naturals, Sequences

CONSTANTS
    Sockets,       \* flows through the gateway that may ask for an upgrade
    MaxMessage,    \* CODEX_WS_MAX_MESSAGE
    MaxSession,    \* CODEX_WS_MAX_SESSION
    MaxMessages,   \* CODEX_WS_MAX_MESSAGES
    Faults         \* bound: audit writes that fail

ASSUME LimitsAssumption ==
    /\ MaxMessage \in Nat /\ MaxSession \in Nat /\ MaxMessages \in Nat
    /\ Faults \in Nat

VARIABLES
    stage,      \* where the flow stands
    kind,       \* what the request asks for
    allowed,    \* cdm_codex_ws_allowed
    verified,   \* cdm_codex_ws_verified
    count,      \* cdm_codex_ws_count
    bytes,      \* cdm_codex_ws_bytes
    log,        \* records of the flow's audit file
    forwarded,  \* messages that reached the other side
    fault,      \* audit_fault is latched
    failures    \* audit writes that have failed

meta == <<kind, allowed, verified, count, bytes>>
socketVars == <<stage, meta, log, forwarded, fault, failures>>

Kinds == {"codex", "upgrade", "plain"}
Message == [size : 0 .. MaxMessage + 1,
            form : {"json", "text", "binary"},
            from : {"client", "server"}]

WebSocketInit ==
    /\ stage = [f \in Sockets |-> "new"]
    /\ kind = [f \in Sockets |-> "plain"]
    /\ allowed = [f \in Sockets |-> FALSE]
    /\ verified = [f \in Sockets |-> FALSE]
    /\ count = [f \in Sockets |-> 0]
    /\ bytes = [f \in Sockets |-> 0]
    /\ log = [f \in Sockets |-> <<>>]
    /\ forwarded = [f \in Sockets |-> <<>>]
    /\ fault = FALSE
    /\ failures = 0

-----------------------------------------------------------------------------
(* _codex_ws_audit: append a record, flush file and directory.             *)

Recorded(f, record) == /\ log' = [log EXCEPT ![f] = Append(@, record)]
                       /\ UNCHANGED failures

\* The call raises: the record is on disk or it is not.
NotRecorded(f, record) == /\ failures < Faults
                          /\ failures' = failures + 1
                          /\ log' \in {log, [log EXCEPT ![f] = Append(@, record)]}

Event(name) == [event |-> name]

Goes(f, where) == stage' = [stage EXCEPT ![f] = where]

-----------------------------------------------------------------------------
(* request: everything up to the wait for the destination, and after it.   *)

\* An upgrade that is not the audited one, or any request once a fault is
\* latched, is answered by the gateway.
Request(f) ==
    /\ stage[f] = "new"
    /\ \E k \in Kinds :
          /\ kind' = [kind EXCEPT ![f] = k]
          /\ Goes(f, IF k = "upgrade" \/ fault THEN "refused" ELSE "resolving")
    /\ UNCHANGED <<allowed, verified, count, bytes, log, forwarded, fault,
                   failures>>

\* The destination is refused, or the policy or the reviewer blocks.
RequestBlocked(f) ==
    /\ stage[f] = "resolving"
    /\ Goes(f, "refused")
    /\ UNCHANGED <<meta, log, forwarded, fault, failures>>

\* A request sent on after a review, or one that asks for no upgrade: nothing
\* makes it a WebSocket.
RequestDispatched(f) ==
    /\ stage[f] = "resolving"
    /\ Goes(f, "dispatched")
    /\ UNCHANGED <<meta, log, forwarded, fault, failures>>

\* The policy allows the audited upgrade; a failed record fails the hook,
\* which latches and blocks.
Authorize(f) ==
    /\ stage[f] = "resolving"
    /\ kind[f] = "codex"
    /\ \/ /\ Recorded(f, Event("authorized"))
          /\ allowed' = [allowed EXCEPT ![f] = TRUE]
          /\ Goes(f, "dispatched")
          /\ UNCHANGED fault
       \/ /\ NotRecorded(f, Event("authorized"))
          /\ fault' = TRUE
          /\ Goes(f, "refused")
          /\ UNCHANGED allowed
    /\ UNCHANGED <<kind, verified, count, bytes, forwarded>>

-----------------------------------------------------------------------------
(* responseheaders                                                         *)

OrdinaryResponse(f) ==
    /\ stage[f] = "dispatched"
    /\ Goes(f, "answered")
    /\ UNCHANGED <<meta, log, forwarded, fault, failures>>

\* _codex_ws_response: the handshake of an upgrade the gateway authorised.
Accepted(f, valid) == allowed[f] /\ valid

\* Status 101.  Whatever is not accepted is answered by the gateway itself.
SwitchingProtocols(f) ==
    /\ stage[f] = "dispatched"
    /\ \E valid \in BOOLEAN :
          IF Accepted(f, valid)
          THEN \/ /\ Recorded(f, Event("opened"))
                  /\ verified' = [verified EXCEPT ![f] = TRUE]
                  /\ Goes(f, "open")
                  /\ UNCHANGED fault
               \/ /\ NotRecorded(f, Event("opened"))
                  /\ fault' = TRUE
                  /\ Goes(f, "refused")
                  /\ UNCHANGED verified
          ELSE /\ Goes(f, "refused")
               /\ UNCHANGED <<verified, log, fault, failures>>
    /\ UNCHANGED <<kind, allowed, count, bytes, forwarded>>

-----------------------------------------------------------------------------
(* websocket_message and websocket_end                                     *)

\* Mutant: the limits are compared with what has been forwarded so far.
Refused_OffByOne(f, m) ==
    \/ ~verified[f]
    \/ m.form # "json"
    \/ m.size > MaxMessage
    \/ bytes[f] > MaxSession
    \/ count[f] > MaxMessages

\* Not verified, binary, over a limit, or not a JSON object with a type.
Refused(f, m) ==
    \/ ~verified[f]
    \/ m.form # "json"
    \/ m.size > MaxMessage
    \/ bytes[f] + m.size > MaxSession
    \/ count[f] + 1 > MaxMessages

RecordOf(f, m) == [event |-> "message", sequence |-> count[f] + 1, body |-> m]

\* drop() and kill(): the message goes nowhere and the flow is finished.
MessageRefused(f) ==
    /\ stage[f] = "open"
    /\ \E m \in Message :
          /\ Refused(f, m)
          /\ \/ Recorded(f, Event("blocked")) /\ UNCHANGED fault
             \/ NotRecorded(f, Event("blocked")) /\ fault' = TRUE
    /\ Goes(f, "killed")
    /\ UNCHANGED <<meta, forwarded>>

\* Mutant: the bytes of the session are not added up.
MessageForwarded_Uncounted(f) ==
    /\ stage[f] = "open"
    /\ \E m \in Message :
          /\ ~Refused(f, m)
          /\ Recorded(f, RecordOf(f, m))
          /\ count' = [count EXCEPT ![f] = @ + 1]
          /\ forwarded' = [forwarded EXCEPT ![f] = Append(@, m)]
    /\ UNCHANGED <<stage, kind, allowed, verified, bytes, fault>>

MessageForwarded(f) ==
    /\ stage[f] = "open"
    /\ \E m \in Message :
          /\ ~Refused(f, m)
          /\ Recorded(f, RecordOf(f, m))
          /\ count' = [count EXCEPT ![f] = @ + 1]
          /\ bytes' = [bytes EXCEPT ![f] = @ + m.size]
          /\ forwarded' = [forwarded EXCEPT ![f] = Append(@, m)]
    /\ UNCHANGED <<stage, kind, allowed, verified, fault>>

MessageUnrecorded(f) ==
    /\ stage[f] = "open"
    /\ \E m \in Message :
          /\ ~Refused(f, m)
          /\ NotRecorded(f, RecordOf(f, m))
    /\ fault' = TRUE
    /\ Goes(f, "killed")
    /\ UNCHANGED <<meta, forwarded>>

ClosedRecord(f) == [event |-> "closed", messages |-> count[f], bytes |-> bytes[f]]

\* websocket_end: the connection has closed, by either side or by kill().
WebSocketEnd(f) ==
    /\ stage[f] \in {"open", "killed"}
    /\ IF verified[f]
       THEN \/ Recorded(f, ClosedRecord(f)) /\ UNCHANGED fault
            \/ NotRecorded(f, ClosedRecord(f)) /\ fault' = TRUE
       ELSE UNCHANGED <<log, failures, fault>>
    /\ Goes(f, "ended")
    /\ UNCHANGED <<meta, forwarded>>
-----------------------------------------------------------------------------
WebSocketNext ==
    \E f \in Sockets :
        \/ Request(f) \/ RequestBlocked(f) \/ RequestDispatched(f)
        \/ Authorize(f) \/ OrdinaryResponse(f) \/ SwitchingProtocols(f)
        \/ MessageRefused(f) \/ MessageForwarded(f) \/ MessageUnrecorded(f)
        \/ WebSocketEnd(f)

WebSocketSpec == WebSocketInit /\ [][WebSocketNext]_socketVars
-----------------------------------------------------------------------------
\* The records of an audit file.
Record ==
    [event : {"authorized", "opened", "blocked"}]
        \union [event : {"message"}, sequence : Nat, body : Message]
        \union [event : {"closed"}, messages : Nat, bytes : Nat]

\* Every variable has its type.
WebSocketTypeOK ==
    /\ stage \in [Sockets -> {"new", "resolving", "refused", "dispatched",
                            "answered", "open", "killed", "ended"}]
    /\ kind \in [Sockets -> Kinds]
    /\ allowed \in [Sockets -> BOOLEAN] /\ verified \in [Sockets -> BOOLEAN]
    /\ count \in [Sockets -> Nat] /\ bytes \in [Sockets -> Nat]
    /\ log \in [Sockets -> Seq(Record)] /\ forwarded \in [Sockets -> Seq(Message)]
    /\ fault \in BOOLEAN /\ failures \in 0 .. Faults

\* The messages are this many bytes, and no more than a session may have: there
\* are running totals from none to this.
AddsUpTo(s, total) ==
    \E sum \in [0 .. Len(s) -> 0 .. MaxSession] :
        /\ sum[0] = 0 /\ sum[Len(s)] = total
        /\ \A n \in DOMAIN s : sum[n] = sum[n - 1] + s[n].size

\* What reached the other side is within all three limits, and the audit file
\* begins with the authorisation, the verified handshake and every forwarded
\* message, in order and under consecutive numbers; one more message after them
\* is one whose write failed when it was on disk, and nothing was sent then.
TrailCoversForwarded ==
    \A f \in Sockets : forwarded[f] # <<>> =>
        /\ Len(forwarded[f]) <= MaxMessages
        /\ \E total \in 0 .. MaxSession : AddsUpTo(forwarded[f], total)
        /\ Len(forwarded[f]) + 2 <= Len(log[f])
        /\ log[f][1] = Event("authorized") /\ log[f][2] = Event("opened")
        /\ \A n \in DOMAIN forwarded[f] :
              /\ log[f][n + 2] = [event |-> "message", sequence |-> n, body |-> forwarded[f][n]]
              /\ forwarded[f][n].size <= MaxMessage
        /\ \A n \in Len(forwarded[f]) + 4 .. Len(log[f]) : log[f][n].event # "message"

\* A socket that has been opened and has ended either left a closing record
\* with the number and the bytes of exactly what was forwarded, as the last
\* line of its file, or the gateway is latched: no trail is cut off unnoticed.
TrailEndsOrLatched ==
    \A f \in Sockets : stage[f] = "ended" /\ ~fault =>
        LET last == log[f][Len(log[f])]
        IN  /\ log[f] # <<>> /\ last.event = "closed"
            /\ last.messages = Len(forwarded[f])
            /\ AddsUpTo(forwarded[f], last.bytes)
=============================================================================
