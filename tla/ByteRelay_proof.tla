-------------------------- MODULE ByteRelay_proof --------------------------
(***************************************************************************)
(* ByteRelay for any number of clients and slots, any buffer and any       *)
(* timeout.  The invariant has two halves: what the servers and the stages *)
(* of their sessions keep, and what the loops keep of the two streams.     *)
(* From the second follows that every relay is a DuplexPipe.               *)
(***************************************************************************)
EXTENDS ByteRelay, FiniteSetTheorems, SequenceTheorems, TLAPS

ControlOK ==
    /\ kind \in Kinds /\ server \in {"new", "serving", "closing", "cut", "down"}
    /\ slots \in 0..MaxSessions /\ auditFailed \in BOOLEAN
    /\ pc \in [Clients -> Stages \union {"idle", "done", "lost"}]
    /\ lines \in [Clients -> SUBSET {"approved", "rejected", "ended"}]
    /\ registered \in [Clients -> SUBSET Sides] /\ cut \in [Clients -> SUBSET Sides]

\* What is reached only in some servers, and what only while one runs.
Places ==
    /\ server \in {"closing", "cut"} => kind \in {"shadow", "service"}
    /\ \A c \in Clients :
          /\ server = "new" => pc[c] = "idle"
          /\ server = "down" => pc[c] \in {"idle", "done"}
          /\ pc[c] \in {"register", "check"} => kind = "shadow"
          /\ kind = "shadow" =>
                pc[c] \notin {"header", "route", "audit", "ack", "refuse", "record", "lost"}
          /\ kind = "service" /\ server = "cut" => pc[c] \notin Stages \ {"release"}

\* What close() of SSHShadow knows of a session, and what it has shut.
Cuts == \A c \in Clients :
    /\ cut[c] # {} => kind = "shadow" /\ server \in {"cut", "down"}
    /\ server # "down" /\ pc[c] \in {"idle", "done"} => registered[c] = {}
    /\ kind = "shadow" /\ pc[c] \in {"check", "relay"} => registered[c] = Sides
    /\ server = "cut" /\ pc[c] = "relay" => cut[c] = Sides

\* What is on record of a session, and what is not yet.
Trail == \A c \in Clients :
    /\ kind \in {"broker", "alias", "agent"} /\ pc[c] \in {"connect", "ack", "relay"} =>
          "approved" \in lines[c]
    /\ kind = "broker" /\ pc[c] \notin {"release", "done", "lost"} =>
          "ended" \notin lines[c] /\ "rejected" \notin lines[c]
    /\ kind = "broker" /\ pc[c] = "release" /\ ~auditFailed =>
          ("ended" \in lines[c]) # ("rejected" \in lines[c])

\* The sessions that hold a slot, and those that have lost theirs.
Occupied == {c \in Clients : pc[c] \in Stages \union {"lost"}}
SlotSum == server # "down" => slots + Cardinality(Occupied) = MaxSessions

Control == ControlOK /\ SlotSum /\ Places /\ Cuts /\ Trail

\* A loop that has returned, or a lost slot, means in the alias server a route that
\* was approved; no other server loses one.
Lost == \A c \in Clients :
    /\ kind = "alias" /\ reason[c] # "none" => "approved" \in lines[c]
    /\ pc[c] = "lost" => kind = "alias" /\ "approved" \in lines[c]

-----------------------------------------------------------------------------
Streams == [Clients -> [Sides -> Seq(Nat)]]

DataOK ==
    /\ finished \in [Clients -> SUBSET Sides] /\ eof \in [Clients -> SUBSET Sides]
    /\ ended \in [Clients -> SUBSET Sides]
    /\ written \in Streams /\ wire \in Streams /\ buffers \in Streams /\ delivered \in Streams
    /\ ready \in [Clients -> [r : SUBSET Sides, w : SUBSET Sides]]
    /\ age \in [Clients -> 0..IdleTimeout]
    /\ reason \in [Clients -> {"none", "eof", "timeout", "closed", "remote"}]

Early == {"idle", "header", "route", "audit", "connect", "register", "check", "ack"}

\* Until its sockets are closed, a session has every byte that was written:
\* delivered, in its buffer or on the wire, in this order.
Whole(c) == \A s \in Sides :
    (delivered[c][s] \o buffers[c][s]) \o wire[c][Other(s)] = written[c][Other(s)]
Conserved(c) == pc[c] \notin {"done", "lost"} => Whole(c)

\* The loop has read an end only where nothing more can come.
Final(c, s) == wire[c][s] = <<>> /\ s \in finished[c] \union cut[c]
Ends(c) == pc[c] = "relay" => \A s \in ended[c] : Final(c, s)

\* A side that select called readable stays so, and there stays room for it.
Waiting(c, s) == wire[c][s] # <<>> \/ s \in finished[c] \union cut[c]
StillReady(c) ==
    /\ kind = "service" => ready[c] = None
    /\ pc[c] = "relay" => \A s \in ready[c].r : Waiting(c, s) /\ (~Blocking => Room(c, s))

\* No loop has run yet; and none has returned "eof" that has not left.
Fresh(c) ==
    /\ pc[c] \in Early => ended[c] = {} /\ ready[c] = None /\ reason[c] = "none"
    /\ pc[c] \in {"relay", "refuse"} => reason[c] # "eof"

SessionOK(c) == Conserved(c) /\ Ends(c) /\ StillReady(c) /\ Fresh(c)

Data == DataOK /\ \A c \in Clients : SessionOK(c)

IInv == Control /\ Lost /\ Data

-----------------------------------------------------------------------------
(* Slots *)

\* A finite set with one element more.
LEMMA OneMore ==
  ASSUME NEW S, IsFiniteSet(S), NEW x, x \notin S
  PROVE  /\ IsFiniteSet(S \union {x}) /\ Cardinality(S \union {x}) = Cardinality(S) + 1
         /\ Cardinality(S) \in Nat
BY FS_AddElement, FS_CardinalityType

\* How many sessions there are: some finite number.
LEMMA OccupiedFinite == IsFiniteSet(Occupied) /\ Cardinality(Occupied) \in Nat
                        /\ IsFiniteSet(Occupied') /\ Cardinality(Occupied') \in Nat
<1>1. Occupied \subseteq Clients /\ Occupied' \subseteq Clients
  BY DEF Occupied
<1> QED BY <1>1, RelayAssumption, FS_Subset, FS_CardinalityType

\* Sessions that only go on keep their slots.
LEMMA SlotsKept ==
  ASSUME SlotSum, UNCHANGED <<server, slots>>,
         \A d \in Clients : \/ pc'[d] = pc[d]
                            \/ pc'[d] \in Stages /\ pc[d] \in Stages
                            \/ pc'[d] = "done" /\ pc[d] = "idle"
  PROVE  SlotSum'
<1>1. Occupied' = Occupied
  BY DEF Occupied, Stages
<1> QED BY <1>1 DEF SlotSum

\* A session that begins takes one,
LEMMA SlotTaken ==
  ASSUME ControlOK, SlotSum, UNCHANGED server, NEW c \in Clients, pc[c] = "idle",
         NEW stage \in Stages, Goto(c, stage), slots' = slots - 1
  PROVE  SlotSum'
<1>1. Occupied' = Occupied \union {c} /\ c \notin Occupied
  BY DEF Occupied, Goto, ControlOK, Stages
<1>2. Cardinality(Occupied') = Cardinality(Occupied) + 1
  BY <1>1, OneMore, OccupiedFinite
<1> QED BY <1>2, OccupiedFinite, RelayAssumption DEF SlotSum, ControlOK

\* and one that ends gives it back.
LEMMA SlotGiven ==
  ASSUME ControlOK, SlotSum, server # "down", UNCHANGED server, NEW c \in Clients,
         pc[c] \in Stages, Goto(c, "done"), slots' = slots + 1
  PROVE  SlotSum' /\ slots' \in 0..MaxSessions
<1>1. Occupied = Occupied' \union {c} /\ c \notin Occupied'
  BY DEF Occupied, Goto, ControlOK, Stages
<1>2. Cardinality(Occupied) = Cardinality(Occupied') + 1
  BY <1>1, OneMore, OccupiedFinite
<1> QED BY <1>2, OccupiedFinite, RelayAssumption DEF SlotSum, ControlOK

-----------------------------------------------------------------------------
(* The servers and the stages of their sessions *)

\* What each stage leads to.
LEMMA StageChoices ==
  ASSUME ControlOK
  PROVE  /\ FirstStage \in {"header", "audit", "connect"}
         /\ FirstStage = "connect" => kind \notin {"broker", "alias", "agent"}
         /\ kind = "shadow" => FirstStage = "connect"
         /\ AfterConnect \in {"ack", "register", "relay"}
         /\ AfterConnect = "register" <=> kind = "shadow"
         /\ AfterFailure \in {"refuse", "release"}
         /\ kind = "shadow" => AfterFailure = "release" /\ AfterConnect = "register"
         /\ kind = "broker" => AfterFailure = "refuse"
BY DEF ControlOK, Kinds, FirstStage, AfterConnect, AfterFailure

\* The steps of a session before its relay.
LEMMA BeforeControl ==
  ASSUME Control, NEW c \in Clients, Before(c)
  PROVE  Control'
<1> USE DEF Control
<1>1. PICK stage \in Stages : Goto(c, stage)
  BY StageChoices DEF Before, Header, Route, Approve, Connect, Register, CheckClosed, Ack, Stages
<1>2. pc[c] \in Stages
  BY DEF Before, Header, Route, Approve, Connect, Register, CheckClosed, Ack, Stages
<1>3. UNCHANGED <<kind, server, slots, cut>>
  BY DEF Before, Header, Route, Approve, Connect, Register, CheckClosed, Ack, control
<1>4. SlotSum'
  BY <1>1, <1>2, <1>3, SlotsKept DEF Goto, ControlOK
<1>5. ControlOK'
  <2>1. pc' \in [Clients -> Stages \union {"idle", "done", "lost"}]
    BY <1>1 DEF ControlOK, Goto
  <2>2. kind' \in Kinds /\ server' = server /\ slots' = slots /\ cut' = cut
    BY <1>3 DEF ControlOK
  <2>3. /\ auditFailed' \in BOOLEAN
        /\ lines' \in [Clients -> SUBSET {"approved", "rejected", "ended"}]
        /\ registered' \in [Clients -> SUBSET Sides]
    BY DEF ControlOK, Before, Header, Route, Approve, AuditWrite, AuditError, Connect, Register,
           CheckClosed, Ack, control
  <2> QED BY <2>1, <2>2, <2>3 DEF ControlOK
<1>6. Places'
  BY <1>2, <1>3, StageChoices
  DEF ControlOK, Places, Goto, Before, Header, Route, Approve, Connect, Register, CheckClosed, Ack
<1>7. Cuts'
  BY <1>2, <1>3, StageChoices
  DEF ControlOK, Places, Cuts, Goto, Before, Header, Route, Approve, Connect, Register, CheckClosed,
      Ack, Stages
<1>8. Trail'
  BY <1>2, <1>3, StageChoices
  DEF ControlOK, Places, Trail, Goto, Before, Header, Route, Approve, AuditWrite, AuditError, Connect,
      Register, CheckClosed, Ack, control
<1> QED BY <1>4, <1>5, <1>6, <1>7, <1>8

\* The steps after it.
LEMMA AfterControl ==
  ASSUME Control, NEW c \in Clients, After(c)
  PROVE  Control'
<1> USE DEF Control
<1>1. CASE Refuse(c) \/ Record(c)
  <2>1. Goto(c, "release") /\ pc[c] \in {"refuse", "record"} /\ UNCHANGED <<kind, server, slots>>
    BY <1>1 DEF Refuse, Record
  <2>2. SlotSum'
    BY <2>1, SlotsKept DEF Goto, ControlOK, Stages
  <2>3. ControlOK'
    <3>1. /\ auditFailed' \in BOOLEAN
          /\ lines' \in [Clients -> SUBSET {"approved", "rejected", "ended"}]
      <4>1. CASE AuditError
        BY <4>1 DEF ControlOK, AuditError
      <4>2. CASE \E line \in {"rejected", "ended"} : AuditWrite(c, line)
        BY <4>2 DEF ControlOK, AuditWrite
      <4> QED BY <1>1, <4>1, <4>2 DEF Refuse, Record
    <3>2. UNCHANGED <<registered, cut>>
      BY <1>1 DEF Refuse, Record
    <3> QED BY <2>1, <3>1, <3>2 DEF ControlOK, Goto, Stages
  <2>4. Places' /\ Cuts'
    BY <1>1 DEF ControlOK, Places, Cuts, Goto, Refuse, Record, Stages
  <2>5. Trail'
    <3>1. /\ pc'[c] = "release" /\ \A d \in Clients \ {c} : pc'[d] = pc[d] /\ lines'[d] = lines[d]
          /\ kind = "broker" /\ auditFailed => auditFailed'
      BY <1>1, <2>1 DEF ControlOK, Goto, Refuse, Record, AuditWrite, AuditError
    <3>2. ASSUME kind = "broker", ~auditFailed'
          PROVE  ("ended" \in lines'[c]) # ("rejected" \in lines'[c])
      <4>1. "ended" \notin lines[c] /\ "rejected" \notin lines[c]
        BY <2>1, <3>2 DEF Trail
      <4>2. PICK line \in {"rejected", "ended"} : AuditWrite(c, line)
        BY <1>1, <3>2 DEF Refuse, Record, AuditError
      <4>3. lines'[c] = lines[c] \union {line}
        BY <4>2 DEF AuditWrite, ControlOK
      <4> QED BY <4>1, <4>3
    <3> QED BY <2>1, <3>1, <3>2 DEF Trail
  <2> QED BY <2>2, <2>3, <2>4, <2>5
<1>2. CASE Release(c)
  <2>1. pc[c] = "release" /\ server # "down" /\ UNCHANGED server
    BY <1>2 DEF Release, Places
  <2>2. SlotSum' /\ slots' \in 0..MaxSessions
    <3>1. CASE Goto(c, "done") /\ slots' = slots + 1
      BY <2>1, <3>1, SlotGiven DEF Stages
    <3>2. CASE Goto(c, "lost") /\ UNCHANGED slots
      <4>1. Occupied' = Occupied
        BY <2>1, <3>2 DEF Occupied, Goto, ControlOK, Stages
      <4> QED BY <2>1, <3>2, <4>1 DEF SlotSum, ControlOK
    <3> QED BY <1>2, <3>1, <3>2 DEF Release
  <2>3. ControlOK'
    BY <1>2, <2>2 DEF ControlOK, Goto, Release
  <2>4. Places' /\ Cuts' /\ Trail'
    BY <1>2, <2>1 DEF ControlOK, Places, Cuts, Trail, Goto, Release, Outlives, Stages
  <2> QED BY <2>2, <2>3, <2>4
<1> QED BY <1>1, <1>2 DEF After

\* A client is accepted, or closed at once.
LEMMA AcceptControl ==
  ASSUME Control, NEW c \in Clients, Accept(c)
  PROVE  Control'
<1> USE DEF Control
<1>1. pc[c] = "idle" /\ server = "serving" /\ UNCHANGED <<kind, server, auditFailed, lines, cut>>
  BY DEF Accept
<1>2. CASE Full /\ Goto(c, "done") /\ UNCHANGED <<slots, registered>>
  <2>1. SlotSum'
    BY <1>1, <1>2, SlotsKept DEF Goto, ControlOK, Stages
  <2>2. ControlOK' /\ Places' /\ Cuts' /\ Trail'
    BY <1>1, <1>2 DEF ControlOK, Places, Cuts, Trail, Goto, Stages
  <2> QED BY <2>1, <2>2
<1>3. CASE /\ ~Full /\ slots' = slots - 1 /\ Goto(c, FirstStage)
           /\ registered' = IF kind = "shadow" THEN [registered EXCEPT ![c] = {"client"}]
                                               ELSE registered
  <2>1. FirstStage \in Stages
    BY <1>1, StageChoices DEF Stages
  <2>2. SlotSum'
    BY <1>1, <1>3, <2>1, SlotTaken
  <2>3. slots' \in 0..MaxSessions
    BY <1>3, RelayAssumption DEF Full, ControlOK
  <2>4. ControlOK'
    BY <1>1, <1>3, <2>1, <2>3 DEF ControlOK, Goto, Sides
  <2>5. Places' /\ Cuts' /\ Trail'
    BY <1>1, <1>3, StageChoices DEF ControlOK, Places, Cuts, Trail, Goto
  <2> QED BY <2>2, <2>4, <2>5
<1> QED BY <1>2, <1>3 DEF Accept

\* All sessions are gone with the process.
LEMMA GoneControl ==
  ASSUME Control, server' = "down", pc' = [d \in Clients |-> "done"],
         UNCHANGED <<kind, slots, auditFailed, lines, registered, cut>>
  PROVE  Control'
BY DEF Control, ControlOK, SlotSum, Places, Cuts, Trail

\* The thread of a session cannot be started.
LEMMA AcceptFailsControl ==
  ASSUME Control, NEW c \in Clients, AcceptFails(c)
  PROVE  Control'
<1>1. CASE kind # "bridge" /\ Goto(c, "done")
  <2> USE <1>1 DEF Control
  <2>1. pc[c] = "idle" /\ UNCHANGED <<kind, slots, auditFailed, lines, registered, cut>>
        /\ server = "serving"
    BY DEF AcceptFails
  <2>2. /\ server' = "serving" \/ (server' = "closing" /\ kind = "shadow")
    BY DEF AcceptFails
  <2>3. Occupied' = Occupied
    BY <2>1 DEF Occupied, Goto, ControlOK, Stages
  <2>4. SlotSum'
    BY <2>1, <2>2, <2>3 DEF SlotSum
  <2>5. ControlOK' /\ Places' /\ Cuts' /\ Trail'
    BY <2>1, <2>2 DEF ControlOK, Places, Cuts, Trail, Goto, Stages
  <2> QED BY <2>4, <2>5
<1>2. CASE server' = "down" /\ pc' = [d \in Clients |-> "done"]
  BY <1>2, GoneControl DEF AcceptFails
<1> QED BY <1>1, <1>2 DEF AcceptFails

\* A server begins, or is told to stop.
LEMMA ServerControl ==
  ASSUME Control, Listen \/ Prepare \/ Stop
  PROVE  Control'
<1> USE DEF Control
<1>1. /\ server \in {"new", "serving"} /\ UNCHANGED <<kind, slots, auditFailed, session>>
      /\ server' \in {"serving", "down", "closing"}
      /\ server' = "down" => server = "new"
      /\ server' = "closing" => kind \in {"shadow", "service"}
  BY DEF Listen, Prepare, Stop
<1>2. ASSUME server' = "down", NEW c \in Clients
      PROVE  pc[c] = "idle"
  BY <1>1, <1>2 DEF Places
<1> QED BY <1>1, <1>2 DEF ControlOK, SlotSum, Occupied, Places, Cuts, Trail, session

\* close() shuts the sockets it knows: those of every session that relays.
LEMMA CutControl ==
  ASSUME Control, CutSessions
  PROVE  Control'
<1> USE DEF Control
<1>1. /\ kind = "shadow" /\ server = "closing" /\ server' = "cut"
      /\ UNCHANGED <<kind, slots, auditFailed, pc, lines, registered>>
  BY DEF CutSessions
<1>2. \A c \in Clients : cut'[c] = IF pc[c] = "release" THEN cut[c] ELSE registered[c]
  BY DEF CutSessions
<1>3. ControlOK'
  BY <1>1 DEF CutSessions, ControlOK
<1>4. SlotSum' /\ Places' /\ Trail'
  BY <1>1 DEF SlotSum, Occupied, Places, Trail
<1>5. Cuts'
  BY <1>1, <1>2 DEF Cuts
<1> QED BY <1>3, <1>4, <1>5

\* The service relay cancels its tasks; the process ends with what is left.
LEMMA CloseControl ==
  ASSUME Control, Cancel \/ CloseReturns
  PROVE  Control'
<1>1. CASE Cancel
  <2> USE DEF Control
  <2>1. /\ kind = "service" /\ server = "closing" /\ server' = "cut"
        /\ UNCHANGED <<kind, slots, auditFailed, lines, registered, cut>>
    BY <1>1 DEF Cancel, Async
  <2>2. \A c \in Clients : pc'[c] = IF pc[c] \in Stages THEN "release" ELSE pc[c]
    BY <1>1 DEF Cancel
  <2>3. Occupied' = Occupied
    BY <2>2 DEF Occupied, Stages
  <2>4. SlotSum'
    BY <2>1, <2>3 DEF SlotSum
  <2>5. ControlOK'
    BY <1>1, <2>1 DEF Cancel, ControlOK, Stages
  <2>6. Places' /\ Cuts' /\ Trail'
    BY <2>1, <2>2 DEF ControlOK, Places, Cuts, Trail, Stages
  <2> QED BY <2>4, <2>5, <2>6
<1>2. CASE CloseReturns
  BY <1>2, GoneControl DEF CloseReturns
<1> QED BY <1>1, <1>2

\* A loop that returns.
LEMMA ReturnControl ==
  ASSUME Control, NEW c \in Clients, pc[c] = "relay",
         NEW why \in {"eof", "timeout", "closed", "remote"}, Return(c, why),
         UNCHANGED <<control, lines, registered, cut>>
  PROVE  Control'
<1> USE DEF Control
<1>1. PICK stage \in {"record", "release"} :
         /\ Goto(c, stage)
         /\ kind = "broker" => stage = "record"
         /\ stage = "record" => kind \in {"broker", "alias"}
  BY DEF Return
<1>2. SlotSum'
  BY <1>1, SlotsKept DEF Goto, ControlOK, Stages, control
<1>3. ControlOK' /\ Places' /\ Cuts' /\ Trail'
  BY <1>1 DEF ControlOK, Places, Cuts, Trail, Goto, Stages, control
<1> QED BY <1>2, <1>3

\* What changes only the streams.
LEMMA SameControl ==
  ASSUME Control, UNCHANGED <<control, session>>
  PROVE  Control'
BY DEF Control, ControlOK, SlotSum, Occupied, Places, Cuts, Trail, control, session

\* A loop returns, or leaves its session where it is.
LEMMA RelayChoices ==
  ASSUME NEW c \in Clients, Relay(c)
  PROVE  \/ UNCHANGED <<control, session, reason>>
         \/ /\ pc[c] = "relay" /\ UNCHANGED <<control, lines, registered, cut>>
            /\ \E why \in {"eof", "timeout", "closed", "remote"} : Return(c, why)
<1>1. CASE HeadReturns(c)
  BY <1>1 DEF HeadReturns, AtHead
<1>2. CASE Fails(c)
  BY <1>2 DEF Fails
<1>3. CASE Wait(c)
  BY <1>3 DEF Wait, AtHead, session
<1>4. CASE \E s \in Sides : Copy(c, s)
  BY <1>4 DEF Copy, session
<1>5. CASE \/ Shut(c) \/ Select(c)
           \/ \E s \in Sides : Send(c, s) \/ Receive(c, s) \/ WriteOut(c, s) \/ Forward(c, s)
  BY <1>5 DEF Shut, Select, Send, Receive, WriteOut, Forward, loop
<1> QED BY <1>1, <1>2, <1>3, <1>4, <1>5 DEF Relay

\* Every step keeps what the servers keep.
LEMMA ControlStep == Control /\ [Next]_vars => Control'
<1> SUFFICES ASSUME Control, [Next]_vars
             PROVE  Control'
  OBVIOUS
<1>1. CASE UNCHANGED vars
  BY <1>1, SameControl DEF vars
<1>2. CASE Listen \/ Prepare \/ Stop
  BY <1>2, ServerControl
<1>3. CASE CutSessions \/ Cancel \/ CloseReturns
  BY <1>3, CutControl, CloseControl
<1>4. CASE Tick \/ \E c \in Clients, s \in Sides : EndpointWrites(c, s) \/ EndpointEnds(c, s)
  BY <1>4, SameControl DEF Tick, EndpointWrites, EndpointEnds
<1>5. ASSUME NEW c \in Clients, Accept(c) \/ AcceptFails(c) \/ Before(c) \/ After(c)
      PROVE  Control'
  BY <1>5, AcceptControl, AcceptFailsControl, BeforeControl, AfterControl
<1>6. ASSUME NEW c \in Clients, Relay(c)
      PROVE  Control'
  BY <1>6, RelayChoices, ReturnControl, SameControl
<1> QED BY <1>1, <1>2, <1>3, <1>4, <1>5, <1>6 DEF Next

\* A server that has not begun.
LEMMA InitControl == Init => Control
<1> SUFFICES ASSUME Init
             PROVE  Control
  OBVIOUS
<1>1. Occupied = {}
  BY DEF Init, Occupied, Stages
<1>2. SlotSum
  <2>1. slots + Cardinality(Occupied) = MaxSessions
    BY <1>1, FS_EmptySet, RelayAssumption DEF Init
  <2> QED BY <2>1 DEF SlotSum
<1>3. ControlOK
  <2>1. slots \in 0..MaxSessions /\ kind \in Kinds /\ server = "new" /\ auditFailed = FALSE
    BY RelayAssumption DEF Init
  <2>2. /\ pc = [c \in Clients |-> "idle"] /\ lines = [c \in Clients |-> {}]
        /\ registered = [c \in Clients |-> {}] /\ cut = [c \in Clients |-> {}]
    BY DEF Init
  <2> QED BY <2>1, <2>2 DEF ControlOK
<1>4. Places /\ Cuts /\ Trail
  BY DEF Init, Places, Cuts, Trail, Stages
<1> QED BY <1>2, <1>3, <1>4 DEF Control

-----------------------------------------------------------------------------
(* Streams *)

\* A stream that is taken apart and put together again.
LEMMA Halves ==
  ASSUME NEW b \in Seq(Nat), NEW n \in 1..Len(b)
  PROVE  /\ SubSeq(b, 1, n) \in Seq(Nat) /\ SubSeq(b, n + 1, Len(b)) \in Seq(Nat)
         /\ Len(SubSeq(b, 1, n)) = n /\ Len(SubSeq(b, n + 1, Len(b))) = Len(b) - n
         /\ SubSeq(b, 1, n) \o SubSeq(b, n + 1, Len(b)) = b
OBVIOUS

\* It does not matter where it is cut,
LEMMA Together ==
  ASSUME NEW a \in Seq(Nat), NEW b \in Seq(Nat), NEW w \in Seq(Nat)
  PROVE  /\ (a \o b) \o w = a \o (b \o w)
         /\ a \o b \in Seq(Nat) /\ Len(a \o b) = Len(a) + Len(b)
         /\ SubSeq(a \o b, 1, Len(a)) = a
OBVIOUS

\* which is said again for any three,
LEMMA Associative ==
  \A x, y, z \in Seq(Nat) : (x \o y) \o z = x \o (y \o z)
BY Together

\* where it grows it grows at its end,
LEMMA Grows ==
  ASSUME NEW a \in Seq(Nat), NEW w \in Seq(Nat), NEW v \in Nat
  PROVE  a \o Append(w, v) = Append(a \o w, v) /\ Append(w, v) \in Seq(Nat) /\ Append(w, v) # <<>>
OBVIOUS

\* and an empty part is nothing.
LEMMA NothingLeft ==
  ASSUME NEW a \in Seq(Nat)
  PROVE  a \o <<>> = a
OBVIOUS

\* Bytes go from the buffer to the endpoint: nothing is lost, and the endpoint
\* has a longer beginning of what was written.
LEMMA PartSent ==
  \A x, y, z \in Seq(Nat) : \A k \in 1..Len(y) :
     /\ ((x \o SubSeq(y, 1, k)) \o SubSeq(y, k + 1, Len(y))) \o z = (x \o y) \o z
     /\ x \o SubSeq(y, 1, k) = SubSeq((x \o y) \o z, 1, Len(x) + k)
     /\ Len(x) + k \in Len(x) + 1 .. Len((x \o y) \o z)
<1> TAKE d, b, w \in Seq(Nat)
<1> TAKE n \in 1..Len(b)
<1>1. PICK h \in Seq(Nat), t \in Seq(Nat) :
         h = SubSeq(b, 1, n) /\ t = SubSeq(b, n + 1, Len(b)) /\ Len(h) = n /\ h \o t = b
  <2>1. /\ SubSeq(b, 1, n) \in Seq(Nat) /\ SubSeq(b, n + 1, Len(b)) \in Seq(Nat)
        /\ Len(SubSeq(b, 1, n)) = n /\ SubSeq(b, 1, n) \o SubSeq(b, n + 1, Len(b)) = b
    BY Halves
  <2> QED BY <2>1, Zenon
<1>2. (d \o h) \o t = d \o b
  <2>1. (d \o h) \o t = d \o (h \o t)
    <3>1. \A y, z \in Seq(Nat) : (d \o y) \o z = d \o (y \o z)
      BY Associative, Zenon
    <3> QED BY <3>1, Zenon
  <2> QED BY <1>1, <2>1
<1>3. d \o h \in Seq(Nat) /\ t \o w \in Seq(Nat) /\ Len(d \o h) = Len(d) + n
  BY <1>1
<1>4. ((d \o h) \o t) \o w = (d \o h) \o (t \o w)
  <2>1. \A y, z \in Seq(Nat) : ((d \o h) \o y) \o z = (d \o h) \o (y \o z)
    BY <1>3, Associative, Zenon
  <2> QED BY <2>1, Zenon
<1>5. SubSeq((d \o h) \o (t \o w), 1, Len(d \o h)) = d \o h
  BY <1>3, Together
<1>6. Len((d \o b) \o w) = Len(d) + Len(b) + Len(w)
  OBVIOUS
<1>7. Len(d) + n \in Len(d) + 1 .. Len((d \o b) \o w)
  BY <1>6
<1> QED BY <1>1, <1>2, <1>3, <1>4, <1>5, <1>7

\* A part that is passed on is a longer beginning of what was sent.
LEMMA PartSeen ==
  \A x, y, z \in Seq(Nat) : \A k \in 1..Len(y) :
     /\ x \o SubSeq(y, 1, k) = SubSeq((x \o y) \o z, 1, Len(x) + k)
     /\ Len(x) + k \in Len(x) + 1 .. Len((x \o y) \o z)
<1> TAKE x, y, z \in Seq(Nat)
<1> TAKE k \in 1..Len(y)
<1>1. \A v \in Seq(Nat) : \A j \in 1..Len(y) :
         /\ ((x \o SubSeq(y, 1, j)) \o SubSeq(y, j + 1, Len(y))) \o v = (x \o y) \o v
         /\ x \o SubSeq(y, 1, j) = SubSeq((x \o y) \o v, 1, Len(x) + j)
         /\ Len(x) + j \in Len(x) + 1 .. Len((x \o y) \o v)
  BY PartSent, ZenonT(60)
<1> QED BY <1>1, ZenonT(60)

\* The two sides.
LEMMA TwoSides ==
  ASSUME NEW s \in Sides
  PROVE  Other(s) \in Sides /\ Other(s) # s /\ Other(Other(s)) = s /\ Sides = {s, Other(s)}
BY DEF Sides, Other

-----------------------------------------------------------------------------
(* What leaves the streams alone *)

\* Nothing of session d changes.
Still(d) ==
    /\ pc'[d] = pc[d] /\ cut'[d] = cut[d] /\ written'[d] = written[d] /\ finished'[d] = finished[d]
    /\ wire'[d] = wire[d] /\ buffers'[d] = buffers[d] /\ delivered'[d] = delivered[d]
    /\ ended'[d] = ended[d] /\ ready'[d] = ready[d] /\ reason'[d] = reason[d]

\* It is enough to look at the session that takes the step.
LEMMA OneSession ==
  ASSUME Data, UNCHANGED kind, NEW c \in Clients, \A d \in Clients \ {c} : Still(d),
         DataOK', SessionOK(c)'
  PROVE  Data'
<1>1. ASSUME NEW d \in Clients \ {c}
      PROVE  SessionOK(d)'
  <2>1. SessionOK(d) /\ Still(d)
    BY <1>1 DEF Data
  <2>2. Conserved(d)'
    BY <2>1 DEF Still, SessionOK, Conserved, Whole
  <2>3. Ends(d)' /\ Fresh(d)'
    BY <2>1 DEF Still, SessionOK, Ends, Final, Fresh
  <2>4. StillReady(d)'
    BY <2>1 DEF Still, SessionOK, StillReady, Waiting, Room, Blocking
  <2> QED BY <2>2, <2>3, <2>4 DEF SessionOK
<1> QED BY <1>1 DEF Data

\* Where a session may go without a look at its streams.
Moves(c) ==
    \/ pc'[c] = pc[c]
    \/ pc'[c] \in {"done", "lost"}
    \/ pc[c] \notin {"done", "lost"} /\ pc'[c] \in {"record", "release"}
    \/ pc[c] \in Early /\ pc'[c] \in Early \union {"relay", "refuse"}

\* The steps of servers and of sessions that do not relay.
LEMMA MovesData ==
  ASSUME Data, UNCHANGED <<kind, endpoints, wire, buffers, delivered, eof, ended, ready, age>>,
         \A c \in Clients : Moves(c) /\ cut[c] \subseteq cut'[c],
         reason' \in [Clients -> {"none", "eof", "timeout", "closed", "remote"}],
         \A c \in Clients :
            \/ reason'[c] = reason[c]
            \/ reason'[c] = "closed" /\ pc'[c] \notin Early
  PROVE  Data'
<1>1. DataOK'
  BY DEF Data, DataOK, endpoints
<1>2. ASSUME NEW c \in Clients
      PROVE  SessionOK(c)'
  <2>1. SessionOK(c) /\ Moves(c)
    BY DEF Data
  <2>2. Conserved(c)'
    BY <2>1 DEF SessionOK, Conserved, Whole, Moves, Early, endpoints
  <2>3. Fresh(c)'
    BY <2>1 DEF SessionOK, Fresh, Moves, Early
  <2>4. Ends(c)' /\ StillReady(c)'
    BY <2>1 DEF SessionOK, Fresh, Ends, Final, StillReady, Waiting, Room, Blocking, Moves, Early, None,
                endpoints
  <2> QED BY <2>2, <2>3, <2>4 DEF SessionOK
<1> QED BY <1>1, <1>2 DEF Data

\* The same where reasons and shut sockets stay what they are.
LEMMA StagesData ==
  ASSUME Data, UNCHANGED <<kind, cut, data>>, \A c \in Clients : Moves(c)
  PROVE  Data'
<1>1. reason' \in [Clients -> {"none", "eof", "timeout", "closed", "remote"}]
  BY DEF Data, DataOK, data, loop
<1>2. /\ UNCHANGED <<kind, endpoints, wire, buffers, delivered, eof, ended, ready, age>>
      /\ reason' = reason /\ cut' = cut
  BY DEF data, loop
<1> QED BY <1>1, <1>2, MovesData

\* The stages before and after a relay.
LEMMA BeforeData ==
  ASSUME IInv, NEW c \in Clients, Before(c)
  PROVE  Data'
<1>0. Control /\ Data
  BY DEF IInv
<1>1. \A d \in Clients : Moves(d)
  <2>1. PICK stage \in {"route", "audit", "refuse", "connect", "release", "ack", "register", "relay",
                        "check", "record"} : Goto(c, stage)
    BY <1>0, StageChoices
    DEF Control, Before, Header, Route, Approve, Connect, Register, CheckClosed, Ack
  <2>2. pc[c] \in Early /\ pc[c] \notin {"done", "lost"}
    BY DEF Before, Header, Route, Approve, Connect, Register, CheckClosed, Ack, Early
  <2> QED BY <1>0, <2>1, <2>2 DEF Control, ControlOK, Goto, Moves, Early
<1>2. CASE UNCHANGED reason
  BY <1>0, <1>1, <1>2, StagesData
  DEF Before, Header, Route, Approve, Connect, Register, CheckClosed, Ack, control, data, loop
<1>3. CASE reason' = [reason EXCEPT ![c] = "closed"] /\ Ack(c) /\ pc'[c] \notin Early
  <2>1. /\ UNCHANGED <<kind, endpoints, wire, buffers, delivered, eof, ended, ready, age>>
        /\ UNCHANGED cut
    BY <1>3 DEF Ack, control
  <2>2. /\ reason' \in [Clients -> {"none", "eof", "timeout", "closed", "remote"}]
        /\ \A d \in Clients : \/ reason'[d] = reason[d]
                              \/ reason'[d] = "closed" /\ pc'[d] \notin Early
    BY <1>0, <1>3 DEF Data, DataOK
  <2> QED BY <1>0, <1>1, <2>1, <2>2, MovesData
<1>4. ASSUME Ack(c)
      PROVE  \/ UNCHANGED reason
             \/ reason' = [reason EXCEPT ![c] = "closed"] /\ pc'[c] \notin Early
  BY <1>0, <1>4 DEF Ack, Goto, Control, ControlOK, Early
<1>5. CASE Ack(c)
  BY <1>2, <1>3, <1>4, <1>5
<1>6. CASE ~Ack(c)
  BY <1>2, <1>6
  DEF Before, Header, Route, Approve, Connect, Register, CheckClosed, data, loop
<1> QED BY <1>5, <1>6

\* The last lines, and the end of a session, which loses what was under way.
LEMMA AfterData ==
  ASSUME IInv, NEW c \in Clients, After(c)
  PROVE  Data'
<1>0. Control /\ Data
  BY DEF IInv
<1>1. CASE Refuse(c) \/ Record(c)
  <2>1. \A d \in Clients : Moves(d)
    BY <1>0, <1>1 DEF Refuse, Record, Goto, Control, ControlOK, Moves
  <2> QED BY <1>0, <1>1, <2>1, StagesData DEF Refuse, Record
<1>2. CASE Release(c)
  <2>1. pc'[c] \in {"done", "lost"} /\ \A d \in Clients \ {c} : Still(d)
    BY <1>0, <1>2 DEF Release, Goto, Control, ControlOK, Data, DataOK, Still, endpoints
  <2>2. DataOK'
    <3>1. [x \in Sides |-> <<>>] \in [Sides -> Seq(Nat)]
      OBVIOUS
    <3>2. wire' \in Streams /\ buffers' \in Streams
      BY <1>0, <1>2, <3>1 DEF Release, Data, DataOK, Streams
    <3>3. ended' \in [Clients -> SUBSET Sides] /\ age' \in [Clients -> 0..IdleTimeout]
      BY <1>0, <1>2, RelayAssumption DEF Release, Data, DataOK
    <3> QED BY <1>0, <1>2, <3>2, <3>3 DEF Release, Data, DataOK, endpoints
  <2>3. SessionOK(c)'
    BY <1>0, <1>2, <2>1 DEF Release, Data, SessionOK, Conserved, Ends, StillReady, Fresh, Early
  <2> QED BY <1>0, <1>2, <2>1, <2>2, <2>3, OneSession DEF Release
<1> QED BY <1>1, <1>2 DEF After

\* What the servers do to their sessions.
LEMMA ServerData ==
  ASSUME IInv, \/ Listen \/ Prepare \/ Stop \/ CutSessions \/ Cancel \/ CloseReturns
               \/ \E c \in Clients : Accept(c) \/ AcceptFails(c)
  PROVE  Data'
<1>0. Control /\ Data
  BY DEF IInv
<1>1. CASE Listen \/ Prepare \/ Stop
  BY <1>0, <1>1, StagesData DEF Listen, Prepare, Stop, session, Moves
<1>2. CASE CutSessions
  <2>1. \A c \in Clients : cut[c] = {} /\ Moves(c)
    BY <1>0, <1>2 DEF CutSessions, Control, Cuts, Moves
  <2>2. /\ UNCHANGED <<kind, endpoints, wire, buffers, delivered, eof, ended, ready, age>>
        /\ UNCHANGED reason
    BY <1>2 DEF CutSessions, data, loop
  <2>3. reason' \in [Clients -> {"none", "eof", "timeout", "closed", "remote"}]
    BY <1>0, <2>2 DEF Data, DataOK
  <2> QED BY <1>0, <2>1, <2>2, <2>3, MovesData
<1>3. CASE Cancel \/ CloseReturns
  <2>1. \A c \in Clients : Moves(c)
    BY <1>3 DEF Cancel, CloseReturns, Moves, Stages
  <2> QED BY <1>0, <1>3, <2>1, StagesData DEF Cancel, CloseReturns
<1>4. ASSUME NEW c \in Clients, Accept(c) \/ AcceptFails(c)
      PROVE  Data'
  <2>1. CASE pc' = [d \in Clients |-> "done"]
    BY <1>0, <1>4, <2>1, StagesData DEF Accept, AcceptFails, Moves
  <2>2. CASE pc' # [d \in Clients |-> "done"]
    <3>1. PICK stage \in {"header", "audit", "connect", "done"} : Goto(c, stage)
      BY <1>0, <1>4, <2>2, StageChoices DEF Control, Accept, AcceptFails
    <3>2. \A d \in Clients : Moves(d)
      BY <1>0, <1>4, <3>1 DEF Accept, AcceptFails, Goto, Control, ControlOK, Moves, Early
    <3> QED BY <1>0, <1>4, <3>2, StagesData DEF Accept, AcceptFails
  <2> QED BY <2>1, <2>2
<1> QED BY <1>1, <1>2, <1>3, <1>4

-----------------------------------------------------------------------------
(* The loops *)

\* Both streams of a session are whole.
LEMMA BothWhole ==
  ASSUME NEW c \in Clients, NEW s \in Sides, Whole(c)
  PROVE  /\ (delivered[c][s] \o buffers[c][s]) \o wire[c][Other(s)] = written[c][Other(s)]
         /\ (delivered[c][Other(s)] \o buffers[c][Other(s)]) \o wire[c][s] = written[c][s]
<1>1. s \in Sides /\ Other(s) \in Sides /\ Other(Other(s)) = s
  BY TwoSides
<1> QED BY <1>1 DEF Whole

\* n bytes go from a buffer to its endpoint.
Passes(c, s, n) ==
    /\ delivered' = [delivered EXCEPT ![c][s] = @ \o SubSeq(buffers[c][s], 1, n)]
    /\ buffers' = [buffers EXCEPT ![c][s] = SubSeq(@, n + 1, Len(@))]

\* Bytes are sent.
LEMMA Sent ==
  ASSUME Data, NEW c \in Clients, NEW s \in Sides, pc[c] = "relay", NEW n \in 1..Len(buffers[c][s]),
         Passes(c, s, n), UNCHANGED <<written, wire>>
  PROVE  /\ delivered' \in Streams /\ buffers' \in Streams /\ Whole(c)'
         /\ \A d \in Clients \ {c} : delivered'[d] = delivered[d] /\ buffers'[d] = buffers[d]
         /\ \A x \in Sides : Len(buffers'[c][x]) <= Len(buffers[c][x])
<1>1. /\ delivered[c][s] \in Seq(Nat) /\ buffers[c][s] \in Seq(Nat) /\ wire[c][Other(s)] \in Seq(Nat)
      /\ delivered \in Streams /\ buffers \in Streams
  BY TwoSides DEF Data, DataOK, Streams
<1>2. PICK h \in Seq(Nat), t \in Seq(Nat) :
         /\ h = SubSeq(buffers[c][s], 1, n) /\ t = SubSeq(buffers[c][s], n + 1, Len(buffers[c][s]))
         /\ Len(t) = Len(buffers[c][s]) - n
  BY <1>1, Halves
<1>3. /\ delivered' = [delivered EXCEPT ![c][s] = delivered[c][s] \o h]
      /\ buffers' = [buffers EXCEPT ![c][s] = t]
  BY <1>1, <1>2 DEF Passes
<1>4. /\ delivered' \in Streams /\ delivered'[c][s] = delivered[c][s] \o h
      /\ delivered'[c][Other(s)] = delivered[c][Other(s)]
      /\ \A d \in Clients \ {c} : delivered'[d] = delivered[d]
  <2>1. delivered[c][s] \o h \in Seq(Nat) /\ delivered \in Streams
    BY <1>1, <1>2
  <2>2. PICK v \in Seq(Nat) : v = delivered[c][s] \o h
    BY <2>1
  <2>3. delivered' = [delivered EXCEPT ![c][s] = v]
    BY <1>3, <2>2
  <2> QED BY <2>1, <2>2, <2>3, TwoSides DEF Streams
<1>5. /\ buffers' \in Streams /\ buffers'[c][s] = t
      /\ buffers'[c][Other(s)] = buffers[c][Other(s)]
      /\ \A d \in Clients \ {c} : buffers'[d] = buffers[d]
  <2>1. buffers \in Streams /\ buffers' = [buffers EXCEPT ![c][s] = t]
    BY <1>1, <1>3
  <2> QED BY <2>1, TwoSides DEF Streams
<1>6. /\ (delivered[c][s] \o buffers[c][s]) \o wire[c][Other(s)] = written[c][Other(s)]
      /\ (delivered[c][Other(s)] \o buffers[c][Other(s)]) \o wire[c][s] = written[c][s]
  <2>1. Whole(c)
    BY DEF Data, SessionOK, Conserved
  <2> QED BY <2>1, BothWhole
<1>7. ((delivered[c][s] \o h) \o t) \o wire[c][Other(s)] = written[c][Other(s)]
  <2>1. ((delivered[c][s] \o SubSeq(buffers[c][s], 1, n))
            \o SubSeq(buffers[c][s], n + 1, Len(buffers[c][s]))) \o wire[c][Other(s)]
        = (delivered[c][s] \o buffers[c][s]) \o wire[c][Other(s)]
    BY <1>1, PartSent, ZenonT(60)
  <2> QED BY <1>2, <1>6, <2>1
<1>8. Whole(c)'
  <2>1. (delivered'[c][s] \o buffers'[c][s]) \o wire'[c][Other(s)] = written'[c][Other(s)]
    BY <1>4, <1>5, <1>7
  <2>2. (delivered'[c][Other(s)] \o buffers'[c][Other(s)]) \o wire'[c][s] = written'[c][s]
    BY <1>4, <1>5, <1>6
  <2> QED BY <2>1, <2>2, TwoSides DEF Whole
<1>9. \A x \in Sides : Len(buffers'[c][x]) <= Len(buffers[c][x])
  <2>1. Len(t) <= Len(buffers[c][s])
    BY <1>1, <1>2
  <2>2. Len(buffers[c][Other(s)]) \in Nat
    BY <1>1, TwoSides DEF Streams
  <2>3. Len(buffers'[c][s]) <= Len(buffers[c][s])
    BY <1>5, <2>1
  <2>4. Len(buffers'[c][Other(s)]) <= Len(buffers[c][Other(s)])
    BY <1>5, <2>2
  <2> QED BY <2>3, <2>4, TwoSides
<1> QED BY <1>4, <1>5, <1>8, <1>9

\* Bytes, or an end, are read.
LEMMA Taken ==
  ASSUME Data, NEW c \in Clients, NEW s \in Sides, pc[c] = "relay", NEW limit \in Int, limit > 0,
         Waiting(c, s), Take(c, s, limit), UNCHANGED <<written, finished, cut, delivered>>
  PROVE  /\ wire' \in Streams /\ buffers' \in Streams /\ Whole(c)'
         /\ ended' \in [Clients -> SUBSET Sides] /\ age' \in [Clients -> 0..IdleTimeout]
         /\ \A x \in ended'[c] : Final(c, x)'
         /\ \A d \in Clients \ {c} :
               wire'[d] = wire[d] /\ buffers'[d] = buffers[d] /\ ended'[d] = ended[d]
         /\ wire'[c][Other(s)] = wire[c][Other(s)] /\ buffers'[c][s] = buffers[c][s]
         /\ s \in ended'[c] => UNCHANGED <<wire, buffers>>
<1>0. /\ wire \in Streams /\ buffers \in Streams /\ wire[c][s] \in Seq(Nat) /\ Whole(c)
      /\ buffers[c][Other(s)] \in Seq(Nat) /\ delivered[c][Other(s)] \in Seq(Nat)
      /\ ended \in [Clients -> SUBSET Sides] /\ age \in [Clients -> 0..IdleTimeout]
      /\ \A x \in ended[c] : x \in Sides /\ Final(c, x)
  <2>1. DataOK /\ Whole(c) /\ Ends(c)
    BY DEF Data, SessionOK, Conserved
  <2> QED BY <2>1, TwoSides DEF DataOK, Streams, Ends
<1>1. CASE wire[c][s] # <<>>
  <2>1. PICK n \in 1..Len(wire[c][s]) :
           /\ buffers' = [buffers EXCEPT ![c][Other(s)] = @ \o SubSeq(wire[c][s], 1, n)]
           /\ wire' = [wire EXCEPT ![c][s] = SubSeq(@, n + 1, Len(@))]
    BY <1>1 DEF Take
  <2>2. age' = [age EXCEPT ![c] = 0] /\ ended' = ended
    BY <1>1 DEF Take
  <2>3. PICK h \in Seq(Nat), t \in Seq(Nat) :
           /\ h = SubSeq(wire[c][s], 1, n) /\ t = SubSeq(wire[c][s], n + 1, Len(wire[c][s]))
           /\ h \o t = wire[c][s]
    <3>1. wire[c][s] \in Seq(Nat)
      BY <1>0
    <3>2. /\ SubSeq(wire[c][s], 1, n) \in Seq(Nat)
          /\ SubSeq(wire[c][s], n + 1, Len(wire[c][s])) \in Seq(Nat)
          /\ SubSeq(wire[c][s], 1, n) \o SubSeq(wire[c][s], n + 1, Len(wire[c][s])) = wire[c][s]
      BY <3>1, Halves
    <3> QED BY <3>2
  <2>4. /\ buffers' = [buffers EXCEPT ![c][Other(s)] = buffers[c][Other(s)] \o h]
        /\ wire' = [wire EXCEPT ![c][s] = t]
    BY <1>0, <2>1, <2>3
  <2>5. /\ buffers' \in Streams /\ buffers'[c][Other(s)] = buffers[c][Other(s)] \o h
        /\ buffers'[c][s] = buffers[c][s]
        /\ \A d \in Clients \ {c} : buffers'[d] = buffers[d]
    <3>1. buffers[c][Other(s)] \o h \in Seq(Nat) /\ buffers \in Streams
      BY <1>0, <2>3
    <3>2. PICK v \in Seq(Nat) : v = buffers[c][Other(s)] \o h
      BY <3>1
    <3>3. buffers' = [buffers EXCEPT ![c][Other(s)] = v]
      BY <2>4, <3>2
    <3> QED BY <3>1, <3>2, <3>3, TwoSides DEF Streams
  <2>6. /\ wire' \in Streams /\ wire'[c][s] = t /\ wire'[c][Other(s)] = wire[c][Other(s)]
        /\ \A d \in Clients \ {c} : wire'[d] = wire[d]
    <3>1. wire \in Streams /\ wire' = [wire EXCEPT ![c][s] = t]
      BY <1>0, <2>4
    <3> QED BY <3>1, TwoSides DEF Streams
  <2>7. /\ (delivered[c][s] \o buffers[c][s]) \o wire[c][Other(s)] = written[c][Other(s)]
        /\ (delivered[c][Other(s)] \o buffers[c][Other(s)]) \o wire[c][s] = written[c][s]
    BY <1>0, BothWhole
  <2>8. Whole(c)'
    <3>1. (delivered[c][Other(s)] \o (buffers[c][Other(s)] \o h)) \o t = written[c][s]
      <4>1. (delivered[c][Other(s)] \o (buffers[c][Other(s)] \o h)) \o t
            = (delivered[c][Other(s)] \o buffers[c][Other(s)]) \o (h \o t)
        <5>1. delivered[c][Other(s)] \in Seq(Nat) /\ buffers[c][Other(s)] \in Seq(Nat)
          BY <1>0
        <5>2. PICK d \in Seq(Nat), b \in Seq(Nat) :
                 d = delivered[c][Other(s)] /\ b = buffers[c][Other(s)]
          BY <5>1
        <5>3. (d \o (b \o h)) \o t = (d \o b) \o (h \o t)
          <6>1. (d \o b) \o h = d \o (b \o h)
            BY Associative, ZenonT(60)
          <6>2. d \o b \in Seq(Nat)
            OBVIOUS
          <6>3. ASSUME NEW e \in Seq(Nat)
                PROVE  (e \o h) \o t = e \o (h \o t)
            BY Associative, ZenonT(60)
          <6> QED BY <6>1, <6>2, <6>3, Zenon
        <5> QED BY <5>2, <5>3
      <4> QED BY <2>3, <2>7, <4>1
    <3>2. (delivered'[c][s] \o buffers'[c][s]) \o wire'[c][Other(s)] = written'[c][Other(s)]
      BY <2>5, <2>6, <2>7
    <3>3. (delivered'[c][Other(s)] \o buffers'[c][Other(s)]) \o wire'[c][s] = written'[c][s]
      BY <2>5, <2>6, <3>1
    <3> QED BY <3>2, <3>3, TwoSides DEF Whole
  <2>9. s \notin ended[c] /\ \A x \in ended[c] : x = Other(s)
    BY <1>0, <1>1, TwoSides DEF Final
  <2>10. \A x \in ended'[c] : Final(c, x)'
    BY <1>0, <2>2, <2>6, <2>9 DEF Final
  <2> QED BY <1>0, <2>2, <2>5, <2>6, <2>8, <2>9, <2>10, RelayAssumption
<1>2. CASE wire[c][s] = <<>>
  <2>1. ended' = [ended EXCEPT ![c] = @ \union {s}] /\ UNCHANGED <<buffers, wire, age>>
    BY <1>2 DEF Take
  <2>2. s \in finished[c] \union cut[c]
    BY <1>2 DEF Waiting
  <2>3. \A x \in ended'[c] : Final(c, x)'
    BY <1>0, <1>2, <2>1, <2>2 DEF Final
  <2> QED BY <1>0, <2>1, <2>3 DEF Whole
<1> QED BY <1>1, <1>2

\* A loop that returns has nothing more to show of its streams.
LEMMA Returned ==
  ASSUME IInv, NEW c \in Clients, pc[c] = "relay", NEW why \in {"eof", "timeout", "closed", "remote"},
         Return(c, why), UNCHANGED <<kind, cut, endpoints, delivered>>,
         wire' \in Streams, buffers' \in Streams, eof' = eof, Whole(c)',
         ended' \in [Clients -> SUBSET Sides], age' \in [Clients -> 0..IdleTimeout],
         \A d \in Clients \ {c} :
            wire'[d] = wire[d] /\ buffers'[d] = buffers[d] /\ ended'[d] = ended[d]
  PROVE  Data'
<1>0. Control /\ Data
  BY DEF IInv
<1>1. pc'[c] \in {"record", "release"} /\ ready'[c] = None /\ reason'[c] = why
  BY <1>0 DEF Return, Goto, Control, ControlOK, Data, DataOK
<1>2. \A d \in Clients \ {c} : Still(d)
  BY <1>0 DEF Return, Goto, Control, ControlOK, Data, DataOK, Still, endpoints
<1>3. DataOK'
  <2>1. reason' \in [Clients -> {"none", "eof", "timeout", "closed", "remote"}]
    BY <1>0 DEF Return, Data, DataOK
  <2>2. ready' \in [Clients -> [r : SUBSET Sides, w : SUBSET Sides]]
    BY <1>0 DEF Return, Data, DataOK, None
  <2> QED BY <1>0, <2>1, <2>2 DEF Data, DataOK, endpoints
<1>4. SessionOK(c)'
  BY <1>1 DEF SessionOK, Conserved, Ends, StillReady, Fresh, Early
<1> QED BY <1>0, <1>2, <1>3, <1>4, OneSession

\* The head of the loop: an end passed on, a return, or a wait.
LEMMA HeadData ==
  ASSUME IInv, NEW c \in Clients, Shut(c) \/ HeadReturns(c) \/ Select(c) \/ Fails(c) \/ Wait(c)
  PROVE  Data'
<1>0. Control /\ Data
  BY DEF IInv
<1>1. CASE Shut(c)
  <2>1. UNCHANGED <<kind, pc, cut, endpoints, wire, buffers, delivered, loop>>
    BY <1>1 DEF Shut, control, session
  <2>2. eof' \in [Clients -> SUBSET Sides]
    BY <1>0, <1>1 DEF Shut, ToShut, Data, DataOK
  <2>3. DataOK'
    BY <1>0, <2>1, <2>2 DEF Data, DataOK, endpoints, loop
  <2>4. ASSUME NEW d \in Clients
        PROVE  SessionOK(d)'
    BY <1>0, <2>1 DEF Data, SessionOK, Conserved, Whole, Ends, Final, StillReady, Waiting, Fresh, Room,
                      Blocking, endpoints, loop
  <2> QED BY <2>3, <2>4 DEF Data
<1>2. ASSUME pc[c] = "relay", NEW why \in {"eof", "timeout", "closed", "remote"}, Return(c, why),
             UNCHANGED <<control, cut, endpoints, wire, buffers, delivered, eof, ended, age>>
      PROVE  Data'
  <2>1. Whole(c)'
    BY <1>0, <1>2 DEF Data, SessionOK, Conserved, Whole, endpoints
  <2>2. /\ wire' \in Streams /\ buffers' \in Streams
        /\ ended' \in [Clients -> SUBSET Sides] /\ age' \in [Clients -> 0..IdleTimeout]
    BY <1>0, <1>2 DEF Data, DataOK
  <2> QED BY <1>2, <2>1, <2>2, Returned DEF control
<1>3. CASE HeadReturns(c)
  BY <1>2, <1>3 DEF HeadReturns, AtHead
<1>4. CASE Fails(c)
  BY <1>2, <1>4 DEF Fails
<1>5. ASSUME AtHead(c), NEW R \in SUBSET Sides, NEW W \in SUBSET Sides,
             \A s \in R : Readable(c, s) /\ (~Blocking => Room(c, s)),
             ready' = [ready EXCEPT ![c] = [r |-> R, w |-> W]], ~Async,
             UNCHANGED <<control, pc, cut, endpoints, wire, buffers, delivered, eof, ended, age, reason>>
      PROVE  Data'
  <2>1. \A d \in Clients \ {c} : Still(d)
    BY <1>0, <1>5 DEF Data, DataOK, Still, endpoints
  <2>2. DataOK'
    <3>1. ready' \in [Clients -> [r : SUBSET Sides, w : SUBSET Sides]]
      BY <1>0, <1>5 DEF Data, DataOK
    <3> QED BY <1>0, <1>5, <3>1 DEF Data, DataOK, endpoints
  <2>3. Conserved(c)' /\ Ends(c)' /\ Fresh(c)'
    BY <1>0, <1>5 DEF AtHead, Data, SessionOK, Conserved, Whole, Ends, Final, Fresh, Early, endpoints
  <2>4. StillReady(c)'
    <3>1. ready'[c].r = R
      BY <1>0, <1>5 DEF Data, DataOK
    <3> QED BY <1>5, <3>1 DEF StillReady, Readable, Waiting, Room, Blocking, Async, control, endpoints
  <2> QED BY <1>0, <1>5, <2>1, <2>2, <2>3, <2>4, OneSession DEF SessionOK, control
<1>6. CASE Select(c)
  <2>1. PICK R \in SUBSET {s \in Sides : Readable(c, s) /\ Room(c, s)},
             W \in SUBSET {s \in Sides : buffers[c][s] # <<>>} :
             ready' = [ready EXCEPT ![c] = [r |-> R, w |-> W]]
    BY <1>6 DEF Select
  <2> QED BY <1>5, <1>6, <2>1 DEF Select, session
<1>7. CASE Wait(c)
  <2>1. CASE /\ UNCHANGED <<pc, reason>>
             /\ \E some \in SUBSET {s \in Sides : Readable(c, s)} :
                   ready' = [ready EXCEPT ![c] = [r |-> some, w |-> {}]]
    <3>1. PICK some \in SUBSET {s \in Sides : Readable(c, s)} :
             ready' = [ready EXCEPT ![c] = [r |-> some, w |-> {}]]
      BY <2>1
    <3> QED BY <1>5, <1>7, <2>1, <3>1 DEF Wait, Blocking, Async
  <2>2. CASE Return(c, "timeout")
    BY <1>2, <1>7, <2>2 DEF Wait, AtHead
  <2> QED BY <1>7, <2>1, <2>2 DEF Wait
<1> QED BY <1>1, <1>3, <1>4, <1>6, <1>7

\* Bytes leave a buffer.
LEMMA SendData ==
  ASSUME IInv, NEW c \in Clients, NEW s \in Sides, Send(c, s) \/ WriteOut(c, s)
  PROVE  Data'
<1>0. Control /\ Data /\ pc[c] = "relay"
  BY DEF IInv, Send, WriteOut
<1>1. UNCHANGED <<kind, pc, cut, endpoints, wire, eof, ended, reason>>
  BY DEF Send, WriteOut, control, session
<1>2. /\ ready' \in [Clients -> [r : SUBSET Sides, w : SUBSET Sides]]
      /\ ready'[c].r = ready[c].r /\ \A d \in Clients \ {c} : ready'[d] = ready[d]
      /\ kind = "service" => ready' = ready
  <2>1. CASE Send(c, s)
    <3>1. ready' = [ready EXCEPT ![c].w = ready[c].w \ {s}]
      BY <2>1 DEF Send
    <3>2. kind = "service" => ready[c] = None
      BY <1>0 DEF Data, SessionOK, StillReady
    <3>3. s \in ready[c].w
      BY <2>1 DEF Send
    <3>4. kind # "service"
      BY <3>2, <3>3 DEF None
    <3>5. ready \in [Clients -> [r : SUBSET Sides, w : SUBSET Sides]]
      BY <1>0 DEF Data, DataOK
    <3> QED BY <3>1, <3>4, <3>5
  <2>2. CASE WriteOut(c, s)
    BY <1>0, <2>2 DEF WriteOut, Data, DataOK
  <2> QED BY <2>1, <2>2
<1>3. age' \in [Clients -> 0..IdleTimeout]
  <2>1. age' = age \/ age' = [age EXCEPT ![c] = 0]
    BY DEF Send, WriteOut
  <2>2. age \in [Clients -> 0..IdleTimeout] /\ 0 \in 0..IdleTimeout
    BY <1>0, RelayAssumption DEF Data, DataOK
  <2> QED BY <2>1, <2>2
<1>4. /\ delivered' \in Streams /\ buffers' \in Streams /\ Whole(c)'
      /\ \A d \in Clients \ {c} : delivered'[d] = delivered[d] /\ buffers'[d] = buffers[d]
      /\ \A x \in Sides : Len(buffers'[c][x]) <= Len(buffers[c][x])
  <2>1. CASE \E n \in 1..Len(buffers[c][s]) : Passes(c, s, n)
    BY <1>0, <1>1, <2>1, Sent DEF endpoints
  <2>2. CASE UNCHANGED <<delivered, buffers>>
    <3>1. delivered \in Streams /\ buffers \in Streams /\ Whole(c)
      BY <1>0 DEF Data, DataOK, SessionOK, Conserved
    <3>2. \A x \in Sides : Len(buffers[c][x]) \in Nat
      BY <3>1 DEF Streams
    <3>3. Whole(c)'
      BY <1>1, <2>2, <3>1 DEF Whole, endpoints
    <3>4. \A x \in Sides : Len(buffers'[c][x]) <= Len(buffers[c][x])
      BY <2>2, <3>2
    <3> QED BY <2>2, <3>1, <3>3, <3>4
  <2> QED BY <2>1, <2>2 DEF Send, WriteOut, Passes
<1>5. \A d \in Clients \ {c} : Still(d)
  BY <1>1, <1>2, <1>4 DEF Still, endpoints
<1>6. DataOK'
  BY <1>0, <1>1, <1>2, <1>3, <1>4 DEF Data, DataOK, endpoints
<1>7. Conserved(c)' /\ Ends(c)' /\ Fresh(c)'
  BY <1>0, <1>1, <1>4 DEF Data, SessionOK, Conserved, Ends, Final, Fresh, Early, endpoints
<1>8. StillReady(c)'
  <2>1. ASSUME NEW x \in ready[c].r
        PROVE  /\ x \in Sides /\ Waiting(c, x) /\ (~Blocking => Room(c, x))
               /\ Waiting(c, x)' /\ (~Blocking => Room(c, x)')
    <3>1. x \in Sides /\ Waiting(c, x) /\ (~Blocking => Room(c, x))
      BY <1>0 DEF Data, DataOK, SessionOK, StillReady
    <3>2. Waiting(c, x)'
      BY <1>1, <3>1 DEF Waiting, endpoints
    <3>3. Room(c, x) => Room(c, x)'
      <4>1. Other(x) \in Sides
        BY <3>1, TwoSides
      <4>2. Len(buffers'[c][Other(x)]) \in Nat /\ Len(buffers[c][Other(x)]) \in Nat
        BY <1>0, <1>4, <4>1 DEF Data, DataOK, Streams
      <4>3. Len(buffers'[c][Other(x)]) <= Len(buffers[c][Other(x)])
        BY <1>4, <4>1
      <4> QED BY <4>2, <4>3, RelayAssumption DEF Room
    <3> QED BY <3>1, <3>2, <3>3
  <2>2. kind = "service" => ready'[c] = None
    BY <1>0, <1>2 DEF Data, SessionOK, StillReady
  <2> QED BY <1>1, <1>2, <2>1, <2>2 DEF StillReady, Blocking
<1> QED BY <1>0, <1>1, <1>5, <1>6, <1>7, <1>8, OneSession DEF SessionOK

\* Bytes enter a buffer, or an end is read.
LEMMA TakeData ==
  ASSUME IInv, NEW c \in Clients, NEW s \in Sides, pc[c] = "relay", Waiting(c, s),
         NEW limit \in Int, limit > 0, Take(c, s, limit),
         ready' = ready \/ (ready' = [ready EXCEPT ![c].r = @ \ {s}] /\ ~Async),
         eof' \in [Clients -> SUBSET Sides],
         Async => ready[c] = None,
         UNCHANGED <<kind, pc, cut, endpoints, delivered, reason>>,
         \A x \in ready'[c].r : x # s
  PROVE  Data'
<1>0. Control /\ Data
  BY DEF IInv
<1>1. /\ wire' \in Streams /\ buffers' \in Streams /\ Whole(c)'
      /\ ended' \in [Clients -> SUBSET Sides] /\ age' \in [Clients -> 0..IdleTimeout]
      /\ \A x \in ended'[c] : Final(c, x)'
      /\ \A d \in Clients \ {c} :
            wire'[d] = wire[d] /\ buffers'[d] = buffers[d] /\ ended'[d] = ended[d]
      /\ wire'[c][Other(s)] = wire[c][Other(s)] /\ buffers'[c][s] = buffers[c][s]
  BY <1>0, Taken DEF endpoints
<1>2. ready \in [Clients -> [r : SUBSET Sides, w : SUBSET Sides]]
  BY <1>0 DEF Data, DataOK
<1>3. /\ ready' \in [Clients -> [r : SUBSET Sides, w : SUBSET Sides]]
      /\ \A x \in ready'[c].r : x \in ready[c].r /\ x \in Sides
      /\ \A d \in Clients \ {c} : ready'[d] = ready[d]
      /\ Async => ready' = ready
  BY <1>2 DEF Sides
<1>4. \A d \in Clients \ {c} : Still(d)
  BY <1>1, <1>3 DEF Still, endpoints
<1>5. DataOK'
  BY <1>0, <1>1, <1>3 DEF Data, DataOK, endpoints
<1>6. Conserved(c)' /\ Ends(c)' /\ Fresh(c)'
  BY <1>0, <1>1 DEF Data, SessionOK, Conserved, Ends, Fresh, Early
<1>7. StillReady(c)'
  <2>1. ASSUME NEW x \in ready'[c].r
        PROVE  Waiting(c, x)' /\ (~Blocking => Room(c, x)')
    <3>1. x \in ready[c].r /\ x = Other(s) /\ Other(x) = s
      BY <1>3, <2>1, TwoSides
    <3>2. Waiting(c, x) /\ (~Blocking => Room(c, x))
      BY <1>0, <3>1 DEF Data, SessionOK, StillReady
    <3> QED BY <1>1, <3>1, <3>2 DEF Waiting, Room, endpoints
  <2> QED BY <1>3, <2>1 DEF StillReady, Blocking, Async
<1> QED BY <1>0, <1>4, <1>5, <1>6, <1>7, OneSession DEF SessionOK

\* The three ways to read.
LEMMA ReceiveData ==
  ASSUME IInv, NEW c \in Clients, NEW s \in Sides, Receive(c, s) \/ Copy(c, s) \/ Forward(c, s)
  PROVE  Data'
<1>0. Control /\ Data /\ pc[c] = "relay"
  BY DEF IInv, Receive, Copy, Forward
<1>1. /\ UNCHANGED <<kind, cut, endpoints, delivered>>
      /\ eof \in [Clients -> SUBSET Sides] /\ (Async => ready[c] = None)
      /\ ready \in [Clients -> [r : SUBSET Sides, w : SUBSET Sides]]
  BY <1>0 DEF Receive, Copy, Forward, control, session, Data, DataOK, SessionOK, StillReady, Async
<1>2. CASE Receive(c, s)
  <2>1. s \in ready[c].r /\ ~Async /\ ~Blocking /\ ready' = [ready EXCEPT ![c].r = ready[c].r \ {s}]
    BY <1>1, <1>2 DEF Receive, None
  <2>2. \A x \in ready'[c].r : x # s
    BY <1>1, <2>1
  <2>3. Waiting(c, s) /\ Room(c, s)
    BY <1>0, <2>1 DEF Data, SessionOK, StillReady
  <2>4. UNCHANGED <<pc, eof, reason>>
    BY <1>2 DEF Receive, session
  <2>5. CASE Take(c, s, MaxBuffer - Len(buffers[c][Other(s)]))
    <3>1. Len(buffers[c][Other(s)]) \in Nat
      BY <1>0, TwoSides DEF Data, DataOK, Streams
    <3>2. MaxBuffer - Len(buffers[c][Other(s)]) \in Int /\ MaxBuffer - Len(buffers[c][Other(s)]) > 0
      BY <2>3, <3>1, RelayAssumption DEF Room
    <3> QED BY <1>0, <1>1, <2>1, <2>2, <2>3, <2>4, <2>5, <3>2, TakeData
  <2>6. CASE UNCHANGED <<buffers, wire, age, ended>>
    <3>1. /\ ready' \in [Clients -> [r : SUBSET Sides, w : SUBSET Sides]]
          /\ ready'[c].r \subseteq ready[c].r /\ \A d \in Clients \ {c} : ready'[d] = ready[d]
      BY <1>1, <2>1
    <3>2. \A d \in Clients \ {c} : Still(d)
      BY <1>1, <2>4, <2>6, <3>1 DEF Still, endpoints
    <3>3. DataOK'
      BY <1>0, <1>1, <2>4, <2>6, <3>1 DEF Data, DataOK, endpoints
    <3>4. Conserved(c)' /\ Ends(c)' /\ Fresh(c)'
      BY <1>0, <1>1, <2>4, <2>6 DEF Data, SessionOK, Conserved, Whole, Ends, Final, Fresh, Early, endpoints
    <3>5. StillReady(c)'
      BY <1>0, <1>1, <2>1, <2>4, <2>6, <3>1
      DEF Data, SessionOK, StillReady, Waiting, Room, Blocking, Async, endpoints
    <3> QED BY <1>0, <1>1, <3>2, <3>3, <3>4, <3>5, OneSession DEF SessionOK
  <2> QED BY <1>2, <2>5, <2>6 DEF Receive
<1>3. CASE Copy(c, s)
  <2>1. s \in ready[c].r /\ ~Async /\ Take(c, s, MaxBuffer)
    BY <1>3 DEF Copy, Blocking, Async
  <2>2. Waiting(c, s) /\ MaxBuffer \in Int /\ MaxBuffer > 0
    BY <1>0, <2>1, RelayAssumption DEF Data, SessionOK, StillReady
  <2>3. CASE Return(c, "remote") /\ UNCHANGED eof
    <3>1. /\ wire' \in Streams /\ buffers' \in Streams /\ Whole(c)'
          /\ ended' \in [Clients -> SUBSET Sides] /\ age' \in [Clients -> 0..IdleTimeout]
          /\ \A d \in Clients \ {c} :
                wire'[d] = wire[d] /\ buffers'[d] = buffers[d] /\ ended'[d] = ended[d]
      BY <1>0, <1>1, <2>1, <2>2, Taken DEF endpoints
    <3> QED BY <1>0, <1>1, <2>3, <3>1, Returned
  <2>4. CASE /\ ready' = [ready EXCEPT ![c].r = @ \ {s}] /\ UNCHANGED <<pc, reason>>
             /\ eof' = IF s \in ended'[c] THEN [eof EXCEPT ![c] = @ \union {"peer"}] ELSE eof
    <3>1. eof' \in [Clients -> SUBSET Sides]
      BY <1>1, <2>4 DEF Sides
    <3>2. \A x \in ready'[c].r : x # s
      BY <1>1, <2>4
    <3> QED BY <1>0, <1>1, <2>1, <2>2, <2>4, <3>1, <3>2, TakeData
  <2> QED BY <1>3, <2>3, <2>4 DEF Copy
<1>4. CASE Forward(c, s)
  <2>1. /\ Async /\ Waiting(c, s) /\ Take(c, s, MaxBuffer) /\ UNCHANGED <<pc, eof, ready, reason>>
    BY <1>4 DEF Forward, Readable, Waiting, session
  <2>2. \A x \in ready'[c].r : x # s
    BY <1>1, <2>1 DEF None
  <2>3. MaxBuffer \in Int /\ MaxBuffer > 0
    BY RelayAssumption
  <2> QED BY <1>0, <1>1, <2>1, <2>2, <2>3, TakeData
<1> QED BY <1>2, <1>3, <1>4

\* An endpoint writes: the stream grows at its end.
LEMMA WritesData ==
  ASSUME IInv, NEW c \in Clients, NEW s \in Sides, EndpointWrites(c, s)
  PROVE  Data'
<1>0. /\ Control /\ Data /\ pc[c] = "relay" /\ s \notin finished[c] \union cut[c]
      /\ written \in Streams /\ wire \in Streams /\ SessionOK(c)
  BY DEF IInv, EndpointWrites, Data, DataOK
<1>1. UNCHANGED <<kind, pc, cut, finished, buffers, delivered, eof, loop>>
  BY DEF EndpointWrites, control, session
<1>2. PICK v \in Nat : /\ written' = [written EXCEPT ![c][s] = Append(@, v)]
                       /\ wire' = [wire EXCEPT ![c][s] = Append(@, v)]
  <2>1. Len(written[c][s]) + 1 \in Nat
    BY <1>0 DEF Streams
  <2> QED BY <2>1 DEF EndpointWrites
<1>3. PICK w \in Seq(Nat), x \in Seq(Nat) :
         w = Append(wire[c][s], v) /\ x = Append(written[c][s], v) /\ w # <<>>
  <2>1. wire[c][s] \in Seq(Nat) /\ written[c][s] \in Seq(Nat)
    BY <1>0 DEF Streams
  <2>2. /\ Append(wire[c][s], v) \in Seq(Nat) /\ Append(wire[c][s], v) # <<>>
        /\ Append(written[c][s], v) \in Seq(Nat)
    BY <2>1
  <2> QED BY <2>2
<1>4. written' = [written EXCEPT ![c][s] = x] /\ wire' = [wire EXCEPT ![c][s] = w]
  BY <1>2, <1>3
<1>5. /\ written' \in Streams /\ written'[c][s] = x /\ written'[c][Other(s)] = written[c][Other(s)]
      /\ \A d \in Clients \ {c} : written'[d] = written[d]
  <2>1. written \in Streams /\ written' = [written EXCEPT ![c][s] = x]
    BY <1>0, <1>4
  <2> QED BY <2>1, TwoSides DEF Streams
<1>6. /\ wire' \in Streams /\ wire'[c][s] = w /\ wire'[c][Other(s)] = wire[c][Other(s)]
      /\ \A d \in Clients \ {c} : wire'[d] = wire[d]
  <2>1. wire \in Streams /\ wire' = [wire EXCEPT ![c][s] = w]
    BY <1>0, <1>4
  <2> QED BY <2>1, TwoSides DEF Streams
<1>7. Whole(c)'
  <2>1. /\ (delivered[c][s] \o buffers[c][s]) \o wire[c][Other(s)] = written[c][Other(s)]
        /\ (delivered[c][Other(s)] \o buffers[c][Other(s)]) \o wire[c][s] = written[c][s]
    BY <1>0, BothWhole DEF SessionOK, Conserved
  <2>2. PICK a \in Seq(Nat) : a = delivered[c][Other(s)] \o buffers[c][Other(s)]
    <3>1. delivered[c][Other(s)] \in Seq(Nat) /\ buffers[c][Other(s)] \in Seq(Nat)
      BY <1>0, TwoSides DEF Data, DataOK, Streams
    <3>2. delivered[c][Other(s)] \o buffers[c][Other(s)] \in Seq(Nat)
      BY <3>1
    <3> QED BY <3>2
  <2>3. wire[c][s] \in Seq(Nat)
    BY <1>0 DEF Streams
  <2>4. a \o Append(wire[c][s], v) = Append(a \o wire[c][s], v)
    BY <2>3, Grows
  <2>5. (delivered'[c][Other(s)] \o buffers'[c][Other(s)]) \o wire'[c][s] = written'[c][s]
    BY <1>1, <1>3, <1>5, <1>6, <2>1, <2>2, <2>4
  <2>6. (delivered'[c][s] \o buffers'[c][s]) \o wire'[c][Other(s)] = written'[c][Other(s)]
    BY <1>1, <1>5, <1>6, <2>1
  <2> QED BY <2>5, <2>6, TwoSides DEF Whole
<1>8. \A d \in Clients \ {c} : Still(d)
  BY <1>1, <1>5, <1>6 DEF Still, loop
<1>9. DataOK'
  BY <1>0, <1>1, <1>5, <1>6 DEF Data, DataOK, loop
<1>10. Ends(c)'
  <2>1. \A y \in ended[c] : y # s /\ y = Other(s) /\ Final(c, y)
    BY <1>0, TwoSides DEF SessionOK, Ends, Final, Data, DataOK
  <2> QED BY <1>1, <1>6, <2>1 DEF Ends, Final, loop
<1>11. StillReady(c)'
  <2>1. \A y \in ready[c].r : y = s \/ y = Other(s)
    BY <1>0, TwoSides DEF Data, DataOK
  <2>2. \A y \in ready[c].r : Waiting(c, y) => Waiting(c, y)'
    BY <1>1, <1>3, <1>6, <2>1 DEF Waiting
  <2> QED BY <1>0, <1>1, <2>2 DEF SessionOK, StillReady, Blocking, Room, loop
<1>12. Conserved(c)' /\ Fresh(c)'
  BY <1>0, <1>1, <1>7 DEF SessionOK, Conserved, Fresh, Early, loop
<1> QED BY <1>0, <1>1, <1>8, <1>9, <1>10, <1>11, <1>12, OneSession DEF SessionOK

\* An endpoint ends its stream, or time passes.
LEMMA QuietData ==
  ASSUME IInv, Tick \/ (\E c \in Clients, s \in Sides : EndpointEnds(c, s)) \/ UNCHANGED vars
  PROVE  Data'
<1>0. Data
  BY DEF IInv
<1>1. UNCHANGED <<kind, pc, cut, written, wire, buffers, delivered, eof, ended, ready, reason>>
  BY DEF Tick, EndpointEnds, control, session, endpoints, loop, vars
<1>2. /\ finished' \in [Clients -> SUBSET Sides]
      /\ \A d \in Clients : finished[d] \subseteq finished'[d]
  <2>1. finished \in [Clients -> SUBSET Sides]
    BY <1>0 DEF Data, DataOK
  <2>2. CASE finished' = finished
    BY <2>1, <2>2
  <2>3. ASSUME NEW c \in Clients, NEW s \in Sides, EndpointEnds(c, s)
        PROVE  <1>2
    BY <2>1, <2>3 DEF EndpointEnds
  <2> QED BY <2>2, <2>3 DEF Tick, vars, endpoints
<1>3. age' \in [Clients -> 0..IdleTimeout]
  <2>1. age \in [Clients -> 0..IdleTimeout]
    BY <1>0 DEF Data, DataOK
  <2>2. CASE Tick
    BY <2>1, <2>2, RelayAssumption DEF Tick
  <2>3. CASE age' = age
    BY <2>1, <2>3
  <2> QED BY <2>2, <2>3 DEF EndpointEnds, vars, loop
<1>4. DataOK'
  BY <1>0, <1>1, <1>2, <1>3 DEF Data, DataOK
<1>5. ASSUME NEW d \in Clients
      PROVE  SessionOK(d)'
  <2>1. SessionOK(d) /\ finished[d] \subseteq finished'[d]
    BY <1>0, <1>2 DEF Data
  <2> QED BY <1>1, <2>1 DEF SessionOK, Conserved, Whole, Ends, Final, StillReady, Waiting, Room, Blocking,
                             Fresh
<1> QED BY <1>4, <1>5 DEF Data

\* A session loses its slot only in the alias server, with its route approved; a loop
\* returns only where one was.
LEMMA LostStep == IInv /\ [Next]_vars => Lost'
<1> SUFFICES ASSUME IInv, [Next]_vars
             PROVE  Lost'
  OBVIOUS
<1>0. Control /\ Lost /\ DataOK
  BY DEF IInv, Data
<1> DEFINE Keeps ==
      /\ UNCHANGED <<kind, reason>> /\ \A d \in Clients : lines[d] \subseteq lines'[d]
      /\ \A d \in Clients : pc'[d] = "lost" => pc[d] = "lost"
<1>1. ASSUME Keeps
      PROVE  Lost'
  BY <1>0, <1>1 DEF Lost
<1>2. CASE UNCHANGED vars
  BY <1>1, <1>2 DEF vars, control, session, loop
<1>3. CASE \/ Listen \/ Prepare \/ Stop \/ CutSessions \/ Cancel \/ CloseReturns \/ Tick
           \/ \E c \in Clients, s \in Sides : EndpointWrites(c, s) \/ EndpointEnds(c, s)
  BY <1>1, <1>3 DEF Listen, Prepare, Stop, CutSessions, Cancel, CloseReturns, Tick, EndpointWrites,
                    EndpointEnds, control, session, data, loop
<1>4. ASSUME NEW c \in Clients, Accept(c) \/ AcceptFails(c)
      PROVE  Lost'
  BY <1>0, <1>1, <1>4, StageChoices DEF Accept, AcceptFails, Goto, Control, ControlOK, data, loop
<1>5. ASSUME NEW c \in Clients, Before(c)
      PROVE  Lost'
  <2>1. /\ kind' = kind /\ \A d \in Clients : lines[d] \subseteq lines'[d]
        /\ \A d \in Clients : pc'[d] = "lost" => pc[d] = "lost"
    BY <1>0, <1>5, StageChoices
    DEF Before, Header, Route, Approve, AuditWrite, AuditError, Connect, Register, CheckClosed, Ack,
        Goto, Control, ControlOK, control
  <2>2. CASE Ack(c)
    <3>1. kind = "alias" => "approved" \in lines[c]
      BY <1>0, <2>2 DEF Ack, Control, Trail
    <3>2. \A d \in Clients \ {c} : reason'[d] = reason[d]
      BY <1>0, <2>2 DEF Ack, DataOK
    <3> QED BY <1>0, <2>1, <3>1, <3>2 DEF Lost
  <2>3. CASE ~Ack(c)
    BY <1>1, <1>5, <2>1, <2>3
    DEF Before, Header, Route, Approve, Connect, Register, CheckClosed, data, loop
  <2> QED BY <2>2, <2>3
<1>6. ASSUME NEW c \in Clients, Refuse(c) \/ Record(c)
      PROVE  Lost'
  BY <1>0, <1>1, <1>6 DEF Refuse, Record, AuditWrite, AuditError, Goto, Control, ControlOK, data, loop
<1>7. ASSUME NEW c \in Clients, Release(c)
      PROVE  Lost'
  <2>1. /\ UNCHANGED <<kind, reason, lines>> /\ \A d \in Clients \ {c} : pc'[d] = pc[d]
        /\ pc'[c] = "lost" => Outlives(c)
    BY <1>0, <1>7 DEF Release, Goto, Control, ControlOK
  <2> QED BY <1>0, <2>1 DEF Lost, Outlives
<1>8. ASSUME NEW c \in Clients, Relay(c)
      PROVE  Lost'
  <2>1. CASE /\ pc[c] = "relay" /\ UNCHANGED <<control, lines, registered, cut>>
             /\ \E why \in {"eof", "timeout", "closed", "remote"} : Return(c, why)
    <3>1. kind = "alias" => "approved" \in lines[c]
      BY <1>0, <2>1 DEF Control, Trail
    <3>2. /\ UNCHANGED <<kind, lines>> /\ pc'[c] # "lost"
          /\ \A d \in Clients \ {c} : pc'[d] = pc[d] /\ reason'[d] = reason[d]
      BY <1>0, <2>1 DEF Return, Goto, Control, ControlOK, DataOK, control
    <3> QED BY <1>0, <3>1, <3>2 DEF Lost
  <2>2. CASE UNCHANGED <<control, session, reason>>
    BY <1>1, <2>2 DEF control, session
  <2> QED BY <1>8, <2>1, <2>2, RelayChoices
<1> QED BY <1>2, <1>3, <1>4, <1>5, <1>6, <1>7, <1>8 DEF Next, After

\* Every step keeps the invariant.
LEMMA NextInv == IInv /\ [Next]_vars => IInv'
<1> SUFFICES ASSUME IInv, [Next]_vars
             PROVE  IInv'
  OBVIOUS
<1>1. Control'
  BY ControlStep DEF IInv
<1>2. Data'
  <2>1. CASE UNCHANGED vars \/ Tick
    BY <2>1, QuietData
  <2>2. CASE Listen \/ Prepare \/ Stop \/ CutSessions \/ Cancel \/ CloseReturns
    BY <2>2, ServerData
  <2>3. ASSUME NEW c \in Clients, Accept(c) \/ AcceptFails(c) \/ Before(c) \/ After(c)
        PROVE  Data'
    BY <2>3, ServerData, BeforeData, AfterData
  <2>4. ASSUME NEW c \in Clients, Relay(c)
        PROVE  Data'
    BY <2>4, HeadData, SendData, ReceiveData DEF Relay
  <2>5. ASSUME NEW c \in Clients, NEW s \in Sides, EndpointWrites(c, s) \/ EndpointEnds(c, s)
        PROVE  Data'
    BY <2>5, WritesData, QuietData
  <2> QED BY <2>1, <2>2, <2>3, <2>4, <2>5 DEF Next
<1>3. Lost'
  BY LostStep
<1> QED BY <1>1, <1>2, <1>3 DEF IInv

\* No session has begun.
LEMMA InitInv == Init => IInv
<1> SUFFICES ASSUME Init
             PROVE  IInv
  OBVIOUS
<1>1. /\ pc = [c \in Clients |-> "idle"]
      /\ ended = [c \in Clients |-> {}] /\ finished = [c \in Clients |-> {}]
      /\ eof = [c \in Clients |-> {}] /\ ready = [c \in Clients |-> None]
      /\ age = [c \in Clients |-> 0] /\ reason = [c \in Clients |-> "none"]
      /\ written = [c \in Clients |-> [s \in Sides |-> <<>>]]
      /\ wire = written /\ buffers = written /\ delivered = written
  BY DEF Init
<1>2. DataOK
  <2>1. <<>> \in Seq(Nat)
    OBVIOUS
  <2>2. written \in Streams
    BY <1>1, <2>1 DEF Streams
  <2> QED BY <1>1, <2>2, RelayAssumption DEF DataOK, None
<1>3. ASSUME NEW c \in Clients
      PROVE  SessionOK(c)
  <2>1. Whole(c)
    <3>1. (<<>> \o <<>>) \o <<>> = <<>>
      OBVIOUS
    <3> QED BY <1>1, <3>1, TwoSides DEF Whole
  <2> QED BY <1>1, <2>1 DEF SessionOK, Conserved, Ends, StillReady, Fresh, Early
<1>4. Lost
  BY <1>1 DEF Lost
<1> QED BY <1>2, <1>3, <1>4, InitControl DEF IInv, Data

\* The strengthening holds in every reachable state.
THEOREM Invariance == Spec => []IInv
BY InitInv, NextInv, PTL DEF Spec

-----------------------------------------------------------------------------
(* The servers *)

\* Every variable of a relay keeps its type; the slots stay between none and
\* max_sessions.
THEOREM TypeCorrect == Spec => []TypeOK
<1>1. IInv => TypeOK
  BY DEF IInv, Control, ControlOK, Data, DataOK, Streams, TypeOK
<1> QED BY <1>1, Invariance, PTL

\* On every path of a session, refusals and errors included, the free slots, the
\* sessions that hold one and those that lost theirs add up to max_sessions: none is
\* given back twice, and none is lost but by the finally clause of the alias server,
\* with a session whose route was approved.
THEOREM SlotsAddUp == Spec => []SlotsReturned
<1>1. IInv => SlotsReturned
  BY DEF IInv, Control, Lost, SlotSum, SlotsReturned, Occupied
<1> QED BY <1>1, Invariance, PTL

\* No SSH session relays without an approval on record, and one of the broker
\* leaves its outcome there unless the log has failed.
THEOREM TrailKept == Spec => []AuditTrail
<1>1. IInv => AuditTrail
  BY DEF IInv, Control, Trail, AuditTrail
<1> QED BY <1>1, Invariance, PTL

\* After close() has shut what it knew, no session relays over a socket that is
\* still open, wherever it was between its connect and its loop.
THEOREM CloseComplete == Spec => []CloseCutsAll
<1>1. IInv => CloseCutsAll
  BY DEF IInv, Control, Cuts, CloseCutsAll
<1> QED BY <1>1, Invariance, PTL

-----------------------------------------------------------------------------
(* The refinement *)

Over(c) ==
    IF reason[c] = "eof" /\ cut[c] = {} THEN "eof"
    ELSE IF cut[c] # {} \/ pc[c] \in {"refuse", "record", "release", "done", "lost"}
         THEN "cut"
    ELSE "open"

\* Nothing has been written, and every session is open.
LEMMA PipeInit == Init => Pipe!Init
BY DEF Init, Pipe!Init

\* Sessions are cut, or go on as before.
LEMMA PipeCut ==
  ASSUME UNCHANGED <<written, finished, delivered, eof>>,
         \A c \in Clients : Over(c)' = Over(c) \/ (Over(c) = "open" /\ Over(c)' = "cut")
  PROVE  Pipe!Next
<1> DEFINE C == {c \in Clients : Over(c) = "open" /\ Over(c)' = "cut"}
<1>1. C \in SUBSET {c \in Clients : [d \in Clients |-> Over(d)][c] = "open"}
  OBVIOUS
<1>2. [c \in Clients |-> Over(c)'] =
         [c \in Clients |-> IF c \in C THEN "cut" ELSE [d \in Clients |-> Over(d)][c]]
  OBVIOUS
<1>3. Pipe!Cut
  BY <1>1, <1>2 DEF Pipe!Cut, Over
<1> QED BY <1>3 DEF Pipe!Next

Closed == {"refuse", "record", "release", "done", "lost"}

\* Steps that the endpoints see at most as a cut.
LEMMA Unseen ==
  ASSUME UNCHANGED <<written, finished, delivered, eof>>,
         \A c \in Clients :
            /\ cut'[c] = cut[c] /\ (reason'[c] = "eof" <=> reason[c] = "eof")
            /\ pc[c] \in Closed => pc'[c] \in Closed
  PROVE  Pipe!Next
<1>1. \A c \in Clients : Over(c)' = Over(c) \/ (Over(c) = "open" /\ Over(c)' = "cut")
  BY DEF Over, Closed
<1> QED BY <1>1, PipeCut

\* A session that relays has both of its sockets shut, or none.
LEMMA RelayCuts ==
  ASSUME IInv, NEW c \in Clients, pc[c] = "relay"
  PROVE  cut[c] = Sides \/ (cut[c] = {} /\ Over(c) = "open")
<1>1. Places /\ Cuts /\ reason[c] # "eof"
  BY DEF IInv, Control, Data, SessionOK, Fresh
<1> QED BY <1>1 DEF Places, Cuts, Over

\* Servers and stages: a session is cut, or nothing is seen.
LEMMA StagesPipe ==
  ASSUME IInv, \/ Listen \/ Prepare \/ Stop \/ Cancel \/ CloseReturns \/ Tick
               \/ \E c \in Clients : Accept(c) \/ AcceptFails(c) \/ Before(c) \/ After(c)
  PROVE  Pipe!Next
<1>0. Control /\ Data
  BY DEF IInv
<1>1. CASE Listen \/ Prepare \/ Stop \/ Cancel \/ CloseReturns \/ Tick
  <2>1. UNCHANGED <<written, finished, delivered, eof, cut, reason>>
    BY <1>1 DEF Listen, Prepare, Stop, Cancel, CloseReturns, Tick, session, data, endpoints, loop
  <2>2. \A c \in Clients : pc[c] \in Closed => pc'[c] \in Closed
    BY <1>1 DEF Listen, Prepare, Stop, Cancel, CloseReturns, Tick, session, Closed, Stages
  <2> QED BY <2>1, <2>2, Unseen
<1>2. ASSUME NEW c \in Clients, Accept(c) \/ AcceptFails(c)
      PROVE  Pipe!Next
  <2>1. UNCHANGED <<written, finished, delivered, eof, cut, reason>>
    BY <1>2 DEF Accept, AcceptFails, data, endpoints, loop
  <2>2. \A d \in Clients : pc[d] \in Closed => pc'[d] \in Closed
    BY <1>0, <1>2 DEF Accept, AcceptFails, Goto, Control, ControlOK, Closed
  <2> QED BY <2>1, <2>2, Unseen
<1>3. ASSUME NEW c \in Clients, Before(c)
      PROVE  Pipe!Next
  <2>1. UNCHANGED <<written, finished, delivered, eof, cut>>
    BY <1>3 DEF Before, Header, Route, Approve, Connect, Register, CheckClosed, Ack, data, endpoints
  <2>2. pc[c] \in Early /\ reason[c] = "none"
    BY <1>0, <1>3 DEF Before, Header, Route, Approve, Connect, Register, CheckClosed, Ack, Early, Data,
                      SessionOK, Fresh
  <2>3. \A d \in Clients : pc[d] \in Closed => pc'[d] \in Closed
    BY <1>0, <1>3, <2>2 DEF Before, Header, Route, Approve, Connect, Register, CheckClosed, Ack, Goto,
                            Control, ControlOK, Closed, Early
  <2>4. reason' = reason \/ reason' = [reason EXCEPT ![c] = "closed"]
    BY <1>3 DEF Before, Header, Route, Approve, Connect, Register, CheckClosed, Ack, data, loop
  <2>5. \A d \in Clients : reason'[d] = "eof" <=> reason[d] = "eof"
    BY <1>0, <2>2, <2>4 DEF Data, DataOK
  <2> QED BY <2>1, <2>3, <2>5, Unseen
<1>4. ASSUME NEW c \in Clients, After(c)
      PROVE  Pipe!Next
  <2>1. UNCHANGED <<written, finished, delivered, eof, cut, reason>>
    BY <1>4 DEF After, Refuse, Record, Release, data, endpoints, loop
  <2>2. \A d \in Clients : pc[d] \in Closed => pc'[d] \in Closed
    BY <1>0, <1>4 DEF After, Refuse, Record, Release, Goto, Control, ControlOK, Closed
  <2> QED BY <2>1, <2>2, Unseen
<1> QED BY <1>1, <1>2, <1>3, <1>4

\* close() cuts open sessions only: one that has ended well is not touched.
LEMMA CutPipe ==
  ASSUME IInv, CutSessions
  PROVE  Pipe!Next
<1>1. UNCHANGED <<written, finished, delivered, eof, pc, reason>>
  BY DEF CutSessions, data, endpoints, loop
<1>2. kind = "shadow" /\ server = "closing"
  BY DEF CutSessions
<1>3. ASSUME NEW c \in Clients
      PROVE  Over(c)' = Over(c) \/ (Over(c) = "open" /\ Over(c)' = "cut")
  <2>1. /\ cut[c] = {} /\ (pc[c] = "done" => registered[c] = {})
        /\ pc[c] \notin {"refuse", "record", "lost"}
    BY <1>2 DEF IInv, Control, Cuts, Places
  <2>2. cut'[c] = IF pc[c] = "release" THEN cut[c] ELSE registered[c]
    BY DEF CutSessions
  <2>3. reason[c] = "eof" => pc[c] \in {"record", "release", "done"}
    BY <2>1 DEF IInv, Control, ControlOK, Stages, Data, SessionOK, Fresh, Early
  <2> QED BY <1>1, <2>1, <2>2, <2>3 DEF Over
<1> QED BY <1>1, <1>3, PipeCut

\* The parts of a stream, and the whole.
LEMMA Parts ==
  ASSUME IInv, NEW c \in Clients, pc[c] = "relay", NEW s \in Sides
  PROVE  /\ (delivered[c][s] \o buffers[c][s]) \o wire[c][Other(s)] = written[c][Other(s)]
         /\ delivered[c][s] \in Seq(Nat) /\ buffers[c][s] \in Seq(Nat)
         /\ wire[c][Other(s)] \in Seq(Nat)
<1>1. Whole(c) /\ DataOK
  BY DEF IInv, Data, SessionOK, Conserved
<1>2. Other(s) \in Sides
  BY TwoSides
<1>3. delivered[c][s] \in Seq(Nat) /\ buffers[c][s] \in Seq(Nat) /\ wire[c][Other(s)] \in Seq(Nat)
  BY <1>1, <1>2 DEF DataOK, Streams
<1> QED BY <1>1, <1>3, BothWhole

\* An end that the loop has read, with nothing left to send: the stream is complete.
LEMMA Completed ==
  ASSUME IInv, NEW c \in Clients, pc[c] = "relay", cut[c] = {}, NEW s \in Sides,
         wire[c][Other(s)] = <<>>, Other(s) \in finished[c], buffers[c][s] = <<>>
  PROVE  \A t \in Sides \ {s} : Pipe!Complete(c, s, t)
<1>1. /\ (delivered[c][s] \o buffers[c][s]) \o wire[c][Other(s)] = written[c][Other(s)]
      /\ delivered[c][s] \in Seq(Nat)
  BY Parts
<1>2. delivered[c][s] = written[c][Other(s)]
  BY <1>1, NothingLeft
<1>3. \A t \in Sides \ {s} : t = Other(s)
  BY TwoSides
<1> QED BY <1>2, <1>3 DEF Pipe!Complete

\* A drained side has all that the other has written.
LEMMA DrainedIsComplete ==
  ASSUME IInv, NEW c \in Clients, pc[c] = "relay", cut[c] = {}, NEW s \in Sides, Drained(c, s)
  PROVE  \A t \in Sides \ {s} : Pipe!Complete(c, s, t)
<1>1. Final(c, Other(s)) /\ buffers[c][s] = <<>>
  BY DEF Drained, IInv, Data, SessionOK, Ends
<1> QED BY <1>1, Completed DEF Final

\* A loop returns: the session has ended if both streams are complete, or is cut.
LEMMA ReturnPipe ==
  ASSUME IInv, NEW c \in Clients, pc[c] = "relay", NEW why \in {"eof", "timeout", "closed", "remote"},
         Return(c, why), UNCHANGED <<cut, written, finished, delivered, eof>>,
         why = "eof" => ToShut(c) = {} /\ \A s \in Sides : Drained(c, s)
  PROVE  Pipe!Next
<1>0. Control /\ Data /\ reason[c] # "eof"
  BY DEF IInv, Data, SessionOK, Fresh
<1>1. /\ pc'[c] \in Closed /\ reason'[c] = why
      /\ \A d \in Clients \ {c} : pc'[d] = pc[d] /\ reason'[d] = reason[d]
  BY <1>0 DEF Return, Goto, Control, ControlOK, Data, DataOK, Closed
<1>2. CASE why # "eof"
  BY <1>0, <1>1, <1>2, Unseen DEF Closed
<1>3. CASE cut[c] # {}
  <2>1. \A d \in Clients : Over(d)' = Over(d)
    BY <1>0, <1>1, <1>3 DEF Over
  <2> QED BY <2>1, PipeCut
<1>4. CASE why = "eof" /\ cut[c] = {}
  <2>1. \A s \in Sides : \A t \in Sides \ {s} : Pipe!Complete(c, s, t)
    BY <1>4, DrainedIsComplete
  <2>2. eof[c] = Sides
    BY <1>0, <1>4 DEF ToShut, Data, DataOK
  <2>3. eof' = [eof EXCEPT ![c] = Sides]
    BY <1>0, <2>2 DEF Data, DataOK
  <2>4. Over(c) = "open" /\ Over(c)' = "eof" /\ \A d \in Clients \ {c} : Over(d)' = Over(d)
    BY <1>0, <1>1, <1>4 DEF Over
  <2>5. [d \in Clients |-> Over(d)'] = [[d \in Clients |-> Over(d)] EXCEPT ![c] = "eof"]
    BY <2>4
  <2>6. Pipe!End(c)
    BY <2>1, <2>3, <2>4, <2>5 DEF Pipe!End, Over
  <2> QED BY <2>6 DEF Pipe!Next
<1> QED BY <1>2, <1>3, <1>4

\* An end is passed on: only one that is due.
LEMMA ToldPipe ==
  ASSUME IInv, NEW c \in Clients, pc[c] = "relay", cut[c] = {}, NEW told \in SUBSET Sides,
         \A s \in told : \A t \in Sides \ {s} : Pipe!Complete(c, s, t),
         eof' = [eof EXCEPT ![c] = @ \union told],
         UNCHANGED <<pc, cut, reason, written, finished, delivered>>
  PROVE  Pipe!Next
<1>1. Over(c) = "open"
  BY RelayCuts DEF Sides
<1>2. [d \in Clients |-> Over(d)'] = [d \in Clients |-> Over(d)]
  BY DEF Over
<1>3. told \in SUBSET {s \in Sides : \A t \in Sides \ {s} : Pipe!Complete(c, s, t)}
  OBVIOUS
<1>4. Pipe!DeliverEnd(c)
  BY <1>1, <1>2, <1>3 DEF Pipe!DeliverEnd, Over
<1> QED BY <1>4 DEF Pipe!Next

\* Bytes are delivered: a longer beginning of what the other side has written.
LEMMA PassPipe ==
  ASSUME IInv, NEW c \in Clients, pc[c] = "relay", cut[c] = {}, NEW s \in Sides,
         NEW n \in 1..Len(buffers[c][s]), Passes(c, s, n),
         UNCHANGED <<pc, cut, reason, written, finished, eof>>
  PROVE  Pipe!Next
<1>1. Over(c) = "open"
  BY RelayCuts DEF Sides
<1>2. [d \in Clients |-> Over(d)'] = [d \in Clients |-> Over(d)]
  BY DEF Over
<1>3. delivered[c][s] \in Seq(Nat) /\ buffers[c][s] \in Seq(Nat) /\ wire[c][Other(s)] \in Seq(Nat)
  BY Parts
<1>4. PICK m \in Len(delivered[c][s]) + 1 .. Len(written[c][Other(s)]) :
         delivered[c][s] \o SubSeq(buffers[c][s], 1, n) = SubSeq(written[c][Other(s)], 1, m)
  <2>1. PICK d \in Seq(Nat), b \in Seq(Nat), w \in Seq(Nat) :
           d = delivered[c][s] /\ b = buffers[c][s] /\ w = wire[c][Other(s)]
    BY <1>3
  <2>3. /\ d \o SubSeq(b, 1, n) = SubSeq((d \o b) \o w, 1, Len(d) + n)
        /\ Len(d) + n \in Len(d) + 1 .. Len((d \o b) \o w)
    <3>1. n \in 1..Len(b)
      BY <2>1
    <3>2. \A y, z \in Seq(Nat) : \A k \in 1..Len(y) :
            /\ d \o SubSeq(y, 1, k) = SubSeq((d \o y) \o z, 1, Len(d) + k)
            /\ Len(d) + k \in Len(d) + 1 .. Len((d \o y) \o z)
      BY PartSeen, ZenonT(60)
    <3>3. \A k \in 1..Len(b) :
            /\ d \o SubSeq(b, 1, k) = SubSeq((d \o b) \o w, 1, Len(d) + k)
            /\ Len(d) + k \in Len(d) + 1 .. Len((d \o b) \o w)
      BY <3>2, ZenonT(60)
    <3> QED BY <3>1, <3>3, ZenonT(60)
  <2>2. (delivered[c][s] \o buffers[c][s]) \o wire[c][Other(s)] = written[c][Other(s)]
    BY Parts
  <2> QED BY <2>1, <2>2, <2>3
<1>5. delivered' = [delivered EXCEPT ![c][s] = SubSeq(written[c][Other(s)], 1, m)]
  BY <1>4 DEF Passes
<1>6. Pipe!Deliver(c, s, Other(s))
  BY <1>1, <1>2, <1>4, <1>5 DEF Pipe!Deliver, Over
<1> QED BY <1>6, TwoSides DEF Pipe!Next

\* The loops, as the endpoints see them.
LEMMA HeadPipe ==
  ASSUME IInv, NEW c \in Clients, Shut(c) \/ HeadReturns(c) \/ Select(c) \/ Fails(c) \/ Wait(c)
  PROVE  Pipe!Next
<1>0. pc[c] = "relay" /\ Data
  BY DEF IInv, Shut, HeadReturns, Select, Fails, Wait, AtHead
<1>1. CASE Shut(c)
  <2>1. cut[c] = {}
    BY <1>0, <1>1, RelayCuts DEF Shut, ToShut
  <2>2. \A s \in ToShut(c) : s \in Sides /\ Drained(c, s)
    BY DEF ToShut
  <2>3. \A s \in ToShut(c) : \A t \in Sides \ {s} : Pipe!Complete(c, s, t)
    BY <1>0, <2>1, <2>2, DrainedIsComplete
  <2>4. /\ ToShut(c) \in SUBSET Sides /\ eof' = [eof EXCEPT ![c] = @ \union ToShut(c)]
        /\ UNCHANGED <<pc, cut, reason, written, finished, delivered>>
    BY <1>1, <2>2 DEF Shut, session, endpoints, loop
  <2> QED BY <1>0, <2>1, <2>3, <2>4, ToldPipe
<1>2. CASE HeadReturns(c)
  <2>1. UNCHANGED <<cut, written, finished, delivered, eof>>
    BY <1>2 DEF HeadReturns, endpoints
  <2>2. CASE Return(c, "eof") /\ \A s \in Sides : Drained(c, s)
    BY <1>0, <1>2, <2>1, <2>2, ReturnPipe DEF HeadReturns
  <2>3. CASE Return(c, "timeout")
    BY <1>0, <2>1, <2>3, ReturnPipe
  <2> QED BY <1>2, <2>2, <2>3 DEF HeadReturns
<1>3. CASE Fails(c)
  BY <1>0, <1>3, ReturnPipe DEF Fails, endpoints
<1>4. CASE Select(c)
  BY <1>4, Unseen DEF Select, session, endpoints
<1>5. CASE Wait(c)
  <2>1. UNCHANGED <<cut, written, finished, delivered, eof>>
    BY <1>5 DEF Wait, endpoints
  <2>2. CASE UNCHANGED <<pc, reason>>
    BY <2>1, <2>2, Unseen
  <2>3. CASE Return(c, "timeout")
    BY <1>0, <2>1, <2>3, ReturnPipe
  <2> QED BY <1>5, <2>2, <2>3 DEF Wait
<1> QED BY <1>1, <1>2, <1>3, <1>4, <1>5

\* What they send and read.
LEMMA BytesPipe ==
  ASSUME IInv, NEW c \in Clients, NEW s \in Sides,
         Send(c, s) \/ Receive(c, s) \/ Copy(c, s) \/ WriteOut(c, s) \/ Forward(c, s)
  PROVE  Pipe!Next
<1>0. pc[c] = "relay" /\ Data /\ Control
  BY DEF IInv, Send, Receive, Copy, WriteOut, Forward
<1>1. CASE Send(c, s) \/ WriteOut(c, s)
  <2>1. UNCHANGED <<pc, cut, reason, written, finished, eof>>
    BY <1>1 DEF Send, WriteOut, session, endpoints
  <2>2. CASE UNCHANGED delivered
    BY <2>1, <2>2, Unseen
  <2>3. CASE s \notin cut[c] /\ \E n \in 1..Len(buffers[c][s]) : Passes(c, s, n)
    BY <1>0, <2>1, <2>3, PassPipe, RelayCuts
  <2>4. WriteOut(c, s) => cut[c] = {}
    BY <1>0 DEF WriteOut, Blocking, Async, Control, Cuts
  <2> QED BY <1>1, <2>2, <2>3, <2>4 DEF Send, WriteOut, Passes
<1>2. CASE Receive(c, s) \/ Forward(c, s)
  BY <1>2, Unseen DEF Receive, Forward, session, endpoints
<1>3. CASE Copy(c, s)
  <2>1. UNCHANGED <<cut, written, finished, delivered>> /\ Idle(c) /\ Take(c, s, MaxBuffer)
    BY <1>3 DEF Copy, endpoints
  <2>2. cut[c] = {} /\ s \in ready[c].r
    BY <1>0, <1>3 DEF Copy, Blocking, Control, Cuts
  <2>3. CASE Return(c, "remote") /\ UNCHANGED eof
    BY <1>0, <2>1, <2>3, ReturnPipe
  <2>4. CASE UNCHANGED <<pc, reason>> /\ eof' = eof
    BY <2>1, <2>4, Unseen
  <2>5. CASE /\ UNCHANGED <<pc, reason>> /\ s = "client" /\ s \in ended'[c]
             /\ eof' = [eof EXCEPT ![c] = @ \union {"peer"}]
    <3>1. Waiting(c, s) /\ MaxBuffer \in Int /\ MaxBuffer > 0
      BY <1>0, <2>2, RelayAssumption DEF Data, SessionOK, StillReady
    <3>2. Final(c, s)' /\ UNCHANGED <<wire, buffers>>
      BY <1>0, <2>1, <2>5, <3>1, Taken
    <3>3. wire[c][s] = <<>> /\ s \in finished[c]
      BY <2>1, <2>2, <3>2 DEF Final
    <3>4. "peer" \in Sides /\ Other("peer") = s /\ buffers[c]["peer"] = <<>>
      BY <2>1, <2>5 DEF Idle, Sides, Other
    <3>5. \A t \in Sides \ {"peer"} : Pipe!Complete(c, "peer", t)
      BY <1>0, <2>2, <3>3, <3>4, Completed
    <3>6. {"peer"} \in SUBSET Sides /\ \A x \in {"peer"} : \A t \in Sides \ {x} : Pipe!Complete(c, x, t)
      BY <3>4, <3>5
    <3> QED BY <1>0, <2>1, <2>2, <2>5, <3>6, ToldPipe
  <2>6. s = "client" \/ s = "peer"
    BY DEF Sides
  <2> QED BY <1>3, <2>3, <2>4, <2>5, <2>6 DEF Copy
<1> QED BY <1>1, <1>2, <1>3

\* What the endpoints do themselves.
LEMMA EndpointPipe ==
  ASSUME IInv, NEW c \in Clients, NEW s \in Sides, EndpointWrites(c, s) \/ EndpointEnds(c, s)
  PROVE  Pipe!Next
<1>1. pc[c] = "relay" /\ s \notin finished[c] /\ Over(c) = "open"
  BY RelayCuts DEF EndpointWrites, EndpointEnds
<1>2. UNCHANGED <<pc, cut, reason, delivered, eof>>
  BY DEF EndpointWrites, EndpointEnds, session, loop
<1>3. [d \in Clients |-> Over(d)'] = [d \in Clients |-> Over(d)]
  BY <1>2 DEF Over
<1>4. CASE EndpointEnds(c, s)
  <2>1. Pipe!Finish(c, s)
    BY <1>1, <1>2, <1>3, <1>4 DEF EndpointEnds, Pipe!Finish, Over
  <2> QED BY <2>1 DEF Pipe!Next
<1>5. CASE EndpointWrites(c, s)
  <2> DEFINE v == Len(written[c][s]) + 1
  <2>1. v \in 1..MaxWrites[c][s]
    <3>1. Len(written[c][s]) \in Nat /\ MaxWrites[c][s] \in Nat
      BY RelayAssumption DEF IInv, Data, DataOK, Streams
    <3> QED BY <1>5, <3>1 DEF EndpointWrites
  <2>2. written' = [written EXCEPT ![c][s] = Append(@, v)] /\ UNCHANGED finished
    BY <1>5 DEF EndpointWrites
  <2> HIDE DEF v
  <2>3. \E b \in Bytes : written' = [written EXCEPT ![c][s] = Append(@, b)]
    <3>1. v \in Bytes
      BY <2>1 DEF Bytes
    <3> QED BY <2>2, <3>1
  <2>4. Pipe!Write(c, s)
    BY <1>1, <1>2, <1>3, <2>2, <2>3 DEF Pipe!Write, Over
  <2> QED BY <2>4 DEF Pipe!Next
<1> QED BY <1>4, <1>5

\* Every step of a relay is a step of the pipe, or none.
LEMMA PipeStep == IInv /\ [Next]_vars => [Pipe!Next]_Pipe!vars
<1> SUFFICES ASSUME IInv, [Next]_vars
             PROVE  [Pipe!Next]_Pipe!vars
  OBVIOUS
<1>1. CASE UNCHANGED vars
  <2>1. UNCHANGED <<pc, cut, reason, written, finished, delivered, eof>>
    BY <1>1 DEF vars, session, endpoints, loop
  <2>2. Pipe!Next
    BY <2>1, Unseen
  <2> QED BY <2>2
<1>2. CASE Listen \/ Prepare \/ Stop \/ Cancel \/ CloseReturns \/ Tick
  BY <1>2, StagesPipe
<1>3. CASE CutSessions
  BY <1>3, CutPipe
<1>4. ASSUME NEW c \in Clients, Accept(c) \/ AcceptFails(c) \/ Before(c) \/ After(c)
      PROVE  Pipe!Next
  BY <1>4, StagesPipe
<1>5. ASSUME NEW c \in Clients, Relay(c)
      PROVE  Pipe!Next
  BY <1>5, HeadPipe, BytesPipe DEF Relay
<1>6. ASSUME NEW c \in Clients, NEW s \in Sides, EndpointWrites(c, s) \/ EndpointEnds(c, s)
      PROVE  Pipe!Next
  BY <1>6, EndpointPipe
<1> QED BY <1>1, <1>2, <1>3, <1>4, <1>5, <1>6 DEF Next

\* Every relay implements DuplexPipe: for any buffer, timeout and number of
\* sessions nothing is lost or reordered, an end follows the last byte of its
\* stream, and "eof" is returned only when both streams are complete.
THEOREM RelayIsPipe == Spec => RelaysPipe
<1>1. Init => Pipe!Init
  BY PipeInit
<1>2. IInv /\ [Next]_vars => [Pipe!Next]_Pipe!vars
  BY PipeStep
<1> QED BY <1>1, <1>2, Invariance, PTL DEF Spec, RelaysPipe, Pipe!Spec
=============================================================================
