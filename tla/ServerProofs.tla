----------------------------- MODULE ServerProofs -----------------------------
(***************************************************************************)
(* Proofs about Server, for every set of peers and of frames they send,    *)
(* every bound on connections, requests and starts, and any number of      *)
(* failing calls of the socket layer.                                      *)
(***************************************************************************)
EXTENDS Server, FiniteSetTheorems, TLAPS

ConnStages == {"none", "check", "select", "error", "reply", "sending", "drained", "stop:flag",
               "stop:notify", "stop:kick", "close", "leave", "ended"}

OwnerStages == {"idle", "running", "wait:check", "wait:blocking", "wait:blocked", "stop:flag",
                "stop:kick", "stop:accept", "stop:wake", "stop:join", "killed"}

PeerStates == [at : {"idle", "open", "gone"}, kind : FrameKinds \union {"none", "frame"},
               sent : 0..2, got : Nat, answer : {"none", "reply", "ack", "error"}, requests : Nat]

TypeOK ==
    /\ owner \in OwnerStages
    /\ accept \in {"none", "check", "select", "ended"}
    /\ conn \in [Peers -> ConnStages]
    /\ stop \in BOOLEAN /\ listening \in BOOLEAN
    /\ registered \subseteq Peers
    /\ socket \in [Peers -> {"none", "backlog", "open", "closed"}]
    /\ peer \in [Peers -> PeerStates]
    /\ starts \in Nat /\ faults \in Nat

\* The connections whose thread has not left.
Running == {p \in Peers : conn[p] \notin {"none", "ended"}}

\* The owner and the accept thread.
ThreadInv ==
    /\ owner \in {"idle", "killed"} <=> accept = "none"
    /\ listening <=> accept \in {"check", "select"}
    /\ owner \in {"stop:wake", "stop:join"} => accept = "ended"
    /\ owner \in {"idle", "killed"} => registered = {}

\* A connection: its socket, its thread and its entry in connections_.
ConnOK(p) ==
    /\ peer[p].at = "idle" <=> socket[p] = "none"
    /\ socket[p] \in {"none", "backlog"} => conn[p] = "none"
    /\ socket[p] = "backlog" => listening
    /\ socket[p] = "open" <=> conn[p] \notin {"none", "leave", "ended"}
    /\ conn[p] \notin {"none", "ended"} => p \in registered

ConnInv == \A p \in Peers : ConnOK(p)

\* active_connections_.
CountInv ==
    /\ IsFiniteSet(Running)
    /\ active = Cardinality(Running)
    /\ active <= MaxConnections

AccountInv == TypeOK /\ ThreadInv /\ ConnInv /\ CountInv

\* The frame under way: a thread that answers has read a whole frame, and an
\* answer that is a frame belongs to a request that was read and can be answered.
FrameOK(p) ==
    /\ peer[p].sent = 2 => peer[p].kind \in FrameKinds
    /\ peer[p].answer \in {"reply", "ack"} =>
           peer[p].kind \in {"request", "shutdown"} /\ ~Unread(p)
    /\ conn[p] \in {"reply", "sending", "drained"} =>
           /\ peer[p].kind \in {"request", "oversize", "shutdown"}
           /\ peer[p].sent = 2 /\ peer[p].got = 2
           /\ peer[p].answer \notin {"reply", "ack"}

FrameInv == \A p \in Peers : FrameOK(p)

\* Nobody has asked the server to stop, no call has failed, and it is there.
Undisturbed == starts = 1 /\ ~stop /\ faults = 0 /\ owner # "killed"

\* The answers that end a connection.
LastWord(p) ==
    \/ peer[p].answer = "error"
    \/ Unanswerable(p) /\ peer[p].answer = "none"

\* Why a connection is closed.
ReasonOK(p) ==
    /\ conn[p] \in {"stop:notify", "stop:kick"} => stop
    /\ starts = 0 => owner = "idle" /\ socket[p] = "none"
    /\ Undisturbed /\ peer[p].at = "open" =>
           /\ conn[p] = "close" => LastWord(p)
           /\ socket[p] = "closed" => LastWord(p) \/ (Unread(p) /\ peer[p].answer = "none")

ReasonInv == \A p \in Peers : ReasonOK(p)
-----------------------------------------------------------------------------
(***************************************************************************)
(* Types.                                                                  *)
(***************************************************************************)
LEMMA GoneTyped == GonePeer \in PeerStates /\ FreshPeer \in PeerStates /\ GonePeer.at = "gone"
  BY DEF GonePeer, FreshPeer, PeerStates

LEMMA AnsweredTyped ==
  ASSUME TypeOK, NEW p \in Peers, NEW answer \in {"none", "reply", "ack", "error"}
  PROVE  Answered(p, answer) \in [Peers -> PeerStates]
  BY DEF Answered, TypeOK, PeerStates

LEMMA ClosedTyped ==
  ASSUME TypeOK, NEW p \in Peers, NEW peers \in [Peers -> PeerStates],
         NEW after \in ClosedFor(p, peers)
  PROVE  after \in [Peers -> PeerStates]
<1>1. [peers EXCEPT ![p] = GonePeer] \in [Peers -> PeerStates]
  BY GoneTyped
<1>2. [peers EXCEPT ![p].answer = "none"] \in [Peers -> PeerStates]
  BY DEF PeerStates
<1> QED
  BY <1>1, <1>2 DEF ClosedFor

LEMMA RefuseTyped ==
  ASSUME TypeOK, NEW p \in Peers, Refuse(p)
  PROVE  /\ peer' \in [Peers -> PeerStates]
         /\ socket' \in [Peers -> {"none", "backlog", "open", "closed"}]
<1>1. peer' \in [Peers -> PeerStates]
  BY AnsweredTyped, ClosedTyped DEF Refuse
<1> QED
  BY <1>1 DEF Refuse, TypeOK

LEMMA EndAcceptTyped ==
  ASSUME TypeOK, EndAccept
  PROVE  /\ peer' \in [Peers -> PeerStates] /\ accept' = "ended" /\ listening' = FALSE
         /\ socket' \in [Peers -> {"none", "backlog", "open", "closed"}]
  BY GoneTyped DEF EndAccept, TypeOK

\* What the end of the process leaves of the peers' ends.
LEMMA KilledPeers ==
  ASSUME TypeOK, NEW p \in Peers, KilledByPipe(p)
  PROVE  /\ peer' \in [Peers -> PeerStates]
         /\ \A q \in Peers :
                \/ peer'[q] = peer[q]
                \/ peer[q].at = "gone" /\ peer'[q] = GonePeer
                \/ peer'[q] = [peer[q] EXCEPT !.answer = "none"]
<1>1. PICK lost \in SUBSET {q \in Peers : Unread(q)} :
         peer' = [q \in Peers |-> IF peer[q].at = "gone" THEN GonePeer
                                  ELSE IF q \in lost THEN [peer[q] EXCEPT !.answer = "none"]
                                  ELSE peer[q]]
  BY DEF KilledByPipe
<1>2. \A q \in Peers : [peer[q] EXCEPT !.answer = "none"] \in PeerStates
  BY DEF TypeOK, PeerStates
<1> QED
  BY <1>1, <1>2, GoneTyped DEF TypeOK

LEMMA NextType == TypeOK /\ [Next]_vars => TypeOK'
<1> SUFFICES ASSUME TypeOK, [Next]_vars PROVE TypeOK'
  OBVIOUS
<1> USE DEF peerless, acceptless, connless, ownerless
<1>1. ASSUME NEW p \in Peers, Connect(p)
      PROVE  TypeOK'
  BY <1>1 DEF TypeOK, Connect, PeerStates
<1>2. ASSUME NEW p \in Peers, NEW kind \in Frames[p], SendHeader(p, kind)
      PROVE  TypeOK'
  <2>1. HeaderOf(kind) \in FrameKinds \union {"frame"}
    BY DEF HeaderOf, FrameKinds
  <2> QED
    BY <1>2, <2>1 DEF TypeOK, SendHeader, PeerStates
<1>3. ASSUME NEW p \in Peers, NEW kind,
             (kind \in Frames[p] /\ SendPayload(p, kind)) \/ Receive(p)
      PROVE  TypeOK'
  <2>1. peer' \in [Peers -> PeerStates]
    <3>1. CASE kind \in Frames[p] /\ SendPayload(p, kind)
      <4>1. kind \in FrameKinds
        BY <3>1, ServerAssumption
      <4> QED
        BY <3>1, <4>1 DEF TypeOK, SendPayload, PeerStates
    <3>2. CASE Receive(p)
      BY <3>2 DEF TypeOK, Receive, PeerStates
    <3> QED
      BY <1>3, <3>1, <3>2
  <2> QED
    BY <1>3, <2>1 DEF TypeOK, SendPayload, Receive
<1>4. ASSUME NEW p \in Peers, Drain(p)
      PROVE  TypeOK'
  BY <1>4 DEF TypeOK, Drain, ConnStages
<1>5. ASSUME NEW p \in Peers, HangUp(p)
      PROVE  TypeOK'
  <2>1. peer' \in [Peers -> PeerStates]
    <3>1. [peer[p] EXCEPT !.at = "gone"] \in PeerStates
      BY DEF TypeOK, PeerStates
    <3> QED
      BY <1>5, <3>1, GoneTyped DEF HangUp, TypeOK
  <2> QED
    BY <1>5, <2>1 DEF TypeOK, HangUp
<1>6. ASSUME NEW p \in Peers, ConnCheck(p) \/ ReplyBlocks(p) \/ ConnLeave(p)
      PROVE  TypeOK'
  BY <1>6 DEF TypeOK, ConnCheck, ReplyBlocks, ConnLeave, Goto, ConnStages
<1>7. ASSUME NEW p \in Peers, ConnSelect(p)
      PROVE  TypeOK'
  <2>1. conn' \in [Peers -> ConnStages]
    BY <1>7 DEF TypeOK, ConnSelect, Goto, AfterPart, ConnStages
  <2>2. peer' \in [Peers -> PeerStates]
    BY <1>7 DEF TypeOK, ConnSelect, PeerStates
  <2> QED
    BY <1>7, <2>1, <2>2 DEF TypeOK, ConnSelect
<1>8. ASSUME NEW p \in Peers, ConnSelectFails(p)
      PROVE  TypeOK'
  BY <1>8 DEF TypeOK, ConnSelectFails, Fail, Goto, ConnStages
<1>9. ASSUME NEW p \in Peers, ConnError(p)
      PROVE  TypeOK'
  <2>1. peer' \in [Peers -> PeerStates]
    BY <1>9, AnsweredTyped DEF ConnError, TypeOK
  <2> QED
    BY <1>9, <2>1 DEF TypeOK, ConnError, Goto, ConnStages
<1>10. ASSUME NEW p \in Peers, ConnReply(p)
       PROVE  TypeOK'
  <2>1. peer' \in [Peers -> PeerStates]
    BY <1>10, AnsweredTyped DEF ConnReply, Reply, ReplyFails, TypeOK
  <2>2. conn' \in [Peers -> ConnStages]
    BY <1>10 DEF TypeOK, ConnReply, Reply, ReplyFails, Goto, ConnStages
  <2> QED
    BY <1>10, <2>1, <2>2 DEF TypeOK, ConnReply
<1>11. ASSUME NEW p \in Peers, ConnStop(p)
       PROVE  TypeOK'
  <2>1. conn' \in [Peers -> ConnStages] /\ owner' \in OwnerStages
    BY <1>11 DEF TypeOK, ConnStop, NotifyOwner, Goto, ConnStages, OwnerStages
  <2>2. stop' \in BOOLEAN
    BY <1>11, Zenon DEF TypeOK, ConnStop
  <2> QED
    BY <1>11, <2>1, <2>2 DEF TypeOK, ConnStop
<1>12. ASSUME NEW p \in Peers, ConnClose(p)
       PROVE  TypeOK'
  <2>1. peer' \in [Peers -> PeerStates]
    BY <1>12, ClosedTyped DEF ConnClose, TypeOK
  <2> QED
    BY <1>12, <2>1 DEF TypeOK, ConnClose, Goto, ConnStages
<1>13. CASE AcceptCheck
  BY <1>13, EndAcceptTyped DEF TypeOK, AcceptCheck, Reap
<1>14. CASE AcceptWoken
  BY <1>14 DEF TypeOK, AcceptWoken
<1>15. CASE AcceptSelectFails
  <2>1. faults' \in Nat
    BY <1>15 DEF TypeOK, AcceptSelectFails, Fail
  <2>2. UNCHANGED <<owner, conn, stop, registered, starts>>
    BY <1>15 DEF AcceptSelectFails
  <2>3. /\ peer' \in [Peers -> PeerStates] /\ accept' = "ended" /\ listening' = FALSE
        /\ socket' \in [Peers -> {"none", "backlog", "open", "closed"}]
    BY <1>15, EndAcceptTyped DEF AcceptSelectFails
  <2> QED
    BY <2>1, <2>2, <2>3 DEF TypeOK
<1>16. ASSUME NEW p \in Peers, AcceptRefuse(p) \/ AcceptFails(p)
       PROVE  TypeOK'
  <2>1. /\ peer' \in [Peers -> PeerStates]
        /\ socket' \in [Peers -> {"none", "backlog", "open", "closed"}]
    BY <1>16, RefuseTyped DEF AcceptRefuse, AcceptFails, TypeOK
  <2> QED
    BY <1>16, <2>1 DEF TypeOK, AcceptRefuse, AcceptFails, AcceptReady, Fail
<1>17. ASSUME NEW p \in Peers, AcceptServe(p)
       PROVE  TypeOK'
  BY <1>17 DEF TypeOK, AcceptServe, AcceptReady, ConnStages
<1>18. CASE Start
  <2>1. starts' \in Nat /\ faults' \in Nat
    BY <1>18 DEF TypeOK, Start
  <2>2. stop' \in BOOLEAN /\ listening' \in BOOLEAN
    BY <1>18 DEF Start
  <2>3. owner' \in OwnerStages /\ accept' = "check"
    BY <1>18 DEF Start, OwnerStages
  <2>4. UNCHANGED <<conn, registered, socket, peer>>
    BY <1>18 DEF Start
  <2> QED
    BY <2>1, <2>2, <2>3, <2>4 DEF TypeOK
<1>19. CASE CallWaitOrStop \/ WaitStep \/ WaitWakesSpuriously
  <2>1. owner' \in OwnerStages
    BY <1>19 DEF TypeOK, CallWaitOrStop, WaitStep, WaitWakesSpuriously, OwnerStages
  <2> QED
    BY <1>19, <2>1 DEF TypeOK, CallWaitOrStop, WaitStep, WaitWakesSpuriously
<1>20. CASE StopStep
  <2>1. owner' \in OwnerStages /\ accept' \in {"none", "check", "select", "ended"}
        /\ registered' \subseteq Peers
    BY <1>20 DEF TypeOK, StopStep, StopFlag, StopKick, StopJoinAccept, StopWake, StopJoin,
       OwnerStages
  <2>2. stop' \in BOOLEAN /\ listening' \in BOOLEAN
    BY <1>20, Zenon DEF TypeOK, StopStep, StopFlag, StopKick, StopJoinAccept, StopWake, StopJoin
  <2> QED
    BY <1>20, <2>1, <2>2 DEF TypeOK, StopStep, StopFlag, StopKick, StopJoinAccept, StopWake,
       StopJoin
<1>21. CASE UNCHANGED vars
  BY <1>21 DEF TypeOK, vars
<1>22. ASSUME NEW p \in Peers, KilledByPipe(p)
       PROVE  TypeOK'
  <2>1. peer' \in [Peers -> PeerStates]
    BY <1>22, KilledPeers
  <2>2. /\ conn' \in [Peers -> ConnStages]
        /\ socket' \in [Peers -> {"none", "backlog", "open", "closed"}]
    BY <1>22 DEF KilledByPipe, ConnStages
  <2>3. /\ owner' \in OwnerStages /\ accept' = "none" /\ registered' = {}
        /\ stop' = FALSE /\ listening' = FALSE /\ UNCHANGED <<starts, faults>>
    BY <1>22 DEF KilledByPipe, OwnerStages
  <2> QED
    BY <2>1, <2>2, <2>3 DEF TypeOK
<1> QED
  BY <1>1, <1>2, <1>3, <1>4, <1>5, <1>6, <1>7, <1>8, <1>9, <1>10, <1>11, <1>12, <1>13, <1>14,
     <1>15, <1>16, <1>17, <1>18, <1>19, <1>20, <1>21, <1>22
     DEF Next, ConnStep, AcceptStep, AcceptFault
-----------------------------------------------------------------------------
(***************************************************************************)
(* The threads and the connections.                                        *)
(***************************************************************************)
LEMMA NextThread == TypeOK /\ ThreadInv /\ [Next]_vars => ThreadInv'
<1> SUFFICES ASSUME TypeOK, ThreadInv, [Next]_vars PROVE ThreadInv'
  OBVIOUS
<1> USE DEF peerless, acceptless, connless, ownerless
<1>1. ASSUME NEW p \in Peers, NEW kind,
             \/ Connect(p) \/ SendHeader(p, kind) \/ SendPayload(p, kind) \/ Receive(p) \/ Drain(p)
             \/ HangUp(p) \/ ReplyBlocks(p) \/ ConnSelectFails(p)
             \/ ConnCheck(p) \/ ConnSelect(p) \/ ConnError(p) \/ ConnReply(p) \/ ConnClose(p)
             \/ ConnLeave(p)
      PROVE  ThreadInv'
  <2>1. UNCHANGED <<owner, accept, listening, registered>>
    BY <1>1 DEF Connect, SendHeader, SendPayload, Receive, Drain, HangUp, ReplyBlocks,
       ConnSelectFails, ConnCheck, ConnSelect, ConnError, ConnReply, ConnClose, ConnLeave
  <2> QED
    BY <2>1 DEF ThreadInv
<1>2. ASSUME NEW p \in Peers, ConnStop(p)
      PROVE  ThreadInv'
  <2>1. UNCHANGED <<accept, listening, registered>>
    BY <1>2 DEF ConnStop
  <2>2. owner' = owner \/ (owner = "wait:blocked" /\ owner' = "wait:check")
    BY <1>2 DEF ConnStop, NotifyOwner
  <2> QED
    BY <2>1, <2>2 DEF ThreadInv
<1>3. CASE AcceptCheck \/ AcceptWoken \/ AcceptSelectFails
  <2>1. owner' = owner /\ registered' \subseteq registered
    BY <1>3 DEF AcceptCheck, AcceptWoken, AcceptSelectFails, Reap
  <2>2. /\ accept \in {"check", "select"}
        /\ \/ accept' = "ended" /\ listening' = FALSE
           \/ accept' \in {"check", "select"} /\ listening' = listening
    BY <1>3 DEF AcceptCheck, AcceptWoken, AcceptSelectFails, EndAccept
  <2> QED
    BY <2>1, <2>2 DEF ThreadInv
<1>4. ASSUME NEW p \in Peers, AcceptRefuse(p) \/ AcceptFails(p) \/ AcceptServe(p)
      PROVE  ThreadInv'
  <2>1. /\ UNCHANGED <<owner, listening>>
        /\ accept = "select" /\ accept' = "check"
    BY <1>4 DEF AcceptRefuse, AcceptFails, AcceptServe, AcceptReady
  <2> QED
    BY <2>1 DEF ThreadInv
<1>5. CASE Start
  BY <1>5 DEF ThreadInv, Start
<1>6. CASE CallWaitOrStop \/ WaitStep \/ WaitWakesSpuriously
  <2>1. /\ UNCHANGED <<accept, listening, registered>>
        /\ owner \notin {"idle", "killed"}
        /\ owner' \notin {"idle", "killed", "stop:wake", "stop:join"}
    BY <1>6 DEF CallWaitOrStop, WaitStep, WaitWakesSpuriously
  <2> QED
    BY <2>1 DEF ThreadInv
<1>7. CASE StopStep
  BY <1>7 DEF ThreadInv, StopStep, StopFlag, StopKick, StopJoinAccept, StopWake, StopJoin,
     AcceptJoined
<1>8. CASE UNCHANGED vars
  BY <1>8 DEF ThreadInv, vars
<1>9. ASSUME NEW p \in Peers, KilledByPipe(p)
      PROVE  ThreadInv'
  BY <1>9 DEF KilledByPipe, ThreadInv
<1> QED
  BY <1>1, <1>2, <1>3, <1>4, <1>5, <1>6, <1>7, <1>8, <1>9 DEF Next, ConnStep, AcceptStep, AcceptFault

\* Closing the connection of p concerns nobody else.
LEMMA ClosedForOne ==
  ASSUME TypeOK, NEW p \in Peers, NEW peers \in [Peers -> PeerStates],
         NEW after \in ClosedFor(p, peers)
  PROVE  /\ \A q \in Peers : q # p => after[q] = peers[q]
         /\ after[p].at \in {peers[p].at, "gone"}
  BY GoneTyped DEF ClosedFor, PeerStates

LEMMA RefusedOne ==
  ASSUME TypeOK, NEW p \in Peers, Refuse(p)
  PROVE  /\ \A q \in Peers : q # p => peer'[q] = peer[q] /\ socket'[q] = socket[q]
         /\ peer'[p].at \in {peer[p].at, "gone"} /\ socket'[p] = "closed"
<1>1. /\ Answered(p, "error") \in [Peers -> PeerStates]
      /\ \A q \in Peers : q # p => Answered(p, "error")[q] = peer[q]
      /\ Answered(p, "error")[p].at = peer[p].at
  <2>1. Answered(p, "error") \in [Peers -> PeerStates]
    BY AnsweredTyped
  <2> QED
    BY <2>1 DEF Answered, TypeOK, PeerStates
<1>2. /\ \A q \in Peers : q # p => peer'[q] = Answered(p, "error")[q]
      /\ peer'[p].at \in {Answered(p, "error")[p].at, "gone"}
  BY <1>1, ClosedForOne DEF Refuse
<1> QED
  BY <1>1, <1>2 DEF Refuse, TypeOK

\* A step that concerns one connection.
LEMMA OneConnection ==
  ASSUME ConnInv, NEW p \in Peers,
         \A q \in Peers : q # p => /\ conn'[q] = conn[q] /\ socket'[q] = socket[q]
                                   /\ peer'[q].at = peer[q].at,
         registered \subseteq registered', listening' = listening, ConnOK(p)'
  PROVE  ConnInv'
  BY DEF ConnInv, ConnOK

LEMMA NextConn == TypeOK /\ ThreadInv /\ ConnInv /\ [Next]_vars => ConnInv'
<1> SUFFICES ASSUME TypeOK, ThreadInv, ConnInv, [Next]_vars PROVE ConnInv'
  OBVIOUS
<1> USE DEF peerless, acceptless, connless, ownerless
<1>1. ASSUME NEW p \in Peers, Connect(p)
      PROVE  ConnInv'
  <2>1. ConnOK(p)'
    BY <1>1 DEF ConnInv, ConnOK, Connect, TypeOK, PeerStates
  <2> QED
    BY <1>1, <2>1, OneConnection DEF Connect, TypeOK, PeerStates
<1>2. ASSUME NEW p \in Peers, NEW kind,
             SendHeader(p, kind) \/ SendPayload(p, kind) \/ Receive(p) \/ HangUp(p)
      PROVE  ConnInv'
  <2>1. /\ UNCHANGED <<conn, socket, registered, listening>>
        /\ peer[p].at = "open" /\ peer'[p].at \in {"open", "gone"}
        /\ \A q \in Peers : q # p => peer'[q] = peer[q]
    BY <1>2, GoneTyped DEF SendHeader, SendPayload, Receive, HangUp, TypeOK, PeerStates
  <2>2. ConnOK(p)'
    BY <2>1 DEF ConnInv, ConnOK
  <2> QED
    BY <2>1, <2>2, OneConnection
<1>3. ASSUME NEW p \in Peers,
             \/ Drain(p) \/ ReplyBlocks(p) \/ ConnSelectFails(p) \/ ConnCheck(p)
             \/ ConnSelect(p) \/ ConnError(p) \/ ConnReply(p) \/ ConnStop(p)
      PROVE  ConnInv'
  <2>1. UNCHANGED <<socket, registered, listening>>
    BY <1>3 DEF Drain, ReplyBlocks, ConnSelectFails, ConnCheck, ConnSelect, ConnError,
       ConnReply, ConnStop
  <2>2. /\ conn[p] \notin {"none", "leave", "ended"} /\ conn'[p] \notin {"none", "leave", "ended"}
        /\ \A q \in Peers : q # p => conn'[q] = conn[q]
    BY <1>3 DEF Drain, ReplyBlocks, ConnSelectFails, ConnCheck, ConnSelect, ConnError, AfterPart,
       ConnReply, Reply, ReplyFails, ConnStop, Goto, TypeOK
  <2>3. \A q \in Peers : peer'[q].at = peer[q].at
    BY <1>3 DEF Drain, ReplyBlocks, ConnSelectFails, ConnCheck, ConnSelect, ConnError,
       ConnReply, Reply, ReplyFails, ConnStop, Answered, TypeOK, PeerStates
  <2>4. ConnOK(p)'
    BY <2>1, <2>2, <2>3 DEF ConnInv, ConnOK
  <2> QED
    BY <2>1, <2>2, <2>3, <2>4, OneConnection
<1>4. ASSUME NEW p \in Peers, ConnClose(p)
      PROVE  ConnInv'
  <2>1. /\ \A q \in Peers : q # p => peer'[q] = peer[q]
        /\ peer'[p].at \in {peer[p].at, "gone"}
    BY <1>4, ClosedForOne DEF ConnClose, TypeOK
  <2>2. ConnOK(p)'
    BY <1>4, <2>1 DEF ConnClose, Goto, ConnInv, ConnOK, TypeOK
  <2> QED
    BY <1>4, <2>1, <2>2, OneConnection DEF ConnClose, Goto, TypeOK
<1>5. ASSUME NEW p \in Peers, ConnLeave(p)
      PROVE  ConnInv'
  <2>1. ConnOK(p)'
    BY <1>5 DEF ConnLeave, Goto, ConnInv, ConnOK, TypeOK
  <2> QED
    BY <1>5, <2>1, OneConnection DEF ConnLeave, Goto, TypeOK
<1>6. CASE (AcceptCheck /\ stop) \/ AcceptSelectFails
  <2>1. EndAccept /\ UNCHANGED <<conn, registered>>
    BY <1>6 DEF AcceptCheck, AcceptSelectFails
  <2>2. \A p \in Peers : /\ socket'[p] = IF socket[p] = "backlog" THEN "closed" ELSE socket[p]
                         /\ peer'[p].at = peer[p].at
    BY <2>1, GoneTyped DEF EndAccept, TypeOK
  <2> QED
    BY <2>1, <2>2 DEF ConnInv, ConnOK
<1>7. CASE (AcceptCheck /\ ~stop) \/ AcceptWoken
  <2>1. /\ UNCHANGED <<conn, socket, peer, listening>>
        /\ \A p \in registered : conn[p] # "ended" => p \in registered'
    BY <1>7 DEF AcceptCheck, AcceptWoken, Reap
  <2> QED
    BY <2>1 DEF ConnInv, ConnOK
<1>8. ASSUME NEW p \in Peers, AcceptRefuse(p) \/ AcceptFails(p)
      PROVE  ConnInv'
  <2>1. UNCHANGED <<conn, listening, registered>> /\ socket[p] = "backlog"
    BY <1>8 DEF AcceptRefuse, AcceptFails, AcceptReady
  <2>2. CASE UNCHANGED <<peer, socket>>
    BY <2>1, <2>2 DEF ConnInv, ConnOK
  <2>3. CASE Refuse(p)
    <3>1. ConnOK(p)'
      BY <2>1, <2>3, RefusedOne DEF ConnInv, ConnOK
    <3> QED
      BY <2>1, <2>3, <3>1, RefusedOne, OneConnection
  <2> QED
    BY <1>8, <2>2, <2>3 DEF AcceptRefuse, AcceptFails
<1>9. ASSUME NEW p \in Peers, AcceptServe(p)
      PROVE  ConnInv'
  <2>1. ConnOK(p)'
    BY <1>9 DEF AcceptServe, AcceptReady, ConnInv, ConnOK, TypeOK
  <2> QED
    BY <1>9, <2>1, OneConnection DEF AcceptServe, AcceptReady, TypeOK
<1>10. CASE Start
  BY <1>10 DEF Start, ConnInv, ConnOK
<1>11. CASE CallWaitOrStop \/ WaitStep \/ WaitWakesSpuriously \/ UNCHANGED vars
  BY <1>11 DEF CallWaitOrStop, WaitStep, WaitWakesSpuriously, vars, ConnInv, ConnOK
<1>12. CASE StopFlag \/ StopKick \/ StopJoinAccept \/ StopWake
  BY <1>12 DEF StopFlag, StopKick, StopJoinAccept, StopWake, ConnInv, ConnOK
<1>13. CASE StopJoin
  <2>1. ~listening
    BY <1>13 DEF StopJoin, ThreadInv
  <2> QED
    BY <1>13, <2>1 DEF StopJoin, ConnInv, ConnOK
<1>14. ASSUME NEW p \in Peers, KilledByPipe(p)
       PROVE  ConnInv'
  <2>1. ASSUME NEW q \in Peers PROVE ConnOK(q)'
    <3>1. peer'[q].at = peer[q].at
      <4>1. peer[q] \in PeerStates
        BY DEF TypeOK
      <4>2. [peer[q] EXCEPT !.answer = "none"].at = peer[q].at
        BY <4>1 DEF PeerStates
      <4> QED
        BY <1>14, <4>2, KilledPeers, GoneTyped
    <3>2. /\ conn'[q] = IF conn[q] = "none" THEN "none" ELSE "ended"
          /\ socket'[q] = IF socket[q] = "none" THEN "none" ELSE "closed"
      BY <1>14 DEF KilledByPipe
    <3> QED
      BY <3>1, <3>2 DEF ConnInv, ConnOK
  <2> QED
    BY <2>1 DEF ConnInv
<1> QED
  BY <1>1, <1>2, <1>3, <1>4, <1>5, <1>6, <1>7, <1>8, <1>9, <1>10, <1>11, <1>12, <1>13, <1>14
     DEF Next, ConnStep, AcceptStep, AcceptFault, StopStep
-----------------------------------------------------------------------------
(***************************************************************************)
(* The count.                                                              *)
(***************************************************************************)
LEMMA NextCount == TypeOK /\ ConnInv /\ CountInv /\ [Next]_vars => CountInv'
<1> SUFFICES ASSUME TypeOK, ConnInv, CountInv, [Next]_vars PROVE CountInv'
  OBVIOUS
<1> USE DEF peerless, acceptless, connless, ownerless
<1>1. ASSUME active' = active, NEW p \in Peers,
             \A q \in Peers : q # p => conn'[q] = conn[q],
             conn'[p] \in {"none", "ended"} <=> conn[p] \in {"none", "ended"}
      PROVE  CountInv'
  <2>1. Running' = Running
    BY <1>1 DEF Running
  <2> QED
    BY <1>1, <2>1 DEF CountInv
<1>2. ASSUME active' = active, conn' = conn
      PROVE  CountInv'
  BY <1>2 DEF CountInv, Running
<1>3. ASSUME NEW p \in Peers, NEW kind,
             \/ Connect(p) \/ SendHeader(p, kind) \/ SendPayload(p, kind) \/ Receive(p) \/ HangUp(p)
             \/ AcceptRefuse(p) \/ AcceptFails(p)
      PROVE  CountInv'
  BY <1>2, <1>3 DEF Connect, SendHeader, SendPayload, Receive, HangUp, AcceptRefuse, AcceptFails
<1>4. ASSUME NEW p \in Peers,
             \/ Drain(p) \/ ReplyBlocks(p) \/ ConnSelectFails(p) \/ ConnCheck(p)
             \/ ConnSelect(p) \/ ConnError(p) \/ ConnReply(p) \/ ConnStop(p) \/ ConnClose(p)
      PROVE  CountInv'
  <2>1. active' = active
    BY <1>4 DEF Drain, ReplyBlocks, ConnSelectFails, ConnCheck, ConnSelect, ConnError,
       ConnReply, ConnStop, ConnClose
  <2>2. /\ \A q \in Peers : q # p => conn'[q] = conn[q]
        /\ conn'[p] \in {"none", "ended"} <=> conn[p] \in {"none", "ended"}
    BY <1>4 DEF Drain, ReplyBlocks, ConnSelectFails, ConnCheck, ConnSelect, ConnError, AfterPart,
       ConnReply, Reply, ReplyFails, ConnStop, ConnClose, Goto, TypeOK
  <2> QED
    BY <1>1, <2>1, <2>2
<1>5. ASSUME NEW p \in Peers, ConnLeave(p)
      PROVE  CountInv'
  <2>1. Running' = Running \ {p} /\ p \in Running
    BY <1>5 DEF ConnLeave, Goto, Running, TypeOK
  <2>2. IsFiniteSet(Running') /\ Cardinality(Running') = Cardinality(Running) - 1
    BY <2>1, FS_RemoveElement DEF CountInv
  <2>3. Cardinality(Running) \in Nat
    BY FS_CardinalityType DEF CountInv
  <2> QED
    BY <1>5, <2>2, <2>3, ServerAssumption DEF ConnLeave, CountInv
<1>6. ASSUME NEW p \in Peers, AcceptServe(p)
      PROVE  CountInv'
  <2>1. Running' = Running \union {p} /\ p \notin Running
    BY <1>6 DEF AcceptServe, AcceptReady, Running, TypeOK, ConnInv, ConnOK
  <2>2. IsFiniteSet(Running') /\ Cardinality(Running') = Cardinality(Running) + 1
    BY <2>1, FS_AddElement DEF CountInv
  <2>3. Cardinality(Running) \in Nat
    BY FS_CardinalityType DEF CountInv
  <2> QED
    BY <1>6, <2>2, <2>3, ServerAssumption DEF AcceptServe, Full, CountInv
<1>7. CASE AcceptCheck \/ AcceptWoken \/ AcceptSelectFails
  BY <1>2, <1>7 DEF AcceptCheck, AcceptWoken, AcceptSelectFails
<1>8. CASE Start \/ CallWaitOrStop \/ WaitStep \/ WaitWakesSpuriously \/ UNCHANGED vars
  BY <1>2, <1>8 DEF Start, CallWaitOrStop, WaitStep, WaitWakesSpuriously, vars
<1>9. CASE StopStep
  BY <1>2, <1>9 DEF StopStep, StopFlag, StopKick, StopJoinAccept, StopWake, StopJoin
<1>10. ASSUME NEW p \in Peers, KilledByPipe(p)
       PROVE  CountInv'
  <2>1. Running' = {} /\ active' = 0
    BY <1>10 DEF KilledByPipe, Running
  <2> QED
    BY <2>1, FS_EmptySet, ServerAssumption DEF CountInv
<1> QED
  BY <1>3, <1>4, <1>5, <1>6, <1>7, <1>8, <1>9, <1>10 DEF Next, ConnStep, AcceptStep, AcceptFault

LEMMA InitAccount == Init => AccountInv
<1> SUFFICES ASSUME Init PROVE AccountInv
  OBVIOUS
<1>1. TypeOK
  BY GoneTyped DEF Init, TypeOK, OwnerStages, ConnStages
<1>2. ThreadInv /\ ConnInv
  BY DEF Init, ThreadInv, ConnInv, ConnOK, FreshPeer
<1>3. Running = {}
  BY DEF Init, Running
<1>4. CountInv
  BY <1>3, FS_EmptySet, ServerAssumption DEF Init, CountInv
<1> QED
  BY <1>1, <1>2, <1>4 DEF AccountInv

LEMMA NextAccount == AccountInv /\ [Next]_vars => AccountInv'
  BY NextType, NextThread, NextConn, NextCount DEF AccountInv

\* The server never exceeds its bound on connections, its count is exact, every
\* open socket is registered, and nothing of it is left when stop has returned:
\* for any number of peers and starts, and whatever calls of the socket layer
\* fail.
THEOREM AccountsHold == Spec => []ConnectionsAccounted
<1>1. Init => AccountInv
  BY InitAccount
<1>2. AccountInv /\ [Next]_vars => AccountInv'
  BY NextAccount
<1>3. AccountInv => ConnectionsAccounted
  <2> SUFFICES ASSUME AccountInv PROVE ConnectionsAccounted
    OBVIOUS
  <2> DEFINE Open == {p \in Peers : Serving(p)}
  <2>1. Open \subseteq Running /\ IsFiniteSet(Running)
    BY DEF AccountInv, CountInv, ConnInv, ConnOK, Running, Serving
  <2>2. Cardinality(Open) <= Cardinality(Running) /\ IsFiniteSet(Open)
    BY <2>1, FS_Subset
  <2>3. Cardinality(Open) \in Nat /\ Cardinality(Running) \in Nat
    BY <2>1, <2>2, FS_CardinalityType
  <2>4. Cardinality(Open) <= MaxConnections /\ active = Cardinality(Running)
    BY <2>2, <2>3, ServerAssumption DEF AccountInv, CountInv
  <2>5. \A p \in Peers : Serving(p) => p \in registered
    BY DEF AccountInv, ConnInv, ConnOK, Serving
  <2>6. ASSUME Stopped
        PROVE  /\ accept = "none" /\ registered = {} /\ active = 0
               /\ \A p \in Peers : conn[p] \in {"none", "ended"} /\ socket[p] \in {"none", "closed"}
    <3>1. accept = "none" /\ registered = {} /\ ~listening
      BY <2>6 DEF Stopped, AccountInv, ThreadInv
    <3>2. \A p \in Peers : conn[p] \in {"none", "ended"} /\ socket[p] \in {"none", "closed"}
      BY <3>1 DEF AccountInv, ConnInv, ConnOK, TypeOK
    <3>3. Running = {}
      BY <3>2 DEF Running
    <3> QED
      BY <2>4, <3>1, <3>2, <3>3, FS_EmptySet
  <2> QED
    BY <2>4, <2>5, <2>6 DEF ConnectionsAccounted, Running
<1> QED
  BY <1>1, <1>2, <1>3, PTL DEF Spec
-----------------------------------------------------------------------------
(***************************************************************************)
(* The frame under way.                                                    *)
(***************************************************************************)
\* A frame has two parts.
LEMMA WholeFrame ==
  ASSUME NEW sent \in 0..2, NEW got \in Nat, got # 0, sent > got
  PROVE  got = 1 /\ sent = 2
  OBVIOUS

LEMMA NextFrame == AccountInv /\ FrameInv /\ [Next]_vars => FrameInv'
<1> SUFFICES ASSUME AccountInv, FrameInv, [Next]_vars, NEW p \in Peers PROVE FrameOK(p)'
  BY DEF FrameInv
<1>0. TypeOK /\ ConnInv /\ FrameOK(p) /\ ConnOK(p)
  BY DEF AccountInv, FrameInv, ConnInv
<1> USE DEF peerless, acceptless, connless, ownerless
<1>1. ASSUME peer'[p] = peer[p],
             conn'[p] \in {"reply", "sending", "drained"} =>
                 conn[p] \in {"reply", "sending", "drained"}
      PROVE  FrameOK(p)'
  BY <1>0, <1>1 DEF FrameOK, Unread
\* The thread has left, or was never there.
<1>2. ASSUME \/ peer'[p] = peer[p] \/ peer'[p] = GonePeer
             \/ peer'[p] = [peer[p] EXCEPT !.answer = "none"]
             \/ peer'[p] = [peer[p] EXCEPT !.answer = "error"],
             conn'[p] \notin {"reply", "sending", "drained"}
      PROVE  FrameOK(p)'
  <2>1. peer[p] \in PeerStates
    BY <1>0 DEF TypeOK
  <2> QED
    BY <1>0, <1>2, <2>1 DEF FrameOK, Unread, GonePeer, FreshPeer, PeerStates
<1>3. ASSUME NEW q \in Peers, NEW kind,
             \/ Connect(q) \/ Receive(q) \/ HangUp(q)
             \/ kind \in Frames[q] /\ (SendHeader(q, kind) \/ SendPayload(q, kind))
      PROVE  FrameOK(p)'
  <2>1. CASE q # p
    BY <1>0, <1>1, <1>3, <2>1
       DEF Connect, SendHeader, SendPayload, Receive, HangUp, TypeOK
  <2>2. CASE q = p
    <3>0. peer[p] \in PeerStates /\ conn' = conn
      BY <1>0, <1>3, <2>2 DEF TypeOK, Connect, SendHeader, SendPayload, Receive, HangUp
    <3>1. CASE Connect(p)
      BY <1>0, <3>0, <3>1 DEF Connect, FrameOK, Unread, TypeOK, PeerStates
    <3>2. CASE SendHeader(p, kind)
      BY <1>0, <3>0, <3>2 DEF SendHeader, FrameOK, Unread, TypeOK, PeerStates
    <3>3. CASE kind \in Frames[p] /\ SendPayload(p, kind)
      <4>1. kind \in FrameKinds
        BY <3>3, ServerAssumption
      <4> QED
        BY <1>0, <3>0, <3>3, <4>1 DEF SendPayload, HeaderOf, FrameOK, Unread, TypeOK, PeerStates
    <3>4. CASE Receive(p)
      BY <1>0, <3>0, <3>4 DEF Receive, FrameOK, Unread, TypeOK, PeerStates
    <3>5. CASE HangUp(p)
      <4>1. CASE socket[p] = "closed"
        BY <1>0, <1>2, <3>0, <3>5, <4>1 DEF HangUp, ConnOK, TypeOK
      <4>2. CASE socket[p] # "closed"
        BY <1>0, <3>0, <3>5, <4>2 DEF HangUp, FrameOK, Unread, TypeOK, PeerStates
      <4> QED
        BY <4>1, <4>2
    <3> QED
      BY <1>3, <2>2, <3>1, <3>2, <3>3, <3>4, <3>5
  <2> QED
    BY <2>1, <2>2
<1>4. ASSUME NEW q \in Peers,
             \/ Drain(q) \/ ReplyBlocks(q) \/ ConnCheck(q) \/ ConnSelectFails(q) \/ ConnStop(q)
             \/ ConnLeave(q)
      PROVE  FrameOK(p)'
  BY <1>0, <1>1, <1>4 DEF Drain, ReplyBlocks, ConnCheck, ConnSelectFails, ConnStop, ConnLeave,
     Goto, TypeOK
<1>5. ASSUME NEW q \in Peers, ConnSelect(q) \/ ConnError(q) \/ ConnReply(q) \/ ConnClose(q)
      PROVE  FrameOK(p)'
  <2>1. CASE q # p
    <3>1. conn'[p] = conn[p]
      BY <1>0, <1>5, <2>1 DEF ConnSelect, ConnError, ConnReply, Reply, ReplyFails, ConnClose,
         Goto, TypeOK
    <3>2. CASE ConnSelect(q) \/ ConnError(q) \/ ConnReply(q)
      BY <1>0, <1>1, <2>1, <3>1, <3>2
         DEF ConnSelect, ConnError, ConnReply, Reply, ReplyFails, Answered, TypeOK
    <3>3. CASE ConnClose(q)
      BY <1>0, <1>1, <2>1, <3>1, <3>3, ClosedForOne DEF ConnClose, TypeOK
    <3> QED
      BY <1>5, <3>2, <3>3
  <2>2. CASE ConnSelect(p)
    <3>0. peer[p] \in PeerStates
      BY <1>0 DEF TypeOK
    <3>1. CASE p \in wake \/ ~Unread(p)
      BY <1>0, <1>1, <2>2, <3>1 DEF ConnSelect, Goto, TypeOK
    <3>2. CASE p \notin wake /\ Unread(p)
      <4>1. /\ peer'[p] = [peer[p] EXCEPT !.got = @ + 1]
            /\ conn'[p] = AfterPart(p)
        BY <1>0, <2>2, <3>2 DEF ConnSelect, Goto, TypeOK
      <4>2. peer[p].answer \notin {"reply", "ack"}
        BY <1>0, <3>2 DEF FrameOK
      <4>3. /\ peer'[p].kind = peer[p].kind /\ peer'[p].sent = peer[p].sent
            /\ peer'[p].answer = peer[p].answer /\ peer'[p].got = peer[p].got + 1
        BY <3>0, <4>1 DEF PeerStates
      <4>4. CASE AfterPart(p) = "reply"
        <5>1. peer[p].got # 0 /\ peer[p].kind \notin {"bad header", "bad payload"}
          BY <4>4 DEF AfterPart
        <5>2. peer[p].got \in Nat /\ peer[p].sent \in 0..2
          BY <3>0 DEF PeerStates
        <5>3. peer[p].got = 1 /\ peer[p].sent = 2
          BY <3>2, <5>1, <5>2, WholeFrame DEF Unread
        <5>4. peer[p].kind \in {"request", "oversize", "shutdown"}
          BY <1>0, <5>1, <5>3 DEF FrameOK, FrameKinds
        <5> QED
          BY <1>0, <4>2, <4>3, <5>3, <5>4 DEF FrameOK
      <4>5. CASE AfterPart(p) # "reply"
        <5>1. conn'[p] \in {"error", "check"}
          BY <4>1, <4>5 DEF AfterPart
        <5> QED
          BY <1>0, <4>2, <4>3, <5>1 DEF FrameOK
      <4> QED
        BY <4>4, <4>5
    <3> QED
      BY <3>1, <3>2
  <2>3. CASE ConnError(p)
    BY <1>0, <1>2, <2>3 DEF ConnError, Answered, Goto, TypeOK
  <2>4. CASE ConnReply(p)
    <3>0. peer[p] \in PeerStates
      BY <1>0 DEF TypeOK
    <3>1. CASE conn[p] \in {"reply", "drained"} /\ Reply(p)
      <4>1. PICK answer \in {"reply", "ack"} : peer'[p] = [peer[p] EXCEPT !.answer = answer]
        BY <1>0, <3>1 DEF Reply, Answered, TypeOK
      <4>2. conn'[p] \in {"stop:flag", "check"} /\ peer[p].kind # "oversize"
        BY <1>0, <3>1 DEF Reply, TooLarge, Goto, TypeOK
      <4> QED
        BY <1>0, <3>0, <3>1, <4>1, <4>2 DEF FrameOK, Unread, PeerStates
    <3>2. CASE ReplyFails(p)
      BY <1>0, <1>2, <3>2 DEF ReplyFails, Goto, TypeOK
    <3> QED
      BY <2>4, <3>1, <3>2 DEF ConnReply
  <2>5. CASE ConnClose(p)
    BY <1>0, <1>2, <2>5 DEF ConnClose, ClosedFor, Goto, TypeOK
  <2> QED
    BY <1>5, <2>1, <2>2, <2>3, <2>4, <2>5
<1>6. CASE AcceptCheck \/ AcceptWoken \/ AcceptSelectFails
  <2>1. conn' = conn /\ (peer' = peer \/ EndAccept)
    BY <1>6 DEF AcceptCheck, AcceptWoken, AcceptSelectFails
  <2>2. CASE peer'[p] = peer[p]
    BY <1>1, <2>1, <2>2
  <2>3. CASE peer'[p] # peer[p]
    <3>1. socket[p] = "backlog" /\ peer'[p] = GonePeer
      BY <1>0, <2>1, <2>3 DEF EndAccept
    <3>2. conn'[p] = "none"
      BY <1>0, <2>1, <3>1 DEF ConnOK
    <3> QED
      BY <1>2, <3>1, <3>2
  <2> QED
    BY <2>2, <2>3
<1>7. ASSUME NEW q \in Peers, AcceptRefuse(q) \/ AcceptFails(q)
      PROVE  FrameOK(p)'
  <2>1. conn' = conn /\ socket[q] = "backlog" /\ (peer' = peer \/ Refuse(q))
    BY <1>7 DEF AcceptRefuse, AcceptFails, AcceptReady
  <2>2. CASE peer' = peer \/ q # p
    BY <1>0, <1>1, <2>1, <2>2, RefusedOne
  <2>3. CASE Refuse(p) /\ q = p
    <3>1. conn'[p] = "none"
      BY <1>0, <2>1, <2>3 DEF ConnOK
    <3>2. \/ peer'[p] = GonePeer
          \/ peer'[p] = [peer[p] EXCEPT !.answer = "error"]
          \/ peer'[p] = [peer[p] EXCEPT !.answer = "none"]
      BY <1>0, <2>3 DEF Refuse, ClosedFor, Answered, TypeOK, PeerStates
    <3> QED
      BY <1>2, <3>1, <3>2
  <2> QED
    BY <2>1, <2>2, <2>3
<1>8. ASSUME NEW q \in Peers, AcceptServe(q)
      PROVE  FrameOK(p)'
  BY <1>0, <1>1, <1>8 DEF AcceptServe, AcceptReady, TypeOK
<1>9. CASE Start \/ CallWaitOrStop \/ WaitStep \/ WaitWakesSpuriously \/ StopStep \/ UNCHANGED vars
  <2>1. UNCHANGED <<conn, peer>>
    BY <1>9 DEF Start, CallWaitOrStop, WaitStep, WaitWakesSpuriously, StopStep, StopFlag,
       StopKick, StopJoinAccept, StopWake, StopJoin, vars
  <2> QED
    BY <1>1, <2>1
<1>10. ASSUME NEW q \in Peers, KilledByPipe(q)
       PROVE  FrameOK(p)'
  <2>1. conn'[p] \in {"none", "ended"}
    BY <1>10 DEF KilledByPipe
  <2> QED
    BY <1>0, <1>2, <1>10, <2>1, KilledPeers
<1> QED
  BY <1>3, <1>4, <1>5, <1>6, <1>7, <1>8, <1>9, <1>10
     DEF Next, ConnStep, AcceptStep, AcceptFault
-----------------------------------------------------------------------------
(***************************************************************************)
(* The reasons for closing a connection.                                   *)
(***************************************************************************)
\* A step of the peers or of the server's threads, other than a start, that
\* concerns one connection.
LEMMA OneReason ==
  ASSUME ReasonInv, NEW p \in Peers,
         \A q \in Peers : q # p => /\ conn'[q] = conn[q] /\ socket'[q] = socket[q]
                                   /\ peer'[q] = peer[q],
         starts' = starts, stop => stop', Undisturbed' => Undisturbed,
         owner = "idle" => owner' = "idle", ReasonOK(p)'
  PROVE  ReasonInv'
  BY DEF ReasonInv, ReasonOK, LastWord, Unanswerable, TooLarge, Unread

\* What closing leaves of the peer's end.
LEMMA ClosedAnswer ==
  ASSUME TypeOK, NEW p \in Peers, NEW peers \in [Peers -> PeerStates],
         peers[p].at = peer[p].at, peers[p].sent = peer[p].sent, peers[p].got = peer[p].got,
         NEW after \in ClosedFor(p, peers), after[p].at = "open"
  PROVE  \/ after[p] = peers[p]
         \/ after[p].sent > after[p].got /\ after[p].answer = "none"
<1>1. peer[p].at # "gone"
  <2>1. CASE peer[p].at = "gone"
    <3>1. after = [peers EXCEPT ![p] = GonePeer]
      BY <2>1 DEF ClosedFor
    <3> QED
      BY <3>1, GoneTyped
  <2> QED
    BY <2>1
<1>2. CASE after = peers
  BY <1>2
<1>3. CASE Unread(p) /\ after = [peers EXCEPT ![p].answer = "none"]
  BY <1>3 DEF Unread, PeerStates
<1> QED
  BY <1>1, <1>2, <1>3 DEF ClosedFor

LEMMA RefusedReason ==
  ASSUME TypeOK, NEW p \in Peers, Refuse(p), peer'[p].at = "open"
  PROVE  peer'[p].answer = "error" \/ (Unread(p)' /\ peer'[p].answer = "none")
<1> DEFINE told == Answered(p, "error")
<1>1. told \in [Peers -> PeerStates]
  BY AnsweredTyped
<1>2. /\ told[p].at = peer[p].at /\ told[p].sent = peer[p].sent /\ told[p].got = peer[p].got
      /\ told[p].answer = "error"
  BY DEF Answered, TypeOK, PeerStates
<1>3. peer' \in ClosedFor(p, told)
  BY DEF Refuse
<1> HIDE DEF told
<1> QED
  BY <1>1, <1>2, <1>3, ClosedAnswer DEF Unread

LEMMA NextReason == AccountInv /\ FrameInv /\ ReasonInv /\ [Next]_vars => ReasonInv'
<1> SUFFICES ASSUME AccountInv, FrameInv, ReasonInv, [Next]_vars PROVE ReasonInv'
  OBVIOUS
<1>0. TypeOK /\ ThreadInv /\ ConnInv
  BY DEF AccountInv
<1> USE DEF peerless, acceptless, connless, ownerless
<1>1. ASSUME NEW p \in Peers, Connect(p)
      PROVE  ReasonInv'
  <2>1. starts # 0 /\ conn[p] = "none"
    BY <1>0, <1>1 DEF Connect, ThreadInv, ConnInv, ConnOK, ReasonInv, ReasonOK
  <2>2. ReasonOK(p)'
    BY <1>0, <1>1, <2>1 DEF Connect, ReasonOK, TypeOK
  <2> QED
    BY <1>0, <1>1, <2>2, OneReason DEF Connect, TypeOK, Undisturbed
<1>2. ASSUME NEW p \in Peers, NEW kind, SendHeader(p, kind) \/ SendPayload(p, kind)
      PROVE  ReasonInv'
  <2>1. /\ UNCHANGED <<conn, socket, starts, stop, faults, owner>> /\ socket[p] # "closed"
        /\ \A q \in Peers : q # p => peer'[q] = peer[q]
        /\ peer'[p].at = peer[p].at /\ peer'[p].answer = peer[p].answer
        /\ peer[p].kind \in {"none", HeaderOf(kind)}
    BY <1>0, <1>2 DEF SendHeader, SendPayload, TypeOK, PeerStates
  <2>2. ~TooLarge(p)
    BY <2>1 DEF TooLarge, HeaderOf
  <2>3. ReasonOK(p)'
    BY <2>1, <2>2 DEF ReasonInv, ReasonOK, LastWord, Unanswerable, Undisturbed
  <2> QED
    BY <2>1, <2>3, OneReason DEF Undisturbed
<1>3. ASSUME NEW p \in Peers, Receive(p)
      PROVE  ReasonInv'
  <2>1. /\ UNCHANGED <<conn, socket, starts, stop, faults, owner>>
        /\ peer[p].answer \in {"reply", "ack"} /\ peer[p].at = "open"
        /\ \A q \in Peers : q # p => peer'[q] = peer[q]
    BY <1>0, <1>3 DEF Receive, TypeOK, PeerStates
  <2>2. ReasonOK(p)'
    BY <2>1 DEF ReasonInv, ReasonOK, LastWord, Undisturbed
  <2> QED
    BY <2>1, <2>2, OneReason DEF Undisturbed
<1>4. ASSUME NEW p \in Peers, HangUp(p)
      PROVE  ReasonInv'
  <2>1. /\ UNCHANGED <<conn, socket, starts, stop, faults, owner>>
        /\ peer'[p].at = "gone"
        /\ \A q \in Peers : q # p => peer'[q] = peer[q]
    BY <1>0, <1>4, GoneTyped DEF HangUp, TypeOK, PeerStates
  <2>2. ReasonOK(p)'
    BY <2>1 DEF ReasonInv, ReasonOK
  <2> QED
    BY <2>1, <2>2, OneReason DEF Undisturbed
<1>5. ASSUME NEW p \in Peers,
             \/ Drain(p) \/ ReplyBlocks(p) \/ ConnCheck(p) \/ ConnSelect(p) \/ ConnError(p)
             \/ ConnReply(p) \/ ConnStop(p) \/ ConnSelectFails(p)
      PROVE  ReasonInv'
  <2>1. /\ UNCHANGED <<socket, starts>>
        /\ stop => stop'
        /\ faults' = faults \/ faults' # 0
    BY <1>0, <1>5 DEF Drain, ReplyBlocks, ConnSelectFails, ConnCheck, ConnSelect, ConnError,
       ConnReply, ConnStop, Fail, TypeOK
  <2>2. socket[p] = "open"
    BY <1>0, <1>5 DEF Drain, ReplyBlocks, ConnSelectFails, ConnCheck, ConnSelect, ConnError,
       ConnReply, ConnStop, ConnInv, ConnOK
  <2>3. /\ \A q \in Peers : q # p => peer'[q] = peer[q]
        /\ \A q \in Peers : q # p => conn'[q] = conn[q]
        /\ owner = "idle" => owner' = "idle"
        /\ owner = "killed" => owner' = "killed"
    BY <1>0, <1>5 DEF Drain, ReplyBlocks, ConnSelectFails, ConnCheck, ConnSelect, ConnError,
       ConnReply, Reply, ReplyFails, ConnStop, NotifyOwner, Answered, Goto, TypeOK
  <2>4. conn'[p] \in {"stop:notify", "stop:kick"} => stop'
    BY <1>0, <1>5 DEF Drain, ReplyBlocks, ConnSelectFails, ConnCheck, ConnSelect, AfterPart,
       ConnError, ConnReply, Reply, ReplyFails, ConnStop, Goto, TypeOK, ReasonInv, ReasonOK
  <2>5. Undisturbed' /\ peer'[p].at = "open" /\ conn'[p] = "close" => LastWord(p)'
    <3> SUFFICES ASSUME Undisturbed', peer'[p].at = "open", conn'[p] = "close"
                 PROVE  LastWord(p)'
      OBVIOUS
    <3>1. CASE Drain(p) \/ ReplyBlocks(p) \/ ConnCheck(p) \/ ConnSelectFails(p)
      BY <1>0, <3>1 DEF Drain, ReplyBlocks, ConnCheck, ConnSelectFails, Fail, Goto, TypeOK,
         Undisturbed
    <3>2. CASE ConnSelect(p)
      BY <1>0, <3>2 DEF ConnSelect, AfterPart, Readable, Goto, TypeOK
    <3>3. CASE ConnError(p)
      <4>1. peer' = Answered(p, "error") \/ (peer[p].at = "gone" /\ peer' = peer)
        BY <3>3 DEF ConnError, SendMayFail
      <4> QED
        BY <1>0, <4>1 DEF Answered, LastWord, TypeOK, PeerStates
    <3>4. CASE ConnReply(p)
      <4>1. ReplyFails(p) /\ conn[p] \in {"reply", "sending", "drained"}
        BY <1>0, <3>4 DEF ConnReply, Reply, Goto, TypeOK
      <4>2. TooLarge(p) /\ peer' = peer
        BY <4>1 DEF ReplyFails, SendMayFail
      <4>3. peer[p].got = 2 /\ peer[p].answer \in {"none", "error"}
        BY <1>0, <4>1 DEF FrameInv, FrameOK, TypeOK, PeerStates
      <4> QED
        BY <4>2, <4>3 DEF LastWord, Unanswerable, TooLarge
    <3>5. CASE ConnStop(p)
      BY <1>0, <3>5 DEF ConnStop, Goto, TypeOK, ReasonInv, ReasonOK, Undisturbed
    <3> QED
      BY <1>5, <3>1, <3>2, <3>3, <3>4, <3>5
  <2>6. starts # 0
    BY <2>2 DEF ReasonInv, ReasonOK
  <2>7. ReasonOK(p)'
    BY <2>1, <2>2, <2>4, <2>5, <2>6 DEF ReasonOK
  <2> QED
    BY <2>1, <2>3, <2>7, OneReason DEF Undisturbed
<1>6. ASSUME NEW p \in Peers, ConnClose(p)
      PROVE  ReasonInv'
  <2>1. /\ UNCHANGED <<starts, stop, faults, owner>>
        /\ conn'[p] = "leave" /\ socket'[p] = "closed" /\ socket[p] = "open"
        /\ \A q \in Peers : q # p => conn'[q] = conn[q] /\ socket'[q] = socket[q]
    BY <1>0, <1>6 DEF ConnClose, Goto, TypeOK, ConnInv, ConnOK
  <2>2. peer' \in ClosedFor(p, peer) /\ peer \in [Peers -> PeerStates]
    BY <1>0, <1>6 DEF ConnClose, TypeOK
  <2>3. /\ \A q \in Peers : q # p => peer'[q] = peer[q]
        /\ peer'[p].at \in {peer[p].at, "gone"}
    BY <1>0, <2>2, ClosedForOne
  <2>4. Undisturbed /\ peer'[p].at = "open" =>
           LastWord(p)' \/ (Unread(p)' /\ peer'[p].answer = "none")
    <3> SUFFICES ASSUME Undisturbed, peer'[p].at = "open"
                 PROVE  LastWord(p)' \/ (Unread(p)' /\ peer'[p].answer = "none")
      OBVIOUS
    <3>1. peer[p].at = "open"
      BY <2>3
    <3>2. LastWord(p)
      BY <1>6, <3>1 DEF ConnClose, ReasonInv, ReasonOK
    <3>3. \/ peer'[p] = peer[p]
          \/ peer'[p].sent > peer'[p].got /\ peer'[p].answer = "none"
      BY <1>0, <2>2, ClosedAnswer
    <3> QED
      BY <3>2, <3>3 DEF LastWord, Unanswerable, TooLarge, Unread
  <2>5. ReasonOK(p)'
    BY <2>1, <2>4 DEF ReasonInv, ReasonOK, Undisturbed
  <2> QED
    BY <2>1, <2>3, <2>5, OneReason DEF Undisturbed
<1>7. ASSUME NEW p \in Peers, ConnLeave(p)
      PROVE  ReasonInv'
  <2>1. ReasonOK(p)'
    BY <1>0, <1>7 DEF ConnLeave, Goto, TypeOK, ReasonInv, ReasonOK, LastWord, Unanswerable, TooLarge,
       Undisturbed, Unread
  <2> QED
    BY <1>0, <1>7, <2>1, OneReason DEF ConnLeave, Goto, TypeOK, Undisturbed
<1>8. CASE (AcceptCheck /\ stop) \/ AcceptSelectFails
  <2>1. EndAccept /\ UNCHANGED <<conn, owner, stop, starts>> /\ ~Undisturbed'
    BY <1>0, <1>8 DEF AcceptCheck, AcceptSelectFails, Fail, Undisturbed, TypeOK
  <2>2. \A p \in Peers : socket[p] = "none" => socket'[p] = "none"
    BY <2>1 DEF EndAccept
  <2> QED
    BY <2>1, <2>2 DEF ReasonInv, ReasonOK
<1>9. CASE (AcceptCheck /\ ~stop) \/ AcceptWoken
  <2>1. UNCHANGED <<conn, socket, peer, owner, stop, starts, faults>>
    BY <1>9 DEF AcceptCheck, AcceptWoken
  <2> QED
    BY <2>1 DEF ReasonInv, ReasonOK, LastWord, Unanswerable, TooLarge, Undisturbed, Unread
<1>10. ASSUME NEW p \in Peers, AcceptRefuse(p) \/ AcceptFails(p)
       PROVE  ReasonInv'
  <2>1. /\ UNCHANGED <<conn, owner, stop, starts>> /\ socket[p] = "backlog"
        /\ faults' = faults \/ faults' # 0
    BY <1>0, <1>10 DEF AcceptRefuse, AcceptFails, AcceptReady, Fail, TypeOK
  <2>2. starts # 0
    BY <2>1 DEF ReasonInv, ReasonOK
  <2>3. CASE UNCHANGED <<peer, socket>>
    BY <2>1, <2>3 DEF ReasonInv, ReasonOK, LastWord, Unanswerable, TooLarge, Undisturbed, Unread
  <2>4. CASE Refuse(p)
    <3>1. conn[p] = "none"
      BY <1>0, <2>1 DEF ConnInv, ConnOK
    <3>2. ReasonOK(p)'
      BY <1>0, <2>1, <2>2, <2>4, <3>1, RefusedReason DEF ReasonOK, LastWord
    <3> QED
      BY <1>0, <2>1, <2>4, <3>2, RefusedOne, OneReason DEF Undisturbed
  <2> QED
    BY <1>10, <2>3, <2>4 DEF AcceptRefuse, AcceptFails
<1>11. ASSUME NEW p \in Peers, AcceptServe(p)
       PROVE  ReasonInv'
  <2>1. ReasonOK(p)'
    BY <1>0, <1>11 DEF AcceptServe, AcceptReady, TypeOK, ReasonInv, ReasonOK
  <2> QED
    BY <1>0, <1>11, <2>1, OneReason DEF AcceptServe, AcceptReady, TypeOK, Undisturbed
<1>12. CASE Start
  <2>1. registered = {} /\ conn' = conn /\ socket' = socket /\ starts' = starts + 1 /\ starts \in Nat
    BY <1>0, <1>12 DEF Start, ThreadInv, TypeOK
  <2>2. \A p \in Peers : conn[p] \in {"none", "ended"}
    BY <1>0, <2>1 DEF ConnInv, ConnOK, TypeOK
  <2>3. starts' = 1 => \A p \in Peers : socket[p] = "none"
    BY <2>1 DEF ReasonInv, ReasonOK
  <2>4. starts' # 0
    BY <2>1
  <2> QED
    BY <2>1, <2>2, <2>3, <2>4 DEF ReasonInv, ReasonOK, Undisturbed
<1>13. CASE CallWaitOrStop \/ WaitStep \/ WaitWakesSpuriously \/ UNCHANGED vars
  <2>1. /\ UNCHANGED <<conn, socket, peer, stop, starts, faults>>
        /\ owner = "idle" => owner' = "idle"
        /\ owner = "killed" => owner' = "killed"
    BY <1>13 DEF CallWaitOrStop, WaitStep, WaitWakesSpuriously, vars
  <2> QED
    BY <2>1 DEF ReasonInv, ReasonOK, LastWord, Unanswerable, TooLarge, Undisturbed, Unread
<1>14. CASE StopStep
  <2>1. /\ UNCHANGED <<conn, socket, peer, starts, faults>> /\ owner \notin {"idle", "killed"}
        /\ stop => stop'
    BY <1>14 DEF StopStep, StopFlag, StopKick, StopJoinAccept, StopWake, StopJoin
  <2> QED
    BY <2>1 DEF ReasonInv, ReasonOK, LastWord, Unanswerable, TooLarge, Undisturbed, Unread
<1>15. ASSUME NEW p \in Peers, KilledByPipe(p)
       PROVE  ReasonInv'
  <2>1. ~Undisturbed' /\ starts' = starts /\ \A q \in Peers : conn'[q] \in {"none", "ended"}
    BY <1>15 DEF KilledByPipe, Undisturbed
  <2>2. starts # 0
    BY <1>0, <1>15 DEF KilledByPipe, SendsTo, ReasonInv, ReasonOK, ConnInv, ConnOK
  <2> QED
    BY <2>1, <2>2 DEF ReasonInv, ReasonOK
<1> QED
  BY <1>1, <1>2, <1>3, <1>4, <1>5, <1>6, <1>7, <1>8, <1>9, <1>10, <1>11, <1>12, <1>13, <1>14, <1>15
     DEF Next, ConnStep, AcceptStep, AcceptFault

\* A connection is closed only for a reason: unless the server was asked to
\* stop, was killed, or had a call of the socket layer fail, a peer that is
\* still there has got an error, or lost it only because bytes of its own were
\* left unread, or has asked for an answer that is larger than max_frame_bytes
\* (send_frame and connection_loop, which then ends without an error).
THEOREM ReasonsHold == Spec => []ClosedWithReason
<1>1. Init => AccountInv /\ FrameInv /\ ReasonInv
  <2> SUFFICES ASSUME Init PROVE FrameInv /\ ReasonInv
    BY InitAccount
  <2>1. FrameInv
    BY DEF Init, FrameInv, FrameOK, FreshPeer
  <2>2. ReasonInv
    BY DEF Init, ReasonInv, ReasonOK, Undisturbed
  <2> QED
    BY <2>1, <2>2
<1>2. AccountInv /\ FrameInv /\ ReasonInv /\ [Next]_vars => AccountInv' /\ FrameInv' /\ ReasonInv'
  BY NextAccount, NextFrame, NextReason
<1>3. ReasonInv => ClosedWithReason
  BY DEF ReasonInv, ReasonOK, LastWord, ClosedWithReason, Undisturbed
<1> QED
  BY <1>1, <1>2, <1>3, PTL DEF Spec
=============================================================================
