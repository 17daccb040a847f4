-------------------------------- MODULE Server --------------------------------
(***************************************************************************)
(* The server (src/src/transport/server.cpp): the thread that owns it, the *)
(* accept thread, one thread per connection, and the peers.  Threads wait  *)
(* in select for a socket or for a byte in a wakeup channel; stop_requested*)
(* is an atomic flag; the owner may also wait on a condition variable.     *)
(*                                                                         *)
(* A frame is a header and a payload.  What a request asks of the fabric   *)
(* is the business of Fabric; here a request is answered, has an answer    *)
(* that no frame can hold, is accepted as a shutdown, or cannot be         *)
(* decoded.  The answer to a request may fill the buffers of a peer that   *)
(* does not read, errors are short and never do.  A broken pipe is an      *)
(* error of send or, on POSIX, a signal that ends the process.  Steps of a *)
(* thread that no other thread can tell apart are one step here.           *)
(***************************************************************************)
EXTENDS Integers, FiniteSets

CONSTANTS
    Peers,          \* the peers; each connects at most once
    Frames,         \* the kinds of frames each peer may send
    MaxConnections, \* config.max_connections
    MaxRequests,    \* bound on the requests of a peer
    MaxStarts,      \* bound on the starts of the server
    MaxFaults       \* bound on failing calls of the socket layer

\* What a frame can be: a request the server answers, one whose answer is
\* larger than max_frame_bytes, an armed shutdown with the right token, and
\* frames whose header or payload cannot be decoded.
FrameKinds == {"request", "oversize", "shutdown", "bad header", "bad payload"}

ASSUME ServerAssumption ==
    /\ Frames \in [Peers -> SUBSET FrameKinds]
    /\ MaxConnections \in Nat \ {0}
    /\ {MaxRequests, MaxStarts, MaxFaults} \subseteq Nat

VARIABLES
    owner,      \* where the owning thread is
    accept,     \* where the accept thread is
    conn,       \* where each connection's thread is
    stop,       \* stop_requested_
    kick,       \* a byte is in wake_, the channel of the accept thread
    wake,       \* the connections with a byte in their channel
    listening,  \* the listener is open
    registered, \* the entries of connections_
    active,     \* active_connections_
    socket,     \* the server's end of each connection
    peer,       \* the peer's end: its state, request and answer
    starts,     \* how often the server was started
    faults,     \* how many calls have failed
    acked       \* an accepted shutdown was acknowledged since the last start

vars == <<owner, accept, conn, stop, kick, wake, listening, registered, active, socket, peer,
          starts, faults, acked>>

FreshPeer == [at |-> "idle", kind |-> "none", sent |-> 0, got |-> 0, answer |-> "none",
              requests |-> 0]
GonePeer == [FreshPeer EXCEPT !.at = "gone"]

Init ==
    /\ owner = "idle" /\ accept = "none"
    /\ conn = [p \in Peers |-> "none"]
    /\ stop = FALSE /\ kick = FALSE /\ wake = {}
    /\ listening = FALSE
    /\ registered = {} /\ active = 0
    /\ socket = [p \in Peers |-> "none"]
    /\ peer = [p \in Peers |-> FreshPeer]
    /\ starts = 0 /\ faults = 0 /\ acked = FALSE

Fail == faults < MaxFaults /\ faults' = faults + 1

-----------------------------------------------------------------------------
(* The peers *)

peerless == <<owner, accept, conn, stop, kick, wake, listening, registered, active, starts,
              faults, acked>>

Connect(p) ==
    /\ listening
    /\ peer[p].at = "idle"
    /\ peer' = [peer EXCEPT ![p].at = "open"]
    /\ socket' = [socket EXCEPT ![p] = "backlog"]
    /\ UNCHANGED peerless

\* What can be told of a frame by its header.
HeaderOf(kind) == IF kind = "bad header" THEN "bad header" ELSE "frame"

\* The header of the next frame; the payload follows, or never does.  Bytes for
\* a closed socket go nowhere.
SendHeader(p, kind) ==
    /\ peer[p].at = "open" /\ peer[p].kind = "none" /\ socket[p] # "closed"
    /\ peer[p].requests < MaxRequests
    /\ peer' = [peer EXCEPT ![p].kind = HeaderOf(kind), ![p].sent = 1, ![p].requests = @ + 1]
    /\ UNCHANGED <<peerless, socket>>

SendPayload(p, kind) ==
    /\ peer[p].at = "open" /\ peer[p].sent = 1 /\ socket[p] # "closed"
    /\ peer[p].kind = HeaderOf(kind)
    /\ peer' = [peer EXCEPT ![p].kind = kind, ![p].sent = 2]
    /\ UNCHANGED <<peerless, socket>>

\* receive_frame returns the answer.  An error is the last thing the server
\* sends, and stays the peer's answer.
Receive(p) ==
    /\ peer[p].at = "open" /\ peer[p].sent = 2
    /\ peer[p].answer \in {"reply", "ack"}
    /\ peer' = [peer EXCEPT ![p].kind = "none", ![p].sent = 0, ![p].got = 0,
                            ![p].answer = "none"]
    /\ UNCHANGED <<peerless, socket>>

\* A peer that had left an answer unread makes room for the rest of it.
Drain(p) ==
    /\ peer[p].at = "open" /\ conn[p] = "sending"
    /\ conn' = [conn EXCEPT ![p] = "drained"]
    /\ UNCHANGED <<owner, accept, stop, kick, wake, listening, registered, active, socket, peer,
                   starts, faults, acked>>

\* The peer goes away, of its own accord or because its stream has ended.
HangUp(p) ==
    /\ peer[p].at = "open"
    /\ peer' = [peer EXCEPT ![p] = IF socket[p] = "closed" THEN GonePeer
                                                          ELSE [@ EXCEPT !.at = "gone"]]
    /\ UNCHANGED <<peerless, socket>>

-----------------------------------------------------------------------------
(* Sockets, from the server's side *)

Unread(p) == peer[p].sent > peer[p].got

Readable(p) == Unread(p) \/ peer[p].at = "gone"

\* send_all to a peer that went away succeeds or fails.
SendMayFail(p) == peer[p].at = "gone"

Answered(p, answer) == [peer EXCEPT ![p].answer = answer]

\* Closing a socket with unread bytes resets the connection, and the peer
\* may lose an answer it has not read yet.
ClosedFor(p, peers) ==
    IF peer[p].at = "gone" THEN {[peers EXCEPT ![p] = GonePeer]}
    ELSE IF Unread(p) THEN {peers, [peers EXCEPT ![p].answer = "none"]} ELSE {peers}

-----------------------------------------------------------------------------
(* request_stop, from a connection or from stop *)

\* Mutated form: the accept thread is not woken.
KickForgotten == UNCHANGED kick

Kick == kick' = TRUE

\* notify_all reaches a thread that is blocked already; wait_mutex_ is not
\* taken.
NotifyOwner == owner' = IF owner = "wait:blocked" THEN "wait:check" ELSE owner

-----------------------------------------------------------------------------
(* The accept thread *)

acceptless == <<owner, stop, wake, starts, acked>>

\* The listener is closed and with it what is left in its backlog.
EndAccept ==
    /\ accept' = "ended"
    /\ listening' = FALSE
    /\ socket' = [p \in Peers |-> IF socket[p] = "backlog" THEN "closed" ELSE socket[p]]
    /\ peer' = [p \in Peers |-> IF socket[p] = "backlog" /\ peer[p].at = "gone" THEN GonePeer
                                                                             ELSE peer[p]]

\* reap_finished_locked: every finished thread is joined and forgotten.
Reap ==
    /\ \A p \in registered : conn[p] # "leave"
    /\ registered' = {p \in registered : conn[p] # "ended"}

AcceptCheck ==
    /\ accept = "check"
    /\ \/ stop /\ EndAccept /\ UNCHANGED registered
       \/ ~stop /\ Reap /\ accept' = "select" /\ UNCHANGED <<listening, socket, peer>>
    /\ UNCHANGED <<acceptless, conn, kick, active, faults>>

\* select returns: the wakeup channel comes before the listener.
AcceptWoken ==
    /\ accept = "select"
    /\ kick
    /\ kick' = FALSE
    /\ accept' = "check"
    /\ UNCHANGED <<acceptless, conn, listening, registered, active, socket, peer, faults>>

\* select fails: the loop ends although nobody asked for it.
AcceptSelectFails ==
    /\ accept = "select"
    /\ Fail
    /\ EndAccept
    /\ UNCHANGED <<acceptless, conn, kick, registered, active>>

\* A peer is at the listener; the thread returns to the head of its loop.
AcceptReady(p) ==
    /\ accept = "select"
    /\ ~kick
    /\ socket[p] = "backlog"
    /\ accept' = "check"

\* Mutated form: one connection too many.
FullOneLate == active > MaxConnections

Full == active >= MaxConnections

\* Mutated form: the socket is closed without a word.
RefuseSilently(p) ==
    /\ peer' \in ClosedFor(p, peer)
    /\ socket' = [socket EXCEPT ![p] = "closed"]

\* The error is sent and the socket closed.
Refuse(p) ==
    /\ peer' \in ClosedFor(p, Answered(p, "error"))
    /\ socket' = [socket EXCEPT ![p] = "closed"]

AcceptRefuse(p) ==
    /\ AcceptReady(p)
    /\ Full
    /\ Refuse(p)
    /\ UNCHANGED <<acceptless, conn, kick, listening, registered, active, faults>>

\* accept fails, or the creation of the connection's wakeup channel.
AcceptFails(p) ==
    /\ AcceptReady(p)
    /\ Fail
    /\ \/ UNCHANGED <<peer, socket>>
       \/ ~Full /\ Refuse(p)
    /\ UNCHANGED <<acceptless, conn, kick, listening, registered, active>>

AcceptServe(p) ==
    /\ AcceptReady(p)
    /\ ~Full
    /\ socket' = [socket EXCEPT ![p] = "open"]
    /\ registered' = registered \union {p}
    /\ active' = active + 1
    /\ conn' = [conn EXCEPT ![p] = "check"]
    /\ UNCHANGED <<acceptless, kick, listening, peer, faults>>

AcceptStep ==
    \/ AcceptCheck
    \/ AcceptWoken
    \/ \E p \in Peers : AcceptRefuse(p) \/ AcceptServe(p)

AcceptFault == AcceptSelectFails \/ \E p \in Peers : AcceptFails(p)

-----------------------------------------------------------------------------
(* A connection's thread *)

Goto(p, stage) == conn' = [conn EXCEPT ![p] = stage]

connless == <<accept, listening, registered, starts>>

\* The tests of stop_requested_ in connection_loop and before every select.
ConnCheck(p) ==
    /\ conn[p] = "check"
    /\ Goto(p, IF stop THEN "close" ELSE "select")
    /\ UNCHANGED <<connless, owner, stop, kick, wake, active, socket, peer, faults, acked>>

\* Where the loop goes when it has read one more part of the frame.
AfterPart(p) ==
    IF peer[p].kind = "bad header" THEN "error"
    ELSE IF peer[p].got = 0 THEN "check"
    ELSE IF peer[p].kind = "bad payload" THEN "error" ELSE "reply"

\* read_exact_interruptible: the wakeup channel comes first; then bytes, then
\* the end of the stream.
ConnSelect(p) ==
    /\ conn[p] = "select"
    /\ p \in wake \/ Readable(p)
    /\ IF p \in wake
       THEN wake' = wake \ {p} /\ Goto(p, "check") /\ UNCHANGED peer
       ELSE IF Unread(p)
       THEN Goto(p, AfterPart(p)) /\ peer' = [peer EXCEPT ![p].got = @ + 1] /\ UNCHANGED wake
       ELSE Goto(p, "close") /\ UNCHANGED <<peer, wake>>
    /\ UNCHANGED <<connless, owner, stop, kick, active, socket, faults, acked>>

ConnSelectFails(p) ==
    /\ conn[p] = "select"
    /\ Fail
    /\ Goto(p, "close")
    /\ UNCHANGED <<connless, owner, stop, kick, wake, active, socket, peer, acked>>

\* A frame that cannot be decoded: an error is sent, and the loop ends.
ConnError(p) ==
    /\ conn[p] = "error"
    /\ peer' \in {Answered(p, "error")} \union (IF SendMayFail(p) THEN {peer} ELSE {})
    /\ Goto(p, "close")
    /\ UNCHANGED <<connless, owner, stop, kick, wake, active, socket, faults, acked>>

\* Mutated form: the reply to a refused request is forgotten.
ReplyForgotten(p) ==
    /\ Goto(p, IF peer[p].kind = "shutdown" THEN "stop:flag" ELSE "check")
    /\ peer' = IF peer[p].kind = "shutdown" THEN Answered(p, "ack") ELSE peer
    /\ acked' = (acked \/ peer[p].kind = "shutdown")

\* encode_frame refuses an answer above max_frame_bytes, and nothing is sent.
TooLarge(p) == peer[p].kind = "oversize"

\* dispatch and the frame it returns: only then is a shutdown carried out.
Reply(p) ==
    /\ ~TooLarge(p)
    /\ Goto(p, IF peer[p].kind = "shutdown" THEN "stop:flag" ELSE "check")
    /\ peer' = Answered(p, IF peer[p].kind = "shutdown" THEN "ack" ELSE "reply")
    /\ acked' = (acked \/ peer[p].kind = "shutdown")

\* send_all waits, without a look at the wakeup channel, while the buffers
\* are full.
ReplyBlocks(p) ==
    /\ conn[p] = "reply" /\ peer[p].at = "open" /\ ~TooLarge(p)
    /\ Goto(p, "sending")
    /\ UNCHANGED <<connless, owner, stop, kick, wake, active, socket, peer, faults, acked>>

\* An answer that cannot be encoded or sent ends the connection, shutdown or
\* not, and without a word to a peer that is still there.
ReplyFails(p) ==
    /\ TooLarge(p) \/ SendMayFail(p)
    /\ Goto(p, "close")
    /\ UNCHANGED <<peer, acked>>

ConnReply(p) ==
    /\ \/ conn[p] \in {"reply", "drained"} /\ Reply(p)
       \/ conn[p] \in {"reply", "sending", "drained"} /\ ReplyFails(p)
    /\ UNCHANGED <<connless, owner, stop, kick, wake, active, socket, faults>>

\* request_stop.
ConnStop(p) ==
    /\ \/ conn[p] = "stop:flag" /\ Goto(p, "stop:notify") /\ stop' = TRUE
          /\ UNCHANGED <<owner, kick>>
       \/ conn[p] = "stop:notify" /\ Goto(p, "stop:kick") /\ NotifyOwner
          /\ UNCHANGED <<stop, kick>>
       \/ conn[p] = "stop:kick" /\ Goto(p, "close") /\ Kick
          /\ UNCHANGED <<stop, owner>>
    /\ UNCHANGED <<connless, wake, active, socket, peer, faults, acked>>

\* The socket is closed and done is set, then the connection is uncounted.
ConnClose(p) ==
    /\ conn[p] = "close"
    /\ Goto(p, "leave")
    /\ socket' = [socket EXCEPT ![p] = "closed"]
    /\ peer' \in ClosedFor(p, peer)
    /\ UNCHANGED <<connless, owner, stop, kick, wake, active, faults, acked>>

ConnLeave(p) ==
    /\ conn[p] = "leave"
    /\ Goto(p, "ended")
    /\ active' = active - 1
    /\ UNCHANGED <<connless, owner, stop, kick, wake, socket, peer, faults, acked>>

ConnStep(p) ==
    \/ ConnCheck(p)
    \/ ConnSelect(p)
    \/ ConnError(p)
    \/ ConnReply(p)
    \/ ConnStop(p)
    \/ ConnClose(p)
    \/ ConnLeave(p)

-----------------------------------------------------------------------------
(* The process *)

\* Some thread is about to send to this peer.
SendsTo(p) ==
    \/ conn[p] \in {"error", "sending", "drained"}
    \/ conn[p] = "reply" /\ ~TooLarge(p)
    \/ accept = "select" /\ ~kick /\ socket[p] = "backlog" /\ Full

\* send_all passes no flags and nothing handles SIGPIPE: a send to a peer that
\* went away may end the process, and with it every thread and every socket.
KilledByPipe(p) ==
    /\ SendMayFail(p) /\ SendsTo(p)
    /\ owner' = "killed" /\ accept' = "none"
    /\ conn' = [q \in Peers |-> IF conn[q] = "none" THEN "none" ELSE "ended"]
    /\ stop' = FALSE /\ kick' = FALSE /\ wake' = {} /\ listening' = FALSE /\ acked' = FALSE
    /\ registered' = {} /\ active' = 0
    /\ socket' = [q \in Peers |-> IF socket[q] = "none" THEN "none" ELSE "closed"]
    /\ \E lost \in SUBSET {q \in Peers : Unread(q)} :
           peer' = [q \in Peers |-> IF peer[q].at = "gone" THEN GonePeer
                                    ELSE IF q \in lost THEN [peer[q] EXCEPT !.answer = "none"]
                                    ELSE peer[q]]
    /\ UNCHANGED <<starts, faults>>

-----------------------------------------------------------------------------
(* The owning thread: start, wait and stop *)

ownerless == <<conn, active, peer, faults>>

Start ==
    /\ owner = "idle" /\ accept = "none"
    /\ starts < MaxStarts
    /\ owner' = "running" /\ accept' = "check"
    /\ stop' = FALSE /\ kick' = FALSE /\ listening' = TRUE /\ acked' = FALSE
    /\ starts' = starts + 1
    /\ UNCHANGED <<ownerless, wake, registered, socket>>

\* wait and stop as lqf serve calls them, or stop alone.
CallWaitOrStop ==
    /\ owner = "running"
    /\ owner' \in {"wait:check", "stop:flag"}
    /\ UNCHANGED <<ownerless, accept, stop, kick, wake, listening, registered, socket, starts,
                   acked>>

\* The predicate is tested, then the thread blocks: two steps, and nothing
\* that request_stop does excludes the time between them.
WaitStep ==
    /\ owner' = CASE owner = "wait:check" -> IF stop THEN "stop:flag" ELSE "wait:blocking"
                   [] owner = "wait:blocking" -> "wait:blocked"
                   [] OTHER -> owner
    /\ owner \in {"wait:check", "wait:blocking"}
    /\ UNCHANGED <<ownerless, accept, stop, kick, wake, listening, registered, socket, starts,
                   acked>>

WaitWakesSpuriously ==
    /\ owner = "wait:blocked"
    /\ owner' = "wait:check"
    /\ UNCHANGED <<ownerless, accept, stop, kick, wake, listening, registered, socket, starts,
                   acked>>

StopFlag ==
    /\ owner = "stop:flag"
    /\ stop' = TRUE
    /\ owner' = "stop:kick"
    /\ UNCHANGED <<ownerless, accept, kick, wake, listening, registered, socket, starts, acked>>

StopKick ==
    /\ owner = "stop:kick"
    /\ Kick
    /\ owner' = "stop:accept"
    /\ UNCHANGED <<ownerless, accept, stop, wake, listening, registered, socket, starts, acked>>

AcceptJoined == accept = "ended"

StopJoinAccept ==
    /\ owner = "stop:accept"
    /\ AcceptJoined
    /\ owner' = "stop:wake"
    /\ UNCHANGED <<ownerless, accept, stop, kick, wake, listening, registered, socket, starts,
                   acked>>

\* Mutated form: only the flag tells the connections to stop.
WakeNobody == {}

WokenByStop == registered

StopWake ==
    /\ owner = "stop:wake"
    /\ wake' = wake \union WokenByStop
    /\ owner' = "stop:join"
    /\ UNCHANGED <<ownerless, accept, stop, kick, listening, registered, socket, starts, acked>>

StopJoin ==
    /\ owner = "stop:join"
    /\ \A p \in registered : conn[p] = "ended"
    /\ registered' = {}
    /\ kick' = FALSE /\ wake' = {}
    /\ listening' = FALSE
    /\ owner' = "idle" /\ accept' = "none"
    /\ UNCHANGED <<ownerless, stop, socket, starts, acked>>

StopStep == StopFlag \/ StopKick \/ StopJoinAccept \/ StopWake \/ StopJoin

-----------------------------------------------------------------------------
Next ==
    \/ \E p \in Peers :
           \/ Connect(p)
           \/ \E kind \in Frames[p] : SendHeader(p, kind) \/ SendPayload(p, kind)
           \/ Receive(p)
           \/ Drain(p)
           \/ HangUp(p)
           \/ ConnStep(p)
           \/ ReplyBlocks(p)
           \/ ConnSelectFails(p)
           \/ KilledByPipe(p)
    \/ AcceptStep
    \/ AcceptFault
    \/ Start
    \/ CallWaitOrStop
    \/ WaitStep
    \/ WaitWakesSpuriously
    \/ StopStep

Spec == Init /\ [][Next]_vars

(***************************************************************************)
(* The server's threads go on when they can.  Nothing is assumed of the    *)
(* peers, and nobody has to wait for the server or to stop it.             *)
(***************************************************************************)
Fairness ==
    /\ WF_vars(AcceptStep)
    /\ \A p \in Peers : WF_vars(ConnStep(p))
    /\ WF_vars(WaitStep)
    /\ WF_vars(StopStep)

FairSpec == Spec /\ Fairness

-----------------------------------------------------------------------------
(* Properties *)

Serving(p) == socket[p] = "open"
Stopped == owner = "idle" /\ starts > 0

\* "The server never exceeds its own bound" (tests/test_shutdown.cpp): at
\* most max_connections sockets are open at a time, although the count is
\* taken down by the connections' threads and tested by the accept thread,
\* and every open socket has its entry in connections_ for stop to find.
\* active_connections_ is the number of threads that have not left yet.
\* When stop has returned nothing of the server is left: no thread runs, no
\* socket is open or queued, nothing is counted.  So Fabric::close, which
\* lqf serve calls next, meets no caller.
ConnectionsAccounted ==
    /\ Cardinality({p \in Peers : Serving(p)}) <= MaxConnections
    /\ active = Cardinality({p \in Peers : conn[p] \notin {"none", "ended"}})
    /\ \A p \in Peers : Serving(p) => p \in registered
    /\ Stopped =>
           /\ accept = "none"
           /\ \A p \in Peers : conn[p] \in {"none", "ended"} /\ socket[p] \in {"none", "closed"}
           /\ registered = {} /\ active = 0

\* The answer to the frame that was read fits no frame of the server's own.
Unanswerable(p) == TooLarge(p) /\ peer[p].got = 2

\* "It is never silently dropped" (tests/test_shutdown.cpp): unless the
\* server is stopping, was killed or had a call of the socket layer fail, a
\* connection is closed only when its peer went away, or with an error for an
\* answer, which is lost only if bytes of the peer are still unread.  There is
\* one silent drop: a request whose answer is larger than max_frame_bytes
\* (server.cpp:222-225) ends the connection of a live peer without an error
\* (server.cpp:605-610).
ClosedWithReason ==
    \A p \in Peers :
        /\ socket[p] = "closed" /\ peer[p].at = "open"
        /\ starts = 1 /\ ~stop /\ faults = 0 /\ owner # "killed"
        => peer[p].answer = "error" \/ Unread(p) \/ Unanswerable(p)

Stopping == owner \in {"stop:flag", "stop:kick", "stop:accept", "stop:wake", "stop:join"}

\* Sends under way are all that the owner waits for.
OnlySendsLeft ==
    /\ owner = "stop:join"
    /\ \E p \in registered : conn[p] = "sending"
    /\ \A p \in registered : conn[p] \in {"sending", "ended"}

\* A stop that began returns, whatever the peers do: even one that stalls in
\* the middle of a frame ("Shutdown is a signal, not a deadline",
\* server.hpp:58-60).  The one thing it waits for is an answer under way: no
\* signal reaches send_all (server.cpp:226), so a peer that neither reads nor
\* goes away holds it up.  And a peer that goes away while it is answered may
\* end the process instead (SIGPIPE, socket.cpp:209).
StopReturns == Stopping ~> Stopped \/ OnlySendsLeft \/ owner = "killed"

\* A peer that has sent a whole frame gets an answer or the end of the
\* stream, however many connections there are, whether or not another peer
\* leaves its own answer unread, and whether or not the server stops
\* meanwhile.
Waiting(p) ==
    /\ peer[p].at = "open" /\ peer[p].sent = 2 /\ conn[p] # "sending"
    /\ peer[p].answer = "none" /\ socket[p] # "closed"

EveryFrameAnswered == \A p \in Peers : Waiting(p) ~> ~Waiting(p)

\* A shutdown that was acknowledged ends the accept thread, whoever owns the
\* server (request_stop from connection_loop).
AcknowledgedShutdownStops == acked ~> ~listening

=============================================================================
