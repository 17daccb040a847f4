------------------------------ MODULE Session ------------------------------
(***************************************************************************)
(* The commands of the lqf tool (src/apps/lqf) and other programs that use *)
(* FabricClient (src/src/transport/client.cpp), each with one connection   *)
(* to one server, down to the bytes of the frames (frame.cpp).             *)
(*                                                                         *)
(* A stream is a sequence of cells: a frame is a header cell and size body *)
(* cells, a size stands for a number of bytes.  A body cell read as a      *)
(* header gives an arbitrary length, and bytes that are not one frame's    *)
(* payload never pass its checksum.  Requests and replies carry ghosts:    *)
(* the number of the request on its connection.  What the server does with *)
(* a request is what dispatch does, on a fabric reduced to what the        *)
(* commands rely on; threads, wakeups and the fabric are the business of   *)
(* Server and Fabric.                                                      *)
(***************************************************************************)
EXTENDS Integers, Sequences, FiniteSets

CONSTANTS
    Processes,            \* the client processes; each runs one command
    Commands,             \* the commands each of them may run
    MaxRevisionAttempts,  \* kMaxRevisionAttempts
    Count,                \* the --count of an emit
    RequestSizes,         \* the sizes a request of each type may have
    ReplySizes,           \* the sizes a reply of each type may have
    ClientLimit,          \* config.frames.max_frame_bytes of each client
    ServerLimit,          \* and of the server
    MaxConnections,       \* config.max_connections of the server
    MaxPolicyGenerations  \* limits.max_policy_generations of the fabric

\* The request of the commands that send only one, and of the programs that
\* call the other methods of FabricClient.
RequestOf ==
    [query |-> "Query", explain |-> "Explain", inspect |-> "Inspect", metrics |-> "Capabilities",
     shutdown |-> "Shutdown", publish |-> "PublishPolicy", window |-> "Window",
     flush |-> "Flush", compact |-> "Compact"]

\* The reply each method of FabricClient insists on.
ReplyTo ==
    [Hello |-> "Welcome", RegisterCapability |-> "CapabilityAck", PublishPolicy |-> "PolicyAck",
     Ingest |-> "IngestAck", Query |-> "QualityReport", Window |-> "WindowReply",
     Explain |-> "ExplanationReply", Inspect |-> "InspectionReply",
     Capabilities |-> "CapabilitiesReply", PolicyDocument |-> "PolicyDocumentReply",
     Stats |-> "StatsReply", Flush |-> "FlushAck", Compact |-> "CompactAck",
     Shutdown |-> "ShutdownAck"]

RequestTypes == DOMAIN ReplyTo
ReplyTypes == {ReplyTo[type] : type \in RequestTypes} \union {"Error"}

ASSUME SessionAssumption ==
    /\ Commands \in [Processes -> SUBSET (DOMAIN RequestOf \union {"policy", "emit"})]
    /\ {MaxRevisionAttempts, Count, ServerLimit, MaxConnections, MaxPolicyGenerations}
          \subseteq Nat \ {0}
    /\ ClientLimit \in [Processes -> Nat \ {0}]
    /\ RequestSizes \in [RequestTypes -> SUBSET (Nat \ {0})]
    /\ ReplySizes \in [ReplyTypes -> SUBSET (Nat \ {0})]

VARIABLES
    proc,      \* the client processes
    toServer,  \* the bytes on their way to the server, of each connection
    toClient,  \* and back
    thread,    \* the server's thread of each connection
    fabric,    \* what the server holds
    clock,     \* the wall clock the generator streams start from
    performed  \* ghost: the requests of each connection that were dispatched

vars == <<proc, toServer, toClient, thread, fabric, clock, performed>>

NoRequest == [type |-> "none", id |-> 0, arg |-> 0, base |-> 0]
NoReply == [type |-> "none", id |-> 0, value |-> 0, status |-> "ok"]

FreshProcess ==
    [at |-> "start", command |-> "none", token |-> FALSE,
     id |-> 0,             \* requests sent; ghost on the wire
     request |-> NoRequest, \* the one it waits for
     greeted |-> FALSE,    \* handshake() succeeded
     attempt |-> 1, declared |-> 0, base |-> 0, sent |-> 0,  \* the loops of run_emit
     stamp |-> 0, shown |-> 0,  \* run_policy
     answer |-> 0,         \* ghost: the request its last reply was for
     status |-> "none", code |-> "running"]

\* A server of the same or another protocol version, with or without a
\* shutdown token; an earlier run may have left a declaration, and
\* other peers may hold connections throughout.
Init ==
    /\ proc = [p \in Processes |-> FreshProcess]
    /\ toServer = [p \in Processes |-> <<>>]
    /\ toClient = [p \in Processes |-> <<>>]
    /\ thread = [p \in Processes |-> [at |-> "none", reply |-> NoReply, last |-> FALSE]]
    /\ \E version \in BOOLEAN, armed \in BOOLEAN, revision \in 0..(MaxRevisionAttempts + 1),
          others \in 0..(MaxConnections - 1) :
          fabric = [version |-> version, armed |-> armed, others |-> others,
                    revision |-> revision, author |-> "earlier", newest |-> 0,
                    accepted |-> {}, generation |-> 1, stopping |-> FALSE]
    /\ clock = 0
    /\ performed = [p \in Processes |-> <<>>]

-----------------------------------------------------------------------------
(* Frames *)

Header(frame, size) == [header |-> TRUE, size |-> size, frame |-> frame]
Body == [header |-> FALSE]

\* encode_frame, for a payload within the limit.
Encoded(frame, size) == <<Header(frame, size)>> \o [i \in 1..size |-> Body]

\* The lengths the first eight bytes of a stream can announce.
Lengths(cell, limit) == IF cell.header THEN {cell.size} ELSE 0..(limit + 1)

\* What bytes that are no frame are taken for.
BadFrame == [got \in {"bad header", "bad payload"} |->
                IF got = "bad header" THEN "Protocol" ELSE "Corrupt"]

\* Reading one frame whose header announces length: what decode_frame_header
\* and decode_frame_payload make of it, and the bytes left in the stream.
ReadAs(stream, limit, length) ==
    IF length \notin 1..limit THEN [got |-> "bad header", frame |-> NoReply, rest |-> Tail(stream)]
    ELSE IF Len(stream) <= length THEN [got |-> "part", frame |-> NoReply, rest |-> <<>>]
    ELSE LET whole == /\ stream[1].header
                      /\ \A i \in 2..(length + 1) : ~stream[i].header
         IN  [got |-> IF whole THEN "frame" ELSE "bad payload",
              frame |-> IF whole THEN stream[1].frame ELSE NoReply,
              rest |-> SubSeq(stream, length + 2, Len(stream))]

\* What receiving a frame can come to.  "part": the peer has not sent it all.
Received(stream, limit) ==
    IF stream = <<>> THEN {[got |-> "part", frame |-> NoReply, rest |-> <<>>]}
    ELSE {ReadAs(stream, limit, length) : length \in Lengths(stream[1], limit)}

-----------------------------------------------------------------------------
(* The commands, up to and after a request *)

Exited(c, code, status) ==
    [c EXCEPT !.at = "exited", !.code = code, !.status = status, !.request = NoRequest]

Failed(c, status) == Exited(c, "failure", status)
Done(c) == Exited(c, "ok", "ok")
Ready(c) == [c EXCEPT !.at = "ready", !.request = NoRequest]

\* run_emit: the declaration of the next attempt, then one observation a time.
EmitRequest(c) ==
    IF c.declared = 0
    THEN [type |-> "RegisterCapability", arg |-> c.attempt, base |-> 0]
    ELSE [type |-> "Ingest", arg |-> c.sent + 1, base |-> c.base]

\* run_policy: the stamp, then the document of that generation.
PolicyRequest(c) ==
    IF c.stamp = 0 THEN [type |-> "Stats", arg |-> 0, base |-> 0]
                   ELSE [type |-> "PolicyDocument", arg |-> c.stamp, base |-> 0]

NextRequest(c) ==
    LET r == IF ~c.greeted THEN [type |-> "Hello", arg |-> 0, base |-> 0]
             ELSE IF c.command = "emit" THEN EmitRequest(c)
             ELSE IF c.command = "policy" THEN PolicyRequest(c)
             ELSE [type |-> RequestOf[c.command], base |-> 0,
                   arg |-> IF c.token THEN 1 ELSE 0]
    IN  [type |-> r.type, arg |-> r.arg, base |-> r.base, id |-> c.id + 1]

\* handshake(): any reply but an acceptance of this version fails.
AfterWelcome(c, reply, now) ==
    IF reply.value = 0 THEN Failed(c, "Unsupported")
    ELSE [Ready(c) EXCEPT !.greeted = TRUE, !.base = IF c.command = "emit" THEN now ELSE 0]

\* Mutated form: a revision that is taken by other content ends the loop too.
RetryFencedOnly(c, status) ==
    IF status = "Fenced" /\ c.attempt < MaxRevisionAttempts
    THEN [Ready(c) EXCEPT !.attempt = @ + 1]
    ELSE Failed(c, status)

\* The loop of run_emit over the revisions: a refused revision is followed by
\* the next one, any other error ends the command.
AfterRefusedDeclaration(c, status) ==
    IF status \in {"IdMismatch", "Fenced"} /\ c.attempt < MaxRevisionAttempts
    THEN [Ready(c) EXCEPT !.attempt = @ + 1]
    ELSE Failed(c, status)

\* The loop of run_emit over the observations; a rejection ends it.
AfterIngest(c, reply) ==
    IF reply.value = 0 THEN Failed(c, "rejected")
    ELSE IF c.sent + 1 = Count THEN Done([c EXCEPT !.sent = Count])
    ELSE [Ready(c) EXCEPT !.sent = @ + 1]

\* run_policy: the document must be retained and hash to the stamp.
AfterDocument(c, reply) ==
    IF reply.value = 0 THEN Failed(c, "NotFound")
    ELSE IF reply.value # c.stamp THEN Failed(c, "Corrupt")
    ELSE Done([c EXCEPT !.shown = reply.value])

\* run_shutdown: an acknowledgement may still say no.
AfterShutdown(c, reply) == IF reply.value = 0 THEN Failed(c, "Refused") ELSE Done(c)

\* What a command does with the answer to its request.
AfterReply(c, reply, now) ==
    CASE c.request.type = "Hello" -> AfterWelcome(c, reply, now)
      [] c.request.type = "RegisterCapability" -> [Ready(c) EXCEPT !.declared = c.attempt]
      [] c.request.type = "Ingest" -> AfterIngest(c, reply)
      [] c.request.type = "Stats" -> [Ready(c) EXCEPT !.stamp = reply.value]
      [] c.request.type = "PolicyDocument" -> AfterDocument(c, reply)
      [] c.request.type = "Shutdown" -> AfterShutdown(c, reply)
      [] OTHER -> Done(c)

\* An error reply, as the status its method returns.
AfterError(c, status) ==
    IF c.request.type = "RegisterCapability" THEN AfterRefusedDeclaration(c, status)
                                             ELSE Failed(c, status)

\* Mutated form: the command tries again on the connection it has.
KeepConnection(c, status) == Ready(c)

\* A request that could not be sent, or whose answer could not be read: every
\* command gives the connection up with it.
AfterTransportFailure(c, status) == Failed(c, status)

-----------------------------------------------------------------------------
(* The client processes *)

clientless == <<thread, fabric, performed>>

\* parse_arguments and the value parsers: a command that cannot be understood
\* ends before it connects.
UsageError(p) ==
    /\ proc[p].at = "start"
    /\ proc' = [proc EXCEPT ![p] = Exited(@, "usage", "usage")]
    /\ UNCHANGED <<clientless, toServer, toClient, clock>>

Parse(p) ==
    /\ proc[p].at = "start"
    /\ \E command \in Commands[p], token \in BOOLEAN :
          /\ command # "shutdown" => ~token
          /\ proc' = [proc EXCEPT ![p].at = "parsed", ![p].command = command, ![p].token = token]
    /\ UNCHANGED <<clientless, toServer, toClient, clock>>

Serving == {p \in Processes : thread[p].at \notin {"none", "closed"}}

ConnectFails(p) ==
    /\ proc[p].at = "parsed"
    /\ fabric.stopping
    /\ proc' = [proc EXCEPT ![p] = Failed(@, "Io")]
    /\ UNCHANGED <<clientless, toServer, toClient, clock>>

Busy == [type |-> "Error", id |-> 0, value |-> 0, status |-> "Busy"]

\* FabricClient::connect and the accept loop of the server, which turns a
\* connection beyond its bound away with an error the client may not see.
Connect(p) ==
    /\ proc[p].at = "parsed"
    /\ ~fabric.stopping
    /\ proc' = [proc EXCEPT ![p] = Ready(@)]
    /\ IF Cardinality(Serving) + fabric.others < MaxConnections
       THEN thread' = [thread EXCEPT ![p].at = "serving"] /\ UNCHANGED toClient
       ELSE /\ thread' = [thread EXCEPT ![p].at = "closed"]
            /\ \E bytes \in {<<>>, Encoded(Busy, 1)} : toClient' = [toClient EXCEPT ![p] = bytes]
    /\ UNCHANGED <<toServer, fabric, clock, performed>>

\* send_frame: a frame beyond the limit is refused before a byte is sent; the
\* bytes for a closed connection are lost or the send fails.
Send(p) ==
    LET c == proc[p]
        request == NextRequest(c)
    IN  /\ c.at = "ready"
        /\ \E size \in RequestSizes[request.type] :
              \/ /\ size > ClientLimit[p]
                 /\ proc' = [proc EXCEPT ![p] = AfterTransportFailure(c, "LimitExceeded")]
                 /\ UNCHANGED toServer
              \/ /\ size <= ClientLimit[p]
                 /\ proc' = [proc EXCEPT ![p].at = "waiting", ![p].id = request.id,
                                         ![p].request = request]
                 /\ toServer' = IF thread[p].at = "closed" THEN toServer
                                ELSE [toServer EXCEPT ![p] = @ \o Encoded(request, size)]
              \/ /\ size <= ClientLimit[p] /\ thread[p].at = "closed"
                 /\ proc' = [proc EXCEPT ![p] = AfterTransportFailure(c, "Io")]
                 /\ UNCHANGED toServer
        /\ UNCHANGED <<clientless, toClient, clock>>

\* The replies with fields the client's codec limits may refuse.
LimitedReplies ==
    {"QualityReport", "WindowReply", "ExplanationReply", "InspectionReply", "CapabilitiesReply",
     "PolicyDocumentReply"}

\* request() and the method that called it, once a frame was received.
Answered(c, reply, now) ==
    LET answered == [c EXCEPT !.answer = IF reply.id = 0 THEN c.id ELSE reply.id]
    IN  IF reply.type = "Error" THEN {AfterError(answered, reply.status)}
        ELSE IF reply.type # ReplyTo[c.request.type] THEN {Failed(answered, "Protocol")}
        ELSE {AfterReply(answered, reply, now)} \union
             (IF reply.type \in LimitedReplies THEN {Failed(answered, "LimitExceeded")} ELSE {})

\* FabricClient::close: what an ended command has not read is gone.
LeftUnread(c, bytes) == IF c.at = "exited" THEN <<>> ELSE bytes

\* receive_frame: a whole frame, bytes that are none, or the end of the stream
\* in the middle of one.
Receive(p) ==
    LET c == proc[p] IN
    /\ c.at = "waiting"
    /\ clock' = IF c.command = "emit" /\ c.request.type = "Hello" THEN clock + 1 ELSE clock
    /\ \E r \in Received(toClient[p], ClientLimit[p]) :
          /\ \/ /\ r.got = "frame"
                /\ \E next \in Answered(c, r.frame, clock + 1) : proc' = [proc EXCEPT ![p] = next]
             \/ /\ r.got \in DOMAIN BadFrame
                /\ proc' = [proc EXCEPT ![p] = AfterTransportFailure(c, BadFrame[r.got])]
             \/ /\ r.got = "part" /\ thread[p].at = "closed"
                /\ proc' = [proc EXCEPT ![p] = AfterTransportFailure(c, "Cancelled")]
          /\ toClient' = [toClient EXCEPT ![p] = LeftUnread(proc'[p], r.rest)]
    /\ UNCHANGED <<clientless, toServer>>

\* The process is killed, perhaps in the middle of a frame; on POSIX also by the
\* signal of its own send to a connection that the server has closed.
Killed(p) ==
    LET c == proc[p] IN
    /\ c.at \in {"ready", "waiting"}
    /\ proc' = [proc EXCEPT ![p] = Exited(c, "killed", "killed")]
    /\ \/ UNCHANGED toServer
       \/ /\ c.at = "ready" /\ thread[p].at # "closed"
          /\ \E size \in RequestSizes[NextRequest(c).type] :
                toServer' = [toServer EXCEPT ![p] = Append(@, Header(NextRequest(c), size))]
    /\ toClient' = [toClient EXCEPT ![p] = <<>>]
    /\ UNCHANGED <<clientless, clock>>

-----------------------------------------------------------------------------
(* The server *)

Reply(r, type, value) == [type |-> type, id |-> r.id, value |-> value, status |-> "ok"]
Refusal(r, status) == [type |-> "Error", id |-> r.id, value |-> 0, status |-> status]

\* The versions must be equal.
Greeting(r) ==
    [fabric |-> fabric, reply |-> Reply(r, "Welcome", IF fabric.version THEN 1 ELSE 0)]

\* Fabric::declare_capability for one source and scope.  The declarations of
\* two processes differ in declared_at, so the same revision is a mismatch.
DeclareCapability(p, r) ==
    IF r.arg < fabric.revision THEN [fabric |-> fabric, reply |-> Refusal(r, "Fenced")]
    ELSE IF r.arg = fabric.revision /\ fabric.author # p
    THEN [fabric |-> fabric, reply |-> Refusal(r, "IdMismatch")]
    ELSE [fabric |-> [fabric EXCEPT !.revision = r.arg, !.author = p],
          reply |-> Reply(r, "CapabilityAck", r.arg)]

\* Fabric::ingest_batch of one observation, which is accepted or counted as
\* rejected: the answer is an acknowledgement either way.  The generator streams
\* of two processes start further apart than the deduplication window, so once
\* the later has begun the earlier is fenced; and any other error of ingest, a
\* full journal queue or a limit of the fabric, is a rejection too.
IngestBatch(p, r) ==
    {[fabric |-> fabric, reply |-> Reply(r, "IngestAck", 0)]} \union
    (IF r.base < fabric.newest THEN {}
     ELSE {[fabric |-> [fabric EXCEPT !.newest = r.base,
                                      !.accepted = @ \union {[from |-> p, index |-> r.arg]}],
            reply |-> Reply(r, "IngestAck", 1)]})

PublishPolicy(r) ==
    [fabric |-> [fabric EXCEPT !.generation = @ + 1],
     reply |-> Reply(r, "PolicyAck", fabric.generation + 1)]

\* PolicyRegistry::get: the last generations are retained.
PolicyDocument(r) ==
    [fabric |-> fabric,
     reply |-> Reply(r, "PolicyDocumentReply",
                     IF r.arg > fabric.generation - MaxPolicyGenerations THEN r.arg ELSE 0)]

Shutdown(r) ==
    [fabric |-> fabric,
     reply |-> IF ~fabric.armed THEN Reply(r, "ShutdownAck", 0)
               ELSE IF r.arg = 0 THEN Refusal(r, "Refused") ELSE Reply(r, "ShutdownAck", 1)]

\* dispatch.  Any other call of the fabric may be refused: an invalid argument,
\* a full journal queue, a reply that exceeds the codec limits.
Dispatched(p, r) ==
    CASE r.type = "Hello" -> {Greeting(r)}
      [] r.type = "Shutdown" -> {Shutdown(r)}
      [] r.type = "Stats" -> {[fabric |-> fabric, reply |-> Reply(r, "StatsReply", fabric.generation)]}
      [] r.type = "Ingest" -> IngestBatch(p, r)
      [] OTHER ->
            {CASE r.type = "RegisterCapability" -> DeclareCapability(p, r)
               [] r.type = "PublishPolicy" -> PublishPolicy(r)
               [] r.type = "PolicyDocument" -> PolicyDocument(r)
               [] OTHER -> [fabric |-> fabric, reply |-> Reply(r, ReplyTo[r.type], 0)],
             [fabric |-> fabric, reply |-> Refusal(r, "refused by the fabric")]}

\* connection_loop up to the answer.  Bytes that are no frame are answered
\* with an error, the last thing the peer hears.
HandleFrame(p) ==
    /\ thread[p].at = "serving" /\ ~fabric.stopping
    /\ \E r \in Received(toServer[p], ServerLimit) :
          \/ /\ r.got = "frame"
             /\ toServer' = [toServer EXCEPT ![p] = r.rest]
             /\ performed' = [performed EXCEPT ![p] = Append(@, r.frame.id)]
             /\ \E d \in Dispatched(p, r.frame) :
                   /\ fabric' = d.fabric
                   /\ thread' = [thread EXCEPT ![p] = [at |-> "replying", reply |-> d.reply,
                                                       last |-> FALSE]]
          \/ /\ r.got \in DOMAIN BadFrame
             /\ toServer' = [toServer EXCEPT ![p] = r.rest]
             /\ thread' = [thread EXCEPT ![p] = [at |-> "replying", last |-> TRUE,
                                                 reply |-> Refusal(NoRequest, BadFrame[r.got])]]
             /\ UNCHANGED <<fabric, performed>>
          \/ /\ r.got = "part" /\ proc[p].at = "exited"
             /\ toServer' = [toServer EXCEPT ![p] = <<>>]
             /\ thread' = [thread EXCEPT ![p].at = "closed"]
             /\ UNCHANGED <<fabric, performed>>
    /\ UNCHANGED <<proc, toClient, clock>>

\* The thread ends and closes its socket.
CloseConnection(p) == thread' = [thread EXCEPT ![p] = [at |-> "closed", reply |-> NoReply, last |-> FALSE]]

\* Mutated form: an answer that does not fit a frame is dropped and the
\* connection stays open.
DropOversize(p) == thread' = [thread EXCEPT ![p] = [at |-> "serving", reply |-> NoReply, last |-> FALSE]]

\* An answer that does not fit a frame ends the connection without one.
ReplyTooLarge(p) == CloseConnection(p)

Accepted(reply) == reply.type = "ShutdownAck" /\ reply.value = 1

\* send_frame or send_status, and what the loop does after it.  Closing a
\* connection with unread bytes may take the last answer with it.
SendReply(p) ==
    LET t == thread[p] IN
    /\ t.at = "replying"
    /\ \E size \in ReplySizes[t.reply.type] :
          \/ /\ size > ServerLimit
             /\ ReplyTooLarge(p)
             /\ UNCHANGED toClient
          \/ /\ size <= ServerLimit
             /\ \E lost \in {FALSE, t.last} :
                   toClient' = [toClient EXCEPT ![p] =
                                  IF lost \/ proc[p].at = "exited" THEN @
                                  ELSE @ \o Encoded(t.reply, size)]
             /\ thread' = [thread EXCEPT ![p] =
                             [at |-> IF Accepted(t.reply) THEN "stopping"
                                     ELSE IF t.last THEN "closed" ELSE "serving",
                              reply |-> NoReply, last |-> FALSE]]
    /\ UNCHANGED <<proc, toServer, fabric, clock, performed>>

\* An answer to a process that is gone may fail.
SendFails(p) ==
    /\ thread[p].at = "replying" /\ proc[p].at = "exited"
    /\ CloseConnection(p)
    /\ UNCHANGED <<proc, toServer, toClient, fabric, clock, performed>>

\* request_stop, after the acknowledgement was sent.
RequestStop(p) ==
    /\ thread[p].at = "stopping"
    /\ fabric' = [fabric EXCEPT !.stopping = TRUE]
    /\ CloseConnection(p)
    /\ UNCHANGED <<proc, toServer, toClient, clock, performed>>

\* A thread that finds stop_requested_ set leaves what it has not read.
StopThread(p) ==
    /\ thread[p].at = "serving" /\ fabric.stopping
    /\ CloseConnection(p)
    /\ UNCHANGED <<proc, toServer, toClient, fabric, clock, performed>>

\* The server process dies, also between a request and its answer, and also by
\* the signal of a send to a client that is gone.
ServerDies ==
    /\ ~fabric.stopping
    /\ fabric' = [fabric EXCEPT !.stopping = TRUE]
    /\ thread' = [p \in Processes |->
                    IF p \in Serving THEN [at |-> "closed", reply |-> NoReply, last |-> FALSE]
                                     ELSE thread[p]]
    /\ UNCHANGED <<proc, toServer, toClient, clock, performed>>

-----------------------------------------------------------------------------

ClientStep(p) ==
    UsageError(p) \/ Parse(p) \/ ConnectFails(p) \/ Connect(p) \/ Send(p) \/ Receive(p)

ServerStep(p) == HandleFrame(p) \/ SendReply(p) \/ RequestStop(p) \/ StopThread(p)

Next ==
    \/ \E p \in Processes : ClientStep(p) \/ Killed(p) \/ ServerStep(p) \/ SendFails(p)
    \/ ServerDies

\* Client processes and the server's threads are scheduled; nobody has to be
\* killed.
Fairness == \A p \in Processes : WF_vars(ClientStep(p)) /\ WF_vars(ServerStep(p))

Spec == Init /\ [][Next]_vars
FairSpec == Spec /\ Fairness

-----------------------------------------------------------------------------
(* Properties *)

AcceptedOf(p) == {i \in 1..Count : [from |-> p, index |-> i] \in fabric.accepted}

\* A command that moves on, or exits with status 0, has had each of its
\* requests dispatched exactly once, in order, and took the answer to the last
\* one for its answer; an emit that exits with 0 had every observation
\* accepted, and a shutdown that does has stopped the server or is about to.
\* No command reads an answer that was left over from an earlier request,
\* although a failed receive leaves the connection open (client.cpp:93-96).
ExitZeroMeansDone ==
    \A p \in Processes :
        LET c == proc[p] IN
        /\ c.at = "ready" \/ c.code = "ok" =>
              /\ performed[p] = [i \in 1..c.id |-> i]
              /\ c.answer = c.id
        /\ c.code = "ok" /\ c.command = "emit" => AcceptedOf(p) = 1..Count
        /\ c.code = "ok" /\ c.command = "shutdown" =>
              fabric.stopping \/ thread[p].at = "stopping"

\* An emit fails on its declaration only when kMaxRevisionAttempts revisions
\* were used up by other runs or the fabric refused it for reasons of its own.
\* What it leaves behind is a prefix of its observations: exactly those it
\* counted when its last request was answered, rejection or not, and at most
\* one more when the answer never came (cmd_generate.cpp:157-177, 195-231).
EmitFailsForCause ==
    \A p \in Processes :
        LET c == proc[p] IN
        c.command = "emit" /\ c.at = "exited" =>
            /\ c.status \in {"IdMismatch", "Fenced"} => fabric.revision >= MaxRevisionAttempts
            /\ c.answer = c.id => AcceptedOf(p) = 1..c.sent
            /\ AcceptedOf(p) \in {1..c.sent, 1..(c.sent + 1)}

\* Every command comes to an end: an answer, an error or the end of the stream
\* reaches whoever waits in receive_frame, which has no timeout
\* (client.cpp:56-80, server.cpp:559-621).
EveryCommandEnds == \A p \in Processes : <>(proc[p].at = "exited")
=============================================================================
