----------------------------- MODULE PollServer -----------------------------
(***************************************************************************)
(* The HTTP server on its epoll loop (net/poll_epoll.cpp, poll_handler.cpp,*)
(* poll_channel.cpp, http/httpserver.cpp): one thread, edge-triggered      *)
(* events, two maps from descriptors to what belongs to them.  The         *)
(* environment is the kernel (descriptors, epoll, socket buffers) and the  *)
(* clients, which may act between any two system calls of the server.      *)
(*                                                                         *)
(* PollConn keeps a reference to the Channel of the accept loop, whose     *)
(* scope has ended when it is used.  Builds with g++ give the Channel of   *)
(* the event being handled the same stack slot, so the reference denotes   *)
(* the current descriptor; this is what is modelled.                       *)
(***************************************************************************)
EXTENDS HttpExchange

CONSTANTS
  Clients,
  Streams,       \* [Clients -> set of streams a client may send]
  Limits,        \* the possible numbers of descriptors the process may open
  BufferSize,    \* units one read returns at most (BUFFER_SIZE)
  Room,          \* units the send buffer of a socket holds
  NoOne

ASSUME PollAssumption ==
  /\ NoOne \notin Clients
  /\ Limits \subseteq Nat
  /\ Room \in Nat

Listener == 0    \* socket_fd; the descriptors of connections are 1 .. limit

VARIABLES
  \* the clients and the network
  plan,          \* what each client has still to send
  link,          \* "new", "backlog", "open" or "closed" by the server
  inbox,         \* received, not read by the server
  ended,         \* clients that have sent FIN
  broken,        \* "no"; "reset": an error is pending; "pipe": it was told
  wire,          \* everything the server wrote to a client
  unread,        \* how much of it still fills the send buffer
  \* the kernel
  limit,
  backlog,       \* connections to accept, in order
  owner,         \* [descriptors -> client or NoOne]
  interest,      \* what epoll watches: "none", "in" or "out"
  armed,         \* descriptors in the ready list of epoll
  knock,         \* the listening socket is in the ready list
  \* the server
  pc, cur, batch, \* the loop, its descriptor, the events left
  buff, chunk,   \* what onRead has collected, what it read last
  connMap,       \* [descriptors -> send_buf and send_len, or NoConn]
  channelMap,    \* descriptors with a Channel
  starved        \* accept has failed for want of a descriptor

clients == <<plan, link, inbox, ended, broken, wire, unread>>
kernel == <<limit, backlog, owner, interest, armed, knock>>
server == <<pc, cur, batch, buff, chunk, connMap, channelMap, starved>>
vars == <<clients, kernel, server>>

Fds == UNION {1 .. n : n \in Limits}
Events == [fd : Fds, what : {"in", "out", "hup"}]
            \union {[fd |-> Listener, what |-> "accept"]}
Units == [to : Clients, part : {"200", "400", "content", "file"}]
Conns == [buf : Seq(Units), sent : Int]
NoConn == [buf |-> <<>>, sent |-> -1]
FreshConn == [buf |-> <<>>, sent |-> 0]

TypeOK ==
  /\ link \in [Clients -> {"new", "backlog", "open", "closed"}]
  /\ broken \in [Clients -> {"no", "reset", "pipe"}]
  /\ unread \in [Clients -> 0 .. Room]
  /\ limit \in Limits /\ backlog \in Seq(Clients)
  /\ owner \in [Fds -> Clients \union {NoOne}]
  /\ interest \in [Fds -> {"none", "in", "out"}]
  /\ armed \subseteq Fds /\ channelMap \subseteq Fds
  /\ connMap \in [Fds -> Conns]
  /\ pc \in {"loop", "accept", "add", "read", "dispatch", "write", "dead"}
  /\ cur \in Fds \union {Listener}
  /\ batch \subseteq Events

-----------------------------------------------------------------------------
(***************************************************************************)
(* The kernel.  Readiness of a socket, and what epoll_wait reports.        *)
(***************************************************************************)
Readable(c) == inbox[c] # <<>> \/ c \in ended \/ broken[c] # "no"
Writable(c) == unread[c] < Room \/ broken[c] # "no"

Ready(c, what) ==
  \/ what = "in" /\ Readable(c)
  \/ what = "out" /\ Writable(c)
  \/ what # "none" /\ broken[c] # "no"

Event(fd) ==
  [fd |-> fd,
   what |-> IF broken[owner[fd]] # "no" THEN "hup" ELSE interest[fd]]

Reported ==
  {Event(fd) : fd \in {f \in armed : Ready(owner[f], interest[f])}}
    \union IF knock THEN {[fd |-> Listener, what |-> "accept"]} ELSE {}

FdOf(c) == CHOOSE fd \in Fds : owner[fd] = c

\* A change of the socket of c wakes epoll if what it watches agrees.
Wake(c, what) ==
  armed' = IF \E fd \in Fds : owner[fd] = c /\ interest[fd] \in what
           THEN armed \union {FdOf(c)} ELSE armed

\* EPOLL_CTL_ADD and EPOLL_CTL_MOD look at the socket at once.
Watch(fd, what) ==
  /\ interest' = [interest EXCEPT ![fd] = what]
  /\ armed' = IF Ready(owner[fd], what) THEN armed \union {fd} ELSE armed

-----------------------------------------------------------------------------
(***************************************************************************)
(* The clients.                                                            *)
(***************************************************************************)
Connect(c) ==
  /\ link[c] = "new"
  /\ link' = [link EXCEPT ![c] = "backlog"]
  /\ backlog' = Append(backlog, c)
  /\ knock' = TRUE
  /\ UNCHANGED <<plan, inbox, ended, broken, wire, unread, limit, owner,
                 interest, armed, server>>

Sends(c) == link[c] \in {"backlog", "open"} /\ c \notin ended /\ broken[c] = "no"

\* n units arrive in one piece
Deliver(c, n) ==
  /\ Sends(c)
  /\ inbox' = [inbox EXCEPT ![c] = @ \o SubSeq(plan[c], 1, n)]
  /\ plan' = [plan EXCEPT ![c] = SubSeq(@, n + 1, Len(@))]
  /\ Wake(c, {"in"})
  /\ UNCHANGED <<link, ended, broken, wire, unread, limit, backlog, owner,
                 interest, knock, server>>

Finish(c) ==
  /\ Sends(c)
  /\ ended' = ended \union {c}
  /\ Wake(c, {"in", "out"})
  /\ UNCHANGED <<plan, link, inbox, broken, wire, unread, limit, backlog,
                 owner, interest, knock, server>>

\* An RST: ECONNRESET is pending, or EPIPE when the FIN had come before.
Reset(c) ==
  /\ link[c] \in {"backlog", "open"} /\ broken[c] = "no"
  /\ broken' = [broken EXCEPT ![c] = IF c \in ended THEN "pipe" ELSE "reset"]
  /\ Wake(c, {"in", "out"})
  /\ UNCHANGED <<plan, link, inbox, ended, wire, unread, limit, backlog,
                 owner, interest, knock, server>>

\* The client reads; a writer that was told EAGAIN is woken.
Drain(c) ==
  /\ link[c] = "open" /\ broken[c] = "no" /\ unread[c] > 0
  /\ unread' = [unread EXCEPT ![c] = 0]
  /\ Wake(c, IF unread[c] = Room THEN {"out"} ELSE {})
  /\ UNCHANGED <<plan, link, inbox, ended, broken, wire, limit, backlog,
                 owner, interest, knock, server>>

Client(c) ==
  \/ Connect(c) \/ Finish(c) \/ Reset(c) \/ Drain(c)
  \/ \E n \in 1 .. Len(plan[c]) : Deliver(c, n)

-----------------------------------------------------------------------------
(***************************************************************************)
(* The loop: epoll_wait, then one event after another.                     *)
(***************************************************************************)
Wait ==
  /\ pc = "loop" /\ batch = {} /\ Reported # {}
  /\ batch' = Reported
  /\ armed' = {} /\ knock' = FALSE
  /\ UNCHANGED <<clients, limit, backlog, owner, interest, pc, cur, buff,
                 chunk, connMap, channelMap, starved>>

Take(e) ==
  /\ pc = "loop" /\ e.what # "hup"
  /\ pc' = [accept |-> "accept", in |-> "read", out |-> "write"][e.what]
  /\ cur' = e.fd
  /\ batch' = batch \ {e}
  /\ buff' = <<>> /\ chunk' = <<>>
  /\ UNCHANGED <<clients, kernel, connMap, channelMap, starved>>

\* Wrong: the callback that erases the channel is not set.
WrongCloseChannel(fd) ==
  /\ link' = [link EXCEPT ![owner[fd]] = "closed"]
  /\ owner' = [owner EXCEPT ![fd] = NoOne]
  /\ interest' = [interest EXCEPT ![fd] = "none"]
  /\ armed' = armed \ {fd}
  /\ UNCHANGED channelMap

\* Channel::close: out of epoll, out of channelMap, and the descriptor is free.
CloseChannel(fd) ==
  /\ link' = [link EXCEPT ![owner[fd]] = "closed"]
  /\ owner' = [owner EXCEPT ![fd] = NoOne]
  /\ interest' = [interest EXCEPT ![fd] = "none"]
  /\ armed' = armed \ {fd}
  /\ channelMap' = channelMap \ {fd}

\* Wrong: the entry of the connection stays.
WrongOnClose(fd) == UNCHANGED connMap

\* HandlerWrapper::onClose
OnClose(fd) == connMap' = [connMap EXCEPT ![fd] = NoConn]

Hangup(e) ==
  /\ pc = "loop" /\ e.what = "hup"
  /\ batch' = batch \ {e}
  /\ CloseChannel(e.fd) /\ OnClose(e.fd)
  /\ UNCHANGED <<plan, inbox, ended, broken, wire, unread, limit, backlog,
                 knock, pc, cur, buff, chunk, starved>>

-----------------------------------------------------------------------------
(***************************************************************************)
(* The accept loop.  A new connection gets the lowest free descriptor; an  *)
(* entry that connMap still has for it is kept (insert).  Between accept   *)
(* and epoll_ctl the client may already send.                              *)
(***************************************************************************)
FreeFds == {fd \in 1 .. limit : owner[fd] = NoOne}

OnAccept(fd) ==
  connMap' = [connMap EXCEPT ![fd] = IF @ = NoConn THEN FreshConn ELSE @]

Accept ==
  /\ pc = "accept" /\ backlog # <<>>
  /\ \E fd \in FreeFds :
       /\ \A other \in FreeFds : fd <= other
       /\ cur' = fd
       /\ owner' = [owner EXCEPT ![fd] = Head(backlog)]
       /\ OnAccept(fd)
  /\ link' = [link EXCEPT ![Head(backlog)] = "open"]
  /\ backlog' = Tail(backlog)
  /\ pc' = "add"
  /\ UNCHANGED <<plan, inbox, ended, broken, wire, unread, limit, interest,
                 armed, knock, batch, buff, chunk, channelMap, starved>>

\* Wrong: one connection per event of the listening socket.
WrongAddChannel ==
  /\ pc = "add"
  /\ Watch(cur, "in")
  /\ channelMap' = channelMap \union {cur}
  /\ pc' = "loop"
  /\ UNCHANGED <<clients, limit, backlog, owner, knock, cur, batch, buff,
                 chunk, connMap, starved>>

AddChannel ==
  /\ pc = "add"
  /\ Watch(cur, "in")
  /\ channelMap' = channelMap \union {cur}
  /\ pc' = "accept"
  /\ UNCHANGED <<clients, limit, backlog, owner, knock, cur, batch, buff,
                 chunk, connMap, starved>>

\* EAGAIN, or EMFILE: nothing wakes the loop again for those still waiting.
AcceptFails ==
  /\ pc = "accept" /\ (backlog = <<>> \/ FreeFds = {})
  /\ pc' = "loop"
  /\ starved' = (starved \/ backlog # <<>>)
  /\ UNCHANGED <<clients, kernel, cur, batch, buff, chunk, connMap, channelMap>>

-----------------------------------------------------------------------------
(***************************************************************************)
(* HttpProtocolHandler::onRead, one step per read.                         *)
(***************************************************************************)
Received(c) == SubSeq(inbox[c], 1, Min({BufferSize, Len(inbox[c])}))

Reads(c) ==
  /\ pc = "read" /\ inbox[c] # <<>>
  /\ chunk' = Received(c)
  /\ buff' = buff \o Received(c)
  /\ inbox' = [inbox EXCEPT ![c] = SubSeq(@, Len(Received(c)) + 1, Len(@))]

ReadHeader(c) ==
  /\ Reads(c) /\ EndFound(Received(c))
  /\ pc' = "dispatch"
  /\ UNCHANGED <<plan, link, ended, broken, wire, unread, kernel, cur, batch,
                 connMap, channelMap, starved>>

ReadOn(c) ==
  /\ Reads(c) /\ ~EndFound(Received(c)) /\ Len(Received(c)) = BufferSize
  /\ UNCHANGED <<plan, link, ended, broken, wire, unread, kernel, pc, cur,
                 batch, connMap, channelMap, starved>>

(***************************************************************************)
(* badRequest puts the 400 into the send buffer and closes; onRead returns *)
(* 0, and the loop closes once more (no descriptor has been opened since,  *)
(* so this finds nothing) and calls onClose, which drops the buffer.       *)
(***************************************************************************)
Refuse ==
  /\ CloseChannel(cur) /\ OnClose(cur)
  /\ pc' = "loop"
  /\ UNCHANGED <<plan, ended, broken, wire, unread, limit, backlog, knock,
                 cur, batch, starved>>

ReadShort(c) ==
  /\ Reads(c) /\ ~EndFound(Received(c)) /\ Len(Received(c)) < BufferSize
  /\ Refuse

(***************************************************************************)
(* data is not initialised and not terminated, and String(data) goes on to *)
(* the first NUL: an end of header found in what is left there from before *)
(* lies behind what was received, and the String of the body throws.       *)
(***************************************************************************)
ReadResidue(c) ==
  /\ Reads(c) /\ ~EndFound(Received(c))
  /\ pc' = "dead"
  /\ UNCHANGED <<plan, link, ended, broken, wire, unread, kernel, cur, batch,
                 connMap, channelMap, starved>>

\* read returns 0: Channel::close and onClose
ReadEnd(c) ==
  /\ pc = "read" /\ inbox[c] = <<>> /\ c \in ended
  /\ Refuse
  /\ UNCHANGED <<inbox, buff, chunk>>

\* read fails: Channel::close only
ReadError(c) ==
  /\ pc = "read" /\ inbox[c] = <<>> /\ c \notin ended /\ broken[c] # "no"
  /\ CloseChannel(cur)
  /\ pc' = "loop"
  /\ UNCHANGED <<plan, inbox, ended, broken, wire, unread, limit, backlog,
                 knock, cur, batch, buff, chunk, connMap, starved>>

\* EAGAIN: the loop waits for room to write, though there is no answer.
ReadAgain(c) ==
  /\ pc = "read" /\ inbox[c] = <<>> /\ c \notin ended /\ broken[c] = "no"
  /\ Watch(cur, "out")
  /\ pc' = "loop"
  /\ UNCHANGED <<clients, limit, backlog, owner, knock, cur, batch, buff,
                 chunk, connMap, channelMap, starved>>

Read(c) ==
  \/ ReadHeader(c) \/ ReadOn(c) \/ ReadShort(c) \/ ReadResidue(c)
  \/ ReadEnd(c) \/ ReadError(c) \/ ReadAgain(c)

-----------------------------------------------------------------------------
(***************************************************************************)
(* The second half of onRead: parse, interceptors, dispatch, and the       *)
(* answer into the send buffer; then the loop turns to EPOLLOUT.           *)
(***************************************************************************)
\* PollConn::write
Buffered(conn, answer) == [buf |-> conn.buf \o answer, sent |-> conn.sent]

\* Wrong: the loop goes on waiting for something to read.
WrongReply(answer) ==
  /\ connMap' = [connMap EXCEPT ![cur] = Buffered(@, answer)]
  /\ Watch(cur, "in")
  /\ pc' = "loop"
  /\ UNCHANGED <<plan, link, ended, limit, backlog, owner, knock, cur, batch,
                 buff, chunk, channelMap, starved>>

Reply(answer) ==
  /\ connMap' = [connMap EXCEPT ![cur] = Buffered(@, answer)]
  /\ Watch(cur, "out")
  /\ pc' = "loop"
  /\ UNCHANGED <<plan, link, ended, limit, backlog, owner, knock, cur, batch,
                 buff, chunk, channelMap, starved>>

DispatchBad(c) ==
  /\ pc = "dispatch" /\ "bad" \in Taken(buff, chunk)
  /\ Refuse
  /\ UNCHANGED <<inbox, buff, chunk>>

\* stringToMethod throws and nobody catches it.
DispatchUnknown(c) ==
  /\ pc = "dispatch" /\ "unknown" \in Taken(buff, chunk)
  /\ pc' = "dead"
  /\ UNCHANGED <<clients, kernel, cur, batch, buff, chunk, connMap,
                 channelMap, starved>>

\* A route that needs no body, or an interceptor that calls abort.
DispatchGet(c) ==
  /\ pc = "dispatch" /\ Taken(buff, chunk) \ {"bad", "unknown"} # {}
  /\ Reply(Answer(c, "200"))
  /\ UNCHANGED <<inbox, broken, wire, unread>>

DispatchPost(c) ==
  /\ pc = "dispatch" /\ "post" \in Taken(buff, chunk)
  /\ Reply(Answer(c, IF BodyComplete(buff, chunk, inbox[c]) THEN "200" ELSE "400"))
  /\ inbox' = [inbox EXCEPT ![c] =
                 IF ReadsSocket(buff, chunk) /\ @ # <<>> THEN Tail(@) ELSE @]
  /\ UNCHANGED <<broken, wire, unread>>

DispatchFile(c) ==
  /\ pc = "dispatch" /\ "file" \in Taken(buff, chunk) /\ broken[c] # "pipe"
  /\ LET sent == IF broken[c] = "no" THEN FileSent(c, Room - unread[c]) ELSE <<>>
     IN /\ wire' = [wire EXCEPT ![c] = @ \o sent]
        /\ unread' = [unread EXCEPT ![c] = @ + Len(sent)]
  /\ broken' = [broken EXCEPT ![c] = IF @ = "reset" THEN "pipe" ELSE @]
  /\ Reply(FileHead(c))
  /\ UNCHANGED inbox

Dispatch(c) ==
  \/ DispatchBad(c) \/ DispatchUnknown(c) \/ DispatchGet(c)
  \/ DispatchPost(c) \/ DispatchFile(c)

-----------------------------------------------------------------------------
(***************************************************************************)
(* HttpProtocolHandler::onWrite, one step per write.  When everything is   *)
(* written the channel is closed, but onClose is not called: connMap keeps *)
(* the entry, and the next connection with the descriptor goes on with it. *)
(***************************************************************************)
Unsent(conn) == SubSeq(conn.buf, conn.sent + 1, Len(conn.buf))

\* The counting of PollConn::writeConn
Sent(conn, n) == [buf |-> conn.buf, sent |-> conn.sent + n]

WriteDone ==
  /\ pc = "write" /\ Unsent(connMap[cur]) = <<>>
  /\ CloseChannel(cur)
  /\ pc' = "loop"
  /\ UNCHANGED <<plan, inbox, ended, broken, wire, unread, limit, backlog,
                 knock, cur, batch, buff, chunk, connMap, starved>>

\* Wrong: what was written is not counted when the socket filled up.
WrongWriteSome(c) ==
  /\ pc = "write" /\ broken[c] = "no" /\ unread[c] < Room
  /\ Unsent(connMap[cur]) # <<>>
  /\ wire' = [wire EXCEPT ![c] = Append(@, Head(Unsent(connMap[cur])))]
  /\ unread' = [unread EXCEPT ![c] = @ + 1]
  /\ UNCHANGED connMap
  /\ UNCHANGED <<plan, link, inbox, ended, broken, kernel, pc, cur, batch,
                 buff, chunk, channelMap, starved>>

WriteSome(c) ==
  /\ pc = "write" /\ broken[c] = "no" /\ unread[c] < Room
  /\ Unsent(connMap[cur]) # <<>>
  /\ LET n == Min({Room - unread[c], Len(Unsent(connMap[cur]))}) IN
       /\ wire' = [wire EXCEPT ![c] = @ \o SubSeq(Unsent(connMap[cur]), 1, n)]
       /\ unread' = [unread EXCEPT ![c] = @ + n]
       /\ connMap' = [connMap EXCEPT ![cur] = Sent(@, n)]
  /\ UNCHANGED <<plan, link, inbox, ended, broken, kernel, pc, cur, batch,
                 buff, chunk, channelMap, starved>>

\* EAGAIN, or ECONNRESET: onWrite returns; a hang-up event will follow the latter.
WriteFails(c) ==
  /\ pc = "write" /\ Unsent(connMap[cur]) # <<>>
  /\ \/ broken[c] = "no" /\ unread[c] = Room
     \/ broken[c] = "reset"
  /\ broken' = [broken EXCEPT ![c] = IF @ = "reset" THEN "pipe" ELSE @]
  /\ pc' = "loop"
  /\ UNCHANGED <<plan, link, inbox, ended, wire, unread, kernel, cur, batch,
                 buff, chunk, connMap, channelMap, starved>>

\* EPIPE comes with SIGPIPE, which nobody ignores.
BrokenPipe(c) ==
  /\ broken[c] = "pipe"
  /\ \/ pc = "write" /\ Unsent(connMap[cur]) # <<>>
     \/ pc = "dispatch" /\ "file" \in Taken(buff, chunk)
  /\ pc' = "dead"
  /\ UNCHANGED <<clients, kernel, cur, batch, buff, chunk, connMap,
                 channelMap, starved>>

Handle(c) ==
  \/ Read(c) \/ Dispatch(c)
  \/ WriteSome(c) \/ WriteFails(c) \/ BrokenPipe(c)

-----------------------------------------------------------------------------
Init ==
  /\ plan \in [Clients -> UNION {Streams[c] : c \in Clients}]
  /\ \A c \in Clients : plan[c] \in Streams[c]
  /\ link = [c \in Clients |-> "new"]
  /\ inbox = [c \in Clients |-> <<>>]
  /\ ended = {}
  /\ broken = [c \in Clients |-> "no"]
  /\ wire = [c \in Clients |-> <<>>]
  /\ unread = [c \in Clients |-> 0]
  /\ limit \in Limits
  /\ backlog = <<>> /\ armed = {} /\ knock = FALSE
  /\ owner = [fd \in Fds |-> NoOne]
  /\ interest = [fd \in Fds |-> "none"]
  /\ pc = "loop" /\ cur = Listener /\ batch = {}
  /\ buff = <<>> /\ chunk = <<>>
  /\ connMap = [fd \in Fds |-> NoConn]
  /\ channelMap = {} /\ starved = FALSE

Server ==
  \/ Wait \/ \E e \in batch : Take(e) \/ Hangup(e)
  \/ Accept \/ AddChannel \/ AcceptFails
  \/ pc \in {"read", "dispatch", "write"} /\ (Handle(owner[cur]) \/ WriteDone)

Next == Server \/ \E c \in Clients : Client(c)

(***************************************************************************)
(* The loop thread is scheduled, and a client reads what it is sent.       *)
(***************************************************************************)
Fairness == WF_vars(Server) /\ \A c \in Clients : WF_vars(Drain(c))

Spec == Init /\ [][Next]_vars /\ Fairness

-----------------------------------------------------------------------------
(***************************************************************************)
(* The two maps and the kernel agree: an event is only ever handled for a  *)
(* descriptor that has a Channel (channelMap[fd] would otherwise make an   *)
(* empty one, whose close calls an empty function), an open connection has *)
(* a PollConn and is watched, and no Channel outlives its descriptor.      *)
(***************************************************************************)
MapsAgree ==
  /\ \A e \in batch : e.what # "accept" => e.fd \in channelMap
  /\ \A fd \in channelMap : owner[fd] # NoOne
  /\ \A fd \in Fds : owner[fd] # NoOne =>
       /\ connMap[fd] # NoConn
       /\ \/ pc = "add" /\ cur = fd
          \/ fd \in channelMap /\ interest[fd] # "none"

(***************************************************************************)
(* The send buffer a connection writes from holds nothing of another one,  *)
(* although most closes leave the entry in connMap and insert keeps it for *)
(* the next connection with the same descriptor: what such an entry still  *)
(* holds has all been sent.                                                *)
(***************************************************************************)
BufferIsOwn ==
  \A fd \in Fds : connMap[fd] # NoConn =>
    LET rest == Unsent(connMap[fd]) IN
      /\ owner[fd] = NoOne => rest = <<>>
      /\ \A i \in DOMAIN rest : rest[i].to = owner[fd]

(***************************************************************************)
(* What MapsAgree and BufferIsOwn rest on: only descriptors with a Channel *)
(* are watched, a connection that does not wait for room to write has      *)
(* nothing left to write, the events of a batch are about different        *)
(* descriptors, and the one being handled has no event left in it.         *)
(***************************************************************************)
WatchInv == \A fd \in Fds : interest[fd] # "none" <=> fd \in channelMap

ConnInv ==
  \A fd \in Fds : connMap[fd] # NoConn =>
    LET conn == connMap[fd] IN
      /\ conn.sent \in 0 .. Len(conn.buf)
      /\ interest[fd] # "out" => conn.sent = Len(conn.buf)
      /\ \A i \in conn.sent + 1 .. Len(conn.buf) : conn.buf[i].to = owner[fd]

LoopInv ==
  /\ \A e, f \in batch : e.fd = f.fd => e = f
  /\ \A e \in batch : e.what = "in" => interest[e.fd] = "in"
  /\ pc = "add" =>
       cur \in Fds /\ owner[cur] # NoOne /\ interest[cur] = "none"
  /\ pc \in {"read", "dispatch", "write"} =>
       cur \in channelMap /\ \A e \in batch : e.fd # cur
  /\ pc \in {"read", "dispatch"} => interest[cur] = "in"

IInv == TypeOK /\ MapsAgree /\ WatchInv /\ ConnInv /\ LoopInv

(***************************************************************************)
(* What the promise to clients rests on besides: a client waits in the     *)
(* backlog once or has one descriptor, a hang-up is only reported of a     *)
(* client that has left, and what was written to a client makes up an      *)
(* answer together with what is still to be written, or there is neither.  *)
(***************************************************************************)
OwnerInv ==
  /\ \A i, j \in DOMAIN backlog : backlog[i] = backlog[j] => i = j
  /\ \A i \in DOMAIN backlog : link[backlog[i]] = "backlog"
  /\ \A fd \in Fds : owner[fd] # NoOne =>
       /\ link[owner[fd]] = "open"
       /\ \A other \in Fds : owner[other] = owner[fd] => other = fd
  /\ \A e \in batch : e.what = "hup" => broken[owner[e.fd]] # "no"

AnswerInv ==
  /\ wire \in [Clients -> Seq(Units)]
  /\ \A c \in Clients : link[c] \notin {"open", "closed"} => wire[c] = <<>>
  /\ \A fd \in Fds : owner[fd] # NoOne =>
       /\ interest[fd] # "out" => wire[owner[fd]] = <<>>
       /\ interest[fd] = "out" =>
            wire[owner[fd]] \o Unsent(connMap[fd]) \in {<<>>} \union AnswersOf(owner[fd])

SInv == OwnerInv /\ AnswerInv

(***************************************************************************)
(* Each client sees one connection and one answer: AnswerService.          *)
(***************************************************************************)
Phase(c) == IF link[c] \in {"new", "backlog"} THEN "waiting" ELSE link[c]

Service == INSTANCE AnswerService WITH
  Answers <- [c \in Clients |-> AnswersOf(c)],
  phase <- [c \in Clients |-> Phase(c)],
  got <- wire,
  gone <- {c \in Clients : broken[c] # "no"}

ImplementsService == Service!Spec

(***************************************************************************)
(* A client that has sent something on an open connection is served: the   *)
(* connection is closed in the end, answered or not, unless the process is *)
(* gone.                                                                   *)
(***************************************************************************)
Served ==
  \A c \in Clients :
    (link[c] = "open" /\ inbox[c] # <<>>) ~> (link[c] = "closed" \/ pc = "dead")

(***************************************************************************)
(* A connection in the backlog is accepted, unless accept has ever failed  *)
(* for want of a descriptor: with edge triggering nothing calls it again.  *)
(***************************************************************************)
Accepted ==
  \A c \in Clients :
    link[c] = "backlog" ~> (link[c] # "backlog" \/ starved \/ pc = "dead")
=============================================================================
