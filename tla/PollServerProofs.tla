-------------------------- MODULE PollServerProofs --------------------------
(***************************************************************************)
(* Theorems about PollServer, for any clients, streams, buffer sizes and   *)
(* limits of descriptors.                                                  *)
(***************************************************************************)
EXTENDS PollServer, SequenceTheorems, TLAPS

\* Min of two integers is one of them, and not above either.
LEMMA MinOfTwo ==
  ASSUME NEW a \in Int, NEW b \in Int
  PROVE  Min({a, b}) \in {a, b} /\ Min({a, b}) <= a /\ Min({a, b}) <= b
  <1>. DEFINE m == IF a <= b THEN a ELSE b
  <1>1. m \in {a, b} /\ \A y \in {a, b} : m <= y
    OBVIOUS
  <1>. QED
    BY <1>1 DEF Min

\* Descriptors of connections are positive and include all up to the limit.
LEMMA FdsAre ==
  /\ Listener \notin Fds
  /\ \A n \in Limits : 1 .. n \subseteq Fds
  /\ Fds \subseteq Nat
  BY PollAssumption DEF PollAssumption, Fds, Listener

\* What Unsent leaves of a send buffer.
LEMMA UnsentIsRest ==
  ASSUME NEW conn \in Conns, conn.sent \in 0 .. Len(conn.buf)
  PROVE  /\ Len(Unsent(conn)) = Len(conn.buf) - conn.sent
         /\ Len(conn.buf) \in Nat
         /\ DOMAIN Unsent(conn) = 1 .. Len(conn.buf) - conn.sent
         /\ \A i \in 1 .. Len(conn.buf) - conn.sent :
              Unsent(conn)[i] = conn.buf[conn.sent + i]
         /\ Unsent(conn) = <<>> <=> conn.sent = Len(conn.buf)
  <1>. DEFINE s == Unsent(conn)
              n == Len(conn.buf) - conn.sent
  <1>1. conn.buf \in Seq(Units) /\ Len(conn.buf) \in Nat
    BY LenProperties DEF Conns
  <1>2. /\ s = [i \in 1 .. n |-> conn.buf[conn.sent + i]]
        /\ n \in Nat
    BY <1>1 DEF Unsent
  <1>3. Len(s) = n /\ DOMAIN s = 1 .. n
    BY <1>2
  <1>4. s = <<>> <=> n = 0
    BY <1>2, <1>3
  <1>. QED
    BY <1>1, <1>2, <1>3, <1>4

LEMMA InitInv == Init => IInv
  <1>. SUFFICES ASSUME Init PROVE IInv
    OBVIOUS
  <1>. USE PollAssumption DEF PollAssumption, Init
  <1>1. NoConn \in Conns
    BY DEF NoConn, Conns
  <1>2. TypeOK
    BY <1>1 DEF TypeOK
  <1>3. MapsAgree /\ WatchInv
    BY DEF MapsAgree, WatchInv
  <1>4. ConnInv
    BY DEF ConnInv
  <1>5. LoopInv
    BY DEF LoopInv
  <1>. QED
    BY <1>2, <1>3, <1>4, <1>5 DEF IInv

-----------------------------------------------------------------------------
(***************************************************************************)
(* The clients touch neither descriptors nor the server.                   *)
(***************************************************************************)
LEMMA OthersKeep ==
  ASSUME IInv, TypeOK',
         UNCHANGED <<owner, interest, pc, cur, batch, connMap, channelMap>>
  PROVE  IInv'
  BY DEF IInv, MapsAgree, WatchInv, ConnInv, LoopInv

LEMMA WakeKeeps ==
  ASSUME TypeOK, NEW c \in Clients, NEW what, Wake(c, what)
  PROVE  armed' \subseteq Fds
  <1>1. CASE \E fd \in Fds : owner[fd] = c /\ interest[fd] \in what
    <2>1. FdOf(c) \in Fds
      BY <1>1 DEF FdOf
    <2>. QED
      BY <1>1, <2>1 DEF Wake, TypeOK
  <1>2. CASE ~\E fd \in Fds : owner[fd] = c /\ interest[fd] \in what
    BY <1>2 DEF Wake, TypeOK
  <1>. QED
    BY <1>1, <1>2

LEMMA ClientKeeps == ASSUME IInv, NEW c \in Clients, Client(c) PROVE IInv'
  <1>. USE DEF server
  <1>0. TypeOK /\ Room \in Nat
    BY PollAssumption DEF IInv, PollAssumption
  <1>1. CASE Connect(c)
    BY <1>0, <1>1, OthersKeep DEF Connect, TypeOK
  <1>2. ASSUME NEW n \in 1 .. Len(plan[c]), Deliver(c, n) PROVE IInv'
    <2>1. armed' \subseteq Fds
      BY <1>0, <1>2, WakeKeeps DEF Deliver
    <2>. QED
      BY <1>0, <1>2, <2>1, OthersKeep DEF Deliver, TypeOK
  <1>3. CASE Finish(c)
    <2>1. armed' \subseteq Fds
      BY <1>0, <1>3, WakeKeeps DEF Finish
    <2>. QED
      BY <1>0, <1>3, <2>1, OthersKeep DEF Finish, TypeOK
  <1>4. CASE Reset(c)
    <2>1. armed' \subseteq Fds
      BY <1>0, <1>4, WakeKeeps DEF Reset
    <2>. QED
      BY <1>0, <1>4, <2>1, OthersKeep DEF Reset, TypeOK
  <1>5. CASE Drain(c)
    <2>1. armed' \subseteq Fds
      BY <1>0, <1>5, WakeKeeps DEF Drain
    <2>. QED
      BY <1>0, <1>5, <2>1, OthersKeep DEF Drain, TypeOK
  <1>. QED
    BY <1>1, <1>2, <1>3, <1>4, <1>5 DEF Client

-----------------------------------------------------------------------------
(***************************************************************************)
(* The loop.                                                               *)
(***************************************************************************)
\* What epoll_wait reports are descriptors that are watched, each once.
LEMMA ReportedEvents ==
  ASSUME IInv
  PROVE  /\ Reported \subseteq Events
         /\ \A e \in Reported : e.what # "accept" => e.fd \in channelMap
         /\ \A e \in Reported : e.what = "in" => interest[e.fd] = "in"
         /\ \A e, f \in Reported : e.fd = f.fd => e = f
  <1>. DEFINE watched == {fd \in armed : Ready(owner[fd], interest[fd])}
  <1>1. \A fd \in watched :
          /\ fd \in Fds /\ fd \in channelMap
          /\ Event(fd).fd = fd /\ Event(fd) \in Events
          /\ Event(fd).what # "accept"
          /\ Event(fd).what = "in" => interest[fd] = "in"
    BY DEF IInv, TypeOK, WatchInv, Ready, Event, Events
  <1>2. \A e \in Reported :
          \/ \E fd \in watched : e = Event(fd)
          \/ e = [fd |-> Listener, what |-> "accept"]
    BY DEF Reported
  <1>. QED
    BY <1>1, <1>2, FdsAre DEF Events

LEMMA WaitKeeps == ASSUME IInv, Wait PROVE IInv'
  <1>. USE DEF IInv, Wait, clients
  <1>1. TypeOK'
    BY ReportedEvents DEF TypeOK
  <1>2. MapsAgree' /\ WatchInv' /\ ConnInv'
    BY ReportedEvents DEF MapsAgree, WatchInv, ConnInv
  <1>3. LoopInv'
    BY ReportedEvents DEF LoopInv
  <1>. QED
    BY <1>1, <1>2, <1>3

LEMMA TakeKeeps == ASSUME IInv, NEW e \in batch, Take(e) PROVE IInv'
  <1>. USE DEF IInv, Take, clients, kernel
  <1>0. e \in Events /\ e.what \in {"accept", "in", "out"}
    BY DEF TypeOK, Events
  <1>1. /\ e.what = "accept" => pc' = "accept"
        /\ e.what = "in" => pc' = "read"
        /\ e.what = "out" => pc' = "write"
    BY <1>0
  <1>2. TypeOK'
    BY <1>0, <1>1 DEF TypeOK, Events
  <1>3. MapsAgree' /\ WatchInv' /\ ConnInv'
    BY <1>0, <1>1 DEF MapsAgree, WatchInv, ConnInv
  <1>4. LoopInv'
    BY <1>0, <1>1 DEF LoopInv, MapsAgree
  <1>. QED
    BY <1>2, <1>3, <1>4

(***************************************************************************)
(* A channel may be closed when no event of the batch is about it and what *)
(* stays in connMap has all been sent.                                     *)
(***************************************************************************)
LEMMA CloseKeeps ==
  ASSUME IInv, NEW fd \in channelMap, CloseChannel(fd),
         \/ OnClose(fd)
         \/ connMap' = connMap /\ connMap[fd].sent = Len(connMap[fd].buf),
         batch' \subseteq batch, \A e \in batch' : e.fd # fd,
         pc # "add", pc' = "loop", cur' = cur,
         UNCHANGED <<broken, unread, limit, backlog>>
  PROVE  IInv'
  <1>. USE DEF IInv, CloseChannel, OnClose
  <1>0. /\ fd \in Fds /\ owner[fd] \in Clients
        /\ NoConn \in Conns
    BY DEF TypeOK, MapsAgree, NoConn, Conns
  <1>1. TypeOK'
    BY <1>0 DEF TypeOK
  <1>2. MapsAgree'
    BY <1>0 DEF TypeOK, MapsAgree
  <1>3. WatchInv'
    BY <1>0 DEF TypeOK, WatchInv
  <1>4. ConnInv'
    <2>. SUFFICES ASSUME NEW d \in Fds, connMap'[d] # NoConn
                  PROVE  /\ connMap'[d].sent \in 0 .. Len(connMap'[d].buf)
                         /\ interest'[d] # "out" =>
                              connMap'[d].sent = Len(connMap'[d].buf)
                         /\ \A i \in connMap'[d].sent + 1 .. Len(connMap'[d].buf) :
                              connMap'[d].buf[i].to = owner'[d]
      BY DEF ConnInv
    <2>1. CASE d # fd
      BY <1>0, <2>1 DEF TypeOK, ConnInv
    <2>2. CASE d = fd
      <3>1. connMap' = connMap /\ connMap[fd].sent = Len(connMap[fd].buf)
        BY <1>0, <2>2 DEF TypeOK
      <3>2. Len(connMap[fd].buf) \in Nat
        BY <1>0, LenProperties DEF TypeOK, Conns
      <3>. QED
        BY <2>2, <3>1, <3>2 DEF ConnInv
    <2>. QED
      BY <2>1, <2>2
  <1>5. LoopInv'
    BY <1>0, <1>1 DEF LoopInv, TypeOK
  <1>. QED
    BY <1>1, <1>2, <1>3, <1>4, <1>5

LEMMA HangupKeeps == ASSUME IInv, NEW e \in batch, Hangup(e) PROVE IInv'
  <1>. USE DEF Hangup
  <1>1. e.fd \in channelMap /\ \A f \in batch' : f.fd # e.fd
    BY DEF IInv, MapsAgree, LoopInv
  <1>. QED
    BY <1>1, CloseKeeps

-----------------------------------------------------------------------------
(***************************************************************************)
(* The accept loop.                                                        *)
(***************************************************************************)
LEMMA AcceptKeeps == ASSUME IInv, Accept PROVE IInv'
  <1>. USE DEF IInv, Accept
  <1>1. PICK fd \in FreeFds : /\ cur' = fd
                              /\ owner' = [owner EXCEPT ![fd] = Head(backlog)]
                              /\ OnAccept(fd)
    OBVIOUS
  <1>2. Head(backlog) \in Clients /\ Tail(backlog) \in Seq(Clients)
    BY HeadTailProperties DEF TypeOK
  <1>3. fd \in Fds /\ owner[fd] = NoOne
    BY FdsAre DEF FreeFds, TypeOK
  <1>4. fd \notin channelMap /\ interest[fd] = "none"
    BY <1>3 DEF MapsAgree, WatchInv
  <1>5. /\ FreshConn \in Conns /\ FreshConn # NoConn
        /\ FreshConn.sent = 0 /\ Len(FreshConn.buf) = 0
    BY DEF FreshConn, NoConn, Conns
  <1>6. Head(backlog) # NoOne
    BY <1>2, PollAssumption DEF PollAssumption
  <1>7. TypeOK'
    BY <1>1, <1>2, <1>3, <1>5 DEF TypeOK, OnAccept
  <1>8. MapsAgree'
    BY <1>1, <1>3, <1>4, <1>5 DEF TypeOK, MapsAgree, OnAccept
  <1>9. WatchInv'
    BY DEF WatchInv
  <1>10. ConnInv'
    <2>. SUFFICES ASSUME NEW d \in Fds, connMap'[d] # NoConn
                  PROVE  /\ connMap'[d].sent \in 0 .. Len(connMap'[d].buf)
                         /\ interest'[d] # "out" =>
                              connMap'[d].sent = Len(connMap'[d].buf)
                         /\ \A i \in connMap'[d].sent + 1 .. Len(connMap'[d].buf) :
                              connMap'[d].buf[i].to = owner'[d]
      BY DEF ConnInv
    <2>1. CASE d # fd
      BY <1>1, <2>1 DEF TypeOK, ConnInv, OnAccept
    <2>2. CASE d = fd
      <3>1. connMap'[d] \in {FreshConn, connMap[d]}
        BY <1>1, <1>3, <2>2 DEF TypeOK, OnAccept
      <3>2. CASE connMap'[d] = FreshConn
        BY <1>5, <3>2
      <3>3. CASE connMap'[d] = connMap[d]
        <4>1. Len(connMap[d].buf) \in Nat
          BY LenProperties DEF TypeOK, Conns
        <4>. QED
          BY <1>4, <2>2, <3>3, <4>1 DEF ConnInv
      <3>. QED
        BY <3>1, <3>2, <3>3
    <2>. QED
      BY <2>1, <2>2
  <1>11. LoopInv'
    BY <1>1, <1>3, <1>4, <1>6 DEF LoopInv, TypeOK
  <1>. QED
    BY <1>7, <1>8, <1>9, <1>10, <1>11

LEMMA AddChannelKeeps == ASSUME IInv, AddChannel PROVE IInv'
  <1>. USE DEF IInv, AddChannel, Watch, clients
  <1>1. /\ cur \in Fds /\ owner[cur] # NoOne /\ interest[cur] = "none"
        /\ cur \notin channelMap
    BY DEF LoopInv, WatchInv
  <1>2. TypeOK'
    BY <1>1 DEF TypeOK
  <1>3. MapsAgree'
    BY <1>1 DEF TypeOK, MapsAgree
  <1>4. WatchInv' /\ ConnInv'
    BY <1>1 DEF TypeOK, WatchInv, ConnInv
  <1>5. LoopInv'
    BY <1>1 DEF TypeOK, LoopInv
  <1>. QED
    BY <1>2, <1>3, <1>4, <1>5

LEMMA AcceptFailsKeeps == ASSUME IInv, AcceptFails PROVE IInv'
  <1>. USE DEF IInv, AcceptFails, clients, kernel
  <1>1. TypeOK' /\ MapsAgree' /\ WatchInv' /\ ConnInv'
    BY DEF TypeOK, MapsAgree, WatchInv, ConnInv
  <1>2. LoopInv'
    BY DEF LoopInv
  <1>. QED
    BY <1>1, <1>2

-----------------------------------------------------------------------------
(***************************************************************************)
(* Reading.  All of it happens on a descriptor that waits for something to *)
(* read, whose entry in connMap therefore holds nothing unsent.            *)
(***************************************************************************)
LEMMA CurIsIdle ==
  ASSUME IInv, pc \in {"read", "dispatch"}
  PROVE  /\ cur \in channelMap /\ cur \in Fds /\ owner[cur] \in Clients
         /\ connMap[cur] # NoConn
         /\ connMap[cur].sent \in Nat
         /\ connMap[cur].sent = Len(connMap[cur].buf)
         /\ interest[cur] = "in"
         /\ \A e \in batch : e.fd # cur
  <1>. USE DEF IInv
  <1>1. /\ cur \in channelMap /\ cur \in Fds /\ owner[cur] \in Clients
        /\ interest[cur] = "in" /\ \A e \in batch : e.fd # cur
        /\ connMap[cur] # NoConn
    BY DEF LoopInv, TypeOK, MapsAgree
  <1>2. Len(connMap[cur].buf) \in Nat
    BY <1>1, LenProperties DEF TypeOK, Conns
  <1>. QED
    BY <1>1, <1>2 DEF ConnInv

LEMMA RefuseKeeps ==
  ASSUME IInv, pc \in {"read", "dispatch"}, Refuse
  PROVE  IInv'
  BY CurIsIdle, CloseKeeps DEF Refuse

\* What changes only the place of the loop, to one that is as safe.
LEMMA GotoKeeps ==
  ASSUME IInv, pc # "add",
         \/ pc' \in {"loop", "dead"}
         \/ pc' = pc
         \/ pc = "read" /\ pc' = "dispatch",
         broken' \in [Clients -> {"no", "reset", "pipe"}],
         UNCHANGED <<link, unread, kernel, cur, batch, connMap, channelMap>>
  PROVE  IInv'
  <1>. USE DEF IInv, kernel
  <1>1. TypeOK'
    BY DEF TypeOK
  <1>2. MapsAgree' /\ WatchInv' /\ ConnInv'
    BY DEF MapsAgree, WatchInv, ConnInv
  <1>3. LoopInv'
    BY DEF LoopInv
  <1>. QED
    BY <1>1, <1>2, <1>3

LEMMA ReadKeeps == ASSUME IInv, NEW c, c = owner[cur], Read(c) PROVE IInv'
  <1>. USE DEF Reads, clients, kernel
  <1>0. broken \in [Clients -> {"no", "reset", "pipe"}] /\ cur \in Fds \union {Listener}
    BY DEF IInv, TypeOK
  <1>1. CASE ReadHeader(c)
    BY <1>0, <1>1, GotoKeeps DEF ReadHeader
  <1>2. CASE ReadOn(c)
    BY <1>0, <1>2, GotoKeeps DEF ReadOn
  <1>3. CASE ReadShort(c)
    BY <1>3, RefuseKeeps DEF ReadShort
  <1>4. CASE ReadResidue(c)
    BY <1>0, <1>4, GotoKeeps DEF ReadResidue
  <1>5. CASE ReadEnd(c)
    BY <1>5, RefuseKeeps DEF ReadEnd
  <1>6. CASE ReadError(c)
    BY <1>6, CurIsIdle, CloseKeeps DEF ReadError
  <1>7. CASE ReadAgain(c)
    <2>. USE <1>7 DEF ReadAgain, Watch, IInv
    <2>1. TypeOK'
      BY CurIsIdle DEF TypeOK
    <2>2. MapsAgree' /\ WatchInv'
      BY CurIsIdle DEF TypeOK, MapsAgree, WatchInv
    <2>3. ConnInv'
      BY CurIsIdle DEF TypeOK, ConnInv
    <2>4. LoopInv'
      BY CurIsIdle DEF TypeOK, LoopInv
    <2>. QED
      BY <2>1, <2>2, <2>3, <2>4
  <1>. QED
    BY <1>1, <1>2, <1>3, <1>4, <1>5, <1>6, <1>7 DEF Read

-----------------------------------------------------------------------------
(***************************************************************************)
(* An answer is put behind what has all been sent, and is for the client   *)
(* of the descriptor.                                                      *)
(***************************************************************************)
LEMMA ReplyKeeps ==
  ASSUME IInv, pc = "dispatch",
         NEW answer \in Seq(Units),
         \A i \in 1 .. Len(answer) : answer[i].to = owner[cur],
         Reply(answer),
         broken' \in [Clients -> {"no", "reset", "pipe"}],
         unread' \in [Clients -> 0 .. Room]
  PROVE  IInv'
  <1>. USE DEF IInv, Reply, Watch
  <1>0. /\ cur \in channelMap /\ cur \in Fds /\ owner[cur] \in Clients
        /\ connMap[cur] # NoConn /\ connMap[cur] \in Conns
        /\ connMap[cur].sent \in Nat
        /\ connMap[cur].sent = Len(connMap[cur].buf)
        /\ interest[cur] = "in"
        /\ \A e \in batch : e.fd # cur
    BY CurIsIdle DEF TypeOK
  <1>. DEFINE conn == connMap'[cur]
  <1>1. /\ conn.sent = connMap[cur].sent
        /\ conn.buf = connMap[cur].buf \o answer
        /\ conn \in Conns
    BY <1>0 DEF TypeOK, Conns, Buffered
  <1>2. \A d \in Fds : d # cur => connMap'[d] = connMap[d]
    BY DEF TypeOK
  <1>3. TypeOK'
    BY <1>0, <1>1, <1>2 DEF TypeOK, Conns
  <1>4. conn # NoConn
    BY <1>0, <1>1 DEF NoConn
  <1>5. MapsAgree' /\ WatchInv'
    BY <1>0, <1>2, <1>4 DEF TypeOK, MapsAgree, WatchInv
  <1>6. /\ conn.sent \in 0 .. Len(conn.buf)
        /\ \A i \in conn.sent + 1 .. Len(conn.buf) : conn.buf[i].to = owner[cur]
    <2>. DEFINE old == connMap[cur].buf
    <2>1. old \in Seq(Units) /\ answer \in Seq(Units)
      BY <1>0 DEF Conns
    <2>3. conn.sent = Len(old) /\ conn.buf = old \o answer
      BY <1>0, <1>1
    <2>. HIDE DEF old, conn
    <2>2. /\ Len(old) \in Nat /\ Len(answer) \in Nat
          /\ Len(old \o answer) = Len(old) + Len(answer)
          /\ \A i \in 1 .. Len(old) + Len(answer) :
               (old \o answer)[i] = IF i <= Len(old) THEN old[i] ELSE answer[i - Len(old)]
      BY <2>1, ConcatProperties, LenProperties
    <2>4. ASSUME NEW i \in conn.sent + 1 .. Len(conn.buf)
          PROVE  conn.buf[i].to = owner[cur]
      <3>1. /\ i - Len(old) \in 1 .. Len(answer)
            /\ conn.buf[i] = answer[i - Len(old)]
        BY <2>2, <2>3
      <3>. QED
        BY <3>1
    <2>. QED
      BY <2>2, <2>3, <2>4
  <1>7. ConnInv'
    BY <1>0, <1>2, <1>6 DEF TypeOK, ConnInv
  <1>8. LoopInv'
    BY <1>0 DEF TypeOK, LoopInv
  <1>. QED
    BY <1>3, <1>5, <1>7, <1>8

\* The answers are for the client they are made for.
LEMMA AnswersAreOwn ==
  ASSUME NEW c \in Clients, NEW status \in {"200", "400"}
  PROVE  /\ Answer(c, status) \in Seq(Units)
         /\ \A i \in 1 .. Len(Answer(c, status)) : Answer(c, status)[i].to = c
         /\ FileHead(c) \in Seq(Units)
         /\ \A i \in 1 .. Len(FileHead(c)) : FileHead(c)[i].to = c
  <1>1. \A part \in {"200", "400", "content"} : Unit(c, part) \in Units /\ Unit(c, part).to = c
    BY DEF Unit, Units
  <1>2. \A u, v \in Units : u.to = c /\ v.to = c =>
          /\ <<u, v>> \in Seq(Units) /\ <<u>> \in Seq(Units)
          /\ \A i \in 1 .. Len(<<u, v>>) : <<u, v>>[i].to = c
          /\ \A i \in 1 .. Len(<<u>>) : <<u>>[i].to = c
    OBVIOUS
  <1>3. /\ Answer(c, status) = <<Unit(c, status), Unit(c, "content")>>
        /\ FileHead(c) = <<Unit(c, "200")>>
    BY DEF Answer, FileHead
  <1>4. /\ Unit(c, status) \in Units /\ Unit(c, status).to = c
        /\ Unit(c, "content") \in Units /\ Unit(c, "content").to = c
        /\ Unit(c, "200") \in Units /\ Unit(c, "200").to = c
    BY <1>1
  <1>5. /\ Answer(c, status) \in Seq(Units) /\ FileHead(c) \in Seq(Units)
        /\ \A i \in 1 .. Len(Answer(c, status)) : Answer(c, status)[i].to = c
        /\ \A i \in 1 .. Len(FileHead(c)) : FileHead(c)[i].to = c
    BY <1>2, <1>3, <1>4
  <1>. QED
    BY <1>5

LEMMA DispatchKeeps ==
  ASSUME IInv, NEW c, c = owner[cur], Dispatch(c) PROVE IInv'
  <1>. USE DEF clients, kernel
  <1>1. /\ broken \in [Clients -> {"no", "reset", "pipe"}]
        /\ unread \in [Clients -> 0 .. Room]
        /\ Room \in Nat
    BY PollAssumption DEF IInv, TypeOK, PollAssumption
  <1>2. pc = "dispatch"
    BY DEF Dispatch, DispatchBad, DispatchUnknown, DispatchGet, DispatchPost, DispatchFile
  <1>3. c \in Clients
    BY <1>2, CurIsIdle
  <1>4. CASE DispatchBad(c)
    BY <1>4, RefuseKeeps DEF DispatchBad
  <1>5. CASE DispatchUnknown(c)
    BY <1>1, <1>5, GotoKeeps DEF DispatchUnknown
  <1>6. ASSUME NEW status \in {"200", "400"}, Reply(Answer(c, status)), UNCHANGED <<broken, unread>>
        PROVE  IInv'
    <2>1. /\ Answer(c, status) \in Seq(Units)
          /\ \A i \in 1 .. Len(Answer(c, status)) : Answer(c, status)[i].to = owner[cur]
      BY <1>3, AnswersAreOwn
    <2>2. /\ broken' \in [Clients -> {"no", "reset", "pipe"}]
          /\ unread' \in [Clients -> 0 .. Room]
      BY <1>1, <1>6
    <2>. QED
      BY <1>2, <1>6, <2>1, <2>2, ReplyKeeps
  <1>7. CASE DispatchGet(c)
    BY <1>6, <1>7 DEF DispatchGet
  <1>8. CASE DispatchPost(c)
    <2>. DEFINE status == IF BodyComplete(buff, chunk, inbox[c]) THEN "200" ELSE "400"
    <2>1. status \in {"200", "400"}
      OBVIOUS
    <2>2. Reply(Answer(c, status)) /\ UNCHANGED <<broken, unread>>
      BY <1>8 DEF DispatchPost
    <2>. HIDE DEF status
    <2>. QED
      BY <1>6, <2>1, <2>2
  <1>9. CASE DispatchFile(c)
    <2>1. /\ Reply(FileHead(c))
          /\ broken' = [broken EXCEPT ![c] = IF @ = "reset" THEN "pipe" ELSE @]
      BY <1>9 DEF DispatchFile
    <2>2. broken' \in [Clients -> {"no", "reset", "pipe"}]
      BY <1>1, <2>1
    <2>3. unread' \in [Clients -> 0 .. Room]
      <3>1. CASE broken[c] = "no"
        <4>. DEFINE room == Room - unread[c]
        <4>1. room \in Nat /\ room \in Int
          BY <1>1, <1>3
        <4>2. unread' = [unread EXCEPT ![c] = @ + Len(FileSent(c, room))]
          BY <1>9, <3>1 DEF DispatchFile
        <4>3. unread[c] + room = Room /\ unread[c] \in Nat
          BY <1>1, <1>3
        <4>. HIDE DEF room
        <4>4. Min({room, 2}) \in {room, 2} /\ Min({room, 2}) <= room
          BY <4>1, MinOfTwo
        <4>5. Min({room, 2}) \in 0 .. room
          BY <4>1, <4>4
        <4>6. Len(FileSent(c, room)) = Min({room, 2})
          BY <4>1, <4>5 DEF FileSent
        <4>7. unread[c] + Len(FileSent(c, room)) \in 0 .. Room
          BY <1>1, <4>1, <4>3, <4>5, <4>6
        <4>. QED
          BY <1>1, <1>3, <4>2, <4>7
      <3>2. CASE broken[c] # "no"
        <4>1. unread' = [unread EXCEPT ![c] = @ + Len(<<>>)]
          BY <1>9, <3>2 DEF DispatchFile
        <4>2. Len(<<>>) = 0
          OBVIOUS
        <4>. QED
          BY <1>1, <1>3, <4>1, <4>2
      <3>. QED
        BY <3>1, <3>2
    <2>4. /\ FileHead(c) \in Seq(Units)
          /\ \A i \in 1 .. Len(FileHead(c)) : FileHead(c)[i].to = owner[cur]
      BY <1>3, AnswersAreOwn
    <2>. QED
      BY <1>2, <2>1, <2>2, <2>3, <2>4, ReplyKeeps
  <1>. QED
    BY <1>4, <1>5, <1>7, <1>8, <1>9 DEF Dispatch

-----------------------------------------------------------------------------
(***************************************************************************)
(* Writing.  What is counted as sent never passes the end of the buffer.   *)
(***************************************************************************)
LEMMA CurIsOpen ==
  ASSUME IInv, pc = "write"
  PROVE  /\ cur \in channelMap /\ cur \in Fds /\ owner[cur] \in Clients
         /\ connMap[cur] # NoConn /\ connMap[cur] \in Conns
         /\ connMap[cur].sent \in 0 .. Len(connMap[cur].buf)
         /\ \A e \in batch : e.fd # cur
  <1>. USE DEF IInv
  <1>1. /\ cur \in channelMap /\ cur \in Fds /\ owner[cur] \in Clients
        /\ connMap[cur] # NoConn /\ connMap[cur] \in Conns
        /\ \A e \in batch : e.fd # cur
    BY DEF LoopInv, TypeOK, MapsAgree
  <1>. QED
    BY <1>1 DEF ConnInv

LEMMA WriteDoneKeeps == ASSUME IInv, WriteDone PROVE IInv'
  <1>1. connMap[cur].sent = Len(connMap[cur].buf)
    BY CurIsOpen, UnsentIsRest DEF WriteDone
  <1>. QED
    BY <1>1, CurIsOpen, CloseKeeps DEF WriteDone

LEMMA WriteSomeKeeps ==
  ASSUME IInv, NEW c, c = owner[cur], WriteSome(c) PROVE IInv'
  <1>. DEFINE left == Len(Unsent(connMap[cur]))
              n == Min({Room - unread[c], left})
  <1>1. /\ pc = "write" /\ cur \in Fds /\ owner[cur] \in Clients
        /\ connMap[cur] # NoConn /\ connMap[cur] \in Conns
        /\ connMap[cur].sent \in 0 .. Len(connMap[cur].buf)
    BY CurIsOpen DEF WriteSome
  <1>2. /\ left = Len(connMap[cur].buf) - connMap[cur].sent
        /\ Len(connMap[cur].buf) \in Nat
        /\ connMap[cur].sent # Len(connMap[cur].buf)
    BY <1>1, UnsentIsRest DEF WriteSome
  <1>3. /\ unread \in [Clients -> 0 .. Room] /\ unread[c] < Room
        /\ Room \in Nat /\ c \in Clients
    BY <1>1, PollAssumption DEF IInv, TypeOK, PollAssumption, WriteSome
  <1>4. n \in 0 .. left /\ unread[c] + n \in 0 .. Room
    <2>. DEFINE room == Room - unread[c]
    <2>1. room \in Nat /\ left \in Nat /\ unread[c] + room = Room /\ unread[c] \in Nat
      BY <1>1, <1>2, <1>3
    <2>. HIDE DEF room, left
    <2>2. /\ Min({room, left}) \in {room, left}
          /\ Min({room, left}) <= room /\ Min({room, left}) <= left
      <3>1. room \in Int /\ left \in Int
        BY <2>1
      <3>. QED
        BY <3>1, MinOfTwo
    <2>3. n = Min({room, left})
      BY DEF room
    <2>. HIDE DEF n
    <2>. QED
      BY <1>3, <2>1, <2>2, <2>3
  <1>5. /\ unread' = [unread EXCEPT ![c] = @ + n]
        /\ connMap' = [connMap EXCEPT ![cur] = Sent(@, n)]
        /\ UNCHANGED <<link, broken, kernel, pc, cur, batch, channelMap>>
    BY DEF WriteSome
  <1>. HIDE DEF n, left
  <1>. USE DEF IInv, kernel
  <1>. DEFINE conn == connMap'[cur]
  <1>6. /\ conn.buf = connMap[cur].buf /\ conn.sent = connMap[cur].sent + n
        /\ conn \in Conns
        /\ \A d \in Fds : d # cur => connMap'[d] = connMap[d]
    BY <1>1, <1>2, <1>4, <1>5 DEF TypeOK, Conns, Sent
  <1>7. conn.sent \in 0 .. Len(conn.buf) /\ connMap[cur].sent <= conn.sent
    BY <1>1, <1>2, <1>4, <1>6
  <1>8. conn # NoConn
    BY <1>7 DEF NoConn
  <1>9. TypeOK'
    BY <1>1, <1>3, <1>4, <1>5, <1>6 DEF TypeOK
  <1>10. MapsAgree' /\ WatchInv' /\ LoopInv'
    BY <1>1, <1>5, <1>6, <1>8 DEF MapsAgree, WatchInv, LoopInv
  <1>11. ConnInv'
    <2>1. interest[cur] = "out"
      BY <1>1, <1>2 DEF ConnInv
    <2>2. \A i \in conn.sent + 1 .. Len(conn.buf) : conn.buf[i].to = owner[cur]
      BY <1>1, <1>2, <1>6, <1>7 DEF ConnInv
    <2>. QED
      BY <1>5, <1>6, <1>7, <2>1, <2>2 DEF ConnInv
  <1>. QED
    BY <1>9, <1>10, <1>11

LEMMA HandleKeeps == ASSUME IInv, Handle(owner[cur]) PROVE IInv'
  <1>. DEFINE c == owner[cur]
  <1>. USE DEF clients
  <1>0. broken \in [Clients -> {"no", "reset", "pipe"}]
    BY DEF IInv, TypeOK
  <1>1. CASE Read(c)
    BY <1>1, ReadKeeps
  <1>2. CASE Dispatch(c)
    BY <1>2, DispatchKeeps
  <1>3. CASE WriteSome(c)
    BY <1>3, WriteSomeKeeps
  <1>4. CASE WriteFails(c)
    <2>1. broken' \in [Clients -> {"no", "reset", "pipe"}]
      BY <1>0, <1>4 DEF WriteFails
    <2>. QED
      BY <1>4, <2>1, GotoKeeps DEF WriteFails
  <1>5. CASE BrokenPipe(c)
    BY <1>0, <1>5, GotoKeeps DEF BrokenPipe
  <1>. QED
    BY <1>1, <1>2, <1>3, <1>4, <1>5 DEF Handle

-----------------------------------------------------------------------------
LEMMA NextKeeps == ASSUME IInv, [Next]_vars PROVE IInv'
  <1>1. CASE Server
    BY <1>1, WaitKeeps, TakeKeeps, HangupKeeps, AcceptKeeps, AddChannelKeeps,
       AcceptFailsKeeps, HandleKeeps, WriteDoneKeeps DEF Server
  <1>2. CASE \E c \in Clients : Client(c)
    BY <1>2, ClientKeeps
  <1>3. CASE UNCHANGED vars
    BY <1>3, OthersKeep DEF vars, clients, kernel, server, IInv, TypeOK
  <1>. QED
    BY <1>1, <1>2, <1>3 DEF Next

(***************************************************************************)
(* The inductive invariant of the loop: the types, the two maps against    *)
(* the kernel, which descriptors are watched and for what, what is left in *)
(* the send buffers, and which events a batch may still hold.              *)
(***************************************************************************)
THEOREM Invariance == Spec => []IInv
  BY InitInv, NextKeeps, PTL DEF Spec

(***************************************************************************)
(* channelMap, connMap and epoll agree in every state, whatever the        *)
(* clients do between two system calls: no event is handled for a          *)
(* descriptor without a Channel, no Channel outlives its descriptor, every *)
(* open connection has a PollConn and is watched.                          *)
(***************************************************************************)
THEOREM MapsTheorem == Spec => []MapsAgree
  <1>1. IInv => MapsAgree
    BY DEF IInv
  <1>. QED
    BY <1>1, Invariance, PTL

(***************************************************************************)
(* A client is never sent what was buffered for another one, although      *)
(* the entry of a closed connection stays in connMap and is kept by insert *)
(* for the next one with the same descriptor.                              *)
(***************************************************************************)
THEOREM BufferTheorem == Spec => []BufferIsOwn
  <1>1. ASSUME IInv PROVE BufferIsOwn
    <2>. SUFFICES ASSUME NEW fd \in Fds, connMap[fd] # NoConn
                  PROVE  /\ owner[fd] = NoOne => Unsent(connMap[fd]) = <<>>
                         /\ \A i \in DOMAIN Unsent(connMap[fd]) :
                              Unsent(connMap[fd])[i].to = owner[fd]
      BY DEF BufferIsOwn
    <2>. DEFINE conn == connMap[fd]
    <2>1. conn \in Conns /\ conn.sent \in 0 .. Len(conn.buf)
      BY <1>1 DEF IInv, TypeOK, ConnInv
    <2>2. /\ Len(conn.buf) \in Nat
          /\ DOMAIN Unsent(conn) = 1 .. Len(conn.buf) - conn.sent
          /\ \A i \in 1 .. Len(conn.buf) - conn.sent :
               Unsent(conn)[i] = conn.buf[conn.sent + i]
          /\ Unsent(conn) = <<>> <=> conn.sent = Len(conn.buf)
      BY <2>1, UnsentIsRest
    <2>3. owner[fd] = NoOne => interest[fd] = "none"
      BY <1>1 DEF IInv, MapsAgree, WatchInv
    <2>4. owner[fd] = NoOne => Unsent(conn) = <<>>
      BY <1>1, <2>2, <2>3 DEF IInv, ConnInv
    <2>5. ASSUME NEW i \in DOMAIN Unsent(conn) PROVE Unsent(conn)[i].to = owner[fd]
      <3>1. conn.sent + i \in conn.sent + 1 .. Len(conn.buf)
        BY <2>1, <2>2
      <3>. QED
        BY <1>1, <2>2, <3>1 DEF IInv, ConnInv
    <2>. QED
      BY <2>4, <2>5
  <1>. QED
    BY <1>1, Invariance, PTL
=============================================================================
