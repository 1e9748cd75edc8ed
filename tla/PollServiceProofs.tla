------------------------- MODULE PollServiceProofs -------------------------
(***************************************************************************)
(* PollServer implements AnswerService, for any clients, streams, buffer   *)
(* sizes and limits of descriptors.                                        *)
(***************************************************************************)
EXTENDS PollServerProofs, DataLemmas

\* An answer put behind what has all been sent is what is left to send.
LEMMA UnsentOfBuffered ==
  ASSUME NEW conn \in Conns, conn.sent = Len(conn.buf),
         NEW answer \in Seq(Units), answer # <<>>
  PROVE  Unsent(Buffered(conn, answer)) = answer
  <1>. DEFINE old == conn.buf
              buf == Buffered(conn, answer).buf
  <1>1. /\ old \in Seq(Units) /\ Len(old) \in Nat /\ Len(answer) \in Nat
        /\ Len(answer) # 0
    BY LenProperties, EmptySeq DEF Conns
  <1>2. buf = old \o answer /\ Buffered(conn, answer).sent = Len(old)
    BY DEF Buffered
  <1>. HIDE DEF old, buf
  <1>3. Len(buf) = Len(old) + Len(answer)
    BY <1>1, <1>2, ConcatProperties
  <1>4. /\ Len(old) + 1 \in Len(old) + 1 .. Len(old) + Len(answer)
        /\ Len(old) + Len(answer) \in Len(old) + 1 .. Len(old) + Len(answer)
        /\ Len(old) + 1 - Len(old) = 1
        /\ Len(old) + Len(answer) - Len(old) = Len(answer)
    BY <1>1
  <1>5. SubSeq(old \o answer, Len(old) + 1, Len(old) + Len(answer))
          = SubSeq(answer, Len(old) + 1 - Len(old), Len(old) + Len(answer) - Len(old))
    BY <1>1, <1>4, SubSeqOfConcat2
  <1>6. SubSeq(answer, 1, Len(answer)) = answer
    BY SubSeqFull
  <1>. QED
    BY <1>2, <1>3, <1>4, <1>5, <1>6 DEF Unsent, buf

\* What is written and what is then left make up what was left before.
LEMMA WriteMoves ==
  ASSUME NEW conn \in Conns, conn.sent \in 0 .. Len(conn.buf),
         NEW n \in 1 .. Len(Unsent(conn))
  PROVE  /\ Unsent(conn) \in Seq(Units)
         /\ SubSeq(Unsent(conn), 1, n) \in Seq(Units)
         /\ SubSeq(Unsent(conn), 1, n) # <<>>
         /\ Unsent(Sent(conn, n)) \in Seq(Units)
         /\ Unsent(conn) = SubSeq(Unsent(conn), 1, n) \o Unsent(Sent(conn, n))
  <1>. DEFINE b == conn.buf
              k == conn.sent
              u == Unsent(conn)
              rest == Unsent(Sent(conn, n))
  <1>1. /\ b \in Seq(Units) /\ Len(b) \in Nat /\ k \in 0 .. Len(b)
        /\ u = SubSeq(b, k + 1, Len(b)) /\ Len(u) = Len(b) - k
        /\ rest = SubSeq(b, k + n + 1, Len(b))
    BY LenProperties, UnsentIsRest DEF Conns, Unsent, Sent
  <1>. HIDE DEF b, k, u, rest
  <1>2. \A i \in 1 .. Len(b) : b[i] \in Units
    BY <1>1, ElementOfSeq
  <1>3. /\ n \in 1 .. Len(b) - k /\ k + 1 \in 1 .. Len(b) /\ Len(b) \in 1 .. Len(b)
        /\ 1 \in 1 .. Len(b) - (k + 1) + 1 /\ n \in 1 .. Len(b) - (k + 1) + 1
        /\ (k + 1) + 1 - 1 = k + 1 /\ (k + 1) + n - 1 = k + n
        /\ k + 1 \in 1 .. Len(b) + 1 /\ k + n \in k + 1 - 1 .. Len(b)
        /\ Len(b) \in k + n .. Len(b)
    BY <1>1 DEF u
  <1>4. u \in Seq(Units) /\ rest \in Seq(Units)
    <2>1. /\ \A i \in k + 1 .. Len(b) : b[i] \in Units
          /\ \A i \in k + n + 1 .. Len(b) : b[i] \in Units
          /\ k + 1 \in Int /\ k + n + 1 \in Int /\ Len(b) \in Int
      BY <1>1, <1>2, <1>3
    <2>2. SubSeq(b, k + 1, Len(b)) \in Seq(Units)
      BY <2>1, SubSeqProperties
    <2>3. SubSeq(b, k + n + 1, Len(b)) \in Seq(Units)
      BY <2>1, SubSeqProperties
    <2>. QED
      BY <1>1, <2>2, <2>3
  <1>5. SubSeq(u, 1, n) = SubSeq(b, k + 1, k + n)
    <2>1. SubSeq(SubSeq(b, k + 1, Len(b)), 1, n)
            = SubSeq(b, (k + 1) + 1 - 1, (k + 1) + n - 1)
      BY <1>1, <1>3, SubSeqOfSubSeq
    <2>. QED
      BY <1>1, <1>3, <2>1
  <1>6. SubSeq(b, k + 1, k + n) \o SubSeq(b, k + n + 1, Len(b)) = SubSeq(b, k + 1, Len(b))
    BY <1>1, <1>3, ConcatAdjacentSubSeq
  <1>7. SubSeq(u, 1, n) \in Seq(Units) /\ SubSeq(u, 1, n) # <<>>
    <2>1. \A i \in 1 .. n : u[i] \in Units
      BY <1>4, ElementOfSeq DEF u
    <2>2. SubSeq(u, 1, n) \in Seq(Units) /\ Len(SubSeq(u, 1, n)) = n
      BY <1>3, <2>1, SubSeqProperties
    <2>3. Len(<<>>) = 0 /\ n # 0
      BY <1>1, <1>3
    <2>4. SubSeq(u, 1, n) # <<>>
      BY <2>2, <2>3
    <2>. QED
      BY <2>2, <2>4
  <1>. QED
    BY <1>1, <1>4, <1>5, <1>6, <1>7 DEF u, rest

\* A file, as far as the socket had room for it, followed by its head.
LEMMA FileAnswers ==
  ASSUME NEW c \in Clients, NEW room \in Nat
  PROVE  /\ FileSent(c, room) \in Seq(Units)
         /\ FileHead(c) \in Seq(Units) /\ FileHead(c) # <<>>
         /\ FileSent(c, room) \o FileHead(c) \in AnswersOf(c)
  <1>. DEFINE m == Min({room, 2})
  <1>1. m \in {room, 2} /\ m <= room /\ m <= 2
    BY MinOfTwo
  <1>2. m \in 0 .. 2
    BY <1>1
  <1>3. Min({m, 2}) = m
    <2>. HIDE DEF m
    <2>1. Min({m, 2}) \in {m, 2} /\ Min({m, 2}) <= m
      BY <1>2, MinOfTwo
    <2>. QED
      BY <1>2, <2>1
  <1>4. FileSent(c, room) = [i \in 1 .. m |-> Unit(c, "file")]
    BY DEF FileSent
  <1>5. FileSent(c, m) = [i \in 1 .. m |-> Unit(c, "file")]
    BY <1>3 DEF FileSent
  <1>6. Unit(c, "file") \in Units
    BY DEF Unit, Units
  <1>. HIDE DEF m
  <1>7. FileSent(c, room) \in Seq(Units)
    BY <1>2, <1>4, <1>6
  <1>8. FileHead(c) \in Seq(Units) /\ FileHead(c) # <<>>
    BY AnswersAreOwn DEF FileHead
  <1>9. FileSent(c, room) \o FileHead(c) \in AnswersOf(c)
    BY <1>2, <1>4, <1>5 DEF AnswersOf
  <1>. QED
    BY <1>7, <1>8, <1>9

-----------------------------------------------------------------------------
LEMMA InitServiceInv == Init => SInv
  <1>. SUFFICES ASSUME Init PROVE SInv
    OBVIOUS
  <1>1. OwnerInv
    BY DEF Init, OwnerInv
  <1>2. AnswerInv
    BY DEF Init, AnswerInv
  <1>. QED
    BY <1>1, <1>2 DEF SInv

\* A client that has left stays so, and only Hangup speaks of those that have.
LEMMA SteadyKeeps ==
  ASSUME IInv, SInv, UNCHANGED <<link, backlog, owner, wire, interest, connMap>>,
         batch' \subseteq batch,
         \A c \in Clients : broken[c] # "no" => broken'[c] # "no"
  PROVE  SInv'
  <1>. USE DEF SInv
  <1>1. \A e \in batch : e.what = "hup" => owner[e.fd] \in Clients
    BY DEF IInv, TypeOK, MapsAgree
  <1>2. OwnerInv'
    BY <1>1 DEF OwnerInv
  <1>3. AnswerInv'
    BY DEF AnswerInv
  <1>. QED
    BY <1>2, <1>3

LEMMA BrokenStays ==
  ASSUME IInv, [Next]_vars
  PROVE  \A c \in Clients : broken[c] # "no" => broken'[c] # "no"
  <1>. USE DEF IInv, TypeOK
  <1>. DEFINE Changes ==
         \/ broken' = broken
         \/ \E c : broken' = [broken EXCEPT ![c] = IF @ = "reset" THEN "pipe" ELSE @]
         \/ \E c : broken' = [broken EXCEPT ![c] = IF c \in ended THEN "pipe" ELSE "reset"]
  <1>1. Changes
    <2>. USE DEF clients, kernel, server, Refuse, Reply
    <2>1. ASSUME NEW c \in Clients, Client(c) PROVE Changes
      BY <2>1 DEF Client, Connect, Finish, Reset, Drain, Deliver
    <2>2. CASE \/ Wait \/ \E e \in batch : Take(e) \/ Hangup(e)
               \/ Accept \/ AddChannel \/ AcceptFails \/ WriteDone
      BY <2>2 DEF Wait, Take, Hangup, Accept, AddChannel, AcceptFails, WriteDone
    <2>3. CASE Read(owner[cur])
      BY <2>3 DEF Read, ReadHeader, ReadOn, ReadShort, ReadResidue, ReadEnd,
                  ReadError, ReadAgain
    <2>4. CASE Dispatch(owner[cur])
      BY <2>4 DEF Dispatch, DispatchBad, DispatchUnknown, DispatchGet,
                  DispatchPost, DispatchFile
    <2>5. CASE WriteSome(owner[cur]) \/ WriteFails(owner[cur]) \/ BrokenPipe(owner[cur])
      BY <2>5 DEF WriteSome, WriteFails, BrokenPipe
    <2>6. CASE UNCHANGED vars
      BY <2>6 DEF vars
    <2>. QED
      BY <2>1, <2>2, <2>3, <2>4, <2>5, <2>6 DEF Next, Server, Handle
  <1>. QED
    BY <1>1

\* What no client can see.
LEMMA Unseen ==
  ASSUME UNCHANGED <<link, wire>>,
         {c \in Clients : broken'[c] # "no"} = {c \in Clients : broken[c] # "no"}
  PROVE  UNCHANGED Service!vars
  BY DEF Service!vars, Phase

-----------------------------------------------------------------------------
(***************************************************************************)
(* The clients.                                                            *)
(***************************************************************************)
LEMMA ClientServes ==
  ASSUME IInv, SInv, NEW c \in Clients, Client(c)
  PROVE  SInv' /\ (Service!Next \/ UNCHANGED Service!vars)
  <1>. USE DEF server
  <1>0. \A d \in Clients : broken[d] # "no" => broken'[d] # "no"
    BY BrokenStays DEF Next
  <1>1. CASE Connect(c)
    <2>1. link'[c] = "backlog" /\ \A d \in Clients : d # c => link'[d] = link[d]
      BY <1>1 DEF Connect, IInv, TypeOK
    <2>2. /\ backlog \in Seq(Clients) /\ Len(backlog) \in Nat
          /\ Len(backlog') = Len(backlog) + 1
          /\ \A i \in 1 .. Len(backlog) : backlog'[i] = backlog[i] /\ backlog[i] \in Clients
          /\ backlog'[Len(backlog) + 1] = c
      BY <1>1, AppendProperties, LenProperties, ElementOfSeq DEF Connect, IInv, TypeOK
    <2>3. \A i \in 1 .. Len(backlog) : backlog[i] # c
      BY <1>1, <2>2 DEF Connect, SInv, OwnerInv
    <2>4. OwnerInv'
      <3>1. \A i \in DOMAIN backlog' : i \in 1 .. Len(backlog) \/ i = Len(backlog) + 1
        BY <1>1, <2>2, AppendProperties DEF Connect
      <3>2. DOMAIN backlog = 1 .. Len(backlog)
        BY <2>2, LenProperties
      <3>3. \A fd \in Fds : owner[fd] # NoOne => owner[fd] # c /\ owner[fd] \in Clients
        BY <1>1 DEF Connect, SInv, OwnerInv, IInv, TypeOK
      <3>4. /\ \A i, j \in DOMAIN backlog' : backlog'[i] = backlog'[j] => i = j
            /\ \A i \in DOMAIN backlog' : link'[backlog'[i]] = "backlog"
        BY <2>1, <2>2, <2>3, <3>1, <3>2 DEF SInv, OwnerInv
      <3>. QED
        BY <1>1, <2>1, <3>3, <3>4 DEF Connect, SInv, OwnerInv
    <2>5. AnswerInv'
      BY <1>1, <2>1 DEF Connect, SInv, AnswerInv
    <2>6. \A d \in Clients : Phase(d)' = Phase(d)
      BY <1>1, <2>1 DEF Connect, Phase
    <2>7. UNCHANGED Service!vars
      BY <1>1, <2>6 DEF Connect, Service!vars
    <2>. QED
      BY <2>4, <2>5, <2>7 DEF SInv
  <1>2. CASE Finish(c) \/ Drain(c) \/ \E n \in 1 .. Len(plan[c]) : Deliver(c, n)
    <2>1. /\ UNCHANGED <<link, backlog, owner, wire, interest, connMap, batch, broken>>
      BY <1>2 DEF Finish, Drain, Deliver
    <2>. QED
      BY <1>0, <2>1, SteadyKeeps, Unseen
  <1>3. CASE Reset(c)
    <2>1. UNCHANGED <<link, backlog, owner, wire, interest, connMap, batch>>
      BY <1>3 DEF Reset
    <2>2. /\ broken[c] = "no" /\ broken'[c] # "no"
          /\ \A d \in Clients : d # c => broken'[d] = broken[d]
      BY <1>3 DEF Reset, IInv, TypeOK
    <2>3. Service!Leave(c)
      BY <2>1, <2>2 DEF Service!Leave, Phase
    <2>. QED
      BY <1>0, <2>1, <2>3, SteadyKeeps DEF Service!Next
  <1>. QED
    BY <1>1, <1>2, <1>3 DEF Client

-----------------------------------------------------------------------------
(***************************************************************************)
(* Closing, the only way a connection ends: with nothing written, with the *)
(* whole answer, or when the client has left.                              *)
(***************************************************************************)
LEMMA CloseServes ==
  ASSUME IInv, SInv, NEW fd \in channelMap, CloseChannel(fd),
         \A d \in Fds : d # fd => connMap'[d] = connMap[d],
         batch' \subseteq batch, \A e \in batch' : e.fd # fd,
         UNCHANGED <<wire, broken, backlog>>,
         \/ wire[owner[fd]] \in {<<>>} \union AnswersOf(owner[fd])
         \/ broken[owner[fd]] # "no"
  PROVE  SInv' /\ Service!Next
  <1>. DEFINE c == owner[fd]
  <1>1. /\ fd \in Fds /\ c \in Clients /\ c # NoOne /\ link[c] = "open"
        /\ \A d \in Fds : d # fd => owner[d] # c
    BY DEF IInv, TypeOK, MapsAgree, SInv, OwnerInv
  <1>2. /\ link'[c] = "closed" /\ \A d \in Clients : d # c => link'[d] = link[d]
        /\ owner'[fd] = NoOne /\ \A d \in Fds : d # fd => owner'[d] = owner[d]
        /\ \A d \in Fds : d # fd => interest'[d] = interest[d]
        /\ \A d \in Fds : owner[d] \in Clients \union {NoOne}
        /\ \A i \in DOMAIN backlog : backlog[i] \in Clients
        /\ \A e \in batch : e.what = "hup" => e.fd \in Fds
    BY <1>1, ElementOfSeq DEF CloseChannel, IInv, TypeOK, MapsAgree
  <1>. HIDE DEF c
  <1>3. OwnerInv'
    BY <1>1, <1>2 DEF SInv, OwnerInv
  <1>4. AnswerInv'
    BY <1>1, <1>2 DEF SInv, AnswerInv
  <1>5. Service!Close(c)
    <2>1. wire[c] = <<>> \/ wire[c] \in AnswersOf(c) \/ broken[c] # "no"
      BY DEF c
    <2>2. \A d \in Clients : Phase(d)' = IF d = c THEN "closed" ELSE Phase(d)
      BY <1>2 DEF Phase
    <2>3. Phase(c) = "open"
      BY <1>1 DEF Phase
    <2>. QED
      BY <1>1, <2>1, <2>2, <2>3 DEF Service!Close
  <1>. QED
    BY <1>1, <1>3, <1>4, <1>5 DEF SInv, Service!Next

LEMMA HangupServes ==
  ASSUME IInv, SInv, NEW e \in batch, Hangup(e) PROVE SInv' /\ Service!Next
  <1>1. /\ e.fd \in channelMap /\ \A f \in batch' : f.fd # e.fd
        /\ batch' \subseteq batch
    BY DEF Hangup, IInv, MapsAgree, LoopInv
  <1>2. broken[owner[e.fd]] # "no"
    BY DEF Hangup, SInv, OwnerInv
  <1>3. \A d \in Fds : d # e.fd => connMap'[d] = connMap[d]
    BY DEF Hangup, OnClose, IInv, TypeOK
  <1>. QED
    BY <1>1, <1>2, <1>3, CloseServes DEF Hangup

LEMMA RefuseServes ==
  ASSUME IInv, SInv, pc \in {"read", "dispatch"}, CloseChannel(cur),
         OnClose(cur) \/ connMap' = connMap,
         UNCHANGED <<wire, broken, backlog, batch>>
  PROVE  SInv' /\ Service!Next
  <1>1. wire[owner[cur]] = <<>>
    BY CurIsIdle, PollAssumption DEF SInv, AnswerInv, PollAssumption
  <1>2. \A d \in Fds : d # cur => connMap'[d] = connMap[d]
    BY DEF OnClose, IInv, TypeOK
  <1>. QED
    BY <1>1, <1>2, CurIsIdle, CloseServes

LEMMA WriteDoneServes ==
  ASSUME IInv, SInv, WriteDone PROVE SInv' /\ Service!Next
  <1>. DEFINE c == owner[cur]
  <1>1. /\ cur \in channelMap /\ cur \in Fds /\ c \in Clients /\ c # NoOne
        /\ \A e \in batch : e.fd # cur
    BY CurIsOpen, PollAssumption DEF WriteDone, PollAssumption
  <1>2. wire[c] \in {<<>>} \union AnswersOf(c)
    <2>1. wire[c] \in Seq(Units)
      BY <1>1 DEF SInv, AnswerInv
    <2>2. CASE interest[cur] = "out"
      <3>1. wire[c] \o <<>> \in {<<>>} \union AnswersOf(c)
        BY <1>1, <2>2 DEF SInv, AnswerInv, WriteDone
      <3>. QED
        BY <2>1, <3>1, ConcatEmptySeq
    <2>3. CASE interest[cur] # "out"
      BY <1>1, <2>3 DEF SInv, AnswerInv
    <2>. QED
      BY <2>2, <2>3
  <1>. QED
    BY <1>1, <1>2, CloseServes DEF WriteDone

-----------------------------------------------------------------------------
(***************************************************************************)
(* The loop and the accept loop.                                           *)
(***************************************************************************)
LEMMA WaitServes ==
  ASSUME IInv, SInv, Wait PROVE SInv' /\ UNCHANGED Service!vars
  <1>. USE DEF Wait, clients
  <1>1. \A e \in Reported : e.what = "hup" => broken[owner[e.fd]] # "no"
    <2>1. \A fd \in armed : fd \in Fds /\ interest[fd] \in {"none", "in", "out"}
      BY DEF IInv, TypeOK
    <2>2. \A fd \in armed : Event(fd).what = "hup" => broken[owner[fd]] # "no"
      BY <2>1 DEF Event
    <2>3. \A fd \in armed : Event(fd).fd = fd
      BY DEF Event
    <2>. QED
      BY <2>2, <2>3 DEF Reported
  <1>2. OwnerInv' /\ AnswerInv'
    BY <1>1 DEF SInv, OwnerInv, AnswerInv
  <1>. QED
    BY <1>2, Unseen DEF SInv

LEMMA AcceptServes ==
  ASSUME IInv, SInv, Accept PROVE SInv' /\ Service!Next
  <1>. DEFINE c == Head(backlog)
  <1>1. PICK fd \in FreeFds : /\ owner' = [owner EXCEPT ![fd] = c]
                              /\ OnAccept(fd)
    BY DEF Accept
  <1>2. /\ backlog \in Seq(Clients) /\ backlog # <<>> /\ Len(backlog) \in Nat
        /\ Len(backlog) # 0 /\ DOMAIN backlog = 1 .. Len(backlog)
    BY LenProperties, EmptySeq DEF IInv, TypeOK, Accept
  <1>3. /\ c \in Clients /\ c = backlog[1]
        /\ backlog' = Tail(backlog) /\ Tail(backlog) \in Seq(Clients)
        /\ Len(Tail(backlog)) = Len(backlog) - 1
        /\ \A i \in 1 .. Len(Tail(backlog)) : Tail(backlog)[i] = backlog[i + 1]
    BY <1>2, HeadTailProperties DEF Accept
  <1>4. /\ fd \in Fds /\ owner[fd] = NoOne /\ interest[fd] = "none"
    BY FdsAre DEF FreeFds, IInv, TypeOK, MapsAgree, WatchInv
  <1>5. /\ link[c] = "backlog" /\ link'[c] = "open"
        /\ \A d \in Clients : d # c => link'[d] = link[d]
    <2>1. /\ DOMAIN link = Clients /\ link' = [link EXCEPT ![c] = "open"]
          /\ link \in [Clients -> {"new", "backlog", "open", "closed"}]
      BY DEF Accept, IInv, TypeOK
    <2>. HIDE DEF c
    <2>2. 1 \in DOMAIN backlog
      BY <1>2
    <2>3. link[backlog[1]] = "backlog"
      BY <2>2 DEF SInv, OwnerInv
    <2>4. link[c] = "backlog"
      BY <1>3, <2>3
    <2>. QED
      BY <1>3, <2>1, <2>4
  <1>6. /\ owner'[fd] = c /\ \A d \in Fds : d # fd => owner'[d] = owner[d]
        /\ \A d \in Fds : d # fd => connMap'[d] = connMap[d]
        /\ UNCHANGED <<wire, broken, interest, batch>>
        /\ \A d \in Fds : owner[d] # NoOne => owner[d] \in Clients /\ owner[d] # c
        /\ \A e \in batch : e.what = "hup" => e.fd \in Fds /\ e.fd # fd
    BY <1>1, <1>4, <1>5 DEF Accept, OnAccept, IInv, TypeOK, MapsAgree, SInv, OwnerInv
  <1>. HIDE DEF c
  <1>7. OwnerInv'
    <2>1. DOMAIN backlog' = 1 .. Len(backlog) - 1
      BY <1>3, LenProperties
    <2>2. \A i \in DOMAIN backlog' : /\ i + 1 \in DOMAIN backlog
                                     /\ backlog'[i] = backlog[i + 1]
                                     /\ backlog'[i] \in Clients
                                     /\ backlog'[i] # c
      BY <1>2, <1>3, <2>1, ElementOfSeq DEF SInv, OwnerInv
    <2>3. /\ \A i, j \in DOMAIN backlog' : backlog'[i] = backlog'[j] => i = j
          /\ \A i \in DOMAIN backlog' : link'[backlog'[i]] = "backlog"
      BY <1>5, <2>1, <2>2 DEF SInv, OwnerInv
    <2>. QED
      BY <1>3, <1>4, <1>5, <1>6, <2>3 DEF SInv, OwnerInv
  <1>8. AnswerInv'
    BY <1>3, <1>4, <1>5, <1>6 DEF SInv, AnswerInv
  <1>9. Service!Open(c)
    <2>1. \A d \in Clients : Phase(d)' = IF d = c THEN "open" ELSE Phase(d)
      BY <1>5 DEF Phase
    <2>2. Phase(c) = "waiting"
      BY <1>5 DEF Phase
    <2>. QED
      BY <1>3, <1>6, <2>1, <2>2 DEF Service!Open
  <1>. QED
    BY <1>3, <1>7, <1>8, <1>9 DEF SInv, Service!Next

\* What a descriptor waits for changes, and nothing was or will be written.
LEMMA IdleServes ==
  ASSUME IInv, SInv, pc \in {"add", "read"}, NEW what \in {"in", "out"},
         what = "out" => pc = "read", Watch(cur, what),
         UNCHANGED <<link, backlog, owner, wire, connMap, batch, broken>>
  PROVE  SInv' /\ UNCHANGED Service!vars
  <1>1. OwnerInv'
    BY DEF SInv, OwnerInv
  <1>2. /\ cur \in Fds /\ interest[cur] # "out" /\ owner[cur] \in Clients
        /\ owner[cur] # NoOne
    BY CurIsIdle, PollAssumption DEF IInv, TypeOK, LoopInv, PollAssumption
  <1>3. wire[owner[cur]] = <<>>
    BY <1>2 DEF SInv, AnswerInv
  <1>4. what = "out" => wire[owner[cur]] \o Unsent(connMap[cur]) = <<>>
    <2>1. ASSUME pc = "read" PROVE Unsent(connMap[cur]) = <<>>
      <3>1. /\ connMap[cur] \in Conns /\ connMap[cur].sent \in Nat
            /\ connMap[cur].sent = Len(connMap[cur].buf)
        BY <1>2, <2>1, CurIsIdle DEF IInv, TypeOK
      <3>. QED
        BY <3>1, UnsentIsRest
    <2>. QED
      BY <1>3, <2>1
  <1>5. AnswerInv'
    <2>1. interest'[cur] = what /\ \A d \in Fds : d # cur => interest'[d] = interest[d]
      BY <1>2 DEF Watch, IInv, TypeOK
    <2>. QED
      BY <1>2, <1>3, <1>4, <2>1 DEF SInv, AnswerInv
  <1>. QED
    BY <1>1, <1>5, Unseen DEF SInv

-----------------------------------------------------------------------------
(***************************************************************************)
(* Answering: what is written at once and what is buffered are an answer   *)
(* of the client of the descriptor.                                        *)
(***************************************************************************)
LEMMA ReplyServes ==
  ASSUME IInv, SInv, pc = "dispatch", NEW c, c = owner[cur],
         NEW now \in Seq(Units), NEW answer \in Seq(Units), answer # <<>>,
         now \o answer \in AnswersOf(c),
         Reply(answer), wire' = [wire EXCEPT ![c] = @ \o now],
         {d \in Clients : broken'[d] # "no"} = {d \in Clients : broken[d] # "no"}
  PROVE  SInv' /\ (Service!Next \/ UNCHANGED Service!vars)
  <1>1. /\ cur \in Fds /\ c \in Clients /\ c # NoOne /\ interest[cur] = "in"
        /\ connMap[cur] \in Conns /\ connMap[cur].sent = Len(connMap[cur].buf)
        /\ link[c] = "open"
    BY CurIsIdle, PollAssumption DEF IInv, TypeOK, PollAssumption, SInv, OwnerInv
  <1>2. wire \in [Clients -> Seq(Units)] /\ wire[c] = <<>>
    BY <1>1 DEF SInv, AnswerInv
  <1>3. wire'[c] = now /\ \A d \in Clients : d # c => wire'[d] = wire[d]
    BY <1>1, <1>2, ConcatEmptySeq
  <1>4. /\ UNCHANGED <<link, backlog, owner, batch>>
        /\ interest'[cur] = "out" /\ \A d \in Fds : d # cur => interest'[d] = interest[d]
        /\ connMap'[cur] = Buffered(connMap[cur], answer)
        /\ \A d \in Fds : d # cur => connMap'[d] = connMap[d]
    BY <1>1 DEF Reply, Watch, IInv, TypeOK
  <1>5. Unsent(connMap'[cur]) = answer
    BY <1>1, <1>4, UnsentOfBuffered
  <1>6. OwnerInv'
    <2>1. \A e \in batch : e.what = "hup" => owner[e.fd] \in Clients
      BY DEF IInv, TypeOK, MapsAgree
    <2>. QED
      BY <1>4, <2>1 DEF SInv, OwnerInv
  <1>7. AnswerInv'
    <2>1. wire' \in [Clients -> Seq(Units)]
      BY <1>1, <1>2, <1>3
    <2>2. \A fd \in Fds : owner[fd] # NoOne /\ fd # cur => owner[fd] \in Clients /\ owner[fd] # c
      BY <1>1 DEF IInv, TypeOK, SInv, OwnerInv
    <2>3. \A d \in Clients : link'[d] \notin {"open", "closed"} => wire'[d] = <<>>
      BY <1>1, <1>3, <1>4 DEF SInv, AnswerInv
    <2>4. wire'[c] \o Unsent(connMap'[cur]) \in AnswersOf(c)
      BY <1>3, <1>5
    <2>5. /\ interest'[cur] # "out" => wire'[owner'[cur]] = <<>>
          /\ interest'[cur] = "out" =>
               wire'[owner'[cur]] \o Unsent(connMap'[cur]) \in {<<>>} \union AnswersOf(owner'[cur])
      BY <1>4, <2>4
    <2>6. ASSUME NEW fd \in Fds, owner'[fd] # NoOne, fd # cur
          PROVE  /\ interest'[fd] # "out" => wire'[owner'[fd]] = <<>>
                 /\ interest'[fd] = "out" =>
                      wire'[owner'[fd]] \o Unsent(connMap'[fd]) \in {<<>>} \union AnswersOf(owner'[fd])
      <3>1. /\ owner'[fd] = owner[fd] /\ interest'[fd] = interest[fd]
            /\ connMap'[fd] = connMap[fd]
        BY <1>4, <2>6
      <3>2. wire'[owner[fd]] = wire[owner[fd]]
        BY <1>3, <2>2, <2>6, <3>1
      <3>. QED
        BY <2>6, <3>1, <3>2 DEF SInv, AnswerInv
    <2>. QED
      BY <2>1, <2>3, <2>5, <2>6 DEF AnswerInv
  <1>8. CASE now = <<>>
    <2>1. wire' = wire
      BY <1>1, <1>2, <1>3, <1>8
    <2>. QED
      BY <1>4, <1>6, <1>7, <2>1, Unseen DEF SInv
  <1>9. CASE now # <<>>
    <2>1. Service!IsStrictPrefix(wire[c], wire'[c])
      <3>1. IsPrefix(<<>>, <<>> \o now) /\ <<>> \o now = now
        BY ConcatContinues, ConcatEmptySeq, EmptySeq
      <3>. QED
        BY <1>2, <1>3, <1>9, <3>1
           DEF IsPrefix, Service!IsStrictPrefix, Service!IsPrefix
    <2>2. \E a \in [d \in Clients |-> AnswersOf(d)][c] : Service!IsPrefix(wire'[c], a)
      <3>1. IsPrefix(now, now \o answer)
        BY ConcatContinues
      <3>. QED
        BY <1>1, <1>3, <3>1 DEF IsPrefix, Service!IsPrefix
    <2>3. /\ [d \in Clients |-> Phase(d)][c] = "open"
          /\ UNCHANGED [d \in Clients |-> Phase(d)]
      BY <1>1, <1>4 DEF Phase
    <2>4. wire' = [d \in Clients |-> IF d = c THEN wire'[c] ELSE wire[d]]
      BY <1>1, <1>2
    <2>5. Service!Send(c)
      BY <2>1, <2>2, <2>3, <2>4 DEF Service!Send
    <2>. QED
      BY <1>1, <1>6, <1>7, <2>5 DEF SInv, Service!Next
  <1>. QED
    BY <1>8, <1>9

LEMMA DispatchServes ==
  ASSUME IInv, SInv, NEW c, c = owner[cur], Dispatch(c)
  PROVE  SInv' /\ (Service!Next \/ UNCHANGED Service!vars)
  <1>. USE DEF clients, kernel
  <1>1. pc = "dispatch"
    BY DEF Dispatch, DispatchBad, DispatchUnknown, DispatchGet, DispatchPost, DispatchFile
  <1>2. c \in Clients /\ wire \in [Clients -> Seq(Units)]
    BY <1>1, CurIsIdle DEF SInv, AnswerInv
  <1>3. CASE DispatchBad(c)
    BY <1>1, <1>3, RefuseServes DEF DispatchBad, Refuse
  <1>4. CASE DispatchUnknown(c)
    BY <1>4, SteadyKeeps, Unseen DEF DispatchUnknown
  <1>5. ASSUME NEW status \in {"200", "400"}, Reply(Answer(c, status)),
               UNCHANGED <<broken, wire>>
        PROVE  SInv' /\ (Service!Next \/ UNCHANGED Service!vars)
    <2>1. /\ <<>> \in Seq(Units) /\ Answer(c, status) \in Seq(Units)
          /\ Answer(c, status) # <<>>
      BY <1>2, AnswersAreOwn, EmptySeq DEF Answer
    <2>2. <<>> \o Answer(c, status) \in AnswersOf(c)
      BY <2>1, ConcatEmptySeq DEF AnswersOf
    <2>3. wire' = [wire EXCEPT ![c] = @ \o <<>>]
      BY <1>2, <1>5, ConcatEmptySeq
    <2>. QED
      BY <1>1, <1>5, <2>1, <2>2, <2>3, ReplyServes
  <1>6. CASE DispatchGet(c)
    BY <1>5, <1>6 DEF DispatchGet
  <1>7. CASE DispatchPost(c)
    <2>. DEFINE status == IF BodyComplete(buff, chunk, inbox[c]) THEN "200" ELSE "400"
    <2>1. status \in {"200", "400"}
      OBVIOUS
    <2>2. Reply(Answer(c, status)) /\ UNCHANGED <<broken, wire>>
      BY <1>7 DEF DispatchPost
    <2>. HIDE DEF status
    <2>. QED
      BY <1>5, <2>1, <2>2
  <1>8. CASE DispatchFile(c)
    <2>. DEFINE room == IF broken[c] = "no" THEN Room - unread[c] ELSE 0
                now == IF broken[c] = "no" THEN FileSent(c, Room - unread[c]) ELSE <<>>
    <2>1. room \in Nat
      BY <1>2, PollAssumption DEF IInv, TypeOK, PollAssumption
    <2>2. now = FileSent(c, room)
      <3>1. ASSUME broken[c] # "no" PROVE FileSent(c, 0) = <<>>
        <4>1. Min({0, 2}) \in {0, 2} /\ Min({0, 2}) <= 0
          BY MinOfTwo
        <4>2. Min({0, 2}) = 0
          BY <4>1
        <4>. QED
          BY <4>2 DEF FileSent
      <3>. QED
        BY <3>1
    <2>3. /\ Reply(FileHead(c)) /\ wire' = [wire EXCEPT ![c] = @ \o now]
          /\ broken' = [broken EXCEPT ![c] = IF @ = "reset" THEN "pipe" ELSE @]
      BY <1>8 DEF DispatchFile
    <2>4. \A d \in Clients : broken'[d] # "no" <=> broken[d] # "no"
      BY <2>3 DEF IInv, TypeOK
    <2>. HIDE DEF room, now
    <2>5. /\ now \in Seq(Units) /\ FileHead(c) \in Seq(Units) /\ FileHead(c) # <<>>
          /\ now \o FileHead(c) \in AnswersOf(c)
      BY <1>2, <2>1, <2>2, FileAnswers
    <2>. QED
      BY <1>1, <2>3, <2>4, <2>5, ReplyServes
  <1>. QED
    BY <1>3, <1>4, <1>6, <1>7, <1>8 DEF Dispatch

LEMMA ReadServes ==
  ASSUME IInv, SInv, NEW c, c = owner[cur], Read(c)
  PROVE  SInv' /\ (Service!Next \/ UNCHANGED Service!vars)
  <1>. USE DEF Reads, clients, kernel
  <1>1. CASE ReadHeader(c) \/ ReadOn(c) \/ ReadResidue(c)
    BY <1>1, SteadyKeeps, Unseen DEF ReadHeader, ReadOn, ReadResidue
  <1>2. CASE ReadShort(c)
    BY <1>2, RefuseServes DEF ReadShort, Refuse
  <1>3. CASE ReadEnd(c)
    BY <1>3, RefuseServes DEF ReadEnd, Refuse
  <1>4. CASE ReadError(c)
    BY <1>4, RefuseServes DEF ReadError
  <1>5. CASE ReadAgain(c)
    BY <1>5, IdleServes DEF ReadAgain
  <1>. QED
    BY <1>1, <1>2, <1>3, <1>4, <1>5 DEF Read

-----------------------------------------------------------------------------
(***************************************************************************)
(* Writing goes on with the answer.                                        *)
(***************************************************************************)
LEMMA WriteSomeServes ==
  ASSUME IInv, SInv, NEW c, c = owner[cur], WriteSome(c)
  PROVE  SInv' /\ Service!Next
  <1>. DEFINE left == Unsent(connMap[cur])
              n == Min({Room - unread[c], Len(left)})
              part == SubSeq(left, 1, n)
              after == Unsent(connMap'[cur])
  <1>1. /\ cur \in Fds /\ c \in Clients /\ c # NoOne /\ connMap[cur] \in Conns
        /\ connMap[cur].sent \in 0 .. Len(connMap[cur].buf)
        /\ link[c] = "open" /\ left # <<>>
    BY CurIsOpen, PollAssumption DEF WriteSome, PollAssumption, SInv, OwnerInv
  <1>2. /\ Len(left) = Len(connMap[cur].buf) - connMap[cur].sent
        /\ Len(connMap[cur].buf) \in Nat
        /\ connMap[cur].sent # Len(connMap[cur].buf)
    BY <1>1, UnsentIsRest
  <1>3. interest[cur] = "out"
    BY <1>1, <1>2, CurIsOpen DEF IInv, ConnInv, WriteSome
  <1>4. n \in 1 .. Len(left)
    <2>1. /\ Room - unread[c] \in Int /\ Room - unread[c] > 0
          /\ Len(left) \in Int /\ Len(left) > 0
      BY <1>1, <1>2, PollAssumption DEF IInv, TypeOK, WriteSome, PollAssumption
    <2>. HIDE DEF left
    <2>2. n \in {Room - unread[c], Len(left)} /\ n <= Len(left)
      BY <2>1, MinOfTwo
    <2>. HIDE DEF n
    <2>. QED
      BY <2>1, <2>2
  <1>5. /\ UNCHANGED <<link, backlog, owner, batch, broken, interest>>
        /\ wire' = [wire EXCEPT ![c] = @ \o part]
        /\ connMap' = [connMap EXCEPT ![cur] = Sent(@, n)]
    BY DEF WriteSome, kernel
  <1>6. wire \in [Clients -> Seq(Units)]
    BY DEF SInv, AnswerInv
  <1>7. /\ wire'[c] = wire[c] \o part /\ \A d \in Clients : d # c => wire'[d] = wire[d]
        /\ connMap'[cur] = Sent(connMap[cur], n)
        /\ \A d \in Fds : d # cur => connMap'[d] = connMap[d]
    <2>. HIDE DEF part, n
    <2>1. connMap \in [Fds -> Conns]
      BY DEF IInv, TypeOK
    <2>. QED
      BY <1>1, <1>5, <1>6, <2>1
  <1>8. /\ left \in Seq(Units) /\ part \in Seq(Units) /\ part # <<>>
        /\ after \in Seq(Units) /\ left = part \o after
    <2>. HIDE DEF n
    <2>. QED
      BY <1>1, <1>4, <1>7, WriteMoves
  <1>. HIDE DEF left, n, part, after
  <1>9. wire'[c] \o after = wire[c] \o left
    <2>1. wire[c] \in Seq(Units)
      BY <1>1, <1>6
    <2>2. \A s, t, u \in Seq(Units) : (s \o t) \o u = s \o (t \o u)
      BY ConcatAssociative
    <2>3. (wire[c] \o part) \o after = wire[c] \o (part \o after)
      BY <1>8, <2>1, <2>2
    <2>. QED
      BY <1>7, <1>8, <2>3
  <1>10. wire[c] \o left \in AnswersOf(c)
    <2>1. wire[c] \o left \in {<<>>} \union AnswersOf(c)
      BY <1>1, <1>3 DEF SInv, AnswerInv, left
    <2>2. wire[c] \o left # <<>>
      BY <1>1, <1>6, <1>8, ConcatContinues
    <2>. QED
      BY <2>1, <2>2
  <1>11. wire'[c] \in Seq(Units) /\ wire' \in [Clients -> Seq(Units)]
    <2>1. wire'[c] \in Seq(Units)
      BY <1>1, <1>6, <1>7, <1>8, ConcatProperties
    <2>. QED
      BY <1>1, <1>5, <1>6, <1>7, <2>1
  <1>12. OwnerInv'
    <2>1. \A e \in batch : e.what = "hup" => owner[e.fd] \in Clients
      BY DEF IInv, TypeOK, MapsAgree
    <2>. QED
      BY <1>5, <2>1 DEF SInv, OwnerInv
  <1>13. AnswerInv'
    <2>1. \A fd \in Fds : owner[fd] # NoOne /\ fd # cur => owner[fd] \in Clients /\ owner[fd] # c
      BY <1>1 DEF IInv, TypeOK, SInv, OwnerInv
    <2>2. \A d \in Clients : link'[d] \notin {"open", "closed"} => wire'[d] = <<>>
      BY <1>1, <1>5, <1>7 DEF SInv, AnswerInv
    <2>3. /\ interest'[cur] = "out" /\ owner'[cur] = c
          /\ wire'[c] \o Unsent(connMap'[cur]) \in {<<>>} \union AnswersOf(c)
      BY <1>3, <1>5, <1>9, <1>10 DEF after
    <2>4. ASSUME NEW fd \in Fds, owner'[fd] # NoOne, fd # cur
          PROVE  /\ interest'[fd] # "out" => wire'[owner'[fd]] = <<>>
                 /\ interest'[fd] = "out" =>
                      wire'[owner'[fd]] \o Unsent(connMap'[fd]) \in {<<>>} \union AnswersOf(owner'[fd])
      <3>1. /\ owner'[fd] = owner[fd] /\ interest'[fd] = interest[fd]
            /\ connMap'[fd] = connMap[fd]
        BY <1>5, <1>7, <2>4
      <3>2. wire'[owner[fd]] = wire[owner[fd]]
        BY <1>7, <2>1, <2>4, <3>1
      <3>. QED
        BY <2>4, <3>1, <3>2 DEF SInv, AnswerInv
    <2>. QED
      BY <1>11, <2>2, <2>3, <2>4 DEF AnswerInv
  <1>14. Service!Send(c)
    <2>1. Service!IsStrictPrefix(wire[c], wire'[c])
      <3>1. IsPrefix(wire[c], wire[c] \o part) /\ wire[c] # wire[c] \o part
        BY <1>1, <1>6, <1>8, ConcatContinues
      <3>. QED
        BY <1>7, <3>1 DEF IsPrefix, Service!IsStrictPrefix, Service!IsPrefix
    <2>2. \E a \in [d \in Clients |-> AnswersOf(d)][c] : Service!IsPrefix(wire'[c], a)
      <3>1. IsPrefix(wire'[c], wire'[c] \o after)
        BY <1>8, <1>11, ConcatContinues
      <3>. QED
        BY <1>1, <1>9, <1>10, <3>1 DEF IsPrefix, Service!IsPrefix
    <2>3. /\ [d \in Clients |-> Phase(d)][c] = "open"
          /\ UNCHANGED [d \in Clients |-> Phase(d)]
      BY <1>1, <1>5 DEF Phase
    <2>4. wire' = [d \in Clients |-> IF d = c THEN wire'[c] ELSE wire[d]]
      BY <1>7, <1>11
    <2>. QED
      BY <1>5, <2>1, <2>2, <2>3, <2>4 DEF Service!Send
  <1>. QED
    BY <1>1, <1>12, <1>13, <1>14 DEF SInv, Service!Next

LEMMA HandleServes ==
  ASSUME IInv, SInv, NEW c, c = owner[cur], Handle(c)
  PROVE  SInv' /\ (Service!Next \/ UNCHANGED Service!vars)
  <1>1. CASE Read(c)
    BY <1>1, ReadServes
  <1>2. CASE Dispatch(c)
    BY <1>2, DispatchServes
  <1>3. CASE WriteSome(c)
    BY <1>3, WriteSomeServes
  <1>4. CASE WriteFails(c) \/ BrokenPipe(c)
    <2>1. /\ UNCHANGED <<link, backlog, owner, wire, interest, connMap, batch>>
          /\ \/ broken' = broken
             \/ broken' = [broken EXCEPT ![c] = IF @ = "reset" THEN "pipe" ELSE @]
      BY <1>4 DEF WriteFails, BrokenPipe, clients, kernel
    <2>2. \A d \in Clients : broken'[d] # "no" <=> broken[d] # "no"
      BY <2>1 DEF IInv, TypeOK
    <2>. QED
      BY <2>1, <2>2, SteadyKeeps, Unseen
  <1>. QED
    BY <1>1, <1>2, <1>3, <1>4 DEF Handle

-----------------------------------------------------------------------------
LEMMA StepServes ==
  ASSUME IInv, SInv, [Next]_vars
  PROVE  SInv' /\ [Service!Next]_(Service!vars)
  <1>1. ASSUME NEW c \in Clients, Client(c) PROVE SInv' /\ (Service!Next \/ UNCHANGED Service!vars)
    BY <1>1, ClientServes
  <1>2. CASE Wait
    BY <1>2, WaitServes
  <1>3. ASSUME NEW e \in batch, Take(e) \/ Hangup(e)
        PROVE  SInv' /\ (Service!Next \/ UNCHANGED Service!vars)
    <2>1. CASE Take(e)
      BY <2>1, SteadyKeeps, Unseen DEF Take, clients, kernel
    <2>2. CASE Hangup(e)
      BY <2>2, HangupServes
    <2>. QED
      BY <1>3, <2>1, <2>2
  <1>4. CASE Accept
    BY <1>4, AcceptServes
  <1>5. CASE AddChannel
    BY <1>5, IdleServes DEF AddChannel, clients
  <1>6. CASE AcceptFails
    BY <1>6, SteadyKeeps, Unseen DEF AcceptFails, clients, kernel
  <1>7. CASE Handle(owner[cur])
    BY <1>7, HandleServes
  <1>8. CASE WriteDone
    BY <1>8, WriteDoneServes
  <1>9. CASE UNCHANGED vars
    BY <1>9, SteadyKeeps, Unseen DEF vars, clients, kernel, server
  <1>. QED
    BY <1>1, <1>2, <1>3, <1>4, <1>5, <1>6, <1>7, <1>8, <1>9 DEF Next, Server

LEMMA InitServes == Init => Service!Init
  BY DEF Init, Service!Init, Phase

(***************************************************************************)
(* The epoll server keeps the promise of AnswerService for any clients,    *)
(* streams, buffer sizes and limits of descriptors: a client is served at  *)
(* most once, with (a beginning of) one answer of its own, and a client    *)
(* that stays is cut off with nothing or with all of it, whatever earlier  *)
(* connections left in connMap under its descriptor.                       *)
(***************************************************************************)
THEOREM Refinement == Spec => ImplementsService
  <1>1. Init => SInv
    BY InitServiceInv
  <1>2. IInv /\ SInv /\ [Next]_vars => SInv' /\ [Service!Next]_(Service!vars)
    BY StepServes
  <1>. QED
    BY <1>1, <1>2, InitServes, Invariance, PTL DEF Spec, ImplementsService, Service!Spec
=============================================================================
