---------------------------- MODULE ReactorServer ----------------------------
(***************************************************************************)
(* The multi-threaded server of includes/cpptools/reactor: sub reactors    *)
(* that announce their epoll instance, main reactors that wait for them,   *)
(* accept, watch each connection until its first byte arrives and hand it  *)
(* to a sub reactor, which reads, answers and releases it.  Events are     *)
(* level-triggered; every main reactor has a listening socket of its own   *)
(* (SO_REUSEPORT).  The threads, the clients and the kernel interleave     *)
(* between any two system calls.                                           *)
(***************************************************************************)
EXTENDS Integers, Sequences, FiniteSets, SequencesExt

CONSTANTS
  Clients,
  Mains,         \* the main reactors
  Cpus,          \* System::cpuNumber()
  SubCounts,     \* the possible values of subReactorCnt
  MaxUnits,      \* how much a client sends at most
  Room           \* units the send buffer of a socket holds

VARIABLES
  \* the clients and the network
  units,         \* what each client has still to send
  link,          \* "new", a main reactor (in its backlog), "open" or "closed"
  inbox,         \* units received and not read
  ended,         \* clients that have sent FIN
  broken,        \* "no"; "reset": an error is pending; "pipe": it was told
  wire, unread,  \* what the server wrote, how much of it fills the socket
  \* the threads
  subReactorCnt,
  EpollFd,       \* the sub reactors whose slot holds an epoll instance
  EpollInitCnt,
  pc,            \* [threads -> where the thread is]
  index,         \* [Mains -> the last slot used]
  batch,         \* [threads -> events left of the last epoll_wait]
  cur,           \* [threads -> the client of the event, or none]
  conns,         \* the live Conn objects, as <<thread, client>>
  watched,       \* what epoll watches: [by, client, what]
  send_len, message, \* of the sub reactor's Conn of each client
  aborted        \* an assertion has failed or SIGPIPE has come

network == <<units, link, inbox, ended, broken, wire, unread>>
threads == <<subReactorCnt, EpollFd, EpollInitCnt, pc, index, batch, cur,
             conns, watched, send_len, message, aborted>>
vars == <<network, threads>>

AllSubs == 0 .. (CHOOSE n \in SubCounts : \A k \in SubCounts : k <= n) - 1
Threads == Mains \union AllSubs
NoClient == "none"

ASSUME ReactorAssumption ==
  /\ Cpus \in Nat \ {0} /\ Room \in Nat /\ MaxUnits \in Nat
  /\ SubCounts \subseteq Nat
  /\ \E n \in SubCounts : \A k \in SubCounts : k <= n
  /\ Mains \intersect AllSubs = {}
  /\ {"new", "open", "closed"} \intersect Mains = {}

Unit(c, part) == [to |-> c, part |-> part]

OneMessage(c) == <<Unit(c, "head"), Unit(c, "content")>>

MainPlaces == {"barrier", "loop", "clear", "add", "delete", "gone"}
SubPlaces == {"start", "notify", "loop", "read", "write", "release", "gone"}
Watches == [by : Threads, client : Clients, what : {"in", "out"}]

TypeOK ==
  /\ units \in [Clients -> Nat] /\ inbox \in [Clients -> Nat]
  /\ link \in [Clients -> {"new", "open", "closed"} \union Mains]
  /\ broken \in [Clients -> {"no", "reset", "pipe"}]
  /\ DOMAIN wire = Clients /\ unread \in [Clients -> 0 .. Room]
  /\ subReactorCnt \in SubCounts
  /\ EpollFd \subseteq AllSubs /\ EpollInitCnt \in Nat
  /\ pc \in [Threads -> MainPlaces \union SubPlaces]
  /\ \A m \in Mains : pc[m] \in MainPlaces
  /\ \A s \in AllSubs : pc[s] \in SubPlaces
  /\ index \in [Mains -> Nat]
  /\ batch \in [Threads -> SUBSET Watches]
  /\ cur \in [Threads -> Clients \union {NoClient}]
  /\ conns \subseteq Threads \X Clients /\ watched \subseteq Watches
  /\ send_len \in [Clients -> 0 .. 2] /\ DOMAIN message = Clients

-----------------------------------------------------------------------------
(***************************************************************************)
(* The clients, as in PollServer.                                          *)
(***************************************************************************)
Listening(m) == pc[m] \notin {"barrier", "gone"}
Connected(c) == link[c] \in Mains \union {"open"}
Sends(c) == Connected(c) /\ c \notin ended /\ broken[c] = "no"

Connect(c, m) ==
  /\ link[c] = "new" /\ Listening(m)
  /\ link' = [link EXCEPT ![c] = m]
  /\ UNCHANGED <<units, inbox, ended, broken, wire, unread, threads>>

Deliver(c) ==
  /\ Sends(c) /\ units[c] > 0
  /\ units' = [units EXCEPT ![c] = @ - 1]
  /\ inbox' = [inbox EXCEPT ![c] = @ + 1]
  /\ UNCHANGED <<link, ended, broken, wire, unread, threads>>

Finish(c) ==
  /\ Sends(c)
  /\ ended' = ended \union {c}
  /\ UNCHANGED <<units, link, inbox, broken, wire, unread, threads>>

Reset(c) ==
  /\ Connected(c) /\ broken[c] = "no"
  /\ broken' = [broken EXCEPT ![c] = IF c \in ended THEN "pipe" ELSE "reset"]
  /\ UNCHANGED <<units, link, inbox, ended, wire, unread, threads>>

Drain(c) ==
  /\ link[c] = "open" /\ broken[c] = "no" /\ unread[c] > 0
  /\ unread' = [unread EXCEPT ![c] = 0]
  /\ UNCHANGED <<units, link, inbox, ended, broken, wire, threads>>

Client(c) ==
  \/ \E m \in Mains : Connect(c, m)
  \/ Deliver(c) \/ Finish(c) \/ Reset(c) \/ Drain(c)

Ready(w) ==
  \/ broken[w.client] # "no"
  \/ w.what = "in" /\ (inbox[w.client] > 0 \/ w.client \in ended)
  \/ w.what = "out" /\ unread[w.client] < Room

-----------------------------------------------------------------------------
(***************************************************************************)
(* Start-up.  The slots of EpollFd are not initialised; a sub reactor      *)
(* fills its own, then counts itself under the mutex and notifies.  The    *)
(* main reactors wait for as many as there are CPUs.                       *)
(***************************************************************************)
CreateEpoll(s) ==
  /\ pc[s] = "start"
  /\ EpollFd' = EpollFd \union {s}
  /\ pc' = [pc EXCEPT ![s] = "notify"]
  /\ UNCHANGED <<network, subReactorCnt, EpollInitCnt, index, batch, cur,
                 conns, watched, send_len, message, aborted>>

\* epoll_create fails: the thread returns and nobody is told.
CreateFails(s) ==
  /\ pc[s] = "start"
  /\ pc' = [pc EXCEPT ![s] = "gone"]
  /\ UNCHANGED <<network, subReactorCnt, EpollFd, EpollInitCnt, index, batch,
                 cur, conns, watched, send_len, message, aborted>>

subReactorNotifyReady(s) ==
  /\ pc[s] = "notify"
  /\ EpollInitCnt' = EpollInitCnt + 1
  /\ pc' = [pc EXCEPT ![s] = "loop"]
  /\ UNCHANGED <<network, subReactorCnt, EpollFd, index, batch, cur, conns,
                 watched, send_len, message, aborted>>

\* Wrong: does not wait for all of them.
WrongwaitSubReactor(m) ==
  /\ pc[m] = "barrier" /\ EpollInitCnt + 1 >= Cpus
  /\ pc' = [pc EXCEPT ![m] = "loop"]
  /\ UNCHANGED <<network, subReactorCnt, EpollFd, EpollInitCnt, index, batch,
                 cur, conns, watched, send_len, message, aborted>>

waitSubReactor(m) ==
  /\ pc[m] = "barrier" /\ EpollInitCnt >= Cpus
  /\ pc' = [pc EXCEPT ![m] = "loop"]
  /\ UNCHANGED <<network, subReactorCnt, EpollFd, EpollInitCnt, index, batch,
                 cur, conns, watched, send_len, message, aborted>>

\* No listening socket or no epoll instance: the thread returns.
MainFails(m) ==
  /\ pc[m] = "barrier" /\ EpollInitCnt >= Cpus
  /\ pc' = [pc EXCEPT ![m] = "gone"]
  /\ UNCHANGED <<network, subReactorCnt, EpollFd, EpollInitCnt, index, batch,
                 cur, conns, watched, send_len, message, aborted>>

-----------------------------------------------------------------------------
(***************************************************************************)
(* epoll_wait of any reactor, and the next event of its batch.             *)
(***************************************************************************)
EpollWait(t) ==
  /\ pc[t] = "loop" /\ batch[t] = {}
  /\ \E w \in watched : w.by = t /\ Ready(w)
  /\ batch' = [batch EXCEPT ![t] = {w \in watched : w.by = t /\ Ready(w)}]
  /\ UNCHANGED <<network, subReactorCnt, EpollFd, EpollInitCnt, pc, index, cur,
                 conns, watched, send_len, message, aborted>>

\* An event of a client's connection: main reactors hand over, subs serve.
Take(t, e) ==
  /\ pc[t] = "loop"
  /\ batch' = [batch EXCEPT ![t] = @ \ {e}]
  /\ cur' = [cur EXCEPT ![t] = e.client]
  /\ pc' = [pc EXCEPT ![t] =
             IF t \in Mains THEN "clear" ELSE IF e.what = "in" THEN "read" ELSE "write"]
  /\ UNCHANGED <<network, subReactorCnt, EpollFd, EpollInitCnt, index, conns,
                 watched, send_len, message, aborted>>

-----------------------------------------------------------------------------
(***************************************************************************)
(* A main reactor.  LoopAccept takes what is in the backlog, one client    *)
(* per step, and watches it; the listening socket is level-triggered.      *)
(***************************************************************************)
LoopAccept(m, c) ==
  /\ pc[m] = "loop" /\ link[c] = m
  /\ link' = [link EXCEPT ![c] = "open"]
  /\ conns' = conns \union {<<m, c>>}
  /\ watched' = watched \union {[by |-> m, client |-> c, what |-> "in"]}
  /\ UNCHANGED <<units, inbox, ended, broken, wire, unread, subReactorCnt,
                 EpollFd, EpollInitCnt, pc, index, batch, cur, send_len,
                 message, aborted>>

\* Wrong: the main reactor goes on watching what it hands over.
WrongClearEvent(m) ==
  /\ pc[m] = "clear"
  /\ pc' = [pc EXCEPT ![m] = "add"]
  /\ UNCHANGED <<network, subReactorCnt, EpollFd, EpollInitCnt, index, batch,
                 cur, conns, watched, send_len, message, aborted>>

ClearEvent(m) ==
  /\ pc[m] = "clear"
  /\ watched' = {w \in watched : w.by # m \/ w.client # cur[m]}
  /\ pc' = [pc EXCEPT ![m] = "add"]
  /\ UNCHANGED <<network, subReactorCnt, EpollFd, EpollInitCnt, index, batch,
                 cur, conns, send_len, message, aborted>>

NextSlot(m) == (index[m] + 1) % Cpus

(***************************************************************************)
(* addToSubReactor: a new Conn in the next slot's epoll instance; a slot   *)
(* that was never filled holds no epoll descriptor, and the assertion of   *)
(* AddReadEvent ends the process.                                          *)
(***************************************************************************)
addToSubReactor(m) ==
  /\ pc[m] = "add"
  /\ index' = [index EXCEPT ![m] = NextSlot(m)]
  /\ IF NextSlot(m) \in EpollFd
     THEN /\ conns' = conns \union {<<NextSlot(m), cur[m]>>}
          /\ watched' = watched \union
               {[by |-> NextSlot(m), client |-> cur[m], what |-> "in"]}
          /\ UNCHANGED aborted
     ELSE aborted' = TRUE /\ UNCHANGED <<conns, watched>>
  /\ send_len' = [send_len EXCEPT ![cur[m]] = 0]
  /\ message' = [message EXCEPT ![cur[m]] = <<>>]
  /\ pc' = [pc EXCEPT ![m] = "delete"]
  /\ UNCHANGED <<network, subReactorCnt, EpollFd, EpollInitCnt, batch, cur>>

DeleteConn(m) ==
  /\ pc[m] = "delete"
  /\ conns' = conns \ {<<m, cur[m]>>}
  /\ cur' = [cur EXCEPT ![m] = NoClient]
  /\ pc' = [pc EXCEPT ![m] = "loop"]
  /\ UNCHANGED <<network, subReactorCnt, EpollFd, EpollInitCnt, index, batch,
                 watched, send_len, message, aborted>>

MainReactor(m) ==
  \/ waitSubReactor(m) \/ MainFails(m)
  \/ \E c \in Clients : LoopAccept(m, c)
  \/ ClearEvent(m) \/ addToSubReactor(m) \/ DeleteConn(m)

-----------------------------------------------------------------------------
(***************************************************************************)
(* A sub reactor serves one event: Conn::Read reads until EAGAIN, and an   *)
(* answer is prepared whatever was read; Conn::Write writes until EAGAIN.  *)
(***************************************************************************)
Read(s) ==
  /\ pc[s] = "read" /\ inbox[cur[s]] > 0
  /\ inbox' = [inbox EXCEPT ![cur[s]] = @ - 1]
  /\ UNCHANGED <<units, link, ended, broken, wire, unread, threads>>

\* Wrong: the connection stays watched for reading.
WrongModToWriteEvent(s) ==
  /\ pc[s] = "read" /\ inbox[cur[s]] = 0
  /\ cur[s] \notin ended /\ broken[cur[s]] = "no"
  /\ message' = [message EXCEPT ![cur[s]] = OneMessage(cur[s])]
  /\ pc' = [pc EXCEPT ![s] = "loop"]
  /\ UNCHANGED <<network, subReactorCnt, EpollFd, EpollInitCnt, index, batch,
                 cur, conns, watched, send_len, aborted>>

ModToWriteEvent(s) ==
  /\ pc[s] = "read" /\ inbox[cur[s]] = 0
  /\ cur[s] \notin ended /\ broken[cur[s]] = "no"
  /\ message' = [message EXCEPT ![cur[s]] = OneMessage(cur[s])]
  /\ watched' = {w \in watched : w.by # s \/ w.client # cur[s]}
       \union {[by |-> s, client |-> cur[s], what |-> "out"]}
  /\ pc' = [pc EXCEPT ![s] = "loop"]
  /\ UNCHANGED <<network, subReactorCnt, EpollFd, EpollInitCnt, index, batch,
                 cur, conns, send_len, aborted>>

\* FIN or an error: Read returns false, even when a request came before.
ReadFails(s) ==
  /\ pc[s] = "read" /\ inbox[cur[s]] = 0
  /\ cur[s] \in ended \/ broken[cur[s]] # "no"
  /\ pc' = [pc EXCEPT ![s] = "release"]
  /\ UNCHANGED <<network, subReactorCnt, EpollFd, EpollInitCnt, index, batch,
                 cur, conns, watched, send_len, message, aborted>>

Unsent(c) == SubSeq(message[c], send_len[c] + 1, Len(message[c]))

Write(s) ==
  /\ pc[s] = "write" /\ Unsent(cur[s]) # <<>>
  /\ broken[cur[s]] = "no" /\ unread[cur[s]] < Room
  /\ \E n \in 1 .. Len(Unsent(cur[s])) :
       /\ n = Len(Unsent(cur[s])) \/ unread[cur[s]] + n = Room
       /\ unread[cur[s]] + n <= Room
       /\ wire' = [wire EXCEPT ![cur[s]] = @ \o SubSeq(Unsent(cur[s]), 1, n)]
       /\ unread' = [unread EXCEPT ![cur[s]] = @ + n]
       /\ send_len' = [send_len EXCEPT ![cur[s]] = @ + n]
  /\ UNCHANGED <<units, link, inbox, ended, broken, subReactorCnt, EpollFd,
                 EpollInitCnt, pc, index, batch, cur, conns, watched, message,
                 aborted>>

\* Wrong: Write reports an error when the socket is full.
WrongWriteAgain(s) ==
  /\ pc[s] = "write" /\ Unsent(cur[s]) # <<>>
  /\ broken[cur[s]] = "no" /\ unread[cur[s]] = Room
  /\ pc' = [pc EXCEPT ![s] = "release"]
  /\ UNCHANGED <<network, subReactorCnt, EpollFd, EpollInitCnt, index, batch,
                 cur, conns, watched, send_len, message, aborted>>

\* EAGAIN: the event will come again.
WriteAgain(s) ==
  /\ pc[s] = "write" /\ Unsent(cur[s]) # <<>>
  /\ broken[cur[s]] = "no" /\ unread[cur[s]] = Room
  /\ pc' = [pc EXCEPT ![s] = "loop"]
  /\ UNCHANGED <<network, subReactorCnt, EpollFd, EpollInitCnt, index, batch,
                 cur, conns, watched, send_len, message, aborted>>

\* FinishWrite, or ECONNRESET; EPIPE comes with SIGPIPE, which is not ignored.
WriteEnds(s) ==
  /\ pc[s] = "write"
  /\ Unsent(cur[s]) = <<>> \/ broken[cur[s]] # "no"
  /\ aborted' = (Unsent(cur[s]) # <<>> /\ broken[cur[s]] = "pipe")
  /\ pc' = [pc EXCEPT ![s] = "release"]
  /\ UNCHANGED <<network, subReactorCnt, EpollFd, EpollInitCnt, index, batch,
                 cur, conns, watched, send_len, message>>

\* releaseConn: DEL, close, delete
releaseConn(s) ==
  /\ pc[s] = "release"
  /\ watched' = {w \in watched : w.by # s \/ w.client # cur[s]}
  /\ link' = [link EXCEPT ![cur[s]] = "closed"]
  /\ conns' = conns \ {<<s, cur[s]>>}
  /\ pc' = [pc EXCEPT ![s] = "loop"]
  /\ cur' = [cur EXCEPT ![s] = NoClient]
  /\ UNCHANGED <<units, inbox, ended, broken, wire, unread, subReactorCnt,
                 EpollFd, EpollInitCnt, index, batch, send_len, message, aborted>>

SubReactor(s) ==
  \/ CreateEpoll(s) \/ CreateFails(s) \/ subReactorNotifyReady(s)
  \/ Read(s) \/ ModToWriteEvent(s) \/ ReadFails(s)
  \/ Write(s) \/ WriteAgain(s) \/ WriteEnds(s) \/ releaseConn(s)

Loop(t) == EpollWait(t) \/ \E e \in batch[t] : Take(t, e)

-----------------------------------------------------------------------------
Init ==
  /\ units \in [Clients -> 1 .. MaxUnits]
  /\ link = [c \in Clients |-> "new"]
  /\ inbox = [c \in Clients |-> 0]
  /\ ended = {}
  /\ broken = [c \in Clients |-> "no"]
  /\ wire = [c \in Clients |-> <<>>]
  /\ unread = [c \in Clients |-> 0]
  /\ subReactorCnt \in SubCounts
  /\ EpollFd = {} /\ EpollInitCnt = 0
  /\ pc = [t \in Threads |-> IF t \in Mains THEN "barrier"
                            ELSE IF t < subReactorCnt THEN "start" ELSE "gone"]
  /\ index = [m \in Mains |-> 0]
  /\ batch = [t \in Threads |-> {}]
  /\ cur = [t \in Threads |-> NoClient]
  /\ conns = {} /\ watched = {}
  /\ send_len = [c \in Clients |-> 0]
  /\ message = [c \in Clients |-> <<>>]
  /\ aborted = FALSE

Thread(t) == ~aborted /\ (IF t \in Mains THEN MainReactor(t) ELSE SubReactor(t))
Step(t) == Thread(t) \/ (~aborted /\ Loop(t))

Next ==
  \/ \E t \in Threads : Step(t)
  \/ \E c \in Clients : ~aborted /\ Client(c)

(***************************************************************************)
(* Every thread that can run does, and clients read what they are sent.    *)
(***************************************************************************)
Fairness ==
  /\ \A t \in Threads : WF_vars(Step(t))
  /\ \A c \in Clients : WF_vars(~aborted /\ Drain(c))

Spec == Init /\ [][Next]_vars /\ Fairness

-----------------------------------------------------------------------------
(***************************************************************************)
(* The start-up barrier does its work as long as there are no more sub     *)
(* reactors than CPUs: whenever a main reactor is about to hand a          *)
(* connection over, the slot it takes has been filled.  (With more of      *)
(* them, the barrier counts some that do not matter.)                      *)
(***************************************************************************)
SlotFilled ==
  subReactorCnt <= Cpus =>
    \A m \in Mains : pc[m] = "add" => NextSlot(m) \in EpollFd

(***************************************************************************)
(* An open connection is watched by one reactor at a time, by none only    *)
(* while a main reactor hands it over; every watch, every event that is    *)
(* still to be handled and every connection in a reactor's hands has a     *)
(* live Conn, and no Conn stays when its connection is closed.             *)
(***************************************************************************)
Held(c) == \E m \in Mains : cur[m] = c /\ pc[m] = "add"

WatchedOnce ==
  ~aborted =>
  /\ \A c \in Clients :
       /\ Cardinality({w \in watched : w.client = c}) <= 1
       /\ link[c] = "open" => Held(c) \/ \E w \in watched : w.client = c
  /\ \A conn \in conns :
       \/ link[conn[2]] = "open"
       \/ pc[conn[1]] = "delete" /\ cur[conn[1]] = conn[2]
  /\ \A w \in watched : <<w.by, w.client>> \in conns
  /\ \A t \in Threads : \A e \in batch[t] : <<t, e.client>> \in conns
  /\ \A t \in Threads :
       pc[t] \in {"clear", "add", "delete", "read", "write", "release"}
         => <<t, cur[t]>> \in conns

(***************************************************************************)
(* What the properties rest on.  The barrier counts sub reactors whose     *)
(* slot is filled; an event still to be handled is still watched, and a    *)
(* reactor that serves a connection has no other event of it; a Conn       *)
(* belongs to a watch or to a main reactor that is handing over.           *)
(***************************************************************************)
Counted == {s \in AllSubs : pc[s] \notin {"start", "notify", "gone"}}

StartInv ==
  /\ EpollInitCnt = Cardinality(Counted)
  /\ \A s \in Counted : s \in EpollFd /\ s < subReactorCnt
  /\ \A s \in AllSubs : pc[s] = "notify" => s \in EpollFd
  /\ \A s \in AllSubs : pc[s] # "gone" => s < subReactorCnt
  /\ \A m \in Mains : pc[m] \notin {"barrier", "gone"} => EpollInitCnt >= Cpus

WatchInv ==
  /\ \A v, w \in watched : v.client = w.client => v = w
  /\ \A w \in watched : /\ link[w.client] = "open"
                        /\ <<w.by, w.client>> \in conns
                        /\ w.by \in Mains => w.what = "in"
  /\ \A t \in Threads : \A e \in batch[t] :
       e \in watched /\ e.by = t /\ (pc[t] # "loop" => e.client # cur[t])
  /\ \A c \in Clients :
       link[c] = "open" => Held(c) \/ \E w \in watched : w.client = c

ServeInv ==
  \A t \in Threads : pc[t] \in {"clear", "read", "write", "release"} =>
    \E w \in watched :
      /\ w.by = t /\ w.client = cur[t]
      /\ pc[t] = "read" => w.what = "in"
      /\ pc[t] = "write" => w.what = "out"

AddInv ==
  /\ \A m \in Mains : pc[m] = "add" =>
       /\ cur[m] \in Clients /\ link[cur[m]] = "open"
       /\ \A w \in watched : w.client # cur[m]
       /\ \A n \in Mains : pc[n] = "add" /\ cur[n] = cur[m] => n = m
  /\ \A m \in Mains : pc[m] \in {"add", "delete"} =>
       /\ <<m, cur[m]>> \in conns
       /\ \A w \in watched : w.by = m => w.client # cur[m]

ConnInv ==
  \A conn \in conns :
    \/ \E w \in watched : w.by = conn[1] /\ w.client = conn[2]
    \/ conn[1] \in Mains /\ pc[conn[1]] \in {"add", "delete"} /\ cur[conn[1]] = conn[2]

(***************************************************************************)
(* What was written is the first send_len units of the answer, and nothing *)
(* before there is one; a connection about to be released has the answer   *)
(* whole or not at all, or the client has left.                            *)
(***************************************************************************)
WireInv ==
  /\ \A c \in Clients : link[c] \notin {"open", "closed"} => wire[c] = <<>>
  /\ \A w \in watched :
       /\ w.what = "in" => wire[w.client] = <<>>
       /\ w.what = "in" /\ w.by \in AllSubs => send_len[w.client] = 0
       /\ w.what = "out" =>
            /\ message[w.client] = OneMessage(w.client)
            /\ wire[w.client] = SubSeq(message[w.client], 1, send_len[w.client])
  /\ \A m \in Mains : pc[m] = "add" => wire[cur[m]] = <<>>

ReleaseInv ==
  \A s \in AllSubs : pc[s] = "release" =>
    wire[cur[s]] \in {<<>>, OneMessage(cur[s])} \/ broken[cur[s]] # "no"

ClientInv == WatchInv /\ ServeInv /\ AddInv /\ ConnInv /\ WireInv /\ ReleaseInv
IInv == TypeOK /\ StartInv /\ (~aborted => ClientInv)

(***************************************************************************)
(* Each client sees one connection and one answer: AnswerService.          *)
(***************************************************************************)
Phase(c) == IF link[c] \in {"open", "closed"} THEN link[c] ELSE "waiting"

Service == INSTANCE AnswerService WITH
  Answers <- [c \in Clients |-> {OneMessage(c)}],
  phase <- [c \in Clients |-> Phase(c)],
  got <- wire,
  gone <- {c \in Clients : broken[c] # "no"}

ImplementsService == Service!Spec

(***************************************************************************)
(* A client that has sent something on an open connection is served and    *)
(* released in the end, whichever reactor it is handed to.                 *)
(***************************************************************************)
Served ==
  \A c \in Clients :
    (link[c] = "open" /\ inbox[c] > 0) ~> (link[c] = "closed" \/ aborted)
=============================================================================
