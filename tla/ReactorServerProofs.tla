------------------------ MODULE ReactorServerProofs ------------------------
(***************************************************************************)
(* Theorems about ReactorServer, for any numbers of clients, CPUs, main    *)
(* and sub reactors.                                                       *)
(***************************************************************************)
EXTENDS ReactorServer, FiniteSetTheorems, DataLemmas, TLAPS

\* Sub reactors are numbered from 0; their number is never above the range.
LEMMA SubsAre ==
  /\ AllSubs \subseteq Nat /\ IsFiniteSet(AllSubs)
  /\ \A t \in Mains : t \notin AllSubs
  /\ Mains \subseteq Threads /\ AllSubs \subseteq Threads
  /\ \A t \in Threads : t \in Mains \/ t \in AllSubs
  <1>. DEFINE most == CHOOSE n \in SubCounts : \A k \in SubCounts : k <= n
  <1>1. most \in Nat
    BY ReactorAssumption DEF ReactorAssumption
  <1>2. AllSubs = 0 .. most - 1
    BY DEF AllSubs
  <1>. HIDE DEF most
  <1>3. AllSubs \subseteq Nat /\ IsFiniteSet(AllSubs)
    BY <1>1, <1>2, FS_Interval
  <1>. QED
    BY <1>3, ReactorAssumption DEF ReactorAssumption, Threads

LEMMA SlotsAre ==
  ASSUME TypeOK, NEW m \in Mains
  PROVE  NextSlot(m) \in 0 .. Cpus - 1
  <1>. DEFINE i == index[m] + 1
  <1>1. i \in Nat /\ Cpus \in Nat \ {0}
    BY ReactorAssumption DEF TypeOK, ReactorAssumption
  <1>. HIDE DEF i
  <1>2. i % Cpus \in 0 .. Cpus - 1
    BY <1>1
  <1>. QED
    BY <1>2 DEF NextSlot, i

\* Links of open and closed connections are no main reactors.
LEMMA LinksAre == "new" \notin Mains /\ "open" \notin Mains /\ "closed" \notin Mains
  BY ReactorAssumption DEF ReactorAssumption

LEMMA AtMostOne ==
  ASSUME NEW S, \A v, w \in S : v = w PROVE Cardinality(S) <= 1
  <1>1. CASE S = {}
    BY <1>1, FS_EmptySet
  <1>2. ASSUME NEW w \in S PROVE Cardinality(S) <= 1
    <2>1. S = {w}
      OBVIOUS
    <2>2. Cardinality({w}) = 1
      BY FS_Singleton
    <2>. QED
      BY <2>1, <2>2
  <1>. QED
    BY <1>1, <1>2

LEMMA InitInv == Init => IInv
  <1>. SUFFICES ASSUME Init PROVE IInv
    OBVIOUS
  <1>. USE DEF Init
  <1>1. TypeOK
    BY SubsAre, ReactorAssumption DEF TypeOK, ReactorAssumption, MainPlaces, SubPlaces
  <1>2. StartInv
    <2>1. Counted = {}
      BY SubsAre DEF Counted
    <2>2. Cardinality(Counted) = 0
      BY <2>1, FS_EmptySet
    <2>. QED
      BY <2>1, <2>2, SubsAre DEF StartInv
  <1>3. WatchInv /\ ServeInv /\ AddInv /\ ConnInv
    BY SubsAre, LinksAre DEF WatchInv, ServeInv, AddInv, ConnInv
  <1>4. WireInv /\ ReleaseInv
    BY SubsAre DEF WireInv, ReleaseInv
  <1>. QED
    BY <1>1, <1>2, <1>3, <1>4 DEF IInv, ClientInv

-----------------------------------------------------------------------------
(***************************************************************************)
(* The clients.                                                            *)
(***************************************************************************)
LEMMA StartKept ==
  ASSUME StartInv, UNCHANGED <<EpollInitCnt, EpollFd, subReactorCnt>>,
         \A s \in AllSubs : \/ pc'[s] = pc[s]
                            \/ {pc'[s], pc[s]} \intersect {"start", "notify", "gone"} = {},
         \A m \in Mains : pc[m] \in {"barrier", "gone"} => pc'[m] \in {"barrier", "gone"}
  PROVE  StartInv'
  <1>1. Counted' = Counted
    BY DEF Counted
  <1>. QED
    BY <1>1 DEF StartInv

LEMMA ClientKeeps ==
  ASSUME IInv, ~aborted, NEW c \in Clients, Client(c) PROVE IInv'
  <1>. USE DEF IInv, ClientInv
  <1>0. UNCHANGED threads
    BY DEF Client, Connect, Deliver, Finish, Reset, Drain
  <1>1. StartInv'
    BY <1>0, StartKept DEF threads
  <1>2. TypeOK'
    <2>. USE <1>0 DEF TypeOK, threads
    <2>1. ASSUME NEW m \in Mains, Connect(c, m) PROVE TypeOK'
      BY <2>1 DEF Connect
    <2>2. CASE Deliver(c)
      BY <2>2 DEF Deliver
    <2>3. CASE Finish(c)
      BY <2>3 DEF Finish
    <2>4. CASE Reset(c)
      BY <2>4 DEF Reset
    <2>5. CASE Drain(c)
      BY <2>5, ReactorAssumption DEF Drain, ReactorAssumption
    <2>. QED
      BY <2>1, <2>2, <2>3, <2>4, <2>5 DEF Client
  <1>3. /\ wire' = wire
        /\ \A d \in Clients : (link'[d] = "open") = (link[d] = "open")
        /\ \A d \in Clients : link'[d] \in {"open", "closed"} <=> link[d] \in {"open", "closed"}
        /\ \A d \in Clients : broken[d] # "no" => broken'[d] # "no"
    BY LinksAre DEF TypeOK, Client, Connect, Deliver, Finish, Reset, Drain
  <1>4. \A w \in watched : w.client \in Clients
    BY DEF TypeOK, Watches
  <1>5. WatchInv' /\ ServeInv' /\ AddInv' /\ ConnInv'
    BY <1>0, <1>3, <1>4 DEF threads, WatchInv, ServeInv, AddInv, ConnInv, Held
  <1>6. WireInv' /\ ReleaseInv'
    <2>1. \A s \in AllSubs : pc[s] = "release" => cur[s] \in Clients
      BY <1>4, SubsAre DEF ServeInv
    <2>. QED
      BY <1>0, <1>3, <1>4, <2>1 DEF threads, WireInv, ReleaseInv
  <1>. QED
    BY <1>1, <1>2, <1>5, <1>6 DEF threads

-----------------------------------------------------------------------------
(***************************************************************************)
(* Start-up.  Only sub reactors with a filled slot count themselves.       *)
(***************************************************************************)
\* A thread that moves between places where it serves nobody.
LEMMA IdleKept ==
  ASSUME TypeOK, ClientInv,
         NEW t \in Threads, NEW place \in {"notify", "loop", "gone"},
         pc[t] \in {"barrier", "start", "notify"},
         pc' = [pc EXCEPT ![t] = place],
         UNCHANGED <<network, batch, cur, conns, watched, send_len, message>>
  PROVE  ClientInv'
  <1>. USE SubsAre DEF ClientInv, TypeOK, network
  <1>1. \A u \in Threads : pc'[u] = pc[u] \/ (u = t /\ pc'[u] = place)
    OBVIOUS
  <1>2. WatchInv'
    <2>1. \A u \in Threads : \A e \in batch[u] :
            e \in watched /\ e.by = u /\ (pc'[u] # "loop" => e.client # cur[u])
      BY <1>1 DEF WatchInv
    <2>2. \A c \in Clients : Held(c) => Held(c)'
      BY <1>1 DEF Held
    <2>. QED
      BY <2>1, <2>2 DEF WatchInv
  <1>3. ServeInv' /\ AddInv'
    BY <1>1 DEF ServeInv, AddInv
  <1>4. ConnInv'
    BY <1>1 DEF ConnInv
  <1>5. WireInv' /\ ReleaseInv'
    BY <1>1 DEF WireInv, ReleaseInv
  <1>. QED
    BY <1>2, <1>3, <1>4, <1>5

LEMMA CreateEpollKeeps ==
  ASSUME IInv, ~aborted, NEW s \in AllSubs, CreateEpoll(s) PROVE IInv'
  <1>. USE SubsAre DEF IInv, ClientInv, CreateEpoll
  <1>1. TypeOK'
    BY DEF TypeOK, MainPlaces, SubPlaces, network
  <1>2. StartInv'
    <2>1. Counted' = Counted
      BY DEF Counted, TypeOK
    <2>. QED
      BY <2>1 DEF StartInv, TypeOK
  <1>. QED
    BY <1>1, <1>2, IdleKept

LEMMA CreateFailsKeeps ==
  ASSUME IInv, ~aborted, NEW s \in AllSubs, CreateFails(s) PROVE IInv'
  <1>. USE SubsAre DEF IInv, ClientInv, CreateFails
  <1>1. TypeOK'
    BY DEF TypeOK, MainPlaces, SubPlaces, network
  <1>2. StartInv'
    <2>1. Counted' = Counted
      BY DEF Counted, TypeOK
    <2>. QED
      BY <2>1 DEF StartInv, TypeOK
  <1>. QED
    BY <1>1, <1>2, IdleKept

LEMMA NotifyKeeps ==
  ASSUME IInv, ~aborted, NEW s \in AllSubs, subReactorNotifyReady(s) PROVE IInv'
  <1>. USE SubsAre DEF IInv, ClientInv, subReactorNotifyReady
  <1>1. TypeOK'
    BY DEF TypeOK, MainPlaces, SubPlaces, network
  <1>2. StartInv'
    <2>1. Counted' = Counted \union {s} /\ s \notin Counted
      BY DEF Counted, TypeOK
    <2>2. IsFiniteSet(Counted)
      BY FS_Subset DEF Counted
    <2>3. Cardinality(Counted') = Cardinality(Counted) + 1
      BY <2>1, <2>2, FS_AddElement
    <2>. QED
      BY <2>1, <2>3, ReactorAssumption DEF StartInv, TypeOK, ReactorAssumption
  <1>. QED
    BY <1>1, <1>2, IdleKept

LEMMA BarrierKeeps ==
  ASSUME IInv, ~aborted, NEW m \in Mains, waitSubReactor(m) \/ MainFails(m)
  PROVE  IInv'
  <1>. USE SubsAre DEF IInv, ClientInv, waitSubReactor, MainFails
  <1>1. TypeOK'
    BY DEF TypeOK, MainPlaces, SubPlaces, network
  <1>2. StartInv'
    <2>1. Counted' = Counted
      BY DEF Counted, TypeOK
    <2>. QED
      BY <2>1 DEF StartInv, TypeOK
  <1>. QED
    BY <1>1, <1>2, IdleKept

-----------------------------------------------------------------------------
(***************************************************************************)
(* The loop of any reactor.                                                *)
(***************************************************************************)
LEMMA EpollWaitKeeps ==
  ASSUME IInv, ~aborted, NEW t \in Threads, EpollWait(t) PROVE IInv'
  <1>. USE SubsAre DEF IInv, ClientInv, EpollWait, network
  <1>1. TypeOK'
    BY DEF TypeOK
  <1>2. StartInv'
    BY StartKept
  <1>3. WatchInv' /\ ServeInv' /\ AddInv' /\ ConnInv'
    BY DEF TypeOK, WatchInv, Held, ServeInv, AddInv, ConnInv
  <1>4. WireInv' /\ ReleaseInv'
    BY DEF WireInv, ReleaseInv
  <1>. QED
    BY <1>1, <1>2, <1>3, <1>4

LEMMA TakeKeeps ==
  ASSUME IInv, ~aborted, NEW t \in Threads, NEW e \in batch[t], Take(t, e)
  PROVE  IInv'
  <1>. USE SubsAre DEF IInv, ClientInv, Take, network
  <1>0. /\ e \in Watches /\ e \in watched /\ e.by = t
        /\ \A f \in batch[t] : f.client = e.client => f = e
        /\ e.client \in Clients /\ e.what \in {"in", "out"}
        /\ \A u \in Threads : u # t => pc'[u] = pc[u] /\ cur'[u] = cur[u] /\ batch'[u] = batch[u]
        /\ cur'[t] = e.client /\ batch'[t] = batch[t] \ {e}
        /\ pc'[t] = IF t \in Mains THEN "clear" ELSE IF e.what = "in" THEN "read" ELSE "write"
    BY DEF TypeOK, WatchInv, Watches
  <1>1. TypeOK'
    BY <1>0 DEF TypeOK, MainPlaces, SubPlaces
  <1>2. StartInv'
    BY <1>0, StartKept
  <1>3. WatchInv'
    BY <1>0 DEF WatchInv, Held
  <1>4. ServeInv'
    BY <1>0 DEF ServeInv
  <1>5. AddInv'
    BY <1>0 DEF AddInv
  <1>6. ConnInv'
    BY <1>0 DEF ConnInv
  <1>7. WireInv'
    BY <1>0 DEF WireInv
  <1>8. ReleaseInv'
    BY <1>0 DEF ReleaseInv
  <1>. QED
    BY <1>1, <1>2, <1>3, <1>4, <1>5, <1>6, <1>7, <1>8

-----------------------------------------------------------------------------
(***************************************************************************)
(* A main reactor.                                                         *)
(***************************************************************************)
LEMMA LoopAcceptKeeps ==
  ASSUME IInv, ~aborted, NEW m \in Mains, NEW c \in Clients, LoopAccept(m, c)
  PROVE  IInv'
  <1>. USE SubsAre, LinksAre DEF IInv, ClientInv, LoopAccept
  <1>. DEFINE new == [by |-> m, client |-> c, what |-> "in"]
  <1>0. /\ new \in Watches /\ link[c] = m /\ link[c] \notin {"open", "closed"}
        /\ \A w \in watched : w.client # c /\ w.client \in Clients
        /\ watched' = watched \union {new}
        /\ link'[c] = "open" /\ \A d \in Clients : d # c => link'[d] = link[d]
        /\ \A n \in Mains : pc[n] = "add" => cur[n] # c
    <2>1. /\ new \in Watches
          /\ \A w \in watched : w.client \in Clients
      BY DEF Watches, TypeOK
    <2>2. link[c] = m /\ link[c] \notin {"open", "closed"}
      OBVIOUS
    <2>3. /\ \A w \in watched : link[w.client] = "open"
          /\ \A n \in Mains : pc[n] = "add" => link[cur[n]] = "open"
      BY DEF WatchInv, AddInv
    <2>4. watched' = watched \union {new}
      OBVIOUS
    <2>5. link'[c] = "open" /\ \A d \in Clients : d # c => link'[d] = link[d]
      BY DEF TypeOK
    <2>. HIDE DEF new, LoopAccept
    <2>. QED
      BY <2>1, <2>2, <2>3, <2>4, <2>5
  <1>1. TypeOK'
    BY <1>0 DEF TypeOK
  <1>2. StartInv'
    BY StartKept
  <1>3. WatchInv'
    BY <1>0 DEF WatchInv, Held
  <1>4. ServeInv'
    BY <1>0 DEF ServeInv
  <1>5. AddInv'
    BY <1>0 DEF AddInv
  <1>6. ConnInv'
    BY <1>0 DEF ConnInv
  <1>7. WireInv'
    BY <1>0 DEF WireInv
  <1>8. ReleaseInv'
    BY <1>0 DEF ReleaseInv
  <1>. QED
    BY <1>1, <1>2, <1>3, <1>4, <1>5, <1>6, <1>7, <1>8

LEMMA ClearEventKeeps ==
  ASSUME IInv, ~aborted, NEW m \in Mains, ClearEvent(m) PROVE IInv'
  <1>. USE SubsAre DEF IInv, ClientInv, ClearEvent, network
  <1>0. PICK w \in watched : w.by = m /\ w.client = cur[m]
    BY DEF ServeInv
  <1>9. /\ w.client \in Clients /\ w.what = "in" /\ link[cur[m]] = "open"
        /\ watched' = watched \ {w}
        /\ <<m, cur[m]>> \in conns
        /\ \A v \in watched' : v \in watched /\ v.client # cur[m]
        /\ pc'[m] = "add" /\ \A t \in Threads : t # m => pc'[t] = pc[t]
        /\ \A t \in Threads : \A e \in batch[t] : e.client # cur[m]
    BY <1>0 DEF TypeOK, Watches, WatchInv
  <1>1. TypeOK'
    BY <1>9 DEF TypeOK, MainPlaces, SubPlaces
  <1>2. StartInv'
    BY <1>9, StartKept
  <1>3. WatchInv'
    BY <1>0, <1>9 DEF WatchInv, Held
  <1>4. ServeInv'
    BY <1>0, <1>9 DEF ServeInv, WatchInv
  <1>5. AddInv'
    BY <1>0, <1>9 DEF AddInv
  <1>6. ConnInv'
    BY <1>0, <1>9 DEF ConnInv
  <1>7. WireInv'
    BY <1>0, <1>9 DEF WireInv
  <1>8. ReleaseInv'
    BY <1>9 DEF ReleaseInv
  <1>. QED
    BY <1>1, <1>2, <1>3, <1>4, <1>5, <1>6, <1>7, <1>8

LEMMA AddToKeeps ==
  ASSUME IInv, ~aborted, NEW m \in Mains, addToSubReactor(m) PROVE IInv'
  <1>. USE SubsAre DEF IInv, ClientInv, addToSubReactor, network
  <1>. DEFINE c == cur[m]
              s == NextSlot(m)
              new == [by |-> s, client |-> c, what |-> "in"]
  <1>9. new.by = s /\ new.client = c /\ new.what = "in"
    OBVIOUS
  <1>0. /\ c \in Clients /\ link[c] = "open" /\ s \in 0 .. Cpus - 1 /\ wire[c] = <<>>
        /\ \A w \in watched : w.client # c /\ w.client \in Clients
        /\ \A n \in Mains : pc[n] = "add" /\ n # m => cur[n] # c
        /\ <<m, c>> \in conns
        /\ pc'[m] = "delete" /\ \A t \in Threads : t # m => pc'[t] = pc[t]
        /\ send_len' = [send_len EXCEPT ![c] = 0]
        /\ message' = [message EXCEPT ![c] = <<>>]
        /\ index' = [index EXCEPT ![m] = s]
    BY SlotsAre DEF AddInv, WireInv, TypeOK, Watches
  <1>1. TypeOK' /\ StartInv'
    <2>1. s \in EpollFd => new \in Watches
      BY <1>0 DEF TypeOK, Watches
    <2>2. index' \in [Mains -> Nat]
      BY <1>0, ReactorAssumption DEF TypeOK, ReactorAssumption
    <2>. HIDE DEF new
    <2>3. conns' \subseteq Threads \X Clients /\ watched' \subseteq Watches
      BY <1>0, <2>1 DEF TypeOK, new
    <2>4. TypeOK'
      BY <1>0, <2>2, <2>3 DEF TypeOK, MainPlaces, SubPlaces
    <2>. QED
      BY <1>0, <2>4, StartKept
  <1>. SUFFICES ASSUME ~aborted' PROVE ClientInv'
    BY <1>1
  <1>2. /\ s \in AllSubs /\ s \notin Mains /\ s # m
        /\ conns' = conns \union {<<s, c>>} /\ watched' = watched \union {new}
    BY <1>0 DEF TypeOK
  <1>. HIDE DEF s, c, new
  <1>3. WatchInv'
    <2>1. \A v, w \in watched' : v.client = w.client => v = w
      BY <1>0, <1>2, <1>9 DEF WatchInv
    <2>2. \A w \in watched' : /\ link'[w.client] = "open"
                              /\ <<w.by, w.client>> \in conns'
                              /\ w.by \in Mains => w.what = "in"
      BY <1>0, <1>2, <1>9 DEF WatchInv
    <2>3. \A t \in Threads : \A e \in batch'[t] :
            e \in watched' /\ e.by = t /\ (pc'[t] # "loop" => e.client # cur'[t])
      BY <1>0, <1>2, <1>9 DEF WatchInv
    <2>4. ASSUME NEW d \in Clients, link'[d] = "open"
          PROVE  Held(d)' \/ \E w \in watched' : w.client = d
      BY <1>0, <1>2, <1>9, <2>4 DEF WatchInv, Held, c
    <2>. QED
      BY <2>1, <2>2, <2>3, <2>4 DEF WatchInv
  <1>4. ServeInv'
    BY <1>0, <1>2, <1>9 DEF ServeInv
  <1>5. AddInv'
    BY <1>0, <1>2, <1>9 DEF AddInv, c
  <1>6. ConnInv'
    <2>1. \E w \in watched' : w.by = s /\ w.client = c
      BY <1>2, <1>9
    <2>2. ASSUME NEW conn \in conns
          PROVE  \/ \E w \in watched' : w.by = conn[1] /\ w.client = conn[2]
                 \/ /\ conn[1] \in Mains /\ pc'[conn[1]] \in {"add", "delete"}
                    /\ cur'[conn[1]] = conn[2]
      BY <1>0, <1>2, <1>9 DEF ConnInv
    <2>. QED
      BY <1>2, <2>1, <2>2 DEF ConnInv
  <1>7. WireInv'
    BY <1>0, <1>2, <1>9 DEF WireInv, TypeOK
  <1>8. ReleaseInv'
    BY <1>0 DEF ReleaseInv
  <1>. QED
    BY <1>3, <1>4, <1>5, <1>6, <1>7, <1>8

LEMMA DeleteKeeps ==
  ASSUME IInv, ~aborted, NEW m \in Mains, DeleteConn(m) PROVE IInv'
  <1>. USE SubsAre DEF IInv, ClientInv, DeleteConn, network
  <1>0. /\ pc'[m] = "loop" /\ \A t \in Threads : t # m => pc'[t] = pc[t] /\ cur'[t] = cur[t]
        /\ \A w \in watched : w.by = m => w.client # cur[m]
    BY DEF AddInv, TypeOK
  <1>1. TypeOK'
    BY <1>0 DEF TypeOK, MainPlaces, SubPlaces
  <1>2. StartInv'
    BY <1>0, StartKept
  <1>3. WatchInv'
    BY <1>0 DEF WatchInv, Held
  <1>4. ServeInv'
    BY <1>0 DEF ServeInv
  <1>5. AddInv'
    BY <1>0 DEF AddInv
  <1>6. ConnInv'
    BY <1>0 DEF ConnInv, TypeOK
  <1>7. WireInv'
    BY <1>0 DEF WireInv
  <1>8. ReleaseInv'
    BY <1>0 DEF ReleaseInv
  <1>. QED
    BY <1>1, <1>2, <1>3, <1>4, <1>5, <1>6, <1>7, <1>8

-----------------------------------------------------------------------------
(***************************************************************************)
(* A sub reactor.  It is the only one that watches what it serves.         *)
(***************************************************************************)
LEMMA ServedIsWatched ==
  ASSUME IInv, ~aborted, NEW s \in AllSubs, pc[s] \in {"read", "write", "release"}
  PROVE  \E w \in watched :
           /\ w.by = s /\ w.client = cur[s] /\ w \in Watches
           /\ pc[s] = "read" => w.what = "in"
           /\ pc[s] = "write" => w.what = "out"
           /\ cur[s] \in Clients /\ link[cur[s]] = "open"
           /\ <<s, cur[s]>> \in conns
           /\ \A v \in watched : v # w => v.client # cur[s]
           /\ \A t \in Threads : \A e \in batch[t] : e.client # cur[s]
           /\ \A m \in Mains : pc[m] = "add" => cur[m] # cur[s]
           /\ \A t \in Threads :
                t # s /\ pc[t] \in {"clear", "read", "write", "release"} => cur[t] # cur[s]
  <1>. USE SubsAre DEF IInv, ClientInv
  <1>1. PICK w \in watched : /\ w.by = s /\ w.client = cur[s]
                             /\ pc[s] = "read" => w.what = "in"
                             /\ pc[s] = "write" => w.what = "out"
    BY DEF ServeInv
  <1>2. /\ w \in Watches /\ cur[s] \in Clients /\ link[cur[s]] = "open"
        /\ <<s, cur[s]>> \in conns
    BY <1>1 DEF WatchInv, TypeOK, Watches
  <1>3. \A v \in watched : v # w => v.client # cur[s]
    BY <1>1 DEF WatchInv
  <1>4. \A t \in Threads : \A e \in batch[t] : e.client # cur[s]
    BY <1>1, <1>3 DEF WatchInv
  <1>5. \A m \in Mains : pc[m] = "add" => cur[m] # cur[s]
    BY <1>1 DEF AddInv
  <1>6. \A t \in Threads :
          t # s /\ pc[t] \in {"clear", "read", "write", "release"} => cur[t] # cur[s]
    BY <1>1, <1>3 DEF ServeInv
  <1>. QED
    BY <1>1, <1>2, <1>3, <1>4, <1>5, <1>6

\* A step of a sub reactor that changes only its place.
LEMMA PlaceKept ==
  ASSUME TypeOK, ClientInv, NEW s \in AllSubs,
         pc[s] \in {"read", "write"}, NEW place \in {"loop", "release"},
         place = "release" =>
           wire[cur[s]] \in {<<>>, OneMessage(cur[s])} \/ broken[cur[s]] # "no",
         pc' = [pc EXCEPT ![s] = place],
         UNCHANGED <<network, batch, cur, conns, watched, send_len, message>>
  PROVE  ClientInv'
  <1>. USE SubsAre DEF ClientInv, network
  <1>1. /\ \A u \in Threads : u # s => pc'[u] = pc[u]
        /\ \A m \in Mains : pc'[m] = pc[m]
        /\ pc'[s] = place
    BY DEF TypeOK
  <1>2. WatchInv'
    <2>1. \A c \in Clients : Held(c)' = Held(c)
      BY <1>1 DEF Held
    <2>2. \A t \in Threads : \A e \in batch[t] : pc'[t] # "loop" => e.client # cur[t]
      BY <1>1 DEF WatchInv
    <2>. QED
      BY <2>1, <2>2 DEF WatchInv
  <1>3. ServeInv'
    BY <1>1 DEF ServeInv
  <1>4. AddInv'
    BY <1>1 DEF AddInv
  <1>5. ConnInv'
    BY <1>1 DEF ConnInv
  <1>6. WireInv' /\ ReleaseInv'
    BY <1>1 DEF WireInv, ReleaseInv
  <1>. QED
    BY <1>2, <1>3, <1>4, <1>5, <1>6

LEMMA ReadKeeps ==
  ASSUME IInv, ~aborted, NEW s \in AllSubs, Read(s) PROVE IInv'
  <1>. USE SubsAre DEF IInv, ClientInv, Read, threads
  <1>1. TypeOK'
    <2>1. cur[s] \in Clients
      BY ServedIsWatched
    <2>2. inbox' \in [Clients -> Nat]
      BY <2>1 DEF TypeOK
    <2>. QED
      BY <2>2 DEF TypeOK
  <1>2. StartInv'
    BY StartKept
  <1>3. WatchInv' /\ ServeInv' /\ AddInv' /\ ConnInv'
    BY DEF WatchInv, Held, ServeInv, AddInv, ConnInv
  <1>4. WireInv' /\ ReleaseInv'
    BY DEF WireInv, ReleaseInv
  <1>. QED
    BY <1>1, <1>2, <1>3, <1>4

LEMMA ReadFailsKeeps ==
  ASSUME IInv, ~aborted, NEW s \in AllSubs, ReadFails(s) PROVE IInv'
  <1>. USE SubsAre DEF IInv, ReadFails
  <1>1. TypeOK'
    BY DEF TypeOK, MainPlaces, SubPlaces, network
  <1>2. StartInv'
    BY StartKept DEF TypeOK
  <1>3. wire[cur[s]] = <<>>
    <2>1. PICK w \in watched : w.client = cur[s] /\ w.what = "in"
      BY ServedIsWatched
    <2>. QED
      BY <2>1 DEF ClientInv, WireInv
  <1>. QED
    BY <1>1, <1>2, <1>3, PlaceKept

LEMMA ModToWriteKeeps ==
  ASSUME IInv, ~aborted, NEW s \in AllSubs, ModToWriteEvent(s) PROVE IInv'
  <1>. USE SubsAre DEF IInv, ClientInv, ModToWriteEvent, network
  <1>. DEFINE c == cur[s]
              new == [by |-> s, client |-> c, what |-> "out"]
  <1>9. new.by = s /\ new.client = c /\ new.what = "out"
    OBVIOUS
  <1>0. PICK w \in watched :
          /\ w.by = s /\ w.client = c /\ w.what = "in"
          /\ c \in Clients /\ link[c] = "open" /\ <<s, c>> \in conns
          /\ \A v \in watched : v # w => v.client # c
          /\ \A t \in Threads : \A e \in batch[t] : e.client # c
          /\ \A m \in Mains : pc[m] = "add" => cur[m] # c
    BY ServedIsWatched
  <1>10. /\ watched' = (watched \ {w}) \union {new}
         /\ pc'[s] = "loop" /\ \A t \in Threads : t # s => pc'[t] = pc[t]
         /\ message'[c] = OneMessage(c)
         /\ \A d \in Clients : d # c => message'[d] = message[d]
         /\ new \in Watches
         /\ send_len[c] = 0 /\ wire[c] = <<>>
         /\ \A v \in watched : v.client \in Clients
         /\ s \notin Mains
    BY <1>0 DEF TypeOK, Watches, WireInv
  <1>. HIDE DEF new, c
  <1>1. TypeOK'
    BY <1>10 DEF TypeOK, MainPlaces, SubPlaces
  <1>2. StartInv'
    BY <1>10, StartKept
  <1>3. WatchInv'
    BY <1>0, <1>9, <1>10 DEF WatchInv, Held
  <1>4. ServeInv'
    <2>1. ASSUME NEW t \in Threads, pc'[t] \in {"clear", "read", "write", "release"}
          PROVE  \E v \in watched : /\ v # w /\ v.by = t /\ v.client = cur[t]
                                    /\ pc[t] = "read" => v.what = "in"
                                    /\ pc[t] = "write" => v.what = "out"
      BY <1>0, <1>10, <2>1 DEF ServeInv
    <2>. QED
      BY <1>10, <2>1 DEF ServeInv
  <1>5. AddInv'
    BY <1>0, <1>9, <1>10 DEF AddInv
  <1>6. ConnInv'
    BY <1>0, <1>9, <1>10 DEF ConnInv
  <1>7. WireInv'
    <2>1. SubSeq(OneMessage(c), 1, 0) = <<>>
      BY DEF OneMessage
    <2>2. \A v \in watched' : v = new \/ (v \in watched /\ v.client # c)
      BY <1>0, <1>10
    <2>3. \A v \in watched' : v # new /\ v.what = "out" => message'[v.client] = message[v.client]
      BY <1>10, <2>2
    <2>4. /\ message'[new.client] = OneMessage(new.client)
          /\ wire[new.client] = SubSeq(message'[new.client], 1, send_len[new.client])
      BY <1>9, <1>10, <2>1
    <2>. QED
      BY <1>9, <1>10, <2>2, <2>3, <2>4 DEF WireInv
  <1>8. ReleaseInv'
    BY <1>10 DEF ReleaseInv
  <1>. QED
    BY <1>1, <1>2, <1>3, <1>4, <1>5, <1>6, <1>7, <1>8

LEMMA WriteAgainKeeps ==
  ASSUME IInv, ~aborted, NEW s \in AllSubs, WriteAgain(s) PROVE IInv'
  <1>. USE SubsAre DEF IInv, WriteAgain
  <1>1. TypeOK'
    BY DEF TypeOK, MainPlaces, SubPlaces, network
  <1>2. StartInv'
    BY StartKept DEF TypeOK
  <1>. QED
    BY <1>1, <1>2, PlaceKept

LEMMA ReleaseKeeps ==
  ASSUME IInv, ~aborted, NEW s \in AllSubs, releaseConn(s) PROVE IInv'
  <1>. USE SubsAre, LinksAre DEF IInv, ClientInv, releaseConn
  <1>. DEFINE c == cur[s]
  <1>0. PICK w \in watched :
          /\ w.by = s /\ w.client = c
          /\ c \in Clients /\ link[c] = "open" /\ <<s, c>> \in conns
          /\ \A v \in watched : v # w => v.client # c
          /\ \A t \in Threads : \A e \in batch[t] : e.client # c
          /\ \A m \in Mains : pc[m] = "add" => cur[m] # c
          /\ \A t \in Threads :
               t # s /\ pc[t] \in {"clear", "read", "write", "release"} => cur[t] # c
    BY ServedIsWatched
  <1>9. /\ watched' = watched \ {w}
        /\ pc'[s] = "loop" /\ \A t \in Threads : t # s => pc'[t] = pc[t] /\ cur'[t] = cur[t]
        /\ link'[c] = "closed" /\ \A d \in Clients : d # c => link'[d] = link[d]
        /\ conns' = conns \ {<<s, c>>}
        /\ \A v \in watched : v.client \in Clients
        /\ s \notin Mains
    BY <1>0 DEF TypeOK, Watches
  <1>1. TypeOK'
    BY <1>0, <1>9 DEF TypeOK, MainPlaces, SubPlaces
  <1>. HIDE DEF c
  <1>2. StartInv'
    BY <1>9, StartKept
  <1>3. WatchInv'
    BY <1>0, <1>9 DEF WatchInv, Held
  <1>4. ServeInv'
    BY <1>0, <1>9 DEF ServeInv
  <1>5. AddInv'
    BY <1>0, <1>9 DEF AddInv
  <1>6. ConnInv'
    <2>1. ASSUME NEW conn \in conns'
          PROVE  \/ \E v \in watched : v # w /\ v.by = conn[1] /\ v.client = conn[2]
                 \/ /\ conn[1] \in Mains /\ pc[conn[1]] \in {"add", "delete"}
                    /\ cur[conn[1]] = conn[2]
      <3>1. conn \in conns /\ conn # <<s, c>> /\ conn = <<conn[1], conn[2]>>
        BY <1>9 DEF TypeOK
      <3>. QED
        BY <1>0, <3>1 DEF ConnInv
    <2>. QED
      BY <1>9, <2>1 DEF ConnInv
  <1>7. WireInv'
    BY <1>0, <1>9 DEF WireInv
  <1>8. ReleaseInv'
    BY <1>0, <1>9 DEF ReleaseInv
  <1>. QED
    BY <1>1, <1>2, <1>3, <1>4, <1>5, <1>6, <1>7, <1>8

\* What is written of an answer, how much of it, and what is left.
LEMMA WrittenSoFar ==
  ASSUME IInv, ~aborted, NEW s \in AllSubs, pc[s] = "write"
  PROVE  LET c == cur[s]
             k == send_len[c] IN
         /\ c \in Clients /\ k \in 0 .. 2
         /\ message[c] = OneMessage(c) /\ Len(OneMessage(c)) = 2
         /\ OneMessage(c) \in Seq({Unit(c, "head"), Unit(c, "content")})
         /\ wire[c] = SubSeq(OneMessage(c), 1, k)
         /\ Unsent(c) = SubSeq(OneMessage(c), k + 1, 2) /\ Len(Unsent(c)) = 2 - k
  <1>. DEFINE c == cur[s]
  <1>1. PICK w \in watched : w.client = c /\ w.what = "out" /\ c \in Clients
    BY ServedIsWatched
  <1>2. send_len[c] \in 0 .. 2
    BY <1>1 DEF IInv, TypeOK
  <1>3. /\ message[c] = OneMessage(c)
        /\ wire[c] = SubSeq(OneMessage(c), 1, send_len[c])
    BY <1>1 DEF IInv, ClientInv, WireInv
  <1>4. /\ Len(OneMessage(c)) = 2
        /\ OneMessage(c) \in Seq({Unit(c, "head"), Unit(c, "content")})
    BY DEF OneMessage
  <1>5. Unsent(c) = SubSeq(OneMessage(c), send_len[c] + 1, 2)
    BY <1>3, <1>4 DEF Unsent
  <1>. HIDE DEF c
  <1>6. Len(Unsent(c)) = 2 - send_len[c]
    BY <1>2, <1>4, <1>5
  <1>. QED
    BY <1>1, <1>2, <1>3, <1>4, <1>5, <1>6 DEF c

LEMMA WriteKeeps ==
  ASSUME IInv, ~aborted, NEW s \in AllSubs, Write(s) PROVE IInv'
  <1>. DEFINE c == cur[s]
              k == send_len[c]
  <1>0. PICK n \in 1 .. Len(Unsent(c)) :
          /\ unread[c] + n <= Room
          /\ wire' = [wire EXCEPT ![c] = @ \o SubSeq(Unsent(c), 1, n)]
          /\ unread' = [unread EXCEPT ![c] = @ + n]
          /\ send_len' = [send_len EXCEPT ![c] = @ + n]
    BY DEF Write
  <1>9. /\ c \in Clients /\ k \in 0 .. 2 /\ n \in 1 .. 2 - k
        /\ message[c] = OneMessage(c) /\ Len(OneMessage(c)) = 2
        /\ OneMessage(c) \in Seq({Unit(c, "head"), Unit(c, "content")})
        /\ wire[c] = SubSeq(OneMessage(c), 1, k)
        /\ Unsent(c) = SubSeq(OneMessage(c), k + 1, 2)
    BY <1>0, WrittenSoFar DEF Write
  <1>10. /\ UNCHANGED <<units, link, inbox, ended, broken, subReactorCnt, EpollFd,
                 EpollInitCnt, pc, index, batch, cur, conns, watched, message,
                 aborted>>
         /\ pc[s] = "write"
    BY DEF Write
  <1>11. SubSeq(OneMessage(c), 1, k) \o SubSeq(SubSeq(OneMessage(c), k + 1, 2), 1, n)
           = SubSeq(OneMessage(c), 1, k + n)
    <2>. DEFINE msg == OneMessage(c)
                parts == {Unit(c, "head"), Unit(c, "content")}
    <2>1. msg \in Seq(parts) /\ Len(msg) = 2 /\ k \in 0 .. 2 /\ n \in 1 .. 2 - k
      BY <1>9
    <2>. HIDE DEF msg, parts, k
    <2>2. SubSeq(msg, 1, k) \o SubSeq(SubSeq(msg, k + 1, Len(msg)), 1, n)
            = SubSeq(msg, 1, k + n)
      BY <2>1, WritesGoOn
    <2>. QED
      BY <2>1, <2>2 DEF msg
  <1>. USE SubsAre DEF IInv, ClientInv
  <1>12. PICK w \in watched :
           /\ w.by = s /\ w.client = c /\ w.what = "out" /\ link[c] = "open"
           /\ \A v \in watched : v # w => v.client # c
           /\ \A m \in Mains : pc[m] = "add" => cur[m] # c
           /\ \A t \in Threads :
                t # s /\ pc[t] \in {"clear", "read", "write", "release"} => cur[t] # c
    BY <1>10, ServedIsWatched
  <1>13. /\ \A d \in Clients : d # c => wire'[d] = wire[d] /\ send_len'[d] = send_len[d]
         /\ send_len'[c] = k + n /\ wire'[c] = SubSeq(OneMessage(c), 1, k + n)
         /\ \A v \in watched : v.client \in Clients
    BY <1>0, <1>9, <1>11 DEF TypeOK, Watches
  <1>. HIDE DEF c, k
  <1>1. TypeOK'
    <2>1. unread \in [Clients -> 0 .. Room] /\ Room \in Nat /\ c \in Clients
      BY <1>9, ReactorAssumption DEF TypeOK, ReactorAssumption
    <2>2. unread[c] + n \in 0 .. Room
      BY <1>0, <1>9, <2>1
    <2>3. unread' \in [Clients -> 0 .. Room]
      BY <1>0, <2>1, <2>2
    <2>4. send_len' \in [Clients -> 0 .. 2]
      <3>1. send_len \in [Clients -> 0 .. 2]
        BY DEF TypeOK
      <3>2. k + n \in 0 .. 2
        BY <1>9
      <3>3. send_len' = [send_len EXCEPT ![c] = k + n]
        BY <1>0, <1>9, <3>1 DEF k
      <3>. QED
        BY <1>9, <3>1, <3>2, <3>3
    <2>. QED
      BY <1>0, <1>10, <2>3, <2>4 DEF TypeOK
  <1>2. StartInv'
    BY <1>10, StartKept
  <1>3. WatchInv'
    BY <1>10 DEF WatchInv, Held
  <1>4. ServeInv'
    BY <1>10 DEF ServeInv
  <1>5. AddInv'
    BY <1>10 DEF AddInv
  <1>6. ConnInv'
    BY <1>10 DEF ConnInv
  <1>7. WireInv'
    BY <1>9, <1>10, <1>12, <1>13 DEF WireInv, AddInv
  <1>8. ReleaseInv'
    <2>1. ASSUME NEW r \in AllSubs, pc[r] = "release"
          PROVE  cur[r] # c /\ cur[r] \in Clients
      BY <1>10, <1>12, <2>1, ServedIsWatched
    <2>. QED
      BY <1>10, <1>13, <2>1 DEF ReleaseInv
  <1>. QED
    BY <1>1, <1>2, <1>3, <1>4, <1>5, <1>6, <1>7, <1>8

LEMMA WriteEndsKeeps ==
  ASSUME IInv, ~aborted, NEW s \in AllSubs, WriteEnds(s) PROVE IInv'
  <1>. USE SubsAre DEF IInv, WriteEnds
  <1>1. TypeOK'
    BY DEF TypeOK, MainPlaces, SubPlaces, network
  <1>2. StartInv'
    BY StartKept DEF TypeOK
  <1>3. Unsent(cur[s]) = <<>> => wire[cur[s]] = OneMessage(cur[s])
    <2>. DEFINE c == cur[s]
    <2>1. /\ send_len[c] \in 0 .. 2 /\ Len(Unsent(c)) = 2 - send_len[c]
          /\ wire[c] = SubSeq(OneMessage(c), 1, send_len[c])
          /\ Len(OneMessage(c)) = 2
          /\ OneMessage(c) \in Seq({Unit(c, "head"), Unit(c, "content")})
      BY WrittenSoFar
    <2>. HIDE DEF c
    <2>2. ASSUME Unsent(c) = <<>> PROVE wire[c] = OneMessage(c)
      <3>1. send_len[c] = 2
        BY <2>1, <2>2
      <3>. QED
        BY <2>1, <3>1, SubSeqFull
    <2>. QED
      BY <2>2 DEF c
  <1>. QED
    BY <1>1, <1>2, <1>3, PlaceKept

-----------------------------------------------------------------------------
LEMMA NextKeeps == ASSUME IInv, [Next]_vars PROVE IInv'
  <1>1. ASSUME ~aborted, NEW t \in Threads, Step(t) PROVE IInv'
    <2>1. CASE t \in Mains /\ MainReactor(t)
      BY <1>1, <2>1, BarrierKeeps, LoopAcceptKeeps, ClearEventKeeps, AddToKeeps,
         DeleteKeeps DEF MainReactor
    <2>2. CASE t \in AllSubs /\ SubReactor(t)
      BY <1>1, <2>2, CreateEpollKeeps, CreateFailsKeeps, NotifyKeeps, ReadKeeps,
         ModToWriteKeeps, ReadFailsKeeps, WriteKeeps, WriteAgainKeeps,
         WriteEndsKeeps, ReleaseKeeps DEF SubReactor
    <2>3. CASE Loop(t)
      BY <1>1, <2>3, EpollWaitKeeps, TakeKeeps DEF Loop
    <2>. QED
      BY <1>1, <2>1, <2>2, <2>3, SubsAre DEF Step, Thread
  <1>2. ASSUME ~aborted, NEW c \in Clients, Client(c) PROVE IInv'
    BY <1>2, ClientKeeps
  <1>3. CASE UNCHANGED vars
    <2>. USE <1>3 DEF vars, network, threads
    <2>1. TypeOK'
      BY DEF IInv, TypeOK
    <2>2. StartInv'
      BY StartKept DEF IInv
    <2>3. WatchInv' = WatchInv /\ ServeInv' = ServeInv /\ AddInv' = AddInv
      BY DEF WatchInv, Held, ServeInv, AddInv
    <2>4. ConnInv' = ConnInv /\ WireInv' = WireInv /\ ReleaseInv' = ReleaseInv
      BY DEF ConnInv, WireInv, ReleaseInv
    <2>. QED
      BY <2>1, <2>2, <2>3, <2>4 DEF IInv, ClientInv
  <1>. QED
    BY <1>1, <1>2, <1>3 DEF Next, Step, Thread

(***************************************************************************)
(* The inductive invariant of the reactors: the types, the start-up        *)
(* barrier, and where each client's connection is: who watches it, who     *)
(* serves it, who holds a Conn of it, and what was written to it.          *)
(***************************************************************************)
THEOREM Invariance == Spec => []IInv
  BY InitInv, NextKeeps, PTL DEF Spec

(***************************************************************************)
(* With no more sub reactors than CPUs, the start-up barrier keeps main    *)
(* reactors from using a slot of EpollFd that was never filled: it counts  *)
(* as many sub reactors as there are slots, each with a slot of its own.   *)
(***************************************************************************)
THEOREM SlotTheorem == Spec => []SlotFilled
  <1>1. ASSUME IInv PROVE SlotFilled
    <2>. SUFFICES ASSUME subReactorCnt <= Cpus, NEW m \in Mains, pc[m] = "add"
                  PROVE  NextSlot(m) \in EpollFd
      BY DEF SlotFilled
    <2>. DEFINE slots == 0 .. Cpus - 1
    <2>1. NextSlot(m) \in slots
      BY <1>1, SlotsAre DEF IInv
    <2>2. Counted \subseteq slots
      <3>1. Cpus \in Nat /\ subReactorCnt \in Nat
        BY <1>1, ReactorAssumption DEF IInv, TypeOK, ReactorAssumption
      <3>2. \A s \in Counted : s \in Nat /\ s < subReactorCnt
        BY <1>1, SubsAre DEF IInv, StartInv, Counted
      <3>. QED
        BY <3>1, <3>2
    <2>3. Cpus \in Nat /\ IsFiniteSet(slots) /\ Cardinality(slots) = Cpus
      BY ReactorAssumption, FS_Interval DEF ReactorAssumption
    <2>4. Cardinality(Counted) >= Cpus
      BY <1>1, <2>3 DEF IInv, StartInv
    <2>5. Counted = slots
      <3>. HIDE DEF slots
      <3>1. /\ IsFiniteSet(Counted) /\ Cardinality(Counted) <= Cardinality(slots)
            /\ Cardinality(slots) = Cardinality(Counted) => slots = Counted
        BY <2>2, <2>3, FS_Subset
      <3>2. Cardinality(Counted) \in Nat
        BY <3>1, FS_CardinalityType
      <3>. QED
        BY <2>3, <2>4, <3>1, <3>2
    <2>. QED
      BY <1>1, <2>1, <2>5 DEF IInv, StartInv
  <1>. QED
    BY <1>1, Invariance, PTL

(***************************************************************************)
(* An open connection is always watched by exactly one reactor, except     *)
(* while a main reactor hands it over, and no Conn is used after it was    *)
(* freed or left behind when its connection is closed.                     *)
(***************************************************************************)
THEOREM WatchTheorem == Spec => []WatchedOnce
  <1>1. ASSUME IInv PROVE WatchedOnce
    <2>. SUFFICES ASSUME ~aborted PROVE WatchedOnce
      BY DEF WatchedOnce
    <2>. USE <1>1, SubsAre DEF IInv, ClientInv
    <2>1. ASSUME NEW c \in Clients
          PROVE  Cardinality({w \in watched : w.client = c}) <= 1
      BY AtMostOne DEF WatchInv
    <2>2. ASSUME NEW c \in Clients, link[c] = "open"
          PROVE  Held(c) \/ \E w \in watched : w.client = c
      BY <2>2 DEF WatchInv
    <2>3. ASSUME NEW conn \in conns
          PROVE  \/ link[conn[2]] = "open"
                 \/ pc[conn[1]] = "delete" /\ cur[conn[1]] = conn[2]
      <3>1. CASE \E w \in watched : w.by = conn[1] /\ w.client = conn[2]
        BY <3>1 DEF WatchInv
      <3>2. CASE conn[1] \in Mains /\ pc[conn[1]] \in {"add", "delete"} /\ cur[conn[1]] = conn[2]
        BY <3>2 DEF AddInv
      <3>. QED
        BY <3>1, <3>2 DEF ConnInv
    <2>4. /\ \A w \in watched : <<w.by, w.client>> \in conns
          /\ \A t \in Threads : \A e \in batch[t] : <<t, e.client>> \in conns
      BY DEF WatchInv
    <2>5. ASSUME NEW t \in Threads,
                 pc[t] \in {"clear", "add", "delete", "read", "write", "release"}
          PROVE  <<t, cur[t]>> \in conns
      <3>1. CASE pc[t] \in {"add", "delete"}
        BY <3>1 DEF AddInv, TypeOK, SubPlaces
      <3>2. CASE pc[t] \in {"clear", "read", "write", "release"}
        BY <3>2 DEF ServeInv, WatchInv
      <3>. QED
        BY <2>5, <3>1, <3>2
    <2>. QED
      BY <2>1, <2>2, <2>3, <2>4, <2>5 DEF WatchedOnce
  <1>. QED
    BY <1>1, Invariance, PTL

-----------------------------------------------------------------------------
(***************************************************************************)
(* The server implements AnswerService.                                    *)
(***************************************************************************)
LEMMA InitMaps == Init => Service!Init
  BY LinksAre DEF Init, Service!Init, Phase

\* What no client can see.
LEMMA Unseen ==
  ASSUME UNCHANGED <<link, wire, broken>> PROVE UNCHANGED Service!vars
  BY DEF Service!vars, Phase

LEMMA ClientMaps ==
  ASSUME IInv, NEW c \in Clients, Client(c)
  PROVE  Service!Next \/ UNCHANGED Service!vars
  <1>1. ASSUME NEW m \in Mains, Connect(c, m) PROVE UNCHANGED Service!vars
    <2>1. \A d \in Clients : Phase(d)' = Phase(d)
      BY <1>1, LinksAre DEF Connect, Phase, IInv, TypeOK
    <2>. QED
      BY <1>1, <2>1 DEF Connect, Service!vars
  <1>2. CASE Deliver(c) \/ Finish(c) \/ Drain(c)
    BY <1>2, Unseen DEF Deliver, Finish, Drain
  <1>3. CASE Reset(c)
    <2>1. Service!Leave(c)
      BY <1>3 DEF Reset, Service!Leave, Phase, IInv, TypeOK
    <2>. QED
      BY <2>1 DEF Service!Next
  <1>. QED
    BY <1>1, <1>2, <1>3 DEF Client

LEMMA LoopAcceptMaps ==
  ASSUME IInv, ~aborted, NEW m \in Mains, NEW c \in Clients, LoopAccept(m, c)
  PROVE  Service!Next
  <1>1. Service!Open(c)
    BY LinksAre DEF LoopAccept, Service!Open, Phase, IInv, TypeOK
  <1>. QED
    BY <1>1 DEF Service!Next

LEMMA ReleaseMaps ==
  ASSUME IInv, ~aborted, NEW s \in AllSubs, releaseConn(s) PROVE Service!Next
  <1>. DEFINE c == cur[s]
  <1>1. c \in Clients /\ link[c] = "open"
    BY ServedIsWatched DEF releaseConn
  <1>2. wire[c] \in {<<>>, OneMessage(c)} \/ broken[c] # "no"
    BY DEF IInv, ClientInv, ReleaseInv, releaseConn
  <1>3. Service!Close(c)
    BY <1>1, <1>2 DEF releaseConn, Service!Close, Phase, IInv, TypeOK
  <1>. QED
    BY <1>1, <1>3 DEF Service!Next

LEMMA WriteMaps ==
  ASSUME IInv, ~aborted, NEW s \in AllSubs, Write(s) PROVE Service!Next
  <1>. DEFINE c == cur[s]
              k == send_len[c]
              msg == OneMessage(c)
              parts == {Unit(c, "head"), Unit(c, "content")}
  <1>1. PICK n \in 1 .. Len(Unsent(c)) :
          wire' = [wire EXCEPT ![c] = @ \o SubSeq(Unsent(c), 1, n)]
    BY DEF Write
  <1>2. /\ c \in Clients /\ k \in 0 .. 2 /\ n \in 1 .. 2 - k
        /\ msg \in Seq(parts) /\ Len(msg) = 2 /\ wire[c] = SubSeq(msg, 1, k)
        /\ Unsent(c) = SubSeq(msg, k + 1, Len(msg))
        /\ DOMAIN wire = Clients
    BY <1>1, WrittenSoFar DEF Write, IInv, TypeOK
  <1>3. link[c] = "open"
    BY ServedIsWatched DEF Write
  <1>4. UNCHANGED <<link, broken>>
    BY DEF Write
  <1>. HIDE DEF c, k, msg, parts
  <1>5. wire'[c] = SubSeq(msg, 1, k + n)
    BY <1>1, <1>2, WritesGoOn
  <1>6. k + n \in 0 .. Len(msg) /\ k \in 0 .. k + n /\ k # k + n
    BY <1>2
  <1>7. IsStrictPrefix(wire[c], wire'[c])
    BY <1>2, <1>5, <1>6, PrefixesAreOrdered DEF IsStrictPrefix
  <1>8. IsPrefix(wire'[c], msg)
    <2>1. SubSeq(msg, 1, Len(msg)) = msg
      BY <1>2, SubSeqFull
    <2>2. Len(msg) \in 0 .. Len(msg)
      BY <1>2
    <2>3. IsPrefix(SubSeq(msg, 1, k + n), SubSeq(msg, 1, Len(msg)))
      BY <1>2, <1>6, <2>2, PrefixesAreOrdered
    <2>. QED
      BY <1>5, <2>1, <2>3
  <1>9. Service!Send(c)
    <2>1. wire' = [d \in Clients |-> IF d = c THEN wire'[c] ELSE wire[d]]
      BY <1>1, <1>2
    <2>2. \E a \in [d \in Clients |-> {OneMessage(d)}][c] : Service!IsPrefix(wire'[c], a)
      BY <1>2, <1>8 DEF msg, IsPrefix, Service!IsPrefix
    <2>3. Service!IsStrictPrefix(wire[c], wire'[c])
      BY <1>7 DEF IsStrictPrefix, IsPrefix, Service!IsStrictPrefix, Service!IsPrefix
    <2>4. /\ [d \in Clients |-> Phase(d)][c] = "open"
          /\ UNCHANGED [d \in Clients |-> Phase(d)]
          /\ UNCHANGED {d \in Clients : broken[d] # "no"}
      BY <1>2, <1>3, <1>4 DEF Phase
    <2>. QED
      BY <2>1, <2>2, <2>3, <2>4 DEF Service!Send
  <1>. QED
    BY <1>2, <1>9 DEF Service!Next

LEMMA StepMaps == IInv /\ [Next]_vars => [Service!Next]_(Service!vars)
  <1>. SUFFICES ASSUME IInv, [Next]_vars PROVE Service!Next \/ UNCHANGED Service!vars
    OBVIOUS
  <1>1. ASSUME ~aborted, NEW t \in Threads, Step(t)
        PROVE  Service!Next \/ UNCHANGED Service!vars
    <2>. USE DEF network
    <2>1. CASE t \in Mains /\ MainReactor(t)
      BY <1>1, <2>1, LoopAcceptMaps, Unseen
         DEF MainReactor, waitSubReactor, MainFails, ClearEvent, addToSubReactor, DeleteConn
    <2>2. CASE t \in AllSubs /\ SubReactor(t)
      BY <1>1, <2>2, WriteMaps, ReleaseMaps, Unseen
         DEF SubReactor, CreateEpoll, CreateFails, subReactorNotifyReady, Read,
             ModToWriteEvent, ReadFails, WriteAgain, WriteEnds
    <2>3. CASE Loop(t)
      BY <2>3, Unseen DEF Loop, EpollWait, Take
    <2>. QED
      BY <1>1, <2>1, <2>2, <2>3, SubsAre DEF Step, Thread
  <1>2. ASSUME NEW c \in Clients, Client(c)
        PROVE  Service!Next \/ UNCHANGED Service!vars
    BY <1>2, ClientMaps
  <1>3. CASE UNCHANGED vars
    BY <1>3, Unseen DEF vars, network
  <1>. QED
    BY <1>1, <1>2, <1>3 DEF Next, Step, Thread

(***************************************************************************)
(* Each client sees one connection, on which it is sent its answer from    *)
(* the beginning, and which is closed once, after all of it or nothing,    *)
(* whichever reactors its connection passes through.                       *)
(***************************************************************************)
THEOREM Refinement == Spec => ImplementsService
  BY InitMaps, StepMaps, Invariance, PTL DEF Spec, ImplementsService, Service!Spec
=============================================================================
