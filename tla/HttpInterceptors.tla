--------------------------- MODULE HttpInterceptors ---------------------------
(***************************************************************************)
(* The interceptors of one request (httpserver.cpp, pathMatch and the loop *)
(* of onRead).  A path or pattern is the sequence of its components; an    *)
(* interceptor is [paths, calls]: the patterns of interceptPath() and the  *)
(* functions of the context, "next" and "abort", its handler calls.        *)
(* addInterceptor sorts the pointers, not the objects, so the chain is in  *)
(* an order that order() has no part in: any sequence is a chain.          *)
(***************************************************************************)
EXTENDS Integers, Sequences, SequencesExt

\* One component alone, as the inner call of pathMatch sees it.
componentMatch(p, component) == p \in {"*", "**", component}

(***************************************************************************)
(* Pattern and path are compared component by component until one of them  *)
(* ends or "**" comes.  A "**" that is not the last component looks for    *)
(* one component that the next one matches and forgets the rest.           *)
(***************************************************************************)
pathMatch(pattern, path) ==
  LET last == Min({i \in 1 .. Len(pattern) + 1 :
                     i > Len(pattern) \/ i > Len(path) \/ pattern[i] = "**"})
  IN /\ \A i \in 1 .. last - 1 : pattern[i] \in {"*", path[i]}
     /\ IF last > Len(pattern) \/ last > Len(path) THEN Len(pattern) = Len(path)
        ELSE \/ last = Len(pattern)
             \/ \E i \in last .. Len(path) : componentMatch(pattern[last + 1], path[i])

Intercepts(interceptor, path) ==
  \E i \in DOMAIN interceptor.paths : pathMatch(interceptor.paths[i], path)

\* Wrong: each interceptor has to call next for the one after it.
WrongAfter(run, interceptor, i, path) ==
  IF run.stopped THEN run
  ELSE LET runs  == Intercepts(interceptor, path)
           next  == runs /\ "next" \in interceptor.calls
           abort == runs /\ "abort" \in interceptor.calls
       IN [ran     |-> IF runs THEN Append(run.ran, i) ELSE run.ran,
           next    |-> next,
           abort   |-> abort,
           stopped |-> abort \/ ~next]

(***************************************************************************)
(* One round of the loop.  next and abort are set by the handlers and      *)
(* never reset, so one call of next serves all the later interceptors; an  *)
(* interceptor that does not match still ends the loop while next is       *)
(* false.                                                                  *)
(***************************************************************************)
After(run, interceptor, i, path) ==
  IF run.stopped THEN run
  ELSE LET runs  == Intercepts(interceptor, path)
           next  == run.next \/ (runs /\ "next" \in interceptor.calls)
           abort == run.abort \/ (runs /\ "abort" \in interceptor.calls)
       IN [ran     |-> IF runs THEN Append(run.ran, i) ELSE run.ran,
           next    |-> next,
           abort   |-> abort,
           stopped |-> abort \/ ~next]

Chain(interceptors, path) ==
  LET run[i \in 0 .. Len(interceptors)] ==
        IF i = 0 THEN [ran |-> <<>>, next |-> FALSE, abort |-> FALSE, stopped |-> FALSE]
        ELSE After(run[i - 1], interceptors[i], i, path)
  IN run[Len(interceptors)]

\* The server dispatches the request unless an interceptor aborted it.
Dispatched(interceptors, path) == ~Chain(interceptors, path).abort

-----------------------------------------------------------------------------
(***************************************************************************)
(* What a pattern covers when "**" can only be its last component: there   *)
(* it stands for any components, least of them or more.  The code takes    *)
(* one at least; the comment in pathMatch says zero or more.               *)
(***************************************************************************)
Simple(pattern) == \A i \in DOMAIN pattern : pattern[i] = "**" => i = Len(pattern)

Covers(pattern, path, least) ==
  LET fixed == IF pattern # <<>> /\ Last(pattern) = "**" THEN Len(pattern) - 1
               ELSE Len(pattern)
  IN /\ IF fixed = Len(pattern) THEN Len(path) = fixed ELSE Len(path) >= fixed + least
     /\ \A i \in 1 .. fixed : pattern[i] \in {"*", path[i]}

(***************************************************************************)
(* The interceptors that run are exactly those that cover the path and are *)
(* reached, in order, up to the first that aborts, and the request is      *)
(* dispatched if and only if none of them does.  All are reached when the  *)
(* first interceptor of the chain covers the path and calls next, which    *)
(* then carries over the ones that do not match or do not call it; else    *)
(* none but the first is, and the request passes by the guards after it.   *)
(***************************************************************************)
RunsAsCovered(interceptors, path, least) ==
  LET covering == {i \in DOMAIN interceptors :
                     \E j \in DOMAIN interceptors[i].paths :
                       Covers(interceptors[i].paths[j], path, least)}
      goesOn   == 1 \in covering /\ "next" \in interceptors[1].calls
      reached  == IF goesOn THEN covering ELSE covering \intersect {1}
      aborting == {i \in reached : "abort" \in interceptors[i].calls}
      ran      == Chain(interceptors, path).ran
  IN (\A i \in DOMAIN interceptors :
        \A j \in DOMAIN interceptors[i].paths : Simple(interceptors[i].paths[j]))
     => /\ {ran[k] : k \in DOMAIN ran} = {i \in reached : \A a \in aborting : i <= a}
        /\ \A k, l \in DOMAIN ran : k < l => ran[k] < ran[l]
        /\ Dispatched(interceptors, path) <=> aborting = {}
=============================================================================
