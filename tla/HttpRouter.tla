----------------------------- MODULE HttpRouter -----------------------------
(***************************************************************************)
(* The routes of one method (http_router.cpp, http_router_trie.cpp): a     *)
(* trie whose nodes are kept in the order of creation.  A path is a        *)
(* sequence of components; a component of a pattern is a literal, ":x"     *)
(* (any one component) or "*p" (one or more, the last of its pattern).     *)
(***************************************************************************)
EXTENDS Integers, Sequences, SequencesExt

CONSTANTS
  Literals,     \* the components that are taken literally
  Singles,      \* the wildcards for one component
  Rests,        \* the wildcards for the rest of a path
  MaxParts,     \* the longest pattern has so many components
  MaxRoutes

VARIABLES
  nodes,      \* sequence of [parent, part, pattern]; node 1 is the root
  handlers    \* the patterns registered, in order

vars == <<nodes, handlers>>

Wild == Singles \union Rests
NoPattern == <<"">>     \* no component is empty

\* parsePattern ends with a component that stands for the rest.
Routes ==
  {p \in UNION {[1 .. k -> Literals \union Wild] : k \in 0 .. MaxParts} :
     \A i \in DOMAIN p : p[i] \in Rests => i = Len(p)}

Node(parent, part) == [parent |-> parent, part |-> part, pattern |-> NoPattern]

(***************************************************************************)
(* matchChild(ren): the children that have the part or are wild.  Nodes    *)
(* are numbered in the order of creation, which is that of _children.      *)
(***************************************************************************)
matchChildren(trie, n, part) ==
  {i \in DOMAIN trie : trie[i].parent = n /\ trie[i].part \in Wild \union {part}}

(***************************************************************************)
(* insert goes into the first such child, also when that is a wildcard and *)
(* the part is not, and makes one if there is none.                        *)
(***************************************************************************)
insertPart(at, part) ==
  LET children == matchChildren(at.trie, at.node, part)
  IN IF children # {} THEN [trie |-> at.trie, node |-> Min(children)]
     ELSE [trie |-> Append(at.trie, Node(at.node, part)), node |-> Len(at.trie) + 1]

insert(trie, pattern) ==
  LET at[height \in 0 .. Len(pattern)] ==
        IF height = 0 THEN [trie |-> trie, node |-> 1]
        ELSE insertPart(at[height - 1], pattern[height])
      last == at[Len(pattern)]
  IN [i \in DOMAIN last.trie |->
        IF i = last.node
        THEN [parent |-> last.trie[i].parent, part |-> last.trie[i].part, pattern |-> pattern]
        ELSE last.trie[i]]

\* Wrong: search follows the first child that matches and does not come back.
Wrongfirst(children, hit) == IF children = {} THEN 0 ELSE hit[Min(children)]

\* The result of the first child that has one, or 0
first(children, hit) ==
  LET hits == {c \in children : hit[c] # 0}
  IN IF hits = {} THEN 0 ELSE hit[Min(hits)]

\* search: what is found below each node at each height, or 0
search(trie, path) ==
  LET hit[height \in 0 .. Len(path)] ==
        [n \in DOMAIN trie |->
           IF height = Len(path) \/ trie[n].part \in Rests
           THEN IF trie[n].pattern = NoPattern THEN 0 ELSE n
           ELSE first(matchChildren(trie, n, path[height + 1]), hit[height + 1])]
  IN hit[0][1]

getRoute(path) ==
  LET n == search(nodes, path)
  IN IF n = 0 THEN NoPattern ELSE nodes[n].pattern

-----------------------------------------------------------------------------
Init == nodes = <<Node(0, "")>> /\ handlers = <<>>

\* A pattern that is registered already is an error and changes nothing.
addRoute(pattern) ==
  /\ \A i \in DOMAIN handlers : handlers[i] # pattern
  /\ nodes' = insert(nodes, pattern)
  /\ handlers' = Append(handlers, pattern)

Next ==
  \E pattern \in Routes : Len(handlers) < MaxRoutes /\ addRoute(pattern)

-----------------------------------------------------------------------------
Matches(pattern, path) ==
  /\ \A i \in DOMAIN pattern :
       /\ i \in DOMAIN path
       /\ pattern[i] \in Wild \union {path[i]}
  /\ Len(pattern) = Len(path) \/ (pattern # <<>> /\ Last(pattern) \in Rests)

(***************************************************************************)
(* A pattern shadows a later one when they agree up to a wildcard of the   *)
(* first that is something else in the second: insert then puts the second *)
(* into the wildcard's node.                                               *)
(***************************************************************************)
Shadows(p, q) ==
  \E i \in DOMAIN p \intersect DOMAIN q :
    /\ SubSeq(p, 1, i - 1) = SubSeq(q, 1, i - 1)
    /\ p[i] \in Wild /\ p[i] # q[i]

Orderly ==
  \A i, j \in DOMAIN handlers : i < j => ~Shadows(handlers[i], handlers[j])

RequestPaths == UNION {[1 .. k -> Literals] : k \in 0 .. MaxParts + 1}

(***************************************************************************)
(* Unless a route was registered behind a wildcard that shadows it, the    *)
(* route found for a path is one that matches it, and there is one if any  *)
(* route matches: literals tried first and wildcards after them, with      *)
(* backtracking.                                                           *)
(***************************************************************************)
RouteFound ==
  Orderly =>
    \A path \in RequestPaths :
      IF \E i \in DOMAIN handlers : Matches(handlers[i], path)
      THEN getRoute(path) \in ToSet(handlers) /\ Matches(getRoute(path), path)
      ELSE getRoute(path) = NoPattern
=============================================================================
