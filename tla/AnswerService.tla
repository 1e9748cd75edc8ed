--------------------------- MODULE AnswerService ---------------------------
(***************************************************************************)
(* What both servers of the library promise a client, whatever their event *)
(* loops look like: a connection is opened once and closed once, while it  *)
(* is open nothing is written to it but one answer of its own, a client    *)
(* that is still there gets that answer whole or not at all, and nothing   *)
(* is written to it after it was closed.  PollServer and ReactorServer     *)
(* implement this specification.                                           *)
(***************************************************************************)
EXTENDS Sequences, SequencesExt

CONSTANTS
  Clients,
  Answers       \* [Clients -> set of sequences]: the answers a client may get

VARIABLES
  phase,        \* [Clients -> {"waiting", "open", "closed"}]
  got,          \* [Clients -> sequence]: what was written to the connection
  gone          \* clients that have left, who may be cut short

vars == <<phase, got, gone>>

Init ==
  /\ phase = [c \in Clients |-> "waiting"]
  /\ got = [c \in Clients |-> <<>>]
  /\ gone = {}

Open(c) ==
  /\ phase[c] = "waiting"
  /\ phase' = [phase EXCEPT ![c] = "open"]
  /\ UNCHANGED <<got, gone>>

Send(c) ==
  /\ phase[c] = "open"
  /\ got' = [d \in Clients |-> IF d = c THEN got'[c] ELSE got[d]]
  /\ IsStrictPrefix(got[c], got'[c])
  /\ \E a \in Answers[c] : IsPrefix(got'[c], a)
  /\ UNCHANGED <<phase, gone>>

Close(c) ==
  /\ phase[c] = "open"
  /\ got[c] = <<>> \/ got[c] \in Answers[c] \/ c \in gone
  /\ phase' = [phase EXCEPT ![c] = "closed"]
  /\ UNCHANGED <<got, gone>>

Leave(c) ==
  /\ c \notin gone
  /\ gone' = gone \union {c}
  /\ UNCHANGED <<phase, got>>

Next == \E c \in Clients : Open(c) \/ Send(c) \/ Close(c) \/ Leave(c)

Spec == Init /\ [][Next]_vars
=============================================================================
