---------------------------- MODULE HttpExchange ----------------------------
(***************************************************************************)
(* One request and its answer, without the connection: where the handler   *)
(* looks for the end of the header, what it takes the request for, and     *)
(* what it answers.  A stream of bytes is a sequence of units:             *)
(*   "get", "post", "file"  a complete header, of a request with a route,  *)
(*                          of one whose handler reads a body, of a file   *)
(*   "line"                 a piece of a header without its end            *)
(*   "rest"                 the remainder of the header of a "get"         *)
(*   "bad", "unknown"       a header that does not parse, one with a       *)
(*                          method stringToMethod does not know            *)
(*   "body"                 bytes behind a header                          *)
(***************************************************************************)
EXTENDS Integers, Sequences, SequencesExt, FiniteSetsExt

HeaderEnds == {"get", "post", "file", "rest", "bad", "unknown"}

(***************************************************************************)
(* indexOf(String(data), HEADER_END): the handler searches the chunk it    *)
(* has just read, not what it has collected.                               *)
(***************************************************************************)
EndFound(chunk) == \E i \in DOMAIN chunk : chunk[i] \in HeaderEnds
EndAt(chunk) == Min({i \in DOMAIN chunk : chunk[i] \in HeaderEnds})

(***************************************************************************)
(* What the request is taken for.  The index found in the last chunk is    *)
(* applied to everything collected, so a header that fills the buffer is   *)
(* cut somewhere inside its first chunk: it may or may not still parse.    *)
(***************************************************************************)
Taken(buff, chunk) ==
  IF buff # chunk THEN {"bad", "get"}
  ELSE {IF chunk[EndAt(chunk)] = "rest" THEN "get" ELSE chunk[EndAt(chunk)]}

(***************************************************************************)
(* readBody for a body of one unit: bytes that came with the header first, *)
(* then the socket, which may have none (the -1 of read makes the length   *)
(* wrong and the handler of main.cpp answers 400).                         *)
(***************************************************************************)
Preread(chunk) == SubSeq(chunk, EndAt(chunk) + 1, Len(chunk))
ReadsSocket(buff, chunk) == buff = chunk /\ Preread(chunk) = <<>>
BodyComplete(buff, chunk, inbox) ==
  ~ReadsSocket(buff, chunk) \/ inbox # <<>>

(***************************************************************************)
(* What the destructor of HttpResponseWriter puts into the send buffer:    *)
(* status line and headers, then the body.                                 *)
(***************************************************************************)
Unit(c, part) == [to |-> c, part |-> part]
Answer(c, status) == <<Unit(c, status), Unit(c, "content")>>

(***************************************************************************)
(* sendfile: the head goes to the send buffer, and of the file (two units) *)
(* whatever the socket has room for straight to the socket, that is in     *)
(* front of its head; the rest of the file is not sent at all.             *)
(***************************************************************************)
FileHead(c) == <<Unit(c, "200")>>
FileSent(c, room) == [i \in 1 .. Min({room, 2}) |-> Unit(c, "file")]

(***************************************************************************)
(* The answers a client may receive, for AnswerService: a page, a refusal, *)
(* or a file as sendfile leaves it.                                        *)
(***************************************************************************)
AnswersOf(c) ==
  {Answer(c, "200"), Answer(c, "400")}
    \union {FileSent(c, room) \o FileHead(c) : room \in 0 .. 2}
=============================================================================
