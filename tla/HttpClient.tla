------------------------------ MODULE HttpClient ------------------------------
(***************************************************************************)
(* The HTTP client (httpclient.cpp, httprequest.cpp, httpresponse.cpp):    *)
(* one request object that is filled and sent again and again, and the     *)
(* reading of an answer from a blocking socket.  A url is [host, port,     *)
(* path, query], with port 0 when it has none; a server's answer is        *)
(* [length, body], its Content-Length (0 when it has none) and the bytes   *)
(* it sends after the head; a byte is "x", or "0" for NUL.  setTimeout     *)
(* acts on the descriptor of the request before, so a read has no time     *)
(* limit.                                                                  *)
(***************************************************************************)
EXTENDS Integers, Sequences, SequencesExt, TLC

CONSTANTS
  Urls, Methods, Bodies, Answers,
  Piece,       \* BUFFER_SIZE - 1, the most bytes of a body read at once
  MaxSends, MaxQuery

NoBody == <<>>
Nothing == [method |-> "", host |-> "", port |-> 0, path |-> "", header |-> <<>>, body |-> NoBody]

VARIABLES
  _port, _query, _header, _body,   \* what the request object keeps
  url,          \* the url of the request under way
  sent,         \* the request on the wire
  answer,       \* what the server has for it
  arrived,      \* the bytes of the answer's body read so far
  remaining,    \* bytes of the body still to be read
  body,         \* the body of the response so far
  phase,        \* idle, head, body, done, or thrown
  sends

kept == <<_port, _query, _header, _body>>
reading == <<answer, arrived, remaining, body>>
vars == <<kept, url, sent, reading, phase, sends>>

NoUrl == [host |-> "", port |-> 0, path |-> "", query |-> <<>>]

Init ==
  /\ _port = 80 /\ _query = <<>> /\ _header = <<>> /\ _body = NoBody
  /\ url = NoUrl /\ sent = Nothing
  /\ answer = [length |-> 0, body |-> <<>>]
  /\ arrived = 0 /\ remaining = 0 /\ body = <<>>
  /\ phase = "idle" /\ sends = 0

Ready == phase \in {"idle", "done"} /\ sends < MaxSends

Values(f, key) == IF key \in DOMAIN f THEN f[key] ELSE <<>>
Set(f, key, values) == (key :> values) @@ f
Add(f, key, values) == Set(f, key, Values(f, key) \o values)

setHeader(key, value) ==
  /\ Ready /\ _header' = Set(_header, key, <<value>>)
  /\ UNCHANGED <<_port, _query, _body, url, sent, reading, phase, sends>>

addHeader(key, value) ==
  /\ Ready /\ Len(Values(_header, key)) < MaxQuery
  /\ _header' = Add(_header, key, <<value>>)
  /\ UNCHANGED <<_port, _query, _body, url, sent, reading, phase, sends>>

setQuery(key, value) ==
  /\ Ready /\ _query' = Set(_query, key, <<value>>)
  /\ UNCHANGED <<_port, _header, _body, url, sent, reading, phase, sends>>

addQuery(key, value) ==
  /\ Ready /\ Len(Values(_query, key)) < MaxQuery
  /\ _query' = Add(_query, key, <<value>>)
  /\ UNCHANGED <<_port, _header, _body, url, sent, reading, phase, sends>>

setBody(b) ==
  /\ Ready
  /\ _body' = b
  /\ _header' = Set(_header, "Content-Length", <<ToString(Len(b))>>)
  /\ UNCHANGED <<_port, _query, url, sent, reading, phase, sends>>

(***************************************************************************)
(* A request sent with what it keeps.  A port in the url stays for the     *)
(* urls after it; the query of the url is added to the request's (its      *)
(* first key with the "?" before it) and stays there, but the request line *)
(* has the path only, so no query is ever sent.                            *)
(***************************************************************************)
Port(u, port) == IF u.port # 0 THEN u.port ELSE port

parseQuery(query, before) ==
  FoldLeft(LAMBDA q, pair : Add(q, pair[1], <<pair[2]>>), before, query)

send(method, u, port, header, b) ==
  /\ sent' = [method |-> method, host |-> u.host, port |-> Port(u, port), path |-> u.path,
              header |-> header, body |-> b]
  /\ answer' \in Answers
  /\ arrived' = 0 /\ remaining' = 0 /\ body' = <<>>
  /\ phase' = "head"
  /\ sends' = sends + 1

Sends(method, u, port, query, header, b) ==
  /\ Ready
  /\ url' = u
  /\ _port' = Port(u, port) /\ _query' = parseQuery(u.query, query)
  /\ _header' = header /\ _body' = b
  /\ send(method, u, port, header, b)

doSend(method, u) == Sends(method, u, _port, _query, _header, _body)

\* HttpClient::doSend(HttpRequest): a request of the caller's replaces the client's own.
HeaderOf(b) == IF b = NoBody THEN <<>> ELSE Set(<<>>, "Content-Length", <<ToString(Len(b))>>)

doSendRequest(method, u, b) == Sends(method, u, 80, <<>>, HeaderOf(b), b)

\* A url that does not match gives an empty response.
BadUrl ==
  /\ Ready
  /\ \/ UNCHANGED kept
     \/ \E b \in Bodies \union {NoBody} :
          _port' = 80 /\ _query' = <<>> /\ _header' = HeaderOf(b) /\ _body' = b
  /\ phase' = "done" /\ sends' = sends + 1
  /\ body' = <<>> /\ remaining' = 0 /\ arrived' = 0
  /\ answer' = [length |-> 0, body |-> <<>>]
  /\ UNCHANGED <<url, sent>>

(***************************************************************************)
(* No connection, or one that ends inside the head: stoi throws when the   *)
(* status code is not there, and a head that breaks off behind it leaves a *)
(* response without a body.                                                *)
(***************************************************************************)
CutHead ==
  /\ phase = "head"
  /\ phase' \in {"thrown", "done"}
  /\ remaining' = answer.length
  /\ UNCHANGED <<kept, url, sent, answer, arrived, body, sends>>

ReadHead ==
  /\ phase = "head"
  /\ remaining' = answer.length
  /\ phase' = IF answer.length > 0 THEN "body" ELSE "done"
  /\ UNCHANGED <<kept, url, sent, answer, arrived, body, sends>>

\* What "<< buffer" takes of the bytes read: those before the first NUL.
Text(bytes) ==
  LET nuls == {j \in DOMAIN bytes : bytes[j] = "0"}
  IN IF nuls = {} THEN bytes
     ELSE SubSeq(bytes, 1, (CHOOSE j \in nuls : \A k \in nuls : j <= k) - 1)

\* Wrong: one read too many is allowed for.
WrongRoom == Piece

Room == IF remaining < Piece THEN remaining ELSE Piece

\* A read returns as much as has arrived, at most Room.
ReadBody ==
  /\ phase = "body"
  /\ \E n \in 1 .. Room :
       /\ arrived + n <= Len(answer.body)
       /\ body' = body \o Text(SubSeq(answer.body, arrived + 1, arrived + n))
       /\ arrived' = arrived + n
       /\ remaining' = remaining - n
       /\ phase' = IF remaining = n THEN "done" ELSE "body"
  /\ UNCHANGED <<kept, url, sent, answer, sends>>

\* The server closes; the response has what was read so far.
ReadEnd ==
  /\ phase = "body" /\ arrived = Len(answer.body)
  /\ phase' = "done"
  /\ UNCHANGED <<kept, url, sent, reading, sends>>

\* The connection is reset: readResponse returns before it sets the body.
ReadError ==
  /\ phase = "body"
  /\ phase' = "done" /\ body' = <<>> /\ arrived' = 0
  /\ UNCHANGED <<kept, url, sent, answer, remaining, sends>>

\* What HttpClient hands to its request between two sends.
Configure ==
  \/ setHeader("h", "1") \/ addHeader("h", "2")
  \/ setQuery("k", "2") \/ addQuery("k", "1")
  \/ \E b \in Bodies : setBody(b)

Next ==
  \/ Configure
  \/ \E m \in Methods, u \in Urls : doSend(m, u)
  \/ \E m \in Methods, u \in Urls, b \in Bodies \union {NoBody} : doSendRequest(m, u, b)
  \/ BadUrl \/ CutHead \/ ReadHead \/ ReadBody \/ ReadEnd \/ ReadError

-----------------------------------------------------------------------------
(***************************************************************************)
(* However the bytes arrive: as long as none is NUL, the response's body   *)
(* is the first Content-Length bytes the server sends, or, if it closes    *)
(* before, all that came; nothing after them is read.  (A NUL drops the    *)
(* rest of the piece it arrives in, which depends on the network.)         *)
(***************************************************************************)
BodyExact ==
  ~Contains(answer.body, "0") =>
    /\ body = SubSeq(answer.body, 1, arrived)
    /\ arrived <= answer.length
    /\ phase = "done" /\ remaining = 0 => arrived = answer.length
=============================================================================
