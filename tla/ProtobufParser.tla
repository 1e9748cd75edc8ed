---------------------------- MODULE ProtobufParser ----------------------------
(***************************************************************************)
(* The parser of the protobuf generator (parser.cpp, parser.h): the pass   *)
(* over the tokens that ProtobufLexer finds.  A token is its text.         *)
(***************************************************************************)
EXTENDS Integers, Sequences

Labels == {"optional", "required", "repeated"}

Scalars == {"int32", "int64", "string", "double", "float", "bool", "uint32", "uint64",
            "bytes", "enum", "map"}

convertMessageFieldType(type) == IF type \in Scalars THEN type ELSE "message"

FieldInfo(name, type, no, flag) == [name |-> name, type |-> type, no |-> no, flag |-> flag]

\* The three labels set the same bit of flag.
Field(tokens, i) ==
  IF tokens[i] \in Labels
  THEN FieldInfo(tokens[i + 2], convertMessageFieldType(tokens[i + 1]), tokens[i + 4], 1)
  ELSE FieldInfo(tokens[i + 1], convertMessageFieldType(tokens[i]), tokens[i + 3], 0)

\* Wrong: a label is not counted.
WrongFieldEnd(tokens, i) == i + 4

FieldEnd(tokens, i) == (IF tokens[i] \in Labels THEN i + 1 ELSE i) + 4

Info(package, service, rpcs, messages) ==
  [package |-> package, service |-> service, rpcs |-> rpcs, messages |-> messages]

\* In the loop of parse2ServiceInfo ("file"), in that of parseMessageInfo with the name and
\* the fields of the message so far ("message"), or past the tokens ("overrun").
State(place, i, name, fields, info) ==
  [place |-> place, i |-> i, name |-> name, fields |-> fields, info |-> info]

NoName == ""
InFile(i, info)                  == State("file", i, NoName, <<>>, info)
InMessage(i, name, fields, info) == State("message", i, name, fields, info)
Overrun(st) == State("overrun", st.i, st.name, st.fields, st.info)

Put(f, x, y) == [z \in DOMAIN f \union {x} |-> IF z = x THEN y ELSE f[z]]

(***************************************************************************)
(* One round of the loop of parseMessageInfo.                              *)
(***************************************************************************)
MessageRound(tokens, st) ==
  LET i    == st.i
      info == st.info
  IN IF i > Len(tokens) THEN Overrun(st)
     ELSE IF tokens[i] = "}"
     THEN InFile(i + 1, Info(info.package, info.service, info.rpcs,
                             Put(info.messages, st.name, st.fields)))
     ELSE IF tokens[i] = ";" THEN InMessage(i + 1, st.name, st.fields, info)
     ELSE IF FieldEnd(tokens, i) > Len(tokens) + 1 THEN Overrun(st)
     ELSE InMessage(FieldEnd(tokens, i), st.name, Append(st.fields, Field(tokens, i)), info)

\* The tokens after the name that are not "{"; i is the message's name.
BodyStart(tokens, i) ==
  CHOOSE j \in i + 1 .. Len(tokens) + 1 :
    /\ j > Len(tokens) \/ tokens[j] # "{"
    /\ \A k \in i + 1 .. j - 1 : tokens[k] = "{"

Mode(tokens, i) ==
  IF i + 15 <= Len(tokens) /\ tokens[i + 12] = "MethodMode"
     /\ tokens[i + 15] \in {"2", "3"}
  THEN IF tokens[i + 15] = "2" THEN "ONE_WAY" ELSE "FAST_RESP"
  ELSE "REQ_RESP"

RpcInfo(name, request, response, mode) ==
  [name |-> name, request |-> request, response |-> response, mode |-> mode]

(***************************************************************************)
(* One round of the loop of parse2ServiceInfo.                             *)
(***************************************************************************)
FileRound(tokens, st) ==
  LET i    == st.i
      info == st.info
      rpc  == RpcInfo(tokens[i + 1], tokens[i + 3], tokens[i + 7], Mode(tokens, i))
  IN IF i > Len(tokens) THEN st
     ELSE IF tokens[i] = "package" /\ i < Len(tokens)
     THEN InFile(i + 1, Info(tokens[i + 1], info.service, info.rpcs, info.messages))
     ELSE IF tokens[i] = "service" /\ i < Len(tokens)
     THEN InFile(i + 1, Info(info.package, tokens[i + 1], info.rpcs, info.messages))
     ELSE IF tokens[i] = "rpc" /\ i + 7 <= Len(tokens)
     THEN InFile(i + 1, Info(info.package, info.service, Append(info.rpcs, rpc),
                             info.messages))
     ELSE IF tokens[i] = "message" /\ i < Len(tokens)
     THEN InMessage(BodyStart(tokens, i + 1), tokens[i + 1], <<>>, info)
     ELSE InFile(i + 1, info)

Round(tokens, st) ==
  IF st.place = "file" THEN FileRound(tokens, st)
  ELSE IF st.place = "message" THEN MessageRound(tokens, st)
  ELSE st

NoMessages == [name \in {} |-> <<>>]
Start == InFile(1, Info(NoName, NoName, <<>>, NoMessages))

\* Every round takes a token, or is the last.
parse2ServiceInfo(tokens) ==
  LET after[n \in 0 .. Len(tokens) + 1] ==
        IF n = 0 THEN Start ELSE Round(tokens, after[n - 1])
  IN  after[Len(tokens) + 1]

-----------------------------------------------------------------------------
(***************************************************************************)
(* The tokens of a service.                                                *)
(***************************************************************************)
Joined(parts) ==
  LET upTo[n \in 0 .. Len(parts)] == IF n = 0 THEN <<>> ELSE upTo[n - 1] \o parts[n]
  IN  upTo[Len(parts)]

FieldTokens(g) == g.label \o <<g.type, g.name, "=", g.no, ";">>

BodyTokens(m) ==
  <<"message", m.name, "{">>
    \o Joined([i \in 1 .. Len(m.fields) |-> FieldTokens(m.fields[i])])

MessageTokens(m) == BodyTokens(m) \o <<"}">>

ModeTokens(mode) ==
  IF mode = "REQ_RESP" THEN <<"}">>
  ELSE <<"option", "(", "MethodMode", ")", "=", IF mode = "ONE_WAY" THEN "2" ELSE "3", ";", "}">>

RpcTokens(r) ==
  <<"rpc", r.name, "(", r.request, ")", "returns", "(", r.response, ")", "{">>
    \o ModeTokens(r.mode)

FileTokens(f) ==
  <<"package", f.package, ";", "service", f.service, "{">>
    \o Joined([i \in 1 .. Len(f.rpcs) |-> RpcTokens(f.rpcs[i])])
    \o <<"}">>
    \o Joined([i \in 1 .. Len(f.messages) |-> MessageTokens(f.messages[i])])

\* What the pass is to find of a message.
FieldsOf(m) ==
  [j \in 1 .. Len(m.fields) |->
     LET g == m.fields[j]
     IN FieldInfo(g.name, convertMessageFieldType(g.type), g.no,
                  IF g.label = <<>> THEN 0 ELSE 1)]

(***************************************************************************)
(* The pass knows a declaration by its first token wherever that stands,   *)
(* and messages by their names.                                            *)
(***************************************************************************)
Keywords == {"package", "service", "rpc", "message"}

Plain(f) ==
  /\ f.package \notin Keywords /\ f.service \notin Keywords
  /\ \A i \in 1 .. Len(f.rpcs) :
       {f.rpcs[i].name, f.rpcs[i].request, f.rpcs[i].response} \cap Keywords = {}
  /\ \A i \in 1 .. Len(f.messages) : \A j \in 1 .. Len(f.messages[i].fields) :
       f.messages[i].fields[j].type \notin Labels \union {"{", "}", ";"}
  /\ \A i, j \in 1 .. Len(f.messages) : f.messages[i].name = f.messages[j].name => i = j

(***************************************************************************)
(* The pass finds the package, the name, the calls with their modes and    *)
(* the messages with all their fields, unless the last "}" is missing, and *)
(* then it runs past the tokens exactly if that closes a message.          *)
(***************************************************************************)
ServiceFound(f) ==
  LET tokens == FileTokens(f)
      whole  == parse2ServiceInfo(tokens)
      cut    == parse2ServiceInfo(SubSeq(tokens, 1, Len(tokens) - 1))
  IN Plain(f) =>
       /\ whole.info.package = f.package /\ whole.info.service = f.service
       /\ whole.info.rpcs = f.rpcs
       /\ DOMAIN whole.info.messages = {f.messages[i].name : i \in 1 .. Len(f.messages)}
       /\ \A i \in 1 .. Len(f.messages) :
            whole.info.messages[f.messages[i].name] = FieldsOf(f.messages[i])
       /\ whole.place = "file"
       /\ cut.place = "overrun" <=> f.messages # <<>>
=============================================================================
