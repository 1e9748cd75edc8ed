------------------------------- MODULE MCLibrary -------------------------------
(***************************************************************************)
(* Library for TLC: the values of its constants, the inputs of the modules *)
(* that only compute, and the one of those that needs RECURSIVE operators. *)
(***************************************************************************)
EXTENDS Library

UpTo(n, S) == UNION {[1 .. k -> S] : k \in 0 .. n}

-----------------------------------------------------------------------------
Arg(dashes, name, eq, arg) == [dashes |-> dashes, name |-> name, eq |-> eq, arg |-> arg]

SomeArgLines ==
  UpTo(3, {Arg(1, "v", FALSE, ""), Arg(2, "v", TRUE, "7"), Arg(1, "n", FALSE, ""),
           Arg(0, "7", FALSE, ""), Arg(3, "v", FALSE, ""), Arg(1, "help", FALSE, ""),
           Arg(1, "h", FALSE, "")})

Header(name)      == [form |-> "header", name |-> name, value |-> <<>>]
Entry(key, value) == [form |-> "entry", name |-> key, value |-> value]
Blank             == [form |-> "blank", name |-> "", value |-> <<>>]

SomeContents ==
  { <<>>,
    <<Header("s"), Entry("k", <<"1">>)>>,
    <<Header("s"), Entry("k", <<"2">>), Blank, Header("t"), Entry("k", <<"1">>),
      Entry("l", <<"1">>), Header("s"), Entry("l", <<"2">>)>>,
    <<Entry("k", <<"1">>)>>,
    <<Header("t"), Entry("k", <<>>), Entry("", <<"1">>)>>,
    <<Header("s"), Entry("[t] ", <<>>), Entry("k", <<"1", "=", "2">>)>>,
    <<Entry("k", <<"=", "1">>), Entry("k", <<"2">>), Entry("l", <<"=">>)>>,
    <<Entry("k", <<"=", "1">>), Entry("k", <<"2">>)>>,
    <<Header("t")>> }

SomeOrder == <<"", "[t] ", "k", "l", "s", "t">>

SomePatterns == {{"level"}, {"day"}, {"level", "day"}}

Url(host, port, path, query) == [host |-> host, port |-> port, path |-> path, query |-> query]
Answer(length, bytes) == [length |-> length, body |-> bytes]

SomeUrls    == {Url("s", 0, "/", << <<"?k", "2">> >>), Url("s", 81, "/p", <<>>)}
SomeBodies  == {<<"x">>, <<"x", "x">>}
SomeAnswers == {Answer(0, <<"x">>), Answer(3, <<"x", "0", "x", "x">>),
                Answer(3, <<"x", "x", "x", "x">>), Answer(4, <<"x", "x">>)}

JsonText == INSTANCE Json
              WITH Keys <- <<"a", "b">>, Numbers <- {"1", "2"}, Words <- {"true", "null"}

-----------------------------------------------------------------------------
(***************************************************************************)
(* The inputs.  A path keeps the empty component before its first "/".     *)
(***************************************************************************)
UrlPatterns ==
  {<<"", p>> : p \in {"a", "*", "**"}} \union {<<"", "a", p>> : p \in {"b", "*", "**"}}

Guards ==
  {[paths |-> paths, calls |-> calls] :
     paths \in {<<p>> : p \in UrlPatterns} \union {<< <<"", "b">>, <<"", "a">> >>},
     calls \in SUBSET {"next", "abort"}}

ChainInputs ==
  {[chain |-> chain, path |-> path] :
     chain \in [1 .. 2 -> Guards] \union
               {<<g, [paths |-> << <<"", "b">> >>, calls |-> {}], h>> : g, h \in Guards},
     path \in {<<"", "">>, <<"", "a">>, <<"", "a", "b">>, <<"", "a", "b", "a">>}}

Scalars ==
  {JsonText!Str(t) : t \in {<<>>, <<"x">>, <<"}">>, <<"]", "x">>, <<"q">>}}
    \union {JsonText!Num("1"), JsonText!Num("2"), JsonText!Word("true")}
Arrays(S)  == {JsonText!Arr(items) : items \in UpTo(2, S)}
Shared(S) ==
  UNION {{JsonText!ArrOf(items, again) :
            again \in SUBSET {i \in 1 .. Len(items) - 1 : items[i] = items[Len(items)]}} :
           items \in UpTo(3, S)}
Objects(S) == {JsonText!Obj(m) : m \in UNION {[keys -> S] : keys \in SUBSET {"a", "b"}}}
Inner ==
  {JsonText!Obj("a" :> v) : v \in Scalars} \union {JsonText!Arr(<<v>>) : v \in Scalars}
    \union {JsonText!Obj(<<>>), JsonText!Obj([k \in {"a", "b"} |-> JsonText!Num("1")]),
            JsonText!Arr(<<JsonText!Num("1"), JsonText!Str(<<"x">>)>>)}
Deeper == {JsonText!Obj("b" :> v) : v \in Inner} \union {JsonText!Arr(<<v>>) : v \in Inner}

JsonInputs == Arrays(Scalars \union Inner) \union Objects(Scalars) \union Objects(Inner)
                \union Objects(Deeper)
                \union Shared({JsonText!Str(<<"x">>), JsonText!Num("1"), JsonText!Num("2")})
                \union {JsonText!Obj("a" :> v) : v \in Shared({JsonText!Str(<<>>), JsonText!Num("1")})}

TextInputs ==
  UpTo(5, {<<"letter", "digit">>, <<"digit">>, <<"special">>, <<"slash", "letter">>,
           <<"blank">>, <<"eol">>, <<"slash", "slash", "letter", "eol">>,
           <<"slash", "star", "slash", "letter", "star", "slash">>,
           <<"slash", "star", "letter", "eol", "special", "star", "star", "slash">>})

FieldInputs ==
  {[label |-> label, type |-> type, name |-> "x", no |-> "1"] :
     label \in {<<>>, <<"repeated">>}, type \in {"string", "Other"}}

ServiceInputs ==
  {[package |-> "p", service |-> "S",
    rpcs |-> [i \in DOMAIN modes |-> [name |-> <<"Call", "MethodMode">>[i], request |-> "Req",
                                      response |-> "Resp", mode |-> modes[i]]],
    messages |-> [i \in DOMAIN bodies |-> [name |-> <<"Req", "Resp">>[i],
                                           fields |-> bodies[i]]]] :
     modes \in UpTo(2, {"REQ_RESP", "ONE_WAY", "FAST_RESP"}),
     bodies \in UpTo(2, UpTo(1, FieldInputs))}

Inputs == [chain |-> ChainInputs, json |-> JsonInputs, text |-> TextInputs,
           service |-> ServiceInputs]

-----------------------------------------------------------------------------
MCInit ==
  /\ subject \in {"router", "flags", "ini", "log", "client"} \union DOMAIN Inputs
  /\ input \in IF subject \in DOMAIN Inputs THEN Inputs[subject] ELSE {"none"}
  /\ subject # "flags" => argv = <<>>
  /\ subject # "ini" => iniFiles = [p \in Paths |-> <<>>]
  /\ Init

MCSpec == MCInit /\ [][Next]_vars

-----------------------------------------------------------------------------
\* The text of a plain value parses to the value (Json).
RoundTrip == subject = "json" => JsonText!RoundTrip(input)
=============================================================================
