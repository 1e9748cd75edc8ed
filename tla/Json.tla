--------------------------------- MODULE Json ---------------------------------
(***************************************************************************)
(* JSON values and texts (json.cpp, jsonparse.cpp, json.h).  A text is a   *)
(* sequence of characters, but a number (up to six decimals, the ones      *)
(* std::to_string writes) and a word (true, false, null) count as one.  An *)
(* int and the double it reads back as are the same value.  An array holds *)
(* pointers: again are the places before the last with the last's pointer, *)
(* which push_back(const JsonValuer&) may put into an array twice.         *)
(***************************************************************************)
EXTENDS Integers, Sequences, FiniteSets, SequencesExt, TLC

CONSTANTS Keys, Numbers, Words      \* Keys is a sequence, in the order of SortMap

Quote == "q"

Value(kind, text, members, items, again) ==
  [kind |-> kind, text |-> text, members |-> members, items |-> items, again |-> again]

Str(text)           == Value("string", text, <<>>, <<>>, {})
Number(run)         == Value("number", run, <<>>, <<>>, {})
Num(n)              == Number(<<n>>)
Word(w)             == Value("word", <<w>>, <<>>, <<>>, {})
Obj(members)        == Value("object", <<>>, members, <<>>, {})
ArrOf(items, again) == Value("array", <<>>, <<>>, items, again)
Arr(items)          == ArrOf(items, {})
Throws              == Value("throws", <<>>, <<>>, <<>>, {})

\* A comma stands behind every text but the last and the ones at bare places.
Joined(texts, bare) ==
  FoldLeftDomain(LAMBDA all, i : all \o texts[i] \o IF i \in bare \union {Len(texts)} THEN <<>>
                                                   ELSE <<",">>,
                 <<>>, texts)

(***************************************************************************)
(* Neither a string nor a key is escaped.  JsonArray::toString knows the   *)
(* last item by its pointer.                                               *)
(***************************************************************************)
RECURSIVE toString(_)
toString(v) ==
  CASE v.kind = "string" -> <<Quote>> \o v.text \o <<Quote>>
    [] v.kind \in {"number", "word"} -> v.text
    [] v.kind = "array" ->
         <<"[">> \o Joined([i \in DOMAIN v.items |-> toString(v.items[i])], v.again) \o <<"]">>
    [] v.kind = "object" ->
         LET present == SelectSeq(Keys, LAMBDA k : k \in DOMAIN v.members)
         IN <<"{">> \o Joined([i \in DOMAIN present |->
                                 <<Quote, present[i], Quote, ":">>
                                   \o toString(v.members[present[i]])], {})
                    \o <<"}">>

-----------------------------------------------------------------------------
From(s, n) == SubSeq(s, n, Len(s))

Ends(s) == {n \in DOMAIN s : s[n] = Quote}

\* parseString, after the opening quote: what it reads and what is left
parseString(s) ==
  LET n == IF Ends(s) = {} THEN Len(s) + 1
           ELSE CHOOSE i \in Ends(s) : \A j \in Ends(s) : i <= j
  IN [text |-> SubSeq(s, 1, n - 1), rest |-> From(s, n + 1)]

\* parseNumber takes the numbers that stand together for one, whichever stod makes of them.
parseNumber(s) ==
  LET run == {n \in DOMAIN s : \A m \in 1 .. n : s[m] \in Numbers}
      n   == Cardinality(run)
  IN [value |-> Number(SubSeq(s, 1, n)), rest |-> From(s, n + 1)]

Count(s, c) == Cardinality({n \in DOMAIN s : s[n] = c})

\* Wrong: the first closing bracket ends a nested value.
WrongBalanced(s, open, close) ==
  LET ends == {n \in DOMAIN s : s[n] = close}
  IN IF ends = {} THEN Len(s) ELSE CHOOSE n \in ends : \A m \in ends : n <= m

(***************************************************************************)
(* The length of the text, after an opening bracket, up to the one that    *)
(* closes it; brackets inside strings count as well.                       *)
(***************************************************************************)
Balanced(s, open, close) ==
  LET ends == {n \in DOMAIN s :
                 Count(SubSeq(s, 1, n), close) = Count(SubSeq(s, 1, n), open) + 1}
  IN IF ends = {} THEN Len(s) ELSE CHOOSE n \in ends : \A m \in ends : n <= m

RECURSIVE parseObject(_)
RECURSIVE parseArray(_)
RECURSIVE Members(_, _)
RECURSIVE Items(_, _)

\* A parser's result: the value, or Throws, and what it leaves of the stream.
Parsed(v, rest) == [value |-> v, rest |-> rest]

parseObject(s) ==
  IF s # <<>> /\ s[1] = "{" THEN Members(Tail(s), <<>>) ELSE Parsed(Throws, <<>>)

Insert(members, key, v) == (key :> v) @@ members

\* The loop of parseObject.  A word is no value to it: its second letter throws.
Members(s, members) ==
  IF s = <<>> \/ s[1] = "}" THEN Parsed(Obj(members), From(s, 2))
  ELSE IF s[1] = "," THEN Members(Tail(s), members)
  ELSE IF s[1] # Quote THEN Parsed(Throws, <<>>)
  ELSE
    LET name == parseString(Tail(s))
        s2   == From(name.rest, 2)
        key  == IF name.text = <<>> THEN "" ELSE name.text[1]
        Nested(close, Parser(_)) ==
          LET n     == Balanced(Tail(s2), s2[1], close)
              inner == Parser(SubSeq(s2, 1, n + 1)).value
          IN IF inner = Throws THEN Parsed(Throws, <<>>)
             ELSE Members(From(s2, n + 2), Insert(members, key, inner))
    IN IF name.rest = <<>> \/ name.rest[1] # ":" THEN Parsed(Throws, <<>>)
       ELSE IF s2 = <<>> THEN Members(<<>>, members)
       ELSE IF s2[1] = Quote
            THEN LET str == parseString(Tail(s2))
                 IN Members(str.rest, Insert(members, key, Str(str.text)))
       ELSE IF s2[1] \in Numbers
            THEN LET num == parseNumber(s2)
                 IN Members(num.rest, Insert(members, key, num.value))
       ELSE IF s2[1] = "{" THEN Nested("}", parseObject)
       ELSE IF s2[1] = "[" THEN Nested("]", parseArray)
       ELSE IF s2[1] \in Words THEN Parsed(Throws, <<>>)
       ELSE Members(Tail(s2), members)

parseArray(s) ==
  IF s # <<>> /\ s[1] = "[" THEN Items(Tail(s), <<>>) ELSE Parsed(Throws, <<>>)

(***************************************************************************)
(* The loop of parseArray ends with the stream only; it has taken the      *)
(* bracket of a nested value when it calls the parser that expects it.     *)
(***************************************************************************)
Items(s, items) ==
  IF s = <<>> THEN Parsed(Arr(items), <<>>)
  ELSE IF s[1] = Quote
       THEN LET str == parseString(Tail(s)) IN Items(str.rest, Append(items, Str(str.text)))
  ELSE IF s[1] \in Numbers
       THEN LET num == parseNumber(s) IN Items(num.rest, Append(items, num.value))
  ELSE IF s[1] \in {"{", "["}
       THEN LET inner == IF s[1] = "{" THEN parseObject(Tail(s)) ELSE parseArray(Tail(s))
            IN IF inner.value = Throws THEN inner
               ELSE Items(inner.rest, Append(items, inner.value))
  ELSE Items(Tail(s), items)

\* JsonParse::parse
parse(s) ==
  IF s = <<>> THEN Throws
  ELSE IF s[1] = "{" THEN parseObject(s).value
  ELSE IF s[1] = "[" THEN parseArray(s).value
  ELSE Throws

-----------------------------------------------------------------------------
(***************************************************************************)
(* The values a text keeps: no quote in a string, none of the brackets of  *)
(* objects or arrays in a string inside another value's member, and in     *)
(* arrays neither words nor further values, which parseArray cannot read,  *)
(* nor the last number also before another one, for want of the comma.     *)
(***************************************************************************)
RECURSIVE Plain(_, _)
Plain(v, depth) ==
  CASE v.kind = "string" ->
         ToSet(v.text) \intersect ({Quote} \union (IF depth > 1 THEN {"{", "}", "[", "]"} ELSE {})) = {}
    [] v.kind = "number" -> TRUE
    [] v.kind = "word"   -> FALSE
    [] v.kind = "array"  ->
         /\ \A i \in DOMAIN v.items :
              v.items[i].kind \in {"string", "number"} /\ Plain(v.items[i], depth + 1)
         /\ \A i \in v.again : {v.items[i].kind, v.items[i + 1].kind} # {"number"}
    [] v.kind = "object" -> \A k \in DOMAIN v.members : Plain(v.members[k], depth + 1)

\* The value with a pointer of its own at every place, as parse makes them.
RECURSIVE Unshared(_)
Unshared(v) ==
  CASE v.kind = "object" -> Obj([k \in DOMAIN v.members |-> Unshared(v.members[k])])
    [] v.kind = "array"  -> Arr([i \in DOMAIN v.items |-> Unshared(v.items[i])])
    [] OTHER -> v

(***************************************************************************)
(* The text of a plain value, at any depth, parses to the value, also      *)
(* where an array that holds its last item twice has lost a comma.  Values *)
(* that do not come back: true, false and null inside an object throw and  *)
(* inside an array are left out, objects and arrays inside an array throw, *)
(* a bracket in a string cuts a nested value short, and two numbers        *)
(* without their comma are read as one.                                    *)
(***************************************************************************)
RoundTrip(v) ==
  v.kind \in {"object", "array"} /\ Plain(v, 0) => parse(toString(v)) = Unshared(v)
=============================================================================
