---------------------------- MODULE ProtobufLexer ----------------------------
(***************************************************************************)
(* The lexer of the protobuf generator (parser.cpp, parse2Token and        *)
(* parseLine).  A text is a sequence of characters, of which it tells      *)
(* apart "letter", "digit", "special", "slash", "star" and "blank"; "eol"  *)
(* is the line end, which getline drops.  Carriage returns, which isSkip   *)
(* drops from the front of a token, are left out.                          *)
(***************************************************************************)
EXTENDS Integers, Sequences

\* token, value and tokens of parse2Token; skip says that the "/" after the "*" that
\* ended a comment is still to be passed over.
State(token, value, tokens, skip) ==
  [token |-> token, value |-> value, tokens |-> tokens, skip |-> skip]

\* The state the character at position i leads to when no comment is open.
Kind(text, i) ==
  LET c == text[i]
  IN IF c = "blank" THEN "INIT"
     ELSE IF c = "digit" THEN "ORDER_NUM"
     ELSE IF c = "special" THEN "SPECIAL_CHAR"
     ELSE IF c = "slash" /\ i < Len(text) /\ text[i + 1] \in {"star", "slash"}
     THEN "COMMENT_BEGIN"
     ELSE "IDENTIFIER"

\* The states in which a character of this kind continues the token.
Continues(token, kind) ==
  \/ token = "IDENTIFIER" /\ kind \in {"IDENTIFIER", "ORDER_NUM"}
  \/ token = "ORDER_NUM" /\ kind = "ORDER_NUM"

\* getOneToken, and the character that begins the next token
getOneToken(st, kind, c) ==
  State(kind,
        IF kind \in {"INIT", "COMMENT_BEGIN"} THEN <<>> ELSE <<c>>,
        IF st.value = <<>> THEN st.tokens ELSE Append(st.tokens, st.value),
        FALSE)

LineEnd(text, i) == i = Len(text) \/ text[i + 1] = "eol"

\* Wrong: any "*" ends a comment.
WrongCommentEnds(text, i) == text[i] = "star"

CommentEnds(text, i) == text[i] = "star" /\ i < Len(text) /\ text[i + 1] = "slash"

(***************************************************************************)
(* One round of parseLine.  A "//" that ends its line stays open for the   *)
(* next line.                                                              *)
(***************************************************************************)
Round(st, text, i) ==
  LET To(token, skip) == State(token, st.value, st.tokens, skip)
      kind == Kind(text, i)
  IN IF st.skip THEN To(st.token, FALSE)
     ELSE IF st.token = "COMMENT_BEGIN"
     THEN To(IF text[i] = "star" THEN "COMMENT_STAR" ELSE "COMMENT_DOUBLE_SLASH", FALSE)
     ELSE IF st.token = "COMMENT_STAR"
     THEN IF CommentEnds(text, i) THEN To("INIT", TRUE) ELSE st
     ELSE IF st.token = "COMMENT_DOUBLE_SLASH"
     THEN IF LineEnd(text, i) THEN To("INIT", FALSE) ELSE st
     ELSE IF Continues(st.token, kind)
     THEN State(st.token, Append(st.value, text[i]), st.tokens, FALSE)
     ELSE getOneToken(st, kind, text[i])

\* The line end itself is no round, so it ends no token, and neither does the end
\* of the file.
parseLine(st, text, i) == IF text[i] = "eol" THEN st ELSE Round(st, text, i)

Fresh == State("INIT", <<>>, <<>>, FALSE)

parse2Token(text) ==
  LET after[i \in 0 .. Len(text)] ==
        IF i = 0 THEN Fresh ELSE parseLine(after[i - 1], text, i)
  IN  after[Len(text)].tokens

-----------------------------------------------------------------------------
(***************************************************************************)
(* The parts a source text is written from: words, and what stands between *)
(* them.  A "//" comment has something in it.                              *)
(***************************************************************************)
IsNumber(w) == \A i \in 1 .. Len(w) : w[i] = "digit"

IsName(w) ==
  /\ w[1] = "letter" \/ (w[1] = "slash" /\ Len(w) > 1)
  /\ \A i \in 2 .. Len(w) : w[i] \in {"letter", "digit"}

IsWord(w) == w # <<>> /\ (w = <<"special">> \/ IsNumber(w) \/ IsName(w))

NewLine == <<"eol">>
Blank   == <<"blank">>

IsLineComment(g) ==
  /\ Len(g) > 3
  /\ g[1] = "slash" /\ g[2] = "slash" /\ g[Len(g)] = "eol"
  /\ \A i \in 3 .. Len(g) - 1 : g[i] # "eol"

IsStarComment(g) ==
  /\ Len(g) > 3
  /\ g[1] = "slash" /\ g[2] = "star" /\ g[Len(g) - 1] = "star" /\ g[Len(g)] = "slash"
  /\ \A i \in 3 .. Len(g) - 2 : ~(g[i] = "star" /\ g[i + 1] = "slash")

IsLayout(g) == g = NewLine \/ g = Blank \/ IsLineComment(g) \/ IsStarComment(g)

\* The text of the parts, and the words among them.
Joined(source, part) ==
  [text  |-> source.text \o part,
   words |-> IF IsWord(part) THEN Append(source.words, part) ELSE source.words]

NoParts == [text |-> <<>>, words |-> <<>>]

Source(parts) ==
  LET upTo[n \in 0 .. Len(parts)] ==
        IF n = 0 THEN NoParts ELSE Joined(upTo[n - 1], parts[n])
  IN  upTo[Len(parts)]

Starts(word) == IF word[1] = "digit" THEN "ORDER_NUM"
                ELSE IF word[1] = "special" THEN "SPECIAL_CHAR" ELSE "IDENTIFIER"

\* Between word i and the end of part n there is nothing but line ends.
Bare(parts, i, n) ==
  IsWord(parts[i]) /\ \A k \in i + 1 .. n : parts[k] = NewLine

\* No two words that would read as one stand that close together.
Clean(parts) ==
  \A i, j \in 1 .. Len(parts) :
    i < j /\ Bare(parts, i, j - 1) /\ IsWord(parts[j])
      => ~Continues(Starts(parts[i]), Starts(parts[j]))

(***************************************************************************)
(* Blanks, line ends and comments between the words change no token, as    *)
(* long as line ends alone do not stand between two that would read as one *)
(* and no "//" comment is empty.  The last word is a token only when       *)
(* something else than line ends follows it: the last "}" of a file is     *)
(* lost.                                                                   *)
(***************************************************************************)
LayoutIgnored(parts) ==
  LET words == Source(parts).words
  IN (\A i \in 1 .. Len(parts) : IsWord(parts[i]) \/ IsLayout(parts[i])) /\ Clean(parts) =>
       parse2Token(Source(parts).text)
         = IF \E i \in 1 .. Len(parts) : Bare(parts, i, Len(parts))
           THEN SubSeq(words, 1, Len(words) - 1) ELSE words
=============================================================================
