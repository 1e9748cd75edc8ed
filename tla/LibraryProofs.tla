---------------------------- MODULE LibraryProofs ----------------------------
(***************************************************************************)
(* What is proved of the library modules, each of them for every value of  *)
(* its constants and without the bounds TLC needs.                         *)
(***************************************************************************)
EXTENDS Library, SequencesExt, SequenceTheorems, DataLemmas, TLAPS

-----------------------------------------------------------------------------
\* A step of the library modules side by side is one of each, or leaves it alone.
LEMMA SideBySide ==
  /\ Init => Router!Init /\ Flags!Init /\ Ini!Init /\ Log!Init /\ Client!Init
  /\ [Next]_vars => /\ [Router!Next]_(Router!vars) /\ [Flags!Next]_(Flags!vars)
                    /\ [Ini!Next]_(Ini!vars) /\ [Log!Next]_(Log!vars)
                    /\ [Client!Next]_(Client!vars)
  <1>1. UNCHANGED vars =>
          /\ UNCHANGED Router!vars /\ UNCHANGED Flags!vars /\ UNCHANGED Ini!vars
          /\ UNCHANGED Log!vars /\ UNCHANGED Client!vars
    BY DEF vars, routerVars, flagVars, iniVars, logVars, clientVars, Router!vars, Flags!vars,
           Ini!vars, Log!vars, Client!vars, Client!kept, Client!reading
  <1>2. Next =>
          /\ Router!Next \/ UNCHANGED routerVars
          /\ Flags!Next \/ UNCHANGED flagVars
          /\ Ini!Next \/ UNCHANGED iniVars
          /\ Log!Next \/ UNCHANGED logVars
          /\ Client!Next \/ UNCHANGED clientVars
    BY DEF Next
  <1>3. /\ UNCHANGED routerVars => UNCHANGED Router!vars
        /\ UNCHANGED flagVars => UNCHANGED Flags!vars
        /\ UNCHANGED iniVars => UNCHANGED Ini!vars
        /\ UNCHANGED logVars => UNCHANGED Log!vars
        /\ UNCHANGED clientVars => UNCHANGED Client!vars
    BY DEF routerVars, flagVars, iniVars, logVars, clientVars, Router!vars, Flags!vars,
           Ini!vars, Log!vars, Client!vars, Client!kept, Client!reading
  <1>. QED
    BY <1>1, <1>2, <1>3 DEF Init

-----------------------------------------------------------------------------
(***************************************************************************)
(* The HTTP client.                                                        *)
(***************************************************************************)
Answer(bytes) == [length : Nat, body : Seq(bytes)]

ClientInv ==
  /\ answer \in Answer(STRING)
  /\ arrived \in 0 .. Len(answer.body) /\ arrived <= answer.length
  /\ remaining \in Nat
  /\ ~Contains(answer.body, "0") => body = SubSeq(answer.body, 1, arrived)
  /\ phase = "head" => arrived = 0
  /\ phase = "body" => remaining > 0 /\ arrived + remaining = answer.length
  /\ phase = "done" /\ remaining = 0 => arrived = answer.length

\* A read that has no NUL is taken whole.
LEMMA TextWhole ==
  ASSUME NEW bytes \in Seq(STRING), NEW i \in 1 .. Len(bytes), NEW j \in i .. Len(bytes),
         ~Contains(bytes, "0")
  PROVE  Client!Text(SubSeq(bytes, i, j)) = SubSeq(bytes, i, j)
  <1>1. \A k \in 1 .. Len(bytes) : bytes[k] # "0"
    BY DEF Contains
  <1>2. /\ DOMAIN SubSeq(bytes, i, j) = 1 .. j - i + 1
        /\ \A k \in 1 .. j - i + 1 : SubSeq(bytes, i, j)[k] = bytes[i + k - 1]
    BY SubSeqProperties, LenProperties
  <1>3. \A k \in DOMAIN SubSeq(bytes, i, j) : SubSeq(bytes, i, j)[k] # "0"
    BY <1>1, <1>2, LenProperties
  <1>. QED
    BY <1>3 DEF Client!Text

\* What is read goes behind what was read before.
LEMMA ReadsGoOn ==
  ASSUME NEW bytes \in Seq(STRING), NEW k \in 0 .. Len(bytes), NEW n \in 1 .. Len(bytes) - k
  PROVE  SubSeq(bytes, 1, k) \o SubSeq(bytes, k + 1, k + n) = SubSeq(bytes, 1, k + n)
  <1>1. /\ 1 \in 1 .. Len(bytes) + 1 /\ k \in 1 - 1 .. Len(bytes)
        /\ k + n \in k .. Len(bytes)
    BY LenProperties
  <1>. QED
    BY <1>1, ConcatAdjacentSubSeq

(***************************************************************************)
(* However the bytes of an answer arrive, the client's response is the     *)
(* first Content-Length bytes of it, or all that came before the server    *)
(* closed (readResponse and the loop that reads the body), for any answer, *)
(* any buffer and any number of requests sent one after the other.         *)
(***************************************************************************)
THEOREM BodyTheorem ==
  ASSUME Answers \subseteq Answer(STRING), Piece \in Nat
  PROVE  Spec => []BodyExact
  <1>1. Client!Init => ClientInv
    <2>. SUFFICES ASSUME Client!Init PROVE ClientInv
      OBVIOUS
    <2>1. SubSeq(<<>>, 1, 0) = <<>> /\ <<>> \in Seq(STRING) /\ Len(<<>>) = 0
      BY SubSeqEmpty
    <2>. QED
      BY <2>1 DEF Client!Init, ClientInv, Answer
  <1>2. ClientInv /\ [Client!Next]_(Client!vars) => ClientInv'
    <2>. SUFFICES ASSUME ClientInv, [Client!Next]_(Client!vars) PROVE ClientInv'
      OBVIOUS
    <2>. USE DEF ClientInv, Client!reading, Client!kept
    <2>1. \A a \in Answer(STRING) : Len(a.body) \in Nat /\ SubSeq(a.body, 1, 0) = <<>>
      BY LenProperties, SubSeqEmpty DEF Answer
    <2>2. CASE Client!Configure
      BY <2>2 DEF Client!Configure, Client!setHeader, Client!addHeader, Client!setQuery,
                  Client!addQuery, Client!setBody
    <2>3. ASSUME NEW m, NEW u, NEW port, NEW query, NEW header, NEW b,
                 Client!Sends(m, u, port, query, header, b)
          PROVE  ClientInv'
      BY <2>1, <2>3 DEF Client!Sends, Client!send, Answer
    <2>4. CASE Client!BadUrl
      <3>1. SubSeq(<<>>, 1, 0) = <<>> /\ <<>> \in Seq(STRING) /\ Len(<<>>) = 0
        BY SubSeqEmpty
      <3>. QED
        BY <2>4, <3>1 DEF Client!BadUrl, Answer
    <2>5. CASE Client!CutHead
      BY <2>5 DEF Client!CutHead, Answer
    <2>6. CASE Client!ReadHead
      BY <2>6 DEF Client!ReadHead, Answer
    <2>7. CASE Client!ReadBody
      <3>1. PICK n \in 1 .. Client!Room :
              /\ arrived + n <= Len(answer.body)
              /\ body' = body \o Client!Text(SubSeq(answer.body, arrived + 1, arrived + n))
              /\ arrived' = arrived + n
              /\ remaining' = remaining - n
              /\ phase' = IF remaining = n THEN "done" ELSE "body"
        BY <2>7 DEF Client!ReadBody
      <3>2. n <= remaining /\ n \in Nat /\ answer' = answer /\ phase = "body"
        BY <2>7, <3>1 DEF Client!Room, Client!ReadBody
      <3>3. ~Contains(answer.body, "0") => body' = SubSeq(answer.body, 1, arrived')
        <4>. SUFFICES ASSUME ~Contains(answer.body, "0")
                      PROVE  body' = SubSeq(answer.body, 1, arrived')
          OBVIOUS
        <4>1. /\ answer.body \in Seq(STRING) /\ Len(answer.body) \in Nat
              /\ arrived \in 0 .. Len(answer.body) /\ n \in 1 .. Len(answer.body) - arrived
              /\ arrived + 1 \in 1 .. Len(answer.body)
              /\ arrived + n \in arrived + 1 .. Len(answer.body)
          BY <2>1, <3>1, <3>2 DEF Answer
        <4>2. Client!Text(SubSeq(answer.body, arrived + 1, arrived + n))
                = SubSeq(answer.body, arrived + 1, arrived + n)
          BY <4>1, TextWhole
        <4>. QED
          BY <3>1, <4>1, <4>2, ReadsGoOn
      <3>. QED
        BY <2>1, <3>1, <3>2, <3>3 DEF Answer
    <2>8. CASE Client!ReadEnd
      BY <2>8 DEF Client!ReadEnd
    <2>9. CASE Client!ReadError
      BY <2>1, <2>9 DEF Client!ReadError
    <2>10. CASE UNCHANGED Client!vars
      BY <2>10 DEF Client!vars
    <2>. QED
      BY <2>2, <2>3, <2>4, <2>5, <2>6, <2>7, <2>8, <2>9, <2>10
         DEF Client!Next, Client!doSend, Client!doSendRequest
  <1>3. ClientInv => BodyExact
    BY DEF ClientInv, BodyExact, Client!BodyExact, Contains, Client!Contains
  <1>. QED
    BY <1>1, <1>2, <1>3, SideBySide, PTL DEF Spec

-----------------------------------------------------------------------------
(***************************************************************************)
(* The logger.                                                             *)
(***************************************************************************)
Name == [level : Nat, day : Nat, set : BOOLEAN]
Stream == [open : BOOLEAN, append : BOOLEAN, at : Nat]

LogType ==
  /\ day \in Nat
  /\ logFiles \in [Levels -> Stream]
  /\ currentFilenames \in [Levels -> Name]
  /\ DOMAIN files \subseteq Name /\ \A n \in DOMAIN files : files[n] \in Seq(Nat)
  /\ accepted \in Seq(Name)

Today(l) == Log!generateFileName(_filename, l)

(***************************************************************************)
(* A level writes to files of its own name or of no level; a stream that   *)
(* does not append is at the end of its file; the name a rotation would    *)
(* open has taken no line yet, since lines have no later day than today.   *)
(***************************************************************************)
LogInv ==
  /\ LogType
  /\ \A n \in Name : n.level # 0 => Log!Complete(n, Log!Lines(n))
  /\ \A i \in DOMAIN accepted : accepted[i].day <= day
  /\ \A l \in Levels :
       /\ currentFilenames[l].level \in {0, l}
       /\ (currentFilenames[l].level # 0 /\ ~logFiles[l].append)
            => Len(Log!Lines(currentFilenames[l])) <= logFiles[l].at
       /\ (Today(l) # currentFilenames[l] /\ Today(l).level # 0)
            => \A i \in DOMAIN accepted : accepted[i] # Today(l)

LEMMA TodayName ==
  ASSUME Levels \subseteq Nat \ {0}, LogType, NEW l \in Levels, NEW pattern
  PROVE  /\ Log!generateFileName(pattern, l) \in Name
         /\ Log!generateFileName(pattern, l).level \in {0, l}
         /\ Log!generateFileName(pattern, l).day \in {0, day}
  BY DEF LogType, Log!generateFileName, Log!NoPattern, Log!NoName, Name

LEMMA AcceptedNames ==
  ASSUME LogType
  PROVE  /\ Len(accepted) \in Nat /\ DOMAIN accepted = 1 .. Len(accepted)
         /\ \A i \in DOMAIN accepted : accepted[i] \in Name /\ accepted[i].day \in Nat
  <1>1. Len(accepted) \in Nat /\ DOMAIN accepted = 1 .. Len(accepted)
    BY LenProperties DEF LogType
  <1>2. \A i \in 1 .. Len(accepted) : accepted[i] \in Name
    BY ElementOfSeq DEF LogType
  <1>. QED
    BY <1>1, <1>2 DEF Name

\* A line behind the others keeps a file complete, and no other file is concerned.
LEMMA LineAdded ==
  ASSUME LogType, NEW name \in Name, NEW lines \in Seq(Nat), NEW to \in Name,
         NEW line, line = Len(accepted) + 1,
         Log!Complete(name, lines), accepted' = Append(accepted, to)
  PROVE  /\ name # to => Log!Complete(name, lines)'
         /\ name = to => Log!Complete(name, Append(lines, line))'
  <1>1. /\ Len(accepted) \in Nat /\ DOMAIN accepted = 1 .. Len(accepted)
        /\ DOMAIN accepted' = 1 .. Len(accepted) + 1
        /\ accepted'[Len(accepted) + 1] = to
        /\ \A i \in DOMAIN accepted : accepted'[i] = accepted[i]
    BY LenProperties, AppendProperties DEF LogType
  <1>2. ASSUME name # to PROVE Log!Complete(name, lines)'
    <2>1. {i \in DOMAIN accepted' : accepted'[i] = name}
            = {i \in DOMAIN accepted : accepted[i] = name}
      BY <1>1, <1>2
    <2>. QED
      BY <2>1 DEF Log!Complete
  <1>3. ASSUME name = to PROVE Log!Complete(name, Append(lines, line))'
    <2>. DEFINE longer == Append(lines, line)
    <2>1. /\ Len(lines) \in Nat /\ DOMAIN lines = 1 .. Len(lines)
          /\ DOMAIN longer = 1 .. Len(lines) + 1
          /\ longer[Len(lines) + 1] = line
          /\ \A i \in DOMAIN lines : longer[i] = lines[i]
      BY <1>1, LenProperties, AppendProperties
    <2>2. {i \in DOMAIN accepted' : accepted'[i] = name}
            = {i \in DOMAIN accepted : accepted[i] = name} \cup {line}
      BY <1>1, <1>3
    <2>. HIDE DEF longer
    <2>3. ToSet(longer) = ToSet(lines) \cup {line}
      BY <2>1 DEF ToSet
    <2>4. \A i \in DOMAIN lines : lines[i] \in DOMAIN accepted /\ lines[i] \in Nat
      BY DEF Log!Complete, Log!ToSet, ToSet
    <2>5. \A i, j \in DOMAIN longer : i < j => longer[i] < longer[j]
      BY <1>1, <2>1, <2>4 DEF Log!Complete
    <2>. QED
      BY <2>2, <2>3, <2>5 DEF Log!Complete, Log!ToSet, ToSet, longer
  <1>. QED
    BY <1>2, <1>3

\* What a step that logs nothing leaves: the lines of every file.
LEMMA NoLineAdded ==
  ASSUME LogInv, accepted' = accepted, \A n \in Name : Log!Lines(n)' = Log!Lines(n)
  PROVE  \A n \in Name : n.level # 0 => Log!Complete(n, Log!Lines(n))'
  <1>. SUFFICES ASSUME NEW n \in Name, n.level # 0 PROVE Log!Complete(n, Log!Lines(n))'
    OBVIOUS
  <1>1. PICK lines : lines = Log!Lines(n)
    OBVIOUS
  <1>2. Log!Complete(n, lines)
    BY <1>1 DEF LogInv
  <1>3. Log!Lines(n)' = lines
    BY <1>1
  <1>. QED
    BY <1>2, <1>3 DEF Log!Complete

LEMMA LogSetFilename ==
  ASSUME Levels \subseteq Nat \ {0}, LogInv, NEW pattern, Log!setFilename(pattern)
  PROVE  LogInv'
  <1>. USE DEF LogInv, LogType
  <1>1. \A l \in Levels : /\ currentFilenames'[l] = Today(l)'
                          /\ currentFilenames'[l] \in Name
                          /\ currentFilenames'[l].level \in {0, l}
                          /\ logFiles'[l] = [open |-> TRUE, append |-> TRUE, at |-> 0]
    <2>1. \A l \in Levels : currentFilenames'[l] = Log!generateFileName(pattern, l)
      BY DEF Log!setFilename
    <2>2. \A l \in Levels : Today(l)' = Log!generateFileName(pattern, l)
      BY DEF Log!setFilename, Today, Log!generateFileName
    <2>. QED
      BY <2>1, <2>2, TodayName DEF Log!setFilename
  <1>2. \A n \in Name : Log!Lines(n)' = Log!Lines(n)
    BY DEF Log!setFilename, Log!Lines
  <1>3. LogType'
    <2>1. {Log!generateFileName(pattern, l) : l \in Levels} \subseteq Name
      BY TodayName
    <2>2. \A n \in Name : Log!Lines(n) \in Seq(Nat)
      BY DEF Log!Lines
    <2>3. /\ DOMAIN files' \subseteq Name
          /\ \A n \in DOMAIN files' : files'[n] \in Seq(Nat)
      BY <2>1, <2>2 DEF Log!setFilename
    <2>. QED
      BY <1>1, <2>1, <2>3 DEF Log!setFilename, Stream
  <1>4. accepted' = accepted /\ day' = day
    BY DEF Log!setFilename
  <1>5. \A n \in Name : n.level # 0 => Log!Complete(n, Log!Lines(n))'
    BY <1>2, <1>4, NoLineAdded
  <1>. QED
    BY <1>1, <1>3, <1>4, <1>5

LEMMA LogNextDay ==
  ASSUME Levels \subseteq Nat \ {0}, LogInv, Log!NextDay
  PROVE  LogInv'
  <1>. USE DEF LogInv, LogType
  <1>1. /\ day' = day + 1
        /\ UNCHANGED <<_filename, logFiles, currentFilenames, files, accepted>>
    BY DEF Log!NextDay
  <1>2. \A n \in Name : Log!Lines(n)' = Log!Lines(n)
    BY <1>1 DEF Log!Lines
  <1>3. \A n \in Name : n.level # 0 => Log!Complete(n, Log!Lines(n))'
    BY <1>1, <1>2, NoLineAdded
  <1>4. \A l \in Levels : Today(l)' = Today(l) \/ Today(l)'.day = day + 1
    BY <1>1 DEF Today, Log!generateFileName, Log!NoName
  <1>5. \A i \in DOMAIN accepted : accepted[i].day \in Nat
    BY AcceptedNames
  <1>6. ASSUME NEW l \in Levels, Today(l)' # currentFilenames[l], Today(l)'.level # 0,
               NEW i \in DOMAIN accepted
        PROVE  accepted[i] # Today(l)'
    BY <1>4, <1>5, <1>6
  <1>7. \A l \in Levels : Log!Lines(currentFilenames[l])' = Log!Lines(currentFilenames[l])
    BY <1>1 DEF Log!Lines
  <1>8. \A i \in DOMAIN accepted : accepted[i].day <= day + 1
    BY <1>5
  <1>. QED
    BY <1>1, <1>3, <1>6, <1>7, <1>8

\* The line goes behind those that are in the file, and the stream stays at its end.
LEMMA LogLog ==
  ASSUME Levels \subseteq Nat \ {0}, LogInv, NEW level \in Levels, Log!log(level)
  PROVE  LogInv'
  <1>. USE DEF LogInv, LogType
  <1>1. PICK name, to, line, lines :
          /\ name = Today(level) /\ to = Log!checkNewFile(level)
          /\ line = Len(accepted) + 1
          /\ lines = Log!Written(to.lines, to.stream, line)
    OBVIOUS
  <1>2. name \in Name /\ name.level \in {0, level} /\ name.day \in {0, day}
    BY <1>1, TodayName DEF Today
  <1>3. /\ to.name = name /\ to.stream \in Stream /\ to.lines \in Seq(Nat)
        /\ to.stream.open
        /\ name = currentFilenames[level]
             => to.stream = logFiles[level] /\ to.lines = Log!Lines(name)
        /\ name # currentFilenames[level]
             => to.lines = <<>> /\ to.stream = [open |-> TRUE, append |-> FALSE, at |-> 0]
    <2>1. Log!Lines(name) \in Seq(Nat) /\ <<>> \in Seq(Nat)
      BY <1>2 DEF Log!Lines
    <2>2. to = IF name = currentFilenames[level]
               THEN [name |-> name, stream |-> logFiles[level], lines |-> Log!Lines(name)]
               ELSE [name |-> name, lines |-> <<>>,
                     stream |-> [open |-> TRUE, append |-> FALSE, at |-> 0]]
      BY <1>1 DEF Log!checkNewFile, Today
    <2>3. to.stream.open
      BY <1>1 DEF Log!log
    <2>. QED
      BY <2>1, <2>2, <2>3 DEF Stream
  <1>4. /\ files' = [n \in DOMAIN files \cup {name} |-> IF n = name THEN lines ELSE files[n]]
        /\ logFiles' = [logFiles EXCEPT ![level] = [open |-> TRUE, append |-> to.stream.append,
                                                    at |-> to.stream.at + 1]]
        /\ currentFilenames' = [currentFilenames EXCEPT ![level] = name]
        /\ accepted' = Append(accepted, name)
        /\ UNCHANGED <<day, _filename>>
    BY <1>1, <1>3 DEF Log!log
  <1>5. /\ \A n \in Name : n # name => Log!Lines(n)' = Log!Lines(n)
        /\ Log!Lines(name)' = lines
    <2>1. DOMAIN files' = DOMAIN files \cup {name}
      BY <1>4
    <2>2. \A n \in DOMAIN files' : files'[n] = IF n = name THEN lines ELSE files[n]
      BY <1>4
    <2>. QED
      BY <1>2, <2>1, <2>2 DEF Log!Lines
  <1>6. name.level # 0 => /\ Log!Complete(name, to.lines)
                          /\ to.stream.append \/ Len(to.lines) <= to.stream.at
    <2>1. CASE name = currentFilenames[level]
      BY <1>2, <1>3, <2>1
    <2>2. CASE name # currentFilenames[level]
      <3>. SUFFICES ASSUME name.level # 0 PROVE Log!Complete(name, to.lines)
        BY <1>3, <2>2 DEF Stream
      <3>1. \A i \in DOMAIN accepted : accepted[i] # name
        BY <1>1, <2>2
      <3>2. DOMAIN to.lines = {}
        BY <1>3, <2>2
      <3>. QED
        BY <3>1, <3>2 DEF Log!Complete, Log!ToSet
    <2>. QED
      BY <2>1, <2>2
  <1>7. name.level # 0 => lines = Append(to.lines, line)
    BY <1>1, <1>3, <1>6, LenProperties DEF Log!Written, Stream
  <1>8. \A n \in Name : n.level # 0 => Log!Complete(n, Log!Lines(n))'
    <2>. SUFFICES ASSUME NEW n \in Name, n.level # 0 PROVE Log!Complete(n, Log!Lines(n))'
      OBVIOUS
    <2>1. CASE n # name
      <3>1. PICK ls : ls = Log!Lines(n)
        OBVIOUS
      <3>2. ls \in Seq(Nat)
        BY <3>1 DEF Log!Lines
      <3>3. Log!Complete(n, ls)'
        BY <1>2, <1>4, <2>1, <3>1, <3>2, LineAdded
      <3>4. Log!Lines(n)' = ls
        BY <1>5, <2>1, <3>1
      <3>. QED
        BY <3>3, <3>4 DEF Log!Complete
    <2>2. CASE n = name
      <3>1. PICK ls : ls = to.lines
        OBVIOUS
      <3>2. Log!Complete(n, Append(ls, line))'
        BY <1>1, <1>2, <1>3, <1>4, <1>6, <2>2, <3>1, LineAdded
      <3>3. Log!Lines(n)' = Append(ls, line)
        BY <1>5, <1>7, <2>2, <3>1
      <3>. QED
        BY <3>2, <3>3 DEF Log!Complete
    <2>. QED
      BY <2>1, <2>2
  <1>9. lines \in Seq(Nat)
    <2>1. line \in Nat
      BY <1>1, AcceptedNames
    <2>2. \A ls \in Seq(Nat) : \A i \in 1 .. Len(ls), x \in Nat :
            [ls EXCEPT ![i] = x] \in Seq(Nat)
      BY ExceptSeq
    <2>. QED
      BY <1>1, <1>3, <2>1, <2>2, LenProperties, AppendProperties DEF Log!Written, Stream
  <1>10. LogType'
    <2>1. logFiles' \in [Levels -> Stream] /\ currentFilenames' \in [Levels -> Name]
      BY <1>2, <1>3, <1>4 DEF Stream
    <2>2. accepted' \in Seq(Name)
      BY <1>2, <1>4, AppendProperties
    <2>3. DOMAIN files' \subseteq Name /\ \A n \in DOMAIN files' : files'[n] \in Seq(Nat)
      BY <1>2, <1>4, <1>9
    <2>. QED
      BY <1>4, <2>1, <2>2, <2>3
  <1>11. \A i \in DOMAIN accepted' : accepted'[i].day <= day
    <2>1. \A i \in DOMAIN accepted' :
            accepted'[i] = name \/ (i \in DOMAIN accepted /\ accepted'[i] = accepted[i])
      BY <1>2, <1>4, AcceptedNames, AppendProperties
    <2>. QED
      BY <1>2, <2>1
  <1>12. \A l \in Levels : /\ currentFilenames'[l].level \in {0, l}
                           /\ Today(l)' = Today(l)
                           /\ Today(l).level \in {0, l}
    BY <1>2, <1>4, TodayName DEF Today, Log!generateFileName
  <1>13. ASSUME NEW l \in Levels, currentFilenames'[l].level # 0, ~logFiles'[l].append
         PROVE  Len(Log!Lines(currentFilenames[l]))' <= logFiles'[l].at
    <2>1. PICK c : c = currentFilenames'[l]
      OBVIOUS
    <2>2. Log!Lines(currentFilenames[l])' = Log!Lines(c)'
      BY <2>1 DEF Log!Lines
    <2>3. CASE l = level
      <3>1. c = name /\ ~to.stream.append /\ logFiles'[l].at = to.stream.at + 1
        BY <1>3, <1>4, <1>13, <2>1, <2>3 DEF Stream
      <3>2. Len(lines) = Len(to.lines) + 1
        BY <1>1, <1>3, <1>7, <1>13, <2>1, <3>1, AppendProperties, AcceptedNames
      <3>3. Log!Lines(c)' = lines
        BY <1>5, <3>1
      <3>. QED
        BY <1>3, <1>6, <1>13, <2>1, <2>2, <3>1, <3>2, <3>3, LenProperties DEF Stream
    <2>4. CASE l # level
      <3>1. c = currentFilenames[l] /\ logFiles'[l] = logFiles[l]
        BY <1>4, <2>1, <2>4
      <3>2. c # name /\ c \in Name
        BY <1>2, <1>13, <2>1, <2>4, <3>1
      <3>3. Log!Lines(c)' = Log!Lines(currentFilenames[l])
        BY <1>5, <3>1, <3>2
      <3>. QED
        BY <1>13, <2>1, <2>2, <3>1, <3>3
    <2>. QED
      BY <2>3, <2>4
  <1>14. ASSUME NEW l \in Levels, Today(l)' # currentFilenames'[l], Today(l)'.level # 0,
                NEW i \in DOMAIN accepted'
         PROVE  accepted'[i] # Today(l)'
    <2>1. l # level
      BY <1>1, <1>4, <1>12, <1>14
    <2>2. Today(l) # name /\ Today(l) # currentFilenames[l] /\ Today(l).level # 0
      BY <1>2, <1>4, <1>12, <1>14, <2>1
    <2>3. accepted'[i] = name \/ (i \in DOMAIN accepted /\ accepted'[i] = accepted[i])
      BY <1>2, <1>4, AcceptedNames, AppendProperties
    <2>. QED
      BY <1>12, <2>2, <2>3
  <1>. QED
    BY <1>4, <1>8, <1>10, <1>11, <1>12, <1>13, <1>14

(***************************************************************************)
(* The lines that log takes for a file whose name has the level are in     *)
(* that file, each once and in order, whatever the levels, patterns,       *)
(* changes of pattern, rotations and restarts (checkNewFile, setFilename,  *)
(* log): the truncating open of a rotation never meets a file with lines.  *)
(***************************************************************************)
THEOREM LinesTheorem ==
  ASSUME Levels \subseteq Nat \ {0} PROVE Spec => []NoLineLost
  <1>1. Log!Init => LogInv
    <2>. SUFFICES ASSUME Log!Init PROVE LogInv
      OBVIOUS
    <2>1. /\ DOMAIN files = {} /\ accepted = <<>> /\ DOMAIN accepted = {}
          /\ accepted \in Seq(Name)
      BY DEF Log!Init
    <2>2. \A n : Log!Lines(n) = <<>>
      BY <2>1 DEF Log!Lines
    <2>3. \A n : Log!Complete(n, <<>>)
      BY <2>1 DEF Log!Complete, Log!ToSet
    <2>4. \A l \in Levels : Today(l) = Log!NoName /\ currentFilenames[l] = Log!NoName
      BY DEF Log!Init, Today, Log!generateFileName
    <2>5. LogType
      BY <2>1 DEF Log!Init, LogType, Log!NoName, Log!Closed, Name, Stream
    <2>. QED
      BY <2>1, <2>2, <2>3, <2>4, <2>5 DEF LogInv, Log!NoName
  <1>2. LogInv /\ [Log!Next]_(Log!vars) => LogInv'
    <2>. SUFFICES ASSUME LogInv, [Log!Next]_(Log!vars) PROVE LogInv'
      OBVIOUS
    <2>1. ASSUME UNCHANGED <<day, files, accepted, _filename, logFiles, currentFilenames>>
          PROVE  LogInv'
      BY <2>1 DEF LogInv, LogType, Log!Complete, Log!Lines, Today, Log!generateFileName
    <2>2. CASE Log!Restart
      <3>1. \A n \in Name : Log!Lines(n)' = Log!Lines(n)
        BY <2>2 DEF Log!Restart, Log!Lines
      <3>2. accepted' = accepted /\ day' = day /\ files' = files
        BY <2>2 DEF Log!Restart
      <3>3. \A n \in Name : n.level # 0 => Log!Complete(n, Log!Lines(n))'
        BY <3>1, <3>2, NoLineAdded
      <3>4. \A l \in Levels : /\ currentFilenames'[l].level = 0
                              /\ Today(l)' = currentFilenames'[l]
        BY <2>2 DEF Log!Restart, Log!Fresh, Log!NoName, Today, Log!generateFileName
      <3>5. LogType'
        BY <2>2, <3>2 DEF LogInv, LogType, Log!Restart, Log!Fresh, Log!NoName, Log!Closed,
                          Name, Stream
      <3>6. \A i \in DOMAIN accepted' : accepted'[i].day <= day'
        BY <3>2 DEF LogInv
      <3>. QED
        BY <3>3, <3>4, <3>5, <3>6 DEF LogInv
    <2>3. CASE Log!NextDay
      BY <2>3, LogNextDay
    <2>4. ASSUME NEW level \in Levels, Log!setLevel(level) PROVE LogInv'
      BY <2>1, <2>4 DEF Log!setLevel
    <2>5. ASSUME NEW level \in Levels, Log!log(level) PROVE LogInv'
      BY <2>5, LogLog
    <2>6. ASSUME NEW mode, Log!setMode(mode) PROVE LogInv'
      BY <2>1, <2>6 DEF Log!setMode
    <2>7. ASSUME NEW pattern \in Patterns, Log!setFilename(pattern) PROVE LogInv'
      BY <2>7, LogSetFilename
    <2>8. CASE UNCHANGED Log!vars
      BY <2>1, <2>8 DEF Log!vars
    <2>. QED
      BY <2>2, <2>3, <2>4, <2>5, <2>6, <2>7, <2>8 DEF Log!Next
  <1>3. LogInv => NoLineLost
    <2>. SUFFICES ASSUME LogInv PROVE \A n \in DOMAIN files \cup Log!ToSet(accepted) : n \in Name
      BY DEF LogInv, NoLineLost, Log!NoLineLost
    <2>. QED
      BY AcceptedNames DEF LogInv, LogType, Log!ToSet
  <1>. QED
    BY <1>1, <1>2, <1>3, SideBySide, PTL DEF Spec

-----------------------------------------------------------------------------
(***************************************************************************)
(* The command line flags.                                                 *)
(***************************************************************************)
(***************************************************************************)
(* The words before p have been read: p and starts are where an option     *)
(* begins, and an option has the value of the last of starts that names it.*)
(***************************************************************************)
ReadTo(p, starts) ==
  /\ starts \subseteq 1 .. p - 1
  /\ \A i \in 1 .. p :
       i \in starts \cup {p}
         <=> ~\E j \in starts : j = i - 1 /\ Flags!NeedsNext(argv[j])
  /\ \A i \in starts :
       argv[i].name \in DOMAIN opts_ /\ (Flags!NeedsNext(argv[i]) => i + 1 < p)
  /\ \A name \in DOMAIN opts_ :
       \/ /\ Flags!Given(starts, name) = {}
          /\ opts_[name].value = Flags!Unset /\ (opts_[name].required => ~opts_[name].isSet)
       \/ \E i \in Flags!Given(starts, name) :
            /\ \A j \in Flags!Given(starts, name) : j <= i
            /\ opts_[name].value = Flags!Value(i)

FlagInv ==
  /\ Len(argv) \in Nat /\ DOMAIN argv = 1 .. Len(argv)
  /\ parseIndex \in 1 .. Len(argv) + 1
  /\ opts_ = [n \in DOMAIN opts_ |-> opts_[n]]
  /\ status = "declaring" =>
       /\ parseIndex = 1
       /\ \A name \in DOMAIN opts_ :
            opts_[name].value = Flags!Unset /\ (opts_[name].required => ~opts_[name].isSet)
  /\ status = "parsing" => \E starts : ReadTo(parseIndex, starts)
  /\ Flags!ParsedAsGiven

\* Option p is given a value, and the reading goes on at q behind it.
LEMMA OptionRead ==
  ASSUME FlagInv, NEW p, p = parseIndex, p <= Len(argv), NEW starts, ReadTo(p, starts),
         argv[p].name \in DOMAIN opts_, argv' = argv,
         NEW value, value = Flags!Value(p),
         opts_' = [opts_ EXCEPT ![argv[p].name] =
                     [type |-> @.type, required |-> @.required, isSet |-> TRUE,
                      value |-> value]],
         NEW q, q = IF Flags!NeedsNext(argv[p]) THEN p + 2 ELSE p + 1
  PROVE  /\ ReadTo(q, starts \cup {p})'
         /\ opts_' = [n \in DOMAIN opts_' |-> opts_'[n]]
  <1>1. /\ DOMAIN opts_' = DOMAIN opts_
        /\ opts_' = [n \in DOMAIN opts_' |-> opts_'[n]]
        /\ \A name \in DOMAIN opts_ :
             /\ opts_'[name].type = opts_[name].type
             /\ name # argv[p].name => opts_'[name] = opts_[name]
             /\ name = argv[p].name => opts_'[name].value = value
    BY DEF FlagInv
  <1>2. PICK more : more = starts \cup {p}
    OBVIOUS
  <1>3. /\ p \in Nat \ {0} /\ Len(argv) \in Nat /\ q \in {p + 1, p + 2}
        /\ starts \subseteq 1 .. p - 1
    BY DEF FlagInv, ReadTo
  <1>4. \A i \in more : /\ argv[i].name \in DOMAIN opts_
                        /\ Flags!NeedsNext(argv[i])' <=> Flags!NeedsNext(argv[i])
                        /\ Flags!Value(i)' = Flags!Value(i)
    <2>1. \A i \in more : argv[i].name \in DOMAIN opts_
      BY <1>2 DEF ReadTo
    <2>. QED
      BY <1>1, <2>1 DEF Flags!NeedsNext, Flags!Value
  <1>5. \A i \in 1 .. q :
          i \in more \cup {q} <=> ~\E j \in more : j = i - 1 /\ Flags!NeedsNext(argv[j])
    <2>. SUFFICES ASSUME NEW i \in 1 .. q
                  PROVE  i \in more \cup {q}
                           <=> ~\E j \in more : j = i - 1 /\ Flags!NeedsNext(argv[j])
      OBVIOUS
    <2>1. CASE i <= p
      <3>1. i \in starts \cup {p}
              <=> ~\E j \in starts : j = i - 1 /\ Flags!NeedsNext(argv[j])
        BY <1>3, <2>1 DEF ReadTo
      <3>. QED
        BY <1>2, <1>3, <2>1, <3>1
    <2>2. CASE i > p
      <3>1. i \notin more
        BY <1>2, <1>3, <2>2
      <3>2. i = p + 1 \/ (q = p + 2 /\ i = p + 2)
        BY <1>3, <2>2
      <3>. QED
        BY <1>2, <1>3, <3>1, <3>2
    <2>. QED
      BY <1>3, <2>1, <2>2
  <1>6. \A i \in more : Flags!NeedsNext(argv[i]) => i + 1 < q
    BY <1>2, <1>3 DEF ReadTo
  <1>7. ASSUME NEW name \in DOMAIN opts_
        PROVE  \/ /\ Flags!Given(more, name) = {}
                  /\ opts_'[name].value = Flags!Unset
                  /\ (opts_'[name].required => ~opts_'[name].isSet)
               \/ \E i \in Flags!Given(more, name) :
                    /\ \A j \in Flags!Given(more, name) : j <= i
                    /\ opts_'[name].value = Flags!Value(i)
    <2>1. CASE name = argv[p].name
      <3>1. p \in Flags!Given(more, name) /\ \A j \in Flags!Given(more, name) : j <= p
        BY <1>2, <1>3, <2>1 DEF Flags!Given
      <3>. QED
        BY <1>1, <2>1, <3>1
    <2>2. CASE name # argv[p].name
      <3>1. Flags!Given(more, name) = Flags!Given(starts, name)
        BY <1>2, <2>2 DEF Flags!Given
      <3>. QED
        BY <1>1, <2>2, <3>1 DEF ReadTo
    <2>. QED
      BY <2>1, <2>2
  <1>8. \A name : Flags!Given(more, name)' = Flags!Given(more, name)
    BY DEF Flags!Given
  <1>9. \A name : Flags!Given(more, name) \subseteq more
    BY DEF Flags!Given
  <1>10. ReadTo(q, more)'
    <2>1. more \subseteq 1 .. q - 1
      BY <1>2, <1>3
    <2>2. \A i \in 1 .. q :
            i \in more \cup {q} <=> ~\E j \in more : j = i - 1 /\ Flags!NeedsNext(argv[j])'
      BY <1>4, <1>5
    <2>3. \A i \in more :
            argv'[i].name \in DOMAIN opts_' /\ (Flags!NeedsNext(argv[i])' => i + 1 < q)
      BY <1>1, <1>4, <1>6
    <2>4. ASSUME NEW name \in DOMAIN opts_'
          PROVE  \/ /\ Flags!Given(more, name)' = {}
                    /\ opts_'[name].value = Flags!Unset
                    /\ (opts_'[name].required => ~opts_'[name].isSet)
                 \/ \E i \in Flags!Given(more, name)' :
                      /\ \A j \in Flags!Given(more, name)' : j <= i
                      /\ opts_'[name].value = Flags!Value(i)'
      <3>1. Flags!Given(more, name)' = Flags!Given(more, name)
        BY <1>8
      <3>2. CASE Flags!Given(more, name) = {}
        BY <1>1, <1>7, <3>1, <3>2
      <3>3. CASE \E i \in Flags!Given(more, name) :
                   /\ \A j \in Flags!Given(more, name) : j <= i
                   /\ opts_'[name].value = Flags!Value(i)
        BY <1>4, <1>9, <3>1, <3>3
      <3>. QED
        BY <1>1, <1>7, <3>2, <3>3
    <2>. QED
      BY <2>1, <2>2, <2>3, <2>4 DEF ReadTo, Flags!Unset
  <1>. QED
    BY <1>1, <1>2, <1>10

\* The reading depends on the words and the declarations only.
LEMMA SameReading ==
  ASSUME UNCHANGED <<argv, opts_>>
  PROVE  /\ \A w : Flags!NeedsNext(w)' <=> Flags!NeedsNext(w)
         /\ \A i : Flags!Value(i)' = Flags!Value(i)
         /\ \A starts, name : Flags!Given(starts, name)' = Flags!Given(starts, name)
         /\ \A starts : Flags!Reading(starts)' <=> Flags!Reading(starts)
  <1>1. \A w : Flags!NeedsNext(w)' <=> Flags!NeedsNext(w)
    BY DEF Flags!NeedsNext
  <1>2. \A i : Flags!Value(i)' = Flags!Value(i)
    BY DEF Flags!Value
  <1>3. \A starts, name : Flags!Given(starts, name)' = Flags!Given(starts, name)
    BY DEF Flags!Given
  <1>4. \A starts : Flags!Reading(starts)' <=> Flags!Reading(starts)
    BY <1>1 DEF Flags!Reading
  <1>. QED
    BY <1>1, <1>2, <1>3, <1>4

\* What has been read stays so.
LEMMA ReadingKept ==
  ASSUME UNCHANGED <<argv, opts_, status>>
  PROVE  /\ \A p, starts : ReadTo(p, starts) => ReadTo(p, starts)'
         /\ Flags!ParsedAsGiven => Flags!ParsedAsGiven'
  <1>1. Flags!Unset' = Flags!Unset
    BY DEF Flags!Unset
  <1>2. ASSUME NEW p, NEW starts, ReadTo(p, starts) PROVE ReadTo(p, starts)'
    <2>1. \A i \in 1 .. p :
            i \in starts \cup {p} <=> ~\E j \in starts : j = i - 1 /\ Flags!NeedsNext(argv[j])'
      BY <1>2, SameReading DEF ReadTo
    <2>2. \A i \in starts :
            argv'[i].name \in DOMAIN opts_' /\ (Flags!NeedsNext(argv[i])' => i + 1 < p)
      BY <1>2, SameReading DEF ReadTo
    <2>3. \A name \in DOMAIN opts_' :
            \/ /\ Flags!Given(starts, name)' = {}
               /\ opts_'[name].value = Flags!Unset
               /\ (opts_'[name].required => ~opts_'[name].isSet)
            \/ \E i \in Flags!Given(starts, name)' :
                 /\ \A j \in Flags!Given(starts, name)' : j <= i
                 /\ opts_'[name].value = Flags!Value(i)'
      BY <1>2, SameReading DEF ReadTo
    <2>4. starts \subseteq 1 .. p - 1
      BY <1>2 DEF ReadTo
    <2>. QED
      BY <1>1, <2>1, <2>2, <2>3, <2>4 DEF ReadTo
  <1>3. ASSUME Flags!ParsedAsGiven, status = "done" PROVE Flags!ParsedAsGiven'
    <2>1. PICK starts \in SUBSET DOMAIN argv :
            /\ Flags!Reading(starts)
            /\ \A i \in starts :
                 argv[i].name \in DOMAIN opts_ /\ (Flags!NeedsNext(argv[i]) => i < Len(argv))
            /\ \A name \in DOMAIN opts_ :
                 \/ /\ Flags!Given(starts, name) = {}
                    /\ opts_[name].value = Flags!Unset /\ ~opts_[name].required
                 \/ \E i \in Flags!Given(starts, name) :
                      /\ \A j \in Flags!Given(starts, name) : j <= i
                      /\ opts_[name].value = Flags!Value(i)
      BY <1>3 DEF Flags!ParsedAsGiven
    <2>. QED
      BY <1>1, <2>1, SameReading DEF Flags!ParsedAsGiven
  <1>4. status # "done" => Flags!ParsedAsGiven'
    BY DEF Flags!ParsedAsGiven
  <1>. QED
    BY <1>2, <1>3, <1>4

\* A parse that has read all words and has the required ones has read them as given.
LEMMA ReadingDone ==
  ASSUME FlagInv, status = "parsing", parseIndex > Len(argv),
         \A n \in DOMAIN opts_ : opts_[n].required => opts_[n].isSet,
         status' = "done", UNCHANGED <<argv, opts_>>
  PROVE  Flags!ParsedAsGiven'
  <1>1. PICK starts : ReadTo(parseIndex, starts)
    BY DEF FlagInv
  <1>2. /\ Len(argv) \in Nat /\ DOMAIN argv = 1 .. Len(argv)
        /\ parseIndex = Len(argv) + 1 /\ starts \in SUBSET DOMAIN argv
    BY <1>1 DEF FlagInv, ReadTo
  <1>3. Flags!Reading(starts)
    BY <1>1, <1>2 DEF ReadTo, Flags!Reading
  <1>4. \A i \in starts :
          argv[i].name \in DOMAIN opts_ /\ (Flags!NeedsNext(argv[i]) => i < Len(argv))
    BY <1>1, <1>2 DEF ReadTo
  <1>5. ASSUME NEW name \in DOMAIN opts_
        PROVE  \/ /\ Flags!Given(starts, name) = {}
                  /\ opts_[name].value = Flags!Unset /\ ~opts_[name].required
               \/ \E i \in Flags!Given(starts, name) :
                    /\ \A j \in Flags!Given(starts, name) : j <= i
                    /\ opts_[name].value = Flags!Value(i)
    BY <1>1 DEF ReadTo
  <1>6. Flags!Unset' = Flags!Unset
    BY DEF Flags!Unset
  <1>. QED
    BY <1>2, <1>3, <1>4, <1>5, <1>6, SameReading DEF Flags!ParsedAsGiven

(***************************************************************************)
(* When Parse returns, argv has been read from left to right as options    *)
(* with their arguments, each option has the last value it was given or    *)
(* its default, and the required ones are given (ParseOpt, SetOption,      *)
(* CheckRequired), for any declarations and any argv.                      *)
(***************************************************************************)
THEOREM FlagsTheorem ==
  ASSUME NEW S, ArgLines \subseteq Seq(S) PROVE Spec => []ParsedAsGiven
  <1>1. Flags!Init => FlagInv
    <2>. SUFFICES ASSUME Flags!Init PROVE FlagInv
      OBVIOUS
    <2>1. /\ Len(argv) \in Nat /\ DOMAIN argv = 1 .. Len(argv) /\ DOMAIN opts_ = {} /\ opts_ = <<>>
      BY LenProperties DEF Flags!Init
    <2>2. opts_ = [n \in DOMAIN opts_ |-> opts_[n]]
      BY <2>1
    <2>. QED
      BY <2>1, <2>2 DEF Flags!Init, FlagInv, Flags!ParsedAsGiven
  <1>2. FlagInv /\ [Flags!Next]_(Flags!vars) => FlagInv'
    <2>. SUFFICES ASSUME FlagInv, [Flags!Next]_(Flags!vars) PROVE FlagInv'
      OBVIOUS
    <2>1. Len(argv) \in Nat
      BY DEF FlagInv
    <2>2. ASSUME NEW name \in Names, NEW type \in Flags!Types, NEW required \in BOOLEAN,
                 Flags!Declare(name, type, required)
          PROVE  FlagInv'
      <3>. DEFINE new == [type |-> type, required |-> required, isSet |-> ~required,
                          value |-> Flags!Unset]
      <3>1. /\ status = "declaring" /\ argv' = argv /\ parseIndex' = parseIndex
            /\ status' \in {"declaring", "exit -1", "exit -2"}
            /\ opts_' = opts_
               \/ opts_' = [n \in DOMAIN opts_ \cup {name} |-> IF n = name THEN new ELSE opts_[n]]
        <4>1. /\ status = "declaring" /\ argv' = argv /\ parseIndex' = parseIndex
              /\ status' = IF name \in DOMAIN opts_ THEN "exit -1"
                           ELSE IF Flags!isValidName(name) THEN status ELSE "exit -2"
              /\ opts_' = IF status' # status THEN opts_
                          ELSE [n \in DOMAIN opts_ \cup {name} |->
                                  IF n = name THEN new ELSE opts_[n]]
          BY <2>2 DEF Flags!Declare
        <4>. HIDE DEF new
        <4>. QED
          BY <4>1
      <3>2. new.value = Flags!Unset /\ (new.required => ~new.isSet)
        <4>1. new.required = required /\ new.isSet = ~required /\ new.value = Flags!Unset
          OBVIOUS
        <4>. QED
          BY <4>1, Zenon
      <3>. HIDE DEF new
      <3>3. Flags!ParsedAsGiven'
        BY <3>1 DEF Flags!ParsedAsGiven
      <3>4. CASE opts_' = opts_
        <4>1. /\ status = "declaring" /\ status' # "parsing"
              /\ UNCHANGED <<argv, opts_, parseIndex>>
          BY <3>1, <3>4
        <4>2. opts_' = [n \in DOMAIN opts_' |-> opts_'[n]]
          BY <4>1, Zenon DEF FlagInv
        <4>. QED
          BY <3>3, <4>1, <4>2 DEF FlagInv
      <3>5. CASE opts_' = [n \in DOMAIN opts_ \cup {name} |-> IF n = name THEN new ELSE opts_[n]]
        <4>1. DOMAIN opts_' = DOMAIN opts_ \cup {name}
          BY <3>5
        <4>2. \A n \in DOMAIN opts_' : opts_'[n] = IF n = name THEN new ELSE opts_[n]
          BY <3>5
        <4>3. opts_' = [n \in DOMAIN opts_' |-> opts_'[n]]
          BY <3>5
        <4>. QED
          BY <3>3, <3>1, <3>2, <4>1, <4>2, <4>3 DEF FlagInv
      <3>. QED
        BY <3>1, <3>4, <3>5
    <2>3. CASE Flags!Parse
      <3>1. /\ status = "declaring" /\ status' \in {"parsing", "exit -1"} /\ parseIndex = 1
            /\ UNCHANGED <<argv, opts_, parseIndex>>
        BY <2>3 DEF Flags!Parse, FlagInv
      <3>2. ReadTo(1, {})
        <4>1. status = "declaring"
          BY <3>1
        <4>. QED
          BY <4>1 DEF FlagInv, ReadTo, Flags!Given
      <3>3. ReadTo(parseIndex, {})'
        BY <3>1, <3>2 DEF ReadTo, Flags!Given, Flags!Value, Flags!NeedsNext
      <3>4. CASE status' = "parsing"
        BY <3>1, <3>3, <3>4 DEF FlagInv, Flags!ParsedAsGiven
      <3>5. CASE status' = "exit -1"
        BY <3>1, <3>5 DEF FlagInv, Flags!ParsedAsGiven
      <3>. QED
        BY <3>1, <3>4, <3>5
    <2>4. ASSUME NEW code, code \notin {"declaring", "parsing", "done"},
                 status' = code, UNCHANGED <<argv, opts_>>,
                 parseIndex' \in 1 .. Len(argv) + 1
          PROVE  FlagInv'
      BY <2>4 DEF FlagInv, Flags!ParsedAsGiven
    <2>5. CASE Flags!ParseOpt
      <3>1. PICK p, opt : p = parseIndex /\ opt = argv[p]
        OBVIOUS
      <3>2. status = "parsing" /\ p \in 1 .. Len(argv) /\ p + 1 \in Nat
        <4>1. status = "parsing" /\ parseIndex <= Len(argv)
          BY <2>5, Zenon DEF Flags!ParseOpt
        <4>. QED
          BY <2>1, <3>1, <4>1 DEF FlagInv
      <3>3. ASSUME NEW code \in {"exit -2", "exit 0"}, Flags!Ends(code)
            PROVE  FlagInv'
        BY <2>4, <3>3 DEF Flags!Ends, FlagInv
      <3>4. ASSUME opt.name \in DOMAIN opts_, NEW value,
                   NEW q \in 1 .. Len(argv) + 1,
                   Flags!SetValue(opt.name, value, q),
                   value = Flags!Value(p),
                   q = IF Flags!NeedsNext(opt) THEN p + 2 ELSE p + 1
            PROVE  FlagInv'
        <4>1. CASE status' = "thrown" /\ parseIndex' = q /\ UNCHANGED <<argv, opts_>>
          BY <2>4, <4>1
        <4>2. CASE /\ opts_' = [opts_ EXCEPT ![opt.name] =
                                   [type |-> @.type, required |-> @.required,
                                    isSet |-> TRUE, value |-> value]]
                   /\ parseIndex' = q
                   /\ UNCHANGED <<argv, status>>
          <5>1. PICK starts : ReadTo(p, starts)
            BY <3>1, <3>2 DEF FlagInv
          <5>2. /\ ReadTo(q, starts \cup {p})'
                /\ opts_' = [n \in DOMAIN opts_' |-> opts_'[n]]
            <6>1. /\ opts_' = [opts_ EXCEPT ![argv[p].name] =
                                [type |-> @.type, required |-> @.required,
                                 isSet |-> TRUE, value |-> value]]
                  /\ argv[p].name \in DOMAIN opts_ /\ argv' = argv
              BY <3>1, <3>4, <4>2
            <6>2. q = IF Flags!NeedsNext(argv[p]) THEN p + 2 ELSE p + 1
              BY <3>1, <3>4
            <6>3. p = parseIndex /\ p <= Len(argv)
              BY <2>1, <3>1, <3>2
            <6>. QED
              BY <3>4, <5>1, <6>1, <6>2, <6>3, OptionRead
          <5>3. ReadTo(parseIndex, starts \cup {p})'
            BY <4>2, <5>2 DEF ReadTo
          <5>. QED
            BY <3>2, <4>2, <5>2, <5>3 DEF FlagInv, Flags!ParsedAsGiven
        <4>. QED
          BY <3>4, <4>1, <4>2 DEF Flags!SetValue
      <3>5. ASSUME opt.name \in DOMAIN opts_, Flags!SetOption(opt)
            PROVE  FlagInv'
        <4>. USE DEF Flags!NeedsNext, Flags!Value
        <4>1. CASE /\ opts_[opt.name].type = "BOOL"
                   /\ Flags!SetValue(opt.name, Flags!True, parseIndex + 1)
          <5>1. p + 1 \in 1 .. Len(argv) + 1
            BY <2>1, <3>2
          <5>. QED
            BY <3>1, <3>4, <3>5, <4>1, <5>1
        <4>2. CASE /\ opts_[opt.name].type # "BOOL" /\ opt.eq
                   /\ Flags!SetValue(opt.name, Flags!Word(opt.arg), parseIndex + 1)
          <5>1. p + 1 \in 1 .. Len(argv) + 1
            BY <2>1, <3>2
          <5>. QED
            BY <3>1, <3>4, <3>5, <4>2, <5>1
        <4>3. CASE /\ opts_[opt.name].type # "BOOL" /\ ~opt.eq /\ parseIndex < Len(argv)
                   /\ Flags!SetValue(opt.name, argv[parseIndex + 1], parseIndex + 2)
          <5>1. p + 1 \in 1 .. Len(argv) /\ p + 2 \in 1 .. Len(argv) + 1
            BY <2>1, <3>1, <3>2, <4>3
          <5>. QED
            BY <3>1, <3>4, <3>5, <4>3, <5>1
        <4>. QED
          BY <3>3, <3>5, <4>1, <4>2, <4>3 DEF Flags!SetOption
      <3>. QED
        BY <2>5, <3>1, <3>3, <3>5 DEF Flags!ParseOpt, Flags!Help
    <2>6. CASE Flags!CheckRequired
      <3>1. CASE \A n \in DOMAIN opts_ : opts_[n].required => opts_[n].isSet
        <4>1. /\ status = "parsing" /\ parseIndex > Len(argv) /\ status' = "done"
              /\ UNCHANGED <<argv, opts_, parseIndex>>
          BY <2>6, <3>1 DEF Flags!CheckRequired, Flags!Ends
        <4>2. Flags!ParsedAsGiven'
          BY <3>1, <4>1, ReadingDone
        <4>. QED
          BY <4>1, <4>2 DEF FlagInv
      <3>2. CASE ~\A n \in DOMAIN opts_ : opts_[n].required => opts_[n].isSet
        BY <2>4, <2>6, <3>2 DEF Flags!CheckRequired, Flags!Ends, FlagInv
      <3>. QED
        BY <3>1, <3>2
    <2>7. CASE UNCHANGED Flags!vars
      <3>1. UNCHANGED <<argv, opts_, parseIndex, status>>
        BY <2>7 DEF Flags!vars
      <3>. QED
        BY <3>1, ReadingKept DEF FlagInv
    <2>. QED
      BY <2>2, <2>3, <2>5, <2>6, <2>7 DEF Flags!Next
  <1>3. FlagInv => ParsedAsGiven
    BY DEF FlagInv, ParsedAsGiven
  <1>. QED
    BY <1>1, <1>2, <1>3, SideBySide, PTL DEF Spec

-----------------------------------------------------------------------------
(***************************************************************************)
(* The interceptors.                                                       *)
(***************************************************************************)
Interceptors(S) == Seq([paths : Seq(Seq(S)), calls : SUBSET {"next", "abort"}])

\* A pattern with "**" at most at its end matches the paths it covers.
LEMMA MatchCovers ==
  ASSUME NEW S, NEW pattern \in Seq(S), NEW path \in Seq(S), Chains!Simple(pattern)
  PROVE  Chains!pathMatch(pattern, path) <=> Chains!Covers(pattern, path, 1)
  <1>. DEFINE Ends(i) == i > Len(pattern) \/ i > Len(path) \/ pattern[i] = "**"
              ends == {i \in 1 .. Len(pattern) + 1 : Ends(i)}
              last == Chains!Min(ends)
              fixed == IF pattern # <<>> /\ Chains!Last(pattern) = "**" THEN Len(pattern) - 1
                       ELSE Len(pattern)
  <1>1. pattern = <<>> <=> Len(pattern) = 0
    BY EmptySeq
  <1>2. Len(pattern) \in Nat /\ Len(path) \in Nat
    BY LenProperties
  <1>3. last \in ends /\ \A i \in ends : last <= i
    <2>1. ends \in SUBSET Nat /\ Len(pattern) + 1 \in ends
      BY <1>2
    <2>2. \E m \in ends : \A k \in ends : m <= k
      <3>. HIDE DEF ends
      <3>. QED
        BY <2>1, LeastNatural
    <2>. QED
      BY <2>2 DEF Chains!Min
  <1>4. /\ fixed = Len(pattern) \/ (fixed = Len(pattern) - 1 /\ Len(pattern) > 0)
        /\ fixed \in Nat
        /\ fixed # Len(pattern) => pattern[Len(pattern)] = "**"
        /\ \A i \in 1 .. fixed : pattern[i] # "**"
    <2>1. \A i \in 1 .. Len(pattern) : pattern[i] = "**" => i = Len(pattern)
      BY DEF Chains!Simple
    <2>2. CASE pattern # <<>> /\ Chains!Last(pattern) = "**"
      <3>1. fixed = Len(pattern) - 1 /\ Len(pattern) # 0
        BY <1>1, <2>2
      <3>. HIDE DEF fixed
      <3>. QED
        BY <1>2, <2>1, <2>2, <3>1 DEF Chains!Last
    <2>3. CASE ~(pattern # <<>> /\ Chains!Last(pattern) = "**")
      <3>1. fixed = Len(pattern)
        BY <2>3
      <3>. HIDE DEF fixed
      <3>. QED
        BY <1>1, <1>2, <2>1, <2>3, <3>1 DEF Chains!Last
    <2>. QED
      BY <2>2, <2>3
  <1>5. Chains!pathMatch(pattern, path) <=>
          /\ \A i \in 1 .. last - 1 : pattern[i] \in {"*", path[i]}
          /\ IF last > Len(pattern) \/ last > Len(path) THEN Len(pattern) = Len(path)
             ELSE \/ last = Len(pattern)
                  \/ \E i \in last .. Len(path) :
                       Chains!componentMatch(pattern[last + 1], path[i])
    BY DEF Chains!pathMatch
  <1>6. Chains!Covers(pattern, path, 1) <=>
          /\ IF fixed = Len(pattern) THEN Len(path) = fixed ELSE Len(path) >= fixed + 1
          /\ \A i \in 1 .. fixed : pattern[i] \in {"*", path[i]}
    BY DEF Chains!Covers
  <1>7. /\ last \in 1 .. Len(pattern) + 1 /\ Ends(last)
        /\ \A i \in 1 .. Len(pattern) + 1 : Ends(i) => last <= i
    BY <1>3
  <1>. HIDE DEF last, fixed, ends
  \* Nothing ends the comparison before the path does or the fixed part is over.
  <1>8. CASE Len(path) < fixed
    <2>1. last <= Len(path) + 1
      <3>1. Len(path) + 1 \in 1 .. Len(pattern) + 1 /\ Len(path) + 1 > Len(path)
        BY <1>2, <1>4, <1>8
      <3>. QED
        BY <1>7, <3>1
    <2>2. last \in 1 .. fixed
      BY <1>2, <1>4, <1>7, <1>8, <2>1
    <2>3. last > Len(path)
      BY <1>2, <1>4, <1>7, <2>2
    <2>. QED
      BY <1>2, <1>4, <1>5, <1>6, <1>8, <2>3
  <1>9. CASE Len(path) >= fixed
    <2>1. last <= fixed + 1
      <3>1. fixed + 1 \in 1 .. Len(pattern) + 1 /\ Ends(fixed + 1)
        BY <1>2, <1>4
      <3>. HIDE DEF Ends
      <3>. QED
        BY <1>7, <3>1
    <2>2. ~(last <= fixed)
      BY <1>2, <1>4, <1>7, <1>9
    <2>3. last = fixed + 1
      BY <1>2, <1>4, <1>7, <2>1, <2>2
    <2>4. last - 1 = fixed
      BY <1>4, <2>3
    <2>5. CASE fixed = Len(pattern)
      <3>1. last > Len(pattern)
        BY <1>2, <2>3, <2>5
      <3>. QED
        BY <1>2, <1>5, <1>6, <2>4, <2>5, <3>1
    <2>6. CASE fixed # Len(pattern)
      BY <1>2, <1>4, <1>5, <1>6, <1>9, <2>3, <2>4, <2>6
    <2>. QED
      BY <2>5, <2>6
  <1>. QED
    BY <1>2, <1>4, <1>8, <1>9

Runs == [ran : Seq(Nat), next : BOOLEAN, abort : BOOLEAN, stopped : BOOLEAN]
NoneRan == [ran |-> <<>>, next |-> FALSE, abort |-> FALSE, stopped |-> FALSE]

\* What a round leaves when the interceptors in covering cover the path, the
\* first of them calls next, and those in aborting call abort: i of them passed.
RanUpTo(r, i, covering, aborting) ==
  /\ r.next = TRUE
  /\ \/ r.abort = TRUE /\ r.stopped = TRUE /\ \E a \in aborting : a <= i
     \/ r.abort = FALSE /\ r.stopped = FALSE /\ \A a \in aborting : i < a
  /\ \A k \in DOMAIN r.ran : r.ran[k] \in covering /\ r.ran[k] <= i
                             /\ \A a \in aborting : r.ran[k] <= a
  /\ \A c \in covering : (c <= i /\ \A a \in aborting : c <= a)
                           => \E k \in DOMAIN r.ran : r.ran[k] = c
  /\ \A k, l \in DOMAIN r.ran : k < l => r.ran[k] < r.ran[l]

\* Whoever is put at the end came after those that ran.
LEMMA RanNext ==
  ASSUME NEW covering \in SUBSET Nat, NEW aborting \in SUBSET covering,
         NEW i \in covering, NEW ran \in Seq(Nat), NEW aborts \in BOOLEAN,
         aborts <=> i \in aborting, \A a \in aborting : i <= a, i > 0,
         \A k \in DOMAIN ran : ran[k] \in covering /\ ran[k] <= i - 1
                               /\ \A a \in aborting : ran[k] <= a,
         \A c \in covering : (c <= i - 1 /\ \A a \in aborting : c <= a)
                               => \E k \in DOMAIN ran : ran[k] = c,
         \A k, l \in DOMAIN ran : k < l => ran[k] < ran[l]
  PROVE  RanUpTo([ran |-> Append(ran, i), next |-> TRUE, abort |-> aborts, stopped |-> aborts],
                 i, covering, aborting)
  <1>1. /\ Len(ran) \in Nat /\ \A k \in DOMAIN ran : k \in 1 .. Len(ran)
        /\ \A k \in DOMAIN ran : k \in DOMAIN Append(ran, i) /\ Append(ran, i)[k] = ran[k]
        /\ Len(ran) + 1 \in DOMAIN Append(ran, i) /\ Append(ran, i)[Len(ran) + 1] = i
        /\ \A k \in DOMAIN Append(ran, i) : k \in DOMAIN ran \/ k = Len(ran) + 1
    BY AppendProperties, LenProperties
  <1>. DEFINE r == [ran |-> Append(ran, i), next |-> TRUE, abort |-> aborts, stopped |-> aborts]
              more == Append(ran, i)
  <1>2. /\ r.ran = more /\ r.next = TRUE
        /\ r.abort = aborts /\ r.stopped = aborts
    OBVIOUS
  <1>. HIDE DEF r, more
  <1>3. \A k \in DOMAIN more : more[k] \in covering /\ more[k] <= i
                               /\ \A a \in aborting : more[k] <= a
    <2>1. \A k \in DOMAIN ran : ran[k] \in Nat /\ ran[k] <= i
      OBVIOUS
    <2>. SUFFICES ASSUME NEW k \in DOMAIN more
                  PROVE  more[k] \in covering /\ more[k] <= i
                         /\ \A a \in aborting : more[k] <= a
      OBVIOUS
    <2>2. CASE k \in DOMAIN ran
      BY <1>1, <2>1, <2>2 DEF more
    <2>3. CASE k = Len(ran) + 1
      BY <1>1, <2>3 DEF more
    <2>. QED
      BY <1>1, <2>2, <2>3 DEF more
  <1>4. ASSUME NEW c \in covering, c <= i, \A a \in aborting : c <= a
        PROVE  \E k \in DOMAIN more : more[k] = c
    <2>1. CASE c = i
      BY <1>1, <2>1 DEF more
    <2>2. CASE c # i
      <3>1. c <= i - 1
        BY <1>4, <2>2
      <3>2. PICK k \in DOMAIN ran : ran[k] = c
        BY <1>4, <3>1
      <3>. QED
        BY <1>1, <3>2 DEF more
    <2>. QED
      BY <2>1, <2>2
  <1>5. ASSUME NEW k \in DOMAIN more, NEW l \in DOMAIN more, k < l
        PROVE  more[k] < more[l]
    <2>1. k \in DOMAIN ran
      BY <1>1, <1>5 DEF more
    <2>2. CASE l \in DOMAIN ran
      BY <1>1, <1>5, <2>1, <2>2 DEF more
    <2>3. CASE l = Len(ran) + 1
      BY <1>1, <2>1, <2>3 DEF more
    <2>. QED
      BY <1>1, <2>2, <2>3 DEF more
  <1>6. CASE aborts
    <2>1. \E a \in aborting : a <= i
      BY <1>6
    <2>. QED
      BY <1>2, <1>3, <1>4, <1>5, <1>6, <2>1 DEF RanUpTo, r
  <1>7. CASE ~aborts
    <2>1. \A a \in aborting : i < a
      BY <1>7
    <2>. QED
      BY <1>2, <1>3, <1>4, <1>5, <1>7, <2>1 DEF RanUpTo, r
  <1>. QED
    BY <1>6, <1>7

\* One round of the loop, the first of which finds the interceptor that calls next.
LEMMA RoundKeeps ==
  ASSUME NEW covering \in SUBSET Nat, NEW aborting \in SUBSET covering, NEW i \in Nat,
         NEW interceptor, NEW path,
         Chains!Intercepts(interceptor, path) <=> i \in covering,
         i \in covering => ("abort" \in interceptor.calls <=> i \in aborting),
         \A c \in covering : c >= 1,
         NEW r \in Runs,
         \/ i = 1 /\ r = NoneRan /\ 1 \in covering /\ "next" \in interceptor.calls
         \/ i > 1 /\ RanUpTo(r, i - 1, covering, aborting)
  PROVE  LET after == Chains!After(r, interceptor, i, path)
         IN after \in Runs /\ RanUpTo(after, i, covering, aborting)
  <1>. DEFINE after == Chains!After(r, interceptor, i, path)
              Ends(aborts) == [ran |-> Append(r.ran, i), next |-> TRUE,
                               abort |-> aborts, stopped |-> aborts]
  <1>1. r.ran \in Seq(Nat) /\ Append(r.ran, i) \in Seq(Nat)
    BY DEF Runs
  <1>2. CASE i > 1 /\ r.stopped = TRUE
    <2>1. after = r
      BY <1>2 DEF Chains!After
    <2>2. RanUpTo(r, i - 1, covering, aborting)
      BY <1>2
    <2>3. PICK a \in aborting : a <= i - 1
      BY <1>2, <2>2, Zenon DEF RanUpTo
    <2>4. RanUpTo(r, i, covering, aborting)
      <3>1. \A k \in DOMAIN r.ran : r.ran[k] \in covering /\ r.ran[k] <= i - 1
        BY <2>2, Zenon DEF RanUpTo
      <3>. DEFINE ran == r.ran
      <3>2. \A c \in covering : c <= i - 1 => c <= i
        OBVIOUS
      <3>3. \A k \in DOMAIN ran : ran[k] <= i
        BY <3>1, <3>2, Zenon
      <3>4. \A c \in covering : c <= a => c <= i - 1
        <4>1. a \in Nat /\ \A c \in covering : c \in Nat
          OBVIOUS
        <4>. QED
          BY <2>3, <4>1
      <3>5. \A c \in covering : (\A b \in aborting : c <= b) => c <= i - 1
        BY <3>4, Zenon
      <3>6. a <= i
        BY <2>3
      <3>. QED
        BY <1>2, <2>2, <2>3, <3>3, <3>5, <3>6, Zenon DEF RanUpTo
    <2>. QED
      BY <2>1, <2>4
  <1>3. CASE r.stopped = FALSE
    <2>1. /\ r.abort = FALSE
          /\ r.next = TRUE \/ (Chains!Intercepts(interceptor, path) /\ "next" \in interceptor.calls)
      BY <1>3 DEF RanUpTo, NoneRan
    <2>2. /\ \A k \in DOMAIN r.ran : r.ran[k] \in covering /\ r.ran[k] <= i - 1
                                     /\ \A a \in aborting : r.ran[k] <= a
          /\ \A c \in covering : (c <= i - 1 /\ \A a \in aborting : c <= a)
                                   => \E k \in DOMAIN r.ran : r.ran[k] = c
          /\ \A k, l \in DOMAIN r.ran : k < l => r.ran[k] < r.ran[l]
          /\ \A a \in aborting : i <= a
      <3>1. CASE i = 1
        <4>1. DOMAIN r.ran = {}
          BY <3>1 DEF NoneRan
        <4>2. \A c \in covering : c \in Nat /\ c >= 1 /\ ~(c <= i - 1)
          <5>1. ASSUME NEW c \in Nat, c >= 1 PROVE ~(c <= i - 1)
            BY <3>1, <5>1
          <5>. QED
            BY <5>1, Zenon
        <4>. QED
          BY <3>1, <4>1, <4>2
      <3>2. CASE i > 1
        <4>1. RanUpTo(r, i - 1, covering, aborting)
          BY <3>2
        <4>2. \A a \in aborting : i - 1 < a
          BY <1>3, <4>1, Zenon DEF RanUpTo
        <4>3. \A a \in aborting : a \in Nat
          OBVIOUS
        <4>4. \A a \in aborting : i <= a
          BY <4>2, <4>3
        <4>. QED
          BY <4>1, <4>4, Zenon DEF RanUpTo
      <3>. QED
        BY <3>1, <3>2
    <2>3. CASE i \in covering
      <3>1. after = Ends(i \in aborting)
        <4>. DEFINE runs  == Chains!Intercepts(interceptor, path)
                    next  == r.next \/ (runs /\ "next" \in interceptor.calls)
                    abort == r.abort \/ (runs /\ "abort" \in interceptor.calls)
        <4>1. after = [ran     |-> IF runs THEN Append(r.ran, i) ELSE r.ran, next |-> next,
                       abort   |-> abort, stopped |-> abort \/ ~next]
          BY <1>3 DEF Chains!After
        <4>2. runs /\ (next = TRUE) /\ (abort = (i \in aborting))
          BY <2>1, <2>3
        <4>3. (abort \/ ~next) = (i \in aborting)
          BY <4>2
        <4>. HIDE DEF runs, next, abort
        <4>. QED
          BY <4>1, <4>2, <4>3
      <3>2. RanUpTo(Ends(i \in aborting), i, covering, aborting)
        <4>1. i > 0 /\ (i \in aborting) \in BOOLEAN
          BY <2>3
        <4>. QED
          BY <1>1, <2>2, <2>3, <4>1, RanNext
      <3>. QED
        BY <1>1, <3>1, <3>2 DEF Runs
    <2>4. CASE i \notin covering
      <3>1. i > 1 /\ RanUpTo(r, i - 1, covering, aborting)
        BY <2>4
      <3>2. after = [ran |-> r.ran, next |-> TRUE, abort |-> FALSE, stopped |-> FALSE]
        <4>. DEFINE runs  == Chains!Intercepts(interceptor, path)
                    next  == r.next \/ (runs /\ "next" \in interceptor.calls)
                    abort == r.abort \/ (runs /\ "abort" \in interceptor.calls)
        <4>1. after = [ran     |-> IF runs THEN Append(r.ran, i) ELSE r.ran, next |-> next,
                       abort   |-> abort, stopped |-> abort \/ ~next]
          BY <1>3 DEF Chains!After
        <4>2. ~runs /\ (next = TRUE) /\ (abort = FALSE)
          BY <2>1, <2>4
        <4>3. (abort \/ ~next) = FALSE
          BY <4>2
        <4>. HIDE DEF runs, next, abort
        <4>. QED
          BY <4>1, <4>2, <4>3
      <3>3. /\ \A a \in aborting : i < a
            /\ \A c \in covering : c <= i => c <= i - 1
            /\ \A k \in DOMAIN r.ran : r.ran[k] <= i
        <4>1. /\ \A a \in aborting : a \in Nat /\ a # i /\ i <= a
              /\ \A c \in covering : c \in Nat /\ c # i
              /\ \A k \in DOMAIN r.ran : r.ran[k] \in Nat /\ r.ran[k] <= i - 1
          BY <2>2, <2>4
        <4>. QED
          BY <4>1
      <3>4. RanUpTo(after, i, covering, aborting)
        BY <2>2, <3>2, <3>3 DEF RanUpTo
      <3>. QED
        BY <1>1, <3>2, <3>4 DEF Runs
    <2>. QED
      BY <2>3, <2>4
  <1>4. r.stopped \in BOOLEAN /\ (i = 1 => r.stopped = FALSE)
    BY DEF Runs, NoneRan
  <1>. QED
    BY <1>2, <1>3, <1>4

\* The loop over the interceptors has a run, and a round says what comes next.
LEMMA ChainRuns ==
  ASSUME NEW interceptors, NEW path, Len(interceptors) \in Nat,
         \A i \in 1 .. Len(interceptors) : \A r \in Runs :
           Chains!After(r, interceptors[i], i, path) \in Runs
  PROVE  \E run \in [0 .. Len(interceptors) -> Runs] :
           /\ run[0] = NoneRan
           /\ \A i \in 1 .. Len(interceptors) :
                run[i] = Chains!After(run[i - 1], interceptors[i], i, path)
           /\ Chains!Chain(interceptors, path) = run[Len(interceptors)]
  <1>. DEFINE n == Len(interceptors)
              Step(f) == [i \in 0 .. n |->
                            IF i = 0 THEN NoneRan
                            ELSE Chains!After(f[i - 1], interceptors[i], i, path)]
              run == CHOOSE f : f = Step(f)
              step == [x \in (1 .. n) \X Runs |->
                         Chains!After(x[2], interceptors[x[1]], x[1], path)]
  <1>1. n \in Nat /\ NoneRan \in Runs /\ step \in [(1 .. n) \X Runs -> Runs]
    BY DEF NoneRan, Runs
  <1>2. PICK f \in [0 .. n -> Runs] :
          f[0] = NoneRan /\ \A i \in 1 .. n : f[i] = step[<<i, f[i - 1]>>]
    <2>1. LoopsRun(Runs, NoneRan)
      BY <1>1, LoopRuns
    <2>. HIDE DEF n, step
    <2>. QED
      BY <1>1, <2>1 DEF LoopsRun
  <1>3. \A i \in 1 .. n : f[i] = Chains!After(f[i - 1], interceptors[i], i, path)
    <2>1. \A i \in 1 .. n : i - 1 \in 0 .. n /\ f[i - 1] \in Runs
      BY <1>1
    <2>. QED
      BY <1>2, <2>1
  <1>4. f = Step(f)
    <2>. HIDE DEF n
    <2>. QED
      BY <1>1, <1>2, <1>3
  <1>5. run = Step(run)
    <2>1. \E g : g = Step(g)
      BY <1>4
    <2>. HIDE DEF Step
    <2>. QED
      BY <2>1
  <1>6. Chains!Chain(interceptors, path) = run[n]
    BY DEF Chains!Chain, NoneRan
  <1>. HIDE DEF run
  <1>7. run[0] = NoneRan
        /\ \A i \in 1 .. n : run[i] = Chains!After(run[i - 1], interceptors[i], i, path)
    <2>. HIDE DEF n
    <2>. QED
      BY <1>1, <1>5
  <1>8. \A i \in 0 .. n : run[i] \in Runs
    <2>. DEFINE Good == {i \in 0 .. n : run[i] \in Runs}
    <2>1. 0 \in Good /\ Good \in SUBSET (0 .. n)
      BY <1>1, <1>7
    <2>2. ASSUME NEW i \in 1 .. n, i - 1 \in Good PROVE i \in Good
      BY <1>1, <1>7, <2>2
    <2>. HIDE DEF Good, n
    <2>3. \A i \in 0 .. n : i \in Good
      BY <1>1, <2>1, <2>2, LoopKeeps
    <2>. QED
      BY <2>3 DEF Good
  <1>9. run \in [0 .. n -> Runs]
    <2>1. run = [i \in 0 .. n |-> run[i]]
      <3>1. \E g : run = [i \in 0 .. n |-> g[i]]
        BY <1>5
      <3>. HIDE DEF n
      <3>. QED
        BY <3>1
    <2>. HIDE DEF n
    <2>. QED
      BY <1>8, <2>1
  <1>. QED
    BY <1>6, <1>7, <1>9

\* What the loop over the interceptors leaves behind.
Outcome(interceptors, path, ran, aborting) ==
  /\ {Chains!Chain(interceptors, path).ran[k] :
        k \in DOMAIN Chains!Chain(interceptors, path).ran} = ran
  /\ \A k, l \in DOMAIN Chains!Chain(interceptors, path).ran :
       k < l => Chains!Chain(interceptors, path).ran[k] < Chains!Chain(interceptors, path).ran[l]
  /\ Chains!Dispatched(interceptors, path) <=> aborting = {}

\* Once the first interceptor has called next, the rounds add up to what the
\* patterns and calls say.
LEMMA ChainGoesOn ==
  ASSUME NEW interceptors, NEW path, NEW n \in Nat, Len(interceptors) = n,
         NEW covering \in SUBSET (1 .. n), NEW aborting \in SUBSET covering,
         \A i \in 1 .. n : Chains!Intercepts(interceptors[i], path) <=> i \in covering,
         \A i \in covering : "abort" \in interceptors[i].calls <=> i \in aborting,
         1 \in covering, "next" \in interceptors[1].calls
  PROVE  Outcome(interceptors, path, {i \in covering : \A a \in aborting : i <= a}, aborting)
  <1>. DEFINE ran == Chains!Chain(interceptors, path).ran
  <1>1. n \in Nat /\ n >= 1
    OBVIOUS
  <1>2. covering \in SUBSET Nat /\ \A c \in covering : c \in 1 .. n
    OBVIOUS
  <1>5. PICK run \in [0 .. n -> Runs] :
          /\ run[0] = NoneRan
          /\ \A i \in 1 .. n : run[i] = Chains!After(run[i - 1], interceptors[i], i, path)
          /\ Chains!Chain(interceptors, path) = run[n]
    <2>1. ASSUME NEW i \in 1 .. n, NEW r \in Runs
          PROVE  Chains!After(r, interceptors[i], i, path) \in Runs
      BY DEF Chains!After, Runs
    <2>. QED
      BY <1>1, <2>1, ChainRuns
  <1>. DEFINE Good == {i \in 0 .. n : i = 0 \/ RanUpTo(run[i], i, covering, aborting)}
  <1>6. 0 \in Good /\ Good \in SUBSET (0 .. n)
    BY <1>1
  <1>7. ASSUME NEW i \in 1 .. n, i - 1 \in Good PROVE i \in Good
    <2>1. i \in Nat /\ i \in 0 .. n /\ run[i - 1] \in Runs /\ \A c \in covering : c >= 1
      BY <1>1, <1>2
    <2>2. \/ i = 1 /\ run[i - 1] = NoneRan /\ 1 \in covering /\ "next" \in interceptors[i].calls
          \/ i > 1 /\ RanUpTo(run[i - 1], i - 1, covering, aborting)
      BY <1>5, <1>7, <2>1
    <2>3. RanUpTo(Chains!After(run[i - 1], interceptors[i], i, path), i, covering, aborting)
      BY <1>2, <2>1, <2>2, RoundKeeps
    <2>. QED
      BY <1>5, <2>1, <2>3
  <1>8. RanUpTo(run[n], n, covering, aborting)
    <2>1. \A i \in 0 .. n : i \in Good
      <3>. HIDE DEF Good
      <3>. QED
        BY <1>1, <1>6, <1>7, LoopKeeps
    <2>. QED
      BY <1>1, <2>1
  <1>9. \A c \in covering : c <= n
    BY <1>2
  <1>10. ran = run[n].ran /\ (Chains!Dispatched(interceptors, path) <=> ~run[n].abort)
    BY <1>5 DEF Chains!Dispatched
  <1>. HIDE DEF ran
  <1>11. {ran[k] : k \in DOMAIN ran} = {i \in covering : \A a \in aborting : i <= a}
    <2>1. /\ \A k \in DOMAIN ran : ran[k] \in covering /\ \A a \in aborting : ran[k] <= a
          /\ \A c \in covering : (\A a \in aborting : c <= a)
                                   => \E k \in DOMAIN ran : ran[k] = c
      BY <1>8, <1>9, <1>10 DEF RanUpTo
    <2>. DEFINE first == {i \in covering : \A a \in aborting : i <= a}
    <2>2. \A k \in DOMAIN ran : ran[k] \in first
      BY <2>1
    <2>3. \A c \in first : \E k \in DOMAIN ran : ran[k] = c
      BY <2>1
    <2>4. {ran[k] : k \in DOMAIN ran} = first
      <3>. HIDE DEF first
      <3>. QED
        BY <2>2, <2>3
    <2>. QED
      BY <2>4
  <1>12. \A k, l \in DOMAIN ran : k < l => ran[k] < ran[l]
    BY <1>8, <1>10 DEF RanUpTo
  <1>13. Chains!Dispatched(interceptors, path) <=> aborting = {}
    <2>1. \A a \in aborting : a \in Nat /\ a <= n
      BY <1>2, <1>9
    <2>2. (run[n].abort = FALSE) <=> aborting = {}
      BY <1>1, <1>8, <2>1 DEF RanUpTo
    <2>3. run[n].abort \in BOOLEAN
      BY <1>8 DEF RanUpTo
    <2>. QED
      BY <1>10, <2>2, <2>3
  <1>. QED
    BY <1>11, <1>12, <1>13 DEF Outcome, ran

\* When it has not, the loop ends with it.
LEMMA ChainStops ==
  ASSUME NEW interceptors, NEW path, NEW n \in Nat, Len(interceptors) = n,
         NEW covering \in SUBSET (1 .. n), NEW aborting \in SUBSET (covering \cap {1}),
         \A i \in 1 .. n : Chains!Intercepts(interceptors[i], path) <=> i \in covering,
         1 \in covering => ("abort" \in interceptors[1].calls <=> 1 \in aborting),
         ~(1 \in covering /\ "next" \in interceptors[1].calls)
  PROVE  Outcome(interceptors, path, covering \cap {1}, aborting)
  <1>. DEFINE ran == Chains!Chain(interceptors, path).ran
              first == [ran |-> IF 1 \in covering THEN <<1>> ELSE <<>>, next |-> FALSE,
                        abort |-> 1 \in aborting, stopped |-> TRUE]
  <1>1. PICK run \in [0 .. n -> Runs] :
          /\ run[0] = NoneRan
          /\ \A i \in 1 .. n : run[i] = Chains!After(run[i - 1], interceptors[i], i, path)
          /\ Chains!Chain(interceptors, path) = run[n]
    <2>1. ASSUME NEW i \in 1 .. n, NEW r \in Runs
          PROVE  Chains!After(r, interceptors[i], i, path) \in Runs
      BY DEF Chains!After, Runs
    <2>. QED
      BY <2>1, ChainRuns
  <1>2. CASE n = 0
    <2>1. ran = <<>> /\ (Chains!Dispatched(interceptors, path) <=> TRUE)
      BY <1>1, <1>2 DEF NoneRan, Chains!Dispatched
    <2>2. covering = {}
      BY <1>2
    <2>. QED
      BY <2>1, <2>2 DEF Outcome
  <1>3. CASE n # 0
    <2>1. n >= 1 /\ 1 \in 1 .. n /\ n \in 1 .. n
      BY <1>3
    <2>2. run[1] = first
      <3>. DEFINE runs  == Chains!Intercepts(interceptors[1], path)
                  next  == FALSE \/ (runs /\ "next" \in interceptors[1].calls)
                  abort == FALSE \/ (runs /\ "abort" \in interceptors[1].calls)
      <3>1. run[1] = Chains!After(NoneRan, interceptors[1], 1, path)
        BY <1>1, <2>1
      <3>2. Chains!After(NoneRan, interceptors[1], 1, path)
              = [ran |-> IF runs THEN Append(<<>>, 1) ELSE <<>>, next |-> next,
                 abort |-> abort, stopped |-> abort \/ ~next]
        BY DEF Chains!After, NoneRan
      <3>3. /\ runs <=> 1 \in covering
            /\ next = FALSE /\ abort = (1 \in aborting) /\ (abort \/ ~next) = TRUE
        BY <2>1
      <3>4. Append(<<>>, 1) = <<1>>
        OBVIOUS
      <3>. HIDE DEF runs, next, abort
      <3>. QED
        BY <3>1, <3>2, <3>3, <3>4
    <2>. DEFINE Good == {i \in 0 .. n : i = 0 \/ run[i] = first}
    <2>3. 0 \in Good /\ Good \in SUBSET (0 .. n)
      OBVIOUS
    <2>4. ASSUME NEW i \in 1 .. n, i - 1 \in Good PROVE i \in Good
      <3>1. CASE i = 1
        BY <2>1, <2>2, <3>1
      <3>2. CASE i # 1
        <4>1. run[i - 1] = first /\ i \in 0 .. n
          BY <2>4, <3>2
        <4>2. run[i] = Chains!After(first, interceptors[i], i, path)
          BY <1>1, <4>1
        <4>3. Chains!After(first, interceptors[i], i, path) = first
          BY DEF Chains!After
        <4>. HIDE DEF first
        <4>. QED
          BY <4>1, <4>2, <4>3
      <3>. QED
        BY <3>1, <3>2
    <2>. HIDE DEF Good
    <2>5. \A i \in 0 .. n : i \in Good
      BY <2>3, <2>4, LoopKeeps
    <2>6. run[n] = first
      BY <2>1, <2>5 DEF Good
    <2>7. /\ ran = IF 1 \in covering THEN <<1>> ELSE <<>>
          /\ Chains!Dispatched(interceptors, path) <=> 1 \notin aborting
      <3>1. /\ first.ran = IF 1 \in covering THEN <<1>> ELSE <<>>
            /\ first.abort = (1 \in aborting)
        OBVIOUS
      <3>. HIDE DEF first
      <3>2. Chains!Chain(interceptors, path) = first
        BY <1>1, <2>6
      <3>. QED
        BY <3>1, <3>2 DEF Chains!Dispatched
    <2>. HIDE DEF ran
    <2>8. {ran[k] : k \in DOMAIN ran} = covering \cap {1}
          /\ \A k, l \in DOMAIN ran : k < l => ran[k] < ran[l]
      <3>1. CASE 1 \in covering
        <4>1. DOMAIN ran = {1} /\ ran[1] = 1
          BY <2>7, <3>1
        <4>. QED
          BY <3>1, <4>1
      <3>2. CASE 1 \notin covering
        <4>1. DOMAIN ran = {}
          BY <2>7, <3>2
        <4>. QED
          BY <3>2, <4>1
      <3>. QED
        BY <3>1, <3>2
    <2>. QED
      BY <2>7, <2>8 DEF Outcome, ran
  <1>. QED
    BY <1>2, <1>3

LEMMA GuardsHold ==
  ASSUME NEW S, NEW interceptors \in Interceptors(S), NEW path \in Seq(S)
  PROVE  Chains!RunsAsCovered(interceptors, path, 1)
  <1>. DEFINE n == Len(interceptors)
              Covered(i) == \E j \in DOMAIN interceptors[i].paths :
                              Chains!Covers(interceptors[i].paths[j], path, 1)
              covering == {i \in DOMAIN interceptors : Covered(i)}
              goesOn == 1 \in covering /\ "next" \in interceptors[1].calls
              reached == IF goesOn THEN covering ELSE covering \cap {1}
              aborting == {i \in reached : "abort" \in interceptors[i].calls}
              ran == {i \in reached : \A a \in aborting : i <= a}
  <1>. SUFFICES ASSUME \A i \in DOMAIN interceptors :
                         \A j \in DOMAIN interceptors[i].paths :
                           Chains!Simple(interceptors[i].paths[j])
                PROVE  Outcome(interceptors, path, ran, aborting)
    BY DEF Chains!RunsAsCovered, Outcome
  <1>1. n \in Nat /\ DOMAIN interceptors = 1 .. n
    BY LenProperties DEF Interceptors
  <1>2. covering \in SUBSET (1 .. n)
    BY <1>1
  <1>3. \A i \in 1 .. n : Chains!Intercepts(interceptors[i], path) <=> i \in covering
    <2>1. \A i \in 1 .. n : i \in covering <=> Covered(i)
      <3>. HIDE DEF Covered, n
      <3>. QED
        BY <1>1
    <2>. SUFFICES ASSUME NEW i \in 1 .. n
                  PROVE  Chains!Intercepts(interceptors[i], path) <=> Covered(i)
      <3>. HIDE DEF Covered, covering, n
      <3>. QED
        BY <2>1
    <2>2. interceptors[i].paths \in Seq(Seq(S))
      <3>1. interceptors[i] \in [paths : Seq(Seq(S)), calls : SUBSET {"next", "abort"}]
        <4>. HIDE DEF n
        <4>. QED
          BY <1>1, ElementOfSeq DEF Interceptors, n
      <3>. QED
        BY <3>1
    <2>3. \A j \in DOMAIN interceptors[i].paths :
            /\ interceptors[i].paths[j] \in Seq(S)
            /\ Chains!Simple(interceptors[i].paths[j])
      BY <2>2
    <2>4. \A j \in DOMAIN interceptors[i].paths :
            Chains!pathMatch(interceptors[i].paths[j], path)
              <=> Chains!Covers(interceptors[i].paths[j], path, 1)
      BY <2>3, MatchCovers
    <2>. QED
      BY <2>4 DEF Chains!Intercepts
  <1>. HIDE DEF covering, n
  <1>4. CASE goesOn
    <2>1. /\ reached = covering /\ aborting \in SUBSET covering
          /\ \A i \in covering : "abort" \in interceptors[i].calls <=> i \in aborting
      BY <1>4
    <2>2. Outcome(interceptors, path, {i \in covering : \A a \in aborting : i <= a}, aborting)
      <3>. HIDE DEF reached, aborting
      <3>. QED
        BY <1>1, <1>2, <1>3, <1>4, <2>1, ChainGoesOn DEF n
    <2>. QED
      BY <2>1, <2>2
  <1>5. CASE ~goesOn
    <2>1. /\ reached = covering \cap {1} /\ aborting \in SUBSET (covering \cap {1})
          /\ 1 \in covering => ("abort" \in interceptors[1].calls <=> 1 \in aborting)
      BY <1>5
    <2>2. ran = covering \cap {1}
      <3>. HIDE DEF reached, aborting
      <3>1. \A i \in covering \cap {1} : \A a \in aborting : i <= a
        BY <2>1
      <3>. QED
        BY <2>1, <3>1
    <2>. HIDE DEF reached, aborting, ran
    <2>3. Outcome(interceptors, path, covering \cap {1}, aborting)
      BY <1>1, <1>2, <1>3, <1>5, <2>1, ChainStops DEF n
    <2>. QED
      BY <2>2, <2>3
  <1>. QED
    BY <1>4, <1>5

(***************************************************************************)
(* Whatever the interceptors, their number, their patterns and the path:   *)
(* the ones that run are those that cover the path and are reached, up to  *)
(* the first that aborts, which alone keeps the request from the router.   *)
(***************************************************************************)
THEOREM GuardsTheorem ==
  ASSUME NEW S, subject = "chain" => input \in [chain : Interceptors(S), path : Seq(S)]
  PROVE  InterceptorsRun
  <1>. SUFFICES ASSUME subject = "chain"
                PROVE  Chains!RunsAsCovered(input.chain, input.path, 1)
    BY DEF InterceptorsRun
  <1>1. input.chain \in Interceptors(S) /\ input.path \in Seq(S)
    OBVIOUS
  <1>. QED
    BY <1>1, GuardsHold

-----------------------------------------------------------------------------
(***************************************************************************)
(* The router.                                                             *)
(***************************************************************************)
Parts == Literals \union Singles \union Rests
Texts == Parts \union {""}
TrieNodes == [parent : Nat, part : Texts, pattern : Seq(Texts)]
Root(parent, part) == parent = 0 /\ part = ""

LEMMA PartsAreTexts ==
  Parts \subseteq Texts /\ Router!NoPattern \in Seq(Texts)
  <1>1. Parts \subseteq Texts /\ "" \in Texts
    BY DEF Texts
  <1>2. \A x \in Texts : <<x>> \in Seq(Texts)
    OBVIOUS
  <1>. QED
    BY <1>1, <1>2, Zenon DEF Router!NoPattern

\* label names each node of a trie after the components that lead to it: every
\* prefix has one node, and those in registered hold their pattern.
Trie(trie, label, registered, prefixes) ==
  /\ trie \in Seq(TrieNodes)
  /\ label \in [1 .. Len(trie) -> Seq(Parts)]
  /\ \A m, n \in 1 .. Len(trie) : label[m] = label[n] => m = n
  /\ Len(trie) >= 1 /\ label[1] = <<>> /\ Root(trie[1].parent, trie[1].part)
  /\ \A n \in 2 .. Len(trie) : /\ trie[n].parent \in 1 .. Len(trie)
                               /\ trie[n].part \in Parts
                               /\ label[n] = Append(label[trie[n].parent], trie[n].part)
  /\ \A n \in 1 .. Len(trie) :
       trie[n].pattern = IF label[n] \in registered THEN label[n] ELSE Router!NoPattern
  /\ \A n \in 1 .. Len(trie) : label[n] \in prefixes
  /\ \A s \in prefixes : \E n \in 1 .. Len(trie) : label[n] = s

\* The beginnings of a sequence, each longer by one than the one before.
LEMMA BeginningGrows ==
  ASSUME NEW S, NEW seq \in Seq(S), NEW k \in 1 .. Len(seq)
  PROVE  /\ SubSeq(seq, 1, k - 1) \in Seq(S) /\ SubSeq(seq, 1, k) \in Seq(S)
         /\ Len(SubSeq(seq, 1, k - 1)) = k - 1 /\ Len(SubSeq(seq, 1, k)) = k
         /\ SubSeq(seq, 1, k) = Append(SubSeq(seq, 1, k - 1), seq[k])
         /\ \A i \in 1 .. k : SubSeq(seq, 1, k)[i] = seq[i]
  <1>1. Len(seq) \in Nat /\ \A i \in 1 .. Len(seq) : seq[i] \in S
    BY LenProperties, ElementOfSeq
  <1>2. /\ SubSeq(seq, 1, k - 1) \in Seq(S) /\ Len(SubSeq(seq, 1, k - 1)) = k - 1
        /\ \A i \in 1 .. k - 1 : SubSeq(seq, 1, k - 1)[i] = seq[i]
    <2>1. /\ 1 \in Int /\ k - 1 \in Int /\ \A i \in 1 .. k - 1 : seq[i] \in S
          /\ (k - 1) - 1 + 1 = k - 1 /\ \A i \in 1 .. k - 1 : 1 + i - 1 = i
          /\ ~(1 <= k - 1) => k - 1 = 0
      BY <1>1
    <2>2. /\ SubSeq(seq, 1, k - 1) \in Seq(S)
          /\ Len(SubSeq(seq, 1, k - 1)) = IF 1 <= k - 1 THEN (k - 1) - 1 + 1 ELSE 0
          /\ \A i \in 1 .. (k - 1) - 1 + 1 : SubSeq(seq, 1, k - 1)[i] = seq[1 + i - 1]
      BY <2>1, SubSeqProperties
    <2>. QED
      BY <2>1, <2>2
  <1>3. /\ SubSeq(seq, 1, k) \in Seq(S) /\ Len(SubSeq(seq, 1, k)) = k
        /\ \A i \in 1 .. k : SubSeq(seq, 1, k)[i] = seq[i]
    <2>1. /\ 1 \in Int /\ k \in Int /\ \A i \in 1 .. k : seq[i] \in S
          /\ k - 1 + 1 = k /\ \A i \in 1 .. k : 1 + i - 1 = i
          /\ 1 <= k
      BY <1>1
    <2>2. /\ SubSeq(seq, 1, k) \in Seq(S)
          /\ Len(SubSeq(seq, 1, k)) = IF 1 <= k THEN k - 1 + 1 ELSE 0
          /\ \A i \in 1 .. k - 1 + 1 : SubSeq(seq, 1, k)[i] = seq[1 + i - 1]
      BY <2>1, SubSeqProperties
    <2>. QED
      BY <2>1, <2>2
  <1>4. SubSeq(seq, 1, k) = Append(SubSeq(seq, 1, k - 1), seq[k])
    <2>1. SubSeq(seq, 1, k) = SubSeq(seq, 1, k - 1) \o <<seq[k]>>
      <3>1. 1 \in 1 .. Len(seq) /\ k \in 1 .. Len(seq)
        BY <1>1
      <3>. QED
        BY <3>1, SubSeqRecursiveSecond
    <2>. QED
      BY <1>1, <1>2, <2>1, AppendIsConcat
  <1>. QED
    BY <1>2, <1>3, <1>4

\* insert is at the node for s.
Stands(at, label, registered, prefixes, s) ==
  /\ Trie(at.trie, label, registered, prefixes)
  /\ at.node \in 1 .. Len(at.trie) /\ label[at.node] = s

\* A component that meets no wildcard other than itself gets the node of its own.
LEMMA PartInserted ==
  ASSUME NEW at, NEW label, NEW registered, NEW prefixes, NEW s \in Seq(Parts),
         Stands(at, label, registered, prefixes, s), registered \subseteq prefixes,
         NEW part \in Parts,
         \A w \in Router!Wild : Append(s, w) \in prefixes => w = part
  PROVE  \E longer : Stands(Router!insertPart(at, part), longer, registered,
                           prefixes \union {Append(s, part)}, Append(s, part))
  <1>. DEFINE trie == at.trie
              node == at.node
              child(i) == trie[i].parent = node /\ trie[i].part \in Router!Wild \union {part}
              children == {i \in DOMAIN trie : child(i)}
              next == Router!insertPart(at, part)
              all == prefixes \union {Append(s, part)}
  <1>. SUFFICES /\ next.node \in 1 .. Len(next.trie)
                /\ \E longer : /\ Trie(next.trie, longer, registered, all)
                               /\ longer[next.node] = Append(s, part)
    BY DEF Stands
  <1>1. children = Router!matchChildren(trie, node, part) /\ DOMAIN trie = 1 .. Len(trie)
    BY LenProperties DEF Router!matchChildren, Trie, Stands
  <1>2. next = IF children # {} THEN [trie |-> trie, node |-> Router!Min(children)]
               ELSE [trie |-> Append(trie, [parent |-> node, part |-> part,
                                            pattern |-> Router!NoPattern]),
                     node |-> Len(trie) + 1]
    BY <1>1 DEF Router!insertPart, Router!Node
  <1>3. \A i : i \in children <=> i \in 1 .. Len(trie) /\ child(i)
    BY <1>1
  <1>4. Trie(trie, label, registered, prefixes) /\ node \in 1 .. Len(trie) /\ label[node] = s
    BY DEF Stands
  <1>. HIDE DEF trie, node, children, child, next
  <1>5. trie \in Seq(TrieNodes)
    BY <1>4 DEF Trie
  <1>6. label \in [1 .. Len(trie) -> Seq(Parts)]
    BY <1>4 DEF Trie
  <1>7. \A m, n \in 1 .. Len(trie) : label[m] = label[n] => m = n
    BY <1>4 DEF Trie
  <1>8. label[1] = <<>>
    BY <1>4 DEF Trie
  <1>9. Len(trie) >= 1 /\ Root(trie[1].parent, trie[1].part) /\ trie[1].parent = 0
    BY <1>4 DEF Trie, Root
  <1>10. Len(trie) \in Nat /\ 1 \in 1 .. Len(trie)
    BY <1>5, <1>9, LenProperties
  <1>11. \A n \in 2 .. Len(trie) : /\ trie[n].parent \in 1 .. Len(trie)
                                  /\ trie[n].part \in Parts
                                  /\ label[n] = Append(label[trie[n].parent], trie[n].part)
    BY <1>4 DEF Trie
  <1>12. \A n \in 1 .. Len(trie) :
           trie[n].pattern = IF label[n] \in registered THEN label[n] ELSE Router!NoPattern
    BY <1>4 DEF Trie
  <1>13. /\ \A n \in 1 .. Len(trie) : label[n] \in prefixes
         /\ \A t \in prefixes : \E n \in 1 .. Len(trie) : label[n] = t
    BY <1>4 DEF Trie
  <1>14. Append(s, part) \in Seq(Parts) /\ Append(s, part) # <<>>
    BY AppendProperties
  <1>15. ASSUME NEW i \in 2 .. Len(trie)
         PROVE  label[i] = Append(s, part) <=> trie[i].parent = node /\ trie[i].part = part
    <2>1. /\ trie[i].parent \in 1 .. Len(trie) /\ trie[i].part \in Parts
          /\ label[i] = Append(label[trie[i].parent], trie[i].part)
          /\ label[trie[i].parent] \in Seq(Parts)
      BY <1>6, <1>11
    <2>2. label[i] = Append(s, part) <=> label[trie[i].parent] = s /\ trie[i].part = part
      BY <2>1, AppendInjective
    <2>3. label[trie[i].parent] = s <=> trie[i].parent = node
      BY <1>4, <1>7, <2>1
    <2>. QED
      BY <2>2, <2>3
  <1>16. ASSUME NEW i \in 1 .. Len(trie), child(i)
         PROVE  i \in 2 .. Len(trie) /\ trie[i].parent = node /\ trie[i].part = part
    <2>1. trie[i].parent = node /\ trie[i].part \in Router!Wild \union {part}
      BY <1>16 DEF child
    <2>2. i \in 2 .. Len(trie)
      <3>1. node # 0 /\ i # 1
        BY <1>4, <1>9, <1>10, <2>1
      <3>. QED
        BY <1>10, <3>1
    <2>3. label[i] = Append(s, trie[i].part) /\ label[i] \in prefixes
      BY <1>4, <1>11, <1>13, <2>1, <2>2
    <2>. QED
      BY <2>1, <2>2, <2>3
  <1>17. CASE children # {}
    <2>. DEFINE first == Router!Min(children)
    <2>1. next = [trie |-> trie, node |-> first]
      BY <1>2, <1>17
    <2>2. first \in children
      <3>1. children \in SUBSET Nat
        BY <1>3, <1>10
      <3>2. \E m \in children : \A k \in children : m <= k
        BY <1>17, <3>1, LeastNatural
      <3>. QED
        BY <3>2 DEF Router!Min
    <2>. HIDE DEF first
    <2>3. first \in 2 .. Len(trie) /\ trie[first].part = part /\ trie[first].parent = node
      BY <1>3, <1>16, <2>2
    <2>4. first \in 1 .. Len(trie) /\ label[first] = Append(s, part)
      BY <1>10, <1>15, <2>3
    <2>5. prefixes = all
      BY <1>13, <2>4
    <2>6. next.trie = trie /\ next.node = first
      BY <2>1
    <2>. HIDE DEF all
    <2>. QED
      BY <1>4, <2>4, <2>5, <2>6
  <1>18. CASE children = {}
    <2>. DEFINE new == [parent |-> node, part |-> part, pattern |-> Router!NoPattern]
                more == Append(trie, new)
                longer == [i \in 1 .. Len(trie) + 1 |->
                             IF i = Len(trie) + 1 THEN Append(s, part) ELSE label[i]]
    <2>1. next = [trie |-> more, node |-> Len(trie) + 1]
      BY <1>2, <1>18
    <2>2. \A i \in 1 .. Len(trie) : label[i] # Append(s, part)
      <3>1. ASSUME NEW i \in 2 .. Len(trie) PROVE label[i] # Append(s, part)
        <4>1. i \in 1 .. Len(trie) /\ ~child(i)
          BY <1>3, <1>10, <1>18
        <4>. QED
          BY <1>15, <4>1 DEF child
      <3>2. label[1] # Append(s, part)
        BY <1>8, <1>14
      <3>3. \A i \in 1 .. Len(trie) : i = 1 \/ i \in 2 .. Len(trie)
        BY <1>10
      <3>. QED
        BY <3>1, <3>2, <3>3
    <2>3. Append(s, part) \notin registered
      BY <1>13, <2>2
    <2>4. new \in TrieNodes
      <3>1. node \in Nat /\ Router!NoPattern \in Seq(Texts)
        BY <1>4, <1>10, PartsAreTexts
      <3>2. part \in Texts
        BY PartsAreTexts
      <3>. QED
        BY <3>1, <3>2 DEF TrieNodes
    <2>5. new.parent = node /\ new.part = part /\ new.pattern = Router!NoPattern
      OBVIOUS
    <2>. HIDE DEF new
    <2>6. /\ more \in Seq(TrieNodes) /\ Len(more) = Len(trie) + 1
          /\ \A i \in 1 .. Len(trie) : more[i] = trie[i]
          /\ more[Len(trie) + 1] = new
      BY <1>5, <2>4, AppendProperties
    <2>7. /\ longer \in [1 .. Len(trie) + 1 -> Seq(Parts)]
          /\ \A i \in 1 .. Len(trie) : longer[i] = label[i]
          /\ longer[Len(trie) + 1] = Append(s, part)
      BY <1>10, <1>6, <1>14
    <2>. HIDE DEF more, longer
    <2>8. \A i \in 1 .. Len(more) : i \in 1 .. Len(trie) \/ i = Len(trie) + 1
      BY <1>10, <2>6
    <2>9. Trie(more, longer, registered, all)
      <3>1. ASSUME NEW m \in 1 .. Len(more), NEW n \in 1 .. Len(more), longer[m] = longer[n]
            PROVE  m = n
        <4>1. CASE m \in 1 .. Len(trie) /\ n \in 1 .. Len(trie)
          BY <1>7, <2>7, <3>1, <4>1
        <4>2. CASE m \in 1 .. Len(trie) /\ n = Len(trie) + 1
          BY <2>2, <2>7, <3>1, <4>2
        <4>3. CASE m = Len(trie) + 1 /\ n \in 1 .. Len(trie)
          BY <2>2, <2>7, <3>1, <4>3
        <4>. QED
          BY <2>8, <4>1, <4>2, <4>3
      <3>2. Len(more) >= 1 /\ Root(more[1].parent, more[1].part)
        <4>1. more[1] = trie[1]
          BY <1>10, <2>6
        <4>2. Len(more) >= 1
          BY <1>10, <2>6
        <4>. QED
          BY <1>9, <4>1, <4>2
      <3>3. longer[1] = <<>>
        <4>1. longer[1] = label[1]
          BY <1>10, <1>9, <2>7
        <4>. QED
          BY <1>8, <4>1
      <3>4. ASSUME NEW n \in 2 .. Len(more)
            PROVE  /\ more[n].parent \in 1 .. Len(more)
                   /\ more[n].part \in Parts
                   /\ longer[n] = Append(longer[more[n].parent], more[n].part)
        <4>1. CASE n \in 2 .. Len(trie)
          <5>1. n \in 1 .. Len(trie) /\ trie[n].parent \in 1 .. Len(trie)
            BY <1>10, <1>11, <4>1
          <5>2. more[n] = trie[n] /\ longer[n] = label[n]
                /\ longer[trie[n].parent] = label[trie[n].parent]
            BY <2>6, <2>7, <5>1
          <5>. QED
            BY <1>10, <1>11, <2>6, <4>1, <5>1, <5>2
        <4>2. CASE n = Len(trie) + 1
          BY <1>4, <1>10, <2>5, <2>6, <2>7, <4>2
        <4>. QED
          BY <1>10, <2>6, <4>1, <4>2
      <3>5. ASSUME NEW n \in 1 .. Len(more)
            PROVE  more[n].pattern = IF longer[n] \in registered THEN longer[n]
                                     ELSE Router!NoPattern
        BY <1>12, <2>3, <2>5, <2>6, <2>7, <2>8
      <3>6. \A n \in 1 .. Len(more) : longer[n] \in all
        BY <1>13, <2>7, <2>8
      <3>7. ASSUME NEW t \in all PROVE \E n \in 1 .. Len(more) : longer[n] = t
        <4>1. Len(trie) + 1 \in 1 .. Len(more) /\ \A n \in 1 .. Len(trie) : n \in 1 .. Len(more)
          BY <1>10, <2>6
        <4>. QED
          BY <1>13, <2>7, <4>1
      <3>. QED
        BY <2>6, <2>7, <3>1, <3>2, <3>4, <3>5, <3>6, <3>7, <3>3 DEF Trie
    <2>10. Len(trie) + 1 \in 1 .. Len(more)
      BY <1>10, <2>6
    <2>11. next.trie = more /\ next.node = Len(trie) + 1
      BY <2>1
    <2>. HIDE DEF all
    <2>. QED
      BY <2>7, <2>9, <2>10, <2>11
  <1>. QED
    BY <1>17, <1>18

Stems(patterns) ==
  {s \in Seq(Parts) : s = <<>> \/ \E p \in patterns : \E k \in 1 .. Len(p) : s = SubSeq(p, 1, k)}

Beginnings(pattern, height) == {SubSeq(pattern, 1, k) : k \in 0 .. height}

\* A pattern that nothing shadows meets no wildcard but its own.
LEMMA NoWildcardAhead ==
  ASSUME NEW registered \in SUBSET Seq(Parts), NEW pattern \in Seq(Parts),
         \A p \in registered : ~Router!Shadows(p, pattern),
         NEW h \in 1 .. Len(pattern), NEW w \in Router!Wild,
         Append(SubSeq(pattern, 1, h - 1), w)
           \in Stems(registered) \union Beginnings(pattern, h - 1)
  PROVE  w = pattern[h]
  <1>. DEFINE s == SubSeq(pattern, 1, h - 1)
              t == Append(s, w)
  <1>1. w \in Parts /\ Len(pattern) \in Nat
    BY LenProperties DEF Parts, Router!Wild
  <1>2. s \in Seq(Parts) /\ Len(s) = h - 1
    BY BeginningGrows
  <1>3. t \in Seq(Parts) /\ Len(t) = h /\ t # <<>>
    <2>. HIDE DEF s
    <2>1. t \in Seq(Parts) /\ Len(t) = Len(s) + 1 /\ t # <<>>
      BY <1>1, <1>2, AppendProperties
    <2>. HIDE DEF t
    <2>. QED
      BY <1>1, <1>2, <2>1
  <1>. HIDE DEF t
  <1>4. t \notin Beginnings(pattern, h - 1)
    <2>. SUFFICES ASSUME NEW k \in 0 .. h - 1, t = SubSeq(pattern, 1, k) PROVE FALSE
      BY DEF Beginnings
    <2>1. CASE k = 0
      BY <1>1, <1>3, <2>1, SubSeqEmpty
    <2>2. CASE k # 0
      <3>1. k \in 1 .. Len(pattern)
        BY <1>1, <2>2
      <3>2. Len(t) = k
        BY <3>1, BeginningGrows
      <3>. QED
        BY <1>1, <1>3, <3>2
    <2>. QED
      BY <2>1, <2>2
  <1>5. PICK p \in registered : \E k \in 1 .. Len(p) : t = SubSeq(p, 1, k)
    BY <1>3, <1>4 DEF Stems, t
  <1>6. p \in Seq(Parts) /\ Len(p) \in Nat
    BY LenProperties
  <1>7. PICK k \in 1 .. Len(p) : t = SubSeq(p, 1, k)
    BY <1>5
  <1>8. /\ Len(t) = k /\ SubSeq(p, 1, k - 1) \in Seq(Parts)
        /\ t = Append(SubSeq(p, 1, k - 1), p[k])
    BY <1>6, <1>7, BeginningGrows
  <1>9. k = h
    BY <1>3, <1>8
  <1>10. p[h] \in Parts /\ SubSeq(p, 1, h - 1) \in Seq(Parts)
        /\ t = Append(SubSeq(p, 1, h - 1), p[h])
    BY <1>6, <1>7, <1>8, <1>9, ElementOfSeq
  <1>11. SubSeq(p, 1, h - 1) = s /\ p[h] = w
    <2>. HIDE DEF s
    <2>1. Append(s, w) = Append(SubSeq(p, 1, h - 1), p[h])
      BY <1>10 DEF t
    <2>. DEFINE u == SubSeq(p, 1, h - 1)
    <2>2. s \in Seq(Parts) /\ w \in Parts /\ u \in Seq(Parts) /\ p[h] \in Parts
      BY <1>1, <1>2, <1>10
    <2>. HIDE DEF u
    <2>3. Append(s, w) = Append(u, p[h]) <=> s = u /\ w = p[h]
      BY <2>2, AppendInjective
    <2>. QED
      BY <2>1, <2>3 DEF u
  <1>12. h \in DOMAIN p /\ h \in DOMAIN pattern
    BY <1>6, <1>7, <1>9, LenProperties
  <1>. QED
    BY <1>11, <1>12 DEF Router!Shadows

\* A registered pattern is what the node at its end holds.
LEMMA PatternSet ==
  ASSUME NEW trie, NEW label, NEW registered \in SUBSET Seq(Parts), NEW pattern \in Seq(Parts),
         Trie(trie, label, registered,
              Stems(registered) \union Beginnings(pattern, Len(pattern))),
         NEW node \in 1 .. Len(trie), label[node] = pattern
  PROVE  LET set == [i \in DOMAIN trie |->
                       IF i = node
                       THEN [parent |-> trie[i].parent, part |-> trie[i].part, pattern |-> pattern]
                       ELSE trie[i]]
         IN Trie(set, label, registered \union {pattern}, Stems(registered \union {pattern}))
  <1>. DEFINE set == [i \in DOMAIN trie |->
                        IF i = node
                        THEN [parent |-> trie[i].parent, part |-> trie[i].part, pattern |-> pattern]
                        ELSE trie[i]]
              before == Stems(registered) \union Beginnings(pattern, Len(pattern))
              after == Stems(registered \union {pattern})
              all == registered \union {pattern}
  <1>. SUFFICES Trie(set, label, all, after)
    OBVIOUS
  <1>1. trie \in Seq(TrieNodes)
    BY DEF Trie
  <1>2. Len(trie) \in Nat /\ DOMAIN trie = 1 .. Len(trie) /\ Len(pattern) \in Nat
    BY <1>1, LenProperties
  <1>3. \A i \in 1 .. Len(trie) :
          /\ set[i].parent = trie[i].parent /\ set[i].part = trie[i].part
          /\ set[i].pattern = IF i = node THEN pattern ELSE trie[i].pattern
    BY <1>2
  <1>4. set \in Seq(TrieNodes) /\ Len(set) = Len(trie)
    <2>1. \A i \in 1 .. Len(trie) : set[i] \in TrieNodes
      <3>. SUFFICES ASSUME NEW i \in 1 .. Len(trie) PROVE set[i] \in TrieNodes
        OBVIOUS
      <3>1. trie[i] \in TrieNodes
        BY <1>1, ElementOfSeq
      <3>2. pattern \in Seq(Texts)
        BY PartsAreTexts, SeqMonotonic
      <3>3. CASE i = node
        <4>1. set[i] = [parent |-> trie[i].parent, part |-> trie[i].part, pattern |-> pattern]
          BY <1>2, <3>3
        <4>. QED
          BY <3>1, <3>2, <4>1 DEF TrieNodes
      <3>4. CASE i # node
        BY <1>2, <3>1, <3>4
      <3>. QED
        BY <3>3, <3>4
    <2>2. set = [i \in 1 .. Len(trie) |-> set[i]]
      BY <1>2
    <2>. HIDE DEF set
    <2>3. set \in [1 .. Len(trie) -> TrieNodes]
      BY <2>1, <2>2
    <2>. QED
      BY <1>2, <2>3
  <1>. HIDE DEF set
  <1>5. before = after
    <2>1. ASSUME NEW s \in Beginnings(pattern, Len(pattern)) PROVE s \in after
      <3>1. PICK k \in 0 .. Len(pattern) : s = SubSeq(pattern, 1, k)
        BY DEF Beginnings
      <3>2. CASE k = 0
        <4>1. s = <<>>
          BY <3>1, <3>2, SubSeqEmpty
        <4>. QED
          BY <4>1, EmptySeq DEF Stems
      <3>3. CASE k # 0
        <4>1. k \in 1 .. Len(pattern)
          BY <1>2, <3>3
        <4>2. s \in Seq(Parts)
          BY <3>1, <4>1, BeginningGrows
        <4>. QED
          BY <3>1, <4>1, <4>2 DEF Stems
      <3>. QED
        BY <3>2, <3>3
    <2>2. \A s \in after : s \in before
      <3>1. \A k \in 1 .. Len(pattern) : SubSeq(pattern, 1, k) \in Beginnings(pattern, Len(pattern))
        BY <1>2 DEF Beginnings
      <3>. QED
        BY <3>1 DEF Stems
    <2>. QED
      BY <2>1, <2>2 DEF Stems
  <1>6. ASSUME NEW i \in 1 .. Len(set)
        PROVE  set[i].pattern = IF label[i] \in all THEN label[i] ELSE Router!NoPattern
    BY <1>3, <1>4 DEF Trie
  <1>7. /\ label \in [1 .. Len(set) -> Seq(Parts)]
        /\ \A m, n \in 1 .. Len(set) : label[m] = label[n] => m = n
        /\ Len(set) >= 1 /\ label[1] = <<>>
    BY <1>4 DEF Trie
  <1>8. Root(set[1].parent, set[1].part)
    BY <1>2, <1>3, <1>4 DEF Trie
  <1>9. \A n \in 2 .. Len(set) : n \in 1 .. Len(trie)
    BY <1>2, <1>4
  <1>10. \A n \in 2 .. Len(set) : /\ set[n].parent \in 1 .. Len(set)
                                  /\ set[n].part \in Parts
                                  /\ label[n] = Append(label[set[n].parent], set[n].part)
    BY <1>3, <1>4, <1>9 DEF Trie
  <1>. HIDE DEF before, after, all
  <1>11. /\ \A n \in 1 .. Len(set) : label[n] \in after
         /\ \A s \in after : \E n \in 1 .. Len(set) : label[n] = s
    BY <1>4, <1>5 DEF Trie, before
  <1>. QED
    BY <1>4, <1>6, <1>7, <1>8, <1>10, <1>11 DEF Trie

\* The walk of insert: where it is and the trie it has so far.
Walks == [trie : Seq(TrieNodes), node : Nat]

LEMMA WalkTyped ==
  ASSUME NEW at \in Walks, NEW part \in Parts
  PROVE  Router!insertPart(at, part) \in Walks
  <1>. DEFINE children == Router!matchChildren(at.trie, at.node, part)
              new == [parent |-> at.node, part |-> part, pattern |-> Router!NoPattern]
  <1>1. /\ at.trie \in Seq(TrieNodes) /\ at.node \in Nat
        /\ DOMAIN at.trie = 1 .. Len(at.trie) /\ Len(at.trie) \in Nat
    BY LenProperties DEF Walks
  <1>2. Router!insertPart(at, part)
          = IF children # {} THEN [trie |-> at.trie, node |-> Router!Min(children)]
            ELSE [trie |-> Append(at.trie, new), node |-> Len(at.trie) + 1]
    BY DEF Router!insertPart, Router!Node
  <1>3. CASE children # {}
    <2>1. children \in SUBSET Nat
      BY <1>1 DEF Router!matchChildren
    <2>. HIDE DEF children
    <2>2. Router!Min(children) \in Nat
      <3>1. \E m \in children : \A k \in children : m <= k
        BY <1>3, <2>1, LeastNatural
      <3>. QED
        BY <2>1, <3>1 DEF Router!Min
    <2>. QED
      BY <1>1, <1>2, <1>3, <2>2 DEF Walks
  <1>4. CASE children = {}
    <2>1. new \in TrieNodes
      <3>1. part \in Texts /\ Router!NoPattern \in Seq(Texts)
        BY PartsAreTexts
      <3>. QED
        BY <1>1, <3>1 DEF TrieNodes
    <2>. HIDE DEF new, children
    <2>2. Append(at.trie, new) \in Seq(TrieNodes)
      BY <1>1, <2>1, AppendProperties
    <2>. QED
      BY <1>1, <1>2, <1>4, <2>2 DEF Walks
  <1>. QED
    BY <1>3, <1>4

LEMMA WalkRuns ==
  ASSUME NEW trie \in Seq(TrieNodes), NEW pattern \in Seq(Parts)
  PROVE  \E at \in [0 .. Len(pattern) -> Walks] :
           /\ at[0] = [trie |-> trie, node |-> 1]
           /\ \A h \in 1 .. Len(pattern) : at[h] = Router!insertPart(at[h - 1], pattern[h])
           /\ Router!insert(trie, pattern)
                = [i \in DOMAIN at[Len(pattern)].trie |->
                     IF i = at[Len(pattern)].node
                     THEN [parent |-> at[Len(pattern)].trie[i].parent,
                           part |-> at[Len(pattern)].trie[i].part, pattern |-> pattern]
                     ELSE at[Len(pattern)].trie[i]]
  <1>. DEFINE n == Len(pattern)
              start == [trie |-> trie, node |-> 1]
              Step(f) == [h \in 0 .. n |-> IF h = 0 THEN start
                                           ELSE Router!insertPart(f[h - 1], pattern[h])]
              at == CHOOSE f : f = Step(f)
              step == [x \in (1 .. n) \X Walks |-> Router!insertPart(x[2], pattern[x[1]])]
  <1>1. n \in Nat /\ start \in Walks /\ \A h \in 1 .. n : pattern[h] \in Parts
    BY LenProperties, ElementOfSeq DEF Walks
  <1>2. step \in [(1 .. n) \X Walks -> Walks]
    <2>. HIDE DEF n
    <2>. QED
      BY <1>1, WalkTyped
  <1>3. PICK f \in [0 .. n -> Walks] :
          f[0] = start /\ \A h \in 1 .. n : f[h] = step[<<h, f[h - 1]>>]
    <2>1. LoopsRun(Walks, start)
      BY <1>1, LoopRuns
    <2>. HIDE DEF n, start, step
    <2>. QED
      BY <1>1, <1>2, <2>1 DEF LoopsRun
  <1>4. \A h \in 1 .. n : f[h] = Router!insertPart(f[h - 1], pattern[h])
    <2>1. \A h \in 1 .. n : f[h - 1] \in Walks
      BY <1>1
    <2>. HIDE DEF n, start
    <2>. QED
      BY <1>3, <2>1
  <1>5. f = Step(f)
    <2>. HIDE DEF n, start
    <2>. QED
      BY <1>1, <1>3, <1>4
  <1>6. at = Step(at)
    <2>1. \E g : g = Step(g)
      BY <1>5
    <2>. HIDE DEF Step
    <2>. QED
      BY <2>1
  <1>7. Router!insert(trie, pattern)
          = [i \in DOMAIN at[n].trie |->
               IF i = at[n].node
               THEN [parent |-> at[n].trie[i].parent, part |-> at[n].trie[i].part,
                     pattern |-> pattern]
               ELSE at[n].trie[i]]
    BY DEF Router!insert
  <1>. HIDE DEF at
  <1>8. /\ at[0] = start
        /\ \A h \in 1 .. n : at[h] = Router!insertPart(at[h - 1], pattern[h])
    <2>. HIDE DEF n, start
    <2>. QED
      BY <1>1, <1>6
  <1>9. \A h \in 0 .. n : at[h] \in Walks
    <2>. DEFINE Good == {h \in 0 .. n : at[h] \in Walks}
    <2>1. 0 \in Good /\ Good \in SUBSET (0 .. n)
      BY <1>1, <1>8
    <2>2. ASSUME NEW h \in 1 .. n, h - 1 \in Good PROVE h \in Good
      BY <1>1, <1>8, <2>2, WalkTyped
    <2>. HIDE DEF Good, n
    <2>3. \A h \in 0 .. n : h \in Good
      BY <1>1, <2>1, <2>2, LoopKeeps
    <2>. QED
      BY <2>3 DEF Good
  <1>10. at \in [0 .. n -> Walks]
    <2>1. at = [h \in 0 .. n |-> at[h]]
      <3>1. \E g : at = [h \in 0 .. n |-> g[h]]
        BY <1>6
      <3>. HIDE DEF n
      <3>. QED
        BY <3>1
    <2>. HIDE DEF n
    <2>. QED
      BY <1>9, <2>1
  <1>. HIDE DEF Step
  <1>. QED
    BY <1>7, <1>8, <1>10

\* A pattern that nothing shadows is inserted as itself.
LEMMA Inserted ==
  ASSUME NEW trie, NEW label, NEW registered \in SUBSET Seq(Parts), NEW pattern \in Seq(Parts),
         Trie(trie, label, registered, Stems(registered)),
         \A p \in registered : ~Router!Shadows(p, pattern)
  PROVE  \E longer : Trie(Router!insert(trie, pattern), longer, registered \union {pattern},
                          Stems(registered \union {pattern}))
  <1>. DEFINE n == Len(pattern)
              known(h) == Stems(registered) \union Beginnings(pattern, h)
              here(h) == SubSeq(pattern, 1, h)
  <1>1. n \in Nat /\ trie \in Seq(TrieNodes)
    BY LenProperties DEF Trie
  <1>2. PICK at \in [0 .. n -> Walks] :
          /\ at[0] = [trie |-> trie, node |-> 1]
          /\ \A h \in 1 .. n : at[h] = Router!insertPart(at[h - 1], pattern[h])
          /\ Router!insert(trie, pattern)
                = [i \in DOMAIN at[n].trie |->
                     IF i = at[n].node
                     THEN [parent |-> at[n].trie[i].parent, part |-> at[n].trie[i].part,
                           pattern |-> pattern]
                     ELSE at[n].trie[i]]
    BY <1>1, WalkRuns
  <1>. DEFINE Reached(h) == \E l : Stands(at[h], l, registered, known(h), here(h))
              Good == {h \in 0 .. n : Reached(h)}
  <1>3. registered \subseteq known(0) /\ \A h \in 0 .. n : registered \subseteq known(h)
    <2>1. ASSUME NEW p \in registered PROVE p \in Stems(registered)
      <3>1. p \in Seq(Parts) /\ Len(p) \in Nat /\ p = SubSeq(p, 1, Len(p))
        BY LenProperties, SubSeqFull
      <3>2. CASE p = <<>>
        BY <3>1, <3>2 DEF Stems
      <3>3. CASE p # <<>>
        <4>1. Len(p) \in 1 .. Len(p)
          BY <3>1, <3>3, EmptySeq
        <4>. QED
          BY <3>1, <4>1 DEF Stems
      <3>. QED
        BY <3>2, <3>3
    <2>. QED
      BY <2>1
  <1>4. 0 \in Good
    <2>1. known(0) = Stems(registered) /\ here(0) = <<>>
      <3>1. here(0) = <<>> /\ <<>> \in Stems(registered)
        BY SubSeqEmpty, EmptySeq DEF Stems
      <3>2. Beginnings(pattern, 0) = {here(0)}
        BY DEF Beginnings
      <3>. QED
        BY <3>1, <3>2
    <2>2. at[0].trie = trie /\ at[0].node = 1
      BY <1>2
    <2>3. 1 \in 1 .. Len(trie) /\ label[1] = <<>>
      BY <1>1, LenProperties DEF Trie
    <2>. HIDE DEF known, here
    <2>4. Stands(at[0], label, registered, known(0), here(0))
      BY <2>1, <2>2, <2>3 DEF Stands
    <2>. QED
      BY <1>1, <2>4
  <1>5. ASSUME NEW h \in 1 .. n, h - 1 \in Good PROVE h \in Good
    <2>1. PICK l : Stands(at[h - 1], l, registered, known(h - 1), here(h - 1))
      BY <1>5
    <2>2. h - 1 \in 0 .. n /\ h \in 0 .. n
      BY <1>1
    <2>3. /\ pattern[h] \in Parts /\ here(h - 1) \in Seq(Parts)
          /\ here(h) = Append(here(h - 1), pattern[h])
      BY ElementOfSeq, BeginningGrows
    <2>4. \A w \in Router!Wild : Append(here(h - 1), w) \in known(h - 1) => w = pattern[h]
      BY NoWildcardAhead
    <2>5. known(h) = known(h - 1) \union {here(h)}
      <3>1. \A k : k \in 0 .. h <=> k \in 0 .. h - 1 \/ k = h
        BY <1>1
      <3>. QED
        BY <3>1 DEF Beginnings
    <2>6. registered \subseteq known(h - 1)
      BY <1>3, <2>2
    <2>. DEFINE walk == at[h - 1]
                seen == known(h - 1)
                s == here(h - 1)
                part == pattern[h]
    <2>7. /\ Stands(walk, l, registered, seen, s) /\ s \in Seq(Parts) /\ part \in Parts
          /\ registered \subseteq seen
          /\ \A w \in Router!Wild : Append(s, w) \in seen => w = part
      BY <2>1, <2>3, <2>4, <2>6
    <2>. HIDE DEF walk, seen, s, part, known, here
    <2>8. \E longer : Stands(Router!insertPart(walk, part), longer, registered,
                            seen \union {Append(s, part)}, Append(s, part))
      BY <2>7, PartInserted
    <2>9. at[h] = Router!insertPart(walk, part)
      BY <1>2 DEF walk, part
    <2>10. known(h) = seen \union {Append(s, part)} /\ here(h) = Append(s, part)
      BY <2>3, <2>5 DEF seen, s, part
    <2>11. Reached(h)
      BY <2>8, <2>9, <2>10
    <2>. HIDE DEF Reached
    <2>. QED
      BY <2>2, <2>11
  <1>6. Reached(n)
    <2>. HIDE DEF Reached, n
    <2>1. Good \in SUBSET (0 .. n)
      OBVIOUS
    <2>2. \A h \in 0 .. n : h \in Good
      <3>. HIDE DEF Good
      <3>. QED
        BY <1>1, <1>4, <1>5, <2>1, LoopKeeps
    <2>. QED
      BY <1>1, <2>2
  <1>7. here(n) = pattern
    BY SubSeqFull
  <1>. DEFINE last == at[n].trie
              node == at[n].node
  <1>8. PICK l : Stands(at[n], l, registered, known(n), here(n))
    BY <1>6
  <1>9. node \in 1 .. Len(last) /\ l[node] = pattern
    BY <1>7, <1>8 DEF Stands
  <1>10. Router!insert(trie, pattern)
           = [i \in DOMAIN last |->
                IF i = node
                THEN [parent |-> last[i].parent, part |-> last[i].part, pattern |-> pattern]
                ELSE last[i]]
    BY <1>2
  <1>11. Trie(last, l, registered, Stems(registered) \union Beginnings(pattern, Len(pattern)))
    BY <1>8 DEF Stands
  <1>12. Trie(Router!insert(trie, pattern), l, registered \union {pattern},
              Stems(registered \union {pattern}))
    <2>. HIDE DEF last, node, n
    <2>. QED
      BY <1>9, <1>10, <1>11, PatternSet
  <1>. QED
    BY <1>12

\* The first child with a result gives it.
LEMMA FirstHit ==
  ASSUME NEW children \in SUBSET Nat, NEW hit
  PROVE  /\ Router!first(children, hit) = 0 => \A c \in children : hit[c] = 0
         /\ Router!first(children, hit) # 0 =>
              \E c \in children : hit[c] # 0 /\ Router!first(children, hit) = hit[c]
  <1>. DEFINE hits == {c \in children : hit[c] # 0}
  <1>1. Router!first(children, hit) = IF hits = {} THEN 0 ELSE hit[Router!Min(hits)]
    BY DEF Router!first
  <1>2. hits # {} => Router!Min(hits) \in hits
    <2>. SUFFICES ASSUME hits # {} PROVE Router!Min(hits) \in hits
      OBVIOUS
    <2>1. hits \in SUBSET Nat
      OBVIOUS
    <2>. HIDE DEF hits
    <2>2. \E m \in hits : \A k \in hits : m <= k
      BY <2>1, LeastNatural
    <2>. QED
      BY <2>2 DEF Router!Min
  <1>. QED
    BY <1>1, <1>2

\* What search finds below the nodes of one height, given what it finds one further down
Rows(trie) == [1 .. Len(trie) -> 0 .. Len(trie)]

Row(trie, path, height, below) ==
  [n \in DOMAIN trie |->
     IF height = Len(path) \/ trie[n].part \in Rests
     THEN IF trie[n].pattern = Router!NoPattern THEN 0 ELSE n
     ELSE Router!first(Router!matchChildren(trie, n, path[height + 1]), below)]

LEMMA RowTyped ==
  ASSUME NEW trie \in Seq(TrieNodes), NEW path, NEW height, NEW below \in Rows(trie)
  PROVE  Row(trie, path, height, below) \in Rows(trie)
  <1>1. DOMAIN trie = 1 .. Len(trie) /\ Len(trie) \in Nat
    BY LenProperties
  <1>. DEFINE children(n) == Router!matchChildren(trie, n, path[height + 1])
  <1>2. ASSUME NEW n \in 1 .. Len(trie)
        PROVE  Router!first(children(n), below) \in 0 .. Len(trie)
    <2>1. children(n) \subseteq 1 .. Len(trie)
      BY <1>1 DEF Router!matchChildren
    <2>. HIDE DEF children
    <2>2. children(n) \in SUBSET Nat
      BY <1>1, <2>1
    <2>3. \A c \in children(n) : below[c] \in 0 .. Len(trie)
      BY <2>1 DEF Rows
    <2>. DEFINE found == Router!first(children(n), below)
    <2>4. found # 0 => \E c \in children(n) : found = below[c]
      BY <2>2, FirstHit
    <2>. HIDE DEF found
    <2>5. found \in 0 .. Len(trie)
      BY <1>1, <2>3, <2>4
    <2>. QED
      BY <2>5 DEF found
  <1>. HIDE DEF children
  <1>3. Row(trie, path, height, below)
          = [n \in 1 .. Len(trie) |->
               IF height = Len(path) \/ trie[n].part \in Rests
               THEN IF trie[n].pattern = Router!NoPattern THEN 0 ELSE n
               ELSE Router!first(children(n), below)]
    BY <1>1 DEF Row, children
  <1>. QED
    BY <1>1, <1>2, <1>3 DEF Rows

\* The rows exist, from the one at the height of the whole path up.
LEMMA SearchRuns ==
  ASSUME NEW trie \in Seq(TrieNodes), NEW path \in Seq(Parts)
  PROVE  \E hit : /\ \A h \in 0 .. Len(path) : hit[h] = Row(trie, path, h, hit[h + 1])
                  /\ Router!search(trie, path) = hit[0][1]
  <1>. DEFINE m == Len(path)
              Step(f) == [h \in 0 .. m |-> Row(trie, path, h, f[h + 1])]
              hit == CHOOSE f : f = Step(f)
              none == [n \in 1 .. Len(trie) |-> 0]
              start == Row(trie, path, m, none)
              step == [x \in (1 .. m) \X Rows(trie) |-> Row(trie, path, m - x[1], x[2])]
  <1>1. m \in Nat /\ none \in Rows(trie) /\ start \in Rows(trie)
    <2>1. m \in Nat /\ none \in Rows(trie)
      BY LenProperties DEF Rows
    <2>. HIDE DEF none, m
    <2>. QED
      BY <2>1, RowTyped
  <1>2. step \in [(1 .. m) \X Rows(trie) -> Rows(trie)]
    <2>. HIDE DEF m
    <2>. QED
      BY RowTyped
  <1>3. PICK f \in [0 .. m -> Rows(trie)] :
          f[0] = start /\ \A k \in 1 .. m : f[k] = step[<<k, f[k - 1]>>]
    <2>1. LoopsRun(Rows(trie), start)
      BY <1>1, LoopRuns
    <2>. HIDE DEF m, start, step
    <2>. QED
      BY <1>1, <1>2, <2>1 DEF LoopsRun
  <1>4. \A k \in 1 .. m : f[k] = Row(trie, path, m - k, f[k - 1])
    <2>1. \A k \in 1 .. m : f[k - 1] \in Rows(trie)
      BY <1>1
    <2>. HIDE DEF m, start
    <2>. QED
      BY <1>3, <2>1
  <1>5. \A above, below : Row(trie, path, m, above) = Row(trie, path, m, below)
    BY DEF Row
  <1>. DEFINE g == [h \in 0 .. m |-> f[m - h]]
  <1>6. \A h \in 0 .. m : g[h] = Row(trie, path, h, g[h + 1])
    <2>. SUFFICES ASSUME NEW h \in 0 .. m PROVE g[h] = Row(trie, path, h, g[h + 1])
      OBVIOUS
    <2>. HIDE DEF m, start
    <2>1. CASE h = m
      <3>1. g[h] = start
        BY <1>1, <1>3, <2>1
      <3>2. start = Row(trie, path, h, g[h + 1])
        BY <1>5, <2>1 DEF start
      <3>. QED
        BY <3>1, <3>2
    <2>2. CASE h # m
      <3>1. m - h \in 1 .. m /\ h + 1 \in 0 .. m /\ m - (m - h) = h /\ m - (h + 1) = (m - h) - 1
        BY <1>1, <2>2
      <3>2. g[h] = f[m - h] /\ g[h + 1] = f[(m - h) - 1]
        BY <3>1
      <3>. QED
        BY <1>4, <3>1, <3>2
    <2>. QED
      BY <2>1, <2>2
  <1>7. g = Step(g)
    <2>. HIDE DEF m
    <2>1. g = [h \in 0 .. m |-> g[h]]
      OBVIOUS
    <2>. HIDE DEF g
    <2>. QED
      BY <1>6, <2>1
  <1>8. hit = Step(hit)
    <2>1. \E e : e = Step(e)
      BY <1>7
    <2>. HIDE DEF Step
    <2>. QED
      BY <2>1
  <1>9. Router!search(trie, path) = hit[0][1]
    BY DEF Router!search, Row
  <1>. HIDE DEF hit
  <1>10. \A h \in 0 .. m : hit[h] = Row(trie, path, h, hit[h + 1])
    <2>. HIDE DEF m
    <2>. QED
      BY <1>8
  <1>. QED
    BY <1>9, <1>10

\* What search finds below a node, for the patterns that begin like its label
Along(s, path) == \A i \in DOMAIN s : i \in DOMAIN path /\ s[i] \in Router!Wild \union {path[i]}
Behind(r, s) == Len(s) <= Len(r) /\ s = SubSeq(r, 1, Len(s))
AnswersFor(trie, label, registered, path, n, found) ==
  /\ found = 0 => \A r \in registered : Behind(r, label[n]) => ~Router!Matches(r, path)
  /\ found # 0 => /\ found \in 1 .. Len(trie) /\ label[found] \in registered
                  /\ Router!Matches(label[found], path)
RowAnswers(trie, label, registered, path, h, row) ==
  \A n \in 1 .. Len(trie) :
    Len(label[n]) = h /\ Along(label[n], path)
      => AnswersFor(trie, label, registered, path, n, row[n])

PartsNamed == "" \notin Parts
RestsEnd(registered) == \A r \in registered : \A i \in DOMAIN r : r[i] \in Rests => i = Len(r)

\* A node that ends the search answers for what is registered there.
LEMMA NodeAnswers ==
  ASSUME NEW trie, NEW label, NEW registered \in SUBSET Seq(Parts), NEW path \in Seq(Parts),
         Trie(trie, label, registered, Stems(registered)),
         NEW n \in 1 .. Len(trie), Along(label[n], path),
         Router!NoPattern \notin Seq(Parts),
         Len(label[n]) = Len(path) \/ (label[n] # <<>> /\ Router!Last(label[n]) \in Rests),
         \A r \in registered : Behind(r, label[n]) /\ Router!Matches(r, path) => r = label[n],
         NEW found, found = IF trie[n].pattern = Router!NoPattern THEN 0 ELSE n
  PROVE  AnswersFor(trie, label, registered, path, n, found)
  <1>1. trie[n].pattern = IF label[n] \in registered THEN label[n] ELSE Router!NoPattern
    BY DEF Trie
  <1>2. Len(trie) \in Nat /\ n # 0
    BY LenProperties DEF Trie
  <1>3. label[n] \in Seq(Parts)
    BY DEF Trie
  <1>4. Router!Matches(label[n], path)
    BY DEF Router!Matches, Along
  <1>5. found = IF label[n] \in registered THEN n ELSE 0
    BY <1>1, <1>3
  <1>. QED
    BY <1>2, <1>4, <1>5 DEF AnswersFor

LEMMA RowsAnswer ==
  ASSUME NEW trie, NEW label, NEW registered \in SUBSET Seq(Parts), NEW path \in Seq(Parts),
         Trie(trie, label, registered, Stems(registered)), RestsEnd(registered),
         Router!NoPattern \notin Seq(Parts), PartsNamed,
         NEW h \in 0 .. Len(path), NEW below,
         h # Len(path) => RowAnswers(trie, label, registered, path, h + 1, below)
  PROVE  RowAnswers(trie, label, registered, path, h, Row(trie, path, h, below))
  <1>1. trie \in Seq(TrieNodes) /\ Len(trie) \in Nat
        /\ \A i : i \in DOMAIN trie <=> i \in 1 .. Len(trie)
    BY LenProperties DEF Trie
  <1>2. Len(path) \in Nat /\ \A i : i \in DOMAIN path <=> i \in 1 .. Len(path)
    BY LenProperties
  <1>. SUFFICES ASSUME NEW n \in 1 .. Len(trie), Len(label[n]) = h, Along(label[n], path)
                PROVE  AnswersFor(trie, label, registered, path, n, Row(trie, path, h, below)[n])
    BY DEF RowAnswers
  <1>. DEFINE s == label[n]
              found == Row(trie, path, h, below)[n]
              children == Router!matchChildren(trie, n, path[h + 1])
  <1>3. s \in Seq(Parts) /\ Len(s) = h /\ Along(s, path)
        /\ \A i : i \in DOMAIN s <=> i \in 1 .. h
    BY LenProperties DEF Trie
  <1>4. found = IF h = Len(path) \/ trie[n].part \in Rests
                THEN IF trie[n].pattern = Router!NoPattern THEN 0 ELSE n
                ELSE Router!first(children, below)
    BY <1>1 DEF Row
  <1>5. trie[n].part \in Rests <=> s # <<>> /\ Router!Last(s) \in Rests
    <2>1. CASE n = 1
      <3>1. s = <<>>
        BY <2>1 DEF Trie
      <3>2. Root(trie[n].parent, trie[n].part)
        BY <2>1 DEF Trie
      <3>3. trie[n].part \notin Rests
        BY <3>2, Zenon DEF Root, PartsNamed, Parts
      <3>. QED
        BY <3>1, <3>3
    <2>2. CASE n # 1
      <3>1. n \in 2 .. Len(trie)
        BY <1>1, <2>2
      <3>2. s = Append(label[trie[n].parent], trie[n].part) /\ label[trie[n].parent] \in Seq(Parts)
            /\ trie[n].part \in Parts
        BY <3>1 DEF Trie
      <3>3. s # <<>> /\ Router!Last(s) = trie[n].part
        <4>. HIDE DEF s
        <4>1. s # <<>> /\ s[Len(s)] = trie[n].part
          <5>1. s # <<>> /\ Len(s) = Len(label[trie[n].parent]) + 1
                /\ s[Len(label[trie[n].parent]) + 1] = trie[n].part
            BY <3>2, AppendProperties
          <5>. QED
            BY <5>1
        <4>. QED
          BY <4>1 DEF Router!Last
      <3>. QED
        BY <3>3
    <2>. QED
      BY <2>1, <2>2
  <1>6. ASSUME NEW r \in registered, Behind(r, s)
        PROVE  /\ r \in Seq(Parts) /\ Len(r) \in Nat
               /\ (\A i : i \in DOMAIN r <=> i \in 1 .. Len(r))
               /\ h <= Len(r) /\ (Len(r) = h => r = s) /\ \A i \in 1 .. h : s[i] = r[i]
    <2>1. r \in Seq(Parts) /\ Len(r) \in Nat
               /\ (\A i : i \in DOMAIN r <=> i \in 1 .. Len(r))
      BY LenProperties
    <2>2. h <= Len(r) /\ s = SubSeq(r, 1, h)
      BY <1>3, <1>6 DEF Behind
    <2>3. Len(r) = h => r = s
      BY <2>1, <2>2, SubSeqFull
    <2>4. \A i \in 1 .. h : s[i] = r[i]
      <3>1. CASE h = 0
        BY <3>1
      <3>2. CASE h # 0
        <4>1. h \in 1 .. Len(r)
          BY <1>2, <2>1, <2>2, <3>2
        <4>. QED
          BY <2>1, <2>2, <4>1, BeginningGrows
      <3>. QED
        BY <3>1, <3>2
    <2>. HIDE DEF s
    <2>. QED
      BY <2>1, <2>2, <2>3, <2>4
  <1>. HIDE DEF found, s
  <1>7. CASE trie[n].part \in Rests
    <2>1. s # <<>> /\ Router!Last(s) \in Rests /\ s[h] \in Rests
      BY <1>3, <1>5, <1>7 DEF Router!Last
    <2>2. h \in 1 .. h
      <3>1. h # 0
        BY <1>3, <2>1, EmptySeq
      <3>. QED
        BY <1>2, <3>1
    <2>3. ASSUME NEW r \in registered, Behind(r, s) PROVE r = s
      <3>1. h \in DOMAIN r /\ r[h] \in Rests
        BY <1>2, <1>6, <2>1, <2>2, <2>3
      <3>2. h = Len(r)
        BY <3>1 DEF RestsEnd
      <3>. QED
        BY <1>6, <2>3, <3>2
    <2>4. found = IF trie[n].pattern = Router!NoPattern THEN 0 ELSE n
      BY <1>4, <1>7
    <2>. QED
      BY <2>1, <2>3, <2>4, NodeAnswers DEF s, found
  <1>8. CASE h = Len(path)
    <2>1. ASSUME NEW r \in registered, Behind(r, s), Router!Matches(r, path) PROVE r = s
      <3>1. \A i \in 1 .. Len(r) : i \in 1 .. Len(path)
        BY <1>2, <1>6, <2>1 DEF Router!Matches
      <3>2. Len(r) <= h
        BY <1>2, <1>6, <1>8, <2>1, <3>1
      <3>3. Len(r) = h
        BY <1>2, <1>6, <2>1, <3>2
      <3>. QED
        BY <1>6, <2>1, <3>3
    <2>2. found = IF trie[n].pattern = Router!NoPattern THEN 0 ELSE n
      BY <1>4, <1>8
    <2>3. Len(s) = Len(path)
      BY <1>3, <1>8
    <2>. QED
      BY <2>1, <2>2, <2>3, NodeAnswers DEF s, found
  <1>9. CASE h # Len(path) /\ trie[n].part \notin Rests
    <2>1. found = Router!first(children, below)
      BY <1>4, <1>9
    <2>2. h + 1 \in 1 .. Len(path)
      BY <1>2, <1>9
    <2>3. ASSUME NEW c \in children
          PROVE  c \in 1 .. Len(trie) /\ AnswersFor(trie, label, registered, path, c, below[c])
                 /\ trie[c].parent = n /\ trie[c].part \in Router!Wild \union {path[h + 1]}
      <3>1. /\ c \in 1 .. Len(trie) /\ trie[c].parent = n
            /\ trie[c].part \in Router!Wild \union {path[h + 1]}
        BY <1>1 DEF Router!matchChildren
      <3>2. c \in 2 .. Len(trie)
        <4>1. Root(trie[1].parent, trie[1].part)
          BY DEF Trie
        <4>2. trie[1].parent = 0
          BY <4>1, Zenon DEF Root
        <4>. QED
          BY <1>1, <3>1, <4>2
      <3>3. label[c] = Append(s, trie[c].part) /\ trie[c].part \in Parts /\ label[c] \in Seq(Parts)
        BY <3>1, <3>2 DEF Trie, s
      <3>4. /\ Len(label[c]) = h + 1 
            /\ (\A i : i \in DOMAIN label[c] <=> i \in 1 .. h + 1)
            /\ \A i \in 1 .. h : label[c][i] = s[i]
            /\ label[c][h + 1] = trie[c].part
        <4>1. /\ Len(Append(s, trie[c].part)) = h + 1
              /\ \A i \in 1 .. h : Append(s, trie[c].part)[i] = s[i]
              /\ Append(s, trie[c].part)[h + 1] = trie[c].part
          BY <1>3, <3>3, AppendProperties
        <4>2. \A i : i \in DOMAIN label[c] <=> i \in 1 .. Len(label[c])
          BY <3>3, LenProperties
        <4>. QED
          BY <3>3, <4>1, <4>2
      <3>5. Along(label[c], path)
        <4>1. \A i \in 1 .. h + 1 : i \in 1 .. h \/ i = h + 1
          BY <1>2
        <4>2. \A i \in 1 .. h : i \in DOMAIN path /\ s[i] \in Router!Wild \union {path[i]}
          BY <1>3 DEF Along
        <4>. QED
          BY <1>2, <2>2, <3>1, <3>4, <4>1, <4>2 DEF Along
      <3>. QED
        BY <1>9, <3>1, <3>4, <3>5 DEF RowAnswers
    <2>4. CASE found # 0
      <3>1. PICK c \in children : below[c] # 0 /\ found = below[c]
        <4>1. children \in SUBSET Nat
          BY <1>1, <2>3
        <4>. HIDE DEF children
        <4>. QED
          BY <2>1, <2>4, <4>1, FirstHit
      <3>. QED
        BY <2>3, <2>4, <3>1 DEF AnswersFor, found
    <2>5. CASE found = 0
      <3>1. \A c \in children : below[c] = 0
        <4>1. children \in SUBSET Nat
          BY <1>1, <2>3
        <4>. HIDE DEF children
        <4>. QED
          BY <2>1, <2>5, <4>1, FirstHit
      <3>2. ASSUME NEW r \in registered, Behind(r, s), Router!Matches(r, path) PROVE FALSE
        <4>1. Len(r) # h
          <5>. SUFFICES ASSUME Len(r) = h PROVE FALSE
            OBVIOUS
          <5>1. r = s
            BY <1>6, <3>2
          <5>. QED
            BY <1>5, <1>9, <3>2, <5>1 DEF Router!Matches
        <4>2. h + 1 \in 1 .. Len(r) /\ h \in 0 .. Len(r)
          BY <1>2, <1>6, <3>2, <4>1
        <4>. DEFINE t == SubSeq(r, 1, h + 1)
        <4>3. t \in Seq(Parts) /\ t = Append(s, r[h + 1]) /\ Len(t) = h + 1
          <5>1. SubSeq(r, 1, (h + 1) - 1) = s
            <6>1. (h + 1) - 1 = h
              BY <1>2
            <6>. QED
              BY <1>3, <3>2, <6>1 DEF Behind
          <5>. QED
            BY <1>6, <3>2, <4>2, <5>1, BeginningGrows
        <4>4. t \in Stems(registered)
          BY <4>2, <4>3 DEF Stems
        <4>. HIDE DEF t
        <4>5. PICK c \in 1 .. Len(trie) : label[c] = t
          BY <4>4 DEF Trie
        <4>6. c \in 2 .. Len(trie)
          <5>1. Len(label[1]) = 0
            BY EmptySeq DEF Trie
          <5>2. c # 1
            BY <1>2, <4>3, <4>5, <5>1
          <5>. QED
            BY <1>1, <5>2
        <4>7. /\ trie[c].parent \in 1 .. Len(trie) /\ trie[c].part \in Parts
              /\ label[c] = Append(label[trie[c].parent], trie[c].part)
              /\ label[trie[c].parent] \in Seq(Parts)
          BY <4>6 DEF Trie
        <4>8. r[h + 1] \in Parts
          BY <1>6, <3>2, <4>2, ElementOfSeq
        <4>9. label[trie[c].parent] = s /\ trie[c].part = r[h + 1]
          <5>. DEFINE u == label[trie[c].parent]
                      x == trie[c].part
                      y == r[h + 1]
          <5>1. Append(u, x) = Append(s, y)
            BY <4>3, <4>5, <4>7
          <5>2. u \in Seq(Parts) /\ s \in Seq(Parts) /\ x \in Parts /\ y \in Parts
            BY <1>3, <4>7, <4>8
          <5>. HIDE DEF u, x, y
          <5>3. Append(u, x) = Append(s, y) <=> u = s /\ x = y
            BY <5>2, AppendInjective
          <5>4. u = s /\ x = y
            BY <5>1, <5>3
          <5>. QED
            BY <5>4 DEF u, x, y
        <4>10. trie[c].parent = n
          BY <4>7, <4>9 DEF Trie, s
        <4>11. trie[c].part \in Router!Wild \union {path[h + 1]}
          BY <1>6, <3>2, <4>2, <4>9 DEF Router!Matches
        <4>12. c \in children
          BY <1>1, <4>10, <4>11 DEF Router!matchChildren
        <4>13. Behind(r, label[c])
          BY <1>6, <3>2, <4>2, <4>3, <4>5 DEF Behind, t
        <4>. QED
          BY <2>3, <3>1, <3>2, <4>12, <4>13 DEF AnswersFor
      <3>. QED
        BY <2>5, <3>2 DEF AnswersFor, found, s
    <2>. QED
      BY <2>4, <2>5
  <1>. QED
    BY <1>7, <1>8, <1>9

\* search answers at the root for every pattern registered.
LEMMA SearchAnswers ==
  ASSUME NEW trie, NEW label, NEW registered \in SUBSET Seq(Parts), NEW path \in Seq(Parts),
         Trie(trie, label, registered, Stems(registered)), RestsEnd(registered),
         Router!NoPattern \notin Seq(Parts), PartsNamed
  PROVE  AnswersFor(trie, label, registered, path, 1, Router!search(trie, path))
  <1>1. trie \in Seq(TrieNodes) /\ 1 \in 1 .. Len(trie)
    BY LenProperties DEF Trie
  <1>2. label[1] = <<>> /\ <<>> \in Seq(Parts)
    BY DEF Trie
  <1>. DEFINE m == Len(path)
  <1>3. m \in Nat
    BY LenProperties
  <1>4. PICK hit : /\ \A h \in 0 .. m : hit[h] = Row(trie, path, h, hit[h + 1])
                   /\ Router!search(trie, path) = hit[0][1]
    BY <1>1, SearchRuns
  <1>. DEFINE Answered(h) == RowAnswers(trie, label, registered, path, h, hit[h])
              Good == {k \in 0 .. m : Answered(m - k)}
  <1>5. ASSUME NEW h \in 0 .. m, h # m => Answered(h + 1)
        PROVE  Answered(h)
    <2>1. hit[h] = Row(trie, path, h, hit[h + 1])
      BY <1>4
    <2>. DEFINE below == hit[h + 1]
    <2>2. h # m => RowAnswers(trie, label, registered, path, h + 1, below)
      BY <1>5
    <2>. HIDE DEF below
    <2>3. RowAnswers(trie, label, registered, path, h, Row(trie, path, h, below))
      BY <2>2, RowsAnswer
    <2>. QED
      BY <2>1, <2>3 DEF below
  <1>. HIDE DEF m, Answered
  <1>6. 0 \in Good
    <2>1. m \in 0 .. m /\ m - 0 = m /\ 0 \in 0 .. m
      BY <1>3
    <2>. QED
      BY <1>5, <2>1
  <1>7. ASSUME NEW k \in 1 .. m, k - 1 \in Good PROVE k \in Good
    <2>1. m - k \in 0 .. m /\ (m - k) + 1 = m - (k - 1) /\ k \in 0 .. m
      BY <1>3
    <2>2. Answered((m - k) + 1)
      BY <1>7, <2>1
    <2>. QED
      BY <1>5, <2>1, <2>2
  <1>8. \A k \in 0 .. m : k \in Good
    <2>1. Good \in SUBSET (0 .. m)
      OBVIOUS
    <2>. HIDE DEF Good
    <2>. QED
      BY <1>3, <1>6, <1>7, <2>1, LoopKeeps
  <1>9. Answered(0)
    <2>1. m \in 0 .. m /\ m - m = 0
      BY <1>3
    <2>. QED
      BY <1>8, <2>1
  <1>10. Len(label[1]) = 0 /\ Along(label[1], path)
    <2>1. Len(<<>>) = 0 /\ DOMAIN <<>> = {}
      BY <1>2, EmptySeq, LenProperties
    <2>. QED
      BY <1>2, <2>1 DEF Along
  <1>. QED
    BY <1>1, <1>4, <1>9, <1>10 DEF RowAnswers, Answered

Registered == Router!ToSet(handlers)

\* While nothing registered shadows what comes after it, the nodes are the trie
\* of the patterns registered.
RouterInv ==
  /\ handlers \in Seq(Router!Routes)
  /\ Router!Orderly => \E label : Trie(nodes, label, Registered, Stems(Registered))

LEMMA RoutesTyped ==
  ASSUME MaxParts \in Nat, NEW p \in Router!Routes
  PROVE  p \in Seq(Parts) /\ \A i \in DOMAIN p : p[i] \in Rests => i = Len(p)
  <1>1. PICK k \in 0 .. MaxParts : p \in [1 .. k -> Literals \union Router!Wild]
    BY DEF Router!Routes
  <1>2. k \in Nat /\ p \in [1 .. k -> Parts]
    BY <1>1 DEF Parts, Router!Wild
  <1>3. p \in Seq(Parts)
    BY <1>2
  <1>. QED
    BY <1>3 DEF Router!Routes

LEMMA RegisteredTyped ==
  ASSUME MaxParts \in Nat, handlers \in Seq(Router!Routes)
  PROVE  Registered \in SUBSET Seq(Parts) /\ RestsEnd(Registered)
  <1>1. ASSUME NEW p \in Registered PROVE p \in Router!Routes
    <2>1. PICK i \in DOMAIN handlers : p = handlers[i]
      BY DEF Registered, Router!ToSet
    <2>2. i \in 1 .. Len(handlers)
      BY <2>1, LenProperties
    <2>. QED
      BY <2>1, <2>2, ElementOfSeq
  <1>. QED
    BY <1>1, RoutesTyped DEF RestsEnd

LEMMA RouterInit == Router!Init => RouterInv
  <1>. SUFFICES ASSUME Router!Init PROVE RouterInv
    OBVIOUS
  <1>. DEFINE root == Router!Node(0, "")
              label == [n \in 1 .. 1 |-> <<>>]
  <1>1. nodes = <<root>> /\ handlers = <<>>
    BY DEF Router!Init
  <1>2. Root(root.parent, root.part) /\ root.pattern = Router!NoPattern /\ root \in TrieNodes
    <2>1. Root(root.parent, root.part) /\ root.pattern = Router!NoPattern
      BY DEF Root, Router!Node
    <2>2. 0 \in Nat /\ "" \in Texts /\ Router!NoPattern \in Seq(Texts)
      BY PartsAreTexts DEF Texts
    <2>. QED
      BY <2>1, <2>2, Zenon DEF Router!Node, TrieNodes
  <1>3. Registered = {} /\ handlers \in Seq(Router!Routes)
    <2>. HIDE DEF root
    <2>1. DOMAIN handlers = {} /\ handlers \in Seq(Router!Routes)
      BY <1>1, EmptySeq
    <2>. QED
      BY <2>1 DEF Registered, Router!ToSet
  <1>4. Stems(Registered) = {<<>>}
    BY <1>3, EmptySeq DEF Stems
  <1>. HIDE DEF root
  <1>5. nodes \in Seq(TrieNodes) /\ Len(nodes) = 1 /\ nodes[1] = root
    BY <1>1, <1>2
  <1>6. label \in [1 .. 1 -> Seq(Parts)] /\ label[1] = <<>>
    BY EmptySeq
  <1>. HIDE DEF label
  <1>7. \A n \in 1 .. 1 : n = 1
    OBVIOUS
  <1>8. \A n \in 2 .. 1 : FALSE
    OBVIOUS
  <1>9. \A n \in 1 .. 1 : label[n] = <<>> /\ nodes[n].pattern = Router!NoPattern
    BY <1>2, <1>5, <1>6, <1>7
  <1>10. 1 \in 1 .. 1 /\ 1 >= 1
    OBVIOUS
  <1>11. Trie(nodes, label, {}, {<<>>})
    BY <1>2, <1>5, <1>6, <1>7, <1>8, <1>9, <1>10 DEF Trie
  <1>. QED
    BY <1>3, <1>4, <1>11 DEF RouterInv

LEMMA RouterStep ==
  ASSUME MaxParts \in Nat, RouterInv, [Router!Next]_(Router!vars) PROVE RouterInv'
  <1>1. CASE UNCHANGED Router!vars
    BY <1>1 DEF Router!vars, RouterInv, Router!Orderly, Registered, Router!ToSet
  <1>2. CASE Router!Next
    <2>1. PICK pattern \in Router!Routes : Router!addRoute(pattern)
      BY <1>2 DEF Router!Next
    <2>2. nodes' = Router!insert(nodes, pattern) /\ handlers' = Append(handlers, pattern)
      BY <2>1 DEF Router!addRoute
    <2>3. handlers \in Seq(Router!Routes) /\ Len(handlers) \in Nat
          /\ \A i : i \in DOMAIN handlers <=> i \in 1 .. Len(handlers)
      BY LenProperties DEF RouterInv
    <2>4. /\ handlers' \in Seq(Router!Routes) /\ Len(handlers') = Len(handlers) + 1
          /\ \A i \in 1 .. Len(handlers) : handlers'[i] = handlers[i]
          /\ handlers'[Len(handlers) + 1] = pattern
      BY <2>2, <2>3, AppendProperties
    <2>5. \A i : i \in DOMAIN handlers' <=> i \in 1 .. Len(handlers) + 1
      BY <2>4, LenProperties
    <2>6. \A i : i \in DOMAIN handlers' <=> i \in DOMAIN handlers \/ i = Len(handlers) + 1
      BY <2>3, <2>5
    <2>7. \A i \in DOMAIN handlers : handlers'[i] = handlers[i]
      BY <2>3, <2>4
    <2>8. Registered' = Registered \union {pattern}
      BY <2>4, <2>6, <2>7 DEF Registered, Router!ToSet
    <2>9. ASSUME Router!Orderly'
          PROVE  Router!Orderly /\ \A p \in Registered : ~Router!Shadows(p, pattern)
      <3>1. \A i, j \in DOMAIN handlers' : i < j => ~Router!Shadows(handlers'[i], handlers'[j])
        BY <2>9 DEF Router!Orderly
      <3>2. Router!Orderly
        BY <2>6, <2>7, <3>1 DEF Router!Orderly
      <3>3. \A i \in DOMAIN handlers : i < Len(handlers) + 1
        BY <2>3
      <3>4. \A i \in DOMAIN handlers : ~Router!Shadows(handlers[i], pattern)
        BY <2>4, <2>6, <2>7, <3>1, <3>3
      <3>. QED
        BY <3>2, <3>4 DEF Registered, Router!ToSet
    <2>10. ASSUME Router!Orderly'
           PROVE  \E label : Trie(nodes', label, Registered', Stems(Registered)')
      <3>1. PICK label : Trie(nodes, label, Registered, Stems(Registered))
        BY <2>9, <2>10 DEF RouterInv
      <3>2. Registered \in SUBSET Seq(Parts) /\ pattern \in Seq(Parts)
        BY <2>3, RegisteredTyped, RoutesTyped
      <3>3. \A p \in Registered : ~Router!Shadows(p, pattern)
        BY <2>9, <2>10
      <3>4. \E longer : Trie(Router!insert(nodes, pattern), longer, Registered \union {pattern},
                             Stems(Registered \union {pattern}))
        BY <3>1, <3>2, <3>3, Inserted
      <3>. QED
        BY <2>2, <2>8, <3>4
    <2>. QED
      BY <2>4, <2>10 DEF RouterInv
  <1>. QED
    BY <1>1, <1>2

LEMMA RouterInvFinds ==
  ASSUME MaxParts \in Nat, PartsNamed, RouterInv PROVE RouteFound
  <1>. SUFFICES ASSUME Router!Orderly, NEW path \in Router!RequestPaths
                PROVE  IF \E i \in DOMAIN handlers : Router!Matches(handlers[i], path)
                       THEN /\ Router!getRoute(path) \in Registered
                            /\ Router!Matches(Router!getRoute(path), path)
                       ELSE Router!getRoute(path) = Router!NoPattern
    BY DEF RouteFound, Router!RouteFound, Registered
  <1>1. PICK label : Trie(nodes, label, Registered, Stems(Registered))
    BY DEF RouterInv
  <1>2. path \in Seq(Parts)
    <2>1. PICK k \in 0 .. MaxParts + 1 : path \in [1 .. k -> Literals]
      BY DEF Router!RequestPaths
    <2>2. k \in Nat /\ path \in [1 .. k -> Parts]
      BY <2>1 DEF Parts
    <2>. QED
      BY <2>2
  <1>3. Registered \in SUBSET Seq(Parts) /\ RestsEnd(Registered)
    BY RegisteredTyped DEF RouterInv
  <1>4. Router!NoPattern \notin Seq(Parts)
    <2>1. ASSUME NEW x, <<x>> \in Seq(Parts) PROVE x \in Parts
      BY <2>1, ElementOfSeq
    <2>. QED
      BY <2>1, Zenon DEF Router!NoPattern, PartsNamed
  <1>. DEFINE n == Router!search(nodes, path)
  <1>5. AnswersFor(nodes, label, Registered, path, 1, n)
    BY <1>1, <1>2, <1>3, <1>4, SearchAnswers
  <1>6. Router!getRoute(path) = IF n = 0 THEN Router!NoPattern ELSE nodes[n].pattern
    BY DEF Router!getRoute
  <1>7. \A r : r \in Registered <=> \E i \in DOMAIN handlers : r = handlers[i]
    BY DEF Registered, Router!ToSet
  <1>. HIDE DEF n
  <1>8. CASE n = 0
    <2>1. \A r \in Registered : Behind(r, label[1])
      <3>. SUFFICES ASSUME NEW r \in Registered PROVE Behind(r, label[1])
        OBVIOUS
      <3>1. label[1] = <<>>
        BY <1>1 DEF Trie
      <3>2. Len(r) >= 0 /\ SubSeq(r, 1, 0) = <<>>
        BY <1>3, LenProperties, SubSeqEmpty
      <3>3. Len(<<>>) = 0
        OBVIOUS
      <3>. QED
        BY <3>1, <3>2, <3>3 DEF Behind
    <2>2. \A r \in Registered : ~Router!Matches(r, path)
      BY <1>5, <1>8, <2>1 DEF AnswersFor
    <2>. QED
      BY <1>6, <1>7, <1>8, <2>2
  <1>9. CASE n # 0
    <2>1. n \in 1 .. Len(nodes) /\ label[n] \in Registered /\ Router!Matches(label[n], path)
      BY <1>5, <1>9 DEF AnswersFor
    <2>2. Router!getRoute(path) = label[n]
      BY <1>1, <1>6, <1>9, <2>1 DEF Trie
    <2>. QED
      BY <1>7, <2>1, <2>2
  <1>. QED
    BY <1>8, <1>9

\* Unless a route was registered behind a wildcard that shadows it, a path is
\* given a route that matches it, and gets one if any does (the insertion and the
\* search of http_router_trie.cpp).
THEOREM RouteTheorem ==
  ASSUME MaxParts \in Nat, PartsNamed PROVE Spec => []RouteFound
  <1>1. Router!Init => RouterInv
    BY RouterInit
  <1>2. RouterInv /\ [Router!Next]_(Router!vars) => RouterInv'
    BY RouterStep
  <1>3. RouterInv => RouteFound
    BY RouterInvFinds
  <1>. QED
    BY <1>1, <1>2, <1>3, SideBySide, PTL DEF Spec

-----------------------------------------------------------------------------
(***************************************************************************)
(* The INI configuration.                                                  *)
(***************************************************************************)
SortNames == {Order[k] : k \in DOMAIN Order}
Filled(S) == S \ {""}
IniTexts  == Seq(STRING \ {"="})
Valuable  == IniTexts \ {<<>>}
RawLines  == [form : {"blank", "header", "entry"}, name : SortNames, value : Seq(STRING)]
FileLines == [form : {"blank", "header", "entry"}, name : SortNames, value : IniTexts]

\* Maps from some of D to R; entries have a key and a value.
Maps(D, R) == UNION {[X -> R] : X \in SUBSET D}
EntryMaps == Maps(Filled(SortNames), Valuable)
Configs   == Maps(SortNames, EntryMaps)
Loading   == [cfg : Configs, section : SortNames]

\* What is assumed of the files: SortMap's order lists each name in them once.
IniFilesTyped ==
  /\ Order \in Seq(STRING) /\ "" \in SortNames
  /\ \A j, k \in DOMAIN Order : Order[j] = Order[k] => j = k
  /\ Contents \subseteq Seq(RawLines)

\* What a put into a map makes of it.
IsPut(g, f, x, y) ==
  /\ DOMAIN g = DOMAIN f \union {x} /\ g[x] = y
  /\ \A z \in DOMAIN f \ {x} : g[z] = f[z]

LEMMA MapPut ==
  ASSUME NEW D, NEW R, NEW f \in Maps(D, R), NEW x \in D, NEW y \in R
  PROVE  Ini!Put(f, x, y) \in Maps(D, R) /\ IsPut(Ini!Put(f, x, y), f, x, y)
  <1>1. PICK X \in SUBSET D : f \in [X -> R]
    BY DEF Maps
  <1>2. Ini!Put(f, x, y) \in [X \union {x} -> R]
    BY <1>1 DEF Ini!Put
  <1>3. IsPut(Ini!Put(f, x, y), f, x, y)
    BY <1>1 DEF Ini!Put, IsPut
  <1>. QED
    BY <1>1, <1>2, <1>3 DEF Maps

LEMMA MapTyped ==
  ASSUME NEW D, NEW R
  PROVE  /\ Ini!Empty \in Maps(D, R) /\ DOMAIN Ini!Empty = {}
         /\ \A f \in Maps(D, R) :
              /\ DOMAIN f \subseteq D /\ \A z \in DOMAIN f : f[z] \in R
              /\ f = [z \in DOMAIN f |-> f[z]]
  <1>1. Ini!Empty \in [{} -> R]
    BY DEF Ini!Empty
  <1>2. [{} -> R] \in {[X -> R] : X \in SUBSET D}
    OBVIOUS
  <1>. QED
    BY <1>1, <1>2 DEF Maps, Ini!Empty

LEMMA MapsEqual ==
  ASSUME NEW D, NEW R, NEW f \in Maps(D, R), NEW g \in Maps(D, R),
         DOMAIN f = DOMAIN g, \A z \in DOMAIN f : f[z] = g[z]
  PROVE  f = g
  BY MapTyped

LEMMA LineFilled ==
  ASSUME NEW line \in FileLines
  PROVE  /\ line.name \in SortNames /\ line.value \in IniTexts
         /\ line.form \in {"blank", "header", "entry"}
         /\ Ini!HasValue(line)
              <=> line.name \in Filled(SortNames) /\ line.value \in Valuable
  <1>1. /\ line.name \in SortNames /\ line.value \in IniTexts
        /\ line.form \in {"blank", "header", "entry"}
    BY DEF FileLines
  <1>. QED
    BY <1>1, Zenon DEF Ini!HasValue, Filled, Valuable

LEMMA EntryPut ==
  ASSUME NEW c \in Configs, NEW section \in SortNames, NEW line \in FileLines
  PROVE  Ini!setSectionKeyValue(c, section, line) \in Configs
  <1>. DEFINE old == IF section \in DOMAIN c THEN c[section] ELSE Ini!Empty
              new == IF Ini!HasValue(line) THEN Ini!Put(old, line.name, line.value) ELSE old
  <1>1. old \in EntryMaps
    BY MapTyped DEF Configs, EntryMaps
  <1>. HIDE DEF old
  <1>2. Ini!HasValue(line) => Ini!Put(old, line.name, line.value) \in EntryMaps
    BY <1>1, LineFilled, MapPut DEF EntryMaps
  <1>3. new \in EntryMaps
    BY <1>1, <1>2
  <1>. HIDE DEF new
  <1>4. Ini!Put(c, section, new) \in Configs
    BY <1>3, MapPut DEF Configs
  <1>. QED
    BY <1>4 DEF old, new, Ini!setSectionKeyValue

\* What is left of a line, and that nothing is dropped where there is no "=".
NoSign(text) == \A k \in 1 .. Len(text) : text[k] # "="

LEMMA LineKept ==
  ASSUME NEW line \in RawLines
  PROVE  /\ Ini!Kept(line) \in FileLines
         /\ Ini!Kept(line).form = line.form /\ Ini!Kept(line).name = line.name
         /\ NoSign(line.value) => Ini!Kept(line) = line
  <1>. DEFINE text == line.value
              n == Len(text)
              none == <<>>
              more(i, sofar) == IF text[i] = "=" THEN sofar ELSE Append(sofar, text[i])
              Step(f) == [i \in 0 .. n |-> IF i = 0 THEN none ELSE more(i, f[i - 1])]
              kept == CHOOSE f : f = Step(f)
              step == [x \in (1 .. n) \X IniTexts |-> more(x[1], x[2])]
  <1>1. /\ line.form \in {"blank", "header", "entry"} /\ line.name \in SortNames
        /\ text \in Seq(STRING)
        /\ line = [form |-> line.form, name |-> line.name, value |-> text]
    BY DEF RawLines
  <1>2. Ini!Kept(line) = [form |-> line.form, name |-> line.name, value |-> kept[n]]
    BY DEF Ini!Kept
  <1>3. n \in Nat /\ (\A i \in 1 .. n : text[i] \in STRING) /\ none \in IniTexts
    <2>. HIDE DEF text
    <2>. QED
      BY <1>1, LenProperties, ElementOfSeq DEF IniTexts
  <1>4. \A i \in 1 .. n : \A sofar \in IniTexts : more(i, sofar) \in IniTexts
    <2>. TAKE i \in 1 .. n
    <2>. TAKE sofar \in IniTexts
    <2>1. text[i] # "=" => text[i] \in STRING \ {"="}
      BY <1>3, Zenon
    <2>. HIDE DEF text, n
    <2>2. text[i] # "=" => Append(sofar, text[i]) \in IniTexts
      BY <2>1, AppendProperties DEF IniTexts
    <2>. QED
      BY <2>2, Zenon
  <1>. HIDE DEF text, n, none, more
  <1>5. step \in [(1 .. n) \X IniTexts -> IniTexts]
    BY <1>4
  <1>6. PICK f \in [0 .. n -> IniTexts] :
          f[0] = none /\ \A i \in 1 .. n : f[i] = step[<<i, f[i - 1]>>]
    <2>1. LoopsRun(IniTexts, none)
      BY <1>3, LoopRuns
    <2>. HIDE DEF step
    <2>. QED
      BY <1>3, <1>5, <2>1 DEF LoopsRun
  <1>7. f = Step(f)
    <2>1. \A i \in 1 .. n : f[i - 1] \in IniTexts
      BY <1>3
    <2>2. \A i \in 1 .. n : f[i] = more(i, f[i - 1])
      BY <1>6, <2>1
    <2>. QED
      BY <1>3, <1>6, <2>2
  <1>8. kept = Step(kept)
    <2>1. \E g : g = Step(g)
      BY <1>7
    <2>. HIDE DEF Step
    <2>. QED
      BY <2>1
  <1>. HIDE DEF kept
  <1>9. kept[0] = none /\ \A i \in 1 .. n : kept[i] = more(i, kept[i - 1])
    BY <1>3, <1>8
  <1>. HIDE DEF Step
  <1>10. \A i \in 0 .. n : kept[i] \in IniTexts
    <2>. DEFINE Good == {i \in 0 .. n : kept[i] \in IniTexts}
    <2>1. 0 \in Good /\ Good \in SUBSET (0 .. n)
      BY <1>3, <1>9
    <2>2. ASSUME NEW i \in 1 .. n, i - 1 \in Good PROVE i \in Good
      BY <1>3, <1>4, <1>9, <2>2
    <2>. HIDE DEF Good
    <2>3. \A i \in 0 .. n : i \in Good
      BY <1>3, <2>1, <2>2, LoopKeeps
    <2>. QED
      BY <2>3 DEF Good
  <1>11. kept[n] \in IniTexts
    BY <1>3, <1>10
  <1>12. ASSUME NoSign(text) PROVE kept[n] = text
    <2>. DEFINE Good == {i \in 0 .. n : /\ Len(kept[i]) = i
                                        /\ \A k \in 1 .. i : kept[i][k] = text[k]}
    <2>1. 0 \in Good /\ Good \in SUBSET (0 .. n)
      <3>1. Len(none) = 0
        BY DEF none
      <3>. QED
        BY <1>3, <1>9, <3>1
    <2>2. ASSUME NEW i \in 1 .. n, i - 1 \in Good PROVE i \in Good
      <3>. DEFINE was == kept[i - 1]
                  is  == kept[i]
      <3>1. /\ i \in 0 .. n /\ i - 1 \in 0 .. n /\ was \in IniTexts
            /\ Len(was) = i - 1 /\ \A k \in 1 .. i - 1 : was[k] = text[k]
        BY <1>3, <1>10, <2>2
      <3>2. is = Append(was, text[i])
        <4>1. text[i] # "="
          BY <1>12 DEF NoSign, n
        <4>. QED
          BY <1>9, <4>1, Zenon DEF more
      <3>. HIDE DEF was, is
      <3>3. /\ Len(is) = Len(was) + 1 /\ is[Len(was) + 1] = text[i]
            /\ \A k \in 1 .. Len(was) : is[k] = was[k]
        BY <3>1, <3>2, AppendProperties DEF IniTexts
      <3>4. Len(is) = i /\ \A k \in 1 .. i : is[k] = text[k]
        BY <1>3, <3>1, <3>3
      <3>. QED
        BY <3>1, <3>4 DEF is
    <2>. HIDE DEF Good
    <2>3. \A i \in 0 .. n : i \in Good
      BY <1>3, <2>1, <2>2, LoopKeeps
    <2>4. n \in Good
      BY <1>3, <2>3
    <2>5. Len(kept[n]) = Len(text) /\ \A k \in 1 .. Len(text) : kept[n][k] = text[k]
      BY <2>4 DEF Good, n
    <2>6. kept[n] \in Seq(STRING)
      BY <1>11, SeqMonotonic DEF IniTexts
    <2>. QED
      BY <1>1, <2>5, <2>6, SeqEqual
  <1>13. Ini!Kept(line) \in FileLines
    BY <1>1, <1>2, <1>11 DEF FileLines
  <1>. QED
    BY <1>1, <1>2, <1>12, <1>13 DEF text

LEMMA PlainLines ==
  /\ FileLines \subseteq RawLines /\ Seq(FileLines) \subseteq Seq(RawLines)
  /\ \A line \in FileLines : Ini!Kept(line) = line
  <1>1. IniTexts \subseteq Seq(STRING)
    BY SeqMonotonic DEF IniTexts
  <1>2. FileLines \subseteq RawLines
    BY <1>1 DEF FileLines, RawLines
  <1>3. Seq(FileLines) \subseteq Seq(RawLines)
    BY <1>2, SeqMonotonic
  <1>4. ASSUME NEW line \in FileLines PROVE Ini!Kept(line) = line
    <2>1. line \in RawLines /\ line.value \in IniTexts
      BY <1>2, Zenon DEF FileLines
    <2>2. NoSign(line.value)
      <3>1. \A k \in 1 .. Len(line.value) : line.value[k] \in STRING \ {"="}
        BY <1>4, ElementOfSeq DEF FileLines, IniTexts
      <3>. QED
        BY <3>1, Zenon DEF NoSign
    <2>. QED
      BY <2>1, <2>2, LineKept
  <1>. QED
    BY <1>2, <1>3, <1>4

LEMMA RawRead ==
  ASSUME NEW st \in Loading, NEW line \in RawLines
  PROVE  /\ st.cfg \in Configs /\ st.section \in SortNames
         /\ Ini!parseLine(st, line) \in Loading
         /\ line.form = "blank" => Ini!parseLine(st, line) = st
         /\ line.form = "header" =>
              Ini!parseLine(st, line) = [cfg |-> st.cfg, section |-> line.name]
         /\ line.form = "entry" =>
              Ini!parseLine(st, line)
                = [cfg |-> Ini!setSectionKeyValue(st.cfg, st.section, Ini!Kept(line)),
                   section |-> st.section]
  <1>1. st.cfg \in Configs /\ st.section \in SortNames
    BY DEF Loading
  <1>2. line.form \in {"blank", "header", "entry"} /\ line.name \in SortNames
    BY DEF RawLines
  <1>3. /\ line.form = "blank" => Ini!parseLine(st, line) = st
        /\ line.form = "header" =>
             Ini!parseLine(st, line) = [cfg |-> st.cfg, section |-> line.name]
        /\ line.form = "entry" =>
             Ini!parseLine(st, line)
               = [cfg |-> Ini!setSectionKeyValue(st.cfg, st.section, Ini!Kept(line)),
                  section |-> st.section]
    BY DEF Ini!parseLine
  <1>4. Ini!setSectionKeyValue(st.cfg, st.section, Ini!Kept(line)) \in Configs
    BY <1>1, EntryPut, LineKept
  <1>5. Ini!parseLine(st, line) \in Loading
    BY <1>1, <1>2, <1>3, <1>4 DEF Loading
  <1>. QED
    BY <1>1, <1>3, <1>5

LEMMA LineRead ==
  ASSUME NEW st \in Loading, NEW line \in FileLines
  PROVE  /\ st.cfg \in Configs /\ st.section \in SortNames
         /\ Ini!parseLine(st, line) \in Loading
         /\ line.form = "blank" => Ini!parseLine(st, line) = st
         /\ line.form = "header" =>
              Ini!parseLine(st, line) = [cfg |-> st.cfg, section |-> line.name]
         /\ line.form = "entry" =>
              Ini!parseLine(st, line)
                = [cfg |-> Ini!setSectionKeyValue(st.cfg, st.section, line),
                   section |-> st.section]
  <1>1. line \in RawLines /\ Ini!Kept(line) = line
    BY PlainLines
  <1>. QED
    BY <1>1, RawRead

\* The lines of a file are read one after the other.
ReadRun(lines, before, after) ==
  /\ after \in [0 .. Len(lines) -> Loading] /\ after[0] = before
  /\ \A i \in 1 .. Len(lines) : after[i] = Ini!parseLine(after[i - 1], lines[i])

LEMMA RawRuns ==
  ASSUME NEW lines \in Seq(RawLines), NEW before \in Loading
  PROVE  \E after : ReadRun(lines, before, after)
                    /\ Ini!Read(lines, before) = after[Len(lines)]
  <1>. DEFINE n == Len(lines)
              Step(f) == [i \in 0 .. n |-> IF i = 0 THEN before
                                           ELSE Ini!parseLine(f[i - 1], lines[i])]
              after == CHOOSE f : f = Step(f)
              step == [x \in (1 .. n) \X Loading |-> Ini!parseLine(x[2], lines[x[1]])]
  <1>1. n \in Nat /\ \A i \in 1 .. n : lines[i] \in RawLines
    BY LenProperties, ElementOfSeq
  <1>2. step \in [(1 .. n) \X Loading -> Loading]
    <2>. HIDE DEF n
    <2>. QED
      BY <1>1, RawRead
  <1>3. PICK f \in [0 .. n -> Loading] :
          f[0] = before /\ \A i \in 1 .. n : f[i] = step[<<i, f[i - 1]>>]
    <2>1. LoopsRun(Loading, before)
      BY LoopRuns
    <2>. HIDE DEF n, step
    <2>. QED
      BY <1>1, <1>2, <2>1 DEF LoopsRun
  <1>4. \A i \in 1 .. n : f[i] = Ini!parseLine(f[i - 1], lines[i])
    <2>1. \A i \in 1 .. n : f[i - 1] \in Loading
      BY <1>1
    <2>. HIDE DEF n
    <2>. QED
      BY <1>3, <2>1
  <1>5. f = Step(f)
    <2>. HIDE DEF n
    <2>. QED
      BY <1>1, <1>3, <1>4
  <1>6. after = Step(after)
    <2>1. \E g : g = Step(g)
      BY <1>5
    <2>. HIDE DEF Step
    <2>. QED
      BY <2>1
  <1>7. Ini!Read(lines, before) = after[n]
    BY DEF Ini!Read
  <1>. HIDE DEF after
  <1>8. /\ after[0] = before
        /\ \A i \in 1 .. n : after[i] = Ini!parseLine(after[i - 1], lines[i])
    <2>. HIDE DEF n
    <2>. QED
      BY <1>1, <1>6
  <1>9. \A i \in 0 .. n : after[i] \in Loading
    <2>. DEFINE Good == {i \in 0 .. n : after[i] \in Loading}
    <2>1. 0 \in Good /\ Good \in SUBSET (0 .. n)
      BY <1>1, <1>8
    <2>2. ASSUME NEW i \in 1 .. n, i - 1 \in Good PROVE i \in Good
      <3>. HIDE DEF n
      <3>1. after[i - 1] \in Loading /\ lines[i] \in RawLines
        BY <1>1, <2>2
      <3>2. after[i] \in Loading
        BY <1>8, <3>1, RawRead
      <3>. QED
        BY <1>1, <3>2
    <2>. HIDE DEF Good, n
    <2>3. \A i \in 0 .. n : i \in Good
      BY <1>1, <2>1, <2>2, LoopKeeps
    <2>. QED
      BY <2>3 DEF Good
  <1>10. after \in [0 .. n -> Loading]
    <2>1. after = [i \in 0 .. n |-> after[i]]
      <3>1. \E g : after = [i \in 0 .. n |-> g[i]]
        BY <1>6
      <3>. HIDE DEF n
      <3>. QED
        BY <3>1
    <2>. HIDE DEF n
    <2>. QED
      BY <1>9, <2>1
  <1>. HIDE DEF Step
  <1>. QED
    BY <1>7, <1>8, <1>10 DEF ReadRun

LEMMA ReadRuns ==
  ASSUME NEW lines \in Seq(FileLines), NEW before \in Loading
  PROVE  \E after : ReadRun(lines, before, after)
                    /\ Ini!Read(lines, before) = after[Len(lines)]
  <1>1. lines \in Seq(RawLines)
    BY PlainLines
  <1>. QED
    BY <1>1, RawRuns

\* Two runs that begin alike agree as long as their lines do.
LEMMA RunsAgree ==
  ASSUME NEW s \in Seq(FileLines), NEW t \in Seq(FileLines), NEW before, NEW f, NEW g,
         ReadRun(s, before, f), ReadRun(t, before, g),
         Len(s) <= Len(t), \A i \in 1 .. Len(s) : s[i] = t[i]
  PROVE  f[Len(s)] = g[Len(s)]
  <1>. DEFINE Good == {i \in 0 .. Len(s) : f[i] = g[i]}
  <1>1. Len(s) \in Nat /\ Len(t) \in Nat
    BY LenProperties
  <1>2. 0 \in Good /\ Good \in SUBSET (0 .. Len(s))
    BY <1>1 DEF ReadRun
  <1>3. ASSUME NEW i \in 1 .. Len(s), i - 1 \in Good PROVE i \in Good
    <2>1. f[i] = Ini!parseLine(f[i - 1], s[i]) /\ g[i] = Ini!parseLine(g[i - 1], t[i])
      BY <1>1 DEF ReadRun
    <2>. QED
      BY <1>1, <1>3, <2>1
  <1>. HIDE DEF Good
  <1>4. \A i \in 0 .. Len(s) : i \in Good
    BY <1>1, <1>2, <1>3, LoopKeeps
  <1>. QED
    BY <1>1, <1>4 DEF Good

\* A line more is read behind the others.
LEMMA ReadAppend ==
  ASSUME NEW lines \in Seq(FileLines), NEW line \in FileLines, NEW before \in Loading
  PROVE  /\ Ini!Read(lines, before) \in Loading
         /\ Append(lines, line) \in Seq(FileLines)
         /\ Ini!Read(Append(lines, line), before) = Ini!parseLine(Ini!Read(lines, before), line)
  <1>. DEFINE more == Append(lines, line)
              n == Len(lines)
  <1>1. /\ more \in Seq(FileLines) /\ Len(more) = n + 1 /\ more[n + 1] = line
        /\ \A i \in 1 .. n : more[i] = lines[i]
        /\ n \in Nat
    BY AppendProperties, LenProperties
  <1>. HIDE DEF more
  <1>2. PICK f : ReadRun(lines, before, f) /\ Ini!Read(lines, before) = f[n]
    BY ReadRuns
  <1>3. PICK g : ReadRun(more, before, g) /\ Ini!Read(more, before) = g[Len(more)]
    BY <1>1, ReadRuns
  <1>4. f[n] = g[n]
    <2>. HIDE DEF n
    <2>1. n <= Len(more)
      BY <1>1
    <2>. QED
      BY <1>1, <1>2, <1>3, <2>1, RunsAgree DEF n
  <1>5. g[n + 1] = Ini!parseLine(g[n], line)
    <2>. HIDE DEF n
    <2>1. n + 1 \in 1 .. Len(more) /\ (n + 1) - 1 = n
      BY <1>1
    <2>2. g[n + 1] = Ini!parseLine(g[(n + 1) - 1], more[n + 1])
      BY <1>3, <2>1 DEF ReadRun
    <2>. QED
      BY <1>1, <2>1, <2>2
  <1>6. f[n] \in Loading
    BY <1>1, <1>2 DEF ReadRun
  <1>. QED
    BY <1>1, <1>2, <1>3, <1>4, <1>5, <1>6 DEF more

\* A file reads as what is kept of its lines.
KeptLines(lines) == [i \in 1 .. Len(lines) |-> Ini!Kept(lines[i])]

LEMMA KeptRead ==
  ASSUME NEW lines \in Seq(RawLines), NEW before \in Loading
  PROVE  /\ KeptLines(lines) \in Seq(FileLines) /\ Len(KeptLines(lines)) = Len(lines)
         /\ Ini!Read(lines, before) = Ini!Read(KeptLines(lines), before)
  <1>. DEFINE n == Len(lines)
              plain == KeptLines(lines)
  <1>1. n \in Nat /\ \A i \in 1 .. n : lines[i] \in RawLines
    BY LenProperties, ElementOfSeq
  <1>2. \A i \in 1 .. n : Ini!Kept(lines[i]) \in FileLines
    BY <1>1, LineKept
  <1>3. plain \in Seq(FileLines) /\ Len(plain) = n
        /\ \A i \in 1 .. n : plain[i] = Ini!Kept(lines[i])
    <2>. HIDE DEF n
    <2>1. plain = [i \in 1 .. n |-> Ini!Kept(lines[i])]
      BY DEF KeptLines, n
    <2>. QED
      BY <1>1, <1>2, <2>1
  <1>4. PICK f : ReadRun(lines, before, f) /\ Ini!Read(lines, before) = f[n]
    BY RawRuns
  <1>5. PICK g : ReadRun(plain, before, g) /\ Ini!Read(plain, before) = g[Len(plain)]
    <2>. HIDE DEF plain
    <2>. QED
      BY <1>3, ReadRuns
  <1>. HIDE DEF plain
  <1>6. /\ f[0] = before /\ g[0] = before /\ \A i \in 0 .. n : g[i] \in Loading
        /\ \A i \in 1 .. n : f[i] = Ini!parseLine(f[i - 1], lines[i])
        /\ \A i \in 1 .. n : g[i] = Ini!parseLine(g[i - 1], plain[i])
    BY <1>3, <1>4, <1>5 DEF ReadRun
  <1>7. \A st \in Loading : \A i \in 1 .. n :
          Ini!parseLine(st, lines[i]) = Ini!parseLine(st, plain[i])
    <2>. TAKE st \in Loading
    <2>. TAKE i \in 1 .. n
    <2>1. /\ lines[i] \in RawLines /\ plain[i] \in FileLines
          /\ plain[i] = Ini!Kept(lines[i])
          /\ plain[i].form = lines[i].form /\ plain[i].name = lines[i].name
      BY <1>1, <1>2, <1>3, LineKept
    <2>2. lines[i].form \in {"blank", "header", "entry"}
      BY <2>1, Zenon DEF RawLines
    <2>. DEFINE line == lines[i]
                rest == plain[i]
    <2>3. /\ line.form = "blank" => Ini!parseLine(st, line) = st
          /\ line.form = "header" =>
               Ini!parseLine(st, line) = [cfg |-> st.cfg, section |-> line.name]
          /\ line.form = "entry" =>
               Ini!parseLine(st, line)
                 = [cfg |-> Ini!setSectionKeyValue(st.cfg, st.section, rest),
                    section |-> st.section]
      BY <2>1, RawRead
    <2>4. /\ rest.form = "blank" => Ini!parseLine(st, rest) = st
          /\ rest.form = "header" =>
               Ini!parseLine(st, rest) = [cfg |-> st.cfg, section |-> rest.name]
          /\ rest.form = "entry" =>
               Ini!parseLine(st, rest)
                 = [cfg |-> Ini!setSectionKeyValue(st.cfg, st.section, rest),
                    section |-> st.section]
      BY <2>1, LineRead
    <2>. HIDE DEF line, rest
    <2>5. Ini!parseLine(st, line) = Ini!parseLine(st, rest)
      <3>1. rest.form = line.form /\ rest.name = line.name
            /\ line.form \in {"blank", "header", "entry"}
        BY <2>1, <2>2 DEF line, rest
      <3>. QED
        BY <2>3, <2>4, <3>1
    <2>. QED
      BY <2>5 DEF line, rest
  <1>. DEFINE Good == {i \in 0 .. n : f[i] = g[i]}
  <1>. HIDE DEF n
  <1>8. 0 \in Good /\ Good \in SUBSET (0 .. n)
    BY <1>1, <1>6
  <1>9. ASSUME NEW i \in 1 .. n, i - 1 \in Good PROVE i \in Good
    <2>1. /\ f[i - 1] = g[i - 1] /\ g[i - 1] \in Loading /\ i \in 0 .. n
      BY <1>1, <1>6, <1>9
    <2>2. f[i] = g[i]
      BY <1>6, <1>7, <2>1
    <2>. QED
      BY <2>1, <2>2
  <1>. HIDE DEF Good
  <1>10. \A i \in 0 .. n : i \in Good
    BY <1>1, <1>8, <1>9, LoopKeeps
  <1>11. f[n] = g[n]
    BY <1>1, <1>10 DEF Good
  <1>. QED
    BY <1>3, <1>4, <1>5, <1>11 DEF plain, n

\* SortMap's order, name by name.
LEMMA OrderNames ==
  ASSUME IniFilesTyped
  PROVE  /\ Len(Order) \in Nat /\ \A k \in 1 .. Len(Order) : Order[k] \in SortNames
         /\ SortNames \subseteq STRING
         /\ \A name \in SortNames : \E k \in 1 .. Len(Order) : Order[k] = name
         /\ \A j, k \in 1 .. Len(Order) : Order[j] = Order[k] => j = k
  <1>1. Order \in Seq(STRING) /\ \A j, k \in DOMAIN Order : Order[j] = Order[k] => j = k
    BY Zenon DEF IniFilesTyped
  <1>. QED
    BY <1>1, LenProperties DEF SortNames

\* The lines that save writes are lines a file can have.
LEMMA LineTypes ==
  ASSUME IniFilesTyped, NEW name \in SortNames
  PROVE  /\ Ini!HeaderLine(name) \in FileLines /\ Ini!HeaderLine(name).form = "header"
         /\ Ini!HeaderLine(name).name = name
         /\ Ini!BlankLine \in FileLines /\ Ini!BlankLine.form = "blank"
         /\ \A value \in IniTexts :
              /\ Ini!EntryLine(name, value) \in FileLines
              /\ Ini!EntryLine(name, value).form = "entry"
              /\ Ini!EntryLine(name, value).name = name
              /\ Ini!EntryLine(name, value).value = value
  <1>. DEFINE none == ""
  <1>1. none \in SortNames /\ SortNames \subseteq STRING
    BY OrderNames, Zenon DEF IniFilesTyped
  <1>2. /\ Ini!HeaderLine(name) = [form |-> "header", name |-> name, value |-> <<>>]
        /\ Ini!BlankLine = [form |-> "blank", name |-> none, value |-> <<>>]
        /\ \A value \in IniTexts :
             Ini!EntryLine(name, value) = [form |-> "entry", name |-> name, value |-> value]
    BY DEF Ini!HeaderLine, Ini!BlankLine, Ini!EntryLine
  <1>3. <<>> \in IniTexts
    BY DEF IniTexts
  <1>. HIDE DEF none
  <1>. QED
    BY <1>1, <1>2, <1>3 DEF FileLines

\* A loop over the names in SortMap's order.
OrderRun(S, first, step, written) ==
  /\ written \in [0 .. Len(Order) -> S] /\ written[0] = first
  /\ \A k \in 1 .. Len(Order) : written[k] = step[<<k, written[k - 1]>>]

LEMMA OrderRuns ==
  ASSUME IniFilesTyped, NEW S, NEW first \in S,
         NEW step \in [(1 .. Len(Order)) \X S -> S]
  PROVE  \E written : OrderRun(S, first, step, written)
  <1>1. Len(Order) \in Nat
    BY OrderNames
  <1>2. LoopsRun(S, first)
    BY LoopRuns
  <1>3. \E f \in [0 .. Len(Order) -> S] :
          f[0] = first /\ \A k \in 1 .. Len(Order) : f[k] = step[<<k, f[k - 1]>>]
    BY <1>1, <1>2, Zenon DEF LoopsRun
  <1>. QED
    BY <1>3, Zenon DEF OrderRun

\* The steps of the two loops of save.
SectionStep(section, entries) ==
  [x \in (1 .. Len(Order)) \X Seq(FileLines) |->
     IF Order[x[1]] \in DOMAIN entries
     THEN Append(x[2], Ini!EntryLine(Order[x[1]], entries[Order[x[1]]]))
     ELSE x[2]]

SaveStep(c) ==
  [x \in (1 .. Len(Order)) \X Seq(FileLines) |->
     IF Order[x[1]] \in DOMAIN c
     THEN Ini!SectionSaved(x[2], Order[x[1]], c[Order[x[1]]])
     ELSE x[2]]

LEMMA SectionRuns ==
  ASSUME IniFilesTyped, NEW out \in Seq(FileLines), NEW section \in SortNames,
         NEW entries \in EntryMaps
  PROVE  \E written :
           /\ OrderRun(Seq(FileLines), Append(out, Ini!HeaderLine(section)),
                       SectionStep(section, entries), written)
           /\ Ini!SectionSaved(out, section, entries)
                = Append(written[Len(Order)], Ini!BlankLine)
  <1>. DEFINE n == Len(Order)
              first == Append(out, Ini!HeaderLine(section))
              more(k, sofar) == IF Order[k] \in DOMAIN entries
                                THEN Append(sofar, Ini!EntryLine(Order[k], entries[Order[k]]))
                                ELSE sofar
              Step(f) == [k \in 0 .. n |-> IF k = 0 THEN first ELSE more(k, f[k - 1])]
              written == CHOOSE f : f = Step(f)
              step == SectionStep(section, entries)
  <1>1. n \in Nat /\ first \in Seq(FileLines)
    BY OrderNames, LineTypes, AppendProperties
  <1>2. \A k \in 1 .. n : \A sofar \in Seq(FileLines) :
          more(k, sofar) \in Seq(FileLines) /\ step[<<k, sofar>>] = more(k, sofar)
    <2>. TAKE k \in 1 .. n
    <2>. TAKE sofar \in Seq(FileLines)
    <2>1. Order[k] \in DOMAIN entries =>
            Ini!EntryLine(Order[k], entries[Order[k]]) \in FileLines
      <3>. SUFFICES ASSUME Order[k] \in DOMAIN entries
                    PROVE  Ini!EntryLine(Order[k], entries[Order[k]]) \in FileLines
        OBVIOUS
      <3>1. entries[Order[k]] \in Valuable /\ Order[k] \in SortNames
        BY MapTyped, OrderNames DEF EntryMaps
      <3>2. Valuable \subseteq IniTexts
        BY DEF Valuable
      <3>. QED
        BY <3>1, <3>2, LineTypes
    <2>2. more(k, sofar) \in Seq(FileLines)
      BY <2>1, AppendProperties
    <2>. QED
      BY <2>2 DEF SectionStep
  <1>3. step \in [(1 .. n) \X Seq(FileLines) -> Seq(FileLines)]
    <2>1. step = [x \in (1 .. n) \X Seq(FileLines) |-> more(x[1], x[2])]
      BY DEF SectionStep
    <2>. HIDE DEF step, n, more
    <2>. QED
      BY <1>2, <2>1
  <1>. HIDE DEF n, first, step, more
  <1>4. PICK f : OrderRun(Seq(FileLines), first, step, f)
    BY <1>1, <1>3, OrderRuns DEF n
  <1>5. \A g : g \in [0 .. n -> Seq(FileLines)] /\ g[0] = first =>
          ((\A k \in 1 .. n : g[k] = step[<<k, g[k - 1]>>])
             <=> \A k \in 1 .. n : g[k] = more(k, g[k - 1]))
    <2>. TAKE g
    <2>. HAVE g \in [0 .. n -> Seq(FileLines)] /\ g[0] = first
    <2>1. \A k \in 1 .. n : g[k - 1] \in Seq(FileLines)
      BY <1>1
    <2>. QED
      BY <1>2, <2>1
  <1>6. f = Step(f)
    <2>1. f \in [0 .. n -> Seq(FileLines)] /\ f[0] = first
          /\ \A k \in 1 .. n : f[k] = more(k, f[k - 1])
      BY <1>4, <1>5 DEF OrderRun, n
    <2>. QED
      BY <1>1, <2>1
  <1>7. written = Step(written)
    <2>1. \E g : g = Step(g)
      BY <1>6
    <2>. HIDE DEF Step
    <2>. QED
      BY <2>1
  <1>8. Ini!SectionSaved(out, section, entries) = Append(written[n], Ini!BlankLine)
    BY DEF Ini!SectionSaved, n, first, more
  <1>. HIDE DEF written
  <1>9. /\ written[0] = first
        /\ \A k \in 1 .. n : written[k] = more(k, written[k - 1])
    BY <1>1, <1>7
  <1>10. \A k \in 0 .. n : written[k] \in Seq(FileLines)
    <2>. DEFINE Good == {k \in 0 .. n : written[k] \in Seq(FileLines)}
    <2>1. 0 \in Good /\ Good \in SUBSET (0 .. n)
      BY <1>1, <1>9
    <2>2. ASSUME NEW k \in 1 .. n, k - 1 \in Good PROVE k \in Good
      <3>1. written[k - 1] \in Seq(FileLines)
        BY <2>2
      <3>2. more(k, written[k - 1]) \in Seq(FileLines)
        BY <1>2, <3>1
      <3>. QED
        BY <1>1, <1>9, <3>2
    <2>. HIDE DEF Good
    <2>3. \A k \in 0 .. n : k \in Good
      BY <1>1, <2>1, <2>2, LoopKeeps
    <2>. QED
      BY <2>3 DEF Good
  <1>11. written \in [0 .. n -> Seq(FileLines)]
    <2>1. \E g : written = [k \in 0 .. n |-> g[k]]
      BY <1>7
    <2>2. written = [k \in 0 .. n |-> written[k]]
      BY <2>1
    <2>. QED
      BY <1>10, <2>2
  <1>12. OrderRun(Seq(FileLines), first, step, written)
    BY <1>5, <1>9, <1>11 DEF OrderRun, n
  <1>. QED
    BY <1>8, <1>12 DEF n, first, step
\* What is written of a section are lines a file can have.
LEMMA SectionTyped ==
  ASSUME IniFilesTyped, NEW out \in Seq(FileLines), NEW section \in SortNames,
         NEW entries \in EntryMaps
  PROVE  Ini!SectionSaved(out, section, entries) \in Seq(FileLines)
  <1>1. PICK written :
          /\ OrderRun(Seq(FileLines), Append(out, Ini!HeaderLine(section)),
                      SectionStep(section, entries), written)
          /\ Ini!SectionSaved(out, section, entries)
               = Append(written[Len(Order)], Ini!BlankLine)
    BY SectionRuns
  <1>2. written[Len(Order)] \in Seq(FileLines)
    <2>1. Len(Order) \in 0 .. Len(Order)
      BY OrderNames
    <2>. QED
      BY <1>1, <2>1 DEF OrderRun
  <1>. QED
    BY <1>1, <1>2, LineTypes, AppendProperties

LEMMA SavedRuns ==
  ASSUME IniFilesTyped, NEW c \in Configs
  PROVE  \E written : /\ OrderRun(Seq(FileLines), <<>>, SaveStep(c), written)
                      /\ Ini!Saved(c) = written[Len(Order)]
  <1>. DEFINE n == Len(Order)
              first == <<>>
              more(k, sofar) == IF Order[k] \in DOMAIN c
                                THEN Ini!SectionSaved(sofar, Order[k], c[Order[k]])
                                ELSE sofar
              Step(f) == [k \in 0 .. n |-> IF k = 0 THEN first ELSE more(k, f[k - 1])]
              written == CHOOSE f : f = Step(f)
              step == SaveStep(c)
  <1>1. n \in Nat /\ first \in Seq(FileLines)
    BY OrderNames, EmptySeq
  <1>2. \A k \in 1 .. n : \A sofar \in Seq(FileLines) :
          more(k, sofar) \in Seq(FileLines) /\ step[<<k, sofar>>] = more(k, sofar)
    <2>. TAKE k \in 1 .. n
    <2>. TAKE sofar \in Seq(FileLines)
    <2>1. Order[k] \in DOMAIN c =>
            Ini!SectionSaved(sofar, Order[k], c[Order[k]]) \in Seq(FileLines)
      <3>. SUFFICES ASSUME Order[k] \in DOMAIN c
                    PROVE  Ini!SectionSaved(sofar, Order[k], c[Order[k]]) \in Seq(FileLines)
        OBVIOUS
      <3>1. c[Order[k]] \in EntryMaps /\ Order[k] \in SortNames
        BY MapTyped, OrderNames DEF Configs
      <3>. QED
        BY <3>1, SectionTyped
    <2>2. more(k, sofar) \in Seq(FileLines)
      BY <2>1
    <2>. QED
      BY <2>2 DEF SaveStep
  <1>3. step \in [(1 .. n) \X Seq(FileLines) -> Seq(FileLines)]
    <2>1. step = [x \in (1 .. n) \X Seq(FileLines) |-> more(x[1], x[2])]
      BY DEF SaveStep
    <2>. HIDE DEF step, n, more
    <2>. QED
      BY <1>2, <2>1
  <1>. HIDE DEF n, first, step, more
  <1>4. PICK f : OrderRun(Seq(FileLines), first, step, f)
    BY <1>1, <1>3, OrderRuns DEF n
  <1>5. \A g : g \in [0 .. n -> Seq(FileLines)] /\ g[0] = first =>
          ((\A k \in 1 .. n : g[k] = step[<<k, g[k - 1]>>])
             <=> \A k \in 1 .. n : g[k] = more(k, g[k - 1]))
    <2>. TAKE g
    <2>. HAVE g \in [0 .. n -> Seq(FileLines)] /\ g[0] = first
    <2>1. \A k \in 1 .. n : g[k - 1] \in Seq(FileLines)
      BY <1>1
    <2>. QED
      BY <1>2, <2>1
  <1>6. f = Step(f)
    <2>1. f \in [0 .. n -> Seq(FileLines)] /\ f[0] = first
          /\ \A k \in 1 .. n : f[k] = more(k, f[k - 1])
      BY <1>4, <1>5 DEF OrderRun, n
    <2>. QED
      BY <1>1, <2>1
  <1>7. written = Step(written)
    <2>1. \E g : g = Step(g)
      BY <1>6
    <2>. HIDE DEF Step
    <2>. QED
      BY <2>1
  <1>8. Ini!Saved(c) = written[n]
    BY DEF Ini!Saved, n, first, more
  <1>. HIDE DEF written
  <1>9. /\ written[0] = first
        /\ \A k \in 1 .. n : written[k] = more(k, written[k - 1])
    BY <1>1, <1>7
  <1>10. \A k \in 0 .. n : written[k] \in Seq(FileLines)
    <2>. DEFINE Good == {k \in 0 .. n : written[k] \in Seq(FileLines)}
    <2>1. 0 \in Good /\ Good \in SUBSET (0 .. n)
      BY <1>1, <1>9
    <2>2. ASSUME NEW k \in 1 .. n, k - 1 \in Good PROVE k \in Good
      <3>1. written[k - 1] \in Seq(FileLines)
        BY <2>2
      <3>2. more(k, written[k - 1]) \in Seq(FileLines)
        BY <1>2, <3>1
      <3>. QED
        BY <1>1, <1>9, <3>2
    <2>. HIDE DEF Good
    <2>3. \A k \in 0 .. n : k \in Good
      BY <1>1, <2>1, <2>2, LoopKeeps
    <2>. QED
      BY <2>3 DEF Good
  <1>11. written \in [0 .. n -> Seq(FileLines)]
    <2>1. \E g : written = [k \in 0 .. n |-> g[k]]
      BY <1>7
    <2>2. written = [k \in 0 .. n |-> written[k]]
      BY <2>1
    <2>. QED
      BY <1>10, <2>2
  <1>12. OrderRun(Seq(FileLines), first, step, written)
    BY <1>5, <1>9, <1>11 DEF OrderRun, n
  <1>. QED
    BY <1>8, <1>12 DEF n, first, step

\* What of a map has been saved after k names.
SavedOf(f, k) == [x \in {x \in DOMAIN f : \E j \in 1 .. k : Order[j] = x} |-> f[x]]

LEMMA SavedGrows ==
  ASSUME IniFilesTyped, NEW D, NEW R, NEW f \in Maps(D, R), DOMAIN f \subseteq SortNames
  PROVE  /\ SavedOf(f, 0) = Ini!Empty
         /\ \A k \in 0 .. Len(Order) : SavedOf(f, k) \in Maps(D, R)
         /\ \A k \in 1 .. Len(Order) :
              /\ Order[k] \in DOMAIN f =>
                   /\ SavedOf(f, k) = Ini!Put(SavedOf(f, k - 1), Order[k], f[Order[k]])
                   /\ Order[k] \notin DOMAIN SavedOf(f, k - 1)
              /\ Order[k] \notin DOMAIN f => SavedOf(f, k) = SavedOf(f, k - 1)
         /\ SavedOf(f, Len(Order)) = f
  <1>. DEFINE Names_(k) == {x \in DOMAIN f : \E j \in 1 .. k : Order[j] = x}
  <1>1. /\ DOMAIN f \subseteq D /\ \A x \in DOMAIN f : f[x] \in R
        /\ f = [x \in DOMAIN f |-> f[x]]
    BY MapTyped
  <1>2. \A k \in 0 .. Len(Order) :
          /\ SavedOf(f, k) \in Maps(D, R) /\ DOMAIN SavedOf(f, k) = Names_(k)
          /\ \A x \in Names_(k) : SavedOf(f, k)[x] = f[x]
    <2>. TAKE k \in 0 .. Len(Order)
    <2>. DEFINE X == Names_(k)
    <2>1. SavedOf(f, k) = [x \in X |-> f[x]] /\ X \subseteq DOMAIN f
      BY DEF SavedOf
    <2>. HIDE DEF X
    <2>2. SavedOf(f, k) \in [X -> R]
      BY <1>1, <2>1
    <2>3. SavedOf(f, k) \in Maps(D, R)
      BY <1>1, <2>1, <2>2 DEF Maps
    <2>4. DOMAIN SavedOf(f, k) = X /\ \A x \in X : SavedOf(f, k)[x] = f[x]
      BY <2>1
    <2>. QED
      BY <2>3, <2>4 DEF X
  <1>3. Names_(0) = {} /\ Names_(Len(Order)) = DOMAIN f
    BY OrderNames
  <1>4. \A k \in 1 .. Len(Order) :
          /\ k \in 0 .. Len(Order) /\ k - 1 \in 0 .. Len(Order)
          /\ Order[k] \in DOMAIN f => /\ Names_(k) = Names_(k - 1) \union {Order[k]}
                                      /\ Order[k] \notin Names_(k - 1)
          /\ Order[k] \notin DOMAIN f => Names_(k) = Names_(k - 1)
    <2>. TAKE k \in 1 .. Len(Order)
    <2>1. Len(Order) \in Nat /\ k \in 1 .. k
      BY OrderNames
    <2>2. \A j \in 1 .. k : j = k \/ j \in 1 .. k - 1
      BY <2>1
    <2>3. \A j \in 1 .. k - 1 : j \in 1 .. k /\ Order[j] # Order[k]
      BY <2>1, OrderNames
    <2>4. Names_(k) = {x \in DOMAIN f : x = Order[k] \/ \E j \in 1 .. k - 1 : Order[j] = x}
      BY <2>1, <2>2, <2>3
    <2>. QED
      BY <2>1, <2>3, <2>4
  <1>. HIDE DEF Names_
  <1>5. SavedOf(f, 0) = Ini!Empty
    <2>1. 0 \in 0 .. Len(Order)
      BY OrderNames
    <2>. QED
      BY <1>2, <1>3, <2>1, MapTyped, MapsEqual
  <1>6. ASSUME NEW k \in 1 .. Len(Order), Order[k] \in DOMAIN f
        PROVE  SavedOf(f, k) = Ini!Put(SavedOf(f, k - 1), Order[k], f[Order[k]])
    <2>. DEFINE g == Ini!Put(SavedOf(f, k - 1), Order[k], f[Order[k]])
    <2>1. k \in 0 .. Len(Order) /\ k - 1 \in 0 .. Len(Order)
          /\ Order[k] \in D /\ f[Order[k]] \in R
      BY <1>1, <1>4, <1>6
    <2>2. g \in Maps(D, R) /\ IsPut(g, SavedOf(f, k - 1), Order[k], f[Order[k]])
      <3>1. SavedOf(f, k - 1) \in Maps(D, R)
        BY <1>2, <2>1
      <3>. QED
        BY <2>1, <3>1, MapPut
    <2>. HIDE DEF g
    <2>3. DOMAIN g = DOMAIN SavedOf(f, k) /\ \A x \in DOMAIN g : g[x] = SavedOf(f, k)[x]
      <3>1. DOMAIN SavedOf(f, k - 1) = Names_(k - 1) /\ DOMAIN SavedOf(f, k) = Names_(k)
        BY <1>2, <2>1
      <3>2. Names_(k) = Names_(k - 1) \union {Order[k]}
        BY <1>4, <1>6
      <3>3. \A x \in Names_(k - 1) : SavedOf(f, k - 1)[x] = f[x]
        BY <1>2, <2>1
      <3>4. \A x \in Names_(k) : SavedOf(f, k)[x] = f[x]
        BY <1>2, <2>1
      <3>. QED
        BY <2>2, <3>1, <3>2, <3>3, <3>4 DEF IsPut
    <2>4. g = SavedOf(f, k)
      BY <1>2, <2>1, <2>2, <2>3, MapsEqual
    <2>. QED
      BY <2>4 DEF g
  <1>7. ASSUME NEW k \in 1 .. Len(Order), Order[k] \notin DOMAIN f
        PROVE  SavedOf(f, k) = SavedOf(f, k - 1)
    BY <1>2, <1>4, <1>7, MapsEqual
  <1>8. SavedOf(f, Len(Order)) = f
    <2>1. Len(Order) \in 0 .. Len(Order)
      BY OrderNames
    <2>. QED
      BY <1>2, <1>3, <2>1, MapsEqual
  <1>9. \A k \in 1 .. Len(Order) : Order[k] \in DOMAIN f =>
          Order[k] \notin DOMAIN SavedOf(f, k - 1)
    BY <1>2, <1>4
  <1>10. \A k \in 0 .. Len(Order) : SavedOf(f, k) \in Maps(D, R)
    BY <1>2
  <1>. QED
    BY <1>5, <1>6, <1>7, <1>8, <1>9, <1>10

\* A configuration and one more section, if it has entries.
With(c, section, entries) ==
  IF DOMAIN entries = {} THEN c ELSE Ini!Put(c, section, entries)

LEMMA WithPut ==
  ASSUME NEW c \in Configs, NEW section \in SortNames \ DOMAIN c, NEW entries \in EntryMaps,
         NEW line \in FileLines, Ini!HasValue(line)
  PROVE  Ini!setSectionKeyValue(With(c, section, entries), section, line)
           = With(c, section, Ini!Put(entries, line.name, line.value))
  <1>. DEFINE w == With(c, section, entries)
              old == IF section \in DOMAIN w THEN w[section] ELSE Ini!Empty
              new == Ini!Put(entries, line.name, line.value)
  <1>1. new \in EntryMaps /\ DOMAIN new # {}
    <2>1. /\ line.name \in Filled(SortNames) /\ line.value \in Valuable
          /\ entries \in Maps(Filled(SortNames), Valuable)
      BY LineFilled DEF EntryMaps
    <2>2. /\ new \in Maps(Filled(SortNames), Valuable)
          /\ IsPut(new, entries, line.name, line.value)
      BY <2>1, MapPut
    <2>. QED
      BY <2>2 DEF EntryMaps, IsPut
  <1>2. DOMAIN entries = {} => w = c
    BY DEF With
  <1>3. DOMAIN entries # {} =>
          /\ w \in Configs /\ DOMAIN w = DOMAIN c \union {section} /\ w[section] = entries
          /\ \A s \in DOMAIN c : w[s] = c[s]
    <2>1. c \in Maps(SortNames, EntryMaps) /\ section \in SortNames
      BY DEF Configs
    <2>2. /\ Ini!Put(c, section, entries) \in Maps(SortNames, EntryMaps)
          /\ IsPut(Ini!Put(c, section, entries), c, section, entries)
      BY <2>1, MapPut
    <2>. QED
      BY <2>2 DEF With, Configs, IsPut
  <1>4. w \in Configs
    BY <1>2, <1>3
  <1>. HIDE DEF w
  <1>5. old = entries
    <2>1. CASE DOMAIN entries = {}
      <3>1. entries = Ini!Empty
        BY <2>1, MapTyped, MapsEqual DEF EntryMaps
      <3>. QED
        BY <1>2, <2>1, <3>1
    <2>2. CASE DOMAIN entries # {}
      BY <1>3, <2>2
    <2>. QED
      BY <2>1, <2>2
  <1>6. Ini!setSectionKeyValue(w, section, line)
          = Ini!Put(w, section, Ini!Put(old, line.name, line.value))
    BY DEF Ini!setSectionKeyValue
  <1>. HIDE DEF old, new
  <1>7. Ini!Put(w, section, new) = Ini!Put(c, section, new)
    <2>1. section \in SortNames
      OBVIOUS
    <2>2. /\ Ini!Put(w, section, new) \in Configs
          /\ IsPut(Ini!Put(w, section, new), w, section, new)
      BY <1>1, <1>4, <2>1, MapPut DEF Configs
    <2>3. /\ Ini!Put(c, section, new) \in Configs
          /\ IsPut(Ini!Put(c, section, new), c, section, new)
      BY <1>1, <2>1, MapPut DEF Configs
    <2>4. DOMAIN w \union {section} = DOMAIN c \union {section}
          /\ \A s \in DOMAIN c : s \in DOMAIN w /\ w[s] = c[s]
      BY <1>2, <1>3
    <2>5. \A s \in DOMAIN Ini!Put(c, section, new) :
            Ini!Put(w, section, new)[s] = Ini!Put(c, section, new)[s]
      BY <2>2, <2>3, <2>4 DEF IsPut
    <2>6. DOMAIN Ini!Put(w, section, new) = DOMAIN Ini!Put(c, section, new)
      BY <2>2, <2>3, <2>4 DEF IsPut
    <2>. QED
      BY <2>2, <2>3, <2>5, <2>6, MapsEqual DEF Configs
  <1>8. With(c, section, new) = Ini!Put(c, section, new)
    BY <1>1 DEF With
  <1>9. Ini!setSectionKeyValue(w, section, line) = With(c, section, new)
    BY <1>5, <1>6, <1>7, <1>8 DEF new
  <1>. QED
    BY <1>9 DEF w, new

\* A section that is not there yet is read back as it was saved.
LEMMA SectionReads ==
  ASSUME IniFilesTyped, NEW out \in Seq(FileLines), NEW before \in Loading,
         NEW section \in SortNames, NEW entries \in EntryMaps,
         section \notin DOMAIN Ini!Read(out, before).cfg
  PROVE  LET end == Ini!Read(Ini!SectionSaved(out, section, entries), before)
         IN end.cfg = With(Ini!Read(out, before).cfg, section, entries)
  <1>. DEFINE c == Ini!Read(out, before).cfg
              n == Len(Order)
              first == Append(out, Ini!HeaderLine(section))
              step == SectionStep(section, entries)
  <1>1. PICK written : /\ OrderRun(Seq(FileLines), first, step, written)
                       /\ Ini!SectionSaved(out, section, entries)
                            = Append(written[n], Ini!BlankLine)
    BY SectionRuns
  <1>2. /\ Ini!Read(out, before) \in Loading
        /\ first \in Seq(FileLines)
        /\ Ini!Read(first, before) = [cfg |-> c, section |-> section]
    <2>1. Ini!HeaderLine(section) \in FileLines /\ Ini!HeaderLine(section).form = "header"
          /\ Ini!HeaderLine(section).name = section
      BY LineTypes
    <2>2. Ini!Read(first, before)
            = Ini!parseLine(Ini!Read(out, before), Ini!HeaderLine(section))
          /\ Ini!Read(out, before) \in Loading /\ first \in Seq(FileLines)
      BY <2>1, ReadAppend
    <2>. QED
      BY <2>1, <2>2, LineRead
  <1>3. c \in Configs
    BY <1>2 DEF Loading
  <1>4. n \in Nat /\ entries \in Maps(Filled(SortNames), Valuable)
        /\ DOMAIN entries \subseteq Filled(SortNames) /\ DOMAIN entries \subseteq SortNames
        /\ \A x \in DOMAIN entries : entries[x] \in Valuable
    <2>1. entries \in Maps(Filled(SortNames), Valuable)
      BY DEF EntryMaps
    <2>2. DOMAIN entries \subseteq Filled(SortNames)
          /\ \A x \in DOMAIN entries : entries[x] \in Valuable
      BY <2>1, MapTyped
    <2>3. Filled(SortNames) \subseteq SortNames
      BY DEF Filled
    <2>. QED
      BY <2>1, <2>2, <2>3, OrderNames
  <1>5. /\ SavedOf(entries, 0) = Ini!Empty
        /\ \A k \in 0 .. n : SavedOf(entries, k) \in EntryMaps
        /\ \A k \in 1 .. n :
             /\ Order[k] \in DOMAIN entries =>
                  SavedOf(entries, k)
                    = Ini!Put(SavedOf(entries, k - 1), Order[k], entries[Order[k]])
             /\ Order[k] \notin DOMAIN entries =>
                  SavedOf(entries, k) = SavedOf(entries, k - 1)
        /\ SavedOf(entries, n) = entries
    BY <1>4, SavedGrows DEF EntryMaps
  <1>. DEFINE Ends(lines, k) ==
                Ini!Read(lines, before)
                  = [cfg |-> With(c, section, SavedOf(entries, k)), section |-> section]
              Good == {k \in 0 .. n : Ends(written[k], k)}
  <1>6. 0 \in Good /\ Good \in SUBSET (0 .. n)
    <2>1. written[0] = first
      BY <1>1 DEF OrderRun
    <2>2. With(c, section, SavedOf(entries, 0)) = c
      BY <1>5, MapTyped DEF With
    <2>. HIDE DEF c, first, n
    <2>. QED
      BY <1>2, <1>4, <2>1, <2>2
  <1>7. ASSUME NEW k \in 1 .. n, k - 1 \in Good PROVE k \in Good
    <2>. DEFINE line == Ini!EntryLine(Order[k], entries[Order[k]])
                sofar == written[k - 1]
    <2>1. k \in 0 .. n /\ k - 1 \in 0 .. n /\ Order[k] \in SortNames
      BY <1>4, OrderNames
    <2>2. sofar \in Seq(FileLines) /\ Ends(sofar, k - 1)
      BY <1>1, <1>7, <2>1 DEF OrderRun
    <2>3. written[k] = IF Order[k] \in DOMAIN entries THEN Append(sofar, line) ELSE sofar
      <3>1. written[k] = step[<<k, sofar>>]
        BY <1>1 DEF OrderRun
      <3>. HIDE DEF sofar, line
      <3>2. step[<<k, sofar>>]
              = IF Order[k] \in DOMAIN entries THEN Append(sofar, line) ELSE sofar
        BY <2>2 DEF SectionStep, line
      <3>. QED
        BY <3>1, <3>2
    <2>4. CASE Order[k] \notin DOMAIN entries
      <3>1. Ends(written[k], k)
        BY <1>5, <2>2, <2>3, <2>4
      <3>. QED
        BY <2>1, <3>1
    <2>5. CASE Order[k] \in DOMAIN entries
      <3>. DEFINE w == With(c, section, SavedOf(entries, k - 1))
      <3>1. /\ line \in FileLines /\ line.form = "entry"
            /\ line.name = Order[k] /\ line.value = entries[Order[k]]
        <4>1. entries[Order[k]] \in IniTexts
          BY <1>4, <2>5 DEF Valuable
        <4>2. \A value \in IniTexts :
                /\ Ini!EntryLine(Order[k], value) \in FileLines
                /\ Ini!EntryLine(Order[k], value).form = "entry"
                /\ Ini!EntryLine(Order[k], value).name = Order[k]
                /\ Ini!EntryLine(Order[k], value).value = value
          BY <2>1, LineTypes
        <4>. QED
          BY <4>1, <4>2
      <3>2. Ini!HasValue(line)
        BY <1>4, <2>5, <3>1, LineFilled
      <3>. HIDE DEF line, sofar
      <3>3. Ini!Read(written[k], before) = Ini!parseLine(Ini!Read(sofar, before), line)
            /\ Ini!Read(sofar, before) \in Loading
        BY <2>2, <2>3, <2>5, <3>1, ReadAppend
      <3>4. Ini!Read(sofar, before) = [cfg |-> w, section |-> section]
        BY <2>2
      <3>5. Ini!Read(written[k], before)
              = [cfg |-> Ini!setSectionKeyValue(w, section, line), section |-> section]
        <4>. HIDE DEF w
        <4>. QED
          BY <3>1, <3>3, <3>4, LineRead
      <3>6. Ini!setSectionKeyValue(w, section, line)
              = With(c, section, Ini!Put(SavedOf(entries, k - 1), line.name, line.value))
        <4>1. SavedOf(entries, k - 1) \in EntryMaps /\ section \in SortNames \ DOMAIN c
          BY <1>5, <2>1
        <4>. HIDE DEF c
        <4>. QED
          BY <1>3, <3>1, <3>2, <4>1, WithPut
      <3>7. Ini!Put(SavedOf(entries, k - 1), line.name, line.value) = SavedOf(entries, k)
        BY <1>5, <2>5, <3>1
      <3>8. Ends(written[k], k)
        BY <3>5, <3>6, <3>7
      <3>. QED
        BY <2>1, <3>8
    <2>. QED
      BY <2>4, <2>5
  <1>8. Ends(written[n], n)
    <2>1. \A k \in 0 .. n : k \in Good
      <3>. HIDE DEF Good, n
      <3>. QED
        BY <1>4, <1>6, <1>7, LoopKeeps
    <2>2. n \in 0 .. n
      BY <1>4
    <2>. QED
      BY <2>1, <2>2
  <1>9. written[n] \in Seq(FileLines) /\ Ini!BlankLine \in FileLines /\ Ini!BlankLine.form = "blank"
    <2>1. n \in 0 .. n
      BY <1>4
    <2>. QED
      BY <1>1, <2>1, LineTypes DEF OrderRun
  <1>10. Ini!Read(Append(written[n], Ini!BlankLine), before) = Ini!Read(written[n], before)
    BY <1>9, ReadAppend, LineRead
  <1>11. Ini!Read(Ini!SectionSaved(out, section, entries), before).cfg
           = With(c, section, SavedOf(entries, n))
    BY <1>1, <1>8, <1>10
  <1>. QED
    BY <1>5, <1>11

\* What a saved configuration is loaded back as: its sections that have entries.
Nonempty(c) == [s \in {s \in DOMAIN c : DOMAIN c[s] # {}} |-> c[s]]

LEMMA NonemptyTyped ==
  ASSUME NEW c \in Configs
  PROVE  Nonempty(c) \in Maps(SortNames, EntryMaps) /\ DOMAIN Nonempty(c) \subseteq SortNames
  <1>. DEFINE X == {s \in DOMAIN c : DOMAIN c[s] # {}}
  <1>1. DOMAIN c \subseteq SortNames /\ \A s \in DOMAIN c : c[s] \in EntryMaps
    BY MapTyped DEF Configs
  <1>2. Nonempty(c) = [s \in X |-> c[s]] /\ X \subseteq DOMAIN c
    BY DEF Nonempty
  <1>. HIDE DEF X
  <1>3. Nonempty(c) \in [X -> EntryMaps] /\ X \in SUBSET SortNames
    BY <1>1, <1>2
  <1>. QED
    BY <1>2, <1>3 DEF Maps

\* A saved configuration is loaded back as itself, but for its empty sections.
LEMMA SavedReads ==
  ASSUME IniFilesTyped, NEW c \in Configs, NEW section \in SortNames
  PROVE  Ini!Loaded(Ini!Saved(c), section).cfg = Nonempty(c)
  <1>. DEFINE n == Len(Order)
              before == [cfg |-> Ini!Empty, section |-> section]
              step == SaveStep(c)
              none == <<>>
  <1>1. PICK written : /\ OrderRun(Seq(FileLines), none, step, written)
                       /\ Ini!Saved(c) = written[n]
    BY SavedRuns
  <1>2. /\ before \in Loading /\ none \in Seq(FileLines)
        /\ Ini!Read(none, before) = before
    <2>1. before \in Loading /\ none \in Seq(FileLines) /\ Len(none) = 0
      BY MapTyped DEF Loading, Configs
    <2>. HIDE DEF before, none
    <2>2. PICK after : ReadRun(none, before, after) /\ Ini!Read(none, before) = after[0]
      BY <2>1, ReadRuns
    <2>. QED
      BY <2>1, <2>2 DEF ReadRun
  <1>3. /\ n \in Nat /\ Nonempty(c) \in Maps(SortNames, EntryMaps) /\ DOMAIN Nonempty(c) \subseteq SortNames
        /\ \A s \in DOMAIN c : c[s] \in EntryMaps /\ s \in SortNames
    BY NonemptyTyped, OrderNames, MapTyped DEF Configs
  <1>4. \A s \in DOMAIN c :
          /\ s \in DOMAIN Nonempty(c) <=> DOMAIN c[s] # {}
          /\ s \in DOMAIN Nonempty(c) => Nonempty(c)[s] = c[s]
    BY DEF Nonempty
  <1>5. DOMAIN Nonempty(c) \subseteq DOMAIN c
    BY DEF Nonempty
  <1>6. /\ SavedOf(Nonempty(c), 0) = Ini!Empty
        /\ \A k \in 1 .. n :
             /\ Order[k] \in DOMAIN Nonempty(c) =>
                  /\ SavedOf(Nonempty(c), k)
                       = Ini!Put(SavedOf(Nonempty(c), k - 1), Order[k], Nonempty(c)[Order[k]])
                  /\ Order[k] \notin DOMAIN SavedOf(Nonempty(c), k - 1)
             /\ Order[k] \notin DOMAIN Nonempty(c) =>
                  SavedOf(Nonempty(c), k) = SavedOf(Nonempty(c), k - 1)
        /\ SavedOf(Nonempty(c), n) = Nonempty(c)
    BY <1>3, SavedGrows
  <1>7. \A k : DOMAIN SavedOf(Nonempty(c), k) \subseteq DOMAIN Nonempty(c)
    BY DEF SavedOf
  <1>. DEFINE Good == {k \in 0 .. n : Ini!Read(written[k], before).cfg = SavedOf(Nonempty(c), k)}
  <1>8. 0 \in Good /\ Good \in SUBSET (0 .. n)
    <2>1. written[0] = none /\ Ini!Read(none, before).cfg = Ini!Empty
      BY <1>1, <1>2 DEF OrderRun
    <2>. HIDE DEF before
    <2>. QED
      BY <1>3, <1>6, <2>1
  <1>. HIDE DEF before, none
  <1>9. ASSUME NEW k \in 1 .. n, k - 1 \in Good PROVE k \in Good
    <2>. DEFINE name == Order[k]
                sofar == written[k - 1]
                entries == c[name]
    <2>1. k \in 0 .. n /\ k - 1 \in 0 .. n
      BY <1>3
    <2>2. sofar \in Seq(FileLines) /\ Ini!Read(sofar, before).cfg = SavedOf(Nonempty(c), k - 1)
      BY <1>1, <1>9, <2>1 DEF OrderRun
    <2>3. written[k] = IF name \in DOMAIN c THEN Ini!SectionSaved(sofar, name, entries)
                       ELSE sofar
      <3>1. written[k] = step[<<k, sofar>>]
        BY <1>1 DEF OrderRun
      <3>. HIDE DEF sofar
      <3>2. step[<<k, sofar>>] = IF name \in DOMAIN c THEN Ini!SectionSaved(sofar, name, entries)
                                 ELSE sofar
        BY <2>2 DEF SaveStep
      <3>. QED
        BY <3>1, <3>2
    <2>. HIDE DEF sofar
    <2>4. CASE name \notin DOMAIN c
      <3>1. Ini!Read(written[k], before).cfg = SavedOf(Nonempty(c), k)
        BY <1>5, <1>6, <2>2, <2>3, <2>4
      <3>. QED
        BY <2>1, <3>1
    <2>5. CASE name \in DOMAIN c
      <3>1. name \notin DOMAIN SavedOf(Nonempty(c), k - 1)
        BY <1>6, <1>7
      <3>2. Ini!Read(written[k], before).cfg
              = With(SavedOf(Nonempty(c), k - 1), name, entries)
        <4>1. name \in SortNames /\ entries \in EntryMaps
              /\ name \notin DOMAIN Ini!Read(sofar, before).cfg
          BY <1>3, <2>2, <2>5, <3>1
        <4>. HIDE DEF name, entries
        <4>2. Ini!Read(Ini!SectionSaved(sofar, name, entries), before).cfg
                = With(Ini!Read(sofar, before).cfg, name, entries)
          BY <1>2, <2>2, <4>1, SectionReads
        <4>. QED
          BY <2>2, <2>3, <2>5, <4>2
      <3>3. With(SavedOf(Nonempty(c), k - 1), name, entries) = SavedOf(Nonempty(c), k)
        <4>1. CASE DOMAIN entries = {}
          BY <1>4, <1>6, <2>5, <4>1 DEF With
        <4>2. CASE DOMAIN entries # {}
          BY <1>4, <1>6, <2>5, <4>2 DEF With
        <4>. QED
          BY <4>1, <4>2
      <3>. QED
        BY <2>1, <3>2, <3>3
    <2>. QED
      BY <2>4, <2>5
  <1>10. n \in Good
    <2>1. \A k \in 0 .. n : k \in Good
      <3>. HIDE DEF Good, n
      <3>. QED
        BY <1>3, <1>8, <1>9, LoopKeeps
    <2>. QED
      BY <1>3, <2>1
  <1>11. Ini!Loaded(Ini!Saved(c), section) = Ini!Read(written[n], before)
    BY <1>1 DEF Ini!Loaded, before
  <1>. QED
    BY <1>6, <1>10, <1>11

\* The lines of a run, and what the first i of them mean (Means of IniConfig).
Here(lines, left, s, i) ==
  {k \in Ini!Entries(lines) :
     k <= i /\ Ini!SectionOf(lines, k, left) = s /\ Ini!HasValue(lines[k])}

Says(lines, left, s, i, entries) ==
  /\ DOMAIN entries = {lines[k].name : k \in Here(lines, left, s, i)}
  /\ \A k \in Here(lines, left, s, i) :
       (\A j \in Here(lines, left, s, i) : lines[j].name = lines[k].name => j <= k)
         => entries[lines[k].name] = lines[k].value

MeansTo(lines, left, i, c) ==
  /\ DOMAIN c = {Ini!SectionOf(lines, k, left) : k \in {k \in Ini!Entries(lines) : k <= i}}
  /\ \A s \in DOMAIN c : Says(lines, left, s, i, c[s])

\* The section of an entry is the one in force when it is read.
LEMMA SectionRead ==
  ASSUME NEW lines \in Seq(FileLines), NEW before, NEW after, ReadRun(lines, before, after),
         NEW e \in Ini!Entries(lines)
  PROVE  after[e - 1].section = Ini!SectionOf(lines, e, before.section)
  <1>. DEFINE n == Len(lines)
              H == Ini!Headers(lines)
              Latest(h, i) == h \in H /\ h <= i /\ \A g \in H : g <= i => g <= h
              left == before.section
              Good == {i \in 0 .. n : \/ (\A g \in H : g > i) /\ after[i].section = left
                                      \/ \E h : Latest(h, i) /\ after[i].section = lines[h].name}
  <1>1. /\ n \in Nat /\ \A i \in 1 .. n : lines[i] \in FileLines
        /\ \A i : i \in DOMAIN lines <=> i \in 1 .. n
    BY LenProperties, ElementOfSeq
  <1>2. /\ H \in SUBSET (1 .. n) /\ \A i \in 1 .. n : i \in H <=> lines[i].form = "header"
        /\ e \in 1 .. n /\ lines[e].form = "entry"
    <2>1. \A i : i \in H <=> i \in 1 .. n /\ lines[i].form = "header"
      <3>. HIDE DEF n
      <3>. QED
        BY <1>1 DEF Ini!Headers
    <2>2. e \in 1 .. n /\ lines[e].form = "entry"
      <3>. HIDE DEF n
      <3>. QED
        BY <1>1 DEF Ini!Entries
    <2>. HIDE DEF H, n
    <2>. QED
      BY <2>1, <2>2
  <1>3. /\ after[0].section = left /\ \A i \in 0 .. n : after[i] \in Loading
        /\ \A i \in 1 .. n : after[i] = Ini!parseLine(after[i - 1], lines[i])
    BY DEF ReadRun
  <1>. HIDE DEF n, H, left
  <1>4. 0 \in Good /\ Good \in SUBSET (0 .. n)
    BY <1>1, <1>2, <1>3
  <1>5. ASSUME NEW i \in 1 .. n, i - 1 \in Good PROVE i \in Good
    <2>1. /\ i \in 0 .. n /\ i - 1 \in 0 .. n /\ after[i - 1] \in Loading
          /\ lines[i] \in FileLines /\ after[i] = Ini!parseLine(after[i - 1], lines[i])
      BY <1>1, <1>3
    <2>2. CASE lines[i].form = "header"
      <3>1. after[i].section = lines[i].name
        BY <2>1, <2>2, LineRead
      <3>2. Latest(i, i)
        BY <1>1, <1>2, <2>2
      <3>. QED
        BY <2>1, <3>1, <3>2
    <2>3. CASE lines[i].form # "header"
      <3>1. after[i].section = after[i - 1].section
        <4>1. lines[i].form \in {"blank", "entry"}
          BY <2>1, <2>3 DEF FileLines
        <4>. QED
          BY <2>1, <4>1, LineRead
      <3>2. i \notin H
        BY <1>2, <2>3
      <3>3. \A g \in H : (g <= i <=> g <= i - 1) /\ (g > i <=> g > i - 1)
        BY <1>1, <1>2, <3>2
      <3>4. CASE (\A g \in H : g > i - 1) /\ after[i - 1].section = left
        BY <2>1, <3>1, <3>3, <3>4
      <3>5. ASSUME NEW h, Latest(h, i - 1), after[i - 1].section = lines[h].name
            PROVE  i \in Good
        <4>1. Latest(h, i)
          BY <3>3, <3>5
        <4>. QED
          BY <2>1, <3>1, <3>5, <4>1
      <3>. QED
        BY <1>5, <3>4, <3>5
    <2>. QED
      BY <2>2, <2>3
  <1>6. e - 1 \in Good
    <2>1. \A i \in 0 .. n : i \in Good
      <3>. HIDE DEF Good
      <3>. QED
        BY <1>1, <1>4, <1>5, LoopKeeps
    <2>. QED
      BY <1>1, <1>2, <2>1
  <1>7. /\ \A g \in H : (g < e <=> g <= e - 1) /\ (g > e <=> g > e - 1)
        /\ \A g \in H : g \in Nat
    BY <1>1, <1>2
  <1>8. CASE (\A g \in H : g > e - 1) /\ after[e - 1].section = left
    <2>1. \A g \in H : g > e
      BY <1>7, <1>8
    <2>. QED
      BY <1>8, <2>1, Zenon DEF Ini!SectionOf, H, left
  <1>9. ASSUME NEW h, Latest(h, e - 1), after[e - 1].section = lines[h].name
        PROVE  after[e - 1].section = Ini!SectionOf(lines, e, left)
    <2>1. h \in H /\ h < e /\ \A g \in H : g < e => g <= h
      BY <1>7, <1>9
    <2>2. \A k \in H : k < e /\ (\A g \in H : g < e => g <= k) => k = h
      BY <1>7, <2>1
    <2>3. (CHOOSE k \in H : k < e /\ \A g \in H : g < e => g <= k) = h
      BY <2>1, <2>2, Zenon
    <2>4. ~ \A g \in H : g > e
      BY <1>1, <1>2, <1>7, <2>1
    <2>5. Ini!SectionOf(lines, e, left)
            = lines[CHOOSE k \in H : k < e /\ \A g \in H : g < e => g <= k].name
      BY <2>4, Zenon DEF Ini!SectionOf, H
    <2>. QED
      BY <1>9, <2>3, <2>5
  <1>. QED
    BY <1>6, <1>8, <1>9 DEF left

\* What an entry makes of a configuration.
Before(c, section) == IF section \in DOMAIN c THEN c[section] ELSE Ini!Empty

LEMMA EntryMakes ==
  ASSUME NEW c \in Configs, NEW section \in SortNames, NEW line \in FileLines
  PROVE  LET new == Ini!setSectionKeyValue(c, section, line)
         IN /\ DOMAIN new = DOMAIN c \union {section}
            /\ \A s \in DOMAIN c \ {section} : new[s] = c[s]
            /\ Ini!HasValue(line) =>
                 IsPut(new[section], Before(c, section), line.name, line.value)
            /\ ~Ini!HasValue(line) => new[section] = Before(c, section)
  <1>. DEFINE old == Before(c, section)
              put == Ini!Put(old, line.name, line.value)
              entries == IF Ini!HasValue(line) THEN put ELSE old
  <1>1. old \in EntryMaps
    BY MapTyped DEF Configs, EntryMaps, Before
  <1>2. Ini!HasValue(line) => put \in EntryMaps /\ IsPut(put, old, line.name, line.value)
    <2>. HIDE DEF old
    <2>1. Ini!HasValue(line) =>
            /\ line.name \in Filled(SortNames) /\ line.value \in Valuable
            /\ old \in Maps(Filled(SortNames), Valuable)
      BY <1>1, LineFilled DEF EntryMaps
    <2>. QED
      BY <2>1, MapPut DEF EntryMaps
  <1>3. Ini!setSectionKeyValue(c, section, line) = Ini!Put(c, section, entries)
    BY DEF Ini!setSectionKeyValue, Before
  <1>. HIDE DEF old, put
  <1>4. entries \in EntryMaps
    BY <1>1, <1>2
  <1>. HIDE DEF entries
  <1>5. IsPut(Ini!Put(c, section, entries), c, section, entries)
    BY <1>4, MapPut DEF Configs
  <1>6. /\ Ini!HasValue(line) => entries = put
        /\ ~Ini!HasValue(line) => entries = old
    BY DEF entries
  <1>. QED
    BY <1>2, <1>3, <1>5, <1>6 DEF IsPut, old

\* What is said of a section before an entry of it, and then after it.
LEMMA EntrySays ==
  ASSUME NEW lines \in Seq(FileLines), NEW left, NEW i \in Ini!Entries(lines), i \in Nat, NEW old, NEW new,
         Ini!Entries(lines) \subseteq Nat,
         Says(lines, left, Ini!SectionOf(lines, i, left), i - 1, old),
         /\ Ini!HasValue(lines[i]) => IsPut(new, old, lines[i].name, lines[i].value)
         /\ ~Ini!HasValue(lines[i]) => new = old
  PROVE  Says(lines, left, Ini!SectionOf(lines, i, left), i, new)
  <1>. DEFINE s == Ini!SectionOf(lines, i, left)
              was == Here(lines, left, s, i - 1)
              is == Here(lines, left, s, i)
  <1>1. /\ was = is \ {i} /\ was \subseteq is /\ \A k \in is : k \in Nat /\ k <= i
        /\ i \in is <=> Ini!HasValue(lines[i])
    BY DEF Here
  <1>2. /\ DOMAIN old = {lines[k].name : k \in was}
        /\ \A k \in was :
             (\A j \in was : lines[j].name = lines[k].name => j <= k)
               => old[lines[k].name] = lines[k].value
    BY DEF Says
  <1>. HIDE DEF was, is
  <1>3. CASE ~Ini!HasValue(lines[i])
    <2>1. was = is /\ new = old
      BY <1>1, <1>3
    <2>2. /\ DOMAIN new = {lines[k].name : k \in is}
          /\ \A k \in is :
               (\A j \in is : lines[j].name = lines[k].name => j <= k)
                 => new[lines[k].name] = lines[k].value
      BY <1>2, <2>1
    <2>. QED
      BY <2>2 DEF Says, is
  <1>4. CASE Ini!HasValue(lines[i])
    <2>1. /\ DOMAIN new = DOMAIN old \union {lines[i].name}
          /\ new[lines[i].name] = lines[i].value
          /\ \A x \in DOMAIN old \ {lines[i].name} : new[x] = old[x]
      BY <1>4 DEF IsPut
    <2>2. DOMAIN new = {lines[k].name : k \in is}
      <3>1. is = was \union {i}
        BY <1>1, <1>4
      <3>. QED
        BY <1>2, <2>1, <3>1
    <2>3. ASSUME NEW k \in is, \A j \in is : lines[j].name = lines[k].name => j <= k
          PROVE  new[lines[k].name] = lines[k].value
      <3>1. CASE lines[k].name = lines[i].name
        <4>1. i <= k /\ k <= i /\ k \in Nat
          BY <1>1, <1>4, <2>3, <3>1
        <4>2. k = i
          BY <4>1
        <4>. QED
          BY <2>1, <4>2
      <3>2. CASE lines[k].name # lines[i].name
        <4>1. k \in was
          BY <1>1, <3>2
        <4>2. old[lines[k].name] = lines[k].value
          BY <1>1, <1>2, <2>3, <4>1
        <4>3. lines[k].name \in DOMAIN old
          BY <1>2, <4>1
        <4>. QED
          BY <2>1, <3>2, <4>2, <4>3
      <3>. QED
        BY <3>1, <3>2
    <2>. QED
      BY <2>2, <2>3 DEF Says, is
  <1>. QED
    BY <1>3, <1>4

\* Whatever is read on top of nothing means what its lines say.
LEMMA FileMeans ==
  ASSUME NEW lines \in Seq(FileLines), NEW section \in SortNames
  PROVE  Ini!Means(lines, section, Ini!Loaded(lines, section).cfg)
  <1>. DEFINE n == Len(lines)
              before == [cfg |-> Ini!Empty, section |-> section]
              E == Ini!Entries(lines)
              S(k) == Ini!SectionOf(lines, k, section)
  <1>1. /\ n \in Nat /\ \A i \in 1 .. n : lines[i] \in FileLines
        /\ \A i : i \in DOMAIN lines <=> i \in 1 .. n
    BY LenProperties, ElementOfSeq
  <1>2. E \in SUBSET (1 .. n) /\ \A i \in 1 .. n : i \in E <=> lines[i].form = "entry"
    <2>1. \A i : i \in E <=> i \in 1 .. n /\ lines[i].form = "entry"
      <3>. HIDE DEF n
      <3>. QED
        BY <1>1 DEF Ini!Entries
    <2>. HIDE DEF E, n
    <2>. QED
      BY <2>1
  <1>3. \A k \in E : k \in Nat /\ 1 <= k /\ k <= n
    <2>1. n \in Nat /\ E \in SUBSET (1 .. n)
      BY <1>1, <1>2
    <2>. HIDE DEF E, n
    <2>. QED
      BY <2>1
  <1>4. before \in Loading
    BY MapTyped DEF Loading, Configs
  <1>5. PICK after : ReadRun(lines, before, after) /\ Ini!Read(lines, before) = after[n]
    <2>. HIDE DEF before
    <2>. QED
      BY <1>4, ReadRuns
  <1>6. /\ after[0] = before /\ \A i \in 0 .. n : after[i] \in Loading
        /\ \A i \in 1 .. n : after[i] = Ini!parseLine(after[i - 1], lines[i])
    BY <1>5 DEF ReadRun
  <1>7. \A i \in E : after[i - 1].section = S(i)
    <2>1. before.section = section
      OBVIOUS
    <2>. HIDE DEF before
    <2>. QED
      BY <1>5, <2>1, SectionRead
  <1>. DEFINE Good == {i \in 0 .. n : MeansTo(lines, section, i, after[i].cfg)}
  <1>8. 0 \in Good /\ Good \in SUBSET (0 .. n)
    <2>1. after[0].cfg = Ini!Empty /\ DOMAIN Ini!Empty = {}
      BY <1>6, MapTyped
    <2>2. {k \in E : k <= 0} = {}
      <3>. HIDE DEF E, n
      <3>. QED
        BY <1>3
    <2>3. MeansTo(lines, section, 0, after[0].cfg)
      <3>. HIDE DEF n, before
      <3>. QED
        BY <2>1, <2>2 DEF MeansTo
    <2>. HIDE DEF n
    <2>. QED
      BY <1>1, <2>3
  <1>. HIDE DEF n, before
  <1>9. ASSUME NEW i \in 1 .. n, i - 1 \in Good PROVE i \in Good
    <2>. DEFINE c == after[i - 1].cfg
                d == after[i].cfg
                line == lines[i]
    <2>1. /\ i \in 0 .. n /\ i - 1 \in 0 .. n /\ i \in Nat /\ after[i - 1] \in Loading
          /\ line \in FileLines /\ after[i] = Ini!parseLine(after[i - 1], line)
      BY <1>1, <1>6
    <2>2. /\ DOMAIN c = {S(k) : k \in {k \in E : k <= i - 1}}
          /\ \A s \in DOMAIN c : Says(lines, section, s, i - 1, c[s])
      BY <1>9 DEF MeansTo
    <2>3. \A k \in E : k \in Nat /\ (k <= i <=> k <= i - 1 \/ k = i)
      <3>. HIDE DEF E
      <3>. QED
        BY <1>3, <2>1
    <2>4. \A s : (i \notin E \/ S(i) # s) => Here(lines, section, s, i) = Here(lines, section, s, i - 1)
      BY <2>3 DEF Here
    <2>5. \A s : (i \notin E \/ S(i) # s) =>
                   \A f : Says(lines, section, s, i - 1, f) => Says(lines, section, s, i, f)
      BY <2>4 DEF Says
    <2>6. CASE i \notin E
      <3>1. d = c
        <4>1. line.form \in {"blank", "header"}
          BY <1>2, <2>1, <2>6 DEF FileLines
        <4>. QED
          BY <2>1, <4>1, LineRead
      <3>2. {k \in E : k <= i} = {k \in E : k <= i - 1}
        BY <2>3, <2>6
      <3>3. MeansTo(lines, section, i, d)
        BY <2>2, <2>5, <2>6, <3>1, <3>2 DEF MeansTo
      <3>. QED
        BY <2>1, <3>3
    <2>7. CASE i \in E
      <3>. DEFINE t == S(i)
                  old == Before(c, t)
      <3>1. d = Ini!setSectionKeyValue(c, t, line) /\ c \in Configs /\ t \in SortNames
        <4>1. line.form = "entry" /\ after[i - 1].section = t
          BY <1>2, <1>7, <2>7
        <4>. QED
          BY <2>1, <4>1, LineRead
      <3>. HIDE DEF c, d, line, E
      <3>2. /\ DOMAIN d = DOMAIN c \union {t} /\ \A s \in DOMAIN c \ {t} : d[s] = c[s]
            /\ Ini!HasValue(line) => IsPut(d[t], old, line.name, line.value)
            /\ ~Ini!HasValue(line) => d[t] = old
        <4>. HIDE DEF t
        <4>. QED
          BY <2>1, <3>1, EntryMakes
      <3>3. Says(lines, section, t, i - 1, old)
        <4>1. CASE t \in DOMAIN c
          BY <2>2, <4>1 DEF Before
        <4>2. CASE t \notin DOMAIN c
          <5>1. old = Ini!Empty /\ DOMAIN Ini!Empty = {}
            BY <4>2, MapTyped DEF Before
          <5>2. Here(lines, section, t, i - 1) = {}
            BY <2>2, <4>2 DEF Here, E
          <5>. QED
            BY <5>1, <5>2 DEF Says
        <4>. QED
          BY <4>1, <4>2
      <3>4. Says(lines, section, t, i, d[t])
        <4>1. Ini!Entries(lines) \subseteq Nat
          BY <2>3 DEF E
        <4>. QED
          BY <2>1, <2>7, <3>2, <3>3, <4>1, EntrySays DEF line, E
      <3>5. \A s \in DOMAIN d : Says(lines, section, s, i, d[s])
        BY <2>2, <2>5, <3>2, <3>4
      <3>6. DOMAIN d = {S(k) : k \in {k \in E : k <= i}}
        <4>1. {k \in E : k <= i} = {k \in E : k <= i - 1} \union {i}
          BY <2>3, <2>7
        <4>. QED
          BY <2>2, <3>2, <4>1
      <3>7. MeansTo(lines, section, i, d)
        BY <3>5, <3>6 DEF MeansTo, E
      <3>. QED
        BY <2>1, <3>7 DEF d
    <2>. QED
      BY <2>6, <2>7
  <1>10. MeansTo(lines, section, n, after[n].cfg)
    <2>1. \A i \in 0 .. n : i \in Good
      <3>. HIDE DEF Good
      <3>. QED
        BY <1>1, <1>8, <1>9, LoopKeeps
    <2>. QED
      BY <1>1, <2>1
  <1>11. Ini!Loaded(lines, section) = after[n]
    BY <1>5 DEF Ini!Loaded, before
  <1>. DEFINE c == after[n].cfg
  <1>12. {k \in E : k <= n} = E
    <2>. HIDE DEF E
    <2>. QED
      BY <1>3
  <1>13. DOMAIN c = {S(k) : k \in E}
    BY <1>10, <1>12 DEF MeansTo
  <1>14. ASSUME NEW s \in DOMAIN c
         PROVE  LET valued == Ini!Valued(lines, s, section)
                IN /\ DOMAIN c[s] = {lines[k].name : k \in valued}
                   /\ \A k \in valued :
                        Ini!Counts(lines, k, valued)
                          => Ini!getStrValue(c, s, lines[k].name, <<>>) = lines[k].value
    <2>. DEFINE valued == Ini!Valued(lines, s, section)
    <2>1. Here(lines, section, s, n) = valued
      <3>1. \A k \in E : k <= n
        BY <1>3
      <3>. QED
        BY <3>1 DEF Here, Ini!Valued
    <2>2. /\ DOMAIN c[s] = {lines[k].name : k \in valued}
          /\ \A k \in valued : Ini!Counts(lines, k, valued) => c[s][lines[k].name] = lines[k].value
      <3>1. Says(lines, section, s, n, c[s])
        BY <1>10, <1>14 DEF MeansTo
      <3>. HIDE DEF c, valued
      <3>. QED
        BY <2>1, <3>1 DEF Says, Ini!Counts
    <2>3. \A k \in valued : lines[k].name \in DOMAIN c[s]
      <3>. HIDE DEF c, valued
      <3>. QED
        BY <2>2
    <2>4. \A k \in valued :
            Ini!getStrValue(c, s, lines[k].name, <<>>) = c[s][lines[k].name]
      <3>. HIDE DEF c, valued
      <3>. QED
        BY <1>14, <2>3, Zenon DEF Ini!getStrValue, c
    <2>. HIDE DEF c, valued
    <2>. QED
      BY <2>2, <2>4, Zenon DEF valued
  <1>. QED
    BY <1>11, <1>13, <1>14, Zenon DEF Ini!Means

\* What is loaded has the type of a configuration.
LEMMA LoadedTyped ==
  ASSUME NEW lines \in Seq(RawLines), NEW section \in SortNames
  PROVE  Ini!Loaded(lines, section) \in Loading
  <1>. DEFINE before == [cfg |-> Ini!Empty, section |-> section]
  <1>1. before \in Loading
    BY MapTyped DEF Loading, Configs
  <1>2. PICK after : ReadRun(lines, before, after)
                     /\ Ini!Read(lines, before) = after[Len(lines)]
    <2>. HIDE DEF before
    <2>. QED
      BY <1>1, RawRuns
  <1>3. Len(lines) \in 0 .. Len(lines)
    BY LenProperties
  <1>4. after[Len(lines)] \in Loading
    BY <1>2, <1>3 DEF ReadRun
  <1>. QED
    BY <1>2, <1>4 DEF Ini!Loaded

\* The lines of a file and what is kept of them, place by place.
LastBefore(H, i) == CHOOSE h \in H : h < i /\ \A g \in H : g < i => g <= h

LEMMA KeptPlaces ==
  ASSUME NEW lines \in Seq(RawLines)
  PROVE  /\ Len(lines) \in Nat /\ Ini!Entries(lines) \in SUBSET (1 .. Len(lines))
         /\ Ini!Entries(KeptLines(lines)) = Ini!Entries(lines)
         /\ \A i \in Ini!Entries(lines) :
              /\ lines[i] \in RawLines /\ KeptLines(lines)[i] = Ini!Kept(lines[i])
              /\ \A left : Ini!SectionOf(KeptLines(lines), i, left)
                             = Ini!SectionOf(lines, i, left)
  <1>. DEFINE n == Len(lines)
              plain == KeptLines(lines)
  <1>1. /\ n \in Nat /\ \A i \in 1 .. n : lines[i] \in RawLines
        /\ \A i : i \in DOMAIN lines <=> i \in 1 .. n
    BY LenProperties, ElementOfSeq
  <1>2. /\ \A i : i \in DOMAIN plain <=> i \in 1 .. n
        /\ \A i \in 1 .. n : plain[i] = Ini!Kept(lines[i])
    BY DEF KeptLines
  <1>. HIDE DEF n, plain
  <1>3. \A i \in 1 .. n : plain[i].form = lines[i].form /\ plain[i].name = lines[i].name
    BY <1>1, <1>2, LineKept
  <1>4. /\ Ini!Entries(lines) \in SUBSET (1 .. n) /\ Ini!Entries(plain) = Ini!Entries(lines)
        /\ Ini!Headers(lines) \in SUBSET (1 .. n) /\ Ini!Headers(plain) = Ini!Headers(lines)
    BY <1>1, <1>2, <1>3 DEF Ini!Entries, Ini!Headers
  <1>5. ASSUME NEW i \in Ini!Entries(lines), NEW left
        PROVE  Ini!SectionOf(plain, i, left) = Ini!SectionOf(lines, i, left)
    <2>. DEFINE H == Ini!Headers(lines)
                Latest(h) == h < i /\ \A g \in H : g < i => g <= h
                h == LastBefore(H, i)
    <2>1. /\ Ini!SectionOf(lines, i, left) = IF \A g \in H : g > i THEN left ELSE lines[h].name
          /\ Ini!SectionOf(plain, i, left) = IF \A g \in H : g > i THEN left ELSE plain[h].name
      <3>1. \A ls : Ini!SectionOf(ls, i, left)
                      = IF \A g \in Ini!Headers(ls) : g > i THEN left
                        ELSE ls[LastBefore(Ini!Headers(ls), i)].name
        BY DEF Ini!SectionOf, LastBefore
      <3>2. Ini!Headers(plain) = H
        BY <1>4
      <3>. HIDE DEF H
      <3>3. Ini!SectionOf(plain, i, left)
              = IF \A g \in H : g > i THEN left ELSE plain[LastBefore(H, i)].name
        BY <3>1, <3>2
      <3>. QED
        BY <3>1, <3>3 DEF H
    <2>2. ASSUME ~ \A g \in H : g > i PROVE h \in 1 .. n
      <3>. DEFINE T == {g \in H : g < i}
      <3>1. i \in 1 .. n /\ H \in SUBSET (1 .. n) /\ i \notin H
        <4>1. i \notin H
          BY <1>5 DEF Ini!Entries, Ini!Headers
        <4>. QED
          BY <1>4, <4>1
      <3>. HIDE DEF H
      <3>2. T \in SUBSET (1 .. n) /\ T # {}
        <4>1. PICK g \in H : ~(g > i)
          BY <2>2
        <4>2. g \in 1 .. n /\ g # i
          BY <3>1
        <4>3. g < i
          BY <1>1, <3>1, <4>1, <4>2
        <4>4. g \in T
          BY <4>3
        <4>. QED
          BY <3>1, <4>4
      <3>3. PICK m \in T : \A k \in T : k <= m
        <4>. HIDE DEF T
        <4>. QED
          BY <1>1, <3>2, LastEntry
      <3>4. m \in H /\ Latest(m)
        BY <3>3
      <3>. HIDE DEF Latest
      <3>5. h \in H
        BY <3>4 DEF LastBefore, Latest
      <3>. QED
        BY <3>1, <3>5
    <2>. HIDE DEF h
    <2>. QED
      BY <1>3, <2>1, <2>2
  <1>. QED
    BY <1>1, <1>2, <1>4, <1>5 DEF n, plain

(***************************************************************************)
(* What is kept of a file's lines means the same as they do if and only if *)
(* nothing is dropped of the values that count.                            *)
(***************************************************************************)
LEMMA KeptMeans ==
  ASSUME NEW lines \in Seq(RawLines), NEW left, NEW c \in Configs,
         Ini!Means(KeptLines(lines), left, c)
  PROVE  Ini!Means(lines, left, c) <=> Ini!NoSigns(lines, left)
  <1>. DEFINE plain == KeptLines(lines)
              E == Ini!Entries(lines)
              S(k) == Ini!SectionOf(lines, k, left)
              V(s) == Ini!Valued(lines, s, left)
              P(s) == Ini!Valued(plain, s, left)
              Has(s, k) == Ini!getStrValue(c, s, lines[k].name, <<>>)
  <1>1. /\ Len(lines) \in Nat /\ E \in SUBSET (1 .. Len(lines)) /\ Ini!Entries(plain) = E
        /\ \A k \in E : /\ lines[k] \in RawLines /\ plain[k] = Ini!Kept(lines[k])
                        /\ plain[k].name = lines[k].name
                        /\ Ini!SectionOf(plain, k, left) = S(k)
                        /\ NoSign(lines[k].value) => plain[k] = lines[k]
    BY KeptPlaces, LineKept
  <1>2. \A s : /\ V(s) = {k \in E : S(k) = s /\ Ini!HasValue(lines[k])}
               /\ P(s) = {k \in E : S(k) = s /\ Ini!HasValue(plain[k])}
    BY <1>1 DEF Ini!Valued
  <1>3. ASSUME NEW k \in E, Ini!HasValue(plain[k]) PROVE Ini!HasValue(lines[k])
    <2>1. lines[k].value = <<>> => NoSign(lines[k].value)
      BY DEF NoSign
    <2>. QED
      BY <1>1, <1>3, <2>1, Zenon DEF Ini!HasValue
  <1>4. /\ \A s : P(s) \subseteq V(s) /\ V(s) \subseteq E
        /\ \A s : \A k \in V(s) : NoSign(lines[k].value) => k \in P(s)
    BY <1>1, <1>2, <1>3
  <1>5. /\ DOMAIN c = {S(k) : k \in E}
        /\ \A s \in DOMAIN c :
             /\ DOMAIN c[s] = {lines[k].name : k \in P(s)}
             /\ \A k \in P(s) : Ini!Counts(plain, k, P(s)) => Has(s, k) = plain[k].value
    <2>1. /\ DOMAIN c = {Ini!SectionOf(plain, k, left) : k \in E}
          /\ \A s \in DOMAIN c :
               /\ DOMAIN c[s] = {plain[k].name : k \in P(s)}
               /\ \A k \in P(s) : Ini!Counts(plain, k, P(s)) =>
                    Ini!getStrValue(c, s, plain[k].name, <<>>) = plain[k].value
      BY <1>1, Zenon DEF Ini!Means
    <2>2. \A s : \A k \in P(s) : plain[k].name = lines[k].name
      BY <1>1, <1>4, Zenon
    <2>. HIDE DEF plain, E, S, P
    <2>3. \A s : {plain[k].name : k \in P(s)} = {lines[k].name : k \in P(s)}
      BY <2>2
    <2>4. DOMAIN c = {S(k) : k \in E}
      <3>1. \A k \in E : Ini!SectionOf(plain, k, left) = S(k)
        BY <1>1
      <3>. QED
        BY <2>1, <3>1
    <2>5. \A s \in DOMAIN c : DOMAIN c[s] = {lines[k].name : k \in P(s)}
      BY <2>1, <2>3, Zenon
    <2>6. ASSUME NEW s \in DOMAIN c, NEW k \in P(s), Ini!Counts(plain, k, P(s))
          PROVE  Has(s, k) = plain[k].value
      BY <2>1, <2>2, <2>6
    <2>. QED
      BY <2>4, <2>5, <2>6
  <1>6. Ini!Means(lines, left, c)
          <=> /\ DOMAIN c = {S(k) : k \in E}
              /\ \A s \in DOMAIN c :
                   /\ DOMAIN c[s] = {lines[k].name : k \in V(s)}
                   /\ \A k \in V(s) : Ini!Counts(lines, k, V(s)) => Has(s, k) = lines[k].value
    BY Zenon DEF Ini!Means
  <1>7. Ini!NoSigns(lines, left)
          <=> \A e \in E : e \in V(S(e)) /\ Ini!Counts(lines, e, V(S(e)))
                             => NoSign(lines[e].value)
    <2>1. \A e \in E : NoSign(lines[e].value)
                         <=> \A k \in DOMAIN lines[e].value : lines[e].value[k] # "="
      <3>1. \A e \in E : lines[e].value \in Seq(STRING)
        BY <1>1 DEF RawLines
      <3>2. \A e \in E : DOMAIN lines[e].value = 1 .. Len(lines[e].value)
        BY <3>1, LenProperties
      <3>. QED
        BY <3>2, Zenon DEF NoSign
    <2>. QED
      BY <2>1, Zenon DEF Ini!NoSigns
  <1>. HIDE DEF plain, E, S, V, P
  <1>8. ASSUME Ini!Means(lines, left, c), NEW e \in E, e \in V(S(e)),
               Ini!Counts(lines, e, V(S(e)))
        PROVE  NoSign(lines[e].value)
    <2>. DEFINE s == S(e)
    <2>1. s \in DOMAIN c /\ lines[e].name \in DOMAIN c[s] /\ Has(s, e) = lines[e].value
      BY <1>5, <1>6, <1>8
    <2>2. c[s] \in EntryMaps
      BY <2>1, MapTyped DEF Configs
    <2>3. c[s][lines[e].name] \in Valuable
      BY <2>1, <2>2, MapTyped DEF EntryMaps
    <2>. HIDE DEF s
    <2>4. Has(s, e) = c[s][lines[e].name]
      BY <2>1, Zenon DEF Ini!getStrValue
    <2>5. lines[e].value \in IniTexts
      BY <2>1, <2>3, <2>4 DEF Valuable
    <2>6. \A k \in 1 .. Len(lines[e].value) : lines[e].value[k] \in STRING \ {"="}
      BY <2>5, ElementOfSeq DEF IniTexts
    <2>. QED
      BY <2>6, Zenon DEF NoSign
  <1>9. ASSUME Ini!NoSigns(lines, left) PROVE Ini!Means(lines, left, c)
    <2>1. ASSUME NEW s, NEW k \in V(s), Ini!Counts(lines, k, V(s))
          PROVE  k \in P(s) /\ plain[k] = lines[k] /\ Ini!Counts(plain, k, P(s))
      <3>1. k \in E /\ S(k) = s
        BY <1>2, <2>1
      <3>2. NoSign(lines[k].value)
        BY <1>7, <1>9, <2>1, <3>1
      <3>3. \A j \in P(s) : j \in V(s) /\ plain[j].name = lines[j].name
        BY <1>1, <1>4
      <3>4. plain[k].name = lines[k].name
        BY <1>1, <3>1
      <3>. QED
        BY <1>1, <1>4, <2>1, <3>1, <3>2, <3>3, <3>4 DEF Ini!Counts
    <2>2. ASSUME NEW s \in DOMAIN c
          PROVE  /\ DOMAIN c[s] = {lines[k].name : k \in V(s)}
                 /\ \A k \in V(s) : Ini!Counts(lines, k, V(s)) => Has(s, k) = lines[k].value
      <3>1. ASSUME NEW k \in V(s) PROVE \E e \in P(s) : lines[e].name = lines[k].name
        <4>. DEFINE T == {j \in V(s) : lines[j].name = lines[k].name}
        <4>1. T \in SUBSET (1 .. Len(lines)) /\ T # {} /\ Len(lines) \in Nat
          BY <1>1, <1>4, <3>1
        <4>2. PICK e \in T : \A j \in T : j <= e
          <5>. HIDE DEF T
          <5>. QED
            BY <4>1, LastEntry
        <4>3. e \in V(s) /\ lines[e].name = lines[k].name /\ Ini!Counts(lines, e, V(s))
          BY <4>2 DEF Ini!Counts
        <4>. QED
          BY <2>1, <4>3
      <3>2. {lines[k].name : k \in V(s)} = {lines[k].name : k \in P(s)}
        BY <1>4, <3>1
      <3>3. ASSUME NEW k \in V(s), Ini!Counts(lines, k, V(s))
            PROVE  Has(s, k) = lines[k].value
        BY <1>5, <2>1, <2>2, <3>3
      <3>. QED
        BY <1>5, <2>2, <3>2, <3>3
    <2>. QED
      BY <1>5, <1>6, <2>2
  <1>. QED
    BY <1>7, <1>8, <1>9

\* A file is loaded as what it means if and only if nothing that counts is dropped.
LEMMA LoadedMeans ==
  ASSUME NEW lines \in Seq(RawLines), NEW section \in SortNames
  PROVE  Ini!Means(lines, section, Ini!Loaded(lines, section).cfg)
           <=> Ini!NoSigns(lines, section)
  <1>. DEFINE before == [cfg |-> Ini!Empty, section |-> section]
              plain == KeptLines(lines)
  <1>1. before \in Loading
    BY MapTyped DEF Loading, Configs
  <1>. HIDE DEF before
  <1>2. plain \in Seq(FileLines) /\ Ini!Read(lines, before) = Ini!Read(plain, before)
    BY <1>1, KeptRead
  <1>3. Ini!Loaded(lines, section) = Ini!Loaded(plain, section)
    BY <1>2 DEF Ini!Loaded, before
  <1>. HIDE DEF plain
  <1>4. Ini!Means(plain, section, Ini!Loaded(plain, section).cfg)
    BY <1>2, FileMeans
  <1>5. plain \in Seq(RawLines)
    BY <1>2, PlainLines
  <1>6. Ini!Loaded(plain, section).cfg \in Configs
    BY <1>5, LoadedTyped DEF Loading
  <1>. QED
    BY <1>3, <1>4, <1>6, KeptMeans DEF plain

IniInv ==
  /\ iniFiles \in [Paths -> Seq(RawLines) \union {Ini!NoFile}]
  /\ cfg \in [Instances -> Configs]
  /\ curSection \in SortNames

LEMMA SavedTyped ==
  ASSUME IniFilesTyped, NEW c \in Configs PROVE Ini!Saved(c) \in Seq(FileLines)
  <1>1. PICK written : /\ OrderRun(Seq(FileLines), <<>>, SaveStep(c), written)
                       /\ Ini!Saved(c) = written[Len(Order)]
    BY SavedRuns
  <1>2. Len(Order) \in 0 .. Len(Order)
    BY OrderNames
  <1>. QED
    BY <1>1, <1>2 DEF OrderRun

LEMMA IniInit == IniFilesTyped /\ Ini!Init => IniInv
  <1>. SUFFICES ASSUME IniFilesTyped, Ini!Init PROVE IniInv
    OBVIOUS
  <1>1. curSection \in SortNames
    BY Zenon DEF IniFilesTyped, Ini!Init
  <1>2. Contents \subseteq Seq(RawLines)
    BY Zenon DEF IniFilesTyped
  <1>3. /\ cfg = [i \in Instances |-> Ini!Empty]
        /\ iniFiles \in [Paths -> Contents \union {Ini!NoFile}]
    BY Zenon DEF Ini!Init
  <1>4. Ini!Empty \in Configs
    BY MapTyped DEF Configs
  <1>5. cfg \in [Instances -> Configs]
    BY <1>3, <1>4
  <1>6. iniFiles \in [Paths -> Seq(RawLines) \union {Ini!NoFile}]
    BY <1>2, <1>3
  <1>. QED
    BY <1>1, <1>5, <1>6 DEF IniInv

LEMMA IniStep ==
  ASSUME IniFilesTyped, IniInv, [Ini!Next]_(Ini!vars) PROVE IniInv'
  <1>1. ASSUME NEW i \in Instances, NEW path \in Paths, Ini!load(i, path) PROVE IniInv'
    <2>. DEFINE end == Ini!Loaded(iniFiles[path], curSection)
    <2>1. /\ iniFiles[path] # Ini!NoFile /\ cfg' = [cfg EXCEPT ![i] = end.cfg]
          /\ curSection' = end.section /\ iniFiles' = iniFiles
      BY <1>1 DEF Ini!load
    <2>2. iniFiles[path] \in Seq(RawLines) /\ curSection \in SortNames
      BY <2>1 DEF IniInv
    <2>3. end \in Loading
      BY <2>2, LoadedTyped
    <2>. HIDE DEF end
    <2>4. end.cfg \in Configs /\ end.section \in SortNames
      BY <2>3 DEF Loading
    <2>. QED
      BY <2>1, <2>4 DEF IniInv
  <1>2. ASSUME NEW i \in Instances, NEW path \in Paths, Ini!save(i, path) PROVE IniInv'
    <2>1. /\ iniFiles' = [iniFiles EXCEPT ![path] = Ini!Saved(cfg[i])]
          /\ cfg' = cfg /\ curSection' = curSection
      BY <1>2 DEF Ini!save
    <2>2. Ini!Saved(cfg[i]) \in Seq(RawLines)
      <3>1. cfg[i] \in Configs
        BY DEF IniInv
      <3>. QED
        BY <3>1, SavedTyped, PlainLines
    <2>. QED
      BY <2>1, <2>2 DEF IniInv
  <1>3. CASE UNCHANGED Ini!vars
    BY <1>3 DEF IniInv, Ini!vars
  <1>. QED
    BY <1>1, <1>2, <1>3 DEF Ini!Next

LEMMA LoadMeans ==
  ASSUME IniFilesTyped, IniInv PROVE Ini!LoadsFresh
  <1>. SUFFICES ASSUME NEW i \in Instances, NEW path \in Paths, Ini!load(i, path)
                PROVE  /\ Ini!Means(iniFiles[path], curSection, cfg'[i])
                            <=> Ini!NoSigns(iniFiles[path], curSection)
                       /\ \A j \in Instances :
                            iniFiles[path] = Ini!Saved(cfg[j]) => cfg'[i] = Nonempty(cfg[j])
    BY DEF Ini!LoadsFresh, Nonempty
  <1>1. iniFiles[path] \in Seq(RawLines) /\ curSection \in SortNames
    BY DEF IniInv, Ini!load
  <1>2. cfg'[i] = Ini!Loaded(iniFiles[path], curSection).cfg
    BY DEF IniInv, Ini!load
  <1>3. Ini!Means(iniFiles[path], curSection, cfg'[i])
          <=> Ini!NoSigns(iniFiles[path], curSection)
    BY <1>1, <1>2, LoadedMeans
  <1>4. ASSUME NEW j \in Instances, iniFiles[path] = Ini!Saved(cfg[j])
        PROVE  cfg'[i] = Nonempty(cfg[j])
    <2>1. cfg[j] \in Configs
      BY DEF IniInv
    <2>. QED
      BY <1>1, <1>2, <1>4, <2>1, SavedReads
  <1>. QED
    BY <1>3, <1>4

(***************************************************************************)
(* Whatever any object loaded before, a file is loaded as what it means if *)
(* and only if no value that counts has an "=" in it, and what an object   *)
(* saved is loaded back as itself, but for its empty sections (load,       *)
(* parseLine and save of config.cpp): for any files and any number of      *)
(* objects, lines and characters.                                          *)
(***************************************************************************)
THEOREM LoadTheorem ==
  ASSUME IniFilesTyped PROVE Spec => LoadIsFresh
  <1>1. Ini!Init => IniInv
    BY IniInit
  <1>2. IniInv /\ [Ini!Next]_(Ini!vars) => IniInv'
    BY IniStep
  <1>3. IniInv => Ini!LoadsFresh
    BY LoadMeans
  <1>. QED
    BY <1>1, <1>2, <1>3, SideBySide, PTL DEF Spec, LoadIsFresh

-----------------------------------------------------------------------------
(***************************************************************************)
(* The lexer of the protobuf generator.                                    *)
(***************************************************************************)
WordStates    == {"IDENTIFIER", "ORDER_NUM", "SPECIAL_CHAR"}
CommentStates == {"COMMENT_BEGIN", "COMMENT_STAR", "COMMENT_DOUBLE_SLASH"}

LexStates(S) ==
  [token : {"INIT"} \union WordStates \union CommentStates, value : Seq(S),
   tokens : Seq(Seq(S)), skip : BOOLEAN]

\* Outside a "/" that is to be passed over.
Reading(st, token, value, tokens) ==
  ~st.skip /\ st.token = token /\ st.value = value /\ st.tokens = tokens

\* Before the "/" of a "*/".
Passing(st, value, tokens) ==
  st.skip /\ st.token = "INIT" /\ st.value = value /\ st.tokens = tokens

LEMMA LexTyped ==
  ASSUME NEW S
  PROVE  /\ \A st \in LexStates(S) :
              /\ st.token \in {"INIT"} \union WordStates \union CommentStates
              /\ st.value \in Seq(S) /\ st.tokens \in Seq(Seq(S)) /\ st.skip \in BOOLEAN
         /\ \A token \in {"INIT"} \union WordStates \union CommentStates :
            \A value \in Seq(S), tokens \in Seq(Seq(S)), skip \in BOOLEAN :
              Lexer!State(token, value, tokens, skip) \in LexStates(S)
  BY DEF LexStates, Lexer!State

LEMMA StateRead ==
  ASSUME NEW token, NEW value, NEW tokens
  PROVE  /\ Reading(Lexer!State(token, value, tokens, FALSE), token, value, tokens)
         /\ Passing(Lexer!State("INIT", value, tokens, TRUE), value, tokens)
  BY DEF Reading, Passing, Lexer!State

LEMMA KindTyped ==
  ASSUME NEW text, NEW i
  PROVE  Lexer!Kind(text, i) \in {"INIT", "COMMENT_BEGIN"} \union WordStates
  BY DEF Lexer!Kind, WordStates

LEMMA TokenTyped ==
  ASSUME NEW S, NEW st \in LexStates(S), NEW c \in S,
         NEW kind \in {"INIT", "COMMENT_BEGIN"} \union WordStates
  PROVE  Lexer!getOneToken(st, kind, c) \in LexStates(S)
  <1>. DEFINE value == IF kind \in {"INIT", "COMMENT_BEGIN"} THEN <<>> ELSE <<c>>
              tokens == IF st.value = <<>> THEN st.tokens ELSE Append(st.tokens, st.value)
  <1>1. value \in Seq(S)
    OBVIOUS
  <1>2. tokens \in Seq(Seq(S))
    BY LexTyped, AppendProperties
  <1>3. kind \in {"INIT"} \union WordStates \union CommentStates
    BY DEF CommentStates
  <1>4. Lexer!getOneToken(st, kind, c) = Lexer!State(kind, value, tokens, FALSE)
    BY Zenon DEF Lexer!getOneToken
  <1>. HIDE DEF value, tokens
  <1>. QED
    BY <1>1, <1>2, <1>3, <1>4, LexTyped

LEMMA LineTyped ==
  ASSUME NEW S, NEW text \in Seq(S), NEW i \in 1 .. Len(text), NEW st \in LexStates(S)
  PROVE  Lexer!parseLine(st, text, i) \in LexStates(S)
  <1>. DEFINE kind == Lexer!Kind(text, i)
              value == Append(st.value, text[i])
  <1>1. text[i] \in S
    BY ElementOfSeq
  <1>2. /\ st.token \in {"INIT"} \union WordStates \union CommentStates
        /\ st.value \in Seq(S) /\ st.tokens \in Seq(Seq(S))
    BY LexTyped
  <1>3. value \in Seq(S)
    BY <1>1, <1>2, AppendProperties
  <1>4. Lexer!getOneToken(st, kind, text[i]) \in LexStates(S)
    BY <1>1, KindTyped, TokenTyped
  <1>5. /\ Lexer!State(st.token, value, st.tokens, FALSE) \in LexStates(S)
        /\ \A token \in {"INIT"} \union WordStates \union CommentStates, skip \in BOOLEAN :
             Lexer!State(token, st.value, st.tokens, skip) \in LexStates(S)
    BY <1>2, <1>3, LexTyped
  <1>6. {"INIT", "COMMENT_STAR", "COMMENT_DOUBLE_SLASH"}
          \subseteq {"INIT"} \union WordStates \union CommentStates
    BY DEF CommentStates
  <1>. HIDE DEF value, kind
  <1>7. Lexer!Round(st, text, i) \in LexStates(S)
    <2>1. /\ Lexer!State("INIT", st.value, st.tokens, TRUE) \in LexStates(S)
          /\ Lexer!State("INIT", st.value, st.tokens, FALSE) \in LexStates(S)
          /\ Lexer!State("COMMENT_STAR", st.value, st.tokens, FALSE) \in LexStates(S)
          /\ Lexer!State("COMMENT_DOUBLE_SLASH", st.value, st.tokens, FALSE) \in LexStates(S)
          /\ Lexer!State(st.token, st.value, st.tokens, FALSE) \in LexStates(S)
      BY <1>2, <1>5, <1>6
    <2>. QED
      BY <1>4, <1>5, <2>1, Zenon DEF Lexer!Round, value, kind
  <1>. QED
    BY <1>7, Zenon DEF Lexer!parseLine

\* The characters of a text are read one after the other.
LexRun(S, text, after) ==
  /\ after \in [0 .. Len(text) -> LexStates(S)]
  /\ after[0] = Lexer!Fresh
  /\ \A i \in 1 .. Len(text) : after[i] = Lexer!parseLine(after[i - 1], text, i)

LEMMA LexRuns ==
  ASSUME NEW S, NEW text \in Seq(S)
  PROVE  \E after : LexRun(S, text, after)
                    /\ Lexer!parse2Token(text) = after[Len(text)].tokens
  <1>. DEFINE n == Len(text)
              first == Lexer!Fresh
              Step(f) == [i \in 0 .. n |-> IF i = 0 THEN first
                                           ELSE Lexer!parseLine(f[i - 1], text, i)]
              after == CHOOSE f : f = Step(f)
              step == [x \in (1 .. n) \X LexStates(S) |-> Lexer!parseLine(x[2], text, x[1])]
  <1>1. n \in Nat
    BY LenProperties
  <1>2. first \in LexStates(S)
    BY DEF Lexer!Fresh, LexStates, Lexer!State
  <1>3. step \in [(1 .. n) \X LexStates(S) -> LexStates(S)]
    BY LineTyped
  <1>. HIDE DEF first
  <1>4. PICK f \in [0 .. n -> LexStates(S)] :
          f[0] = first /\ \A i \in 1 .. n : f[i] = step[<<i, f[i - 1]>>]
    <2>1. LoopsRun(LexStates(S), first)
      BY <1>2, LoopRuns
    <2>. HIDE DEF n, step
    <2>. QED
      BY <1>1, <1>3, <2>1 DEF LoopsRun
  <1>5. \A i \in 1 .. n : f[i] = Lexer!parseLine(f[i - 1], text, i)
    <2>1. \A i \in 1 .. n : f[i - 1] \in LexStates(S)
      BY <1>1
    <2>. HIDE DEF n
    <2>. QED
      BY <1>4, <2>1
  <1>6. f = Step(f)
    <2>. HIDE DEF n
    <2>. QED
      BY <1>1, <1>4, <1>5
  <1>7. after = Step(after)
    <2>1. \E g : g = Step(g)
      BY <1>6
    <2>. HIDE DEF Step
    <2>. QED
      BY <2>1
  <1>8. Lexer!parse2Token(text) = after[n].tokens
    BY DEF Lexer!parse2Token, first
  <1>. HIDE DEF after
  <1>9. /\ after[0] = first
        /\ \A i \in 1 .. n : after[i] = Lexer!parseLine(after[i - 1], text, i)
    <2>. HIDE DEF n
    <2>. QED
      BY <1>1, <1>7
  <1>10. \A i \in 0 .. n : after[i] \in LexStates(S)
    <2>. DEFINE Good == {i \in 0 .. n : after[i] \in LexStates(S)}
    <2>1. 0 \in Good /\ Good \in SUBSET (0 .. n)
      <3>1. 0 \in 0 .. n /\ after[0] \in LexStates(S)
        BY <1>1, <1>2, <1>9
      <3>. HIDE DEF n
      <3>. QED
        BY <3>1
    <2>2. ASSUME NEW i \in 1 .. n, i - 1 \in Good PROVE i \in Good
      <3>1. after[i] \in LexStates(S)
        BY <1>9, <2>2, LineTyped
      <3>. QED
        BY <1>1, <3>1
    <2>. HIDE DEF Good, n
    <2>3. \A i \in 0 .. n : i \in Good
      BY <1>1, <2>1, <2>2, LoopKeeps
    <2>. QED
      BY <2>3 DEF Good
  <1>11. after \in [0 .. n -> LexStates(S)]
    <2>1. after = [i \in 0 .. n |-> after[i]]
      <3>1. \E g : after = [i \in 0 .. n |-> g[i]]
        BY <1>7
      <3>. HIDE DEF n
      <3>. QED
        BY <3>1
    <2>. HIDE DEF n
    <2>. QED
      BY <1>10, <2>1
  <1>. HIDE DEF Step
  <1>. QED
    BY <1>8, <1>9, <1>11 DEF LexRun, first

\* What has been read: the words, the last of which may still be in value.
Read(st, words, word) ==
  /\ Reading(st, IF word = <<>> THEN "INIT" ELSE Lexer!Starts(word), word, st.tokens)
  /\ words = IF word = <<>> THEN st.tokens ELSE Append(st.tokens, word)

\* The rounds of the loop, one by one.
LEMMA Rounds ==
  ASSUME NEW text, NEW i, NEW st, text[i] # "eol"
  PROVE  LET next == Lexer!parseLine(st, text, i)
             kind == Lexer!Kind(text, i)
         IN /\ st.skip => Reading(next, st.token, st.value, st.tokens)
            /\ ~st.skip /\ st.token = "COMMENT_BEGIN" =>
                 Reading(next, IF text[i] = "star" THEN "COMMENT_STAR"
                               ELSE "COMMENT_DOUBLE_SLASH", st.value, st.tokens)
            /\ ~st.skip /\ st.token = "COMMENT_STAR" =>
                 IF Lexer!CommentEnds(text, i)
                 THEN Passing(next, st.value, st.tokens)
                 ELSE next = st
            /\ ~st.skip /\ st.token = "COMMENT_DOUBLE_SLASH" =>
                 IF Lexer!LineEnd(text, i) THEN Reading(next, "INIT", st.value, st.tokens)
                 ELSE next = st
            /\ ~st.skip /\ st.token \in {"INIT"} \union WordStates =>
                 IF Lexer!Continues(st.token, kind)
                 THEN Reading(next, st.token, Append(st.value, text[i]), st.tokens)
                 ELSE Reading(next, kind,
                              IF kind \in {"INIT", "COMMENT_BEGIN"} THEN <<>>
                              ELSE <<text[i]>>,
                              IF st.value = <<>> THEN st.tokens
                              ELSE Append(st.tokens, st.value))
  <1>. DEFINE kind == Lexer!Kind(text, i)
              next == Lexer!Round(st, text, i)
  <1>1. Lexer!parseLine(st, text, i) = next
    BY DEF Lexer!parseLine
  <1>2. st.skip => Reading(next, st.token, st.value, st.tokens)
    BY StateRead DEF Lexer!Round
  <1>3. ~st.skip /\ st.token = "COMMENT_BEGIN" =>
          Reading(next, IF text[i] = "star" THEN "COMMENT_STAR"
                        ELSE "COMMENT_DOUBLE_SLASH", st.value, st.tokens)
    BY StateRead DEF Lexer!Round
  <1>4. ~st.skip /\ st.token = "COMMENT_STAR" =>
          IF Lexer!CommentEnds(text, i)
          THEN Passing(next, st.value, st.tokens)
          ELSE next = st
    <2>1. ASSUME ~st.skip, st.token = "COMMENT_STAR"
          PROVE  next = IF Lexer!CommentEnds(text, i)
                        THEN Lexer!State("INIT", st.value, st.tokens, TRUE) ELSE st
      BY <2>1 DEF Lexer!Round
    <2>. HIDE DEF next
    <2>2. CASE Lexer!CommentEnds(text, i)
      BY <2>1, <2>2, StateRead
    <2>3. CASE ~Lexer!CommentEnds(text, i)
      BY <2>1, <2>3
    <2>. QED
      BY <2>2, <2>3
  <1>5. ~st.skip /\ st.token = "COMMENT_DOUBLE_SLASH" =>
          IF Lexer!LineEnd(text, i) THEN Reading(next, "INIT", st.value, st.tokens)
          ELSE next = st
    BY StateRead DEF Lexer!Round
  <1>6. ASSUME ~st.skip, st.token \in {"INIT"} \union WordStates
        PROVE  next = IF Lexer!Continues(st.token, kind)
                      THEN Lexer!State(st.token, Append(st.value, text[i]), st.tokens, FALSE)
                      ELSE Lexer!getOneToken(st, kind, text[i])
    <2>. HIDE DEF kind
    <2>. QED
      BY <1>6 DEF Lexer!Round, WordStates, kind
  <1>. HIDE DEF kind, next
  <1>7. ~st.skip /\ st.token \in {"INIT"} \union WordStates =>
          IF Lexer!Continues(st.token, kind)
          THEN Reading(next, st.token, Append(st.value, text[i]), st.tokens)
          ELSE Reading(next, kind,
                       IF kind \in {"INIT", "COMMENT_BEGIN"} THEN <<>>
                       ELSE <<text[i]>>,
                       IF st.value = <<>> THEN st.tokens
                       ELSE Append(st.tokens, st.value))
    <2>. DEFINE value == IF kind \in {"INIT", "COMMENT_BEGIN"} THEN <<>> ELSE <<text[i]>>
                tokens == IF st.value = <<>> THEN st.tokens ELSE Append(st.tokens, st.value)
    <2>1. Lexer!getOneToken(st, kind, text[i]) = Lexer!State(kind, value, tokens, FALSE)
      BY Zenon DEF Lexer!getOneToken
    <2>. HIDE DEF value, tokens
    <2>2. ASSUME ~st.skip, st.token \in {"INIT"} \union WordStates,
                 Lexer!Continues(st.token, kind)
          PROVE  Reading(next, st.token, Append(st.value, text[i]), st.tokens)
      BY <1>6, <2>2, StateRead
    <2>3. ASSUME ~st.skip, st.token \in {"INIT"} \union WordStates,
                 ~Lexer!Continues(st.token, kind)
          PROVE  Reading(next, kind, value, tokens)
      BY <1>6, <2>1, <2>3, StateRead
    <2>. QED
      BY <2>2, <2>3 DEF value, tokens
  <1>. QED
    BY <1>1, <1>2, <1>3, <1>4, <1>5, <1>7 DEF kind

LEMMA CommentRounds ==
  ASSUME NEW text, NEW i, NEW st, NEW value, NEW tokens, text[i] # "eol"
  PROVE  LET next == Lexer!parseLine(st, text, i)
         IN /\ Passing(st, value, tokens) => Reading(next, "INIT", value, tokens)
            /\ Reading(st, "COMMENT_BEGIN", value, tokens) =>
                 Reading(next, IF text[i] = "star" THEN "COMMENT_STAR"
                               ELSE "COMMENT_DOUBLE_SLASH", value, tokens)
            /\ Reading(st, "COMMENT_STAR", value, tokens) =>
                 IF Lexer!CommentEnds(text, i) THEN Passing(next, value, tokens)
                 ELSE next = st
            /\ Reading(st, "COMMENT_DOUBLE_SLASH", value, tokens) =>
                 IF Lexer!LineEnd(text, i) THEN Reading(next, "INIT", value, tokens)
                 ELSE next = st
  <1>. DEFINE next == Lexer!parseLine(st, text, i)
  <1>1. /\ \A token : Reading(st, token, value, tokens) =>
              ~st.skip /\ st.token = token /\ st.value = value /\ st.tokens = tokens
        /\ Passing(st, value, tokens) =>
              st.skip /\ st.token = "INIT" /\ st.value = value /\ st.tokens = tokens
    BY DEF Reading, Passing
  <1>. HIDE DEF next
  <1>2. Passing(st, value, tokens) => Reading(next, "INIT", value, tokens)
    BY <1>1, Rounds DEF next
  <1>3. ASSUME Reading(st, "COMMENT_BEGIN", value, tokens)
        PROVE  Reading(next, IF text[i] = "star" THEN "COMMENT_STAR"
                             ELSE "COMMENT_DOUBLE_SLASH", value, tokens)
    <2>1. ~st.skip /\ st.token = "COMMENT_BEGIN" /\ st.value = value /\ st.tokens = tokens
      BY <1>1, <1>3
    <2>2. Reading(next, IF text[i] = "star" THEN "COMMENT_STAR"
                        ELSE "COMMENT_DOUBLE_SLASH", st.value, st.tokens)
      BY <2>1, Rounds DEF next
    <2>. QED
      BY <2>1, <2>2
  <1>4. ASSUME Reading(st, "COMMENT_STAR", value, tokens)
        PROVE  IF Lexer!CommentEnds(text, i) THEN Passing(next, value, tokens) ELSE next = st
    <2>1. ~st.skip /\ st.token = "COMMENT_STAR" /\ st.value = value /\ st.tokens = tokens
      BY <1>1, <1>4
    <2>2. IF Lexer!CommentEnds(text, i) THEN Passing(next, st.value, st.tokens)
          ELSE next = st
      BY <2>1, Rounds DEF next
    <2>. QED
      BY <2>1, <2>2
  <1>5. ASSUME Reading(st, "COMMENT_DOUBLE_SLASH", value, tokens)
        PROVE  IF Lexer!LineEnd(text, i) THEN Reading(next, "INIT", value, tokens)
               ELSE next = st
    <2>1. /\ ~st.skip /\ st.token = "COMMENT_DOUBLE_SLASH"
          /\ st.value = value /\ st.tokens = tokens
      BY <1>1, <1>5
    <2>2. IF Lexer!LineEnd(text, i) THEN Reading(next, "INIT", st.value, st.tokens)
          ELSE next = st
      BY <2>1, Rounds DEF next
    <2>. QED
      BY <2>1, <2>2
  <1>. QED
    BY <1>2, <1>3, <1>4, <1>5 DEF next

\* A character that does not continue the word in value ends it.
LEMMA WordEnds ==
  ASSUME NEW text, NEW i, NEW st, NEW words, NEW word, Read(st, words, word),
         text[i] # "eol",
         word # <<>> => ~Lexer!Continues(Lexer!Starts(word), Lexer!Kind(text, i))
  PROVE  LET kind == Lexer!Kind(text, i)
         IN Reading(Lexer!parseLine(st, text, i), kind,
                    IF kind \in {"INIT", "COMMENT_BEGIN"} THEN <<>> ELSE <<text[i]>>, words)
  <1>. DEFINE kind == Lexer!Kind(text, i)
  <1>1. ~st.skip /\ st.token \in {"INIT"} \union WordStates /\ st.value = word
    BY DEF Read, Reading, WordStates, Lexer!Starts
  <1>2. ~Lexer!Continues(st.token, kind)
    <2>1. CASE word = <<>>
      BY <2>1 DEF Read, Reading, Lexer!Continues
    <2>2. CASE word # <<>>
      BY <2>2 DEF Read, Reading
    <2>. QED
      BY <2>1, <2>2
  <1>3. words = IF st.value = <<>> THEN st.tokens ELSE Append(st.tokens, st.value)
    BY <1>1 DEF Read
  <1>. QED
    BY <1>1, <1>2, <1>3, Rounds

LEMMA NothingRead ==
  ASSUME NEW st, NEW words PROVE Read(st, words, <<>>) <=> Reading(st, "INIT", <<>>, words)
  BY DEF Read, Reading

\* The round for the j-th character of a part.
LEMMA RoundAt ==
  ASSUME NEW S, NEW text \in Seq(S), NEW after, LexRun(S, text, after),
         NEW p, NEW t \in Seq(S), Located(text, p, t), NEW j \in 1 .. Len(t)
  PROVE  /\ after[p + j] = Lexer!parseLine(after[p + (j - 1)], text, p + j)
         /\ text[p + j] = t[j]
         /\ j < Len(t) => p + j < Len(text) /\ text[(p + j) + 1] = t[j + 1]
  <1>1. Len(text) \in Nat /\ Len(t) \in Nat /\ p \in Nat /\ p + Len(t) <= Len(text)
    BY LenProperties DEF Located
  <1>2. p + j \in 1 .. Len(text) /\ (p + j) - 1 = p + (j - 1) /\ (p + j) + 1 = p + (j + 1)
    BY <1>1
  <1>3. after[p + j] = Lexer!parseLine(after[(p + j) - 1], text, p + j)
    BY <1>2 DEF LexRun
  <1>4. text[p + j] = t[j] /\ (j < Len(t) => text[p + (j + 1)] = t[j + 1])
    BY <1>1 DEF Located
  <1>. QED
    BY <1>1, <1>2, <1>3, <1>4

LEMMA NewLineRead ==
  ASSUME NEW S, NEW text \in Seq(S), NEW after, LexRun(S, text, after),
         NEW p, NEW t \in Seq(S), Located(text, p, t), t = Lexer!NewLine
  PROVE  after[p + Len(t)] = after[p]
  <1>1. Len(t) = 1 /\ t[1] = "eol" /\ p \in Nat
    BY DEF Lexer!NewLine, Located
  <1>2. after[p + 1] = Lexer!parseLine(after[p + (1 - 1)], text, p + 1) /\ text[p + 1] = t[1]
    <2>1. 1 \in 1 .. Len(t) /\ p + (1 - 1) = p
      BY <1>1
    <2>2. /\ after[p + 1] = Lexer!parseLine(after[p + (1 - 1)], text, p + 1)
          /\ text[p + 1] = t[1]
      BY <2>1, RoundAt
    <2>. QED
      BY <2>1, <2>2
  <1>3. after[p + 1] = after[p + (1 - 1)]
    BY <1>1, <1>2, Zenon DEF Lexer!parseLine
  <1>. QED
    BY <1>1, <1>3

LEMMA BlankRead ==
  ASSUME NEW S, NEW text \in Seq(S), NEW after, LexRun(S, text, after),
         NEW p, NEW t \in Seq(S), Located(text, p, t), t = Lexer!Blank,
         NEW words, NEW word, Read(after[p], words, word)
  PROVE  Read(after[p + Len(t)], words, <<>>)
  <1>1. Len(t) = 1 /\ t[1] = "blank" /\ p \in Nat
    BY DEF Lexer!Blank, Located
  <1>2. after[p + 1] = Lexer!parseLine(after[p], text, p + 1) /\ text[p + 1] = t[1]
    <2>1. 1 \in 1 .. Len(t) /\ p + (1 - 1) = p
      BY <1>1
    <2>2. /\ after[p + 1] = Lexer!parseLine(after[p + (1 - 1)], text, p + 1)
          /\ text[p + 1] = t[1]
      BY <2>1, RoundAt
    <2>. QED
      BY <2>1, <2>2
  <1>3. Lexer!Kind(text, p + 1) = "INIT"
    BY <1>1, <1>2 DEF Lexer!Kind
  <1>4. Reading(after[p + 1], "INIT", <<>>, words)
    BY <1>1, <1>2, <1>3, WordEnds DEF Lexer!Continues
  <1>. QED
    BY <1>1, <1>4, NothingRead

\* The first two characters of a comment.
LEMMA CommentBegins ==
  ASSUME NEW S, NEW text \in Seq(S), NEW after, LexRun(S, text, after),
         NEW p, NEW t \in Seq(S), Located(text, p, t),
         Len(t) > 1, t[1] = "slash", t[2] \in {"star", "slash"},
         NEW words, NEW word, Read(after[p], words, word)
  PROVE  Reading(after[p + 2], IF t[2] = "star" THEN "COMMENT_STAR" ELSE "COMMENT_DOUBLE_SLASH",
                 <<>>, words)
  <1>1. Len(t) \in Nat /\ p \in Nat
    BY LenProperties DEF Located
  <1>2. /\ after[p + 1] = Lexer!parseLine(after[p], text, p + 1) /\ text[p + 1] = t[1]
        /\ p + 1 < Len(text) /\ text[(p + 1) + 1] = t[2]
        /\ after[p + 2] = Lexer!parseLine(after[p + 1], text, p + 2) /\ text[p + 2] = t[2]
    <2>1. 1 \in 1 .. Len(t) /\ 2 \in 1 .. Len(t)
      BY <1>1
    <2>2. /\ after[p + 1] = Lexer!parseLine(after[p + (1 - 1)], text, p + 1)
          /\ text[p + 1] = t[1]
          /\ p + 1 < Len(text) /\ text[(p + 1) + 1] = t[1 + 1]
      BY <2>1, RoundAt
    <2>3. /\ after[p + 2] = Lexer!parseLine(after[p + (2 - 1)], text, p + 2)
          /\ text[p + 2] = t[2]
      BY <2>1, RoundAt
    <2>. QED
      BY <1>1, <2>2, <2>3
  <1>3. Lexer!Kind(text, p + 1) = "COMMENT_BEGIN"
    BY <1>2 DEF Lexer!Kind
  <1>4. Reading(after[p + 1], "COMMENT_BEGIN", <<>>, words)
    BY <1>2, <1>3, WordEnds DEF Lexer!Continues
  <1>5. text[p + 2] # "eol"
    BY <1>2
  <1>6. Reading(after[p + 2], IF text[p + 2] = "star" THEN "COMMENT_STAR"
                              ELSE "COMMENT_DOUBLE_SLASH", <<>>, words)
    <2>1. Reading(Lexer!parseLine(after[p + 1], text, p + 2),
                  IF text[p + 2] = "star" THEN "COMMENT_STAR" ELSE "COMMENT_DOUBLE_SLASH",
                  <<>>, words)
      BY <1>4, <1>5, CommentRounds
    <2>. QED
      BY <1>2, <2>1
  <1>. QED
    BY <1>2, <1>6

LEMMA LineCommentRead ==
  ASSUME NEW S, NEW text \in Seq(S), NEW after, LexRun(S, text, after),
         NEW p, NEW t \in Seq(S), Located(text, p, t), Lexer!IsLineComment(t),
         NEW words, NEW word, Read(after[p], words, word)
  PROVE  Read(after[p + Len(t)], words, <<>>)
  <1>. DEFINE n == Len(t)
              Good == {j \in 0 .. n - 4 :
                         Reading(after[p + (j + 2)], "COMMENT_DOUBLE_SLASH", <<>>, words)}
  <1>1. /\ n \in Nat /\ p \in Nat /\ n > 3
        /\ t[1] = "slash" /\ t[2] = "slash" /\ t[n] = "eol"
        /\ \A j \in 3 .. n - 1 : t[j] # "eol"
    BY LenProperties DEF Located, Lexer!IsLineComment
  <1>2. 0 \in Good /\ Good \in SUBSET (0 .. n - 4) /\ n - 4 \in Nat
    <2>1. Reading(after[p + 2], "COMMENT_DOUBLE_SLASH", <<>>, words)
      <3>1. Len(t) > 1 /\ t[2] \in {"star", "slash"} /\ t[2] # "star"
        BY <1>1
      <3>2. Reading(after[p + 2], IF t[2] = "star" THEN "COMMENT_STAR"
                                  ELSE "COMMENT_DOUBLE_SLASH", <<>>, words)
        BY <1>1, <3>1, CommentBegins
      <3>. QED
        BY <3>1, <3>2
    <2>2. 0 + 2 = 2 /\ n - 4 \in Nat /\ 0 \in 0 .. n - 4
      BY <1>1
    <2>. HIDE DEF n
    <2>. QED
      BY <2>1, <2>2
  <1>3. ASSUME NEW j \in 3 .. n - 1,
               Reading(after[p + (j - 1)], "COMMENT_DOUBLE_SLASH", <<>>, words)
        PROVE  IF j = n - 1 THEN Reading(after[p + j], "INIT", <<>>, words)
               ELSE Reading(after[p + j], "COMMENT_DOUBLE_SLASH", <<>>, words)
    <2>1. /\ after[p + j] = Lexer!parseLine(after[p + (j - 1)], text, p + j)
          /\ text[p + j] # "eol"
          /\ p + j < Len(text) /\ text[(p + j) + 1] = t[j + 1]
      <3>1. j \in 1 .. Len(t) /\ j < Len(t)
        BY <1>1
      <3>2. /\ after[p + j] = Lexer!parseLine(after[p + (j - 1)], text, p + j)
            /\ text[p + j] = t[j]
            /\ p + j < Len(text) /\ text[(p + j) + 1] = t[j + 1]
        BY <3>1, RoundAt
      <3>. QED
        BY <1>1, <3>2
    <2>2. Lexer!LineEnd(text, p + j) <=> j = n - 1
      <3>1. p + j # Len(text)
        BY <1>1, <2>1
      <3>2. t[j + 1] = "eol" <=> j = n - 1
        BY <1>1
      <3>. QED
        BY <2>1, <3>1, <3>2 DEF Lexer!LineEnd
    <2>3. IF Lexer!LineEnd(text, p + j) THEN Reading(after[p + j], "INIT", <<>>, words)
          ELSE after[p + j] = after[p + (j - 1)]
      <3>. DEFINE i == p + j
                  prev == after[p + (j - 1)]
                  next == Lexer!parseLine(prev, text, i)
      <3>1. text[i] # "eol" /\ Reading(prev, "COMMENT_DOUBLE_SLASH", <<>>, words)
        BY <1>3, <2>1
      <3>2. after[i] = next
        BY <2>1
      <3>. HIDE DEF i, prev
      <3>3. IF Lexer!LineEnd(text, i) THEN Reading(next, "INIT", <<>>, words) ELSE next = prev
        BY <3>1, CommentRounds
      <3>. HIDE DEF next
      <3>4. IF Lexer!LineEnd(text, i) THEN Reading(after[i], "INIT", <<>>, words)
            ELSE after[i] = prev
        BY <3>2, <3>3
      <3>. QED
        BY <3>4 DEF i, prev
    <2>. QED
      BY <1>3, <2>2, <2>3
  <1>4. ASSUME NEW j \in 1 .. n - 4, j - 1 \in Good PROVE j \in Good
    <2>1. /\ j + 2 \in 3 .. n - 1 /\ (j - 1) + 2 = (j + 2) - 1 /\ j + 2 # n - 1
          /\ j \in 0 .. n - 4
      BY <1>1
    <2>2. Reading(after[p + ((j + 2) - 1)], "COMMENT_DOUBLE_SLASH", <<>>, words)
      BY <1>4, <2>1
    <2>3. Reading(after[p + (j + 2)], "COMMENT_DOUBLE_SLASH", <<>>, words)
      BY <1>3, <2>1, <2>2
    <2>. HIDE DEF n
    <2>. QED
      BY <2>1, <2>3
  <1>. HIDE DEF Good
  <1>5. n - 4 \in Good
    <2>1. \A j \in 0 .. n - 4 : j \in Good
      BY <1>2, <1>4, LoopKeeps
    <2>. QED
      BY <1>2, <2>1
  <1>6. Reading(after[p + (n - 1)], "INIT", <<>>, words)
    <2>1. Reading(after[p + ((n - 4) + 2)], "COMMENT_DOUBLE_SLASH", <<>>, words)
      BY <1>5 DEF Good
    <2>2. (n - 4) + 2 = (n - 1) - 1 /\ n - 1 \in 3 .. n - 1
      BY <1>1
    <2>. QED
      BY <1>3, <2>1, <2>2
  <1>7. after[p + n] = after[p + (n - 1)]
    <2>1. n \in 1 .. Len(t)
      BY <1>1
    <2>2. after[p + n] = Lexer!parseLine(after[p + (n - 1)], text, p + n) /\ text[p + n] = t[n]
      BY <2>1, RoundAt
    <2>. QED
      BY <1>1, <2>2, Zenon DEF Lexer!parseLine
  <1>. QED
    BY <1>6, <1>7, NothingRead

LEMMA StarCommentRead ==
  ASSUME NEW S, NEW text \in Seq(S), NEW after, LexRun(S, text, after),
         NEW p, NEW t \in Seq(S), Located(text, p, t), Lexer!IsStarComment(t),
         NEW words, NEW word, Read(after[p], words, word)
  PROVE  Read(after[p + Len(t)], words, <<>>)
  <1>. DEFINE n == Len(t)
              Good == {j \in 0 .. n - 4 :
                         Reading(after[p + (j + 2)], "COMMENT_STAR", <<>>, words)}
  <1>1. /\ n \in Nat /\ p \in Nat /\ n > 3
        /\ t[1] = "slash" /\ t[2] = "star" /\ t[n - 1] = "star" /\ t[n] = "slash"
        /\ \A j \in 3 .. n - 2 : ~(t[j] = "star" /\ t[j + 1] = "slash")
    BY LenProperties DEF Located, Lexer!IsStarComment
  <1>2. 0 \in Good /\ Good \in SUBSET (0 .. n - 4) /\ n - 4 \in Nat
    <2>1. Reading(after[p + 2], "COMMENT_STAR", <<>>, words)
      <3>1. Len(t) > 1 /\ t[2] \in {"star", "slash"} /\ t[2] = "star"
        BY <1>1
      <3>2. Reading(after[p + 2], IF t[2] = "star" THEN "COMMENT_STAR"
                                  ELSE "COMMENT_DOUBLE_SLASH", <<>>, words)
        BY <1>1, <3>1, CommentBegins
      <3>. QED
        BY <3>1, <3>2
    <2>2. 0 + 2 = 2 /\ n - 4 \in Nat /\ 0 \in 0 .. n - 4
      BY <1>1
    <2>. HIDE DEF n
    <2>. QED
      BY <2>1, <2>2
  <1>3. ASSUME NEW j \in 3 .. n - 1,
               Reading(after[p + (j - 1)], "COMMENT_STAR", <<>>, words)
        PROVE  IF j = n - 1 THEN Passing(after[p + j], <<>>, words)
               ELSE Reading(after[p + j], "COMMENT_STAR", <<>>, words)
    <2>. DEFINE i == p + j
                prev == after[p + (j - 1)]
                next == Lexer!parseLine(prev, text, i)
    <2>1. after[i] = next /\ text[i] = t[j] /\ i < Len(text) /\ text[i + 1] = t[j + 1]
      <3>1. j \in 1 .. Len(t) /\ j < Len(t)
        BY <1>1
      <3>2. /\ after[p + j] = Lexer!parseLine(after[p + (j - 1)], text, p + j)
            /\ text[p + j] = t[j]
            /\ p + j < Len(text) /\ text[(p + j) + 1] = t[j + 1]
        BY <3>1, RoundAt
      <3>. QED
        BY <3>2
    <2>2. Lexer!CommentEnds(text, i) <=> j = n - 1
      <3>1. t[j] = "star" /\ t[j + 1] = "slash" <=> j = n - 1
        BY <1>1
      <3>. HIDE DEF i, n
      <3>. QED
        BY <2>1, <3>1 DEF Lexer!CommentEnds
    <2>3. Reading(prev, "COMMENT_STAR", <<>>, words)
      BY <1>3
    <2>. HIDE DEF i, prev, n
    <2>4. CASE text[i] = "eol"
      <3>1. next = prev
        BY <2>4, Zenon DEF Lexer!parseLine
      <3>2. ~Lexer!CommentEnds(text, i)
        BY <2>4 DEF Lexer!CommentEnds
      <3>. HIDE DEF next
      <3>. QED
        BY <2>1, <2>2, <2>3, <3>1, <3>2 DEF i
    <2>5. CASE text[i] # "eol"
      <3>1. IF Lexer!CommentEnds(text, i) THEN Passing(next, <<>>, words) ELSE next = prev
        BY <2>3, <2>5, CommentRounds
      <3>. HIDE DEF next
      <3>2. CASE j = n - 1
        BY <2>1, <2>2, <3>1, <3>2 DEF i
      <3>3. CASE j # n - 1
        BY <2>1, <2>2, <2>3, <3>1, <3>3 DEF i
      <3>. QED
        BY <3>2, <3>3
    <2>. QED
      BY <2>4, <2>5
  <1>4. ASSUME NEW j \in 1 .. n - 4, j - 1 \in Good PROVE j \in Good
    <2>1. /\ j + 2 \in 3 .. n - 1 /\ (j - 1) + 2 = (j + 2) - 1 /\ j + 2 # n - 1
          /\ j \in 0 .. n - 4
      BY <1>1
    <2>2. Reading(after[p + ((j + 2) - 1)], "COMMENT_STAR", <<>>, words)
      BY <1>4, <2>1
    <2>3. Reading(after[p + (j + 2)], "COMMENT_STAR", <<>>, words)
      BY <1>3, <2>1, <2>2
    <2>. HIDE DEF n
    <2>. QED
      BY <2>1, <2>3
  <1>. HIDE DEF Good
  <1>5. n - 4 \in Good
    <2>1. \A j \in 0 .. n - 4 : j \in Good
      BY <1>2, <1>4, LoopKeeps
    <2>. QED
      BY <1>2, <2>1
  <1>6. Passing(after[p + (n - 1)], <<>>, words)
    <2>1. Reading(after[p + ((n - 4) + 2)], "COMMENT_STAR", <<>>, words)
      BY <1>5 DEF Good
    <2>2. (n - 4) + 2 = (n - 1) - 1 /\ n - 1 \in 3 .. n - 1
      BY <1>1
    <2>. QED
      BY <1>3, <2>1, <2>2
  <1>7. Reading(after[p + n], "INIT", <<>>, words)
    <2>. DEFINE i == p + n
                prev == after[p + (n - 1)]
                next == Lexer!parseLine(prev, text, i)
    <2>1. n \in 1 .. Len(t)
      BY <1>1
    <2>2. after[i] = next /\ text[i] # "eol" /\ Passing(prev, <<>>, words)
      <3>1. after[p + n] = Lexer!parseLine(after[p + (n - 1)], text, p + n) /\ text[p + n] = t[n]
        BY <2>1, RoundAt
      <3>. QED
        BY <1>1, <1>6, <3>1
    <2>. HIDE DEF i, prev
    <2>3. Reading(next, "INIT", <<>>, words)
      BY <2>2, CommentRounds
    <2>. HIDE DEF next
    <2>. QED
      BY <2>2, <2>3 DEF i
  <1>. QED
    BY <1>7, NothingRead

\* The characters of a word, as the lexer takes them.
LEMMA WordKinds ==
  ASSUME NEW S, NEW text \in Seq(S), NEW p, NEW t \in Seq(S), Located(text, p, t),
         Lexer!IsWord(t)
  PROVE  /\ 1 \in 1 .. Len(t) /\ Lexer!Starts(t) \in WordStates
         /\ \A j \in 1 .. Len(t) : t[j] # "eol"
         /\ Lexer!Kind(text, p + 1) = Lexer!Starts(t)
         /\ \A j \in 2 .. Len(t) :
              Lexer!Continues(Lexer!Starts(t), Lexer!Kind(text, p + j))
  <1>1. /\ Len(t) \in Nat /\ Len(t) > 0 /\ p \in Nat /\ p + Len(t) <= Len(text)
        /\ Len(text) \in Nat
        /\ \A j \in 1 .. Len(t) : text[p + j] = t[j]
    <2>1. Len(t) # 0
      BY EmptySeq DEF Lexer!IsWord
    <2>. QED
      BY <2>1, LenProperties DEF Located
  <1>2. 1 \in 1 .. Len(t) /\ text[p + 1] = t[1]
    <2>1. 1 \in 1 .. Len(t)
      BY <1>1
    <2>. QED
      BY <1>1, <2>1
  <1>3. Lexer!Starts(t) \in WordStates
    BY DEF Lexer!Starts, WordStates
  <1>4. CASE t = <<"special">>
    <2>1. Len(t) = 1 /\ t[1] = "special"
      BY <1>4
    <2>2. \A j \in 1 .. Len(t) : t[j] # "eol"
      BY <2>1
    <2>3. Lexer!Kind(text, p + 1) = Lexer!Starts(t)
      BY <1>2, <2>1 DEF Lexer!Kind, Lexer!Starts
    <2>. QED
      BY <1>2, <1>3, <2>1, <2>2, <2>3
  <1>5. CASE Lexer!IsNumber(t)
    <2>1. \A j \in 1 .. Len(t) : t[j] = "digit"
      BY <1>5 DEF Lexer!IsNumber
    <2>2. Lexer!Starts(t) = "ORDER_NUM"
      BY <1>2, <2>1 DEF Lexer!Starts
    <2>3. \A j \in 1 .. Len(t) : Lexer!Kind(text, p + j) = "ORDER_NUM"
      BY <1>1, <2>1 DEF Lexer!Kind
    <2>4. \A j \in 2 .. Len(t) : j \in 1 .. Len(t)
      BY <1>1
    <2>. QED
      BY <1>2, <1>3, <2>1, <2>2, <2>3, <2>4 DEF Lexer!Continues
  <1>6. CASE Lexer!IsName(t)
    <2>1. /\ t[1] = "letter" \/ (t[1] = "slash" /\ Len(t) > 1)
          /\ \A j \in 2 .. Len(t) : t[j] \in {"letter", "digit"} /\ text[p + j] = t[j]
      <3>1. \A j \in 2 .. Len(t) : j \in 1 .. Len(t)
        BY <1>1
      <3>. QED
        BY <1>1, <1>6, <3>1 DEF Lexer!IsName
    <2>2. Lexer!Starts(t) = "IDENTIFIER"
      BY <2>1 DEF Lexer!Starts
    <2>3. Lexer!Kind(text, p + 1) = "IDENTIFIER"
      <3>1. CASE t[1] = "letter"
        BY <1>2, <3>1 DEF Lexer!Kind
      <3>2. CASE t[1] = "slash" /\ Len(t) > 1
        <4>1. text[(p + 1) + 1] \in {"letter", "digit"}
          <5>1. 2 \in 2 .. Len(t) /\ (p + 1) + 1 = p + 2
            BY <1>1, <3>2
          <5>. QED
            BY <2>1, <5>1
        <4>. QED
          BY <1>2, <3>2, <4>1 DEF Lexer!Kind
      <3>. QED
        BY <2>1, <3>1, <3>2
    <2>4. \A j \in 2 .. Len(t) : Lexer!Kind(text, p + j) \in {"IDENTIFIER", "ORDER_NUM"}
      BY <2>1 DEF Lexer!Kind
    <2>5. \A j \in 1 .. Len(t) : t[j] # "eol"
      <3>1. \A j \in 1 .. Len(t) : j = 1 \/ j \in 2 .. Len(t)
        BY <1>1
      <3>. QED
        BY <2>1, <3>1
    <2>. QED
      BY <1>2, <1>3, <2>2, <2>3, <2>4, <2>5 DEF Lexer!Continues
  <1>. QED
    BY <1>4, <1>5, <1>6 DEF Lexer!IsWord

\* A character that continues the word in value is added to it.
LEMMA WordGrows ==
  ASSUME NEW text, NEW i, NEW st, NEW token \in WordStates, NEW value, NEW tokens,
         Reading(st, token, value, tokens), text[i] # "eol",
         Lexer!Continues(token, Lexer!Kind(text, i))
  PROVE  Reading(Lexer!parseLine(st, text, i), token, Append(value, text[i]), tokens)
  <1>1. ~st.skip /\ st.token = token /\ st.value = value /\ st.tokens = tokens
    BY DEF Reading
  <1>2. Reading(Lexer!parseLine(st, text, i), st.token, Append(st.value, text[i]), st.tokens)
    BY <1>1, Rounds
  <1>. QED
    BY <1>1, <1>2

LEMMA WordRead ==
  ASSUME NEW S, NEW text \in Seq(S), NEW after, LexRun(S, text, after),
         NEW p, NEW t \in Seq(S), Located(text, p, t), Lexer!IsWord(t),
         NEW words, NEW word, Read(after[p], words, word),
         word # <<>> => ~Lexer!Continues(Lexer!Starts(word), Lexer!Starts(t))
  PROVE  Read(after[p + Len(t)], Append(words, t), t)
  <1>. DEFINE n == Len(t) - 1
              token == Lexer!Starts(t)
              Good == {j \in 0 .. n :
                         Reading(after[p + (j + 1)], token, SubSeq(t, 1, j + 1), words)}
  <1>1. /\ Len(t) \in Nat /\ Len(t) > 0 /\ p \in Nat /\ n \in Nat
        /\ token \in WordStates
        /\ \A j \in 1 .. Len(t) : t[j] # "eol"
        /\ Lexer!Kind(text, p + 1) = token
        /\ \A j \in 2 .. Len(t) : Lexer!Continues(token, Lexer!Kind(text, p + j))
    <2>1. 1 \in 1 .. Len(t)
      BY WordKinds
    <2>2. /\ token \in WordStates
          /\ \A j \in 1 .. Len(t) : t[j] # "eol"
          /\ Lexer!Kind(text, p + 1) = token
          /\ \A j \in 2 .. Len(t) : Lexer!Continues(token, Lexer!Kind(text, p + j))
      BY WordKinds
    <2>. QED
      BY <2>1, <2>2, LenProperties DEF Located
  <1>. HIDE DEF token
  <1>2. Reading(after[p + 1], token, SubSeq(t, 1, 1), words)
    <2>. DEFINE i == p + 1
                next == Lexer!parseLine(after[p], text, i)
    <2>1. after[i] = next /\ text[i] = t[1] /\ t[1] # "eol"
      <3>1. 1 \in 1 .. Len(t) /\ p + (1 - 1) = p
        BY <1>1
      <3>2. after[p + 1] = Lexer!parseLine(after[p + (1 - 1)], text, p + 1) /\ text[p + 1] = t[1]
        BY <3>1, RoundAt
      <3>. QED
        BY <1>1, <3>1, <3>2
    <2>2. Lexer!Kind(text, i) = token /\ token \notin {"INIT", "COMMENT_BEGIN"}
      BY <1>1 DEF WordStates
    <2>. HIDE DEF i
    <2>3. Reading(next, token, <<t[1]>>, words)
      <3>1. word # <<>> => ~Lexer!Continues(Lexer!Starts(word), Lexer!Kind(text, i))
        BY <2>2 DEF token
      <3>2. Reading(next, Lexer!Kind(text, i),
                    IF Lexer!Kind(text, i) \in {"INIT", "COMMENT_BEGIN"} THEN <<>>
                    ELSE <<text[i]>>, words)
        BY <2>1, <3>1, WordEnds
      <3>. HIDE DEF next
      <3>. QED
        BY <2>1, <2>2, <3>2
    <2>. HIDE DEF next
    <2>4. SubSeq(t, 1, 1) = <<t[1]>>
      <3>1. 1 \in 1 .. Len(t) /\ 1 - 1 = 0
        BY <1>1
      <3>2. SubSeq(t, 1, 1) = SubSeq(t, 1, 1 - 1) \o <<t[1]>> /\ <<t[1]>> \in Seq(S)
        BY <3>1, SubSeqRecursiveSecond, ElementOfSeq
      <3>3. SubSeq(t, 1, 1 - 1) = <<>>
        BY <3>1, SubSeqEmpty
      <3>. QED
        BY <3>2, <3>3, ConcatEmptySeq
    <2>. QED
      BY <2>1, <2>3, <2>4 DEF i
  <1>3. ASSUME NEW j \in 2 .. Len(t),
               Reading(after[p + (j - 1)], token, SubSeq(t, 1, j - 1), words)
        PROVE  Reading(after[p + j], token, SubSeq(t, 1, j), words)
    <2>. DEFINE i == p + j
                prev == after[p + (j - 1)]
                next == Lexer!parseLine(prev, text, i)
    <2>1. j \in 1 .. Len(t)
      BY <1>1
    <2>2. after[i] = next /\ text[i] = t[j] /\ t[j] # "eol"
      BY <1>1, <2>1, RoundAt
    <2>3. Lexer!Continues(token, Lexer!Kind(text, i)) /\ token \in WordStates
      BY <1>1
    <2>4. SubSeq(t, 1, j) = Append(SubSeq(t, 1, j - 1), t[j])
      BY <2>1, BeginningGrows
    <2>5. Reading(prev, token, SubSeq(t, 1, j - 1), words)
      BY <1>3
    <2>. HIDE DEF i, prev
    <2>6. Reading(next, token, Append(SubSeq(t, 1, j - 1), text[i]), words)
      BY <2>2, <2>3, <2>5, WordGrows
    <2>. HIDE DEF next
    <2>7. Reading(after[i], token, SubSeq(t, 1, j), words)
      BY <2>2, <2>4, <2>6
    <2>. QED
      BY <2>7 DEF i
  <1>4. 0 \in Good /\ Good \in SUBSET (0 .. n)
    <2>1. 0 + 1 = 1 /\ 0 \in 0 .. n
      BY <1>1
    <2>. HIDE DEF n
    <2>. QED
      BY <1>2, <2>1
  <1>5. ASSUME NEW j \in 1 .. n, j - 1 \in Good PROVE j \in Good
    <2>1. j + 1 \in 2 .. Len(t) /\ (j - 1) + 1 = (j + 1) - 1 /\ j \in 0 .. n
      BY <1>1
    <2>2. Reading(after[p + ((j + 1) - 1)], token, SubSeq(t, 1, (j + 1) - 1), words)
      BY <1>5, <2>1
    <2>3. Reading(after[p + (j + 1)], token, SubSeq(t, 1, j + 1), words)
      BY <1>3, <2>1, <2>2
    <2>. HIDE DEF n
    <2>. QED
      BY <2>1, <2>3
  <1>. HIDE DEF Good
  <1>6. n \in Good
    <2>1. \A j \in 0 .. n : j \in Good
      <3>. HIDE DEF n
      <3>. QED
        BY <1>1, <1>4, <1>5, LoopKeeps
    <2>. QED
      BY <1>1, <2>1
  <1>7. Reading(after[p + Len(t)], token, t, words)
    <2>1. Reading(after[p + (n + 1)], token, SubSeq(t, 1, n + 1), words)
      BY <1>6 DEF Good
    <2>2. n + 1 = Len(t) /\ SubSeq(t, 1, Len(t)) = t
      BY <1>1, SubSeqFull
    <2>. QED
      BY <2>1, <2>2
  <1>8. t # <<>>
    BY DEF Lexer!IsWord
  <1>. QED
    BY <1>7, <1>8 DEF Read, Reading, token

Sources(S) == [text : Seq(S), words : Seq(Seq(S))]

\* The parts are joined one after the other.
SourceRun(S, parts, upTo) ==
  /\ upTo \in [0 .. Len(parts) -> Sources(S)]
  /\ upTo[0] = Lexer!NoParts
  /\ \A n \in 1 .. Len(parts) : upTo[n] = Lexer!Joined(upTo[n - 1], parts[n])

LEMMA JoinedTyped ==
  ASSUME NEW S, NEW part \in Seq(S), NEW source \in Sources(S)
  PROVE  Lexer!Joined(source, part) \in Sources(S)
  <1>1. source.text \o part \in Seq(S) /\ Append(source.words, part) \in Seq(Seq(S))
        /\ source.words \in Seq(Seq(S))
    BY ConcatProperties, AppendProperties DEF Sources
  <1>. DEFINE words == IF Lexer!IsWord(part) THEN Append(source.words, part)
                       ELSE source.words
  <1>2. words \in Seq(Seq(S))
    BY <1>1
  <1>3. Lexer!Joined(source, part) = [text |-> source.text \o part, words |-> words]
    BY Zenon DEF Lexer!Joined
  <1>. HIDE DEF words
  <1>. QED
    BY <1>1, <1>2, <1>3 DEF Sources

LEMMA SourceRuns ==
  ASSUME NEW S, NEW parts \in Seq(Seq(S))
  PROVE  \E upTo : SourceRun(S, parts, upTo) /\ Lexer!Source(parts) = upTo[Len(parts)]
  <1>. DEFINE n == Len(parts)
              first == Lexer!NoParts
              Step(f) == [i \in 0 .. n |-> IF i = 0 THEN first
                                           ELSE Lexer!Joined(f[i - 1], parts[i])]
              upTo == CHOOSE f : f = Step(f)
              step == [x \in (1 .. n) \X Sources(S) |-> Lexer!Joined(x[2], parts[x[1]])]
  <1>1. n \in Nat
    BY LenProperties
  <1>1a. \A i \in 1 .. n : parts[i] \in Seq(S)
    BY ElementOfSeq
  <1>2. first \in Sources(S)
    BY DEF Lexer!NoParts, Sources
  <1>3. step \in [(1 .. n) \X Sources(S) -> Sources(S)]
    BY <1>1a, JoinedTyped
  <1>. HIDE DEF first
  <1>4. PICK f \in [0 .. n -> Sources(S)] :
          f[0] = first /\ \A i \in 1 .. n : f[i] = step[<<i, f[i - 1]>>]
    <2>1. LoopsRun(Sources(S), first)
      BY <1>2, LoopRuns
    <2>. HIDE DEF n, step
    <2>. QED
      BY <1>1, <1>3, <2>1 DEF LoopsRun
  <1>5. \A i \in 1 .. n : f[i] = Lexer!Joined(f[i - 1], parts[i])
    <2>1. \A i \in 1 .. n : i - 1 \in 0 .. n
      BY <1>1
    <2>. HIDE DEF n
    <2>2. \A i \in 1 .. n : f[i - 1] \in Sources(S)
      BY <2>1
    <2>. QED
      BY <1>4, <2>2
  <1>6. f = Step(f)
    <2>. HIDE DEF n
    <2>. QED
      BY <1>1, <1>4, <1>5
  <1>7. upTo = Step(upTo)
    <2>1. \E g : g = Step(g)
      BY <1>6
    <2>. HIDE DEF Step
    <2>. QED
      BY <2>1
  <1>8. Lexer!Source(parts) = upTo[n]
    BY DEF Lexer!Source, first
  <1>. HIDE DEF upTo
  <1>9. /\ upTo[0] = first
        /\ \A i \in 1 .. n : upTo[i] = Lexer!Joined(upTo[i - 1], parts[i])
    <2>. HIDE DEF n
    <2>. QED
      BY <1>1, <1>7
  <1>10. \A i \in 0 .. n : upTo[i] \in Sources(S)
    <2>. DEFINE Good == {i \in 0 .. n : upTo[i] \in Sources(S)}
    <2>1. 0 \in Good /\ Good \in SUBSET (0 .. n)
      <3>1. 0 \in 0 .. n /\ upTo[0] \in Sources(S)
        BY <1>1, <1>2, <1>9
      <3>. HIDE DEF n
      <3>. QED
        BY <3>1
    <2>2. ASSUME NEW i \in 1 .. n, i - 1 \in Good PROVE i \in Good
      <3>1. upTo[i] \in Sources(S)
        BY <1>1a, <1>9, <2>2, JoinedTyped
      <3>. QED
        BY <1>1, <3>1
    <2>. HIDE DEF Good, n
    <2>3. \A i \in 0 .. n : i \in Good
      BY <1>1, <2>1, <2>2, LoopKeeps
    <2>. QED
      BY <2>3 DEF Good
  <1>11. upTo \in [0 .. n -> Sources(S)]
    <2>1. upTo = [i \in 0 .. n |-> upTo[i]]
      <3>1. \E g : upTo = [i \in 0 .. n |-> g[i]]
        BY <1>7
      <3>. HIDE DEF n
      <3>. QED
        BY <3>1
    <2>. HIDE DEF n
    <2>. QED
      BY <1>10, <2>1
  <1>. HIDE DEF Step
  <1>. QED
    BY <1>8, <1>9, <1>11 DEF SourceRun, first

LEMMA JoinedBegins ==
  ASSUME NEW S, NEW source \in Sources(S), NEW part \in Seq(S)
  PROVE  LET joined == Lexer!Joined(source, part)
         IN /\ Begins(source.text, joined.text)
            /\ Len(joined.text) = Len(source.text) + Len(part)
            /\ Located(joined.text, Len(source.text), part)
            /\ joined.words = IF Lexer!IsWord(part) THEN Append(source.words, part)
                              ELSE source.words
  <1>. DEFINE s == source.text
              words == IF Lexer!IsWord(part) THEN Append(source.words, part)
                       ELSE source.words
  <1>1. s \in Seq(S) /\ Len(s) \in Nat /\ Len(part) \in Nat
    BY LenProperties DEF Sources
  <1>2. Lexer!Joined(source, part) = [text |-> s \o part, words |-> words]
    BY Zenon DEF Lexer!Joined
  <1>. HIDE DEF s, words
  <1>3. Lexer!Joined(source, part).text = s \o part /\ Lexer!Joined(source, part).words = words
    BY <1>2
  <1>4. /\ Len(s \o part) = Len(s) + Len(part)
        /\ \A j \in 1 .. Len(s) : (s \o part)[j] = s[j]
        /\ \A j \in 1 .. Len(part) : (s \o part)[Len(s) + j] = part[j]
    <2>1. \A j \in 1 .. Len(s) + Len(part) :
            (s \o part)[j] = IF j <= Len(s) THEN s[j] ELSE part[j - Len(s)]
      BY <1>1, ConcatProperties
    <2>2. \A j \in 1 .. Len(s) : j \in 1 .. Len(s) + Len(part) /\ j <= Len(s)
      BY <1>1
    <2>3. \A j \in 1 .. Len(part) : /\ Len(s) + j \in 1 .. Len(s) + Len(part)
                                    /\ ~(Len(s) + j <= Len(s)) /\ (Len(s) + j) - Len(s) = j
      BY <1>1
    <2>4. Len(s \o part) = Len(s) + Len(part)
      BY <1>1, ConcatProperties
    <2>5. \A j \in 1 .. Len(s) : (s \o part)[j] = s[j]
      BY <2>1, <2>2
    <2>6. \A j \in 1 .. Len(part) : (s \o part)[Len(s) + j] = part[j]
      BY <2>1, <2>3
    <2>. QED
      BY <2>4, <2>5, <2>6
  <1>5. Begins(s, s \o part) /\ Located(s \o part, Len(s), part)
    BY <1>1, <1>4 DEF Begins, Located
  <1>. QED
    BY <1>3, <1>4, <1>5 DEF s, words

\* Each part stands in the text where it was joined to it.
LEMMA PartsLocated ==
  ASSUME NEW S, NEW parts \in Seq(Seq(S)), NEW upTo, SourceRun(S, parts, upTo),
         NEW n \in 1 .. Len(parts)
  PROVE  Located(upTo[Len(parts)].text, Len(upTo[n - 1].text), parts[n])
  <1>. DEFINE N == Len(parts)
              Good == {m \in 0 .. N : \A k \in 0 .. m : Begins(upTo[k].text, upTo[m].text)}
  <1>1. N \in Nat /\ n \in 1 .. N /\ n - 1 \in 0 .. N /\ n \in 0 .. N
    BY LenProperties
  <1>2. /\ \A m \in 0 .. N : upTo[m] \in Sources(S)
        /\ \A m \in 0 .. N : upTo[m].text \in Seq(S) /\ Len(upTo[m].text) \in Nat
    <2>1. \A m \in 0 .. N : upTo[m] \in Sources(S)
      BY DEF SourceRun
    <2>2. \A m \in 0 .. N : upTo[m].text \in Seq(S)
      BY <2>1 DEF Sources
    <2>. QED
      BY <2>1, <2>2, LenProperties
  <1>3. ASSUME NEW m \in 1 .. N
        PROVE  /\ Begins(upTo[m - 1].text, upTo[m].text)
               /\ Located(upTo[m].text, Len(upTo[m - 1].text), parts[m])
    <2>1. /\ upTo[m] = Lexer!Joined(upTo[m - 1], parts[m])
          /\ upTo[m - 1] \in Sources(S) /\ parts[m] \in Seq(S)
      BY <1>1, <1>2, ElementOfSeq DEF SourceRun
    <2>. HIDE DEF N
    <2>. QED
      BY <2>1, JoinedBegins
  <1>4. 0 \in Good /\ Good \in SUBSET (0 .. N)
    <2>1. Begins(upTo[0].text, upTo[0].text) /\ 0 \in 0 .. N
      BY <1>1, <1>2 DEF Begins
    <2>. HIDE DEF N
    <2>. QED
      BY <2>1
  <1>5. ASSUME NEW m \in 1 .. N, m - 1 \in Good PROVE m \in Good
    <2>1. m \in 0 .. N /\ m - 1 \in 0 .. N
      BY <1>1
    <2>2. ASSUME NEW k \in 0 .. m PROVE Begins(upTo[k].text, upTo[m].text)
      <3>1. CASE k = m
        BY <1>2, <2>1, <3>1 DEF Begins
      <3>2. CASE k # m
        <4>1. k \in 0 .. m - 1 /\ k \in 0 .. N
          BY <2>1, <3>2
        <4>2. Begins(upTo[k].text, upTo[m - 1].text) /\ Begins(upTo[m - 1].text, upTo[m].text)
          BY <1>3, <1>5, <4>1
        <4>3. /\ Len(upTo[k].text) \in Nat /\ Len(upTo[m - 1].text) \in Nat
              /\ Len(upTo[m].text) \in Nat
          BY <1>2, <2>1, <4>1
        <4>. QED
          BY <4>2, <4>3, BeginsLater
      <3>. QED
        BY <3>1, <3>2
    <2>. HIDE DEF N
    <2>. QED
      BY <2>1, <2>2
  <1>. HIDE DEF Good
  <1>6. N \in Good
    <2>1. \A m \in 0 .. N : m \in Good
      <3>. HIDE DEF N
      <3>. QED
        BY <1>1, <1>4, <1>5, LoopKeeps
    <2>. QED
      BY <1>1, <2>1
  <1>7. Begins(upTo[n].text, upTo[N].text)
    BY <1>1, <1>6 DEF Good
  <1>8. Located(upTo[n].text, Len(upTo[n - 1].text), parts[n])
    BY <1>1, <1>3
  <1>9. Len(upTo[n].text) \in Nat /\ Len(upTo[N].text) \in Nat /\ Len(parts[n]) \in Nat
    <2>1. parts[n] \in Seq(S)
      BY ElementOfSeq
    <2>. QED
      BY <1>1, <1>2, <2>1, LenProperties
  <1>. QED
    BY <1>7, <1>8, <1>9, LocatedLater

LEMMA LayoutIsNoWord ==
  ASSUME NEW S, NEW g \in Seq(S), Lexer!IsLayout(g)
  PROVE  /\ ~Lexer!IsWord(g)
         /\ g = Lexer!NewLine \/ g = Lexer!Blank \/ Lexer!IsLineComment(g) \/ Lexer!IsStarComment(g)
         /\ g # Lexer!NewLine =>
              g = Lexer!Blank \/ Lexer!IsLineComment(g) \/ Lexer!IsStarComment(g)
  <1>1. Len(g) \in Nat
    BY LenProperties
  <1>2. CASE g = Lexer!NewLine \/ g = Lexer!Blank
    <2>1. Len(g) = 1 /\ g[1] \in {"eol", "blank"}
      BY <1>2 DEF Lexer!NewLine, Lexer!Blank
    <2>2. g # <<"special">> /\ 1 \in 1 .. Len(g)
      BY <2>1
    <2>. QED
      BY <1>2, <2>1, <2>2 DEF Lexer!IsWord, Lexer!IsNumber, Lexer!IsName
  <1>3. CASE Lexer!IsLineComment(g) \/ Lexer!IsStarComment(g)
    <2>1. Len(g) > 3 /\ g[1] = "slash" /\ g[2] \in {"slash", "star"}
      BY <1>3 DEF Lexer!IsLineComment, Lexer!IsStarComment
    <2>2. 1 \in 1 .. Len(g) /\ 2 \in 2 .. Len(g)
      BY <1>1, <2>1
    <2>3. Len(<<"special">>) = 1 /\ Len(g) # 1
      BY <1>1, <2>1
    <2>. QED
      BY <1>3, <2>1, <2>2, <2>3 DEF Lexer!IsWord, Lexer!IsNumber, Lexer!IsName
  <1>. QED
    BY <1>2, <1>3 DEF Lexer!IsLayout

\* Layout ends the word in value, unless it is a line end.
LEMMA LayoutRead ==
  ASSUME NEW S, NEW text \in Seq(S), NEW after, LexRun(S, text, after),
         NEW p, NEW t \in Seq(S), Located(text, p, t), Lexer!IsLayout(t),
         NEW words, NEW word, Read(after[p], words, word)
  PROVE  Read(after[p + Len(t)], words, IF t = Lexer!NewLine THEN word ELSE <<>>)
  <1>1. CASE t = Lexer!NewLine
    <2>1. after[p + Len(t)] = after[p]
      BY <1>1, NewLineRead
    <2>. QED
      BY <1>1, <2>1
  <1>2. CASE t # Lexer!NewLine
    <2>1. t = Lexer!Blank \/ Lexer!IsLineComment(t) \/ Lexer!IsStarComment(t)
      BY <1>2, LayoutIsNoWord
    <2>2. Read(after[p + Len(t)], words, <<>>)
      BY <2>1, BlankRead, LineCommentRead, StarCommentRead
    <2>. QED
      BY <1>2, <2>2
  <1>. QED
    BY <1>1, <1>2

\* The word in value after n parts: the one only line ends stand behind.
Pending(parts, n, word) ==
  \/ word = <<>> /\ \A i \in 1 .. n : ~Lexer!Bare(parts, i, n)
  \/ \E i \in 1 .. n : Lexer!Bare(parts, i, n) /\ word = parts[i]

LEMMA PendingNext ==
  ASSUME NEW S, NEW parts \in Seq(Seq(S)), NEW n \in 1 .. Len(parts), NEW word,
         Pending(parts, n - 1, word),
         Lexer!IsWord(parts[n]) \/ Lexer!IsLayout(parts[n])
  PROVE  Pending(parts, n, IF Lexer!IsWord(parts[n]) THEN parts[n]
                           ELSE IF parts[n] = Lexer!NewLine THEN word ELSE <<>>)
  <1>1. n \in Nat /\ n \in 1 .. n /\ parts[n] \in Seq(S)
    BY ElementOfSeq
  <1>2. CASE Lexer!IsWord(parts[n])
    <2>1. Lexer!Bare(parts, n, n)
      BY <1>1, <1>2 DEF Lexer!Bare
    <2>. QED
      BY <1>1, <1>2, <2>1 DEF Pending
  <1>3. CASE ~Lexer!IsWord(parts[n]) /\ parts[n] = Lexer!NewLine
    <2>1. \A i \in 1 .. n : Lexer!Bare(parts, i, n) <=> /\ i \in 1 .. n - 1
                                                       /\ Lexer!Bare(parts, i, n - 1)
      <3>1. ASSUME NEW i \in 1 .. n - 1
            PROVE  Lexer!Bare(parts, i, n) <=> Lexer!Bare(parts, i, n - 1)
        <4>1. \A k \in i + 1 .. n : k = n \/ k \in i + 1 .. n - 1
          BY <1>1
        <4>2. \A k \in i + 1 .. n - 1 : k \in i + 1 .. n
          BY <1>1
        <4>. QED
          BY <1>3, <4>1, <4>2 DEF Lexer!Bare
      <3>2. ~Lexer!Bare(parts, n, n)
        BY <1>3 DEF Lexer!Bare
      <3>3. \A i \in 1 .. n : i = n \/ i \in 1 .. n - 1
        BY <1>1
      <3>4. n \notin 1 .. n - 1
        BY <1>1
      <3>. QED
        BY <3>1, <3>2, <3>3, <3>4
    <2>2. \A i \in 1 .. n - 1 : i \in 1 .. n
      BY <1>1
    <2>3. Pending(parts, n, word)
      BY <2>1, <2>2 DEF Pending
    <2>. QED
      BY <1>3, <2>3
  <1>4. CASE ~Lexer!IsWord(parts[n]) /\ parts[n] # Lexer!NewLine
    <2>1. ASSUME NEW i \in 1 .. n PROVE ~Lexer!Bare(parts, i, n)
      <3>1. CASE i = n
        BY <1>4, <3>1 DEF Lexer!Bare
      <3>2. CASE i # n
        <4>1. n \in i + 1 .. n
          BY <1>1, <3>2
        <4>. QED
          BY <1>4, <4>1 DEF Lexer!Bare
      <3>. QED
        BY <3>1, <3>2
    <2>. QED
      BY <1>4, <2>1 DEF Pending
  <1>. QED
    BY <1>2, <1>3, <1>4

\* Up to the last n parts of a text.
LEMMA PartsRead ==
  ASSUME NEW S, NEW parts \in Seq(Seq(S)), NEW upTo, SourceRun(S, parts, upTo),
         NEW after, LexRun(S, upTo[Len(parts)].text, after),
         \A i \in 1 .. Len(parts) : Lexer!IsWord(parts[i]) \/ Lexer!IsLayout(parts[i]),
         Lexer!Clean(parts)
  PROVE  \E word : /\ Pending(parts, Len(parts), word)
                   /\ Read(after[Len(upTo[Len(parts)].text)], upTo[Len(parts)].words, word)
  <1>. DEFINE N == Len(parts)
              text == upTo[N].text
              Up(n) == \E word : /\ Pending(parts, n, word)
                                 /\ Read(after[Len(upTo[n].text)], upTo[n].words, word)
              Good == {n \in 0 .. N : Up(n)}
  <1>1. N \in Nat /\ N \in 0 .. N /\ 0 \in 0 .. N
    BY LenProperties
  <1>2. \A n \in 0 .. N : upTo[n] \in Sources(S)
    BY DEF SourceRun
  <1>3. text \in Seq(S)
    BY <1>1, <1>2 DEF Sources
  <1>4. Up(0)
    <2>1. Pending(parts, 0, <<>>)
      BY DEF Pending
    <2>2. Read(Lexer!Fresh, <<>>, <<>>)
      BY StateRead, NothingRead DEF Lexer!Fresh
    <2>3. upTo[0].text = <<>> /\ upTo[0].words = <<>> /\ after[0] = Lexer!Fresh
      BY DEF SourceRun, LexRun, Lexer!NoParts
    <2>4. Read(after[Len(upTo[0].text)], upTo[0].words, <<>>)
      BY <2>2, <2>3
    <2>. QED
      BY <2>1, <2>4
  <1>5. ASSUME NEW n \in 1 .. N, Up(n - 1) PROVE Up(n)
    <2>. DEFINE t == parts[n]
                p == Len(upTo[n - 1].text)
                words == upTo[n - 1].words
    <2>1. PICK word : Pending(parts, n - 1, word) /\ Read(after[p], words, word)
      BY <1>5
    <2>2. t \in Seq(S) /\ (Lexer!IsWord(t) \/ Lexer!IsLayout(t)) /\ Located(text, p, t)
      BY ElementOfSeq, PartsLocated
    <2>3. /\ Len(upTo[n].text) = p + Len(t)
          /\ upTo[n].words = IF Lexer!IsWord(t) THEN Append(words, t) ELSE words
      <3>1. n - 1 \in 0 .. N
        BY <1>1
      <3>2. upTo[n] = Lexer!Joined(upTo[n - 1], t) /\ upTo[n - 1] \in Sources(S)
        BY <1>2, <3>1 DEF SourceRun
      <3>. DEFINE joined == Lexer!Joined(upTo[n - 1], t)
      <3>3. t \in Seq(S)
        BY <2>2
      <3>. HIDE DEF t
      <3>4. /\ Len(joined.text) = Len(upTo[n - 1].text) + Len(t)
            /\ joined.words = IF Lexer!IsWord(t) THEN Append(upTo[n - 1].words, t)
                              ELSE upTo[n - 1].words
        BY <3>2, <3>3, JoinedBegins
      <3>. HIDE DEF joined
      <3>5. upTo[n] = joined
        BY <3>2 DEF joined
      <3>. QED
        BY <3>4, <3>5
    <2>. DEFINE next == IF Lexer!IsWord(t) THEN t
                        ELSE IF t = Lexer!NewLine THEN word ELSE <<>>
    <2>4. Pending(parts, n, next)
      BY <2>1, <2>2, PendingNext
    <2>5. Read(after[p + Len(t)], IF Lexer!IsWord(t) THEN Append(words, t) ELSE words, next)
      <3>1. CASE Lexer!IsWord(t)
        <4>1. word # <<>> => ~Lexer!Continues(Lexer!Starts(word), Lexer!Starts(t))
          <5>1. ASSUME NEW i \in 1 .. n - 1, Lexer!Bare(parts, i, n - 1), word = parts[i]
                PROVE  ~Lexer!Continues(Lexer!Starts(word), Lexer!Starts(t))
            <6>1. i \in 1 .. N /\ n \in 1 .. N /\ i < n
              BY <1>1
            <6>. QED
              BY <3>1, <5>1, <6>1 DEF Lexer!Clean
          <5>. QED
            BY <2>1, <5>1 DEF Pending
        <4>. HIDE DEF t, p, words, text
        <4>2. Read(after[p + Len(t)], Append(words, t), t)
          BY <1>3, <2>1, <2>2, <3>1, <4>1, WordRead DEF text
        <4>. QED
          BY <3>1, <4>2
      <3>2. CASE ~Lexer!IsWord(t)
        <4>. HIDE DEF t, p, words, text
        <4>1. Read(after[p + Len(t)], words, IF t = Lexer!NewLine THEN word ELSE <<>>)
          BY <1>3, <2>1, <2>2, <3>2, LayoutRead DEF text
        <4>. QED
          BY <3>2, <4>1
      <3>. QED
        BY <3>1, <3>2
    <2>. HIDE DEF t, p, words, next
    <2>6. Read(after[Len(upTo[n].text)], upTo[n].words, next)
      BY <2>3, <2>5
    <2>. QED
      BY <2>4, <2>6
  <1>. HIDE DEF Up
  <1>6. 0 \in Good /\ Good \in SUBSET (0 .. N)
    BY <1>1, <1>4
  <1>7. ASSUME NEW n \in 1 .. N, n - 1 \in Good PROVE n \in Good
    <2>1. n \in 0 .. N /\ Up(n)
      BY <1>1, <1>5, <1>7
    <2>. QED
      BY <2>1
  <1>. HIDE DEF Good, N
  <1>8. \A n \in 0 .. N : n \in Good
    BY <1>1, <1>6, <1>7, LoopKeeps
  <1>9. Up(N)
    BY <1>1, <1>8 DEF Good
  <1>. QED
    BY <1>9 DEF Up, N

(***************************************************************************)
(* Blanks, line ends and comments change no token, whatever the words and  *)
(* the layout between them.                                                *)
(***************************************************************************)
THEOREM LayoutTheorem ==
  ASSUME NEW S, subject = "text" => input \in Seq(Seq(S))
  PROVE  LayoutIgnored
  <1>. DEFINE parts == input
              N == Len(parts)
              words == Lexer!Source(parts).words
              bare == \E i \in 1 .. N : Lexer!Bare(parts, i, N)
  <1>. SUFFICES ASSUME subject = "text",
                       \A i \in 1 .. N : Lexer!IsWord(parts[i]) \/ Lexer!IsLayout(parts[i]),
                       Lexer!Clean(parts)
                PROVE  Lexer!parse2Token(Lexer!Source(parts).text)
                         = IF bare THEN SubSeq(words, 1, Len(words) - 1) ELSE words
    BY Zenon DEF LayoutIgnored, Lexer!LayoutIgnored
  <1>1. parts \in Seq(Seq(S)) /\ N \in Nat /\ \A i \in 1 .. N : parts[i] \in Seq(S)
    BY LenProperties, ElementOfSeq
  <1>. HIDE DEF parts
  <1>2. PICK upTo : SourceRun(S, parts, upTo) /\ Lexer!Source(parts) = upTo[N]
    BY <1>1, SourceRuns
  <1>. DEFINE text == upTo[N].text
  <1>3. text \in Seq(S)
    BY <1>1, <1>2 DEF SourceRun, Sources
  <1>4. PICK after : LexRun(S, text, after)
                     /\ Lexer!parse2Token(text) = after[Len(text)].tokens
    BY <1>3, LexRuns
  <1>5. PICK word : Pending(parts, N, word) /\ Read(after[Len(text)], upTo[N].words, word)
    BY <1>1, <1>2, <1>4, PartsRead
  <1>. DEFINE tokens == after[Len(text)].tokens
  <1>6. tokens \in Seq(Seq(S))
    <2>1. Len(text) \in 0 .. Len(text)
      BY <1>3, LenProperties
    <2>2. after[Len(text)] \in LexStates(S)
      BY <1>4, <2>1 DEF LexRun
    <2>. QED
      BY <2>2, LexTyped
  <1>7. words = upTo[N].words /\ Lexer!parse2Token(Lexer!Source(parts).text) = tokens
    BY <1>2, <1>4
  <1>8. words = IF word = <<>> THEN tokens ELSE Append(tokens, word)
    BY <1>5, <1>7 DEF Read
  <1>9. (~bare /\ word = <<>>) \/ (bare /\ word # <<>> /\ word \in Seq(S))
    <2>1. \A i \in 1 .. N : Lexer!Bare(parts, i, N) => parts[i] # <<>>
      BY DEF Lexer!Bare, Lexer!IsWord
    <2>. QED
      BY <1>1, <1>5, <2>1 DEF Pending
  <1>. HIDE DEF tokens, words, bare
  <1>10. CASE bare /\ word # <<>> /\ word \in Seq(S)
    <2>1. SubSeq(words, 1, Len(words) - 1) = tokens
      BY <1>6, <1>8, <1>10, AllButTheLast
    <2>. QED
      BY <1>7, <1>10, <2>1
  <1>11. CASE ~bare /\ word = <<>>
    BY <1>7, <1>8, <1>11
  <1>. QED
    BY <1>9, <1>10, <1>11

-----------------------------------------------------------------------------
(***************************************************************************)
(* The pass over the tokens of a service.                                  *)
(***************************************************************************)
\* The function that joins the parts, one after the other.
LEMMA JoinedRuns ==
  ASSUME NEW S, NEW parts \in Seq(Seq(S))
  PROVE  \E upTo : Joins(S, parts, upTo) /\ Proto!Joined(parts) = upTo[Len(parts)]
  <1>. DEFINE n == Len(parts)
              first == <<>>
              Longer(s, i) == s \o parts[i]
              Step(f) == [i \in 0 .. n |-> IF i = 0 THEN first ELSE Longer(f[i - 1], i)]
              upTo == CHOOSE f : f = Step(f)
              step == [x \in (1 .. n) \X Seq(S) |-> Longer(x[2], x[1])]
  <1>1. n \in Nat
    BY LenProperties
  <1>2. first \in Seq(S) /\ \A i \in 1 .. n : parts[i] \in Seq(S)
    BY ElementOfSeq
  <1>3. step \in [(1 .. n) \X Seq(S) -> Seq(S)]
    <2>1. \A i \in 1 .. n : \A s \in Seq(S) : s \o parts[i] \in Seq(S)
      BY <1>2, ConcatProperties
    <2>. HIDE DEF n
    <2>. QED
      BY <2>1
  <1>4. PICK f \in [0 .. n -> Seq(S)] :
          f[0] = first /\ \A i \in 1 .. n : f[i] = step[<<i, f[i - 1]>>]
    <2>1. LoopsRun(Seq(S), first)
      BY <1>2, LoopRuns
    <2>. HIDE DEF n, step, first
    <2>. QED
      BY <1>1, <1>3, <2>1 DEF LoopsRun
  <1>5. \A i \in 1 .. n : f[i] = Longer(f[i - 1], i)
    <2>1. \A i \in 1 .. n : i - 1 \in 0 .. n
      BY <1>1
    <2>. HIDE DEF n, Longer
    <2>2. \A i \in 1 .. n : f[i - 1] \in Seq(S)
      BY <2>1
    <2>. QED
      BY <1>4, <2>2
  <1>6. f = Step(f)
    <2>. HIDE DEF n, first, Longer
    <2>. QED
      BY <1>1, <1>4, <1>5
  <1>7. upTo = Step(upTo)
    <2>1. \E g : g = Step(g)
      BY <1>6
    <2>. HIDE DEF Step
    <2>. QED
      BY <2>1
  <1>8. Proto!Joined(parts) = upTo[n]
    BY DEF Proto!Joined
  <1>. HIDE DEF upTo
  <1>9. /\ upTo[0] = first
        /\ \A i \in 1 .. n : upTo[i] = Longer(upTo[i - 1], i)
    <2>. HIDE DEF n, first, Longer
    <2>. QED
      BY <1>1, <1>7
  <1>10. \A i \in 0 .. n : upTo[i] \in Seq(S)
    <2>. DEFINE Good == {i \in 0 .. n : upTo[i] \in Seq(S)}
    <2>1. 0 \in Good /\ Good \in SUBSET (0 .. n)
      <3>1. 0 \in 0 .. n /\ upTo[0] \in Seq(S)
        BY <1>1, <1>2, <1>9
      <3>. HIDE DEF n
      <3>. QED
        BY <3>1
    <2>2. ASSUME NEW i \in 1 .. n, i - 1 \in Good PROVE i \in Good
      <3>1. upTo[i] \in Seq(S)
        BY <1>2, <1>9, <2>2, ConcatProperties
      <3>. QED
        BY <1>1, <3>1
    <2>. HIDE DEF Good, n
    <2>3. \A i \in 0 .. n : i \in Good
      BY <1>1, <2>1, <2>2, LoopKeeps
    <2>. QED
      BY <2>3 DEF Good
  <1>11. upTo \in [0 .. n -> Seq(S)]
    <2>1. upTo = [i \in 0 .. n |-> upTo[i]]
      <3>1. \E g : upTo = [i \in 0 .. n |-> g[i]]
        BY <1>7
      <3>. HIDE DEF n
      <3>. QED
        BY <3>1
    <2>. HIDE DEF n
    <2>. QED
      BY <1>10, <2>1
  <1>. HIDE DEF Step
  <1>. QED
    BY <1>8, <1>9, <1>11 DEF Joins

(***************************************************************************)
(* The rounds of the pass over the tokens.                                 *)
(***************************************************************************)
\* What a token and what is read from it can be.
TokenTexts ==
  STRING \union {"REQ_RESP", "ONE_WAY", "FAST_RESP"} \union {Proto!NoName}
    \union {"package", "service", "rpc", "message", "returns", "option", "MethodMode"}
    \union {"optional", "required", "repeated", "2", "3", "=", ";", "(", ")", "{", "}"}

FieldInfos == [name : TokenTexts, type : TokenTexts, no : TokenTexts, flag : {0, 1}]
RpcInfos   == [name : TokenTexts, request : TokenTexts, response : TokenTexts, mode : TokenTexts]
MessageMaps == Maps(TokenTexts, Seq(FieldInfos))
Infos == [package : TokenTexts, service : TokenTexts, rpcs : Seq(RpcInfos), messages : MessageMaps]
Passes ==
  [place : {"file", "message", "overrun"}, i : Nat \ {0}, name : TokenTexts,
   fields : Seq(FieldInfos), info : Infos]

\* What is found of a service keeps its type.
LEMMA InfoTyped ==
  /\ \A info \in Infos : /\ info.package \in TokenTexts /\ info.service \in TokenTexts
                         /\ info.rpcs \in Seq(RpcInfos) /\ info.messages \in MessageMaps
  /\ \A package, service \in TokenTexts, rpcs \in Seq(RpcInfos), messages \in MessageMaps :
       LET info == Proto!Info(package, service, rpcs, messages)
       IN /\ info \in Infos
          /\ info.package = package /\ info.service = service
          /\ info.rpcs = rpcs /\ info.messages = messages
  BY DEF Infos, Proto!Info

\* So does the state of the pass.
LEMMA StateTyped ==
  /\ \A st \in Passes : /\ st.place \in {"file", "message", "overrun"} /\ st.i \in Nat \ {0}
                        /\ st.name \in TokenTexts /\ st.fields \in Seq(FieldInfos)
                        /\ st.info \in Infos
  /\ \A place \in {"file", "message", "overrun"}, i \in Nat \ {0}, name \in TokenTexts,
        fields \in Seq(FieldInfos), info \in Infos :
       LET st == Proto!State(place, i, name, fields, info)
       IN /\ st \in Passes
          /\ st.place = place /\ st.i = i /\ st.name = name /\ st.fields = fields
          /\ st.info = info
  BY DEF Passes, Proto!State

\* The empty name is a text.
LEMMA NoNameTyped == Proto!NoName \in TokenTexts
  BY DEF TokenTexts

\* The states in the two loops, and past the tokens.
LEMMA PlacesTyped ==
  /\ \A i \in Nat \ {0}, info \in Infos :
       LET st == Proto!InFile(i, info)
       IN st \in Passes /\ st.place = "file" /\ st.i = i /\ st.info = info
  /\ \A i \in Nat \ {0}, name \in TokenTexts, fields \in Seq(FieldInfos), info \in Infos :
       LET st == Proto!InMessage(i, name, fields, info)
       IN /\ st \in Passes /\ st.place = "message" /\ st.i = i /\ st.info = info
          /\ st.name = name /\ st.fields = fields
  /\ \A st \in Passes : Proto!Overrun(st) \in Passes /\ Proto!Overrun(st).place = "overrun"
                        /\ Proto!Overrun(st).i = st.i
  <1>. DEFINE none == <<>>
  <1>1. none \in Seq(FieldInfos)
    OBVIOUS
  <1>2. \A i, info : Proto!InFile(i, info) = Proto!State("file", i, Proto!NoName, none, info)
    BY DEF Proto!InFile
  <1>. HIDE DEF none
  <1>3. ASSUME NEW i \in Nat \ {0}, NEW info \in Infos
        PROVE  LET st == Proto!InFile(i, info)
               IN st \in Passes /\ st.place = "file" /\ st.i = i /\ st.info = info
    BY <1>1, <1>2, NoNameTyped, StateTyped
  <1>4. ASSUME NEW i \in Nat \ {0}, NEW name \in TokenTexts, NEW fields \in Seq(FieldInfos),
               NEW info \in Infos
        PROVE  LET st == Proto!InMessage(i, name, fields, info)
               IN /\ st \in Passes /\ st.place = "message" /\ st.i = i /\ st.info = info
                  /\ st.name = name /\ st.fields = fields
    BY StateTyped DEF Proto!InMessage
  <1>5. ASSUME NEW st \in Passes
        PROVE  Proto!Overrun(st) \in Passes /\ Proto!Overrun(st).place = "overrun"
               /\ Proto!Overrun(st).i = st.i
    <2>1. /\ st.i \in Nat \ {0} /\ st.name \in TokenTexts /\ st.fields \in Seq(FieldInfos)
          /\ st.info \in Infos
      BY StateTyped
    <2>2. LET over == Proto!State("overrun", st.i, st.name, st.fields, st.info)
          IN over \in Passes /\ over.place = "overrun" /\ over.i = st.i
      BY <2>1, StateTyped
    <2>. QED
      BY <2>2 DEF Proto!Overrun
  <1>. QED
    BY <1>3, <1>4, <1>5

\* A map takes a key.
LEMMA PutTyped ==
  ASSUME NEW f \in MessageMaps, NEW x \in TokenTexts, NEW y \in Seq(FieldInfos)
  PROVE  Proto!Put(f, x, y) \in MessageMaps /\ IsPut(Proto!Put(f, x, y), f, x, y)
  <1>1. Proto!Put(f, x, y) = Ini!Put(f, x, y)
    BY DEF Proto!Put, Ini!Put
  <1>2. Ini!Put(f, x, y) \in MessageMaps /\ IsPut(Ini!Put(f, x, y), f, x, y)
    BY MapPut DEF MessageMaps
  <1>. QED
    BY <1>1, <1>2

\* A field that ends within the tokens is read.
LEMMA FieldTyped ==
  ASSUME NEW tokens \in Seq(TokenTexts), NEW i \in 1 .. Len(tokens),
         Proto!FieldEnd(tokens, i) <= Len(tokens) + 1
  PROVE  /\ Proto!Field(tokens, i) \in FieldInfos
         /\ Proto!FieldEnd(tokens, i) \in Nat \ {0}
  <1>1. Len(tokens) \in Nat /\ \A j \in 1 .. Len(tokens) : tokens[j] \in TokenTexts
    BY LenProperties, ElementOfSeq
  <1>2. \A t \in TokenTexts : Proto!convertMessageFieldType(t) \in TokenTexts
    BY DEF Proto!convertMessageFieldType, TokenTexts
  <1>3. \A name, type, no \in TokenTexts, flag \in {0, 1} :
          Proto!FieldInfo(name, type, no, flag) \in FieldInfos
    BY DEF Proto!FieldInfo, FieldInfos
  <1>4. CASE tokens[i] \in Proto!Labels
    <2>1. Proto!FieldEnd(tokens, i) = (i + 1) + 4
      BY <1>4 DEF Proto!FieldEnd
    <2>2. i + 2 \in 1 .. Len(tokens) /\ i + 1 \in 1 .. Len(tokens) /\ i + 4 \in 1 .. Len(tokens)
      BY <1>1, <2>1
    <2>3. Proto!Field(tokens, i) =
            Proto!FieldInfo(tokens[i + 2], Proto!convertMessageFieldType(tokens[i + 1]),
                            tokens[i + 4], 1)
      BY <1>4 DEF Proto!Field
    <2>. QED
      BY <1>1, <1>2, <1>3, <2>1, <2>2, <2>3
  <1>5. CASE tokens[i] \notin Proto!Labels
    <2>1. Proto!FieldEnd(tokens, i) = i + 4
      BY <1>5 DEF Proto!FieldEnd
    <2>2. i + 1 \in 1 .. Len(tokens) /\ i + 3 \in 1 .. Len(tokens)
      BY <1>1, <2>1
    <2>3. Proto!Field(tokens, i) =
            Proto!FieldInfo(tokens[i + 1], Proto!convertMessageFieldType(tokens[i]),
                            tokens[i + 3], 0)
      BY <1>5 DEF Proto!Field
    <2>. QED
      BY <1>1, <1>2, <1>3, <2>1, <2>2, <2>3
  <1>. QED
    BY <1>4, <1>5

\* The body of a message begins behind its name.
LEMMA BodyBegins ==
  ASSUME NEW tokens \in Seq(TokenTexts), NEW i \in 1 .. Len(tokens)
  PROVE  LET j == Proto!BodyStart(tokens, i)
         IN /\ j \in i + 1 .. Len(tokens) + 1
            /\ j > Len(tokens) \/ tokens[j] # "{"
            /\ \A k \in i + 1 .. j - 1 : tokens[k] = "{"
  <1>. DEFINE last == Len(tokens) + 1
              Ends == {j \in i + 1 .. last : j > Len(tokens) \/ tokens[j] # "{"}
  <1>1. Len(tokens) \in Nat /\ i \in Nat /\ last \in Nat
    BY LenProperties
  <1>2. last \in Ends /\ Ends \in SUBSET Nat
    <2>1. last \in i + 1 .. last /\ last > Len(tokens)
      BY <1>1
    <2>2. \A j \in i + 1 .. last : j \in Nat
      BY <1>1, <2>1
    <2>. HIDE DEF last
    <2>. QED
      BY <2>1, <2>2
  <1>3. \E m \in Ends : \A j \in Ends : m <= j
    <2>. HIDE DEF Ends
    <2>. QED
      BY <1>2, LeastNatural
  <1>4. PICK m : m \in Ends /\ \A j \in Ends : m <= j
    BY <1>3, Zenon
  <1>5. m \in i + 1 .. last /\ (m > Len(tokens) \/ tokens[m] # "{")
    BY <1>4, Zenon
  <1>6. \A k \in i + 1 .. m - 1 : tokens[k] = "{"
    <2>. HIDE DEF last, Ends
    <2>1. m \in i + 1 .. last
      BY <1>5, Zenon
    <2>2. \A k \in i + 1 .. m - 1 : k \in i + 1 .. last /\ ~(m <= k)
      BY <1>1, <2>1
    <2>3. \A k \in i + 1 .. m - 1 : k \notin Ends
      BY <1>4, <2>2, Zenon
    <2>. QED
      BY <2>2, <2>3, Zenon DEF Ends
  <1>7. \E j \in i + 1 .. Len(tokens) + 1 :
          /\ j > Len(tokens) \/ tokens[j] # "{"
          /\ \A k \in i + 1 .. j - 1 : tokens[k] = "{"
    <2>. HIDE DEF Ends
    <2>. QED
      BY <1>5, <1>6, Zenon
  <1>. QED
    BY <1>7, Zenon DEF Proto!BodyStart

\* A round of the loop of parseMessageInfo.
LEMMA MessageRoundTyped ==
  ASSUME NEW tokens \in Seq(TokenTexts), NEW st \in Passes
  PROVE  Proto!MessageRound(tokens, st) \in Passes
  <1>. DEFINE i == st.i
              info == st.info
              put == Proto!Put(info.messages, st.name, st.fields)
              end == Proto!FieldEnd(tokens, i)
              next == Proto!MessageRound(tokens, st)
  <1>1. /\ Len(tokens) \in Nat /\ i \in Nat \ {0} /\ i + 1 \in Nat \ {0}
        /\ st.name \in TokenTexts /\ st.fields \in Seq(FieldInfos) /\ info \in Infos
    BY LenProperties, StateTyped
  <1>2. Proto!Overrun(st) \in Passes
    BY PlacesTyped
  <1>3. Proto!Info(info.package, info.service, info.rpcs, put) \in Infos
    <2>1. put \in MessageMaps
      BY <1>1, InfoTyped, PutTyped
    <2>. HIDE DEF put
    <2>. QED
      BY <1>1, <2>1, InfoTyped
  <1>4. Proto!InFile(i + 1, Proto!Info(info.package, info.service, info.rpcs, put)) \in Passes
    BY <1>1, <1>3, PlacesTyped
  <1>5. Proto!InMessage(i + 1, st.name, st.fields, info) \in Passes
    BY <1>1, PlacesTyped
  <1>6. ASSUME ~(i > Len(tokens)), ~(end > Len(tokens) + 1)
        PROVE  Proto!InMessage(end, st.name, Append(st.fields, Proto!Field(tokens, i)), info)
                 \in Passes
    <2>1. i \in 1 .. Len(tokens)
      BY <1>1, <1>6
    <2>2. end \in Int
      <3>1. end = (i + 1) + 4 \/ end = i + 4
        BY DEF Proto!FieldEnd
      <3>. QED
        BY <1>1, <3>1
    <2>3. end <= Len(tokens) + 1
      BY <1>1, <1>6, <2>2
    <2>4. Proto!Field(tokens, i) \in FieldInfos /\ end \in Nat \ {0}
      BY <2>1, <2>3, FieldTyped
    <2>5. Append(st.fields, Proto!Field(tokens, i)) \in Seq(FieldInfos)
      BY <1>1, <2>4, AppendProperties
    <2>. HIDE DEF end
    <2>. QED
      BY <1>1, <2>4, <2>5, PlacesTyped
  <1>. QED
    BY <1>2, <1>4, <1>5, <1>6, Zenon DEF Proto!MessageRound

\* A round of the loop of parse2ServiceInfo.
LEMMA FileRoundTyped ==
  ASSUME NEW tokens \in Seq(TokenTexts), NEW st \in Passes
  PROVE  Proto!FileRound(tokens, st) \in Passes
  <1>. DEFINE i == st.i
              info == st.info
              rpc == Proto!RpcInfo(tokens[i + 1], tokens[i + 3], tokens[i + 7],
                                   Proto!Mode(tokens, i))
              inner == Proto!BodyStart(tokens, i + 1)
  <1>1. /\ Len(tokens) \in Nat /\ i \in Nat \ {0} /\ i + 1 \in Nat \ {0} /\ info \in Infos
        /\ \A j \in 1 .. Len(tokens) : tokens[j] \in TokenTexts
    BY LenProperties, ElementOfSeq, StateTyped
  <1>2. /\ info.package \in TokenTexts /\ info.service \in TokenTexts
        /\ info.rpcs \in Seq(RpcInfos) /\ info.messages \in MessageMaps
    BY <1>1, InfoTyped
  <1>. HIDE DEF info
  <1>3. ASSUME ~(i > Len(tokens)), i < Len(tokens)
        PROVE  /\ Proto!InFile(i + 1, Proto!Info(tokens[i + 1], info.service, info.rpcs,
                                                 info.messages)) \in Passes
               /\ Proto!InFile(i + 1, Proto!Info(info.package, tokens[i + 1], info.rpcs,
                                                 info.messages)) \in Passes
               /\ Proto!InMessage(inner, tokens[i + 1], <<>>, info) \in Passes
    <2>1. i + 1 \in 1 .. Len(tokens) /\ tokens[i + 1] \in TokenTexts
      BY <1>1, <1>3
    <2>2. /\ Proto!Info(tokens[i + 1], info.service, info.rpcs, info.messages) \in Infos
          /\ Proto!Info(info.package, tokens[i + 1], info.rpcs, info.messages) \in Infos
      BY <1>2, <2>1, InfoTyped
    <2>3. inner \in Nat \ {0}
      <3>1. inner \in (i + 1) + 1 .. Len(tokens) + 1
        BY <2>1, BodyBegins
      <3>. HIDE DEF inner
      <3>. QED
        BY <1>1, <3>1
    <2>4. <<>> \in Seq(FieldInfos)
      OBVIOUS
    <2>. HIDE DEF inner
    <2>5. Proto!InMessage(inner, tokens[i + 1], <<>>, info) \in Passes
      BY <1>1, <2>1, <2>3, <2>4, PlacesTyped
    <2>. QED
      BY <1>1, <2>2, <2>5, PlacesTyped
  <1>4. ASSUME ~(i > Len(tokens)), i + 7 <= Len(tokens)
        PROVE  Proto!InFile(i + 1, Proto!Info(info.package, info.service,
                                              Append(info.rpcs, rpc), info.messages)) \in Passes
    <2>1. /\ tokens[i + 1] \in TokenTexts /\ tokens[i + 3] \in TokenTexts
          /\ tokens[i + 7] \in TokenTexts
      BY <1>1, <1>4
    <2>2. Proto!Mode(tokens, i) \in TokenTexts
      BY DEF Proto!Mode, TokenTexts
    <2>3. rpc \in RpcInfos
      BY <2>1, <2>2 DEF Proto!RpcInfo, RpcInfos
    <2>4. Append(info.rpcs, rpc) \in Seq(RpcInfos)
      BY <1>2, <2>3, AppendProperties
    <2>. HIDE DEF rpc
    <2>5. Proto!Info(info.package, info.service, Append(info.rpcs, rpc), info.messages) \in Infos
      BY <1>2, <2>4, InfoTyped
    <2>. QED
      BY <1>1, <2>5, PlacesTyped
  <1>5. Proto!InFile(i + 1, info) \in Passes
    BY <1>1, PlacesTyped
  <1>. QED
    BY <1>3, <1>4, <1>5, Zenon DEF Proto!FileRound, info

\* A round of either loop.
LEMMA RoundTyped ==
  ASSUME NEW tokens \in Seq(TokenTexts), NEW st \in Passes
  PROVE  Proto!Round(tokens, st) \in Passes
  BY FileRoundTyped, MessageRoundTyped DEF Proto!Round

\* The pass begins with nothing found.
LEMMA StartTyped == Proto!Start \in Passes
  <1>. DEFINE none == <<>>
  <1>1. none \in Seq(RpcInfos)
    OBVIOUS
  <1>2. Proto!NoMessages \in MessageMaps
    <2>1. Proto!NoMessages \in [{} -> Seq(FieldInfos)]
      BY DEF Proto!NoMessages
    <2>. QED
      BY <2>1 DEF MessageMaps, Maps
  <1>3. Proto!Info(Proto!NoName, Proto!NoName, none, Proto!NoMessages) \in Infos
    <2>. HIDE DEF none
    <2>. QED
      BY <1>1, <1>2, NoNameTyped, InfoTyped
  <1>. QED
    BY <1>3, PlacesTyped DEF Proto!Start

\* The pass over the tokens, one round after the other.
PassRun(tokens, after) ==
  /\ after \in [0 .. Len(tokens) + 1 -> Passes]
  /\ after[0] = Proto!Start
  /\ \A n \in 1 .. Len(tokens) + 1 : after[n] = Proto!Round(tokens, after[n - 1])

\* What parse2ServiceInfo returns is the state after the last round.
LEMMA PassRuns ==
  ASSUME NEW tokens \in Seq(TokenTexts)
  PROVE  \E after : PassRun(tokens, after)
                    /\ Proto!parse2ServiceInfo(tokens) = after[Len(tokens) + 1]
  <1>. DEFINE n == Len(tokens) + 1
              first == Proto!Start
              Step(f) == [i \in 0 .. n |-> IF i = 0 THEN first
                                           ELSE Proto!Round(tokens, f[i - 1])]
              after == CHOOSE f : f = Step(f)
              step == [x \in (1 .. n) \X Passes |-> Proto!Round(tokens, x[2])]
  <1>1. n \in Nat
    BY LenProperties
  <1>2. first \in Passes
    BY StartTyped
  <1>3. step \in [(1 .. n) \X Passes -> Passes]
    <2>. HIDE DEF n
    <2>. QED
      BY RoundTyped
  <1>. HIDE DEF first
  <1>4. PICK f \in [0 .. n -> Passes] :
          f[0] = first /\ \A i \in 1 .. n : f[i] = step[<<i, f[i - 1]>>]
    <2>1. LoopsRun(Passes, first)
      BY <1>2, LoopRuns
    <2>. HIDE DEF n, step
    <2>. QED
      BY <1>1, <1>3, <2>1 DEF LoopsRun
  <1>5. \A i \in 1 .. n : f[i] = Proto!Round(tokens, f[i - 1])
    <2>1. \A i \in 1 .. n : i - 1 \in 0 .. n
      BY <1>1
    <2>. HIDE DEF n
    <2>2. \A i \in 1 .. n : f[i - 1] \in Passes
      BY <2>1
    <2>. QED
      BY <1>4, <2>2
  <1>6. f = Step(f)
    <2>. HIDE DEF n
    <2>. QED
      BY <1>1, <1>4, <1>5
  <1>7. after = Step(after)
    <2>1. \E g : g = Step(g)
      BY <1>6
    <2>. HIDE DEF Step
    <2>. QED
      BY <2>1
  <1>8. Proto!parse2ServiceInfo(tokens) = after[n]
    BY DEF Proto!parse2ServiceInfo, first
  <1>. HIDE DEF after
  <1>9. /\ after[0] = first
        /\ \A i \in 1 .. n : after[i] = Proto!Round(tokens, after[i - 1])
    <2>. HIDE DEF n
    <2>. QED
      BY <1>1, <1>7
  <1>10. \A i \in 0 .. n : after[i] \in Passes
    <2>. DEFINE Good == {i \in 0 .. n : after[i] \in Passes}
    <2>1. 0 \in Good /\ Good \in SUBSET (0 .. n)
      <3>1. 0 \in 0 .. n /\ after[0] \in Passes
        BY <1>1, <1>2, <1>9
      <3>. HIDE DEF n
      <3>. QED
        BY <3>1
    <2>2. ASSUME NEW i \in 1 .. n, i - 1 \in Good PROVE i \in Good
      <3>1. after[i] \in Passes
        BY <1>9, <2>2, RoundTyped
      <3>2. i \in 0 .. n
        BY <1>1
      <3>. HIDE DEF n
      <3>. QED
        BY <3>1, <3>2
    <2>. HIDE DEF Good, n
    <2>3. \A i \in 0 .. n : i \in Good
      BY <1>1, <2>1, <2>2, LoopKeeps
    <2>. QED
      BY <2>3 DEF Good
  <1>11. after \in [0 .. n -> Passes]
    <2>1. after = [i \in 0 .. n |-> after[i]]
      <3>1. \E g : after = [i \in 0 .. n |-> g[i]]
        BY <1>7
      <3>. HIDE DEF n
      <3>. QED
        BY <3>1
    <2>. HIDE DEF n
    <2>. QED
      BY <1>10, <2>1
  <1>. HIDE DEF Step
  <1>. QED
    BY <1>8, <1>9, <1>11 DEF PassRun, first

\* The pass comes to this state before it runs out of rounds.
Reaches(tokens, after, st) ==
  \E n \in 0 .. Len(tokens) + 1 : n < st.i /\ after[n] = st

\* The first state is reached before any round.
LEMMA StartReached ==
  ASSUME NEW tokens \in Seq(TokenTexts), NEW after, PassRun(tokens, after)
  PROVE  Reaches(tokens, after, Proto!Start)
  <1>1. Len(tokens) \in Nat /\ 0 \in 0 .. Len(tokens) + 1
    BY LenProperties
  <1>2. Proto!Start.i = 1
    <2>. DEFINE info == Proto!Info(Proto!NoName, Proto!NoName, <<>>, Proto!NoMessages)
    <2>1. Proto!Start = Proto!InFile(1, info)
      BY DEF Proto!Start
    <2>. HIDE DEF info
    <2>2. \A i, inf : Proto!InFile(i, inf).i = i
      BY Zenon DEF Proto!InFile, Proto!State
    <2>. QED
      BY <2>1, <2>2
  <1>3. 0 < Proto!Start.i
    BY <1>2
  <1>. QED
    BY <1>1, <1>3 DEF Reaches, PassRun

\* A round that takes a token reaches the next state while rounds are left.
LEMMA NextReached ==
  ASSUME NEW tokens \in Seq(TokenTexts), NEW after, PassRun(tokens, after),
         NEW st \in Passes, Reaches(tokens, after, st), st.i <= Len(tokens),
         NEW next, next = Proto!Round(tokens, st), st.i < next.i
  PROVE  next \in Passes /\ Reaches(tokens, after, next)
  <1>1. next \in Passes
    BY RoundTyped
  <1>2. Len(tokens) \in Nat /\ st.i \in Nat /\ next.i \in Nat
    BY <1>1, LenProperties, StateTyped
  <1>3. PICK n \in 0 .. Len(tokens) + 1 : n < st.i /\ after[n] = st
    BY DEF Reaches
  <1>4. n + 1 \in 1 .. Len(tokens) + 1 /\ (n + 1) - 1 = n /\ n + 1 < next.i
    BY <1>2, <1>3
  <1>5. after[n + 1] = next
    BY <1>3, <1>4 DEF PassRun
  <1>6. n + 1 \in 0 .. Len(tokens) + 1
    BY <1>2, <1>4
  <1>. QED
    BY <1>1, <1>4, <1>5, <1>6 DEF Reaches

\* A state the pass stays in is its last.
LEMMA LastReached ==
  ASSUME NEW tokens \in Seq(TokenTexts), NEW after, PassRun(tokens, after),
         NEW st, NEW n \in 0 .. Len(tokens) + 1, after[n] = st, Proto!Round(tokens, st) = st
  PROVE  after[Len(tokens) + 1] = st
  <1>. DEFINE N == Len(tokens) + 1
              Good == {m \in 0 .. N : n <= m => after[m] = st}
  <1>1. N \in Nat /\ n \in Nat /\ n <= N
    BY LenProperties
  <1>2. \A m \in 1 .. N : after[m] = Proto!Round(tokens, after[m - 1])
    BY DEF PassRun
  <1>. HIDE DEF N
  <1>3. 0 \in Good /\ Good \in SUBSET (0 .. N)
    <2>1. 0 \in 0 .. N /\ (n <= 0 => n = 0)
      BY <1>1
    <2>. QED
      BY <2>1
  <1>4. ASSUME NEW m \in 1 .. N, m - 1 \in Good PROVE m \in Good
    <2>1. m \in 0 .. N /\ (n <= m => n = m \/ n <= m - 1)
      BY <1>1
    <2>2. n <= m - 1 => after[m - 1] = st
      BY <1>4
    <2>3. n <= m => after[m] = st
      BY <1>2, <2>1, <2>2
    <2>. QED
      BY <2>1, <2>3
  <1>. HIDE DEF Good
  <1>5. \A m \in 0 .. N : m \in Good
    BY <1>1, <1>3, <1>4, LoopKeeps
  <1>6. N \in Good /\ n <= N
    BY <1>1, <1>5
  <1>. QED
    BY <1>6 DEF Good, N

\* At the end of the tokens the file is read.
LEMMA FileEnds ==
  ASSUME NEW tokens \in Seq(TokenTexts), NEW after, PassRun(tokens, after),
         NEW i \in Nat \ {0}, i > Len(tokens), NEW info \in Infos,
         Reaches(tokens, after, Proto!InFile(i, info))
  PROVE  after[Len(tokens) + 1] = Proto!InFile(i, info)
  <1>. DEFINE st == Proto!InFile(i, info)
  <1>1. st.place = "file" /\ st.i = i
    BY PlacesTyped
  <1>2. PICK n \in 0 .. Len(tokens) + 1 : after[n] = st
    BY DEF Reaches
  <1>. HIDE DEF st
  <1>3. Proto!Round(tokens, st) = st
    BY <1>1 DEF Proto!Round, Proto!FileRound
  <1>4. after[Len(tokens) + 1] = st
    BY <1>2, <1>3, LastReached
  <1>. QED
    BY <1>4 DEF st

\* At the end of the tokens a message runs past them.
LEMMA MessageEnds ==
  ASSUME NEW tokens \in Seq(TokenTexts), NEW after, PassRun(tokens, after),
         NEW st \in Passes, st.place = "message", st.i = Len(tokens) + 1,
         Reaches(tokens, after, st)
  PROVE  after[Len(tokens) + 1].place = "overrun"
  <1>. DEFINE over == Proto!Overrun(st)
  <1>1. over.place = "overrun"
    BY PlacesTyped
  <1>2. PICK n \in 0 .. Len(tokens) + 1 : n < st.i /\ after[n] = st
    BY DEF Reaches
  <1>3. Len(tokens) \in Nat
    BY LenProperties
  <1>4. n + 1 \in 1 .. Len(tokens) + 1 /\ (n + 1) - 1 = n /\ n + 1 \in 0 .. Len(tokens) + 1
    BY <1>2, <1>3
  <1>5. after[n + 1] = Proto!Round(tokens, st)
    BY <1>2, <1>4 DEF PassRun
  <1>6. Proto!Round(tokens, st) = over
    <2>1. st.i > Len(tokens) /\ st.place # "file"
      BY <1>3
    <2>. QED
      BY <2>1 DEF Proto!Round, Proto!MessageRound
  <1>. HIDE DEF over
  <1>7. Proto!Round(tokens, over) = over
    BY <1>1 DEF Proto!Round
  <1>8. after[Len(tokens) + 1] = over
    BY <1>4, <1>5, <1>6, <1>7, LastReached
  <1>. QED
    BY <1>1, <1>8

\* What a round does in the loop of parse2ServiceInfo.
LEMMA FileRounds ==
  ASSUME NEW tokens \in Seq(TokenTexts), NEW i \in 1 .. Len(tokens), NEW info \in Infos,
         NEW next, next = Proto!Round(tokens, Proto!InFile(i, info))
  PROVE  /\ tokens[i] \notin Proto!Keywords => next = Proto!InFile(i + 1, info)
         /\ tokens[i] = "package" /\ i < Len(tokens) =>
              next = Proto!InFile(i + 1, Proto!Info(tokens[i + 1], info.service,
                                                    info.rpcs, info.messages))
         /\ tokens[i] = "service" /\ i < Len(tokens) =>
              next = Proto!InFile(i + 1, Proto!Info(info.package, tokens[i + 1],
                                                    info.rpcs, info.messages))
         /\ tokens[i] = "rpc" /\ i + 7 <= Len(tokens) =>
              next = Proto!InFile(i + 1,
                       Proto!Info(info.package, info.service,
                         Append(info.rpcs,
                                Proto!RpcInfo(tokens[i + 1], tokens[i + 3], tokens[i + 7],
                                              Proto!Mode(tokens, i))),
                         info.messages))
         /\ tokens[i] = "message" /\ i < Len(tokens) =>
              next = Proto!InMessage(Proto!BodyStart(tokens, i + 1), tokens[i + 1], <<>>, info)
  <1>. DEFINE st == Proto!InFile(i, info)
  <1>1. Len(tokens) \in Nat /\ i \in Nat \ {0} /\ ~(i > Len(tokens))
    BY LenProperties
  <1>2. st.place = "file" /\ st.i = i /\ st.info = info
    BY <1>1, PlacesTyped
  <1>. HIDE DEF st
  <1>3. next = Proto!FileRound(tokens, st)
    BY <1>2 DEF Proto!Round, st
  <1>4. next = Proto!FileRound(tokens, st) /\ st.i = i /\ st.info = info /\ ~(i > Len(tokens))
    BY <1>1, <1>2, <1>3
  <1>5. tokens[i] \notin Proto!Keywords => next = Proto!InFile(i + 1, info)
    <2>1. HAVE tokens[i] \notin Proto!Keywords
    <2>2. /\ tokens[i] # "package" /\ tokens[i] # "service" /\ tokens[i] # "rpc"
          /\ tokens[i] # "message"
      BY <2>1 DEF Proto!Keywords
    <2>. QED
      BY <1>4, <2>2, Zenon DEF Proto!FileRound
  <1>6. tokens[i] = "package" /\ i < Len(tokens) =>
          next = Proto!InFile(i + 1, Proto!Info(tokens[i + 1], info.service,
                                                info.rpcs, info.messages))
    BY <1>4, Zenon DEF Proto!FileRound
  <1>7. tokens[i] = "service" /\ i < Len(tokens) =>
          next = Proto!InFile(i + 1, Proto!Info(info.package, tokens[i + 1],
                                                info.rpcs, info.messages))
    <2>1. tokens[i] = "service" => tokens[i] # "package"
      OBVIOUS
    <2>. QED
      BY <1>4, <2>1, Zenon DEF Proto!FileRound
  <1>8. tokens[i] = "rpc" /\ i + 7 <= Len(tokens) =>
          next = Proto!InFile(i + 1,
                   Proto!Info(info.package, info.service,
                     Append(info.rpcs,
                            Proto!RpcInfo(tokens[i + 1], tokens[i + 3], tokens[i + 7],
                                          Proto!Mode(tokens, i))),
                     info.messages))
    <2>1. tokens[i] = "rpc" => tokens[i] # "package" /\ tokens[i] # "service"
      OBVIOUS
    <2>. QED
      BY <1>4, <2>1, Zenon DEF Proto!FileRound
  <1>9. tokens[i] = "message" /\ i < Len(tokens) =>
          next = Proto!InMessage(Proto!BodyStart(tokens, i + 1), tokens[i + 1], <<>>, info)
    <2>1. tokens[i] = "message" =>
            tokens[i] # "package" /\ tokens[i] # "service" /\ tokens[i] # "rpc"
      OBVIOUS
    <2>. QED
      BY <1>4, <2>1, Zenon DEF Proto!FileRound
  <1>. QED
    BY <1>5, <1>6, <1>7, <1>8, <1>9

\* What a round does in the loop of parseMessageInfo.
LEMMA MessageRounds ==
  ASSUME NEW tokens \in Seq(TokenTexts), NEW i \in 1 .. Len(tokens), NEW name \in TokenTexts,
         NEW fields \in Seq(FieldInfos), NEW info \in Infos,
         NEW next, next = Proto!Round(tokens, Proto!InMessage(i, name, fields, info))
  PROVE  /\ tokens[i] = "}" =>
              next = Proto!InFile(i + 1, Proto!Info(info.package, info.service, info.rpcs,
                                                    Proto!Put(info.messages, name, fields)))
         /\ tokens[i] = ";" => next = Proto!InMessage(i + 1, name, fields, info)
         /\ tokens[i] \notin {"}", ";"} /\ ~(Proto!FieldEnd(tokens, i) > Len(tokens) + 1) =>
              next = Proto!InMessage(Proto!FieldEnd(tokens, i), name,
                                     Append(fields, Proto!Field(tokens, i)), info)
  <1>. DEFINE st == Proto!InMessage(i, name, fields, info)
  <1>1. Len(tokens) \in Nat /\ i \in Nat \ {0} /\ ~(i > Len(tokens))
    BY LenProperties
  <1>2. /\ st.place = "message" /\ st.i = i /\ st.info = info
        /\ st.name = name /\ st.fields = fields
    BY <1>1, PlacesTyped
  <1>. HIDE DEF st
  <1>3. next = Proto!MessageRound(tokens, st)
    <2>1. st.place # "file"
      BY <1>2
    <2>. QED
      BY <1>2, <2>1 DEF Proto!Round, st
  <1>4. /\ next = Proto!MessageRound(tokens, st) /\ ~(i > Len(tokens))
        /\ st.i = i /\ st.info = info /\ st.name = name /\ st.fields = fields
    BY <1>1, <1>2, <1>3
  <1>5. tokens[i] = "}" =>
          next = Proto!InFile(i + 1, Proto!Info(info.package, info.service, info.rpcs,
                                                Proto!Put(info.messages, name, fields)))
    BY <1>4, Zenon DEF Proto!MessageRound
  <1>6. tokens[i] = ";" => next = Proto!InMessage(i + 1, name, fields, info)
    <2>1. tokens[i] = ";" => tokens[i] # "}"
      OBVIOUS
    <2>. QED
      BY <1>4, <2>1, Zenon DEF Proto!MessageRound
  <1>7. tokens[i] \notin {"}", ";"} /\ ~(Proto!FieldEnd(tokens, i) > Len(tokens) + 1) =>
          next = Proto!InMessage(Proto!FieldEnd(tokens, i), name,
                                 Append(fields, Proto!Field(tokens, i)), info)
    BY <1>4, Zenon DEF Proto!MessageRound
  <1>. QED
    BY <1>5, <1>6, <1>7

\* The pass goes over the tokens that are no keywords.
LEMMA SkipRead ==
  ASSUME NEW tokens \in Seq(TokenTexts), NEW after, PassRun(tokens, after),
         NEW i \in Nat \ {0}, NEW n \in Nat, i + n <= Len(tokens) + 1, NEW info \in Infos,
         Reaches(tokens, after, Proto!InFile(i, info)),
         \A k \in i .. i + n - 1 : tokens[k] \notin Proto!Keywords
  PROVE  Reaches(tokens, after, Proto!InFile(i + n, info))
  <1>. DEFINE Good == {m \in 0 .. n : Reaches(tokens, after, Proto!InFile(i + m, info))}
  <1>1. Len(tokens) \in Nat
    BY LenProperties
  <1>2. 0 \in Good /\ Good \in SUBSET (0 .. n)
    <2>1. i + 0 = i /\ 0 \in 0 .. n
      OBVIOUS
    <2>. QED
      BY <2>1
  <1>3. ASSUME NEW m \in 1 .. n, m - 1 \in Good PROVE m \in Good
    <2>. DEFINE k == i + (m - 1)
                st == Proto!InFile(k, info)
                next == Proto!InFile(k + 1, info)
    <2>1. /\ k \in i .. i + n - 1 /\ k \in 1 .. Len(tokens) /\ k + 1 = i + m
          /\ k \in Nat \ {0} /\ k + 1 \in Nat \ {0} /\ k <= Len(tokens) /\ k < k + 1
      BY <1>1
    <2>2. Reaches(tokens, after, st)
      BY <1>3
    <2>. HIDE DEF k
    <2>3. st \in Passes /\ st.i = k /\ next.i = k + 1
      BY <2>1, PlacesTyped
    <2>4. next = Proto!Round(tokens, st)
      BY <2>1, FileRounds
    <2>. HIDE DEF st, next
    <2>5. Reaches(tokens, after, next)
      BY <2>1, <2>2, <2>3, <2>4, NextReached
    <2>6. m \in 0 .. n
      OBVIOUS
    <2>. QED
      BY <2>1, <2>5, <2>6 DEF next
  <1>. HIDE DEF Good
  <1>4. \A m \in 0 .. n : m \in Good
    BY <1>2, <1>3, LoopKeeps
  <1>5. n \in Good
    BY <1>4
  <1>. QED
    BY <1>5 DEF Good

\* What a service is made of.
Modes    == {"REQ_RESP", "ONE_WAY", "FAST_RESP"}
Rpcs     == [name : TokenTexts, request : TokenTexts, response : TokenTexts, mode : Modes]
Fields   == [label : {<<>>} \union {<<l>> : l \in Proto!Labels}, type : TokenTexts,
             name : TokenTexts, no : TokenTexts]
Messages == [name : TokenTexts, fields : Seq(Fields)]

PlainRpc(r) == {r.name, r.request, r.response} \cap Proto!Keywords = {}

\* The tokens that the grammar has by themselves.
LEMMA LiteralsTyped ==
  {"package", "service", "rpc", "message", "returns", "option", "MethodMode", "2", "3", "=", ";",
   "(", ")", "{", "}"} \in SUBSET TokenTexts
  BY DEF TokenTexts

\* The tokens of a call.
LEMMA RpcParts ==
  ASSUME NEW r \in Rpcs, PlainRpc(r)
  PROVE  LET t == Proto!RpcTokens(r)
         IN /\ t \in Seq(TokenTexts)
            /\ Len(t) = IF r.mode = "REQ_RESP" THEN 11 ELSE 18
            /\ t[1] = "rpc" /\ t[2] = r.name /\ t[4] = r.request /\ t[6] = "returns"
            /\ t[5] = ")" /\ t[8] = r.response
            /\ \A k \in 2 .. Len(t) : t[k] \notin Proto!Keywords
            /\ r.mode # "REQ_RESP" =>
                 t[13] = "MethodMode" /\ t[16] = IF r.mode = "ONE_WAY" THEN "2" ELSE "3"
  <1>. DEFINE head == <<"rpc", r.name, "(", r.request, ")", "returns", "(", r.response, ")", "{">>
              tail == Proto!ModeTokens(r.mode)
              t == head \o tail
  <1>1. r.name \in TokenTexts /\ r.request \in TokenTexts /\ r.response \in TokenTexts
    BY DEF Rpcs
  <1>2. head \in Seq(TokenTexts) /\ Len(head) = 10
    BY <1>1, LiteralsTyped, Tuples
  <1>3. \A k \in 2 .. 10 : head[k] \notin Proto!Keywords
    <2>1. {r.name, r.request, r.response} \cap Proto!Keywords = {}
      BY DEF PlainRpc
    <2>2. {"(", ")", "returns", "{"} \cap Proto!Keywords = {}
      BY DEF Proto!Keywords
    <2>3. /\ head[2] = r.name /\ head[3] = "(" /\ head[4] = r.request /\ head[5] = ")"
          /\ head[6] = "returns" /\ head[7] = "(" /\ head[8] = r.response
          /\ head[9] = ")" /\ head[10] = "{"
      OBVIOUS
    <2>. HIDE DEF head
    <2>4. /\ head[2] \notin Proto!Keywords /\ head[3] \notin Proto!Keywords
          /\ head[4] \notin Proto!Keywords /\ head[5] \notin Proto!Keywords
          /\ head[6] \notin Proto!Keywords /\ head[7] \notin Proto!Keywords
          /\ head[8] \notin Proto!Keywords /\ head[9] \notin Proto!Keywords
          /\ head[10] \notin Proto!Keywords
      BY <2>1, <2>2, <2>3
    <2>5. \A k \in 2 .. 10 : \/ k = 2 \/ k = 3 \/ k = 4 \/ k = 5 \/ k = 6
                              \/ k = 7 \/ k = 8 \/ k = 9 \/ k = 10
      OBVIOUS
    <2>. QED
      BY <2>4, <2>5, Zenon
  <1>4. /\ head[1] = "rpc" /\ head[2] = r.name /\ head[4] = r.request /\ head[6] = "returns"
        /\ head[5] = ")" /\ head[8] = r.response
    OBVIOUS
  <1>5. /\ tail \in Seq(TokenTexts) /\ Len(tail) = (IF r.mode = "REQ_RESP" THEN 1 ELSE 8)
        /\ \A k \in 1 .. Len(tail) : tail[k] \notin Proto!Keywords
        /\ r.mode # "REQ_RESP" =>
             tail[3] = "MethodMode" /\ tail[6] = IF r.mode = "ONE_WAY" THEN "2" ELSE "3"
    <2>. DEFINE no == IF r.mode = "ONE_WAY" THEN "2" ELSE "3"
                short == <<"}">>
                long == <<"option", "(", "MethodMode", ")", "=", no, ";", "}">>
    <2>1. no \in {"2", "3"}
      OBVIOUS
    <2>. HIDE DEF no
    <2>2. no \in TokenTexts /\ no \notin Proto!Keywords
      BY <2>1, LiteralsTyped DEF Proto!Keywords
    <2>3. {"option", "(", "MethodMode", ")", "=", ";", "}"} \cap Proto!Keywords = {}
      BY DEF Proto!Keywords
    <2>. DEFINE Rest == TokenTexts \ Proto!Keywords
    <2>4. /\ "option" \in Rest /\ "(" \in Rest /\ "MethodMode" \in Rest /\ ")" \in Rest
          /\ "=" \in Rest /\ no \in Rest /\ ";" \in Rest /\ "}" \in Rest
      BY <2>2, <2>3, LiteralsTyped
    <2>. HIDE DEF Rest
    <2>5. /\ short \in Seq(Rest) /\ Len(short) = 1 /\ \A k \in 1 .. 1 : short[k] \in Rest
          /\ long \in Seq(Rest) /\ Len(long) = 8 /\ \A k \in 1 .. 8 : long[k] \in Rest
      BY <2>4, Tuples
    <2>6. long[3] = "MethodMode" /\ long[6] = no
      OBVIOUS
    <2>7. Seq(Rest) \in SUBSET Seq(TokenTexts)
      <3>1. \A s \in Seq(Rest) : s \in Seq(TokenTexts)
        BY SeqMonotonic DEF Rest
      <3>. QED
        BY <3>1
    <2>8. tail = IF r.mode = "REQ_RESP" THEN short ELSE long
      BY DEF Proto!ModeTokens, no
    <2>. HIDE DEF short, long, tail
    <2>9. CASE r.mode = "REQ_RESP"
      <3>1. tail = short
        BY <2>8, <2>9
      <3>. QED
        BY <2>5, <2>9, <2>7, <3>1 DEF Rest
    <2>10. CASE r.mode # "REQ_RESP"
      <3>1. tail = long
        BY <2>8, <2>10
      <3>. QED
        BY <2>5, <2>6, <2>10, <2>7, <3>1 DEF no, Rest
    <2>. QED
      BY <2>9, <2>10
  <1>. HIDE DEF head, tail
  <1>6. /\ t \in Seq(TokenTexts) /\ Len(t) = Len(head) + Len(tail)
        /\ Located(t, 0, head) /\ Located(t, Len(head), tail)
    BY <1>2, <1>5, ConcatLocated
  <1>7. t = Proto!RpcTokens(r)
    BY DEF Proto!RpcTokens, head, tail
  <1>. HIDE DEF t
  <1>8. /\ \A j \in 1 .. 10 : t[j] = head[j]
        /\ \A j \in 1 .. Len(tail) : t[10 + j] = tail[j]
    <2>1. \A j \in 1 .. 10 : t[0 + j] = head[j] /\ 0 + j = j
      BY <1>2, <1>6 DEF Located
    <2>. QED
      BY <1>2, <1>6, <2>1 DEF Located
  <1>9. Len(t) = IF r.mode = "REQ_RESP" THEN 11 ELSE 18
    BY <1>2, <1>5, <1>6
  <1>10. /\ t[1] = "rpc" /\ t[2] = r.name /\ t[4] = r.request /\ t[6] = "returns"
         /\ t[5] = ")" /\ t[8] = r.response
    BY <1>4, <1>8
  <1>11. ASSUME NEW k \in 2 .. Len(t) PROVE t[k] \notin Proto!Keywords
    <2>1. CASE k <= 10
      <3>1. k \in 2 .. 10 /\ k \in 1 .. 10
        BY <1>9, <2>1
      <3>. QED
        BY <1>3, <1>8, <3>1
    <2>2. CASE ~(k <= 10)
      <3>1. k - 10 \in 1 .. Len(tail) /\ 10 + (k - 10) = k
        BY <1>2, <1>5, <1>6, <1>9, <2>2
      <3>2. t[k] = tail[k - 10]
        BY <1>8, <3>1
      <3>. QED
        BY <1>5, <3>1, <3>2
    <2>. QED
      BY <2>1, <2>2
  <1>12. ASSUME r.mode # "REQ_RESP"
         PROVE  t[13] = "MethodMode" /\ t[16] = IF r.mode = "ONE_WAY" THEN "2" ELSE "3"
    <2>1. Len(tail) = 8 /\ 3 \in 1 .. 8 /\ 6 \in 1 .. 8 /\ 10 + 3 = 13 /\ 10 + 6 = 16
      BY <1>5, <1>12
    <2>2. t[13] = tail[3] /\ t[16] = tail[6]
      BY <1>8, <2>1
    <2>. QED
      BY <1>5, <1>12, <2>2
  <1>13. /\ t \in Seq(TokenTexts)
         /\ Len(t) = IF r.mode = "REQ_RESP" THEN 11 ELSE 18
         /\ t[1] = "rpc" /\ t[2] = r.name /\ t[4] = r.request /\ t[6] = "returns"
         /\ t[5] = ")" /\ t[8] = r.response
         /\ \A k \in 2 .. Len(t) : t[k] \notin Proto!Keywords
         /\ r.mode # "REQ_RESP" =>
              t[13] = "MethodMode" /\ t[16] = IF r.mode = "ONE_WAY" THEN "2" ELSE "3"
    BY <1>6, <1>9, <1>10, <1>11, <1>12
  <1>. QED
    BY <1>7, <1>13

\* Where no mode is given, the tokens ahead do not look like one.
LEMMA ModeRead ==
  ASSUME NEW tokens \in Seq(TokenTexts), NEW p \in Nat, NEW r \in Rpcs, PlainRpc(r),
         Located(tokens, p, Proto!RpcTokens(r)),
         r.mode = "REQ_RESP" =>
           \/ p + 16 > Len(tokens)
           \/ tokens[p + 13] # "MethodMode"
           \/ tokens[p + 16] \notin {"2", "3"}
  PROVE  Proto!Mode(tokens, p + 1) = r.mode
  <1>. DEFINE t == Proto!RpcTokens(r)
              i == p + 1
  <1>1. Len(tokens) \in Nat /\ i + 15 = p + 16 /\ i + 12 = p + 13
    BY LenProperties
  <1>2. CASE r.mode = "REQ_RESP"
    <2>1. \/ ~(i + 15 <= Len(tokens))
          \/ tokens[i + 12] # "MethodMode"
          \/ tokens[i + 15] \notin {"2", "3"}
      BY <1>1, <1>2
    <2>. HIDE DEF i
    <2>2. Proto!Mode(tokens, i) = "REQ_RESP"
      BY <2>1, Zenon DEF Proto!Mode
    <2>. QED
      BY <1>2, <2>2 DEF i
  <1>3. CASE r.mode # "REQ_RESP"
    <2>. DEFINE no == IF r.mode = "ONE_WAY" THEN "2" ELSE "3"
    <2>1. Len(t) = 18 /\ t[13] = "MethodMode" /\ t[16] = no
      BY <1>3, RpcParts
    <2>. HIDE DEF t
    <2>2. p + 18 <= Len(tokens) /\ tokens[p + 13] = t[13] /\ tokens[p + 16] = t[16]
      <3>1. Located(tokens, p, t)
        BY DEF t
      <3>2. 13 \in 1 .. Len(t) /\ 16 \in 1 .. Len(t)
        BY <2>1
      <3>. QED
        BY <2>1, <3>1, <3>2 DEF Located
    <2>3. no \in {"2", "3"} /\ (no = "2" <=> r.mode = "ONE_WAY")
      OBVIOUS
    <2>4. i + 15 <= Len(tokens) /\ tokens[i + 12] = "MethodMode" /\ tokens[i + 15] = no
      BY <1>1, <2>1, <2>2
    <2>. HIDE DEF i, no
    <2>5. Proto!Mode(tokens, i) = IF no = "2" THEN "ONE_WAY" ELSE "FAST_RESP"
      BY <2>3, <2>4 DEF Proto!Mode
    <2>6. r.mode \in Modes
      BY DEF Rpcs
    <2>. QED
      BY <1>3, <2>3, <2>5, <2>6 DEF Modes, i
  <1>. QED
    BY <1>2, <1>3

WithRpc(info, r) ==
  Proto!Info(info.package, info.service, Append(info.rpcs, r), info.messages)

\* A call is read from its tokens.
LEMMA RpcRead ==
  ASSUME NEW tokens \in Seq(TokenTexts), NEW after, PassRun(tokens, after),
         NEW p \in Nat, NEW r \in Rpcs, PlainRpc(r), Located(tokens, p, Proto!RpcTokens(r)),
         Proto!Mode(tokens, p + 1) = r.mode,
         NEW info \in Infos, Reaches(tokens, after, Proto!InFile(p + 1, info)),
         NEW found,
         found = WithRpc(info, r)
  PROVE  /\ found \in Infos
         /\ Reaches(tokens, after, Proto!InFile(p + Len(Proto!RpcTokens(r)) + 1, found))
  <1>. DEFINE t == Proto!RpcTokens(r)
              i == p + 1
              next == Proto!InFile(i + 1, found)
  <1>1. /\ t \in Seq(TokenTexts) /\ Len(t) \in {11, 18}
        /\ t[1] = "rpc" /\ t[2] = r.name /\ t[4] = r.request /\ t[8] = r.response
        /\ \A k \in 2 .. Len(t) : t[k] \notin Proto!Keywords
    <2>1. Len(t) = IF r.mode = "REQ_RESP" THEN 11 ELSE 18
      BY RpcParts
    <2>2. Len(t) \in {11, 18}
      <3>. HIDE DEF t
      <3>. QED
        BY <2>1
    <2>. QED
      BY <2>2, RpcParts
  <1>2. Located(tokens, p, t)
    OBVIOUS
  <1>. HIDE DEF t
  <1>3. Len(tokens) \in Nat /\ p + Len(t) <= Len(tokens)
    BY <1>2, LenProperties DEF Located
  <1>4. \A k \in 1 .. Len(t) : tokens[p + k] = t[k]
    BY <1>2 DEF Located
  <1>5. /\ tokens[i] = "rpc" /\ tokens[i + 1] = r.name /\ tokens[i + 3] = r.request
        /\ tokens[i + 7] = r.response
    <2>1. /\ i + 1 = p + 2 /\ i + 3 = p + 4 /\ i + 7 = p + 8
          /\ 1 \in 1 .. Len(t) /\ 2 \in 1 .. Len(t) /\ 4 \in 1 .. Len(t) /\ 8 \in 1 .. Len(t)
      BY <1>1
    <2>2. /\ tokens[p + 1] = t[1] /\ tokens[p + 2] = t[2] /\ tokens[p + 4] = t[4]
          /\ tokens[p + 8] = t[8]
      BY <1>4, <2>1
    <2>. QED
      BY <1>1, <2>1, <2>2
  <1>6. r \in RpcInfos /\ r = Proto!RpcInfo(r.name, r.request, r.response, r.mode)
    <2>1. r.mode \in TokenTexts
      BY DEF Rpcs, Modes, TokenTexts
    <2>. QED
      BY <2>1 DEF Rpcs, RpcInfos, Proto!RpcInfo
  <1>7. found \in Infos
    <2>1. /\ info.package \in TokenTexts /\ info.service \in TokenTexts
          /\ Append(info.rpcs, r) \in Seq(RpcInfos) /\ info.messages \in MessageMaps
      BY <1>6, InfoTyped, AppendProperties
    <2>. QED
      BY <2>1, InfoTyped DEF WithRpc
  <1>8. i \in 1 .. Len(tokens) /\ i + 7 <= Len(tokens) /\ i \in Nat \ {0} /\ i + 1 \in Nat \ {0}
    BY <1>1, <1>3
  <1>9. Reaches(tokens, after, Proto!InFile(i, info)) /\ Proto!Mode(tokens, i) = r.mode
    OBVIOUS
  <1>. HIDE DEF i
  <1>10. next = Proto!Round(tokens, Proto!InFile(i, info))
    <2>. DEFINE round == Proto!Round(tokens, Proto!InFile(i, info))
    <2>1. round = Proto!InFile(i + 1,
                    Proto!Info(info.package, info.service,
                      Append(info.rpcs,
                             Proto!RpcInfo(tokens[i + 1], tokens[i + 3], tokens[i + 7],
                                           Proto!Mode(tokens, i))),
                      info.messages))
      BY <1>5, <1>8, FileRounds
    <2>. HIDE DEF round
    <2>2. Proto!RpcInfo(tokens[i + 1], tokens[i + 3], tokens[i + 7], Proto!Mode(tokens, i)) = r
      BY <1>5, <1>6, <1>9
    <2>3. round = next
      BY <2>1, <2>2 DEF WithRpc
    <2>. QED
      BY <2>3 DEF round
  <1>11. Reaches(tokens, after, next)
    <2>. DEFINE st == Proto!InFile(i, info)
    <2>1. st \in Passes /\ st.i = i /\ next.i = i + 1
      BY <1>7, <1>8, PlacesTyped
    <2>2. st.i <= Len(tokens) /\ st.i < next.i
      BY <1>8, <2>1
    <2>3. Reaches(tokens, after, st) /\ next = Proto!Round(tokens, st)
      BY <1>9, <1>10
    <2>. HIDE DEF st, next
    <2>. QED
      BY <2>1, <2>2, <2>3, NextReached
  <1>12. Reaches(tokens, after, Proto!InFile((i + 1) + (Len(t) - 1), found))
    <2>. DEFINE j == i + 1
                n == Len(t) - 1
    <2>1. j \in Nat \ {0} /\ n \in Nat /\ j + n <= Len(tokens) + 1
      BY <1>1, <1>3, <1>8 DEF i
    <2>2. \A k \in j .. j + n - 1 : tokens[k] \notin Proto!Keywords
      <3>1. \A k \in j .. j + n - 1 :
              k - p \in 2 .. Len(t) /\ k - p \in 1 .. Len(t) /\ p + (k - p) = k
        BY <1>1, <1>3 DEF i
      <3>. QED
        BY <1>1, <1>4, <3>1
    <2>3. Reaches(tokens, after, Proto!InFile(j, found))
      BY <1>11
    <2>. HIDE DEF j, n
    <2>4. Reaches(tokens, after, Proto!InFile(j + n, found))
      BY <1>7, <2>1, <2>2, <2>3, SkipRead
    <2>. QED
      BY <2>4 DEF j, n
  <1>13. (i + 1) + (Len(t) - 1) = p + Len(t) + 1
    BY <1>1 DEF i
  <1>. QED
    BY <1>7, <1>12, <1>13 DEF t

PlainField(g) == g.type \notin Proto!Labels \union {"{", "}", ";"}

Flag(g) == IF g.label = <<>> THEN 0 ELSE 1
FieldFound(g) ==
  Proto!FieldInfo(g.name, Proto!convertMessageFieldType(g.type), g.no, Flag(g))

\* What is found of a field.
LEMMA FieldFoundTyped == \A g \in Fields : FieldFound(g) \in FieldInfos
  <1>1. \A t \in TokenTexts : Proto!convertMessageFieldType(t) \in TokenTexts
    BY DEF Proto!convertMessageFieldType, TokenTexts
  <1>2. \A name, type, no \in TokenTexts, flag \in {0, 1} :
          Proto!FieldInfo(name, type, no, flag) \in FieldInfos
    BY DEF Proto!FieldInfo, FieldInfos
  <1>3. \A g \in Fields : /\ g.type \in TokenTexts /\ g.name \in TokenTexts /\ g.no \in TokenTexts
                          /\ Flag(g) \in {0, 1}
    BY DEF Fields, Flag
  <1>. QED
    BY <1>1, <1>2, <1>3 DEF FieldFound

\* The tokens of a field.
LEMMA FieldParts ==
  ASSUME NEW g \in Fields
  PROVE  LET t == Proto!FieldTokens(g)
             d == Flag(g)
         IN /\ t \in Seq(TokenTexts) /\ d \in {0, 1} /\ Len(t) = d + 5
            /\ t[d + 1] = g.type /\ t[d + 2] = g.name /\ t[d + 4] = g.no /\ t[d + 5] = ";"
            /\ d = 1 => t[1] \in Proto!Labels
  <1>. DEFINE rest == <<g.type, g.name, "=", g.no, ";">>
              t == Proto!FieldTokens(g)
  <1>1. /\ g.type \in TokenTexts /\ g.name \in TokenTexts /\ g.no \in TokenTexts
        /\ g.label \in {<<>>} \union {<<l>> : l \in Proto!Labels}
    BY DEF Fields
  <1>2. "=" \in TokenTexts /\ ";" \in TokenTexts
    BY LiteralsTyped
  <1>3. rest \in Seq(TokenTexts) /\ Len(rest) = 5
    <2>1. \A a, b, c, d, e \in TokenTexts :
            <<a, b, c, d, e>> \in Seq(TokenTexts) /\ Len(<<a, b, c, d, e>>) = 5
      OBVIOUS
    <2>. QED
      BY <1>1, <1>2, <2>1
  <1>4. rest[1] = g.type /\ rest[2] = g.name /\ rest[4] = g.no /\ rest[5] = ";"
    OBVIOUS
  <1>5. t = g.label \o rest
    BY DEF Proto!FieldTokens
  <1>. HIDE DEF rest, t
  <1>6. CASE g.label = <<>>
    <2>1. t = rest
      BY <1>3, <1>5, <1>6, ConcatEmptySeq
    <2>2. Flag(g) = 0 /\ 0 + 5 = 5 /\ 0 + 1 = 1 /\ 0 + 2 = 2 /\ 0 + 4 = 4 /\ 0 # 1
      BY <1>6 DEF Flag
    <2>3. /\ t \in Seq(TokenTexts) /\ Len(t) = 5
          /\ t[1] = g.type /\ t[2] = g.name /\ t[4] = g.no /\ t[5] = ";"
      BY <1>3, <1>4, <2>1
    <2>. DEFINE d == Flag(g)
    <2>. HIDE DEF d
    <2>4. d = 0
      BY <2>2 DEF d
    <2>5. /\ t \in Seq(TokenTexts) /\ d \in {0, 1} /\ Len(t) = d + 5
          /\ t[d + 1] = g.type /\ t[d + 2] = g.name /\ t[d + 4] = g.no /\ t[d + 5] = ";"
          /\ d = 1 => t[1] \in Proto!Labels
      BY <2>2, <2>3, <2>4
    <2>. QED
      BY <2>5 DEF t, d
  <1>7. CASE g.label # <<>>
    <2>1. PICK l \in Proto!Labels : g.label = <<l>>
      BY <1>1, <1>7
    <2>. DEFINE lab == <<l>>
                s == lab \o rest
    <2>2. l \in TokenTexts
      BY DEF Proto!Labels, TokenTexts
    <2>3. lab \in Seq(TokenTexts) /\ Len(lab) = 1 /\ lab[1] = l
      BY <2>2
    <2>4. s = t
      BY <1>5, <2>1
    <2>. HIDE DEF lab
    <2>5. /\ s \in Seq(TokenTexts) /\ Len(s) = 6
          /\ Located(s, 0, lab) /\ Located(s, 1, rest)
      <3>1. /\ s \in Seq(TokenTexts) /\ Len(s) = Len(lab) + Len(rest)
            /\ Located(s, 0, lab) /\ Located(s, Len(lab), rest)
        BY <1>3, <2>3, ConcatLocated
      <3>. QED
        BY <1>3, <2>3, <3>1
    <2>. HIDE DEF s
    <2>6. s[0 + 1] = lab[1] /\ s[1 + 1] = rest[1] /\ s[1 + 2] = rest[2]
          /\ s[1 + 4] = rest[4] /\ s[1 + 5] = rest[5]
      <3>1. 1 \in 1 .. Len(lab) /\ \A j \in 1 .. 5 : j \in 1 .. Len(rest)
        BY <1>3, <2>3
      <3>2. \A j \in 1 .. 5 : s[1 + j] = rest[j]
        BY <2>5, <3>1 DEF Located
      <3>3. s[0 + 1] = lab[1]
        BY <2>5, <3>1 DEF Located
      <3>. QED
        BY <3>2, <3>3
    <2>7. Flag(g) = 1
      BY <1>7 DEF Flag
    <2>8. t \in Seq(TokenTexts) /\ Len(t) = 6 /\ t[1] = l
      BY <2>3, <2>4, <2>5, <2>6
    <2>9. t[1 + 1] = g.type /\ t[1 + 2] = g.name /\ t[1 + 4] = g.no /\ t[1 + 5] = ";"
      BY <1>4, <2>4, <2>6
    <2>. DEFINE d == Flag(g)
    <2>. HIDE DEF d
    <2>10. d = 1 /\ 1 + 5 = 6
      BY <2>7 DEF d
    <2>11. /\ t \in Seq(TokenTexts) /\ d \in {0, 1} /\ Len(t) = d + 5
           /\ t[d + 1] = g.type /\ t[d + 2] = g.name /\ t[d + 4] = g.no /\ t[d + 5] = ";"
           /\ d = 1 => t[1] \in Proto!Labels
      BY <2>1, <2>8, <2>9, <2>10
    <2>. QED
      BY <2>11 DEF t, d
  <1>. QED
    BY <1>6, <1>7

\* A field is read from its tokens.
LEMMA FieldRead ==
  ASSUME NEW tokens \in Seq(TokenTexts), NEW after, PassRun(tokens, after),
         NEW p \in Nat, NEW g \in Fields, PlainField(g),
         Located(tokens, p, Proto!FieldTokens(g)),
         NEW name \in TokenTexts, NEW fields \in Seq(FieldInfos), NEW info \in Infos,
         Reaches(tokens, after, Proto!InMessage(p + 1, name, fields, info))
  PROVE  Reaches(tokens, after,
                 Proto!InMessage(p + Len(Proto!FieldTokens(g)) + 1, name,
                                 Append(fields, FieldFound(g)), info))
  <1>. DEFINE t == Proto!FieldTokens(g)
              d == Flag(g)
              i == p + 1
              end == p + (d + 5)
              more == Append(fields, FieldFound(g))
              st == Proto!InMessage(i, name, fields, info)
              mid == Proto!InMessage(end, name, more, info)
              last == Proto!InMessage(end + 1, name, more, info)
  <1>1. /\ d \in {0, 1} /\ Len(t) = d + 5
        /\ t[d + 1] = g.type /\ t[d + 2] = g.name /\ t[d + 4] = g.no /\ t[d + 5] = ";"
        /\ d = 1 => t[1] \in Proto!Labels
    BY FieldParts
  <1>2. Located(tokens, p, t)
    OBVIOUS
  <1>3. Reaches(tokens, after, st)
    OBVIOUS
  <1>. HIDE DEF t, d
  <1>4. d \in {0, 1} /\ Len(t) = d + 5
    BY <1>1
  <1>5. Len(tokens) \in Nat /\ end <= Len(tokens)
    BY <1>2, <1>4, LenProperties DEF Located
  <1>6. /\ tokens[p + (d + 1)] = g.type /\ tokens[p + (d + 2)] = g.name
        /\ tokens[p + (d + 4)] = g.no /\ tokens[end] = ";"
        /\ tokens[i] = t[1]
    <2>1. /\ d + 1 \in 1 .. Len(t) /\ d + 2 \in 1 .. Len(t) /\ d + 4 \in 1 .. Len(t)
          /\ d + 5 \in 1 .. Len(t) /\ 1 \in 1 .. Len(t)
      BY <1>4
    <2>2. \A j \in 1 .. Len(t) : tokens[p + j] = t[j]
      BY <1>2 DEF Located
    <2>. QED
      BY <1>1, <2>1, <2>2
  <1>7. more \in Seq(FieldInfos) /\ FieldFound(g) \in FieldInfos
    <2>1. FieldFound(g) \in FieldInfos
      BY FieldFoundTyped
    <2>. QED
      BY <2>1, AppendProperties
  <1>8. /\ i \in 1 .. Len(tokens) /\ i \in Nat \ {0} /\ end \in Nat \ {0}
        /\ end \in 1 .. Len(tokens) /\ end + 1 \in Nat \ {0}
    BY <1>5, <1>4
  <1>9. /\ tokens[i] \notin {"}", ";"} /\ Proto!FieldEnd(tokens, i) = end
        /\ Proto!Field(tokens, i) = FieldFound(g)
    <2>1. CASE d = 0
      <3>1. tokens[i] = g.type /\ tokens[i + 1] = g.name /\ tokens[i + 3] = g.no /\ i + 4 = end
        <4>1. /\ i + 1 = p + (d + 2) /\ i + 3 = p + (d + 4) /\ i + 4 = end /\ i = p + (d + 1)
          BY <2>1
        <4>. QED
          BY <1>6, <4>1
      <3>2. tokens[i] \notin Proto!Labels /\ tokens[i] \notin {"}", ";"}
        BY <3>1 DEF PlainField
      <3>3. Proto!FieldEnd(tokens, i) = i + 4
        BY <3>2 DEF Proto!FieldEnd
      <3>. HIDE DEF i
      <3>4. Proto!Field(tokens, i) =
              Proto!FieldInfo(tokens[i + 1], Proto!convertMessageFieldType(tokens[i]),
                              tokens[i + 3], 0)
        BY <3>2 DEF Proto!Field
      <3>5. Proto!Field(tokens, i) = FieldFound(g)
        BY <2>1, <3>1, <3>4 DEF FieldFound, d
      <3>. QED
        BY <3>1, <3>2, <3>3, <3>5
    <2>2. CASE d = 1
      <3>1. /\ tokens[i + 1] = g.type /\ tokens[i + 2] = g.name /\ tokens[i + 4] = g.no
            /\ (i + 1) + 4 = end
        <4>1. /\ i + 1 = p + (d + 1) /\ i + 2 = p + (d + 2) /\ i + 4 = p + (d + 4)
              /\ (i + 1) + 4 = end
          BY <2>2
        <4>. QED
          BY <1>6, <4>1
      <3>2. tokens[i] \in Proto!Labels
        BY <1>1, <1>6, <2>2
      <3>3. Proto!FieldEnd(tokens, i) = (i + 1) + 4 /\ tokens[i] \notin {"}", ";"}
        BY <3>2 DEF Proto!FieldEnd, Proto!Labels
      <3>. HIDE DEF i
      <3>4. Proto!Field(tokens, i) =
              Proto!FieldInfo(tokens[i + 2], Proto!convertMessageFieldType(tokens[i + 1]),
                              tokens[i + 4], 1)
        BY <3>2 DEF Proto!Field
      <3>5. Proto!Field(tokens, i) = FieldFound(g)
        BY <2>2, <3>1, <3>4 DEF FieldFound, d
      <3>. QED
        BY <3>1, <3>3, <3>5
    <2>. QED
      BY <1>4, <2>1, <2>2
  <1>10. i < end /\ end < end + 1 /\ p + Len(t) + 1 = end + 1
    BY <1>4
  <1>. HIDE DEF i, end, more
  <1>11. mid = Proto!Round(tokens, st)
    <2>. DEFINE round == Proto!Round(tokens, st)
    <2>1. ~(Proto!FieldEnd(tokens, i) > Len(tokens) + 1)
      <3>1. ~(end > Len(tokens) + 1)
        BY <1>5, <1>8
      <3>2. Proto!FieldEnd(tokens, i) = end
        BY <1>9
      <3>. QED
        BY <3>1, <3>2
    <2>2. round = Proto!InMessage(Proto!FieldEnd(tokens, i), name,
                                  Append(fields, Proto!Field(tokens, i)), info)
      BY <1>8, <1>9, <2>1, MessageRounds
    <2>. HIDE DEF round
    <2>3. round = mid
      BY <1>9, <2>2 DEF more
    <2>. QED
      BY <2>3 DEF round
  <1>12. last = Proto!Round(tokens, mid)
    BY <1>6, <1>7, <1>8, MessageRounds
  <1>13. st \in Passes /\ mid \in Passes /\ st.i = i /\ mid.i = end /\ last.i = end + 1
    BY <1>7, <1>8, PlacesTyped
  <1>. HIDE DEF st, mid, last
  <1>14. Reaches(tokens, after, mid)
    <2>1. st.i <= Len(tokens) /\ st.i < mid.i
      BY <1>8, <1>10, <1>13
    <2>. QED
      BY <1>3, <1>11, <1>13, <2>1, NextReached
  <1>15. Reaches(tokens, after, last)
    <2>1. mid.i <= Len(tokens) /\ mid.i < last.i
      BY <1>8, <1>10, <1>13
    <2>. QED
      BY <1>12, <1>13, <1>14, <2>1, NextReached
  <1>. QED
    BY <1>10, <1>15 DEF last, more, t

\* The tokens of the fields of a message.
LEMMA FieldPartsTyped ==
  ASSUME NEW fs \in Seq(Fields), NEW parts,
         parts = [i \in 1 .. Len(fs) |-> Proto!FieldTokens(fs[i])]
  PROVE  /\ parts \in Seq(Seq(TokenTexts)) /\ Len(parts) = Len(fs)
         /\ \A i \in 1 .. Len(fs) : parts[i] = Proto!FieldTokens(fs[i])
  <1>1. Len(fs) \in Nat /\ \A i \in 1 .. Len(fs) : fs[i] \in Fields
    BY LenProperties, ElementOfSeq
  <1>2. \A i \in 1 .. Len(fs) : Proto!FieldTokens(fs[i]) \in Seq(TokenTexts)
    BY <1>1, FieldParts
  <1>. QED
    BY <1>1, <1>2

\* What is found of the fields of a message.
LEMMA FoundTyped ==
  ASSUME NEW m \in Messages
  PROVE  /\ m.name \in TokenTexts /\ m.fields \in Seq(Fields) /\ Len(m.fields) \in Nat
         /\ Proto!FieldsOf(m) \in Seq(FieldInfos) /\ Len(Proto!FieldsOf(m)) = Len(m.fields)
         /\ \A j \in 1 .. Len(m.fields) :
              m.fields[j] \in Fields /\ Proto!FieldsOf(m)[j] = FieldFound(m.fields[j])
  <1>1. m.name \in TokenTexts /\ m.fields \in Seq(Fields)
    BY DEF Messages
  <1>2. Len(m.fields) \in Nat /\ \A j \in 1 .. Len(m.fields) : m.fields[j] \in Fields
    BY <1>1, LenProperties, ElementOfSeq
  <1>. DEFINE fs == m.fields
              found == [j \in 1 .. Len(fs) |-> FieldFound(fs[j])]
  <1>3. Proto!FieldsOf(m) = found
    BY DEF Proto!FieldsOf, FieldFound, Flag
  <1>4. \A j \in 1 .. Len(fs) : FieldFound(fs[j]) \in FieldInfos
    BY <1>2, FieldFoundTyped
  <1>. HIDE DEF fs
  <1>5. /\ found \in Seq(FieldInfos) /\ Len(found) = Len(fs)
        /\ \A j \in 1 .. Len(fs) : found[j] = FieldFound(fs[j])
    <2>1. Len(fs) \in Nat
      BY <1>2 DEF fs
    <2>. QED
      BY <1>4, <2>1
  <1>. QED
    BY <1>1, <1>2, <1>3, <1>5 DEF fs

\* The fields of a message are read from their tokens.
LEMMA FieldsRead ==
  ASSUME NEW tokens \in Seq(TokenTexts), NEW after, PassRun(tokens, after),
         NEW base \in Nat, NEW m \in Messages,
         \A j \in 1 .. Len(m.fields) : PlainField(m.fields[j]),
         NEW parts, parts = [i \in 1 .. Len(m.fields) |-> Proto!FieldTokens(m.fields[i])],
         NEW upTo, Joins(TokenTexts, parts, upTo), PartsIn(tokens, base, parts, upTo),
         NEW info \in Infos,
         Reaches(tokens, after, Proto!InMessage(base + 1, m.name, <<>>, info))
  PROVE  Reaches(tokens, after,
                 Proto!InMessage(base + Len(upTo[Len(parts)]) + 1, m.name,
                                 Proto!FieldsOf(m), info))
  <1>. DEFINE fs == m.fields
              found == Proto!FieldsOf(m)
              n == Len(fs)
              At(k) == Proto!InMessage(base + Len(upTo[k]) + 1, m.name,
                                       SubSeq(found, 1, k), info)
              Good == {k \in 0 .. n : Reaches(tokens, after, At(k))}
  <1>1. /\ m.name \in TokenTexts /\ fs \in Seq(Fields) /\ n \in Nat
        /\ found \in Seq(FieldInfos) /\ Len(found) = n
        /\ \A j \in 1 .. n : fs[j] \in Fields /\ found[j] = FieldFound(fs[j])
    BY FoundTyped
  <1>2. /\ parts \in Seq(Seq(TokenTexts)) /\ Len(parts) = n
        /\ \A i \in 1 .. n : parts[i] = Proto!FieldTokens(fs[i])
    BY <1>1, FieldPartsTyped
  <1>3. \A j \in 1 .. n : PlainField(fs[j])
    OBVIOUS
  <1>. HIDE DEF found, n
  <1>4. 0 \in Good /\ Good \in SUBSET (0 .. n)
    <2>1. SubSeq(found, 1, 0) = <<>>
      BY SubSeqEmpty
    <2>2. Len(upTo[0]) = 0
      BY DEF Joins
    <2>3. base + Len(upTo[0]) + 1 = base + 1
      BY <2>2
    <2>4. Reaches(tokens, after, At(0))
      BY <2>1, <2>3
    <2>. HIDE DEF At
    <2>. QED
      BY <1>1, <2>4
  <1>5. ASSUME NEW k \in 1 .. n, k - 1 \in Good PROVE k \in Good
    <2>. DEFINE g == fs[k]
                p == base + Len(upTo[k - 1])
                fields == SubSeq(found, 1, k - 1)
    <2>1. g \in Fields /\ PlainField(g) /\ parts[k] = Proto!FieldTokens(g) /\ k \in 1 .. Len(parts)
      BY <1>1, <1>2, <1>3
    <2>2. /\ Len(upTo[k - 1]) \in Nat /\ Len(parts[k]) \in Nat
          /\ Len(upTo[k]) = Len(upTo[k - 1]) + Len(parts[k])
      BY <1>2, <2>1, PartsJoined
    <2>3. Located(tokens, p, parts[k])
      BY <2>1 DEF PartsIn
    <2>4. p \in Nat /\ base + Len(upTo[k]) + 1 = p + Len(parts[k]) + 1
      <3>. DEFINE a == Len(upTo[k - 1])
                  b == Len(parts[k])
                  c == Len(upTo[k])
      <3>1. a \in Nat /\ b \in Nat /\ c = a + b
        BY <2>2
      <3>. HIDE DEF a, b, c
      <3>2. base + a \in Nat /\ base + c + 1 = (base + a) + b + 1
        BY <3>1
      <3>. QED
        BY <3>2 DEF a, b, c
    <2>5. /\ fields \in Seq(FieldInfos)
          /\ SubSeq(found, 1, k) = Append(fields, FieldFound(g))
      BY <1>1, BeginningGrows
    <2>6. Reaches(tokens, after, Proto!InMessage(p + 1, m.name, fields, info))
      BY <1>5
    <2>. HIDE DEF p, g, fields
    <2>7. Reaches(tokens, after,
                  Proto!InMessage(p + Len(Proto!FieldTokens(g)) + 1, m.name,
                                  Append(fields, FieldFound(g)), info))
      BY <1>1, <2>1, <2>3, <2>4, <2>5, <2>6, FieldRead
    <2>8. Reaches(tokens, after, At(k))
      BY <2>1, <2>4, <2>5, <2>7
    <2>9. k \in 0 .. n
      BY <1>1
    <2>. HIDE DEF At
    <2>. QED
      BY <2>8, <2>9
  <1>. HIDE DEF Good
  <1>6. \A k \in 0 .. n : k \in Good
    BY <1>1, <1>4, <1>5, LoopKeeps
  <1>7. n \in Good
    BY <1>1, <1>6
  <1>8. Reaches(tokens, after, At(n))
    BY <1>7 DEF Good
  <1>9. SubSeq(found, 1, n) = found
    BY <1>1, SubSeqFull
  <1>. QED
    BY <1>2, <1>8, <1>9 DEF found

PlainMessage(m) == \A j \in 1 .. Len(m.fields) : PlainField(m.fields[j])

FieldPartsOf(m) == [i \in 1 .. Len(m.fields) |-> Proto!FieldTokens(m.fields[i])]

\* The body of a message is its head and its fields.
LEMMA BodyParts ==
  ASSUME NEW m \in Messages
  PROVE  \E upTo :
           /\ Joins(TokenTexts, FieldPartsOf(m), upTo)
           /\ upTo[Len(FieldPartsOf(m))] \in Seq(TokenTexts)
           /\ Proto!BodyTokens(m) \in Seq(TokenTexts)
           /\ Len(Proto!BodyTokens(m)) = 3 + Len(upTo[Len(FieldPartsOf(m))])
           /\ Proto!BodyTokens(m)[1] = "message" /\ Proto!BodyTokens(m)[2] = m.name
           /\ Proto!BodyTokens(m)[3] = "{"
           /\ Located(Proto!BodyTokens(m), 3, upTo[Len(FieldPartsOf(m))])
  <1>. DEFINE parts == FieldPartsOf(m)
              head == <<"message", m.name, "{">>
  <1>1. m.name \in TokenTexts /\ m.fields \in Seq(Fields)
    BY FoundTyped
  <1>2. parts \in Seq(Seq(TokenTexts))
    BY <1>1, FieldPartsTyped DEF FieldPartsOf
  <1>3. Proto!BodyTokens(m) = head \o Proto!Joined(parts)
    BY DEF Proto!BodyTokens, FieldPartsOf
  <1>4. PICK upTo : Joins(TokenTexts, parts, upTo) /\ Proto!Joined(parts) = upTo[Len(parts)]
    <2>. HIDE DEF parts
    <2>. QED
      BY <1>2, JoinedRuns
  <1>. DEFINE all == upTo[Len(parts)]
              t == head \o all
  <1>5. all \in Seq(TokenTexts)
    <2>1. Len(parts) \in 0 .. Len(parts)
      BY <1>2, LenProperties
    <2>. HIDE DEF parts
    <2>. QED
      BY <1>4, <2>1 DEF Joins
  <1>6. head \in Seq(TokenTexts) /\ Len(head) = 3
    <2>1. "message" \in TokenTexts /\ "{" \in TokenTexts
      BY LiteralsTyped
    <2>2. \A a, b, c \in TokenTexts : <<a, b, c>> \in Seq(TokenTexts) /\ Len(<<a, b, c>>) = 3
      OBVIOUS
    <2>. QED
      BY <1>1, <2>1, <2>2
  <1>7. head[1] = "message" /\ head[2] = m.name /\ head[3] = "{"
    OBVIOUS
  <1>8. t = Proto!BodyTokens(m)
    BY <1>3, <1>4
  <1>. HIDE DEF head, all, parts
  <1>9. /\ t \in Seq(TokenTexts) /\ Len(t) = Len(head) + Len(all)
        /\ Located(t, 0, head) /\ Located(t, Len(head), all)
    BY <1>5, <1>6, ConcatLocated
  <1>. HIDE DEF t
  <1>10. t[1] = head[1] /\ t[2] = head[2] /\ t[3] = head[3]
    <2>1. 1 \in 1 .. Len(head) /\ 2 \in 1 .. Len(head) /\ 3 \in 1 .. Len(head)
      BY <1>6
    <2>2. t[0 + 1] = head[1] /\ t[0 + 2] = head[2] /\ t[0 + 3] = head[3]
      BY <1>9, <2>1 DEF Located
    <2>. QED
      BY <2>2
  <1>11. Len(t) = 3 + Len(all) /\ Located(t, 3, all)
    BY <1>6, <1>9
  <1>12. t[1] = "message" /\ t[2] = m.name /\ t[3] = "{"
    BY <1>7, <1>10
  <1>. QED
    BY <1>4, <1>5, <1>8, <1>9, <1>11, <1>12 DEF all, parts

\* The tokens end at k, or a "}" is next.
EndsAt(tokens, k) == k = Len(tokens) \/ tokens[k + 1] = "}"

\* The body of a message is read up to the token that closes it.
LEMMA BodyRead ==
  ASSUME NEW tokens \in Seq(TokenTexts), NEW after, PassRun(tokens, after),
         NEW p \in Nat, NEW m \in Messages, PlainMessage(m),
         NEW t, t = Proto!BodyTokens(m), Located(tokens, p, t),
         EndsAt(tokens, p + Len(t)),
         NEW info \in Infos, Reaches(tokens, after, Proto!InFile(p + 1, info))
  PROVE  Reaches(tokens, after,
                 Proto!InMessage(p + Len(t) + 1, m.name, Proto!FieldsOf(m), info))
  <1>. DEFINE parts == FieldPartsOf(m)
  <1>1. PICK upTo :
          /\ Joins(TokenTexts, parts, upTo)
          /\ upTo[Len(parts)] \in Seq(TokenTexts)
          /\ t \in Seq(TokenTexts)
          /\ Len(t) = 3 + Len(upTo[Len(parts)])
          /\ t[1] = "message" /\ t[2] = m.name /\ t[3] = "{"
          /\ Located(t, 3, upTo[Len(parts)])
    BY BodyParts
  <1>2. /\ m.name \in TokenTexts /\ m.fields \in Seq(Fields) /\ Len(m.fields) \in Nat
        /\ \A j \in 1 .. Len(m.fields) : m.fields[j] \in Fields
    BY FoundTyped
  <1>3. /\ parts \in Seq(Seq(TokenTexts)) /\ Len(parts) = Len(m.fields)
        /\ \A i \in 1 .. Len(m.fields) : parts[i] = Proto!FieldTokens(m.fields[i])
    BY <1>2, FieldPartsTyped DEF FieldPartsOf
  <1>. HIDE DEF parts
  <1>. DEFINE all == upTo[Len(parts)]
              base == p + 3
              i == p + 1
              first == Proto!InMessage(base + 1, m.name, <<>>, info)
              st == Proto!InFile(i, info)
  <1>4. Len(all) \in Nat /\ Len(t) \in Nat /\ Len(tokens) \in Nat /\ Len(t) = 3 + Len(all)
    BY <1>1, LenProperties
  <1>5. Located(tokens, base, all)
    <2>1. Located(t, 3, all)
      BY <1>1
    <2>. HIDE DEF all
    <2>. QED
      BY <1>4, <2>1, LocatedWithin
  <1>6. PartsIn(tokens, base, parts, upTo)
    <2>1. Located(tokens, base, upTo[Len(parts)]) /\ Joins(TokenTexts, parts, upTo)
      BY <1>1, <1>5
    <2>2. base \in Nat
      OBVIOUS
    <2>. HIDE DEF base, all
    <2>. QED
      BY <1>3, <2>1, <2>2, JoinedIn
  <1>7. p + Len(t) <= Len(tokens) /\ \A j \in 1 .. Len(t) : tokens[p + j] = t[j]
    BY DEF Located
  <1>8. tokens[p + 1] = "message" /\ tokens[p + 2] = m.name /\ tokens[p + 3] = "{"
    <2>1. 1 \in 1 .. Len(t) /\ 2 \in 1 .. Len(t) /\ 3 \in 1 .. Len(t)
      BY <1>4
    <2>. QED
      BY <1>1, <1>7, <2>1
  <1>. HIDE DEF all
  <1>9. p + 3 <= Len(tokens)
    BY <1>4, <1>7
  <1>10. p + 4 > Len(tokens) \/ tokens[p + 4] # "{"
    <2>1. CASE Len(m.fields) = 0
      <3>1. all = <<>>
        BY <1>1, <1>3, <2>1 DEF Joins, all
      <3>2. Len(all) = 0
        BY <3>1
      <3>3. p + Len(t) + 1 = p + 4
        BY <1>4, <3>2
      <3>4. p + Len(t) = Len(tokens) \/ tokens[p + 4] = "}"
        BY <3>3 DEF EndsAt
      <3>5. p + Len(t) = Len(tokens) => p + 4 > Len(tokens)
        BY <1>4, <3>3
      <3>. QED
        BY <3>4, <3>5
    <2>2. CASE Len(m.fields) # 0
      <3>. DEFINE g == m.fields[1]
                  s == Proto!FieldTokens(g)
      <3>1. 1 \in 1 .. Len(m.fields) /\ 1 \in 1 .. Len(parts)
        BY <1>2, <1>3, <2>2
      <3>2. g \in Fields /\ PlainField(g) /\ parts[1] = s
        BY <1>2, <1>3, <3>1 DEF PlainMessage
      <3>. HIDE DEF g
      <3>3. LET d == Flag(g)
            IN /\ d \in {0, 1} /\ Len(s) = d + 5 /\ s[d + 1] = g.type
               /\ d = 1 => s[1] \in Proto!Labels
        BY <3>2, FieldParts
      <3>4. Len(s) \in Nat /\ 1 \in 1 .. Len(s)
        BY <3>3
      <3>5. s[1] # "{"
        <4>1. CASE Flag(g) = 0
          <5>1. s[1] = g.type
            BY <3>3, <4>1
          <5>. QED
            BY <3>2, <5>1 DEF PlainField
        <4>2. CASE Flag(g) = 1
          <5>1. s[1] \in Proto!Labels
            BY <3>3, <4>2
          <5>. QED
            BY <5>1 DEF Proto!Labels
        <4>. QED
          BY <3>3, <4>1, <4>2
      <3>6. Located(tokens, base + Len(upTo[1 - 1]), s)
        BY <1>6, <3>1, <3>2 DEF PartsIn
      <3>7. Len(upTo[1 - 1]) = 0
        <4>1. 1 - 1 = 0
          OBVIOUS
        <4>2. upTo[1 - 1] = <<>>
          BY <1>1, <4>1 DEF Joins
        <4>. QED
          BY <4>2
      <3>8. Located(tokens, base, s)
        BY <3>6, <3>7
      <3>. HIDE DEF s
      <3>9. tokens[base + 1] = s[1]
        BY <3>4, <3>8 DEF Located
      <3>10. base + 1 = p + 4
        OBVIOUS
      <3>. QED
        BY <3>5, <3>9, <3>10
    <2>. QED
      BY <2>1, <2>2
  <1>11. Proto!BodyStart(tokens, i + 1) = base + 1
    <2>. DEFINE j == Proto!BodyStart(tokens, i + 1)
    <2>1. i + 1 \in 1 .. Len(tokens) /\ i + 1 = p + 2
      BY <1>4, <1>9
    <2>2. /\ j \in (i + 1) + 1 .. Len(tokens) + 1
          /\ j > Len(tokens) \/ tokens[j] # "{"
          /\ \A k \in (i + 1) + 1 .. j - 1 : tokens[k] = "{"
      BY <2>1, BodyBegins
    <2>. HIDE DEF j
    <2>3. j \in Nat /\ j >= p + 3 /\ j <= Len(tokens) + 1
      <3>1. j \in (i + 1) + 1 .. Len(tokens) + 1
        BY <2>2
      <3>. QED
        BY <1>4, <3>1
    <2>4. j # p + 3
      <3>1. CASE j > Len(tokens)
        BY <1>4, <1>9, <3>1
      <3>2. CASE tokens[j] # "{"
        BY <1>8, <3>2
      <3>. QED
        BY <2>2, <3>1, <3>2
    <2>5. ~(j > p + 4)
      <3>1. SUFFICES ASSUME j > p + 4 PROVE FALSE
        OBVIOUS
      <3>2. p + 4 \in (i + 1) + 1 .. j - 1 /\ ~(p + 4 > Len(tokens))
        BY <1>4, <2>3, <3>1
      <3>3. tokens[p + 4] = "{"
        BY <2>2, <3>2
      <3>. QED
        BY <1>10, <3>2, <3>3
    <2>6. j = p + 4 /\ p + 4 = base + 1
      BY <2>3, <2>4, <2>5
    <2>. QED
      BY <2>6 DEF j
  <1>12. /\ i \in 1 .. Len(tokens) /\ i < Len(tokens) /\ i \in Nat \ {0}
         /\ base + 1 \in Nat \ {0} /\ i < base + 1
    BY <1>4, <1>9
  <1>13. first = Proto!Round(tokens, st)
    <2>. DEFINE round == Proto!Round(tokens, st)
    <2>1. tokens[i] = "message" /\ tokens[i + 1] = m.name
      <3>1. i + 1 = p + 2
        OBVIOUS
      <3>. QED
        BY <1>8, <3>1
    <2>. HIDE DEF i, base
    <2>2. round = Proto!InMessage(Proto!BodyStart(tokens, i + 1), tokens[i + 1], <<>>, info)
      BY <1>12, <2>1, FileRounds
    <2>. HIDE DEF round
    <2>3. round = first
      BY <1>11, <2>1, <2>2
    <2>. QED
      BY <2>3 DEF round
  <1>14. Reaches(tokens, after, first)
    <2>1. Reaches(tokens, after, st)
      OBVIOUS
    <2>. HIDE DEF i, base
    <2>2. st \in Passes /\ st.i = i
      BY <1>12, PlacesTyped
    <2>3. first.i = base + 1
      <3>1. <<>> \in Seq(FieldInfos)
        OBVIOUS
      <3>. DEFINE none == <<>>
      <3>2. none \in Seq(FieldInfos) /\ first = Proto!InMessage(base + 1, m.name, none, info)
        BY <3>1
      <3>. HIDE DEF none
      <3>. QED
        BY <1>2, <1>12, <3>2, PlacesTyped
    <2>4. st.i <= Len(tokens) /\ st.i < first.i
      BY <1>4, <1>12, <2>2, <2>3
    <2>. HIDE DEF first, st
    <2>. QED
      BY <1>13, <2>1, <2>2, <2>4, NextReached
  <1>15. Reaches(tokens, after,
                 Proto!InMessage(base + Len(upTo[Len(parts)]) + 1, m.name,
                                 Proto!FieldsOf(m), info))
    <2>1. base \in Nat
      OBVIOUS
    <2>2. parts = [k \in 1 .. Len(m.fields) |-> Proto!FieldTokens(m.fields[k])]
      BY DEF parts, FieldPartsOf
    <2>3. \A j \in 1 .. Len(m.fields) : PlainField(m.fields[j])
      BY DEF PlainMessage
    <2>4. Joins(TokenTexts, parts, upTo)
      BY <1>1
    <2>. HIDE DEF base
    <2>. QED
      BY <1>6, <1>14, <2>1, <2>2, <2>3, <2>4, FieldsRead
  <1>16. base + Len(all) + 1 = p + Len(t) + 1
    BY <1>4
  <1>. QED
    BY <1>15, <1>16 DEF all

WithMessage(info, m) ==
  Proto!Info(info.package, info.service, info.rpcs,
             Proto!Put(info.messages, m.name, Proto!FieldsOf(m)))

\* A message is its body and the token that closes it.
LEMMA MessageClosed ==
  ASSUME NEW m \in Messages
  PROVE  LET t == Proto!MessageTokens(m)
             b == Proto!BodyTokens(m)
         IN /\ t \in Seq(TokenTexts) /\ b \in Seq(TokenTexts) /\ Len(b) \in Nat
            /\ Len(t) = Len(b) + 1 /\ Located(t, 0, b) /\ t[Len(t)] = "}"
            /\ Len(b) >= 3 /\ t[1] = "message"
  <1>. DEFINE b == Proto!BodyTokens(m)
              close == <<"}">>
              t == b \o close
  <1>1. b \in Seq(TokenTexts) /\ b[1] = "message" /\ Len(b) \in Nat /\ Len(b) >= 3
    <2>. HIDE DEF b
    <2>1. PICK upTo :
            /\ upTo[Len(FieldPartsOf(m))] \in Seq(TokenTexts)
            /\ b \in Seq(TokenTexts) /\ b[1] = "message"
            /\ Len(b) = 3 + Len(upTo[Len(FieldPartsOf(m))])
      BY BodyParts DEF b
    <2>2. Len(upTo[Len(FieldPartsOf(m))]) \in Nat
      BY <2>1, LenProperties
    <2>3. Len(b) = 3 + Len(upTo[Len(FieldPartsOf(m))])
      BY <2>1
    <2>4. Len(b) \in Nat /\ Len(b) >= 3
      BY <2>2, <2>3
    <2>. QED
      BY <2>1, <2>4
  <1>2. close \in Seq(TokenTexts) /\ Len(close) = 1 /\ close[1] = "}"
    BY LiteralsTyped, Tuples
  <1>3. Proto!MessageTokens(m) = t
    BY DEF Proto!MessageTokens
  <1>. HIDE DEF b, close
  <1>4. /\ t \in Seq(TokenTexts) /\ Len(t) = Len(b) + Len(close)
        /\ Located(t, 0, b) /\ Located(t, Len(b), close)
    BY <1>1, <1>2, ConcatLocated
  <1>. HIDE DEF t
  <1>5. Len(close) = 1 /\ Len(b) \in Nat /\ Len(b) >= 3
    BY <1>1, <1>2
  <1>6. Len(t) = Len(b) + 1 /\ 1 \in 1 .. Len(close) /\ 1 \in 1 .. Len(b) /\ 0 + 1 = 1
    BY <1>4, <1>5
  <1>7. t[Len(b) + 1] = close[1] /\ t[0 + 1] = b[1]
    BY <1>4, <1>6 DEF Located
  <1>8. t[Len(t)] = "}" /\ t[1] = "message"
    BY <1>1, <1>2, <1>6, <1>7
  <1>. QED
    BY <1>1, <1>3, <1>4, <1>6, <1>8 DEF b

\* A message is read from its tokens.
LEMMA MessageRead ==
  ASSUME NEW tokens \in Seq(TokenTexts), NEW after, PassRun(tokens, after),
         NEW p \in Nat, NEW m \in Messages, PlainMessage(m),
         NEW t, t = Proto!MessageTokens(m), Located(tokens, p, t),
         NEW info \in Infos, Reaches(tokens, after, Proto!InFile(p + 1, info)),
         NEW found, found = WithMessage(info, m)
  PROVE  /\ found \in Infos
         /\ Reaches(tokens, after, Proto!InFile(p + Len(t) + 1, found))
  <1>. DEFINE b == Proto!BodyTokens(m)
              i == p + Len(t)
              st == Proto!InMessage(i, m.name, Proto!FieldsOf(m), info)
              next == Proto!InFile(i + 1, found)
  <1>1. /\ t \in Seq(TokenTexts) /\ b \in Seq(TokenTexts) /\ Len(b) \in Nat
        /\ Len(t) = Len(b) + 1 /\ Located(t, 0, b) /\ t[Len(t)] = "}"
    BY MessageClosed
  <1>. HIDE DEF b
  <1>2. Len(b) \in Nat /\ Len(t) = Len(b) + 1 /\ Len(t) \in Nat /\ Len(tokens) \in Nat
    BY <1>1, LenProperties
  <1>3. Located(tokens, p, b)
    <2>1. Located(tokens, p + 0, b)
      BY <1>1, <1>2, LocatedWithin
    <2>. QED
      BY <2>1
  <1>4. i = p + Len(b) + 1 /\ i \in 1 .. Len(tokens) /\ i \in Nat \ {0} /\ i + 1 \in Nat \ {0}
    <2>1. p + Len(t) <= Len(tokens)
      BY DEF Located
    <2>. QED
      BY <1>2, <2>1
  <1>5. tokens[i] = "}"
    <2>1. Len(t) \in 1 .. Len(t)
      BY <1>2
    <2>2. tokens[p + Len(t)] = t[Len(t)]
      BY <2>1 DEF Located
    <2>. QED
      BY <1>1, <2>2
  <1>6. EndsAt(tokens, p + Len(b))
    <2>1. tokens[p + Len(b) + 1] = "}"
      BY <1>4, <1>5
    <2>. QED
      BY <2>1 DEF EndsAt
  <1>7. Reaches(tokens, after,
                Proto!InMessage(p + Len(b) + 1, m.name, Proto!FieldsOf(m), info))
    BY <1>3, <1>6, BodyRead DEF b
  <1>8. Reaches(tokens, after, st)
    BY <1>4, <1>7
  <1>9. m.name \in TokenTexts /\ Proto!FieldsOf(m) \in Seq(FieldInfos)
    BY FoundTyped
  <1>10. found \in Infos
    <2>1. /\ info.package \in TokenTexts /\ info.service \in TokenTexts
          /\ info.rpcs \in Seq(RpcInfos) /\ info.messages \in MessageMaps
      BY InfoTyped
    <2>. DEFINE put == Proto!Put(info.messages, m.name, Proto!FieldsOf(m))
    <2>2. put \in MessageMaps
      BY <1>9, <2>1, PutTyped
    <2>3. found = Proto!Info(info.package, info.service, info.rpcs, put)
      BY DEF WithMessage
    <2>. HIDE DEF put
    <2>. QED
      BY <2>1, <2>2, <2>3, InfoTyped
  <1>. HIDE DEF i
  <1>11. next = Proto!Round(tokens, st)
    BY <1>4, <1>5, <1>9, MessageRounds DEF WithMessage
  <1>12. st \in Passes /\ st.i = i /\ next.i = i + 1
    BY <1>4, <1>9, <1>10, PlacesTyped
  <1>. HIDE DEF st, next
  <1>13. Reaches(tokens, after, next)
    <2>1. st.i <= Len(tokens) /\ st.i < next.i
      BY <1>2, <1>4, <1>12
    <2>. QED
      BY <1>8, <1>11, <1>12, <2>1, NextReached
  <1>. QED
    BY <1>10, <1>13 DEF next, i

MessagesFound(messages, ms, k) ==
  /\ DOMAIN messages = {ms[i].name : i \in 1 .. k}
  /\ \A i \in 1 .. k : messages[ms[i].name] = Proto!FieldsOf(ms[i])

MessageParts(parts, ms) ==
  /\ parts \in Seq(Seq(TokenTexts)) /\ Len(parts) = Len(ms)
  /\ \A i \in 1 .. Len(ms) : parts[i] = Proto!MessageTokens(ms[i])

\* The tokens of the messages.
LEMMA MessagePartsTyped ==
  ASSUME NEW ms \in Seq(Messages)
  PROVE  MessageParts([i \in 1 .. Len(ms) |-> Proto!MessageTokens(ms[i])], ms)
  <1>1. Len(ms) \in Nat /\ \A i \in 1 .. Len(ms) : ms[i] \in Messages
    BY LenProperties, ElementOfSeq
  <1>2. \A i \in 1 .. Len(ms) : Proto!MessageTokens(ms[i]) \in Seq(TokenTexts)
    BY <1>1, MessageClosed
  <1>. QED
    BY <1>1, <1>2 DEF MessageParts

SameService(info, found) ==
  /\ found \in Infos
  /\ found.package = info.package /\ found.service = info.service /\ found.rpcs = info.rpcs

\* The first messages are read from their tokens.
LEMMA MessagesRead ==
  ASSUME NEW tokens \in Seq(TokenTexts), NEW after, PassRun(tokens, after),
         NEW base \in Nat, NEW ms \in Seq(Messages), NEW n \in 0 .. Len(ms),
         \A i \in 1 .. Len(ms) : PlainMessage(ms[i]),
         \A i, j \in 1 .. Len(ms) : ms[i].name = ms[j].name => i = j,
         NEW parts, MessageParts(parts, ms),
         NEW upTo, Joins(TokenTexts, parts, upTo),
         \A i \in 1 .. n : Located(tokens, base + Len(upTo[i - 1]), parts[i]),
         NEW info \in Infos, info.messages = Proto!NoMessages,
         Reaches(tokens, after, Proto!InFile(base + 1, info))
  PROVE  \E found : /\ SameService(info, found) /\ MessagesFound(found.messages, ms, n)
                    /\ Reaches(tokens, after, Proto!InFile(base + Len(upTo[n]) + 1, found))
  <1>. DEFINE ReadUpTo(k) ==
                \E found : /\ SameService(info, found) /\ MessagesFound(found.messages, ms, k)
                           /\ Reaches(tokens, after,
                                      Proto!InFile(base + Len(upTo[k]) + 1, found))
              Good == {k \in 0 .. n : ReadUpTo(k)}
  <1>1. Len(ms) \in Nat /\ n \in Nat /\ \A i \in 1 .. n : i \in 1 .. Len(ms)
    BY LenProperties
  <1>2. /\ parts \in Seq(Seq(TokenTexts)) /\ Len(parts) = Len(ms)
        /\ \A i \in 1 .. Len(ms) : parts[i] = Proto!MessageTokens(ms[i])
    BY DEF MessageParts
  <1>3. \A i \in 1 .. Len(ms) : ms[i] \in Messages
    BY ElementOfSeq
  <1>4. \A k \in 1 .. Len(parts) :
          /\ Len(upTo[k - 1]) \in Nat /\ Len(parts[k]) \in Nat
          /\ Len(upTo[k]) = Len(upTo[k - 1]) + Len(parts[k])
    <2>1. parts \in Seq(Seq(TokenTexts))
      BY <1>2
    <2>. QED
      BY <2>1, PartsGrow
  <1>5. 0 \in Good /\ Good \in SUBSET (0 .. n)
    <2>1. Len(upTo[0]) = 0
      BY DEF Joins
    <2>2. base + Len(upTo[0]) + 1 = base + 1
      BY <2>1
    <2>3. SameService(info, info)
      BY DEF SameService
    <2>4. MessagesFound(info.messages, ms, 0)
      <3>1. DOMAIN Proto!NoMessages = {}
        BY DEF Proto!NoMessages
      <3>2. \A i : i \notin 1 .. 0
        OBVIOUS
      <3>. QED
        BY <3>1, <3>2 DEF MessagesFound
    <2>5. ReadUpTo(0)
      BY <2>2, <2>3, <2>4
    <2>. HIDE DEF ReadUpTo
    <2>. QED
      BY <1>1, <2>5
  <1>6. ASSUME NEW k \in 1 .. n, k - 1 \in Good PROVE k \in Good
    <2>. DEFINE m == ms[k]
                p == base + Len(upTo[k - 1])
                prev == k - 1
    <2>1. k \in 1 .. Len(ms) /\ k \in 1 .. Len(parts) /\ k \in Nat /\ prev \in Nat
      BY <1>1, <1>2
    <2>2. m \in Messages /\ PlainMessage(m) /\ parts[k] = Proto!MessageTokens(m)
      BY <1>2, <1>3, <2>1
    <2>3. p \in Nat /\ base + Len(upTo[k]) + 1 = p + Len(parts[k]) + 1
      <3>. DEFINE a == Len(upTo[k - 1])
                  b == Len(parts[k])
                  c == Len(upTo[k])
      <3>1. a \in Nat /\ b \in Nat /\ c = a + b
        <4>1. /\ Len(upTo[k - 1]) \in Nat /\ Len(parts[k]) \in Nat
              /\ Len(upTo[k]) = Len(upTo[k - 1]) + Len(parts[k])
          BY <1>4, <2>1
        <4>. QED
          BY <4>1
      <3>. HIDE DEF a, b, c
      <3>2. base + a \in Nat /\ base + c + 1 = (base + a) + b + 1
        BY <3>1
      <3>. QED
        BY <3>2 DEF a, b, c
    <2>4. Located(tokens, p, parts[k])
      OBVIOUS
    <2>5. ReadUpTo(prev)
      BY <1>6
    <2>6. PICK old : /\ SameService(info, old) /\ MessagesFound(old.messages, ms, prev)
                     /\ Reaches(tokens, after, Proto!InFile(p + 1, old))
      BY <2>5
    <2>. DEFINE new == WithMessage(old, m)
                t == parts[k]
    <2>. HIDE DEF m, p, new, t
    <2>7. /\ new \in Infos
          /\ Reaches(tokens, after, Proto!InFile(p + Len(t) + 1, new))
      <3>1. old \in Infos
        BY <2>6 DEF SameService
      <3>2. t = Proto!MessageTokens(m) /\ Located(tokens, p, t) /\ p \in Nat
        BY <2>2, <2>3, <2>4 DEF t
      <3>3. new = WithMessage(old, m)
        BY DEF new
      <3>. QED
        BY <2>2, <2>6, <3>1, <3>2, <3>3, MessageRead
    <2>8. /\ m.name \in TokenTexts /\ Proto!FieldsOf(m) \in Seq(FieldInfos)
          /\ old \in Infos
      BY <2>2, <2>6, FoundTyped DEF SameService
    <2>. DEFINE put == Proto!Put(old.messages, m.name, Proto!FieldsOf(m))
    <2>9. put \in MessageMaps /\ IsPut(put, old.messages, m.name, Proto!FieldsOf(m))
      BY <2>8, InfoTyped, PutTyped
    <2>. HIDE DEF put
    <2>10. /\ new.package = old.package /\ new.service = old.service
           /\ new.rpcs = old.rpcs /\ new.messages = put
      <3>1. new = Proto!Info(old.package, old.service, old.rpcs, put)
        BY DEF new, WithMessage, put
      <3>. QED
        BY <2>8, <2>9, <3>1, InfoTyped
    <2>11. SameService(info, new)
      BY <2>6, <2>7, <2>10 DEF SameService
    <2>12. MessagesFound(put, ms, k)
      <3>1. /\ DOMAIN put = DOMAIN old.messages \union {m.name}
            /\ put[m.name] = Proto!FieldsOf(m)
            /\ \A x \in DOMAIN old.messages : x # m.name => put[x] = old.messages[x]
        BY <2>9 DEF IsPut
      <3>2. /\ DOMAIN old.messages = {ms[i].name : i \in 1 .. prev}
            /\ \A i \in 1 .. prev : old.messages[ms[i].name] = Proto!FieldsOf(ms[i])
        BY <2>6 DEF MessagesFound
      <3>3. \A i \in 1 .. k : i \in 1 .. prev \/ i = k
        BY <2>1
      <3>4. \A i \in 1 .. prev : i \in 1 .. k /\ i \in 1 .. Len(ms) /\ i # k
        BY <1>1, <2>1
      <3>5. k \in 1 .. k
        BY <2>1
      <3>. HIDE DEF prev
      <3>6. DOMAIN put = {ms[i].name : i \in 1 .. k}
        BY <3>1, <3>2, <3>3, <3>4, <3>5 DEF m
      <3>7. ASSUME NEW i \in 1 .. k PROVE put[ms[i].name] = Proto!FieldsOf(ms[i])
        <4>1. CASE i = k
          BY <3>1, <4>1 DEF m
        <4>2. CASE i \in 1 .. prev
          <5>1. ms[i].name \in DOMAIN old.messages /\ ms[i].name # m.name
            BY <2>1, <3>2, <3>4, <4>2 DEF m
          <5>. QED
            BY <3>1, <3>2, <4>2, <5>1
        <4>. QED
          BY <3>3, <4>1, <4>2
      <3>. QED
        BY <3>6, <3>7 DEF MessagesFound
    <2>13. Reaches(tokens, after, Proto!InFile(base + Len(upTo[k]) + 1, new))
      <3>1. base + Len(upTo[k]) + 1 = p + Len(t) + 1
        BY <2>3 DEF t
      <3>. QED
        BY <2>7, <3>1
    <2>14. ReadUpTo(k)
      BY <2>10, <2>11, <2>12, <2>13
    <2>15. k \in 0 .. n
      BY <1>1
    <2>. HIDE DEF ReadUpTo
    <2>. QED
      BY <2>14, <2>15
  <1>. HIDE DEF Good
  <1>7. \A k \in 0 .. n : k \in Good
    BY <1>1, <1>5, <1>6, LoopKeeps
  <1>8. n \in Good
    BY <1>1, <1>7
  <1>. QED
    BY <1>8 DEF Good

RpcPartsAre(parts, rs) ==
  /\ parts \in Seq(Seq(TokenTexts)) /\ Len(parts) = Len(rs)
  /\ \A i \in 1 .. Len(rs) : parts[i] = Proto!RpcTokens(rs[i])

\* The tokens of the calls.
LEMMA RpcPartsTyped ==
  ASSUME NEW rs \in Seq(Rpcs), \A i \in 1 .. Len(rs) : PlainRpc(rs[i])
  PROVE  RpcPartsAre([i \in 1 .. Len(rs) |-> Proto!RpcTokens(rs[i])], rs)
  <1>1. Len(rs) \in Nat /\ \A i \in 1 .. Len(rs) : rs[i] \in Rpcs
    BY LenProperties, ElementOfSeq
  <1>2. \A i \in 1 .. Len(rs) : Proto!RpcTokens(rs[i]) \in Seq(TokenTexts)
    BY <1>1, RpcParts
  <1>. QED
    BY <1>1, <1>2 DEF RpcPartsAre

\* The tokens ahead of each call give its mode.
ModesIn(tokens, base, upTo, rs) ==
  \A i \in 1 .. Len(rs) : Proto!Mode(tokens, base + Len(upTo[i - 1]) + 1) = rs[i].mode

SameBut(info, found) ==
  /\ found \in Infos
  /\ found.package = info.package /\ found.service = info.service
  /\ found.messages = info.messages

\* The calls are read from their tokens.
LEMMA RpcsRead ==
  ASSUME NEW tokens \in Seq(TokenTexts), NEW after, PassRun(tokens, after),
         NEW base \in Nat, NEW rs \in Seq(Rpcs),
         \A i \in 1 .. Len(rs) : PlainRpc(rs[i]),
         NEW parts, RpcPartsAre(parts, rs),
         NEW upTo, Joins(TokenTexts, parts, upTo), PartsIn(tokens, base, parts, upTo),
         ModesIn(tokens, base, upTo, rs),
         NEW info \in Infos, info.rpcs = <<>>,
         Reaches(tokens, after, Proto!InFile(base + 1, info))
  PROVE  \E found : /\ SameBut(info, found) /\ found.rpcs = rs
                    /\ Reaches(tokens, after,
                               Proto!InFile(base + Len(upTo[Len(parts)]) + 1, found))
  <1>. DEFINE n == Len(rs)
              ReadUpTo(k) ==
                \E found : /\ SameBut(info, found) /\ found.rpcs = SubSeq(rs, 1, k)
                           /\ Reaches(tokens, after,
                                      Proto!InFile(base + Len(upTo[k]) + 1, found))
              Good == {k \in 0 .. n : ReadUpTo(k)}
  <1>1. n \in Nat
    BY LenProperties
  <1>2. /\ parts \in Seq(Seq(TokenTexts)) /\ Len(parts) = n
        /\ \A i \in 1 .. n : parts[i] = Proto!RpcTokens(rs[i])
    BY DEF RpcPartsAre
  <1>3. \A i \in 1 .. n : rs[i] \in Rpcs /\ PlainRpc(rs[i])
    BY ElementOfSeq
  <1>4. \A k \in 1 .. Len(parts) :
          /\ Len(upTo[k - 1]) \in Nat /\ Len(parts[k]) \in Nat
          /\ Len(upTo[k]) = Len(upTo[k - 1]) + Len(parts[k])
    <2>1. parts \in Seq(Seq(TokenTexts))
      BY <1>2
    <2>. QED
      BY <2>1, PartsGrow
  <1>5. 0 \in Good /\ Good \in SUBSET (0 .. n)
    <2>1. Len(upTo[0]) = 0
      BY DEF Joins
    <2>2. base + Len(upTo[0]) + 1 = base + 1
      BY <2>1
    <2>3. SameBut(info, info)
      BY DEF SameBut
    <2>4. SubSeq(rs, 1, 0) = <<>>
      BY SubSeqEmpty
    <2>5. ReadUpTo(0)
      BY <2>2, <2>3, <2>4
    <2>. HIDE DEF ReadUpTo, n
    <2>. QED
      BY <1>1, <2>5
  <1>6. ASSUME NEW k \in 1 .. n, k - 1 \in Good PROVE k \in Good
    <2>. DEFINE r == rs[k]
                p == base + Len(upTo[k - 1])
                prev == k - 1
    <2>1. k \in 1 .. Len(parts) /\ k \in 1 .. Len(rs)
      BY <1>2
    <2>2. r \in Rpcs /\ PlainRpc(r) /\ parts[k] = Proto!RpcTokens(r)
      BY <1>2, <1>3
    <2>3. p \in Nat /\ base + Len(upTo[k]) + 1 = p + Len(parts[k]) + 1
      <3>. DEFINE a == Len(upTo[k - 1])
                  b == Len(parts[k])
                  c == Len(upTo[k])
      <3>1. a \in Nat /\ b \in Nat /\ c = a + b
        BY <1>4, <2>1
      <3>. HIDE DEF a, b, c
      <3>2. base + a \in Nat /\ base + c + 1 = (base + a) + b + 1
        BY <3>1
      <3>. QED
        BY <3>2 DEF a, b, c
    <2>4. Located(tokens, p, parts[k])
      BY <2>1 DEF PartsIn
    <2>5. Proto!Mode(tokens, p + 1) = r.mode
      BY <2>1 DEF ModesIn
    <2>6. ReadUpTo(prev)
      BY <1>6
    <2>7. PICK old : /\ SameBut(info, old) /\ old.rpcs = SubSeq(rs, 1, prev)
                     /\ Reaches(tokens, after, Proto!InFile(p + 1, old))
      BY <2>6
    <2>8. SubSeq(rs, 1, k) = Append(SubSeq(rs, 1, prev), r)
      BY BeginningGrows
    <2>. DEFINE new == WithRpc(old, r)
                t == parts[k]
    <2>. HIDE DEF r, p, new, t, prev
    <2>9. /\ new \in Infos
          /\ Reaches(tokens, after, Proto!InFile(p + Len(t) + 1, new))
      <3>1. old \in Infos
        BY <2>7 DEF SameBut
      <3>2. t = Proto!RpcTokens(r) /\ Located(tokens, p, Proto!RpcTokens(r)) /\ p \in Nat
        BY <2>2, <2>3, <2>4 DEF t
      <3>3. new = WithRpc(old, r)
        BY DEF new
      <3>4. /\ new \in Infos
            /\ Reaches(tokens, after, Proto!InFile(p + Len(Proto!RpcTokens(r)) + 1, new))
        <4>1. Located(tokens, p, Proto!RpcTokens(r)) /\ p \in Nat
          BY <3>2
        <4>2. r \in Rpcs /\ PlainRpc(r)
          BY <2>2
        <4>3. Reaches(tokens, after, Proto!InFile(p + 1, old))
          BY <2>7
        <4>. QED
          BY <2>5, <3>1, <3>3, <4>1, <4>2, <4>3, RpcRead
      <3>. QED
        BY <3>2, <3>4
    <2>10. /\ new.package = old.package /\ new.service = old.service
           /\ new.rpcs = Append(old.rpcs, r) /\ new.messages = old.messages
      BY DEF new, WithRpc, Proto!Info
    <2>11. SameBut(info, new) /\ new.rpcs = SubSeq(rs, 1, k)
      BY <2>7, <2>8, <2>9, <2>10 DEF SameBut
    <2>12. Reaches(tokens, after, Proto!InFile(base + Len(upTo[k]) + 1, new))
      <3>1. base + Len(upTo[k]) + 1 = p + Len(t) + 1
        BY <2>3 DEF t
      <3>. QED
        BY <2>9, <3>1
    <2>13. ReadUpTo(k)
      BY <2>11, <2>12
    <2>14. k \in 0 .. n
      BY <1>1
    <2>. HIDE DEF ReadUpTo, n
    <2>. QED
      BY <2>13, <2>14
  <1>. HIDE DEF Good, n
  <1>7. \A k \in 0 .. n : k \in Good
    BY <1>1, <1>5, <1>6, LoopKeeps
  <1>8. n \in Good
    BY <1>1, <1>7
  <1>9. ReadUpTo(n)
    BY <1>8 DEF Good
  <1>10. SubSeq(rs, 1, n) = rs /\ Len(parts) = n
    BY <1>2, SubSeqFull DEF n
  <1>. QED
    BY <1>9, <1>10

\* The descriptions of a service.
Services ==
  [package : TokenTexts, service : TokenTexts, rpcs : Seq(Rpcs), messages : Seq(Messages)]

FileHead(f) == <<"package", f.package, ";", "service", f.service, "{">>

\* The tokens before the calls.
LEMMA HeadTyped ==
  ASSUME NEW f \in Services
  PROVE  /\ FileHead(f) \in Seq(TokenTexts) /\ Len(FileHead(f)) = 6
         /\ FileHead(f)[1] = "package" /\ FileHead(f)[2] = f.package /\ FileHead(f)[3] = ";"
         /\ FileHead(f)[4] = "service" /\ FileHead(f)[5] = f.service /\ FileHead(f)[6] = "{"
  <1>. DEFINE head == <<"package", f.package, ";", "service", f.service, "{">>
  <1>1. f.package \in TokenTexts /\ f.service \in TokenTexts
    BY DEF Services
  <1>2. /\ "package" \in TokenTexts /\ ";" \in TokenTexts /\ "service" \in TokenTexts
        /\ "{" \in TokenTexts
    BY LiteralsTyped
  <1>3. \A a, b, c, d, e, g \in TokenTexts :
          <<a, b, c, d, e, g>> \in Seq(TokenTexts) /\ Len(<<a, b, c, d, e, g>>) = 6
    OBVIOUS
  <1>4. head \in Seq(TokenTexts) /\ Len(head) = 6
    BY <1>1, <1>2, <1>3
  <1>5. /\ head[1] = "package" /\ head[2] = f.package /\ head[3] = ";"
        /\ head[4] = "service" /\ head[5] = f.service /\ head[6] = "{"
    OBVIOUS
  <1>6. FileHead(f) = head
    BY DEF FileHead
  <1>. HIDE DEF head
  <1>. QED
    BY <1>4, <1>5, <1>6

\* The package and the name are read from their tokens.
LEMMA HeadRead ==
  ASSUME NEW tokens \in Seq(TokenTexts), NEW after, PassRun(tokens, after),
         NEW f \in Services, f.package \notin Proto!Keywords, f.service \notin Proto!Keywords,
         Located(tokens, 0, FileHead(f))
  PROVE  \E info \in Infos :
           /\ info.package = f.package /\ info.service = f.service
           /\ info.rpcs = <<>> /\ info.messages = Proto!NoMessages
           /\ Reaches(tokens, after, Proto!InFile(7, info))
  <1>. DEFINE head == FileHead(f)
              none == <<>>
              i0 == Proto!Info(Proto!NoName, Proto!NoName, none, Proto!NoMessages)
              i1 == Proto!Info(f.package, i0.service, i0.rpcs, i0.messages)
              i2 == Proto!Info(i1.package, f.service, i1.rpcs, i1.messages)
  <1>1. f.package \in TokenTexts /\ f.service \in TokenTexts
    BY DEF Services
  <1>2. none \in Seq(RpcInfos) /\ Proto!NoMessages \in MessageMaps
    <2>1. Proto!NoMessages \in [{} -> Seq(FieldInfos)]
      BY DEF Proto!NoMessages
    <2>. QED
      BY <2>1 DEF MessageMaps, Maps
  <1>3. Proto!Start = Proto!InFile(1, i0)
    BY DEF Proto!Start
  <1>. HIDE DEF none
  <1>4. i0 \in Infos /\ i0.rpcs = none /\ i0.messages = Proto!NoMessages
    BY <1>2, NoNameTyped, InfoTyped
  <1>5. /\ i0.service \in TokenTexts /\ i0.rpcs \in Seq(RpcInfos)
        /\ i0.messages \in MessageMaps
    BY <1>4, InfoTyped
  <1>. HIDE DEF i0
  <1>6. /\ i1 \in Infos /\ i1.package = f.package
        /\ i1.rpcs = none /\ i1.messages = Proto!NoMessages
    BY <1>1, <1>4, <1>5, InfoTyped
  <1>7. /\ i1.package \in TokenTexts /\ i1.rpcs \in Seq(RpcInfos)
        /\ i1.messages \in MessageMaps
    BY <1>6, InfoTyped
  <1>. HIDE DEF i1
  <1>8. /\ i2 \in Infos /\ i2.package = f.package /\ i2.service = f.service
        /\ i2.rpcs = none /\ i2.messages = Proto!NoMessages
    BY <1>1, <1>6, <1>7, InfoTyped
  <1>. HIDE DEF i2
  <1>9. Len(tokens) \in Nat /\ 6 <= Len(tokens)
    <2>1. Len(head) = 6 /\ 0 + Len(head) <= Len(tokens)
      BY HeadTyped DEF Located
    <2>. HIDE DEF head
    <2>. QED
      BY <2>1, LenProperties
  <1>10. /\ tokens[1] = "package" /\ tokens[2] = f.package /\ tokens[3] = ";"
         /\ tokens[4] = "service" /\ tokens[5] = f.service /\ tokens[6] = "{"
    <2>1. Len(head) = 6
      BY HeadTyped
    <2>2. \A j \in 1 .. Len(head) : tokens[0 + j] = head[j]
      BY DEF Located
    <2>. HIDE DEF head
    <2>3. \A j \in 1 .. 6 : tokens[j] = head[j]
      BY <2>1, <2>2
    <2>4. /\ tokens[1] = head[1] /\ tokens[2] = head[2] /\ tokens[3] = head[3]
          /\ tokens[4] = head[4] /\ tokens[5] = head[5] /\ tokens[6] = head[6]
      BY <2>3
    <2>. QED
      BY <2>4, HeadTyped DEF head
  <1>11. /\ tokens[2] \notin Proto!Keywords /\ tokens[3] \notin Proto!Keywords
         /\ tokens[5] \notin Proto!Keywords /\ tokens[6] \notin Proto!Keywords
    BY <1>10 DEF Proto!Keywords
  <1>12. Reaches(tokens, after, Proto!InFile(2, i1))
    <2>. DEFINE st == Proto!InFile(1, i0)
                next == Proto!InFile(2, i1)
    <2>1. st \in Passes /\ st.i = 1 /\ next.i = 2
      BY <1>4, <1>6, PlacesTyped
    <2>2. next = Proto!Round(tokens, st)
      <3>1. 1 \in 1 .. Len(tokens) /\ 1 < Len(tokens) /\ 1 + 1 = 2
        BY <1>9
      <3>. DEFINE round == Proto!Round(tokens, st)
      <3>2. round = Proto!InFile(1 + 1, Proto!Info(tokens[1 + 1], i0.service, i0.rpcs,
                                                   i0.messages))
        BY <1>4, <1>10, <3>1, FileRounds
      <3>. HIDE DEF round
      <3>3. round = next
        BY <1>10, <3>1, <3>2 DEF i1
      <3>. QED
        BY <3>3 DEF round
    <2>3. Reaches(tokens, after, st)
      BY <1>3, StartReached
    <2>4. st.i <= Len(tokens) /\ st.i < next.i
      BY <1>9, <2>1
    <2>. HIDE DEF st, next
    <2>5. Reaches(tokens, after, next)
      BY <2>1, <2>2, <2>3, <2>4, NextReached
    <2>. QED
      BY <2>5 DEF next
  <1>13. Reaches(tokens, after, Proto!InFile(4, i1))
    <2>1. \A k \in 2 .. 2 + 2 - 1 : k = 2 \/ k = 3
      OBVIOUS
    <2>2. \A k \in 2 .. 2 + 2 - 1 : tokens[k] \notin Proto!Keywords
      BY <1>11, <2>1, Zenon
    <2>3. 2 + 2 <= Len(tokens) + 1 /\ 2 \in Nat \ {0} /\ 2 \in Nat /\ 2 + 2 = 4
      BY <1>9
    <2>4. Reaches(tokens, after, Proto!InFile(2 + 2, i1))
      BY <1>6, <1>12, <2>2, <2>3, SkipRead
    <2>. QED
      BY <2>3, <2>4
  <1>14. Reaches(tokens, after, Proto!InFile(5, i2))
    <2>. DEFINE st == Proto!InFile(4, i1)
                next == Proto!InFile(5, i2)
    <2>1. st \in Passes /\ st.i = 4 /\ next.i = 5
      BY <1>6, <1>8, PlacesTyped
    <2>2. next = Proto!Round(tokens, st)
      <3>1. 4 \in 1 .. Len(tokens) /\ 4 < Len(tokens) /\ 4 + 1 = 5
        BY <1>9
      <3>. DEFINE round == Proto!Round(tokens, st)
      <3>2. round = Proto!InFile(4 + 1, Proto!Info(i1.package, tokens[4 + 1], i1.rpcs,
                                                   i1.messages))
        BY <1>6, <1>10, <3>1, FileRounds
      <3>. HIDE DEF round
      <3>3. round = next
        BY <1>10, <3>1, <3>2 DEF i2
      <3>. QED
        BY <3>3 DEF round
    <2>3. Reaches(tokens, after, st)
      BY <1>13
    <2>4. st.i <= Len(tokens) /\ st.i < next.i
      BY <1>9, <2>1
    <2>. HIDE DEF st, next
    <2>5. Reaches(tokens, after, next)
      BY <2>1, <2>2, <2>3, <2>4, NextReached
    <2>. QED
      BY <2>5 DEF next
  <1>15. Reaches(tokens, after, Proto!InFile(7, i2))
    <2>1. \A k \in 5 .. 5 + 2 - 1 : k = 5 \/ k = 6
      OBVIOUS
    <2>2. \A k \in 5 .. 5 + 2 - 1 : tokens[k] \notin Proto!Keywords
      BY <1>11, <2>1, Zenon
    <2>3. 5 + 2 <= Len(tokens) + 1 /\ 5 \in Nat \ {0} /\ 2 \in Nat /\ 5 + 2 = 7
      BY <1>9
    <2>4. Reaches(tokens, after, Proto!InFile(5 + 2, i2))
      BY <1>8, <1>14, <2>2, <2>3, SkipRead
    <2>. QED
      BY <2>3, <2>4
  <1>. QED
    BY <1>8, <1>15 DEF none

\* What the tokens of a service are joined from.
FileText(f, t, rparts, rto, mparts, mto) ==
  /\ RpcPartsAre(rparts, f.rpcs) /\ Joins(TokenTexts, rparts, rto)
  /\ MessageParts(mparts, f.messages) /\ Joins(TokenTexts, mparts, mto)
  /\ t \in Seq(TokenTexts)
  /\ Len(t) = 7 + Len(rto[Len(rparts)]) + Len(mto[Len(mparts)])
  /\ Located(t, 0, FileHead(f)) /\ Located(t, 6, rto[Len(rparts)])
  /\ Located(t, 7 + Len(rto[Len(rparts)]), mto[Len(mparts)])
  /\ t[7 + Len(rto[Len(rparts)])] = "}"

\* The joined text is one.
LEMMA JoinsEnd ==
  ASSUME NEW S, NEW parts \in Seq(Seq(S)), NEW upTo, Joins(S, parts, upTo)
  PROVE  upTo[Len(parts)] \in Seq(S) /\ Len(upTo[Len(parts)]) \in Nat
  <1>1. Len(parts) \in 0 .. Len(parts)
    BY LenProperties
  <1>2. upTo[Len(parts)] \in Seq(S)
    BY <1>1 DEF Joins
  <1>. QED
    BY <1>2, LenProperties

\* The tokens of a service are its head, its calls, a "}" and its messages.
LEMMA FileJoins ==
  ASSUME NEW f \in Services, \A i \in 1 .. Len(f.rpcs) : PlainRpc(f.rpcs[i])
  PROVE  \E rparts, rto, mparts, mto :
           FileText(f, Proto!FileTokens(f), rparts, rto, mparts, mto)
  <1>. DEFINE head == FileHead(f)
              close == <<"}">>
              rparts == [i \in 1 .. Len(f.rpcs) |-> Proto!RpcTokens(f.rpcs[i])]
              mparts == [i \in 1 .. Len(f.messages) |-> Proto!MessageTokens(f.messages[i])]
  <1>1. f.rpcs \in Seq(Rpcs) /\ f.messages \in Seq(Messages)
    BY DEF Services
  <1>2. RpcPartsAre(rparts, f.rpcs)
    BY <1>1, RpcPartsTyped
  <1>3. MessageParts(mparts, f.messages)
    BY <1>1, MessagePartsTyped
  <1>4. Proto!FileTokens(f) = ((head \o Proto!Joined(rparts)) \o close) \o Proto!Joined(mparts)
    BY DEF Proto!FileTokens, FileHead
  <1>. HIDE DEF rparts, mparts
  <1>5. rparts \in Seq(Seq(TokenTexts)) /\ mparts \in Seq(Seq(TokenTexts))
    BY <1>2, <1>3 DEF RpcPartsAre, MessageParts
  <1>6. PICK rto : Joins(TokenTexts, rparts, rto) /\ Proto!Joined(rparts) = rto[Len(rparts)]
    BY <1>5, JoinedRuns
  <1>7. PICK mto : Joins(TokenTexts, mparts, mto) /\ Proto!Joined(mparts) = mto[Len(mparts)]
    BY <1>5, JoinedRuns
  <1>. DEFINE rall == rto[Len(rparts)]
              mall == mto[Len(mparts)]
              s1 == head \o rall
              s2 == s1 \o close
              s3 == s2 \o mall
  <1>8. /\ rall \in Seq(TokenTexts) /\ Len(rall) \in Nat
        /\ mall \in Seq(TokenTexts) /\ Len(mall) \in Nat
    BY <1>5, <1>6, <1>7, JoinsEnd
  <1>9. close \in Seq(TokenTexts) /\ Len(close) = 1 /\ close[1] = "}"
    BY LiteralsTyped, Tuples
  <1>10. head \in Seq(TokenTexts) /\ Len(head) = 6
    BY HeadTyped
  <1>11. s3 = Proto!FileTokens(f)
    BY <1>4, <1>6, <1>7
  <1>. HIDE DEF head, close, rall, mall
  <1>12. /\ s1 \in Seq(TokenTexts) /\ Len(s1) = Len(head) + Len(rall)
         /\ Located(s1, 0, head) /\ Located(s1, Len(head), rall)
    BY <1>8, <1>10, ConcatLocated
  <1>. HIDE DEF s1
  <1>13. /\ s2 \in Seq(TokenTexts) /\ Len(s2) = Len(s1) + Len(close)
         /\ Begins(s1, s2) /\ Located(s2, Len(s1), close)
    BY <1>9, <1>12, ConcatLocated
  <1>. HIDE DEF s2
  <1>14. /\ s3 \in Seq(TokenTexts) /\ Len(s3) = Len(s2) + Len(mall)
         /\ Begins(s2, s3) /\ Located(s3, Len(s2), mall)
    BY <1>8, <1>13, ConcatLocated
  <1>. HIDE DEF s3
  <1>15. /\ Len(head) = 6 /\ Len(rall) \in Nat /\ Len(close) = 1 /\ Len(mall) \in Nat
         /\ Len(s1) = 6 + Len(rall) /\ Len(s2) = 7 + Len(rall)
         /\ Len(s3) = 7 + Len(rall) + Len(mall)
         /\ Len(s1) \in Nat /\ Len(s2) \in Nat /\ Len(s3) \in Nat /\ Len(head) \in Nat
    <2>1. Len(close) = 1
      BY <1>9
    <2>. QED
      BY <1>8, <1>10, <1>12, <1>13, <1>14, <2>1
  <1>16. Located(s3, 0, head) /\ Located(s3, 6, rall)
    <2>1. Located(s1, 6, rall)
      BY <1>12, <1>15
    <2>2. Located(s2, 0, head) /\ Located(s2, 6, rall)
      BY <1>12, <1>13, <1>15, <2>1, LocatedLater
    <2>. QED
      BY <1>14, <1>15, <2>2, LocatedLater
  <1>17. s3[7 + Len(rall)] = "}"
    <2>1. Located(s3, Len(s1), close)
      BY <1>13, <1>14, <1>15, LocatedLater
    <2>2. 1 \in 1 .. Len(close) /\ Len(s1) + 1 = 7 + Len(rall)
      BY <1>15
    <2>3. s3[Len(s1) + 1] = close[1]
      BY <2>1, <2>2 DEF Located
    <2>. QED
      BY <1>9, <2>2, <2>3
  <1>18. Located(s3, 7 + Len(rall), mall)
    BY <1>14, <1>15
  <1>19. FileText(f, s3, rparts, rto, mparts, mto)
    BY <1>2, <1>3, <1>6, <1>7, <1>14, <1>15, <1>16, <1>17, <1>18 DEF FileText, rall, mall, head
  <1>. QED
    BY <1>11, <1>19

PlainService(f) ==
  /\ f.package \notin Proto!Keywords /\ f.service \notin Proto!Keywords
  /\ \A i \in 1 .. Len(f.rpcs) : PlainRpc(f.rpcs[i])
  /\ \A i \in 1 .. Len(f.messages) : PlainMessage(f.messages[i])
  /\ \A i, j \in 1 .. Len(f.messages) : f.messages[i].name = f.messages[j].name => i = j

\* What Plain says of the calls, the messages and their fields.
LEMMA PlainParts == \A f : Proto!Plain(f) => PlainService(f)
  BY DEF Proto!Plain, PlainService, PlainRpc, PlainMessage, PlainField

\* The tokens end at k, or a message is next.
Ahead(tokens, k) == Len(tokens) <= k \/ tokens[k + 1] = "message"

\* The look-ahead of Mode finds no mode behind a call that has none.
LEMMA ModesFound ==
  ASSUME NEW tokens \in Seq(TokenTexts), NEW rs \in Seq(Rpcs),
         \A i \in 1 .. Len(rs) : PlainRpc(rs[i]),
         NEW parts, RpcPartsAre(parts, rs),
         NEW upTo, Joins(TokenTexts, parts, upTo), PartsIn(tokens, 6, parts, upTo),
         Ahead(tokens, 7 + Len(upTo[Len(parts)]))
  PROVE  ModesIn(tokens, 6, upTo, rs)
  <1>. DEFINE n == Len(parts)
  <1>1. n \in Nat /\ n = Len(rs)
    BY LenProperties DEF RpcPartsAre
  <1>2. \A i \in 1 .. n : rs[i] \in Rpcs /\ PlainRpc(rs[i]) /\ parts[i] = Proto!RpcTokens(rs[i])
    BY <1>1, ElementOfSeq DEF RpcPartsAre
  <1>3. \A k \in 1 .. n :
          /\ Len(upTo[k - 1]) \in Nat /\ Len(parts[k]) \in Nat
          /\ Len(upTo[k]) = Len(upTo[k - 1]) + Len(parts[k])
    <2>1. parts \in Seq(Seq(TokenTexts))
      BY DEF RpcPartsAre
    <2>. QED
      BY <2>1, PartsGrow
  <1>. HIDE DEF n
  <1>4. SUFFICES ASSUME NEW i \in 1 .. n
                 PROVE  Proto!Mode(tokens, 6 + Len(upTo[i - 1]) + 1) = rs[i].mode
    BY <1>1 DEF ModesIn
  <1>. DEFINE r == rs[i]
              at == Len(upTo[i - 1])
              p == 6 + at
              len == Len(parts[i])
  <1>5. at \in Nat /\ Len(upTo[i]) = at + len /\ p \in Nat
    <2>1. at \in Nat /\ Len(upTo[i]) = at + len
      BY <1>3
    <2>. HIDE DEF at, len
    <2>. QED
      BY <2>1
  <1>6. r \in Rpcs /\ PlainRpc(r) /\ parts[i] = Proto!RpcTokens(r)
    BY <1>2
  <1>7. Located(tokens, p, Proto!RpcTokens(r))
    BY <1>6 DEF PartsIn, n
  <1>. HIDE DEF at, len
  <1>8. ASSUME r.mode = "REQ_RESP"
        PROVE  \/ p + 16 > Len(tokens)
               \/ tokens[p + 13] # "MethodMode"
               \/ tokens[p + 16] \notin {"2", "3"}
    <2>1. len = 11
      BY <1>6, <1>8, RpcParts DEF len
    <2>2. CASE i = n
      <3>1. Len(upTo[n]) = at + 11
        BY <1>5, <2>1, <2>2
      <3>2. 7 + Len(upTo[n]) = p + 12
        BY <1>5, <3>1
      <3>3. Ahead(tokens, p + 12)
        BY <3>2 DEF n
      <3>4. Len(tokens) \in Nat /\ p \in Nat /\ (p + 12) + 1 = p + 13
        BY <1>5, LenProperties
      <3>5. Len(tokens) <= p + 12 \/ tokens[p + 13] = "message"
        BY <3>3, <3>4 DEF Ahead
      <3>6. Len(tokens) <= p + 12 => p + 16 > Len(tokens)
        BY <3>4
      <3>. QED
        BY <3>5, <3>6
    <2>3. CASE i # n
      <3>. DEFINE k == i + 1
                  next == Proto!RpcTokens(rs[k])
      <3>1. k \in 1 .. n /\ k - 1 = i
        BY <1>1, <2>3
      <3>2. rs[k] \in Rpcs /\ PlainRpc(rs[k]) /\ parts[k] = next
        BY <1>2, <3>1
      <3>3. Located(tokens, 6 + Len(upTo[i]), next)
        <4>1. Located(tokens, 6 + Len(upTo[k - 1]), parts[k])
          BY <3>1 DEF PartsIn, n
        <4>. HIDE DEF k, next
        <4>. QED
          BY <3>1, <3>2, <4>1
      <3>4. next[5] = ")"
        BY <3>2, RpcParts
      <3>5. 5 \in 1 .. Len(next)
        <4>1. Len(next) = IF rs[k].mode = "REQ_RESP" THEN 11 ELSE 18
          BY <3>2, RpcParts
        <4>. HIDE DEF next
        <4>. QED
          BY <4>1
      <3>. HIDE DEF next
      <3>6. tokens[(6 + Len(upTo[i])) + 5] = next[5]
        BY <3>3, <3>5 DEF Located
      <3>7. (6 + Len(upTo[i])) + 5 = p + 16
        BY <1>5, <2>1
      <3>. QED
        BY <3>4, <3>6, <3>7
    <2>. QED
      BY <2>2, <2>3
  <1>9. Proto!Mode(tokens, p + 1) = r.mode
    BY <1>5, <1>6, <1>7, <1>8, ModeRead
  <1>. QED
    BY <1>9 DEF at

CallsFound(f, found) ==
  /\ found \in Infos
  /\ found.package = f.package /\ found.service = f.service /\ found.rpcs = f.rpcs

\* The pass finds the calls of a service.
LEMMA CallsRead ==
  ASSUME NEW tokens \in Seq(TokenTexts), NEW after, PassRun(tokens, after),
         NEW f \in Services, PlainService(f),
         NEW parts, RpcPartsAre(parts, f.rpcs),
         NEW upTo, Joins(TokenTexts, parts, upTo),
         Located(tokens, 0, FileHead(f)), Located(tokens, 6, upTo[Len(parts)]),
         Ahead(tokens, 7 + Len(upTo[Len(parts)]))
  PROVE  \E found : /\ CallsFound(f, found) /\ found.messages = Proto!NoMessages
                    /\ Reaches(tokens, after, Proto!InFile(7 + Len(upTo[Len(parts)]), found))
  <1>. DEFINE rs == f.rpcs
              a == Len(upTo[Len(parts)])
  <1>1. rs \in Seq(Rpcs)
    BY DEF Services
  <1>2. parts \in Seq(Seq(TokenTexts))
    BY DEF RpcPartsAre
  <1>3. PartsIn(tokens, 6, parts, upTo)
    BY <1>2, JoinedIn
  <1>4. \A i \in 1 .. Len(rs) : PlainRpc(rs[i])
    BY DEF PlainService
  <1>5. ModesIn(tokens, 6, upTo, rs)
    BY <1>1, <1>3, <1>4, ModesFound
  <1>6. PICK info \in Infos :
          /\ info.package = f.package /\ info.service = f.service
          /\ info.rpcs = <<>> /\ info.messages = Proto!NoMessages
          /\ Reaches(tokens, after, Proto!InFile(7, info))
    BY HeadRead DEF PlainService
  <1>7. Reaches(tokens, after, Proto!InFile(6 + 1, info))
    <2>1. 6 + 1 = 7
      OBVIOUS
    <2>. QED
      BY <1>6, <2>1
  <1>8. \E found : /\ SameBut(info, found) /\ found.rpcs = rs
                   /\ Reaches(tokens, after, Proto!InFile(6 + a + 1, found))
    <2>1. info.rpcs = <<>> /\ RpcPartsAre(parts, rs) /\ 6 \in Nat
      BY <1>6
    <2>. HIDE DEF rs
    <2>. QED
      BY <1>1, <1>3, <1>4, <1>5, <1>7, <2>1, RpcsRead
  <1>9. a \in Nat
    BY <1>2, JoinsEnd
  <1>. HIDE DEF a
  <1>10. 6 + a + 1 = 7 + a
    BY <1>9
  <1>. QED
    BY <1>6, <1>8, <1>10 DEF CallsFound, SameBut, a

\* The token that closes the service is gone over.
LEMMA CloseRead ==
  ASSUME NEW tokens \in Seq(TokenTexts), NEW after, PassRun(tokens, after),
         NEW i \in 1 .. Len(tokens), tokens[i] \notin Proto!Keywords, NEW info \in Infos,
         Reaches(tokens, after, Proto!InFile(i, info))
  PROVE  Reaches(tokens, after, Proto!InFile(i + 1, info))
  <1>1. Len(tokens) \in Nat
    BY LenProperties
  <1>2. i \in Nat \ {0} /\ 1 \in Nat /\ i + 1 <= Len(tokens) + 1
    BY <1>1
  <1>3. \A k \in i .. i + 1 - 1 : tokens[k] \notin Proto!Keywords
    <2>1. \A k \in i .. i + 1 - 1 : k = i
      BY <1>2
    <2>. QED
      BY <2>1, Zenon
  <1>. QED
    BY <1>2, <1>3, SkipRead

\* A message begins with its keyword.
LEMMA MessageAhead ==
  ASSUME NEW tokens \in Seq(TokenTexts), NEW ms \in Seq(Messages), ms # <<>>,
         NEW parts, MessageParts(parts, ms), NEW upTo, Joins(TokenTexts, parts, upTo),
         NEW k \in Nat, Located(tokens, k, upTo[Len(parts)])
  PROVE  tokens[k + 1] = "message" /\ k + 4 <= Len(tokens)
  <1>1. Len(ms) \in Nat /\ Len(ms) # 0
    BY LenProperties, EmptySeq
  <1>2. 1 \in 1 .. Len(ms) /\ 1 \in 1 .. Len(parts) /\ ms[1] \in Messages
    BY <1>1, ElementOfSeq DEF MessageParts
  <1>. DEFINE t == Proto!MessageTokens(ms[1])
  <1>3. parts \in Seq(Seq(TokenTexts)) /\ parts[1] = t
    BY <1>2 DEF MessageParts
  <1>4. PartsIn(tokens, k, parts, upTo)
    BY <1>3, JoinedIn
  <1>5. Located(tokens, k + Len(upTo[1 - 1]), t)
    BY <1>2, <1>3, <1>4 DEF PartsIn
  <1>6. Len(upTo[1 - 1]) = 0
    <2>1. 1 - 1 = 0
      OBVIOUS
    <2>2. upTo[1 - 1] = <<>>
      BY <2>1 DEF Joins
    <2>. QED
      BY <2>2
  <1>7. Located(tokens, k, t)
    <2>1. k + 0 = k
      OBVIOUS
    <2>. HIDE DEF t
    <2>. QED
      BY <1>5, <1>6, <2>1
  <1>8. t[1] = "message"
    BY <1>2, MessageClosed
  <1>9. Len(t) \in Nat /\ Len(t) >= 4
    <2>. DEFINE b == Proto!BodyTokens(ms[1])
    <2>1. Len(b) \in Nat /\ Len(t) = Len(b) + 1 /\ Len(b) >= 3
      BY <1>2, MessageClosed
    <2>. HIDE DEF t, b
    <2>. QED
      BY <2>1
  <1>. HIDE DEF t
  <1>10. Len(tokens) \in Nat /\ k + Len(t) <= Len(tokens) /\ 1 \in 1 .. Len(t)
    BY <1>7, <1>9, LenProperties DEF Located
  <1>11. tokens[k + 1] = t[1]
    BY <1>7, <1>10 DEF Located
  <1>12. k + 4 <= Len(tokens)
    BY <1>9, <1>10
  <1>. QED
    BY <1>8, <1>11, <1>12

\* The pass over all the tokens finds the service.
LEMMA WholeRead ==
  ASSUME NEW f \in Services, PlainService(f),
         NEW t, NEW rparts, NEW rto, NEW mparts, NEW mto,
         FileText(f, t, rparts, rto, mparts, mto)
  PROVE  LET whole == Proto!parse2ServiceInfo(t)
         IN /\ whole.place = "file" /\ CallsFound(f, whole.info)
            /\ MessagesFound(whole.info.messages, f.messages, Len(f.messages))
  <1>. DEFINE a == Len(rto[Len(rparts)])
              b == Len(mto[Len(mparts)])
              ms == f.messages
              k == 7 + a
  <1>1. /\ RpcPartsAre(rparts, f.rpcs) /\ Joins(TokenTexts, rparts, rto)
        /\ MessageParts(mparts, ms) /\ Joins(TokenTexts, mparts, mto)
        /\ t \in Seq(TokenTexts) /\ Len(t) = 7 + a + b
        /\ Located(t, 0, FileHead(f)) /\ Located(t, 6, rto[Len(rparts)])
        /\ Located(t, 7 + a, mto[Len(mparts)]) /\ t[7 + a] = "}"
    BY DEF FileText
  <1>2. PICK after : PassRun(t, after) /\ Proto!parse2ServiceInfo(t) = after[Len(t) + 1]
    BY <1>1, PassRuns
  <1>3. rparts \in Seq(Seq(TokenTexts)) /\ mparts \in Seq(Seq(TokenTexts))
    BY <1>1 DEF RpcPartsAre, MessageParts
  <1>4. a \in Nat /\ b \in Nat
    BY <1>1, <1>3, JoinsEnd
  <1>5. ms \in Seq(Messages) /\ Len(ms) \in Nat /\ Len(mparts) = Len(ms)
    BY <1>1, LenProperties DEF Services, MessageParts
  <1>6. Len(t) \in Nat
    BY <1>1, LenProperties
  <1>7. Ahead(t, 7 + a)
    <2>1. CASE ms = <<>>
      <3>1. Len(mparts) = 0
        BY <1>5, <2>1
      <3>2. mto[Len(mparts)] = <<>>
        BY <1>1, <3>1 DEF Joins
      <3>3. b = 0
        BY <3>2
      <3>4. Len(t) = 7 + a + b
        BY <1>1
      <3>. HIDE DEF a, b
      <3>5. Len(t) <= 7 + a
        BY <1>4, <3>3, <3>4
      <3>. QED
        BY <3>5 DEF Ahead
    <2>2. CASE ms # <<>>
      <3>1. 7 + a \in Nat
        BY <1>4
      <3>2. t[(7 + a) + 1] = "message"
        BY <1>1, <1>5, <2>2, <3>1, MessageAhead
      <3>. QED
        BY <3>2 DEF Ahead
    <2>. QED
      BY <2>1, <2>2
  <1>8. PICK calls : /\ CallsFound(f, calls) /\ calls.messages = Proto!NoMessages
                     /\ Reaches(t, after, Proto!InFile(7 + a, calls))
    BY <1>1, <1>2, <1>7, CallsRead
  <1>9. Reaches(t, after, Proto!InFile(k + 1, calls))
    <2>1. Len(t) = 7 + a + b /\ Reaches(t, after, Proto!InFile(k, calls))
      BY <1>1, <1>8
    <2>2. t[k] \notin Proto!Keywords
      BY <1>1 DEF Proto!Keywords
    <2>. HIDE DEF a, b
    <2>3. k \in 1 .. Len(t)
      <3>1. Len(t) = 7 + a + b
        BY <2>1
      <3>. QED
        BY <1>4, <3>1
    <2>. HIDE DEF k
    <2>. QED
      BY <1>1, <1>2, <1>8, <2>1, <2>3, <2>2, CloseRead DEF CallsFound
  <1>10. PartsIn(t, k, mparts, mto)
    <2>1. k \in Nat
      BY <1>4
    <2>2. Located(t, k, mto[Len(mparts)])
      BY <1>1
    <2>. HIDE DEF k
    <2>. QED
      BY <1>1, <1>3, <2>1, <2>2, JoinedIn
  <1>11. PICK found : /\ SameService(calls, found)
                      /\ MessagesFound(found.messages, ms, Len(ms))
                      /\ Reaches(t, after, Proto!InFile(k + Len(mto[Len(ms)]) + 1, found))
    <2>1. k \in Nat /\ Len(ms) \in 0 .. Len(ms)
      BY <1>4, <1>5
    <2>2. \A i \in 1 .. Len(ms) : Located(t, k + Len(mto[i - 1]), mparts[i])
      BY <1>5, <1>10 DEF PartsIn
    <2>3. \A i \in 1 .. Len(ms) : PlainMessage(ms[i])
      BY DEF PlainService
    <2>4. \A i, j \in 1 .. Len(ms) : ms[i].name = ms[j].name => i = j
      BY DEF PlainService
    <2>5. calls \in Infos /\ calls.messages = Proto!NoMessages
      BY <1>8 DEF CallsFound
    <2>. HIDE DEF k, ms
    <2>. QED
      BY <1>1, <1>2, <1>5, <1>9, <2>1, <2>2, <2>3, <2>4, <2>5, MessagesRead
  <1>12. k + Len(mto[Len(ms)]) + 1 = Len(t) + 1
    <2>1. Len(t) = 7 + a + b /\ Len(mto[Len(ms)]) = b
      BY <1>1, <1>5
    <2>. HIDE DEF a, b
    <2>. QED
      BY <1>4, <2>1
  <1>13. after[Len(t) + 1] = Proto!InFile(Len(t) + 1, found)
    <2>. DEFINE i == Len(t) + 1
    <2>1. i \in Nat \ {0} /\ i > Len(t)
      BY <1>6
    <2>2. Reaches(t, after, Proto!InFile(i, found)) /\ found \in Infos
      BY <1>11, <1>12 DEF SameService
    <2>3. after[Len(t) + 1] = Proto!InFile(i, found)
      <3>. HIDE DEF i
      <3>. QED
        BY <1>1, <1>2, <2>1, <2>2, FileEnds
    <2>. QED
      BY <2>3
  <1>14. after[Len(t) + 1].place = "file" /\ after[Len(t) + 1].info = found
    <2>1. Len(t) + 1 \in Nat \ {0} /\ found \in Infos
      BY <1>11, <1>6 DEF SameService
    <2>. QED
      BY <1>13, <2>1, PlacesTyped
  <1>15. CallsFound(f, found)
    BY <1>8, <1>11 DEF CallsFound, SameService
  <1>. QED
    BY <1>2, <1>11, <1>14, <1>15

\* What stands in a text stands in its beginning.
LEMMA LocatedCut ==
  ASSUME NEW s, NEW t, Len(s) \in Nat, Len(t) \in Nat, Begins(s, t),
         NEW p, NEW part, Len(part) \in Nat, Located(t, p, part), p + Len(part) <= Len(s)
  PROVE  Located(s, p, part)
  <1>1. p \in Nat /\ \A j \in 1 .. Len(part) : t[p + j] = part[j]
    BY DEF Located
  <1>2. \A j \in 1 .. Len(part) : p + j \in 1 .. Len(s)
    BY <1>1
  <1>3. \A j \in 1 .. Len(part) : s[p + j] = part[j]
    BY <1>1, <1>2 DEF Begins
  <1>. QED
    BY <1>1, <1>3 DEF Located

\* A text without its last token.
LEMMA CutBegins ==
  ASSUME NEW t \in Seq(TokenTexts), Len(t) # 0,
         NEW s, s = SubSeq(t, 1, Len(t) - 1)
  PROVE  s \in Seq(TokenTexts) /\ Len(s) = Len(t) - 1 /\ Len(s) \in Nat /\ Begins(s, t)
  <1>. DEFINE n == Len(t)
  <1>1. n \in Nat /\ n \in 1 .. Len(t)
    BY LenProperties
  <1>2. \A i \in 1 .. n - 1 : t[i] \in TokenTexts
    BY <1>1, ElementOfSeq
  <1>3. /\ 1 \in Int /\ n - 1 \in Int /\ (n - 1) - 1 + 1 = n - 1
        /\ \A i \in 1 .. n - 1 : 1 + i - 1 = i
        /\ (IF 1 <= n - 1 THEN (n - 1) - 1 + 1 ELSE 0) = n - 1
    <2>1. n \in Nat /\ n # 0
      BY <1>1
    <2>. HIDE DEF n
    <2>2. 1 \in Int /\ n - 1 \in Int /\ (n - 1) - 1 + 1 = n - 1
      BY <2>1
    <2>3. \A i \in 1 .. n - 1 : 1 + i - 1 = i
      OBVIOUS
    <2>4. CASE 1 <= n - 1
      BY <2>2, <2>3, <2>4
    <2>5. CASE ~(1 <= n - 1)
      <3>1. n - 1 = 0
        BY <2>1, <2>5
      <3>. QED
        BY <2>2, <2>3, <2>5, <3>1
    <2>. QED
      BY <2>4, <2>5
  <1>4. /\ s \in Seq(TokenTexts)
        /\ Len(s) = IF 1 <= n - 1 THEN (n - 1) - 1 + 1 ELSE 0
        /\ \A i \in 1 .. (n - 1) - 1 + 1 : s[i] = t[1 + i - 1]
    BY <1>2, <1>3, SubSeqProperties
  <1>5. Len(s) = n - 1
    BY <1>3, <1>4
  <1>6. \A i \in 1 .. n - 1 : s[i] = t[i]
    BY <1>3, <1>4
  <1>7. Len(s) \in Nat /\ Len(s) <= n
    BY <1>1, <1>5
  <1>8. \A i \in 1 .. Len(s) : t[i] = s[i]
    BY <1>5, <1>6
  <1>. QED
    BY <1>4, <1>5, <1>7, <1>8 DEF Begins

\* Without its last token, a service with no messages is still read to its end.
LEMMA CutCalls ==
  ASSUME NEW f \in Services, PlainService(f), f.messages = <<>>,
         NEW t, NEW rparts, NEW rto, NEW mparts, NEW mto,
         FileText(f, t, rparts, rto, mparts, mto),
         NEW s, s = SubSeq(t, 1, Len(t) - 1)
  PROVE  Proto!parse2ServiceInfo(s).place = "file"
  <1>. DEFINE rall == rto[Len(rparts)]
              head == FileHead(f)
              a == Len(rall)
  <1>1. /\ RpcPartsAre(rparts, f.rpcs) /\ Joins(TokenTexts, rparts, rto)
        /\ MessageParts(mparts, f.messages) /\ Joins(TokenTexts, mparts, mto)
        /\ t \in Seq(TokenTexts) /\ Len(t) = 7 + a + Len(mto[Len(mparts)])
        /\ Located(t, 0, head) /\ Located(t, 6, rall)
    BY DEF FileText
  <1>2. rparts \in Seq(Seq(TokenTexts))
    BY <1>1 DEF RpcPartsAre
  <1>3. a \in Nat
    BY <1>1, <1>2, JoinsEnd
  <1>4. Len(mto[Len(mparts)]) = 0
    <2>1. Len(mparts) = 0
      BY <1>1 DEF MessageParts
    <2>2. mto[Len(mparts)] = <<>>
      BY <1>1, <2>1 DEF Joins
    <2>. QED
      BY <2>2
  <1>5. Len(t) = 7 + a
    <2>1. Len(t) = 7 + a + Len(mto[Len(mparts)])
      BY <1>1
    <2>. HIDE DEF a
    <2>. QED
      BY <1>3, <1>4, <2>1
  <1>6. s \in Seq(TokenTexts) /\ Len(s) = Len(t) - 1 /\ Len(s) \in Nat /\ Begins(s, t)
    <2>1. Len(t) # 0
      <3>. HIDE DEF a
      <3>. QED
        BY <1>3, <1>5
    <2>. QED
      BY <1>1, <2>1, CutBegins
  <1>7. Len(s) = 6 + a /\ Len(t) \in Nat /\ Len(head) = 6
    <2>1. Len(head) = 6
      BY HeadTyped
    <2>. HIDE DEF a, head
    <2>. QED
      BY <1>3, <1>5, <1>6, <2>1
  <1>8. Located(s, 0, head) /\ Located(s, 6, rall)
    <2>1. 0 + Len(head) <= Len(s) /\ 6 + Len(rall) <= Len(s)
      BY <1>3, <1>7
    <2>2. Len(head) \in Nat /\ Len(rall) \in Nat
      BY <1>3, <1>7
    <2>. HIDE DEF head, rall
    <2>. QED
      BY <1>1, <1>6, <1>7, <2>1, <2>2, LocatedCut
  <1>9. Ahead(s, 7 + a)
    <2>1. Len(s) <= 7 + a
      BY <1>3, <1>7
    <2>. QED
      BY <2>1 DEF Ahead
  <1>10. PICK after : PassRun(s, after) /\ Proto!parse2ServiceInfo(s) = after[Len(s) + 1]
    BY <1>6, PassRuns
  <1>11. PICK found : /\ CallsFound(f, found)
                      /\ Reaches(s, after, Proto!InFile(7 + a, found))
    BY <1>1, <1>6, <1>8, <1>9, <1>10, CallsRead
  <1>. DEFINE i == 7 + a
  <1>12. i \in Nat \ {0} /\ i > Len(s) /\ found \in Infos
    BY <1>3, <1>7, <1>11 DEF CallsFound
  <1>13. Reaches(s, after, Proto!InFile(i, found))
    BY <1>11
  <1>. HIDE DEF i
  <1>14. after[Len(s) + 1] = Proto!InFile(i, found)
    BY <1>6, <1>10, <1>12, <1>13, FileEnds
  <1>15. Proto!InFile(i, found).place = "file"
    BY <1>12, PlacesTyped
  <1>. QED
    BY <1>10, <1>14, <1>15

\* Without its last token, a service with messages is read past its tokens.
LEMMA CutMessages ==
  ASSUME NEW f \in Services, PlainService(f), f.messages # <<>>,
         NEW t, NEW rparts, NEW rto, NEW mparts, NEW mto,
         FileText(f, t, rparts, rto, mparts, mto),
         NEW s, s = SubSeq(t, 1, Len(t) - 1)
  PROVE  Proto!parse2ServiceInfo(s).place = "overrun"
  <1>. DEFINE rall == rto[Len(rparts)]
              head == FileHead(f)
              ms == f.messages
              n == Len(ms)
              a == Len(rall)
              b == Len(mto[Len(mparts)])
              k == 7 + a
              m == ms[n]
              prev == n - 1
              p == k + Len(mto[prev])
              part == mparts[n]
              inner == Proto!BodyTokens(m)
  <1>1. /\ RpcPartsAre(rparts, f.rpcs) /\ Joins(TokenTexts, rparts, rto)
        /\ MessageParts(mparts, ms) /\ Joins(TokenTexts, mparts, mto)
        /\ t \in Seq(TokenTexts) /\ Len(t) = 7 + a + b
        /\ Located(t, 0, head) /\ Located(t, 6, rall)
        /\ Located(t, k, mto[Len(mparts)]) /\ t[k] = "}"
    BY DEF FileText
  <1>2. rparts \in Seq(Seq(TokenTexts)) /\ mparts \in Seq(Seq(TokenTexts))
    BY <1>1 DEF RpcPartsAre, MessageParts
  <1>3. /\ a \in Nat /\ b \in Nat /\ k \in Nat
        /\ ms \in Seq(Messages) /\ n \in Nat /\ n # 0 /\ Len(mparts) = n
    <2>1. a \in Nat /\ b \in Nat
      BY <1>1, <1>2, JoinsEnd
    <2>2. ms \in Seq(Messages) /\ Len(mparts) = n
      BY <1>1 DEF Services, MessageParts
    <2>3. n \in Nat /\ n # 0
      BY <2>2, LenProperties, EmptySeq
    <2>. QED
      BY <2>1, <2>2, <2>3
  <1>4. prev \in 0 .. n /\ n \in 1 .. n /\ n \in 1 .. Len(mparts) /\ prev \in Nat
    BY <1>3
  <1>5. PartsIn(t, k, mparts, mto)
    <2>1. Located(t, k, mto[Len(mparts)]) /\ k \in Nat
      BY <1>1, <1>3
    <2>. HIDE DEF k
    <2>. QED
      BY <1>1, <1>2, <2>1, JoinedIn
  <1>6. t[k + 1] = "message" /\ k + 4 <= Len(t)
    <2>1. Located(t, k, mto[Len(mparts)]) /\ k \in Nat /\ ms # <<>>
      BY <1>1, <1>3
    <2>. HIDE DEF k, ms
    <2>. QED
      BY <1>1, <1>3, <2>1, MessageAhead
  <1>7. m \in Messages /\ part = Proto!MessageTokens(m) /\ PlainMessage(m)
    <2>1. \A i \in 1 .. n : ms[i] \in Messages /\ PlainMessage(ms[i])
      BY <1>3, ElementOfSeq DEF PlainService
    <2>2. \A i \in 1 .. n : mparts[i] = Proto!MessageTokens(ms[i])
      BY <1>1 DEF MessageParts
    <2>. HIDE DEF n, ms
    <2>. QED
      BY <1>4, <2>1, <2>2
  <1>8. /\ Len(inner) \in Nat /\ Len(part) = Len(inner) + 1 /\ Located(part, 0, inner)
        /\ Len(part) \in Nat
    <2>1. Len(inner) \in Nat /\ Len(part) = Len(inner) + 1 /\ Located(part, 0, inner)
      BY <1>7, MessageClosed
    <2>. HIDE DEF inner, part
    <2>. QED
      BY <2>1
  <1>9. \A i \in 1 .. n :
          /\ Len(mto[i - 1]) \in Nat /\ Len(mparts[i]) \in Nat
          /\ Len(mto[i]) = Len(mto[i - 1]) + Len(mparts[i])
    <2>1. mparts \in Seq(Seq(TokenTexts)) /\ Joins(TokenTexts, mparts, mto)
      BY <1>1, <1>2
    <2>2. \A i \in 1 .. Len(mparts) :
            /\ Len(mto[i - 1]) \in Nat /\ Len(mparts[i]) \in Nat
            /\ Len(mto[i]) = Len(mto[i - 1]) + Len(mparts[i])
      BY <2>1, PartsGrow
    <2>3. Len(mparts) = n
      BY <1>3
    <2>. HIDE DEF n
    <2>. QED
      BY <2>2, <2>3
  <1>10. /\ Len(mto[prev]) \in Nat /\ b = Len(mto[prev]) + Len(part)
    <2>1. b = Len(mto[n])
      BY <1>3
    <2>. HIDE DEF n, b
    <2>2. /\ Len(mto[n - 1]) \in Nat /\ Len(mto[n]) = Len(mto[n - 1]) + Len(part)
      BY <1>4, <1>9
    <2>. QED
      BY <2>1, <2>2
  <1>11. s \in Seq(TokenTexts) /\ Len(s) = Len(t) - 1 /\ Len(s) \in Nat /\ Begins(s, t)
    <2>1. Len(t) \in Nat /\ k + 4 <= Len(t) /\ k \in Nat
      BY <1>1, <1>3, <1>6, LenProperties
    <2>. HIDE DEF k
    <2>2. Len(t) # 0
      BY <2>1
    <2>. QED
      BY <1>1, <2>2, CutBegins
  <1>12. /\ p \in Nat /\ p + Len(inner) = Len(s) /\ p <= Len(s) /\ k + 3 <= Len(s)
         /\ Len(t) \in Nat /\ 6 + a <= Len(s) /\ k \in 1 .. Len(s)
    <2>1. Len(t) = 7 + a + b /\ Len(s) = Len(t) - 1 /\ Len(t) \in Nat
      BY <1>1, <1>11, LenProperties
    <2>2. k + 4 <= Len(t)
      BY <1>6
    <2>. DEFINE x == Len(mto[prev])
                y == Len(inner)
    <2>3. x \in Nat /\ y \in Nat /\ b = x + (y + 1) /\ a \in Nat
      BY <1>3, <1>8, <1>10
    <2>. HIDE DEF x, y, a, b
    <2>4. /\ k + x \in Nat /\ k + x + y = Len(s) /\ k + x <= Len(s) /\ k + 3 <= Len(s)
          /\ 6 + a <= Len(s) /\ k \in 1 .. Len(s)
      BY <2>1, <2>2, <2>3
    <2>. QED
      BY <2>1, <2>4 DEF x, y
  <1>13. s[k] \notin Proto!Keywords /\ s[k + 1] = "message"
    <2>1. \A j \in 1 .. Len(s) : t[j] = s[j]
      BY <1>11 DEF Begins
    <2>2. k + 1 \in 1 .. Len(s)
      BY <1>3, <1>12
    <2>3. s[k] = t[k] /\ s[k + 1] = t[k + 1]
      BY <1>12, <2>1, <2>2
    <2>4. t[k] = "}" /\ t[k + 1] = "message"
      BY <1>1, <1>6
    <2>. QED
      BY <2>3, <2>4 DEF Proto!Keywords
  <1>14. Located(s, 0, head) /\ Located(s, 6, rall)
    <2>1. Len(head) = 6
      BY HeadTyped
    <2>2. Len(head) \in Nat /\ Len(rall) \in Nat
      BY <1>3, <2>1
    <2>3. 0 + Len(head) <= Len(s) /\ 6 + Len(rall) <= Len(s)
      <3>. HIDE DEF head, rall
      <3>. QED
        BY <1>3, <1>12, <2>1
    <2>. HIDE DEF head, rall
    <2>. QED
      BY <1>1, <1>11, <1>12, <2>2, <2>3, LocatedCut
  <1>15. \A i \in 1 .. prev : Located(s, k + Len(mto[i - 1]), mparts[i])
    <2>. SUFFICES ASSUME NEW i \in 1 .. prev
                  PROVE  Located(s, k + Len(mto[i - 1]), mparts[i])
      OBVIOUS
    <2>1. i \in 1 .. n /\ i \in 1 .. Len(mparts) /\ i \in 0 .. prev /\ prev \in 0 .. Len(mparts)
      BY <1>3, <1>4
    <2>2. Located(t, k + Len(mto[i - 1]), mparts[i])
      BY <1>5, <2>1 DEF PartsIn
    <2>3. Len(mto[i]) <= Len(mto[prev])
      <3>1. Begins(mto[i], mto[prev])
        BY <1>1, <1>2, <2>1, PartsBegin
      <3>. QED
        BY <3>1 DEF Begins
    <2>. DEFINE x == Len(mto[i - 1])
                y == Len(mparts[i])
                z == Len(mto[prev])
                w == k + x
    <2>4. x \in Nat /\ y \in Nat /\ x + y <= z /\ z \in Nat /\ k + z <= Len(s)
      <3>1. x \in Nat /\ y \in Nat /\ Len(mto[i]) = x + y
        BY <1>9, <2>1
      <3>. HIDE DEF x, y
      <3>. QED
        BY <1>10, <1>12, <2>3, <3>1
    <2>5. w + y <= Len(s)
      <3>. HIDE DEF x, y, z, a
      <3>. QED
        BY <1>3, <1>11, <2>4
    <2>6. Located(t, w, mparts[i]) /\ w + Len(mparts[i]) <= Len(s) /\ Len(mparts[i]) \in Nat
      BY <2>2, <2>4, <2>5
    <2>. HIDE DEF w
    <2>7. Located(s, w, mparts[i])
      BY <1>11, <1>12, <2>6, LocatedCut
    <2>. QED
      BY <2>7 DEF w
  <1>16. Located(s, p, inner)
    <2>1. Located(t, p, part)
      BY <1>4, <1>5 DEF PartsIn
    <2>. HIDE DEF p, part, inner
    <2>2. Located(t, p + 0, inner)
      BY <1>8, <1>12, <2>1, LocatedWithin
    <2>3. p + 0 = p /\ p + Len(inner) <= Len(s)
      BY <1>11, <1>12
    <2>4. Located(t, p, inner)
      BY <2>2, <2>3
    <2>. QED
      BY <1>8, <1>11, <1>12, <2>3, <2>4, LocatedCut
  <1>17. PICK after : PassRun(s, after) /\ Proto!parse2ServiceInfo(s) = after[Len(s) + 1]
    BY <1>11, PassRuns
  <1>18. Ahead(s, 7 + a)
    BY <1>13 DEF Ahead
  <1>19. PICK calls : /\ CallsFound(f, calls) /\ calls.messages = Proto!NoMessages
                      /\ Reaches(s, after, Proto!InFile(k, calls))
    BY <1>1, <1>11, <1>14, <1>17, <1>18, CallsRead
  <1>20. Reaches(s, after, Proto!InFile(k + 1, calls))
    <2>1. Reaches(s, after, Proto!InFile(k, calls)) /\ k \in 1 .. Len(s)
          /\ s[k] \notin Proto!Keywords /\ calls \in Infos
      BY <1>12, <1>13, <1>19 DEF CallsFound
    <2>. HIDE DEF k
    <2>. QED
      BY <1>11, <1>17, <2>1, CloseRead
  <1>21. PICK found : /\ SameService(calls, found)
                      /\ Reaches(s, after, Proto!InFile(p + 1, found))
    <2>1. \A i \in 1 .. Len(ms) : PlainMessage(ms[i])
      BY DEF PlainService
    <2>2. \A i, j \in 1 .. Len(ms) : ms[i].name = ms[j].name => i = j
      BY DEF PlainService
    <2>3. calls \in Infos /\ calls.messages = Proto!NoMessages
      BY <1>19 DEF CallsFound
    <2>4. prev \in 0 .. Len(ms) /\ k \in Nat /\ ms \in Seq(Messages)
      BY <1>3, <1>4
    <2>. HIDE DEF k, ms, prev
    <2>. QED
      BY <1>1, <1>11, <1>15, <1>17, <1>20, <2>1, <2>2, <2>3, <2>4, MessagesRead
  <1>22. Reaches(s, after, Proto!InMessage(Len(s) + 1, m.name, Proto!FieldsOf(m), found))
    <2>1. EndsAt(s, p + Len(inner))
      BY <1>12 DEF EndsAt
    <2>2. found \in Infos
      BY <1>21 DEF SameService
    <2>3. inner = Proto!BodyTokens(m) /\ p \in Nat /\ Reaches(s, after, Proto!InFile(p + 1, found))
      BY <1>12, <1>21
    <2>. HIDE DEF p, inner, m
    <2>4. Reaches(s, after,
                  Proto!InMessage(p + Len(inner) + 1, m.name, Proto!FieldsOf(m), found))
      BY <1>7, <1>11, <1>16, <1>17, <2>1, <2>2, <2>3, BodyRead
    <2>5. p + Len(inner) = Len(s)
      BY <1>12
    <2>. QED
      BY <2>4, <2>5
  <1>. DEFINE st == Proto!InMessage(Len(s) + 1, m.name, Proto!FieldsOf(m), found)
  <1>23. st \in Passes /\ st.place = "message" /\ st.i = Len(s) + 1
    <2>1. found \in Infos /\ Len(s) + 1 \in Nat \ {0}
      BY <1>11, <1>21 DEF SameService
    <2>2. m.name \in TokenTexts /\ Proto!FieldsOf(m) \in Seq(FieldInfos)
      BY <1>7, FoundTyped
    <2>. HIDE DEF m
    <2>. QED
      BY <2>1, <2>2, PlacesTyped
  <1>24. Reaches(s, after, st)
    BY <1>22
  <1>. HIDE DEF st
  <1>25. after[Len(s) + 1].place = "overrun"
    BY <1>11, <1>17, <1>23, <1>24, MessageEnds
  <1>. QED
    BY <1>17, <1>25

\* For every description of a service: the pass over its tokens finds its package, its name,
\* its calls with their modes and its messages with all their fields, and without the last
\* token runs past the tokens exactly if that token closes a message.
THEOREM ServiceTheorem ==
  ASSUME subject = "service" => input \in Services
  PROVE  ServiceFound
  <1>1. ASSUME NEW f \in Services, Proto!Plain(f) PROVE Proto!ServiceFound(f)
    <2>. DEFINE t == Proto!FileTokens(f)
                s == SubSeq(t, 1, Len(t) - 1)
                whole == Proto!parse2ServiceInfo(t)
                cut == Proto!parse2ServiceInfo(s)
                ms == f.messages
    <2>1. PlainService(f)
      BY <1>1, PlainParts
    <2>2. PICK rparts, rto, mparts, mto : FileText(f, t, rparts, rto, mparts, mto)
      BY <2>1, FileJoins DEF PlainService
    <2>. HIDE DEF t
    <2>3. /\ whole.place = "file" /\ CallsFound(f, whole.info)
          /\ MessagesFound(whole.info.messages, ms, Len(ms))
      BY <2>1, <2>2, WholeRead
    <2>4. ms = <<>> => cut.place = "file"
      BY <2>1, <2>2, CutCalls
    <2>5. ms # <<>> => cut.place = "overrun"
      BY <2>1, <2>2, CutMessages
    <2>. HIDE DEF whole, cut
    <2>6. cut.place = "overrun" <=> ms # <<>>
      BY <2>4, <2>5
    <2>7. /\ whole.info.package = f.package /\ whole.info.service = f.service
          /\ whole.info.rpcs = f.rpcs
          /\ DOMAIN whole.info.messages = {ms[i].name : i \in 1 .. Len(ms)}
          /\ \A i \in 1 .. Len(ms) : whole.info.messages[ms[i].name] = Proto!FieldsOf(ms[i])
          /\ whole.place = "file"
      BY <2>3 DEF CallsFound, MessagesFound
    <2>. QED
      BY <2>6, <2>7, Zenon DEF Proto!ServiceFound, whole, cut, s, t
  <1>2. \A f : ~Proto!Plain(f) => Proto!ServiceFound(f)
    BY Zenon DEF Proto!ServiceFound
  <1>. QED
    BY <1>1, <1>2 DEF ServiceFound

====
