-------------------------------- MODULE Logger --------------------------------
(***************************************************************************)
(* The logger (log.cpp, log.h): one file per level, whose name comes from  *)
(* a pattern with the date and the level, opened to append by setFilename  *)
(* and afresh by log when the name has changed.  A file is the sequence of *)
(* its lines, every one of which log flushes; a line is its number.  Files *)
(* can be opened, and the calendar only goes forward.                      *)
(***************************************************************************)
EXTENDS Integers, Sequences, SequencesExt

CONSTANTS
  Levels,       \* the log levels, numbers from 1
  Patterns,     \* sets of "level" and "day": what the pattern contains
  MaxDay, MaxLines

NoName == [level |-> 0, day |-> 0, set |-> FALSE]
Closed == [open |-> FALSE, append |-> FALSE, at |-> 0]

VARIABLES
  day,
  _level,             \* the lowest level that is logged
  _mode,              \* CONSOLE or FILE
  _filename,          \* the pattern, or {"none"}
  logFiles,           \* level -> the stream open on currentFilenames[level]
  currentFilenames,   \* level -> name
  files,              \* name -> its lines
  accepted            \* the lines log took for a file, each with its name

vars == <<day, _level, _mode, _filename, logFiles, currentFilenames, files, accepted>>

NoPattern == {"none"}

generateFileName(pattern, level) ==
  IF pattern = NoPattern THEN NoName
  ELSE [level |-> IF "level" \in pattern THEN level ELSE 0,
        day   |-> IF "day" \in pattern THEN day ELSE 0,
        set   |-> TRUE]

Lines(name) == IF name \in DOMAIN files THEN files[name] ELSE <<>>

\* A process that starts; the one before may have ended anywhere.
Fresh ==
  /\ _level' = 2
  /\ _mode' = "CONSOLE"
  /\ _filename' = NoPattern
  /\ logFiles' = [l \in Levels |-> Closed]
  /\ currentFilenames' = [l \in Levels |-> NoName]

Init ==
  /\ day = 1
  /\ _level = 2
  /\ _mode = "CONSOLE"
  /\ _filename = NoPattern
  /\ logFiles = [l \in Levels |-> Closed]
  /\ currentFilenames = [l \in Levels |-> NoName]
  /\ files = <<>>
  /\ accepted = <<>>

Restart == Fresh /\ UNCHANGED <<day, files, accepted>>

NextDay ==
  /\ day < MaxDay
  /\ day' = day + 1
  /\ UNCHANGED <<_level, _mode, _filename, logFiles, currentFilenames, files, accepted>>

setLevel(level) ==
  /\ _level' = level
  /\ UNCHANGED <<day, _mode, _filename, logFiles, currentFilenames, files, accepted>>

setMode(mode) ==
  /\ _mode' = mode
  /\ UNCHANGED <<day, _level, _filename, logFiles, currentFilenames, files, accepted>>

setFilename(pattern) ==
  /\ _filename' = pattern
  /\ currentFilenames' = [l \in Levels |-> generateFileName(pattern, l)]
  /\ logFiles' = [l \in Levels |-> [open |-> TRUE, append |-> TRUE, at |-> 0]]
  /\ files' = [n \in DOMAIN files \union {generateFileName(pattern, l) : l \in Levels} |->
                 Lines(n)]
  /\ UNCHANGED <<day, _level, _mode, accepted>>

\* What is in a file after a stream has written a line to it.
Written(lines, stream, line) ==
  IF stream.append \/ stream.at >= Len(lines) THEN Append(lines, line)
  ELSE [lines EXCEPT ![stream.at + 1] = line]

\* Wrong: the file is opened afresh once a day for all levels.
WrongcheckNewFile(level) ==
  LET name == generateFileName(_filename, level)
      new  == \E l \in Levels : currentFilenames[l] # generateFileName(_filename, l)
  IN IF ~new
     THEN [name |-> name, stream |-> logFiles[level], lines |-> Lines(name)]
     ELSE [name |-> name, lines |-> <<>>,
           stream |-> [open |-> TRUE, append |-> FALSE, at |-> 0]]

\* The name, stream and lines a level writes to; a new name truncates its file.
checkNewFile(level) ==
  LET name == generateFileName(_filename, level)
  IN IF name = currentFilenames[level]
     THEN [name |-> name, stream |-> logFiles[level], lines |-> Lines(name)]
     ELSE [name |-> name, lines |-> <<>>,
           stream |-> [open |-> TRUE, append |-> FALSE, at |-> 0]]

\* A line for the console, or for a stream that was never opened, changes no file.
log(level) ==
  LET to   == checkNewFile(level)
      line == Len(accepted) + 1
  IN /\ Len(accepted) < MaxLines
     /\ level >= _level /\ _mode = "FILE" /\ to.stream.open
     /\ files' = [n \in DOMAIN files \union {to.name} |->
                    IF n = to.name THEN Written(to.lines, to.stream, line) ELSE files[n]]
     /\ logFiles' = [logFiles EXCEPT ![level] = [open |-> TRUE, append |-> to.stream.append,
                                                 at |-> to.stream.at + 1]]
     /\ currentFilenames' = [currentFilenames EXCEPT ![level] = to.name]
     /\ accepted' = Append(accepted, to.name)
     /\ UNCHANGED <<day, _level, _mode, _filename>>

Next ==
  \/ Restart
  \/ NextDay
  \/ \E level \in Levels : setLevel(level) \/ log(level)
  \/ \E mode \in {"CONSOLE", "FILE"} : setMode(mode)
  \/ \E pattern \in Patterns : setFilename(pattern)

-----------------------------------------------------------------------------
(***************************************************************************)
(* Where the pattern names the level, each file holds exactly the lines    *)
(* logged for it, in order, over rotations, restarts, changes of pattern   *)
(* and mode: the truncating open of a rotation never meets a file that has *)
(* lines.  With a date and no level, the levels share the day's file and   *)
(* the second of them to rotate empties it.                                *)
(***************************************************************************)
Complete(name, lines) ==
  /\ ToSet(lines) = {i \in DOMAIN accepted : accepted[i] = name}
  /\ \A i, j \in DOMAIN lines : i < j => lines[i] < lines[j]

NoLineLost ==
  \A name \in DOMAIN files \union ToSet(accepted) :
    name.level # 0 => Complete(name, Lines(name))
=============================================================================
