------------------------------ MODULE FlagParser ------------------------------
(***************************************************************************)
(* The command line flags (flag.cpp, flag.h): options are declared, then   *)
(* Parse goes through argv word by word.  A word is [dashes, name, eq,     *)
(* arg]: the dashes before its name, and what follows an "=", if there is  *)
(* one.  A word that is taken as an argument is taken whole.               *)
(***************************************************************************)
EXTENDS Integers, Sequences, FiniteSets, SequencesExt

CONSTANTS Names, ArgLines

Types == {"BOOL", "INT64_T", "STRING"}
Unset == [dashes |-> 0, name |-> "default", eq |-> FALSE, arg |-> ""]
True  == [dashes |-> 0, name |-> "true", eq |-> FALSE, arg |-> ""]

VARIABLES
  argv,        \* the words after the command's name
  opts_,       \* option name -> [type, required, isSet, value]
  parseIndex,
  status       \* declaring, parsing, done, thrown, or the exit status

vars == <<argv, opts_, parseIndex, status>>

\* The argument of a word, as the word it would be by itself.
Word(text) == [dashes |-> 0, name |-> text, eq |-> FALSE, arg |-> ""]

Help == {"help", "h"}

\* std::stoll throws at a word that does not begin with a number.
IsNumber(word) == word.dashes <= 1 /\ word.name = "7"

Init ==
  /\ argv \in ArgLines
  /\ opts_ = <<>>
  /\ parseIndex = 1
  /\ status = "declaring"

(***************************************************************************)
(* setOptCheck: a name declared twice, or not fit for a name, ends the     *)
(* program.                                                                *)
(***************************************************************************)
isValidName(name) == name \notin {"", "-v", "v=1"}

\* BoolOpt, Int64Opt, StrOpt and their Required forms
Declare(name, type, required) ==
  /\ status = "declaring"
  /\ required => type # "BOOL"
  /\ status' = IF name \in DOMAIN opts_ THEN "exit -1"
               ELSE IF isValidName(name) THEN status ELSE "exit -2"
  /\ opts_' = IF status' # status THEN opts_
              ELSE [n \in DOMAIN opts_ \union {name} |->
                      IF n = name THEN [type |-> type, required |-> required,
                                        isSet |-> ~required, value |-> Unset]
                      ELSE opts_[n]]
  /\ UNCHANGED <<argv, parseIndex>>

\* SetUsage may have been called before Parse, which exits if it has not.
Parse ==
  /\ status = "declaring"
  /\ status' \in {"parsing", "exit -1"}
  /\ UNCHANGED <<argv, opts_, parseIndex>>

Ends(code) == status' = code /\ UNCHANGED <<argv, opts_, parseIndex>>

\* SetBoolValue and SetValue
SetValue(name, value, index) ==
  IF opts_[name].type = "INT64_T" /\ ~IsNumber(value)
  THEN /\ status' = "thrown" /\ parseIndex' = index /\ UNCHANGED <<argv, opts_>>
  ELSE /\ opts_' = [opts_ EXCEPT ![name] = [type |-> @.type, required |-> @.required,
                                            isSet |-> TRUE, value |-> value]]
       /\ parseIndex' = index
       /\ UNCHANGED <<argv, status>>

\* Wrong: the next word is the value of the option also when "=" gave one.
WrongSetOption(opt) ==
  \/ /\ opts_[opt.name].type = "BOOL"
     /\ SetValue(opt.name, True, parseIndex + 1)
  \/ /\ opts_[opt.name].type # "BOOL" /\ parseIndex < Len(argv)
     /\ SetValue(opt.name, argv[parseIndex + 1], parseIndex + 2)
  \/ /\ opts_[opt.name].type # "BOOL" /\ parseIndex = Len(argv)
     /\ Ends("exit -2")

(***************************************************************************)
(* A bool option ignores its "=" argument; another one takes what follows  *)
(* "=", or else the next word, whatever it looks like.                     *)
(***************************************************************************)
SetOption(opt) ==
  \/ /\ opts_[opt.name].type = "BOOL"
     /\ SetValue(opt.name, True, parseIndex + 1)
  \/ /\ opts_[opt.name].type # "BOOL" /\ opt.eq
     /\ SetValue(opt.name, Word(opt.arg), parseIndex + 1)
  \/ /\ opts_[opt.name].type # "BOOL" /\ ~opt.eq /\ parseIndex < Len(argv)
     /\ SetValue(opt.name, argv[parseIndex + 1], parseIndex + 2)
  \/ /\ opts_[opt.name].type # "BOOL" /\ ~opt.eq /\ parseIndex = Len(argv)
     /\ Ends("exit -2")

ParseOpt ==
  LET opt == argv[parseIndex]
      wellFormed == opt.dashes \in {1, 2} /\ opt.name # ""
  IN /\ status = "parsing" /\ parseIndex <= Len(argv)
     /\ \/ ~wellFormed /\ Ends("exit -2")
        \/ wellFormed /\ opt.name \in Help /\ Ends("exit 0")
        \/ wellFormed /\ opt.name \notin Help \union DOMAIN opts_ /\ Ends("exit -2")
        \/ wellFormed /\ opt.name \in DOMAIN opts_ \ Help /\ SetOption(opt)

CheckRequired ==
  /\ status = "parsing" /\ parseIndex > Len(argv)
  /\ IF \A n \in DOMAIN opts_ : opts_[n].required => opts_[n].isSet
     THEN Ends("done") ELSE Ends("exit -1")

Next ==
  \/ \E name \in Names, type \in Types, required \in BOOLEAN :
       Declare(name, type, required)
  \/ Parse
  \/ ParseOpt
  \/ CheckRequired

-----------------------------------------------------------------------------
(***************************************************************************)
(* A reading of argv cuts it into groups, each of which begins at one of   *)
(* starts and gives one option a value.                                    *)
(***************************************************************************)
NeedsNext(word) == opts_[word.name].type # "BOOL" /\ ~word.eq

Reading(starts) ==
  \A i \in DOMAIN argv :
    i \in starts
      <=> ~\E j \in starts : j = i - 1 /\ argv[j].name \in DOMAIN opts_ /\ NeedsNext(argv[j])

Given(starts, name) == {i \in starts : argv[i].name = name}

Value(i) ==
  IF opts_[argv[i].name].type = "BOOL" THEN True
  ELSE IF argv[i].eq THEN Word(argv[i].arg) ELSE argv[i + 1]

(***************************************************************************)
(* When Parse returns, the words read from left to right are all declared  *)
(* options with their arguments, an option has the last value it is given  *)
(* or else its default, and every required one is given.                   *)
(***************************************************************************)
ParsedAsGiven ==
  status = "done" =>
    \E starts \in SUBSET DOMAIN argv :
      /\ Reading(starts)
      /\ \A i \in starts :
           argv[i].name \in DOMAIN opts_ /\ (NeedsNext(argv[i]) => i < Len(argv))
      /\ \A name \in DOMAIN opts_ :
           \/ /\ Given(starts, name) = {}
              /\ opts_[name].value = Unset /\ ~opts_[name].required
           \/ \E i \in Given(starts, name) :
                (\A j \in Given(starts, name) : j <= i) /\ opts_[name].value = Value(i)
=============================================================================
