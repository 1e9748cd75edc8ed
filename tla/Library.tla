------------------------------- MODULE Library -------------------------------
(***************************************************************************)
(* The library modules side by side: subject says which of them a          *)
(* behaviour is about, input is the argument of the ones that only compute.*)
(***************************************************************************)
EXTENDS Integers, Sequences, TLC

CONSTANTS
  Literals, Singles, Rests, MaxParts, MaxRoutes,               \* HttpRouter
  Names, ArgLines,                                             \* FlagParser
  Instances, Paths, Contents, Order,                           \* IniConfig
  Levels, Patterns, MaxDay, MaxLines,                          \* Logger
  Urls, Methods, Bodies, Answers, Piece, MaxSends, MaxQuery    \* HttpClient

VARIABLES
  subject, input,
  nodes, handlers,                                          \* HttpRouter
  argv, opts_, parseIndex, status,                          \* FlagParser
  iniFiles, cfg, curSection,                                \* IniConfig
  day, _level, _mode, _filename, logFiles,
  currentFilenames, files, accepted,                        \* Logger
  _port, _query, _header, _body, url, sent, answer,
  arrived, remaining, body, phase, sends                    \* HttpClient

routerVars == <<nodes, handlers>>
flagVars   == <<argv, opts_, parseIndex, status>>
iniVars    == <<iniFiles, cfg, curSection>>
logVars    == <<day, _level, _mode, _filename, logFiles, currentFilenames, files, accepted>>
clientVars == <<_port, _query, _header, _body, url, sent, answer, arrived, remaining,
                body, phase, sends>>
vars == <<subject, input, routerVars, flagVars, iniVars, logVars, clientVars>>

Router == INSTANCE HttpRouter
Flags  == INSTANCE FlagParser
Ini    == INSTANCE IniConfig WITH files <- iniFiles
Log    == INSTANCE Logger
Client == INSTANCE HttpClient
Chains == INSTANCE HttpInterceptors
Lexer  == INSTANCE ProtobufLexer
Proto  == INSTANCE ProtobufParser

-----------------------------------------------------------------------------
Init == Router!Init /\ Flags!Init /\ Ini!Init /\ Log!Init /\ Client!Init

Next ==
  \/ /\ subject = "router" /\ Router!Next
     /\ UNCHANGED <<subject, input, flagVars, iniVars, logVars, clientVars>>
  \/ /\ subject = "flags" /\ Flags!Next
     /\ UNCHANGED <<subject, input, routerVars, iniVars, logVars, clientVars>>
  \/ /\ subject = "ini" /\ Ini!Next
     /\ UNCHANGED <<subject, input, routerVars, flagVars, logVars, clientVars>>
  \/ /\ subject = "log" /\ Log!Next
     /\ UNCHANGED <<subject, input, routerVars, flagVars, iniVars, clientVars>>
  \/ /\ subject = "client" /\ Client!Next
     /\ UNCHANGED <<subject, input, routerVars, flagVars, iniVars, logVars>>

Spec == Init /\ [][Next]_vars

-----------------------------------------------------------------------------
\* The route found for a path matches it, and one is found if any does (HttpRouter).
RouteFound == Router!RouteFound

\* A parse that returns has given each option what argv says (FlagParser).
ParsedAsGiven == Flags!ParsedAsGiven

\* A file loads as what it means, and a saved configuration as itself (IniConfig).
LoadIsFresh == [][Ini!LoadsFresh]_vars

\* No line of a log file whose name has the level is lost (Logger).
NoLineLost == Log!NoLineLost

\* The client's body is what the server sent, whatever the segments (HttpClient).
BodyExact == Client!BodyExact

\* The interceptors that run are those that cover the path and are reached, and
\* the request is dispatched unless one of them aborts (HttpInterceptors).
InterceptorsRun ==
  subject = "chain" => Chains!RunsAsCovered(input.chain, input.path, 1)

\* The same where "**" matches zero or more components, as the comment in pathMatch
\* has it: a guard for a/** runs for the path a (HttpInterceptors).
DoubleStarRuns ==
  subject = "chain" => Chains!RunsAsCovered(input.chain, input.path, 0)

\* The tokens of a text do not depend on its layout (ProtobufLexer).
LayoutIgnored == subject = "text" => Lexer!LayoutIgnored(input)

\* The tokens of a service give back its calls, messages and fields (ProtobufParser).
ServiceFound == subject = "service" => Proto!ServiceFound(input)
=============================================================================
