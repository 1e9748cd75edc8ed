---------------------------- MODULE MCPollServer ----------------------------
(***************************************************************************)
(* PollServer for TLC: one client sends any of the streams the handler     *)
(* treats differently, the other one a short one, so that descriptors are  *)
(* used again while an answer is being written.                            *)
(***************************************************************************)
EXTENDS PollServer, TLC

CONSTANTS a, b

MCStreams ==
  (a :> {<<"get">>, <<"line", "rest">>, <<"line", "line", "rest">>,
         <<"post", "body">>, <<"file">>, <<"bad">>, <<"unknown">>})
    @@ (b :> {<<"get">>})
=============================================================================
