------------------------------- MODULE MCServer -------------------------------
(***************************************************************************)
(* An instance of Server for TLC: mountpoints one of which is the          *)
(* beginning of another, and paths at, under and beside them.              *)
(***************************************************************************)
EXTENDS Server

MCNames == {<<"/">>, <<"a">>, <<"/", "a", "/", "b">>, NotFoundPage}
MCPaths == {<<"/">>, <<"/", "a">>, <<"/", "a", "/", "b">>, <<"/", "a", "b">>}
MCPatterns == {AnyPath, <<"/", "a">>}
=============================================================================
