----------------------------- MODULE MCMuxWalk -----------------------------
(* Two routers, one mounted at "/m", and two muxes made from them.  Behind *)
(* the prefix of Route the pattern "/{id}" does not parse.                 *)
EXTENDS MuxWalk

MCPatterns == { RootText, <<Parameter("id")>> }
MCRoutePrefixes == { <<Parameter("id")>> }
MCMountPrefixes == { <<Static("m")>> }
MCParts == { Static(""), Parameter("id"), Static("m"), Wildcard("*") }
MCStar == Wildcard("*")
MCPaths == { <<"">>, <<"a">>, <<"m">>, <<"m", "a">>, <<"m", "">>, <<"a", "a">> }
=============================================================================
