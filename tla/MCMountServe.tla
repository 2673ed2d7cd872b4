---------------------------- MODULE MCMountServe ----------------------------
(* Routers mounted at "/m", with Route also at "/v/m", and a mux at "/m"   *)
(* below one, with middlewares on both.                                    *)
EXTENDS MountServe

MCRegistered == {"GET"}
MCMethods == {"GET", "POST"}
MCPatterns == { RootText, <<Parameter("id")>>, <<Static("m"), Wildcard("*")>> }
NoRoutePrefix == { <<>> }
SomeRoutePrefix == { <<>>, <<Static("v")>> }
MCMountPrefixes == { <<Static("m")>> }
MCPaths == { <<"m">>, <<"m", "a">>, <<"m", "m", "a">> }
BelowRoute == { <<"v", "m">>, <<"v", "m", "a">> }

NoMiddleware == {}
NoStems == [part \in {} |-> part]

PathMiddlewareNames ==
    {"CleanPath", "StripSlashes", "RedirectSlashes", "GetHead", "URLFormat"}
HeadAndGet == {"HEAD", "GET"}
RewrittenPatterns == { <<Static("a")>> }
MCStems == [part \in {"a.x"} |-> "a"]
RewrittenPaths ==
    { <<"m", "a">>, <<"m", "a", "">>, <<"m", "", "a">>, <<"m", "a", "", "">>,
      <<"m", "a.x">>, <<"a", "">> }
=============================================================================
