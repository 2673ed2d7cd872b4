--------------------------- MODULE PathMiddlewares ---------------------------
(***************************************************************************)
(* Middlewares that rewrite what a mux looks up: each leaves the request's *)
(* URL as it is and sets RoutePath and RouteMethod in its route context.   *)
(* An operator gives the context that the next handler finds.              *)
(***************************************************************************)
EXTENDS RouteTable

CONSTANT Stems      \* of a part with a dot, what comes before its last dot

(* The path that is looked up: RoutePath, once it is set.                  *)
RoutedPath(ctx, path) == IF ctx.routePath # <<>> THEN ctx.routePath ELSE path

RoutedMethod(ctx, method) == IF ctx.routeMethod # Blank THEN ctx.routeMethod ELSE method

TrailingSlash(path) == Len(path) > 1 /\ Last(path) = Blank

(* path.Clean of a rooted path: no empty part, no "." and no "..".         *)
CleanPart(parts, part) ==
    CASE part \in {Blank, "."}         -> parts
      [] part = ".." /\ parts = <<>>   -> parts
      [] part = ".." /\ parts # <<>>   -> Front(parts)
      [] OTHER                         -> Append(parts, part)

(* What is left of the first k parts, for every k.                         *)
CleanUpTo(path) ==
    LET parts[k \in 0..Len(path)] ==
          IF k = 0 THEN <<>> ELSE CleanPart(parts[k - 1], path[k])
    IN  parts

Clean(path) ==
    LET parts == CleanUpTo(path)[Len(path)]
    IN  IF parts = <<>> THEN <<Blank>> ELSE parts

-----------------------------------------------------------------------------
(* Mutant of CleanPath: a route path that is already set is cleaned away.  *)
CleanPathAgain(ctx, path) == [ctx EXCEPT !.routePath = Clean(path)]

(* CleanPath only acts where no route path is set.                         *)
CleanPath(ctx, path) ==
    IF ctx.routePath = <<>> THEN [ctx EXCEPT !.routePath = Clean(path)] ELSE ctx

(* StripSlashes takes one slash.                                           *)
StripSlashes(ctx, path) ==
    IF TrailingSlash(RoutedPath(ctx, path))
    THEN [ctx EXCEPT !.routePath = Front(RoutedPath(ctx, path))] ELSE ctx

(* Snapshot.Match.                                                         *)
Match(s, method, path) == Lookup(s, <<>>, method, path).route # 0

(* Mutant of GetHead: it looks ahead, and on, at the path of the URL.      *)
GetHeadOfURL(s, ctx, method, path) ==
    IF method = "HEAD" /\ ~Match(s, "HEAD", path)
    THEN [ctx EXCEPT !.routeMethod = "GET", !.routePath = path] ELSE ctx

(* GetHead: HEAD is looked up as GET if nothing matches it as HEAD.        *)
GetHead(s, ctx, method, path) ==
    IF method = "HEAD" /\ ~Match(s, "HEAD", RoutedPath(ctx, path))
    THEN [ctx EXCEPT !.routeMethod = "GET", !.routePath = RoutedPath(ctx, path)] ELSE ctx

(* URLFormat cuts the last part at its last dot.                           *)
URLFormat(ctx, path) ==
    LET routed == RoutedPath(ctx, path)
    IN  IF Last(routed) \in DOMAIN Stems
        THEN [ctx EXCEPT !.routePath = Append(Front(routed), Stems[Last(routed)])] ELSE ctx

-----------------------------------------------------------------------------
(* RedirectSlashes *)

(* Mutant of Trimmed: one slash is taken.                                  *)
TrimmedOnce(path) == Front(path)

(* strings.Trim of all slashes, with one put in front.                     *)
Trimmed(path) ==
    LET text == {k \in DOMAIN path : path[k] # Blank}
    IN  IF text = {} THEN <<Blank>>
        ELSE SubSeq(path, CHOOSE k \in text : \A j \in text : k <= j,
                          CHOOSE k \in text : \A j \in text : j <= k)

(* http.Redirect cleans its target but for a trailing slash.               *)
Location(target) ==
    IF TrailingSlash(target) /\ Clean(target) # <<Blank>> THEN Append(Clean(target), Blank)
    ELSE Clean(target)
=============================================================================
