----------------------------- MODULE Precedence -----------------------------
(***************************************************************************)
(* A list of registrations says on its own which of them a request         *)
(* reaches.  The reference that the compiled tables are compared with.     *)
(***************************************************************************)
EXTENDS RouteTable

(* A registration stands until a later one of the same method and          *)
(* compatibility shape replaces it, and keeps the place of the first.      *)
Alike(routes, i) ==
    {j \in DOMAIN routes : CompatibilityKey(routes[j]) = CompatibilityKey(routes[i])}

Place(routes, i) ==
    CHOOSE j \in Alike(routes, i) : \A k \in Alike(routes, i) : j <= k

Candidates(routes, method, path) ==
    {i \in DOMAIN routes :
        /\ \A j \in Alike(routes, i) : j <= i
        /\ routes[i].method \in {method, AnyMethod}
        /\ Describes(SegmentsOf(routes[i]), path)}

(* Literal patterns first, then the request's own method, then the higher  *)
(* specificity, then the earlier place.                                    *)
Rank(routes, i) ==
    << IF IsExact(routes[i].pattern) THEN 0 ELSE 1,
       IF routes[i].method = AnyMethod THEN 1 ELSE 0,
       IF IsExact(routes[i].pattern) THEN 0 ELSE 0 - Specificity(SegmentsOf(routes[i])),
       Place(routes, i) >>

Before(r, s) == \E n \in 1..4 : r[n] < s[n] /\ \A k \in 1..(n - 1) : r[k] = s[k]

Winner(routes, method, path) ==
    CHOOSE i \in Candidates(routes, method, path) :
        \A j \in Candidates(routes, method, path) \ {i} :
            Before(Rank(routes, i), Rank(routes, j))
=============================================================================
