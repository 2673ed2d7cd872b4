------------------------- MODULE MountServeProofs -------------------------
(***************************************************************************)
(* Proofs about requests served by mounted muxes (MountServe):             *)
(*   - types (TypesHold): what a mux finds is told by its own table, by    *)
(*     the lemmas on route tables, whatever the request has become;        *)
(*   - the path each mux looks up (PathsHold): what the middlewares and    *)
(*     the mounts make of a clean path is clean, so StripSlashes and       *)
(*     RedirectSlashes keep their promises through a tree of muxes;        *)
(*   - where a request ends (JourneysHold): it is at every step where the  *)
(*     reference journey through the tables is, with the nearest fallbacks *)
(*     of the muxes above;                                                 *)
(*   - what it collects (SpansHold): its patterns joined describe the path *)
(*     it asked for, and its parameters are those of the joined pattern,   *)
(*     because matching behind literal texts leaves what comes behind.     *)
(***************************************************************************)
EXTENDS MountServe, RouteTableProofs

(* The path "/" is a path with one, empty, part.                           *)
LEMMA BlankPath == <<Blank>> \in RequestPaths /\ Len(<<Blank>>) = 1 /\ Plain(<<Blank>>)
<1>1. Blank \in Word
  BY DEF Word
<1>2. <<Blank>> \in Seq(Word) /\ Len(<<Blank>>) = 1
  BY <1>1, Singleton
<1>3. <<Blank>> # <<>>
  BY <1>2, EmptySeq
<1>. QED  BY <1>2, <1>3 DEF RequestPaths, Plain

(* A clean path has no trailing slash.                                     *)
LEMMA PlainNoTrailing ==
    ASSUME NEW path \in RequestPaths, Plain(path)
    PROVE  ~TrailingSlash(path)
<1>1. CASE path = <<Blank>>
  BY <1>1, BlankPath DEF TrailingSlash
<1>2. CASE \A k \in DOMAIN path : path[k] # Blank
  BY <1>2, PathProperties DEF TrailingSlash
<1>. QED  BY <1>1, <1>2 DEF Plain

(* Only the last part may be empty.                                        *)
Tame(path) == \A k \in 1..(Len(path) - 1) : path[k] # Blank

(* A path whose last part alone may be empty is clean once it has no       *)
(* trailing slash.                                                         *)
LEMMA TamePlain ==
    ASSUME NEW path \in RequestPaths
    PROVE  /\ Plain(path) => Tame(path)
           /\ Tame(path) /\ ~TrailingSlash(path) => Plain(path)
<1>1. ASSUME Plain(path) PROVE Tame(path)
  <2>1. CASE path = <<Blank>>
    BY <2>1, BlankPath DEF Tame
  <2>2. CASE \A k \in DOMAIN path : path[k] # Blank
    BY <2>2, PathProperties DEF Tame
  <2>. QED  BY <1>1, <2>1, <2>2 DEF Plain
<1>2. ASSUME Tame(path), ~TrailingSlash(path) PROVE Plain(path)
  <2>1. CASE Len(path) = 1
    <3>1. path[1] = Blank => path = <<Blank>>
      BY <2>1, PathProperties, IsSingleton DEF Word
    <3>2. DOMAIN path = {1}
      BY <2>1, PathProperties
    <3>. QED  BY <3>1, <3>2 DEF Plain
  <2>2. CASE Len(path) > 1
    <3>1. path[Len(path)] # Blank
      BY <1>2, <2>2, PathProperties DEF TrailingSlash
    <3>2. \A k \in 1..Len(path) : k = Len(path) \/ k \in 1..(Len(path) - 1)
      BY PathProperties
    <3>. QED  BY <1>2, <3>1, <3>2, PathProperties DEF Tame, Plain
  <2>3. Len(path) \in Nat \ {0}
    BY PathProperties
  <2>4. Len(path) = 1 \/ Len(path) > 1
    BY <2>3
  <2>. QED  BY <2>1, <2>2, <2>4
<1>. QED  BY <1>1, <1>2

(* What is left of a clean path is clean.                                  *)
LEMMA SuffixKeeps ==
    ASSUME NEW path \in RequestPaths, NEW a \in 1..Len(path)
    PROVE  /\ SubSeq(path, a, Len(path)) \in RequestPaths
           /\ Plain(path) => Plain(SubSeq(path, a, Len(path)))
           /\ Tame(path) => Tame(SubSeq(path, a, Len(path)))
<1> DEFINE n == Len(path)
           piece == SubSeq(path, a, n)
<1>1. n \in Nat /\ a \in 1..n /\ n \in a..n
  BY PathProperties
<1>2. /\ piece \in RequestPaths /\ Len(piece) = n - a + 1
      /\ \A k \in 1..(n - a + 1) : piece[k] = path[a + k - 1]
  BY <1>1, PieceOfPath
<1>3. ASSUME Tame(path) PROVE Tame(piece)
  <2>1. \A k \in 1..(n - a) : k \in 1..(n - a + 1) /\ a + k - 1 \in 1..(n - 1)
    BY <1>1
  <2>2. (n - a + 1) - 1 = n - a
    BY <1>1
  <2> HIDE DEF piece
  <2>. QED  BY <1>2, <1>3, <2>1, <2>2 DEF Tame
<1>4. ASSUME Plain(path) PROVE Plain(piece)
  <2>1. CASE path = <<Blank>>
    <3>1. a = 1 /\ n = 1
      BY <1>1, <2>1, BlankPath
    <3>2. piece = path
      BY <3>1, PathProperties, SubSeqFull
    <3>. QED  BY <1>4, <3>2
  <2>2. CASE \A k \in DOMAIN path : path[k] # Blank
    <3>1. \A k \in 1..(n - a + 1) : a + k - 1 \in 1..n
      BY <1>1
    <3>2. \A k \in 1..n : path[k] # Blank
      BY <2>2, PathProperties
    <3> HIDE DEF piece, n
    <3>3. DOMAIN piece = 1..(n - a + 1)
      BY <1>2, PathProperties
    <3>. QED  BY <1>2, <3>1, <3>2, <3>3 DEF Plain
  <2>. QED  BY <1>4, <2>1, <2>2 DEF Plain
<1>. QED  BY <1>2, <1>3, <1>4

(* Parts none of which is empty.                                           *)
FilledParts == {parts \in Seq(Word) : \A k \in 1..Len(parts) : parts[k] # Blank}

(* path.Clean adds no empty part, whatever part comes next.                *)
LEMMA CleanPartType ==
    ASSUME NEW parts \in FilledParts, NEW part \in Word
    PROVE  CleanPart(parts, part) \in FilledParts
<1>1. parts \in Seq(Word) /\ (\A k \in 1..Len(parts) : parts[k] # Blank) /\ Len(parts) \in Nat
  BY LenProperties DEF FilledParts
<1>2. CASE part \in {Blank, "."}
  <2>1. CleanPart(parts, part) = parts
    BY ONLY <1>2, Zenon DEF CleanPart, Blank
  <2>. QED  BY <2>1
<1>3. CASE part \notin {Blank, "."} /\ part = ".." /\ parts = <<>>
  <2>1. CleanPart(parts, part) = parts
    BY <1>3 DEF CleanPart
  <2>. QED  BY <2>1
<1>4. CASE part \notin {Blank, "."} /\ part = ".." /\ parts # <<>>
  <2>1. CleanPart(parts, part) = Front(parts)
    BY <1>4 DEF CleanPart
  <2>2. Front(parts) = SubSeq(parts, 1, Len(parts) - 1)
    BY DEF Front
  <2>3. \A i \in 1..(Len(parts) - 1) : i \in 1..Len(parts) /\ 1 + i - 1 = i
    BY <1>1
  <2>4. \A i \in 1..(Len(parts) - 1) : parts[i] \in Word
    BY <1>1, <2>3, ElementOfSeq
  <2>5. 1 \in Int /\ Len(parts) - 1 \in Int
    BY <1>1
  <2>6. /\ Front(parts) \in Seq(Word)
        /\ Len(Front(parts)) = IF 1 <= Len(parts) - 1 THEN (Len(parts) - 1) - 1 + 1 ELSE 0
        /\ \A i \in 1..((Len(parts) - 1) - 1 + 1) : Front(parts)[i] = parts[1 + i - 1]
    BY <2>2, <2>4, <2>5, SubSeqProperties
  <2>7. \A i \in 1..Len(Front(parts)) : i \in 1..(Len(parts) - 1) /\ i \in 1..((Len(parts) - 1) - 1 + 1)
    BY <1>1, <2>6
  <2>8. \A i \in 1..Len(Front(parts)) : Front(parts)[i] # Blank
    BY <1>1, <2>3, <2>6, <2>7
  <2>. QED  BY <2>1, <2>6, <2>8 DEF FilledParts
<1>5. CASE part \notin {Blank, "."} /\ part # ".."
  <2>1. CleanPart(parts, part) = Append(parts, part)
    BY <1>5 DEF CleanPart
  <2> DEFINE new == Append(parts, part)
  <2>2. /\ new \in Seq(Word) /\ Len(new) = Len(parts) + 1
        /\ \A i \in 1..Len(parts) : new[i] = parts[i]
        /\ new[Len(parts) + 1] = part
    BY <1>1, AppendProperties
  <2> HIDE DEF new
  <2>3. \A i \in 1..Len(new) : i \in 1..Len(parts) \/ i = Len(parts) + 1
    BY <1>1, <2>2
  <2>4. part # Blank
    BY <1>5
  <2>5. \A i \in 1..Len(new) : new[i] # Blank
    BY <1>1, <2>2, <2>3, <2>4
  <2>. QED  BY <2>1, <2>2, <2>5 DEF FilledParts, new
<1>. QED  BY <1>2, <1>3, <1>4, <1>5

(* The parts that path.Clean keeps are not empty: CleanUpTo is the function *)
(* its recursive definition describes.                                     *)
LEMMA CleanUpToType ==
    ASSUME NEW path \in RequestPaths
    PROVE  CleanUpTo(path)[Len(path)] \in FilledParts
<1> DEFINE n == Len(path)
           V == FilledParts
           step == [k \in 1..n |-> [v \in V |-> CleanPart(v, path[k])]]
           Is(f) == f = [k \in 0..n |-> IF k = 0 THEN <<>> ELSE CleanPart(f[k - 1], path[k])]
<1>1. n \in Nat
  BY PathProperties
<1>2. step \in [1..n -> [V -> V]] /\ <<>> \in V
  <2>1. \A k \in 1..n : path[k] \in Word
    BY PathProperties
  <2>2. \A k \in 1..n : \A v \in V : CleanPart(v, path[k]) \in V
    BY <2>1, CleanPartType
  <2>3. <<>> \in V
    BY EmptySeq DEF FilledParts
  <2> HIDE DEF V
  <2>. QED  BY <2>2, <2>3
<1> HIDE DEF V
<1>3. PICK f \in [0..n -> V] : Follows(f, n, <<>>, step)
  <2> HIDE DEF step, n
  <2>. QED  BY <1>1, <1>2, Recursion
<1>4. \A k \in 1..n : k # 0 /\ k - 1 \in 0..n /\ k \in 0..n
  BY <1>1
<1>5. Is(f)
  <2>1. \A k \in 1..n : f[k] = CleanPart(f[k - 1], path[k])
    BY <1>1, <1>3, <1>4 DEF Follows
  <2>2. f[0] = <<>>
    BY <1>3 DEF Follows
  <2>3. \A k \in 0..n : k = 0 \/ k \in 1..n
    BY <1>1
  <2>. QED  BY <2>1, <2>2, <2>3
<1>6. CleanUpTo(path) = CHOOSE g : Is(g)
  BY DEF CleanUpTo
<1>7. PICK g : Is(g) /\ g = CleanUpTo(path)
  <2> HIDE DEF Is
  <2>. QED  BY <1>5, <1>6
<1>8. g = f
  <2>1. g = [k \in 0..n |-> g[k]]
    BY <1>7
  <2>2. g[0] = <<>> /\ \A k \in 1..n : g[k] = CleanPart(g[k - 1], path[k])
    BY <1>1, <1>4, <1>7
  <2>3. \A k \in 1..n : \A v \in V : step[k][v] = CleanPart(v, path[k])
    OBVIOUS
  <2> HIDE DEF step, n, Is
  <2>4. FollowsIn(g, n, V, <<>>, step)
    BY <2>2, <2>3 DEF FollowsIn
  <2>. QED  BY <1>1, <1>2, <1>3, <2>1, <2>4, RecursionUnique
<1>9. n \in 0..n
  BY <1>1
<1>. QED  BY <1>3, <1>7, <1>8, <1>9 DEF V

(* CleanPath (middleware/clean_path.go) leaves a clean path.               *)
LEMMA CleanIsPlain ==
    ASSUME NEW path \in RequestPaths
    PROVE  Clean(path) \in RequestPaths /\ Plain(Clean(path))
<1> DEFINE parts == CleanUpTo(path)[Len(path)]
<1>1. parts \in FilledParts
  BY CleanUpToType
<1>2. Clean(path) = IF parts = <<>> THEN <<Blank>> ELSE parts
  BY DEF Clean
<1> HIDE DEF parts
<1>3. CASE parts = <<>>
  BY <1>2, <1>3, BlankPath
<1>4. CASE parts # <<>>
  <2>1. parts \in RequestPaths /\ \A k \in 1..Len(parts) : parts[k] # Blank
    BY <1>1, <1>4 DEF FilledParts, RequestPaths
  <2>2. DOMAIN parts = 1..Len(parts)
    BY <2>1, PathProperties
  <2>. QED  BY <1>2, <1>4, <2>1, <2>2 DEF Plain
<1>. QED  BY <1>3, <1>4

(* StripSlashes (middleware/strip.go) leaves a clean path of one that had a *)
(* single trailing slash and no other empty part.                          *)
LEMMA FrontIsPlain ==
    ASSUME NEW path \in RequestPaths, TrailingSlash(path)
    PROVE  Front(path) \in RequestPaths /\ (Tame(path) => Plain(Front(path)))
<1> DEFINE n == Len(path)
           b == n - 1
<1>1. n \in Nat /\ n > 1 /\ 1 \in 1..n /\ b \in 1..n /\ b - 1 + 1 = b
  BY PathProperties DEF TrailingSlash
<1>2. Front(path) = SubSeq(path, 1, b)
  BY DEF Front
<1>3. /\ Front(path) \in RequestPaths /\ Len(Front(path)) = b
      /\ \A k \in 1..b : Front(path)[k] = path[1 + k - 1]
  <2>1. b \in 1..Len(path)
    BY <1>1
  <2> HIDE DEF b
  <2>2. 1 \in 1..Len(path)
    BY <1>1
  <2>3. /\ SubSeq(path, 1, b) \in RequestPaths
        /\ Len(SubSeq(path, 1, b)) = b - 1 + 1
        /\ \A k \in 1..(b - 1 + 1) : SubSeq(path, 1, b)[k] = path[1 + k - 1]
    BY ONLY path \in RequestPaths, <2>1, <2>2, PieceOfPath, SMTT(30)
  <2>. QED  BY <1>1, <1>2, <2>3
<1>4. \A k \in 1..b : 1 + k - 1 = k
  BY <1>1
<1>5. ASSUME Tame(path) PROVE Plain(Front(path))
  <2>1. \A k \in 1..b : path[k] # Blank
    BY <1>5 DEF Tame
  <2>2. DOMAIN Front(path) = 1..b
    BY <1>3, PathProperties
  <2>. QED  BY <1>3, <1>4, <2>1, <2>2 DEF Plain
<1>. QED  BY <1>3, <1>5

(* Trimming the slashes of a path leaves a path without a trailing one.    *)
LEMMA TrimmedEnds ==
    ASSUME NEW path \in RequestPaths
    PROVE  Trimmed(path) \in RequestPaths /\ ~TrailingSlash(Trimmed(path))
<1> DEFINE n == Len(path)
           text == {k \in DOMAIN path : path[k] # Blank}
<1>1. n \in Nat /\ DOMAIN path = 1..n
  BY PathProperties
<1>2. CASE text = {}
  <2>1. Trimmed(path) = <<Blank>>
    BY <1>2 DEF Trimmed
  <2>2. <<Blank>> \in RequestPaths /\ ~TrailingSlash(<<Blank>>)
    BY BlankPath, PlainNoTrailing
  <2>. QED  BY ONLY <2>1, <2>2
<1>3. CASE text # {}
  <2>1. text \subseteq 1..n /\ text \subseteq Nat
    BY <1>1
  <2>2. \E k \in text : \A j \in text : k <= j
    <3> HIDE DEF text
    <3>. QED  BY <1>3, <2>1, LeastNatural
  <2>3. \E k \in text : \A j \in text : j <= k
    <3> DEFINE T == {n - k : k \in text}
    <3>1. T \subseteq Nat /\ T # {}
      <4> HIDE DEF text, n
      <4>1. \A k \in text : n - k \in Nat
        BY <1>1, <2>1
      <4>. QED  BY <1>3, <4>1
    <3>2. PICK d \in T : \A e \in T : d <= e
      <4> HIDE DEF T
      <4>. QED  BY <3>1, LeastNatural
    <3>3. PICK k \in text : d = n - k
      BY <3>2
    <3>4. \A j \in text : n - k <= n - j
      BY <3>2, <3>3
    <3> HIDE DEF text
    <3>. QED  BY <1>1, <2>1, <3>4
  <2> DEFINE a == CHOOSE k \in text : \A j \in text : k <= j
             b == CHOOSE k \in text : \A j \in text : j <= k
  <2>4. Trimmed(path) = SubSeq(path, a, b)
    BY <1>3 DEF Trimmed
  <2>5. a \in text /\ \A j \in text : a <= j
    <3> HIDE DEF text
    <3>. QED  BY <2>2
  <2>6. b \in text
    <3> HIDE DEF text
    <3>. QED  BY <2>3
  <2> HIDE DEF a, b
  <2>7. path[b] # Blank
    BY <2>6
  <2> HIDE DEF text
  <2>8. a \in 1..n /\ b \in a..n /\ b - a + 1 \in 1..(b - a + 1) /\ a + (b - a + 1) - 1 = b
    BY <1>1, <2>1, <2>5, <2>6
  <2> DEFINE piece == Trimmed(path)
  <2>9. /\ piece \in RequestPaths /\ Len(piece) = b - a + 1
        /\ \A k \in 1..(b - a + 1) : piece[k] = path[a + k - 1]
    BY <2>4, <2>8, PieceOfPath
  <2> HIDE DEF piece, n
  <2>10. piece[Len(piece)] # Blank
    BY <2>7, <2>8, <2>9
  <2>11. Last(piece) = piece[Len(piece)]
    BY <2>9, PathProperties
  <2>. QED  BY <2>9, <2>10, <2>11 DEF TrailingSlash, piece
<1>. QED  BY <1>2, <1>3

(* RedirectSlashes (middleware/strip.go) redirects to a clean path.        *)
LEMMA LocationIsPlain ==
    ASSUME NEW path \in RequestPaths
    PROVE  Location(Trimmed(path)) \in RequestPaths /\ Plain(Location(Trimmed(path)))
<1> DEFINE t == Trimmed(path)
<1>1. t \in RequestPaths /\ ~TrailingSlash(t)
  BY TrimmedEnds
<1> HIDE DEF t
<1>2. Location(t) = Clean(t)
  BY <1>1 DEF Location
<1>. QED  BY <1>1, <1>2, CleanIsPlain DEF t

(* What a mount's handler leaves of a clean path is clean.                 *)
LEMMA RemainingIs ==
    ASSUME NEW path \in RequestPaths, NEW prefix, Len(prefix) \in Nat
    PROVE  /\ Remaining(path, prefix) \in RequestPaths
           /\ Plain(path) => Plain(Remaining(path, prefix))
           /\ Tame(path) => Tame(Remaining(path, prefix))
<1> DEFINE n == Len(path)
           a == Len(prefix) + 1
           r == TrimPrefix(path, prefix)
<1>1. n \in Nat /\ a \in Nat /\ a >= 1
  BY PathProperties
<1>2. path # <<>>
  BY DEF RequestPaths
<1>3. CASE ~Covers(prefix, path)
  <2>1. r = path
    BY <1>3 DEF TrimPrefix
  <2>2. Remaining(path, prefix) = path
    BY <1>2, <2>1 DEF Remaining
  <2>. QED  BY <2>2
<1>4. CASE Covers(prefix, path) /\ a > n
  <2>1. r = SubSeq(path, a, n)
    BY <1>4 DEF TrimPrefix
  <2>2. SubSeq(path, a, n) = <<>>
    <3> HIDE DEF a, n
    <3>. QED  BY <1>1, <1>4, SubSeqEmpty
  <2>3. Remaining(path, prefix) = <<Blank>>
    BY <2>1, <2>2 DEF Remaining
  <2>. QED  BY <2>3, BlankPath, TamePlain
<1>5. CASE Covers(prefix, path) /\ a <= n
  <2>1. r = SubSeq(path, a, n)
    BY <1>5 DEF TrimPrefix
  <2>2. a \in 1..n
    BY <1>1, <1>5
  <2>3. /\ r \in RequestPaths
        /\ Plain(path) => Plain(r)
        /\ Tame(path) => Tame(r)
    <3> HIDE DEF a, r
    <3>. QED  BY <2>1, <2>2, SuffixKeeps
  <2>4. Remaining(path, prefix) = r
    BY <2>3 DEF Remaining, RequestPaths
  <2>. QED  BY <2>3, <2>4
<1>. QED  BY <1>1, <1>3, <1>4, <1>5

(* The routes that Method and Mount add to mux m                           *)
OwnRoutes ==
    {[method |-> x, pattern |-> text, handler |-> Handler("route", n)] :
        x \in Registered, text \in {t \in Patterns : Parses(t)}, n \in Nat}

MountRoutes(m) ==
    {[method |-> AnyMethod, pattern |-> a \o b \o <<Rest>>, handler |-> MountHandler(child, b)] :
        a \in RoutePrefixes, b \in MountPrefixes, child \in {c \in Muxes : m < c}}

RoutesOf(m) == OwnRoutes \cup MountRoutes(m)

(* The prefixes of a mounted route are literal texts, and so is their      *)
(* concatenation.                                                          *)
LEMMA LiteralPrefix ==
    ASSUME NEW a \in RoutePrefixes, NEW b \in MountPrefixes
    PROVE  IsText(a) /\ IsText(b) /\ IsExact(b) /\ IsText(a \o b) /\ IsExact(a \o b)
<1>1. IsText(a) /\ IsText(b) /\ IsExact(a) /\ IsExact(b)
  BY MountServeAssumption
<1>2. IsText(a \o b) /\ \A k \in DOMAIN (a \o b) : (a \o b)[k] \in Range(a) \cup Range(b)
  BY <1>1, ConcatIsText
<1> DEFINE c == a \o b
<1>3. \A k \in DOMAIN c : c[k].kind = "static"
  <2>1. \A x \in Range(a) \cup Range(b) : x.kind = "static"
    BY <1>1 DEF IsExact, Range
  <2> HIDE DEF c
  <2>. QED  BY <1>2, <2>1 DEF c
<1>. QED  BY <1>1, <1>2, <1>3 DEF IsExact

(* A route is parsed text; it is a registered one or the wildcard route of a *)
(* mount, whose router was created later than the mux that mounts it.      *)
LEMMA RouteIs ==
    ASSUME NEW m \in Muxes, NEW r \in RoutesOf(m)
    PROVE  /\ IsText(r.pattern) /\ Parses(r.pattern) /\ r.method \in Methods \cup {AnyMethod}
           /\ \/ r.handler.role = "route"
              \/ \E a \in RoutePrefixes, b \in MountPrefixes, child \in Muxes :
                    /\ m < child /\ r.handler = MountHandler(child, b)
                    /\ r.handler.role = "mount" /\ r.pattern = (a \o b) \o <<Rest>>
                    /\ ~IsExact(r.pattern)
<1>1. CASE r \in OwnRoutes
  <2>1. PICK x \in Registered, text \in {t \in Patterns : Parses(t)}, n \in Nat :
           r = [method |-> x, pattern |-> text, handler |-> Handler("route", n)]
    BY <1>1 DEF OwnRoutes
  <2>2. IsText(text) /\ Parses(text) /\ x \in Methods
    BY MountServeAssumption
  <2>3. Handler("route", n).role = "route"
    BY DEF Handler
  <2>. QED  BY <2>1, <2>2, <2>3
<1>2. CASE r \in MountRoutes(m)
  <2>1. PICK a \in RoutePrefixes, b \in MountPrefixes, child \in Muxes :
           /\ m < child
           /\ r = [method |-> AnyMethod, pattern |-> (a \o b) \o <<Rest>>,
                   handler |-> MountHandler(child, b)]
    BY <1>2 DEF MountRoutes
  <2> DEFINE text == a \o b
             w == text \o <<Rest>>
  <2>2. IsText(text) /\ IsExact(text)
    BY LiteralPrefix
  <2> HIDE DEF text
  <2>3. IsText(w) /\ Parses(w) /\ ~IsExact(w)
    BY <2>2, MountPattern
  <2>4. MountHandler(child, b).role = "mount"
    BY DEF MountHandler
  <2>5. w = (a \o b) \o <<Rest>>
    BY DEF text
  <2> HIDE DEF w
  <2>. QED  BY <2>1, <2>3, <2>4, <2>5
<1>. QED  BY <1>1, <1>2 DEF RoutesOf

(* A sequence of such routes is what the lemmas on route tables ask for.   *)
LEMMA RoutesParsed ==
    ASSUME NEW m \in Muxes, NEW routes \in Seq(RoutesOf(m))
    PROVE  /\ Parsed(Range(routes)) /\ routes \in Seq(Range(routes))
           /\ \A i \in 1..Len(routes) : routes[i] \in RoutesOf(m)
           /\ \A i \in 1..Len(routes) : routes[i].method \in Methods \cup {AnyMethod}
<1>1. /\ DOMAIN routes = 1..Len(routes) /\ Len(routes) \in Nat
      /\ routes = [i \in 1..Len(routes) |-> routes[i]]
      /\ \A i \in 1..Len(routes) : routes[i] \in RoutesOf(m)
  BY LenProperties, ElementOfSeq
<1>2. \A i \in 1..Len(routes) : /\ IsText(routes[i].pattern) /\ Parses(routes[i].pattern)
                                /\ routes[i].method \in Methods \cup {AnyMethod}
  BY <1>1, RouteIs
<1>3. Range(routes) = {routes[i] : i \in 1..Len(routes)}
  BY <1>1 DEF Range
<1>4. Parsed(Range(routes))
  BY <1>2, <1>3 DEF Parsed
<1>5. routes \in Seq(Range(routes))
  <2>1. \A i \in 1..Len(routes) : routes[i] \in Range(routes)
    BY <1>3
  <2>. QED  BY <1>1, <2>1, SeqDef
<1>. QED  BY <1>1, <1>2, <1>4, <1>5

(* Without scoped fallbacks the handler is the mux's own, the inherited one or *)
(* the default, in this order (router_gp.go, resolution of NotFound).      *)
LEMMA NoScoped ==
    ASSUME NEW own, NEW inherited, NEW default, NEW path
    PROVE  Fallback(<<>>, own, inherited, default, path) = Inherit(inherited, own, default)
<1> DEFINE sources == <<ScopedFallback(<<>>, path), own, inherited, default>>
           Good(k) == /\ sources[k] # NoHandler \/ k = 4
                      /\ \A j \in 1..(k - 1) : sources[j] = NoHandler
<1>1. ScopedFallback(<<>>, path) = NoHandler
  <2>1. DOMAIN <<>> = {}
    BY EmptySeq, LenProperties
  <2>. QED  BY <2>1 DEF ScopedFallback
<1>2. sources[1] = NoHandler /\ sources[2] = own /\ sources[3] = inherited /\ sources[4] = default
  BY <1>1
<1>3. Fallback(<<>>, own, inherited, default, path) = sources[CHOOSE k \in 1..4 : Good(k)]
  BY DEF Fallback
<1> HIDE DEF sources
<1>4. \A k \in 1..4 : \A j \in 1..4 : Good(k) /\ Good(j) => j = k
  <2>1. \A k, j \in 1..4 : j < k => j \in 1..(k - 1) /\ j # 4
    OBVIOUS
  <2>2. \A k, j \in 1..4 : j < k => ~(Good(k) /\ Good(j))
    BY <2>1
  <2>3. \A k, j \in 1..4 : j = k \/ j < k \/ k < j
    OBVIOUS
  <2> HIDE DEF Good
  <2>. QED  BY <2>2, <2>3
<1>5. ASSUME NEW k \in 1..4, Good(k) PROVE Fallback(<<>>, own, inherited, default, path) = sources[k]
  <2>1. (CHOOSE j \in 1..4 : Good(j)) = k
    <3> HIDE DEF Good
    <3>. QED  BY <1>4, <1>5
  <2>. QED  BY <1>3, <2>1
<1>6. (\A j \in 1..(2 - 1) : j = 1) /\ (\A j \in 1..(3 - 1) : j = 1 \/ j = 2) /\ (\A j \in 1..(4 - 1) : j = 1 \/ j = 2 \/ j = 3)
  OBVIOUS
<1>7. 2 \in 1..4 /\ 3 \in 1..4 /\ 4 \in 1..4
  OBVIOUS
<1>8. CASE own # NoHandler
  <2>1. Good(2)
    BY <1>2, <1>6, <1>8
  <2>2. Inherit(inherited, own, default) = own
    BY <1>8 DEF Inherit
  <2> HIDE DEF Good
  <2>. QED  BY <1>2, <1>5, <1>7, <2>1, <2>2
<1>9. CASE own = NoHandler /\ inherited # NoHandler
  <2>1. Good(3)
    BY <1>2, <1>6, <1>9
  <2>2. Inherit(inherited, own, default) = inherited
    BY <1>9 DEF Inherit
  <2> HIDE DEF Good
  <2>. QED  BY <1>2, <1>5, <1>7, <2>1, <2>2
<1>10. CASE own = NoHandler /\ inherited = NoHandler
  <2>1. Good(4)
    BY <1>2, <1>6, <1>10
  <2>2. Inherit(inherited, own, default) = default
    BY <1>10 DEF Inherit
  <2> HIDE DEF Good
  <2>. QED  BY <1>2, <1>5, <1>7, <2>1, <2>2
<1>. QED  BY <1>8, <1>9, <1>10

(* Fallbacks without scopes: MountServe registers none with a pattern.     *)
NoScopes(fallbacks) == fallbacks.scopedNotFound = <<>> /\ fallbacks.scopedMethodNA = <<>>

(* The methods for which a route serves the path.                          *)
ServedMethods(routes, path) == {x \in Methods : Candidates(routes, x, path) # {}}

(* What a mux answers, told from its table and the context.                *)
Routed(o, routes, ctx, method, path) ==
    LET w == Winner(routes, method, path)
    IN  /\ o.kind = "route" /\ Candidates(routes, method, path) # {}
        /\ w \in 1..Len(routes) /\ w \in Candidates(routes, method, path)
        /\ o.handler = routes[w].handler /\ o.pattern = routes[w].pattern
        /\ Serves(routes[w], method, path)
        /\ o.params = IF IsExact(routes[w].pattern) THEN ctx.params
                      ELSE MatchRoute(SegmentsOf(routes[w]), path, ctx.params).params
        /\ o.params \in Seq(Binding)

(* What a mux answers when no route serves the request.                    *)
Unrouted(o, routes, fallbacks, ctx, method, path) ==
    /\ Candidates(routes, method, path) = {}
    /\ o.allow = ServedMethods(routes, path)
    /\ \/ /\ o.kind = "405" /\ ServedMethods(routes, path) # {}
          /\ o.handler = Inherit(ctx.methodNotAllowed, fallbacks.methodNotAllowed, Default405)
       \/ /\ o.kind = "404" /\ ServedMethods(routes, path) = {}
          /\ o.handler = Inherit(ctx.notFound, fallbacks.notFound, Default404)

(* What ServeHTTP of a mux does is told by its routes: the winner's handler *)
(* if a route serves the request, else 405 if another method would be served, *)
(* else 404.                                                               *)
LEMMA ServeIs ==
    ASSUME NEW m \in Muxes, NEW routes \in Seq(RoutesOf(m)), NEW fallbacks, NoScopes(fallbacks),
           NEW ctx, ctx.params \in Seq(Binding), NEW method, method # AnyMethod,
           NEW path \in RequestPaths
    PROVE  LET o == Serve(FillSnapshot(routes, fallbacks), ctx, method, path)
           IN  Routed(o, routes, ctx, method, path) \/ Unrouted(o, routes, fallbacks, ctx, method, path)
<1> DEFINE s == FillSnapshot(routes, fallbacks)
           R == Range(routes)
           C == Candidates(routes, method, path)
           w == Winner(routes, method, path)
           served == ServedMethods(routes, path)
           found == Lookup(s, ctx.params, method, path)
           o == Serve(s, ctx, method, path)
<1>1. /\ Parsed(R) /\ routes \in Seq(R)
      /\ \A i \in 1..Len(routes) : routes[i].method \in Methods \cup {AnyMethod}
  BY RoutesParsed
<1>2. path \in Seq(Word) \ {<<>>} /\ AnyMethod \notin Methods
  BY MountServeAssumption DEF RequestPaths
<1> HIDE DEF R
<1>3. Filled(s, Kept(routes)) /\ s.fallbacks = fallbacks
  <2>1. s = [routes |-> Kept(routes), fallbacks |-> fallbacks,
             dynamic |-> [x \in {r.method : r \in Range(Kept(routes))} |-> Dynamic(Kept(routes), x)]]
    BY <1>1, FilledFromKept
  <2>. QED  BY <2>1 DEF Filled
<1> HIDE DEF s
<1>4. \/ found.route = 0 /\ found.params = ctx.params /\ C = {}
      \/ /\ found.route \in Nat \ {0} /\ w \in C /\ w \in 1..Len(routes)
         /\ s.routes[found.route] = routes[w] /\ Serves(routes[w], method, path)
         /\ found.params = IF IsExact(routes[w].pattern) THEN ctx.params
                           ELSE MatchRoute(SegmentsOf(routes[w]), path, ctx.params).params
  <2>1. FindsWinner(routes, s, method, path, ctx.params, Lookup(s, ctx.params, method, path))
    BY <1>1, <1>2, <1>3, LookupIsWinner
  <2>. QED  BY <2>1 DEF FindsWinner
<1>5. CASE found.route # 0
  <2>1. /\ w \in C /\ w \in 1..Len(routes)
        /\ s.routes[found.route] = routes[w] /\ Serves(routes[w], method, path)
        /\ found.params = IF IsExact(routes[w].pattern) THEN ctx.params
                          ELSE MatchRoute(SegmentsOf(routes[w]), path, ctx.params).params
    BY <1>4, <1>5
  <2>2. o = [kind |-> "route", handler |-> s.routes[found.route].handler,
             pattern |-> s.routes[found.route].pattern,
             params |-> found.params, allow |-> {}]
    BY <1>5 DEF Serve
  <2>3. found.params \in Seq(Binding)
    <3>1. routes[w] \in R
      BY <1>1, <2>1, ElementOfSeq
    <3>2. WellFormed(SegmentsOf(routes[w]))
      BY <1>1, <3>1, ParsedIsWellFormed DEF Parsed, SegmentsOf
    <3>3. MatchRoute(SegmentsOf(routes[w]), path, ctx.params).params \in Seq(Binding)
      BY <1>2, <3>2, MatchRouteDescribes
    <3>. QED  BY <2>1, <3>3
  <2> HIDE DEF found, o, w, C
  <2>4. o.kind = "route" /\ o.handler = routes[w].handler /\ o.pattern = routes[w].pattern /\ o.params = found.params
    BY <2>1, <2>2
  <2>5. C # {}
    BY <2>1
  <2>6. Routed(o, routes, ctx, method, path)
    BY <2>1, <2>3, <2>4, <2>5 DEF Routed, w, C
  <2>. QED  BY <2>6 DEF o, s
<1>6. CASE found.route = 0
  <2>1. C = {}
    BY <1>4, <1>6
  <2>2. AllowedMethods(s, path) = served
    <3>1. Candidates(routes, method, path) = {}
      BY <2>1
    <3>2. AllowedMethods(s, path) = {x \in Methods : Candidates(routes, x, path) # {}}
      <4> HIDE DEF C
      <4>. QED  BY <1>1, <1>2, <1>3, <3>1, ProbesFindTheServed
    <3>. QED  BY <3>2 DEF ServedMethods
  <2> HIDE DEF served
  <2>3. o = IF served # {}
            THEN [kind |-> "405", params |-> found.params, allow |-> served,
                  handler |-> Fallback(fallbacks.scopedMethodNA, fallbacks.methodNotAllowed,
                                       ctx.methodNotAllowed, Default405, path)]
            ELSE [kind |-> "404", params |-> found.params, allow |-> {},
                  handler |-> Fallback(fallbacks.scopedNotFound, fallbacks.notFound,
                                       ctx.notFound, Default404, path)]
    BY <1>3, <1>6, <2>2 DEF Serve
  <2>4. /\ Fallback(fallbacks.scopedMethodNA, fallbacks.methodNotAllowed,
                    ctx.methodNotAllowed, Default405, path) =
             Inherit(ctx.methodNotAllowed, fallbacks.methodNotAllowed, Default405)
        /\ Fallback(fallbacks.scopedNotFound, fallbacks.notFound, ctx.notFound, Default404, path) =
             Inherit(ctx.notFound, fallbacks.notFound, Default404)
    <3>1. fallbacks.scopedMethodNA = <<>> /\ fallbacks.scopedNotFound = <<>>
      BY DEF NoScopes
    <3>. QED  BY <3>1, NoScoped
  <2> HIDE DEF found, o, C
  <2>5. \/ /\ served # {} /\ o.kind = "405" /\ o.allow = served
           /\ o.handler = Inherit(ctx.methodNotAllowed, fallbacks.methodNotAllowed, Default405)
        \/ /\ served = {} /\ o.kind = "404" /\ o.allow = served
           /\ o.handler = Inherit(ctx.notFound, fallbacks.notFound, Default404)
    BY <2>3, <2>4
  <2>6. Unrouted(o, routes, fallbacks, ctx, method, path)
    BY <2>1, <2>5 DEF Unrouted, C, served
  <2>. QED  BY <2>6 DEF o, s
<1>. QED  BY <1>5, <1>6

(* The handlers a request can meet.                                        *)
NotFoundHandlers == {NoHandler, Default404} \cup {Handler("404", k) : k \in Muxes}
MethodNAHandlers == {NoHandler, Default405} \cup {Handler("405", k) : k \in Muxes}
MountHandlers == {MountHandler(child, b) : child \in Muxes, b \in MountPrefixes}

(* The patterns a context collects.                                        *)
MountPatterns == {a \o b \o <<Rest>> : a \in RoutePrefixes, b \in MountPrefixes}
RouteTexts == Patterns \cup MountPrefixes \cup MountPatterns

(* The tables of the muxes.                                                *)
Fallbacks(m) ==
    [notFound : {NoHandler, Handler("404", m)}, methodNotAllowed : {NoHandler, Handler("405", m)},
     scopedNotFound : {<<>>}, scopedMethodNA : {<<>>}]

MountPoints == {a \o b : a \in RoutePrefixes, b \in MountPrefixes}

Table(m) ==
    [uses : Seq(Middlewares), routes : Seq(RoutesOf(m)),
     mounts : SUBSET MountPoints, fallbacks : Fallbacks(m)]

(* Every mux has a table.                                                  *)
TablesOK == /\ tables = [m \in Muxes |-> tables[m]]
            /\ \A m \in Muxes : tables[m] \in Table(m)

RoutePaths == {<<>>} \cup RequestPaths

(* The contexts: bindings, collected patterns, inherited fallbacks, and the *)
(* route path and method that the middlewares and mounts leave.            *)
Contexts ==
    [params : Seq(Binding), notFound : NotFoundHandlers, methodNotAllowed : MethodNAHandlers,
     routePath : RoutePaths, routeMethod : {Blank, "GET"}, patterns : Seq(RouteTexts)]

(* The requests in flight.                                                 *)
Requests ==
    [phase : {"serve", "mount"}, mux : Muxes, todo : Seq(Middlewares), method : Methods,
     path : RequestPaths, ctx : Contexts, handler : {NoHandler} \cup MountHandlers,
     looked : Seq(RequestPaths), redirects : Nat]

(* A request in flight has only middlewares of its mux left to run; while a *)
(* mount hands it over, its handler points to a mux created later.         *)
RequestOK ==
    \/ request = Idle
    \/ /\ request \in Requests
       /\ Range(request.todo) \subseteq Range(tables[request.mux].uses)
       /\ request.phase = "mount" =>
             /\ request.handler \in MountHandlers
             /\ request.mux < request.handler.nth
             /\ request.todo = <<>>
             /\ request.ctx.patterns # <<>>

(* The replies of RedirectSlashes.                                         *)
Redirects == [kind : {"redirect"}, method : Methods, target : RequestPaths, redirects : Nat]

(* The replies.                                                            *)
ReplyOK ==
    \/ reply = NoReply
    \/ reply \in Redirects
    \/ /\ reply.kind \in {"route", "404", "405"} /\ reply.method \in Methods
       /\ reply.path \in RequestPaths /\ reply.mux \in Muxes
       /\ reply.looked \in Seq(RequestPaths) /\ Len(reply.looked) # 0

(* The type invariant.                                                     *)
TypeInv == TablesOK /\ RequestOK /\ ReplyOK

-----------------------------------------------------------------------------

(* The fields of a context.                                                *)
LEMMA FieldsOfContext ==
    ASSUME NEW ctx \in Contexts
    PROVE  /\ ctx.params \in Seq(Binding) /\ ctx.notFound \in NotFoundHandlers
           /\ ctx.methodNotAllowed \in MethodNAHandlers /\ ctx.routePath \in RoutePaths
           /\ ctx.routeMethod \in {Blank, "GET"} /\ ctx.patterns \in Seq(RouteTexts)
BY DEF Contexts

(* The fields of a request that runs.                                      *)
LEMMA FieldsOfRequest ==
    ASSUME NEW r \in Requests
    PROVE  /\ r.phase \in {"serve", "mount"} /\ r.mux \in Muxes /\ r.todo \in Seq(Middlewares)
           /\ r.method \in Methods /\ r.path \in RequestPaths /\ r.ctx \in Contexts
           /\ r.handler \in {NoHandler} \cup MountHandlers /\ r.looked \in Seq(RequestPaths)
           /\ r.redirects \in Nat
BY DEF Requests

(* The fields of a mux's table.                                            *)
LEMMA FieldsOfTable ==
    ASSUME NEW m, NEW t \in Table(m)
    PROVE  /\ t.uses \in Seq(Middlewares) /\ t.routes \in Seq(RoutesOf(m))
           /\ t.fallbacks \in Fallbacks(m)
           /\ t.fallbacks.notFound \in {NoHandler, Handler("404", m)}
           /\ t.fallbacks.methodNotAllowed \in {NoHandler, Handler("405", m)}
           /\ NoScopes(t.fallbacks)
<1>1. t.uses \in Seq(Middlewares) /\ t.routes \in Seq(RoutesOf(m)) /\ t.fallbacks \in Fallbacks(m)
  BY DEF Table
<1> DEFINE f == t.fallbacks
<1>2. f \in Fallbacks(m)
  BY <1>1
<1> HIDE DEF f
<1>3. /\ f.notFound \in {NoHandler, Handler("404", m)}
      /\ f.methodNotAllowed \in {NoHandler, Handler("405", m)}
      /\ NoScopes(f)
  BY <1>2 DEF Fallbacks, NoScopes
<1>. QED  BY <1>1, <1>3 DEF f

(* A request runs                                                          *)
Running == request # Idle /\ request \in Requests

(* A request with a phase runs.                                            *)
LEMMA Phases ==
    ASSUME TypeInv, request.phase \in {"serve", "mount"}
    PROVE  Running
<1>1. request # Idle
  BY DEF Idle
<1>. QED  BY <1>1 DEF TypeInv, RequestOK, Running

(* The path a mux looks up is the context's route path, if it has one.     *)
LEMMA CurrentPathType ==
    ASSUME NEW ctx \in Contexts, NEW path \in RequestPaths
    PROVE  /\ RoutedPath(ctx, path) \in RequestPaths
           /\ ctx.routePath # <<>> => RoutedPath(ctx, path) = ctx.routePath
           /\ ctx.routePath = <<>> => RoutedPath(ctx, path) = path
<1>1. ctx.routePath \in RoutePaths
  BY FieldsOfContext
<1>. QED  BY <1>1 DEF RoutedPath, RoutePaths

(* The method a mux looks up is never the one of all methods.              *)
LEMMA CurrentMethodType ==
    ASSUME NEW ctx \in Contexts, NEW method \in Methods
    PROVE  RoutedMethod(ctx, method) \in Methods \cup {"GET"} /\ RoutedMethod(ctx, method) # AnyMethod
<1>1. ctx.routeMethod \in {Blank, "GET"}
  BY FieldsOfContext
<1>2. "GET" # AnyMethod
  BY Zenon DEF AnyMethod
<1>3. method # AnyMethod
  BY MountServeAssumption
<1>. QED  BY <1>1, <1>2, <1>3 DEF RoutedMethod

-----------------------------------------------------------------------------
(* The context with another route path and method.                         *)
Moved(ctx, p, q) == [ctx EXCEPT !.routePath = p, !.routeMethod = q]

(* Changing the route path and method leaves the rest of the context.      *)
LEMMA MovedIs ==
    ASSUME NEW ctx \in Contexts, NEW p \in RoutePaths, NEW q \in {Blank, "GET"}
    PROVE  /\ Moved(ctx, p, q) \in Contexts
           /\ Moved(ctx, p, q).routePath = p /\ Moved(ctx, p, q).routeMethod = q
           /\ Moved(ctx, p, q).params = ctx.params
           /\ Moved(ctx, p, q).patterns = ctx.patterns
           /\ Moved(ctx, p, q).notFound = ctx.notFound
           /\ Moved(ctx, p, q).methodNotAllowed = ctx.methodNotAllowed
           /\ ctx = Moved(ctx, ctx.routePath, ctx.routeMethod)
           /\ [ctx EXCEPT !.routePath = p] = Moved(ctx, p, ctx.routeMethod)
BY DEF Contexts, Moved

(* What each middleware makes of the route path and method.                *)
Cleaned(ctx, path, p, q) ==
    /\ q = ctx.routeMethod
    /\ p = IF ctx.routePath = <<>> THEN Clean(path) ELSE ctx.routePath

Stripped(ctx, path, p, q) ==
    /\ q = ctx.routeMethod
    /\ p = IF TrailingSlash(RoutedPath(ctx, path)) THEN Front(RoutedPath(ctx, path)) ELSE ctx.routePath

Headed(s, ctx, method, path, p, q) ==
    IF method = "HEAD" /\ ~Match(s, "HEAD", RoutedPath(ctx, path))
    THEN p = RoutedPath(ctx, path) /\ q = "GET"
    ELSE p = ctx.routePath /\ q = ctx.routeMethod

Same(ctx, p, q) == p = ctx.routePath /\ q = ctx.routeMethod

Effect(middleware, s, ctx, method, path, p, q) ==
    \/ middleware = "CleanPath" /\ Cleaned(ctx, path, p, q)
    \/ middleware = "StripSlashes" /\ Stripped(ctx, path, p, q)
    \/ middleware = "URLFormat" /\ q = ctx.routeMethod
    \/ middleware = "GetHead" /\ Headed(s, ctx, method, path, p, q)
    \/ middleware = "RedirectSlashes" /\ Same(ctx, p, q) /\ ~TrailingSlash(RoutedPath(ctx, path))

(* CleanPath changes the route path only.                                  *)
LEMMA CleanPathMoves ==
    ASSUME NEW ctx \in Contexts, NEW path \in RequestPaths
    PROVE  \E p \in RoutePaths, q \in {Blank, "GET"} :
              CleanPath(ctx, path) = Moved(ctx, p, q) /\ Cleaned(ctx, path, p, q)
<1> DEFINE p == IF ctx.routePath = <<>> THEN Clean(path) ELSE ctx.routePath
           q == ctx.routeMethod
<1>1. p \in RoutePaths /\ q \in {Blank, "GET"}
  BY CleanIsPlain, FieldsOfContext DEF RoutePaths
<1>2. Cleaned(ctx, path, p, q)
  BY DEF Cleaned
<1>3. CleanPath(ctx, path) = IF ctx.routePath = <<>> THEN [ctx EXCEPT !.routePath = Clean(path)] ELSE ctx
  BY DEF CleanPath
<1>4. CASE ctx.routePath = <<>>
  <2>1. CleanPath(ctx, path) = [ctx EXCEPT !.routePath = p]
    BY <1>3, <1>4
  <2> HIDE DEF p
  <2>2. [ctx EXCEPT !.routePath = p] = Moved(ctx, p, ctx.routeMethod)
    BY <1>1, MovedIs
  <2>. QED  BY <1>1, <1>2, <2>1, <2>2
<1>5. CASE ctx.routePath # <<>>
  <2>1. CleanPath(ctx, path) = ctx /\ p = ctx.routePath
    BY <1>3, <1>5
  <2> HIDE DEF p
  <2>2. ctx = Moved(ctx, ctx.routePath, ctx.routeMethod)
    BY <1>1, MovedIs
  <2>. QED  BY <1>1, <1>2, <2>1, <2>2
<1>. QED  BY <1>4, <1>5

(* StripSlashes changes the route path only.                               *)
LEMMA StripSlashesMoves ==
    ASSUME NEW ctx \in Contexts, NEW path \in RequestPaths
    PROVE  \E p \in RoutePaths, q \in {Blank, "GET"} :
              StripSlashes(ctx, path) = Moved(ctx, p, q) /\ Stripped(ctx, path, p, q)
<1> DEFINE cur == RoutedPath(ctx, path)
           p == IF TrailingSlash(cur) THEN Front(cur) ELSE ctx.routePath
           q == ctx.routeMethod
<1>1. p \in RoutePaths /\ q \in {Blank, "GET"}
  <2>1. cur \in RequestPaths
    BY CurrentPathType
  <2> HIDE DEF cur
  <2>2. TrailingSlash(cur) => Front(cur) \in RequestPaths
    BY <2>1, FrontIsPlain
  <2>. QED  BY <2>2, FieldsOfContext DEF RoutePaths
<1>2. Stripped(ctx, path, p, q)
  BY DEF Stripped
<1>3. StripSlashes(ctx, path) = IF TrailingSlash(cur) THEN [ctx EXCEPT !.routePath = Front(cur)] ELSE ctx
  BY DEF StripSlashes
<1> HIDE DEF cur
<1>4. CASE TrailingSlash(cur)
  <2>1. StripSlashes(ctx, path) = [ctx EXCEPT !.routePath = p]
    BY <1>3, <1>4
  <2> HIDE DEF p
  <2>2. [ctx EXCEPT !.routePath = p] = Moved(ctx, p, ctx.routeMethod)
    BY <1>1, MovedIs
  <2>. QED  BY <1>1, <1>2, <2>1, <2>2
<1>5. CASE ~TrailingSlash(cur)
  <2>1. StripSlashes(ctx, path) = ctx /\ p = ctx.routePath
    BY <1>3, <1>5
  <2> HIDE DEF p
  <2>2. ctx = Moved(ctx, ctx.routePath, ctx.routeMethod)
    BY <1>1, MovedIs
  <2>. QED  BY <1>1, <1>2, <2>1, <2>2
<1>. QED  BY <1>4, <1>5

(* GetHead changes the route path to what was looked up, with method GET.  *)
LEMMA GetHeadMoves ==
    ASSUME NEW ctx \in Contexts, NEW path \in RequestPaths, NEW s, NEW method
    PROVE  \E p \in RoutePaths, q \in {Blank, "GET"} :
              GetHead(s, ctx, method, path) = Moved(ctx, p, q) /\ Headed(s, ctx, method, path, p, q)
<1> DEFINE cur == RoutedPath(ctx, path)
           cond == method = "HEAD" /\ ~Match(s, "HEAD", cur)
<1>1. cur \in RoutePaths /\ ctx.routePath \in RoutePaths /\ ctx.routeMethod \in {Blank, "GET"} /\ "GET" \in {Blank, "GET"}
  BY CurrentPathType, FieldsOfContext DEF RoutePaths
<1>2. GetHead(s, ctx, method, path) =
         IF cond THEN [ctx EXCEPT !.routeMethod = "GET", !.routePath = cur] ELSE ctx
  BY DEF GetHead
<1>3. [ctx EXCEPT !.routeMethod = "GET", !.routePath = cur] = Moved(ctx, cur, "GET")
  <2> HIDE DEF cur
  <2>. QED  BY <1>1 DEF Contexts, Moved
<1>4. CASE cond
  <2>1. Headed(s, ctx, method, path, cur, "GET")
    BY <1>4 DEF Headed
  <2> HIDE DEF cur
  <2>. QED  BY <1>1, <1>2, <1>3, <1>4, <2>1
<1>5. CASE ~cond
  <2>1. Headed(s, ctx, method, path, ctx.routePath, ctx.routeMethod)
    BY <1>5 DEF Headed
  <2>2. ctx = Moved(ctx, ctx.routePath, ctx.routeMethod)
    BY <1>1, MovedIs
  <2> HIDE DEF cond
  <2>. QED  BY <1>1, <1>2, <1>5, <2>1, <2>2
<1>. QED  BY <1>4, <1>5

(* URLFormat changes the route path only.                                  *)
LEMMA URLFormatMoves ==
    ASSUME NEW ctx \in Contexts, NEW path \in RequestPaths
    PROVE  \E p \in RoutePaths, q \in {Blank, "GET"} :
              URLFormat(ctx, path) = Moved(ctx, p, q) /\ q = ctx.routeMethod
<1> DEFINE cur == RoutedPath(ctx, path)
           new == Append(Front(cur), Stems[Last(cur)])
<1>1. cur \in RequestPaths /\ ctx.routePath \in RoutePaths /\ ctx.routeMethod \in {Blank, "GET"}
  BY CurrentPathType, FieldsOfContext
<1>2. URLFormat(ctx, path) = IF Last(cur) \in DOMAIN Stems THEN [ctx EXCEPT !.routePath = new] ELSE ctx
  BY DEF URLFormat
<1> HIDE DEF cur
<1>3. CASE Last(cur) \in DOMAIN Stems
  <2>1. new \in RoutePaths
    <3> DEFINE n == Len(cur)
               b == n - 1
    <3>1. n \in Nat /\ b \in Int /\ \A i \in 1..b : i \in 1..n
      BY <1>1, PathProperties
    <3>2. \A i \in 1..b : cur[i] \in Word
      BY <1>1, <3>1, PathProperties
    <3>3. Front(cur) = SubSeq(cur, 1, b)
      BY DEF Front
    <3> HIDE DEF b, n
    <3>4. 1 \in Int
      OBVIOUS
    <3>5. SubSeq(cur, 1, b) \in Seq(Word)
      BY <3>1, <3>2, <3>4, SubSeqProperties
    <3>6. Stems[Last(cur)] \in Word
      BY <1>3, MountServeAssumption
    <3> DEFINE f == Front(cur)
               x == Stems[Last(cur)]
    <3>7. f \in Seq(Word) /\ x \in Word
      BY <3>3, <3>5, <3>6
    <3> HIDE DEF f, x
    <3>8. Append(f, x) \in Seq(Word) /\ Len(Append(f, x)) = Len(f) + 1 /\ Len(f) \in Nat
      BY <3>7, AppendProperties, LenProperties
    <3>9. Append(f, x) # <<>>
      <4> DEFINE a == Append(f, x)
      <4> HIDE DEF a
      <4>1. Len(a) # 0
        BY <3>8 DEF a
      <4>. QED  BY <4>1, EmptySeq DEF a
    <3>. QED  BY <3>8, <3>9 DEF RequestPaths, RoutePaths, f, x
  <2> HIDE DEF new
  <2>2. [ctx EXCEPT !.routePath = new] = Moved(ctx, new, ctx.routeMethod)
    BY <1>1, <2>1, MovedIs
  <2>. QED  BY <1>1, <1>2, <1>3, <2>1, <2>2
<1>4. CASE Last(cur) \notin DOMAIN Stems
  <2>1. ctx = Moved(ctx, ctx.routePath, ctx.routeMethod)
    BY <1>1, MovedIs
  <2>. QED  BY <1>1, <1>2, <1>4, <2>1
<1>. QED  BY <1>3, <1>4

(* A middleware passes the request on.                                     *)
Passes(middleware, p, q) ==
    /\ Reaches(middleware)
    /\ request' = [request EXCEPT !.todo = Tail(@), !.ctx = Moved(request.ctx, p, q)]
    /\ UNCHANGED <<tables, calls, reply>>
    /\ Effect(middleware, SnapshotOf(request.mux), request.ctx, request.method, request.path, p, q)

(* A middleware redirects, or it passes the request on with another route path *)
(* or method.                                                              *)
LEMMA RewriteIs ==
    ASSUME TypeInv, Rewrite
    PROVE  \/ RedirectSlashes
           \/ \E middleware : \E p \in RoutePaths, q \in {Blank, "GET"} : Passes(middleware, p, q)
<1> DEFINE ctx == request.ctx
           path == request.path
           s == SnapshotOf(request.mux)
           P == \E middleware : \E p \in RoutePaths, q \in {Blank, "GET"} : Passes(middleware, p, q)
<1>1. ASSUME request.phase = "serve" PROVE ctx \in Contexts /\ path \in RequestPaths
  <2>1. request \in Requests
    BY <1>1, Phases DEF Running
  <2>. QED  BY <2>1, FieldsOfRequest
<1>2. ASSUME NEW mw, NEW new, Pass(mw, new) PROVE Reaches(mw) /\ request.phase = "serve"
  BY <1>2 DEF Pass, Reaches
<1>3. ASSUME NEW mw, NEW p \in RoutePaths, NEW q \in {Blank, "GET"}, Pass(mw, Moved(ctx, p, q)),
             Effect(mw, s, ctx, request.method, path, p, q)
      PROVE  P
  <2>1. Passes(mw, p, q)
    BY <1>3 DEF Pass, Passes
  <2>. QED  BY <2>1
<1> HIDE DEF P
<1>4. CASE Pass("CleanPath", CleanPath(ctx, path))
  <2>1. ctx \in Contexts /\ path \in RequestPaths
    BY <1>1, <1>2, <1>4
  <2> HIDE DEF ctx, path
  <2>2. PICK p \in RoutePaths, q \in {Blank, "GET"} :
           CleanPath(ctx, path) = Moved(ctx, p, q) /\ Cleaned(ctx, path, p, q)
    BY <2>1, CleanPathMoves
  <2>3. Effect("CleanPath", s, ctx, request.method, path, p, q)
    BY <2>2 DEF Effect
  <2>4. Pass("CleanPath", Moved(ctx, p, q))
    BY <1>4, <2>2
  <2>. QED  BY <1>3, <2>3, <2>4 DEF P
<1>5. CASE Pass("StripSlashes", StripSlashes(ctx, path))
  <2>1. ctx \in Contexts /\ path \in RequestPaths
    BY <1>1, <1>2, <1>5
  <2> HIDE DEF ctx, path
  <2>2. PICK p \in RoutePaths, q \in {Blank, "GET"} :
           StripSlashes(ctx, path) = Moved(ctx, p, q) /\ Stripped(ctx, path, p, q)
    BY <2>1, StripSlashesMoves
  <2>3. Effect("StripSlashes", s, ctx, request.method, path, p, q)
    BY <2>2 DEF Effect
  <2>4. Pass("StripSlashes", Moved(ctx, p, q))
    BY <1>5, <2>2
  <2>. QED  BY <1>3, <2>3, <2>4 DEF P
<1>6. CASE Pass("URLFormat", URLFormat(ctx, path))
  <2>1. ctx \in Contexts /\ path \in RequestPaths
    BY <1>1, <1>2, <1>6
  <2> HIDE DEF ctx, path
  <2>2. PICK p \in RoutePaths, q \in {Blank, "GET"} :
           URLFormat(ctx, path) = Moved(ctx, p, q) /\ q = ctx.routeMethod
    BY <2>1, URLFormatMoves
  <2>3. Effect("URLFormat", s, ctx, request.method, path, p, q)
    BY <2>2 DEF Effect
  <2>4. Pass("URLFormat", Moved(ctx, p, q))
    BY <1>6, <2>2
  <2>. QED  BY <1>3, <2>3, <2>4 DEF P
<1>7. CASE Pass("GetHead", GetHead(s, ctx, request.method, path))
  <2>1. ctx \in Contexts /\ path \in RequestPaths
    BY <1>1, <1>2, <1>7
  <2> DEFINE method == request.method
  <2> HIDE DEF ctx, path, s, method
  <2>2. PICK p \in RoutePaths, q \in {Blank, "GET"} :
           GetHead(s, ctx, method, path) = Moved(ctx, p, q) /\ Headed(s, ctx, method, path, p, q)
    BY <2>1, GetHeadMoves
  <2>3. Effect("GetHead", s, ctx, request.method, path, p, q)
    BY <2>2 DEF Effect, method
  <2>4. Pass("GetHead", Moved(ctx, p, q))
    BY <1>7, <2>2 DEF method
  <2>. QED  BY <1>3, <2>3, <2>4 DEF P
<1>8. CASE Pass("RedirectSlashes", ctx) /\ ~TrailingSlash(CurrentPath)
  <2>1. ctx \in Contexts
    BY <1>1, <1>2, <1>8
  <2>2. ~TrailingSlash(RoutedPath(ctx, path))
    BY <1>8 DEF CurrentPath
  <2> HIDE DEF ctx, path
  <2>3. ctx.routePath \in RoutePaths /\ ctx.routeMethod \in {Blank, "GET"}
    BY <2>1, FieldsOfContext
  <2>4. ctx = Moved(ctx, ctx.routePath, ctx.routeMethod)
    BY <2>1, <2>3, MovedIs
  <2>5. Effect("RedirectSlashes", s, ctx, request.method, path, ctx.routePath, ctx.routeMethod)
    BY <2>2 DEF Effect, Same
  <2>6. Pass("RedirectSlashes", Moved(ctx, ctx.routePath, ctx.routeMethod))
    BY <1>8, <2>4
  <2>. QED  BY <1>3, <2>3, <2>5, <2>6 DEF P
<1>. QED  BY <1>4, <1>5, <1>6, <1>7, <1>8 DEF Rewrite, P

(* A middleware is reached by a request that runs.                         *)
LEMMA ReachesRuns ==
    ASSUME TypeInv, NEW middleware, Reaches(middleware)
    PROVE  /\ Running /\ request.phase = "serve" /\ request.todo # <<>>
           /\ middleware = Head(request.todo)
BY Phases DEF Reaches

(* The elements of a sequence are its head and those of its tail.          *)
LEMMA TailOf ==
    ASSUME NEW S, NEW seq \in Seq(S), seq # <<>>
    PROVE  /\ Tail(seq) \in Seq(S) /\ Range(Tail(seq)) \subseteq Range(seq)
           /\ Head(seq) \in Range(seq) /\ Range(seq) = {Head(seq)} \cup Range(Tail(seq))
<1>1. /\ Tail(seq) \in Seq(S) /\ Len(Tail(seq)) = Len(seq) - 1 /\ Head(seq) = seq[1]
      /\ \A i \in 1..Len(Tail(seq)) : Tail(seq)[i] = seq[i + 1]
  BY HeadTailProperties
<1>2. Len(seq) \in Nat /\ Len(seq) # 0 /\ DOMAIN seq = 1..Len(seq)
  BY EmptySeq, LenProperties
<1> DEFINE t == Tail(seq)
<1> HIDE DEF t
<1>3. DOMAIN t = 1..Len(t)
  BY <1>1, LenProperties DEF t
<1>4. Len(t) = Len(seq) - 1 /\ Head(seq) = seq[1] /\ (\A i \in 1..Len(t) : t[i] = seq[i + 1])
  BY <1>1 DEF t
<1>5. (\A i \in 1..Len(t) : i + 1 \in 1..Len(seq)) /\ 1 \in 1..Len(seq)
  BY <1>2, <1>4
<1>6. \A i \in 1..Len(seq) : i = 1 \/ (i - 1 \in 1..Len(t) /\ (i - 1) + 1 = i)
  BY <1>2, <1>4
<1>7. Range(t) \subseteq Range(seq) /\ Head(seq) \in Range(seq)
  BY <1>2, <1>3, <1>4, <1>5 DEF Range
<1>8. Range(seq) \subseteq {Head(seq)} \cup Range(t)
  <2> SUFFICES ASSUME NEW i \in 1..Len(seq) PROVE seq[i] \in {Head(seq)} \cup Range(t)
    BY <1>2 DEF Range
  <2>1. CASE i = 1
    BY <1>4, <2>1
  <2>2. CASE i - 1 \in 1..Len(t) /\ (i - 1) + 1 = i
    <3>1. t[i - 1] = seq[i] /\ i - 1 \in DOMAIN t
      BY <1>3, <1>4, <2>2
    <3>. QED  BY <3>1 DEF Range
  <2>. QED  BY <1>6, <2>1, <2>2
<1>. QED  BY <1>1, <1>7, <1>8 DEF t

(* What a middleware that passes the request on changes of it.             *)
LEMMA PassFields ==
    ASSUME TypeInv, NEW middleware, NEW p \in RoutePaths, NEW q \in {Blank, "GET"},
           Passes(middleware, p, q)
    PROVE  /\ request' \in Requests
           /\ request'.phase = "serve" /\ request'.mux = request.mux /\ request'.method = request.method
           /\ request'.path = request.path /\ request'.handler = request.handler
           /\ request'.looked = request.looked /\ request'.redirects = request.redirects
           /\ request'.todo = Tail(request.todo)
           /\ request'.ctx = Moved(request.ctx, p, q)
           /\ Range(request.todo) = {middleware} \cup Range(request'.todo)
<1> DEFINE r == request
           c == Moved(r.ctx, p, q)
           t == Tail(r.todo)
<1>1. r \in Requests /\ r.phase = "serve" /\ r.todo # <<>> /\ middleware = Head(r.todo)
  BY ReachesRuns DEF Passes, Running
<1>2. r' = [r EXCEPT !.todo = t, !.ctx = c]
  BY DEF Passes
<1>3. r.ctx \in Contexts /\ r.todo \in Seq(Middlewares)
  BY <1>1, FieldsOfRequest
<1>4. c \in Contexts
  BY <1>3, MovedIs
<1>5. t \in Seq(Middlewares) /\ Range(r.todo) = {middleware} \cup Range(t)
  BY <1>1, <1>3, TailOf
<1> HIDE DEF c, t
<1>6. /\ r' \in Requests /\ r'.phase = r.phase /\ r'.mux = r.mux /\ r'.method = r.method
      /\ r'.path = r.path /\ r'.handler = r.handler /\ r'.looked = r.looked
      /\ r'.redirects = r.redirects /\ r'.todo = t /\ r'.ctx = c
  BY <1>1, <1>2, <1>4, <1>5 DEF Requests
<1>. QED  BY <1>1, <1>5, <1>6 DEF c, t

(* What the mux that has the request answers, told from its table.         *)
LEMMA OutcomeIs ==
    ASSUME TypeInv, request.phase = "serve"
    PROVE  LET t == tables[request.mux]
           IN  \/ Routed(Outcome, t.routes, request.ctx, CurrentMethod, CurrentPath)
               \/ Unrouted(Outcome, t.routes, t.fallbacks, request.ctx, CurrentMethod, CurrentPath)
<1> DEFINE r == request
           t == tables[r.mux]
           m == CurrentMethod
           p == CurrentPath
<1>1. r \in Requests
  BY Phases DEF Running
<1>2. r.mux \in Muxes /\ r.ctx \in Contexts /\ r.path \in RequestPaths /\ r.method \in Methods
  BY <1>1, FieldsOfRequest
<1>3. t \in Table(r.mux)
  BY <1>2 DEF TypeInv, TablesOK
<1>4. t.routes \in Seq(RoutesOf(r.mux)) /\ NoScopes(t.fallbacks)
  <2> HIDE DEF t
  <2>. QED  BY <1>3, FieldsOfTable
<1>5. r.ctx.params \in Seq(Binding)
  BY <1>2, FieldsOfContext
<1>6. m # AnyMethod /\ p \in RequestPaths
  BY <1>2, CurrentPathType, CurrentMethodType DEF CurrentPath, CurrentMethod
<1>7. Outcome = Serve(FillSnapshot(t.routes, t.fallbacks), r.ctx, m, p)
  BY DEF Outcome, SnapshotOf
<1> HIDE DEF r, t, m, p
<1>8. \/ Routed(Serve(FillSnapshot(t.routes, t.fallbacks), r.ctx, m, p), t.routes, r.ctx, m, p)
      \/ Unrouted(Serve(FillSnapshot(t.routes, t.fallbacks), r.ctx, m, p), t.routes, t.fallbacks, r.ctx, m, p)
  BY <1>2, <1>4, <1>5, <1>6, ServeIs
<1>. QED  BY <1>7, <1>8 DEF r, t, m, p

(* The fallback of a mounted mux is a fallback handler, never nil.         *)
LEMMA InheritedHandlers ==
    ASSUME NEW m \in Muxes, NEW t \in Table(m), NEW ctx \in Contexts
    PROVE  /\ Inherit(ctx.notFound, t.fallbacks.notFound, Default404) \in NotFoundHandlers \ {NoHandler}
           /\ Inherit(ctx.methodNotAllowed, t.fallbacks.methodNotAllowed, Default405)
                 \in MethodNAHandlers \ {NoHandler}
           /\ \A h \in NotFoundHandlers \cup MethodNAHandlers : h.role # "mount"
<1>1. /\ ctx.notFound \in NotFoundHandlers /\ ctx.methodNotAllowed \in MethodNAHandlers
      /\ t.fallbacks.notFound \in {NoHandler, Handler("404", m)}
      /\ t.fallbacks.methodNotAllowed \in {NoHandler, Handler("405", m)}
  BY FieldsOfContext, FieldsOfTable
<1>2. /\ Default404 \in NotFoundHandlers /\ Handler("404", m) \in NotFoundHandlers
      /\ Default405 \in MethodNAHandlers /\ Handler("405", m) \in MethodNAHandlers
  BY DEF NotFoundHandlers, MethodNAHandlers
<1>3. Default404 # NoHandler /\ Default405 # NoHandler
  <2>1. Default404.role = "http.NotFoundHandler" /\ Default405.role = "default 405" /\ NoHandler.role = "nil"
    BY DEF Default404, Default405, NoHandler, Handler
  <2>. QED  BY <2>1, Zenon
<1>4. \A h \in NotFoundHandlers \cup MethodNAHandlers : h.role # "mount"
  <2>1. NoHandler.role # "mount"
    BY DEF NoHandler, Handler
  <2>2. Default404.role = "http.NotFoundHandler" /\ Default405.role = "default 405"
    BY DEF Default404, Default405, Handler
  <2>3. Default404.role # "mount" /\ Default405.role # "mount"
    BY <2>2, Zenon
  <2>4. \A k : Handler("404", k).role # "mount" /\ Handler("405", k).role # "mount"
    BY DEF Handler
  <2>. QED  BY <2>1, <2>3, <2>4 DEF NotFoundHandlers, MethodNAHandlers
<1>5. \A x, y, z : Inherit(x, y, z) \in {x, y, z} /\ (z # NoHandler => Inherit(x, y, z) # NoHandler)
  BY DEF Inherit
<1>6. Inherit(ctx.notFound, t.fallbacks.notFound, Default404) \in NotFoundHandlers
  <2> DEFINE x == ctx.notFound
             y == t.fallbacks.notFound
  <2> HIDE DEF x, y
  <2>1. Inherit(x, y, Default404) \in {x, y, Default404} /\ x \in NotFoundHandlers /\ y \in {NoHandler, Handler("404", m)}
    BY <1>1, <1>5 DEF x, y
  <2>2. NoHandler \in NotFoundHandlers
    BY DEF NotFoundHandlers
  <2>. QED  BY <1>2, <2>1, <2>2 DEF x, y
<1>7. Inherit(ctx.methodNotAllowed, t.fallbacks.methodNotAllowed, Default405) \in MethodNAHandlers
  <2> DEFINE x == ctx.methodNotAllowed
             y == t.fallbacks.methodNotAllowed
  <2> HIDE DEF x, y
  <2>1. Inherit(x, y, Default405) \in {x, y, Default405} /\ x \in MethodNAHandlers /\ y \in {NoHandler, Handler("405", m)}
    BY <1>1, <1>5 DEF x, y
  <2>2. NoHandler \in MethodNAHandlers
    BY DEF MethodNAHandlers
  <2>. QED  BY <1>2, <2>1, <2>2 DEF x, y
<1>. QED  BY <1>3, <1>4, <1>5, <1>6, <1>7

(* Replacing the last element of a sequence.                               *)
LEMMA ReplaceLast ==
    ASSUME NEW S, NEW seq \in Seq(S), seq # <<>>, NEW x \in S
    PROVE  [seq EXCEPT ![Len(seq)] = x] \in Seq(S) /\ [seq EXCEPT ![Len(seq)] = x] # <<>>
<1> DEFINE n == Len(seq)
           new == [seq EXCEPT ![n] = x]
<1>1. n \in Nat /\ DOMAIN seq = 1..n /\ n # 0 /\ \A i \in 1..n : seq[i] \in S
  BY LenProperties, ElementOfSeq, EmptySeq
<1>2. new = [i \in 1..n |-> IF i = n THEN x ELSE seq[i]]
  <2>1. seq = [i \in 1..n |-> seq[i]]
    BY LenProperties
  <2> HIDE DEF n
  <2>. QED  BY <2>1
<1> HIDE DEF n, new
<1>3. \A i \in 1..n : (IF i = n THEN x ELSE seq[i]) \in S
  BY <1>1
<1>4. new \in Seq(S) /\ Len(new) = n
  BY <1>1, <1>2, <1>3, SeqDef, LenProperties
<1>5. new # <<>>
  BY <1>1, <1>4, EmptySeq
<1>. QED  BY <1>4, <1>5 DEF new, n

(* Emptying the wildcard's parameter leaves a list of bindings.            *)
LEMMA ClearWildcardType ==
    ASSUME NEW params \in Seq(Binding)
    PROVE  ClearWildcard(params) \in Seq(Binding)
<1> DEFINE n == Len(params)
           x == [Last(params) EXCEPT !.value = <<Blank>>]
<1>1. CASE params # <<>> /\ Last(params).name = Unnamed
  <2>1. n \in Nat /\ DOMAIN params = 1..n /\ n # 0 /\ n \in 1..n
    BY <1>1, LenProperties, EmptySeq
  <2>2. Last(params) = params[n] /\ params[n] \in Binding
    BY <2>1, ElementOfSeq DEF Last
  <2>3. <<Blank>> \in Seq(Word)
    BY BlankPath DEF RequestPaths
  <2>4. x \in Binding
    <3> DEFINE y == Last(params)
    <3>1. y \in Binding
      BY <2>2
    <3> HIDE DEF y
    <3>2. [y EXCEPT !.value = <<Blank>>] \in Binding
      BY <2>3, <3>1 DEF Binding
    <3>. QED  BY <3>2 DEF y
  <2>5. ClearWildcard(params) = [params EXCEPT ![n].value = <<Blank>>]
    BY <1>1 DEF ClearWildcard
  <2>6. [params EXCEPT ![n].value = <<Blank>>] = [params EXCEPT ![n] = x]
    BY <2>1, <2>2
  <2> HIDE DEF x, n
  <2>7. [params EXCEPT ![Len(params)] = x] \in Seq(Binding)
    BY <1>1, <2>4, ReplaceLast
  <2>. QED  BY <2>5, <2>6, <2>7 DEF n
<1>2. CASE ~(params # <<>> /\ Last(params).name = Unnamed)
  BY <1>2 DEF ClearWildcard
<1>. QED  BY <1>1, <1>2

(* A mount's route was found, its handler is called.                       *)
Enters(a, b, child) ==
    LET routes == tables[request.mux].routes
    IN  /\ request.mux < child
        /\ Routed(Outcome, routes, request.ctx, CurrentMethod, CurrentPath)
        /\ Outcome.handler = MountHandler(child, b)
        /\ Outcome.pattern = (a \o b) \o <<Rest>>
        /\ Outcome.params =
              MatchRoute((a \o b) \o <<Rest>>, CurrentPath, request.ctx.params).params

(* The mount handler's request: the one that the route was found for, with the *)
(* parameters and the pattern in its context.                              *)
Entered ==
    /\ request' \in Requests
    /\ request'.phase = "mount" /\ request'.mux = request.mux /\ request'.todo = <<>>
    /\ request'.method = request.method /\ request'.path = request.path
    /\ request'.redirects = request.redirects
    /\ request'.handler = Outcome.handler
    /\ request'.looked = Append(request.looked, CurrentPath)
    /\ request'.ctx.params = Outcome.params
    /\ request'.ctx.patterns = Append(request.ctx.patterns, Outcome.pattern)
    /\ request'.ctx.patterns # <<>>
    /\ request'.ctx.routePath = request.ctx.routePath
    /\ request'.ctx.routeMethod = request.ctx.routeMethod
    /\ request'.ctx.notFound = request.ctx.notFound
    /\ request'.ctx.methodNotAllowed = request.ctx.methodNotAllowed

(* The fields of a mount's handler.                                        *)
LEMMA MountHandlerIs ==
    ASSUME NEW child, NEW b
    PROVE  /\ MountHandler(child, b).role = "mount" /\ MountHandler(child, b).nth = child
           /\ MountHandler(child, b).prefix = b
BY DEF MountHandler

(* Appending an element to a sequence.                                     *)
LEMMA AppendIs ==
    ASSUME NEW S, NEW seq \in Seq(S), NEW x \in S
    PROVE  /\ Append(seq, x) \in Seq(S) /\ Append(seq, x) # <<>> /\ Len(Append(seq, x)) = Len(seq) + 1
           /\ Len(seq) \in Nat /\ Last(Append(seq, x)) = x
           /\ \A i \in 1..Len(seq) : Append(seq, x)[i] = seq[i]
<1> DEFINE new == Append(seq, x)
<1>1. /\ new \in Seq(S) /\ Len(new) = Len(seq) + 1 /\ Len(seq) \in Nat
      /\ \A i \in 1..Len(seq) : new[i] = seq[i]
      /\ new[Len(seq) + 1] = x
  BY AppendProperties, LenProperties
<1> HIDE DEF new
<1>2. Len(new) # 0
  BY <1>1
<1>3. new # <<>>
  BY <1>2, EmptySeq
<1>. QED  BY <1>1, <1>3 DEF new, Last

(* EnterMount: the route of a mount was found, its parameters are in the   *)
(* context, and the rest of the request is what it was.                    *)
LEMMA EnterIs ==
    ASSUME TypeInv, EnterMount
    PROVE  /\ Running /\ request.phase = "serve" /\ request.todo = <<>> /\ Entered
           /\ \E a \in RoutePrefixes, b \in MountPrefixes, child \in Muxes : Enters(a, b, child)
<1> DEFINE r == request
           t == tables[r.mux]
           o == Outcome
<1>1. r.phase = "serve" /\ r.todo = <<>> /\ o.handler.role = "mount" /\ Running
  BY Phases DEF EnterMount
<1>2. r \in Requests /\ r.mux \in Muxes /\ r.ctx \in Contexts /\ r.looked \in Seq(RequestPaths) /\ r.path \in RequestPaths
  BY <1>1, FieldsOfRequest DEF Running
<1>3. t \in Table(r.mux) /\ t.routes \in Seq(RoutesOf(r.mux))
  BY <1>2, FieldsOfTable DEF TypeInv, TablesOK
<1>4. CurrentPath \in RequestPaths
  BY <1>2, CurrentPathType DEF CurrentPath
<1>5. Routed(o, t.routes, r.ctx, CurrentMethod, CurrentPath)
  <2>1. ASSUME Unrouted(o, t.routes, t.fallbacks, r.ctx, CurrentMethod, CurrentPath) PROVE FALSE
    <3>1. \/ o.handler = Inherit(r.ctx.methodNotAllowed, t.fallbacks.methodNotAllowed, Default405)
          \/ o.handler = Inherit(r.ctx.notFound, t.fallbacks.notFound, Default404)
      BY <2>1 DEF Unrouted
    <3> HIDE DEF t, r, o
    <3>2. o.handler \in NotFoundHandlers \cup MethodNAHandlers
      BY <1>2, <1>3, <3>1, InheritedHandlers
    <3>3. o.handler.role # "mount"
      BY <1>2, <1>3, <3>2, InheritedHandlers
    <3>. QED  BY <1>1, <3>3
  <2>. QED  BY <1>1, <2>1, OutcomeIs
<1>6. PICK a \in RoutePrefixes, b \in MountPrefixes, child \in Muxes : Enters(a, b, child)
  <2> DEFINE w == Winner(t.routes, CurrentMethod, CurrentPath)
             x == t.routes[w]
  <2>1. /\ w \in 1..Len(t.routes) /\ o.handler = x.handler /\ o.pattern = x.pattern
        /\ o.params = IF IsExact(x.pattern) THEN r.ctx.params
                      ELSE MatchRoute(SegmentsOf(x), CurrentPath, r.ctx.params).params
    BY <1>5 DEF Routed
  <2>2. x \in RoutesOf(r.mux)
    <3> HIDE DEF w, t, r
    <3>. QED  BY <1>2, <1>3, <2>1, RoutesParsed
  <2> HIDE DEF x
  <2>3. PICK a \in RoutePrefixes, b \in MountPrefixes, child \in Muxes :
           /\ r.mux < child /\ x.handler = MountHandler(child, b)
           /\ x.pattern = (a \o b) \o <<Rest>> /\ ~IsExact(x.pattern)
    <3> HIDE DEF r, o
    <3>. QED  BY <1>1, <1>2, <2>1, <2>2, RouteIs
  <2>4. SegmentsOf(x) = (a \o b) \o <<Rest>>
    <3> DEFINE text == a \o b
    <3>1. IsText(text) /\ IsExact(text)
      BY LiteralPrefix
    <3> HIDE DEF text
    <3>2. Segments(text \o <<Rest>>) = text \o <<Rest>>
      BY <3>1, MountPattern
    <3>. QED  BY <2>3, <3>2 DEF SegmentsOf, text
  <2>5. Enters(a, b, child)
    BY <1>5, <2>1, <2>3, <2>4 DEF Enters
  <2>. QED  BY <2>5
<1>7. r' = [r EXCEPT !.phase = "mount", !.handler = o.handler,
                     !.looked = Append(r.looked, CurrentPath),
                     !.ctx = [r.ctx EXCEPT !.params = o.params,
                                           !.patterns = Append(r.ctx.patterns, o.pattern)]]
  BY DEF EnterMount
<1>8. /\ o.params \in Seq(Binding) /\ o.handler \in MountHandlers /\ o.pattern \in RouteTexts
  <2>1. o.params \in Seq(Binding)
    BY <1>5 DEF Routed
  <2>2. o.handler = MountHandler(child, b) /\ o.pattern = (a \o b) \o <<Rest>>
    BY <1>6 DEF Enters
  <2>3. MountHandler(child, b) \in MountHandlers /\ (a \o b) \o <<Rest>> \in RouteTexts
    BY DEF MountHandlers, RouteTexts, MountPatterns
  <2> HIDE DEF o
  <2>. QED  BY <2>1, <2>2, <2>3
<1> DEFINE c == [r.ctx EXCEPT !.params = o.params, !.patterns = Append(@, o.pattern)]
           l == Append(r.looked, CurrentPath)
<1>9. /\ c \in Contexts /\ c.params = o.params /\ c.patterns = Append(r.ctx.patterns, o.pattern)
      /\ c.patterns # <<>> /\ c.routePath = r.ctx.routePath /\ c.routeMethod = r.ctx.routeMethod
      /\ c.notFound = r.ctx.notFound /\ c.methodNotAllowed = r.ctx.methodNotAllowed
  <2> DEFINE y == r.ctx
             ps == Append(y.patterns, o.pattern)
  <2>1. y \in Contexts /\ y.patterns \in Seq(RouteTexts)
    BY <1>2, FieldsOfContext
  <2>2. ps \in Seq(RouteTexts) /\ ps # <<>>
    <3> HIDE DEF y, o
    <3>. QED  BY <1>8, <2>1, AppendIs
  <2>3. c = [y EXCEPT !.params = o.params, !.patterns = ps]
    OBVIOUS
  <2> HIDE DEF y, ps, o, c
  <2>4. /\ c \in Contexts /\ c.params = o.params /\ c.patterns = ps
        /\ c.routePath = y.routePath /\ c.routeMethod = y.routeMethod
        /\ c.notFound = y.notFound /\ c.methodNotAllowed = y.methodNotAllowed
    BY <1>8, <2>1, <2>2, <2>3 DEF Contexts
  <2>. QED  BY <2>2, <2>4 DEF y, ps
<1>10. l \in Seq(RequestPaths)
  <2> HIDE DEF r
  <2>. QED  BY <1>2, <1>4, AppendIs
<1>11. r' = [r EXCEPT !.phase = "mount", !.handler = o.handler, !.looked = l, !.ctx = c]
  BY <1>7
<1> HIDE DEF c, l, o
<1>12. /\ r' \in Requests /\ r'.phase = "mount" /\ r'.mux = r.mux /\ r'.todo = r.todo
       /\ r'.method = r.method /\ r'.path = r.path /\ r'.redirects = r.redirects
       /\ r'.handler = o.handler /\ r'.looked = l /\ r'.ctx = c
  BY <1>2, <1>8, <1>9, <1>10, <1>11 DEF Requests
<1>13. Entered
  BY <1>1, <1>9, <1>12 DEF Entered, l, o
<1>. QED  BY <1>1, <1>6, <1>13

(* The mounted router is called.                                           *)
HandedOver ==
    LET r == request
        f == tables[r.mux].fallbacks
    IN  /\ request' \in Requests /\ request'.phase = "serve"
        /\ request'.mux = r.handler.nth /\ request'.todo = tables[r.handler.nth].uses
        /\ request'.method = r.method /\ request'.path = r.path
        /\ request'.looked = r.looked /\ request'.redirects = r.redirects
        /\ request'.handler = NoHandler
        /\ request'.ctx.params = ClearWildcard(r.ctx.params)
        /\ request'.ctx.patterns = [r.ctx.patterns EXCEPT ![Len(r.ctx.patterns)] = r.handler.prefix]
        /\ request'.ctx.routePath = Remaining(CurrentPath, r.handler.prefix)
        /\ request'.ctx.routePath # <<>>
        /\ request'.ctx.routeMethod = r.ctx.routeMethod
        /\ request'.ctx.notFound = Inherit(r.ctx.notFound, f.notFound, Default404)
        /\ request'.ctx.methodNotAllowed =
              Inherit(r.ctx.methodNotAllowed, f.methodNotAllowed, Default405)

(* HandOver: the mounted mux has the request, with the rest of the path and the *)
(* fallbacks it inherits.                                                  *)
LEMMA HandOverIs ==
    ASSUME TypeInv, HandOver
    PROVE  /\ Running /\ request.phase = "mount" /\ request.todo = <<>>
           /\ request.handler \in MountHandlers /\ request.mux < request.handler.nth
           /\ request.handler.nth \in Muxes /\ request.handler.prefix \in MountPrefixes
           /\ HandedOver
<1> DEFINE r == request
           f == tables[r.mux].fallbacks
           cur == CurrentPath
           b == r.handler.prefix
           n == r.handler.nth
           c == [params |-> ClearWildcard(r.ctx.params),
                 patterns |-> [r.ctx.patterns EXCEPT ![Len(r.ctx.patterns)] = b],
                 routePath |-> Remaining(cur, b), routeMethod |-> r.ctx.routeMethod,
                 notFound |-> Inherit(r.ctx.notFound, f.notFound, Default404),
                 methodNotAllowed |-> Inherit(r.ctx.methodNotAllowed, f.methodNotAllowed, Default405)]
<1>1. r.phase = "mount" /\ Running
  BY Phases DEF HandOver
<1>2. /\ r \in Requests /\ r.handler \in MountHandlers /\ r.mux < r.handler.nth
      /\ r.todo = <<>> /\ r.ctx.patterns # <<>>
  BY <1>1 DEF TypeInv, RequestOK, Running
<1>3. /\ r.mux \in Muxes /\ r.ctx \in Contexts /\ r.looked \in Seq(RequestPaths)
      /\ r.path \in RequestPaths /\ r.method \in Methods /\ r.redirects \in Nat
  BY <1>2, FieldsOfRequest
<1>4. n \in Muxes /\ b \in MountPrefixes
  BY <1>2, MountHandlerIs DEF MountHandlers
<1>5. tables[r.mux] \in Table(r.mux) /\ tables[n].uses \in Seq(Middlewares)
  BY <1>3, <1>4, FieldsOfTable DEF TypeInv, TablesOK
<1>6. cur \in RequestPaths
  BY <1>3, CurrentPathType DEF CurrentPath
<1>7. Remaining(cur, b) \in RequestPaths /\ Remaining(cur, b) # <<>>
  <2>1. Len(b) \in Nat
    BY <1>4, MountServeAssumption, LenProperties DEF IsText
  <2> HIDE DEF cur, b
  <2>2. Remaining(cur, b) \in RequestPaths
    BY <1>6, <2>1, RemainingIs
  <2>. QED  BY <2>2 DEF RequestPaths
<1>8. r' = [phase |-> "serve", mux |-> n, todo |-> tables[n].uses, method |-> r.method,
            path |-> r.path, handler |-> NoHandler, looked |-> r.looked,
            redirects |-> r.redirects, ctx |-> c]
  BY DEF HandOver, Remaining
<1>9. c \in Contexts
  <2> DEFINE x1 == ClearWildcard(r.ctx.params)
             x2 == [r.ctx.patterns EXCEPT ![Len(r.ctx.patterns)] = b]
             x3 == Remaining(cur, b)
             x4 == r.ctx.routeMethod
             x5 == Inherit(r.ctx.notFound, f.notFound, Default404)
             x6 == Inherit(r.ctx.methodNotAllowed, f.methodNotAllowed, Default405)
             ctx == r.ctx
  <2>1. ctx \in Contexts
    BY <1>3
  <2>2. x1 \in Seq(Binding) /\ x4 \in {Blank, "GET"} /\ ctx.patterns \in Seq(RouteTexts)
    <3>1. ctx.params \in Seq(Binding) /\ ctx.routeMethod \in {Blank, "GET"} /\ ctx.patterns \in Seq(RouteTexts)
      BY <2>1, FieldsOfContext
    <3>. QED  BY <3>1, ClearWildcardType
  <2>3. x2 \in Seq(RouteTexts)
    <3> DEFINE ps == ctx.patterns
    <3>1. ps \in Seq(RouteTexts) /\ ps # <<>> /\ b \in RouteTexts
      BY <1>2, <1>4, <2>2 DEF RouteTexts
    <3> HIDE DEF ps, b
    <3>2. [ps EXCEPT ![Len(ps)] = b] \in Seq(RouteTexts)
      BY <3>1, ReplaceLast
    <3>. QED  BY <3>2 DEF ps
  <2>4. x3 \in RoutePaths
    BY <1>7 DEF RoutePaths
  <2>5. x5 \in NotFoundHandlers /\ x6 \in MethodNAHandlers
    <3> DEFINE t == tables[r.mux]
               m == r.mux
    <3>1. t \in Table(m) /\ m \in Muxes
      BY <1>3, <1>5
    <3> HIDE DEF t, m, ctx
    <3>2. /\ Inherit(ctx.notFound, t.fallbacks.notFound, Default404) \in NotFoundHandlers
          /\ Inherit(ctx.methodNotAllowed, t.fallbacks.methodNotAllowed, Default405) \in MethodNAHandlers
      BY <2>1, <3>1, InheritedHandlers
    <3>. QED  BY <3>2 DEF t, ctx
  <2>6. c = [params |-> x1, patterns |-> x2, routePath |-> x3, routeMethod |-> x4,
             notFound |-> x5, methodNotAllowed |-> x6]
    OBVIOUS
  <2> HIDE DEF x1, x2, x3, x4, x5, x6, c
  <2>. QED  BY <2>2, <2>3, <2>4, <2>5, <2>6 DEF Contexts
<1>10. /\ c.params = ClearWildcard(r.ctx.params)
       /\ c.patterns = [r.ctx.patterns EXCEPT ![Len(r.ctx.patterns)] = b]
       /\ c.routePath = Remaining(cur, b) /\ c.routeMethod = r.ctx.routeMethod
       /\ c.notFound = Inherit(r.ctx.notFound, f.notFound, Default404)
       /\ c.methodNotAllowed = Inherit(r.ctx.methodNotAllowed, f.methodNotAllowed, Default405)
  OBVIOUS
<1> HIDE DEF c
<1>11. r' \in Requests
  <2> HIDE DEF n, b, cur
  <2>. QED  BY <1>3, <1>4, <1>5, <1>8, <1>9 DEF Requests
<1>12. HandedOver
  <2>1. /\ r'.phase = "serve" /\ r'.mux = n /\ r'.todo = tables[n].uses /\ r'.method = r.method
        /\ r'.path = r.path /\ r'.handler = NoHandler /\ r'.looked = r.looked
        /\ r'.redirects = r.redirects /\ r'.ctx = c
    BY <1>8
  <2>. QED  BY <1>7, <1>10, <1>11, <2>1 DEF HandedOver
<1>. QED  BY <1>1, <1>2, <1>4, <1>12

(* What a new request is.                                                  *)
LEMMA IncomingIs ==
    ASSUME TypeInv, NEW method \in Methods, NEW path \in RequestPaths, NEW redirects \in Nat
    PROVE  LET r == Incoming(method, path, redirects)
           IN  /\ r \in Requests /\ r.phase = "serve" /\ r.mux = Root
               /\ r.todo = tables[Root].uses /\ r.method = method /\ r.path = path
               /\ r.ctx = NewContext /\ r.handler = NoHandler /\ r.looked = <<>>
               /\ r.redirects = redirects
               /\ NewContext \in Contexts /\ NewContext.routePath = <<>>
               /\ NewContext.routeMethod = Blank /\ NewContext.params = <<>>
               /\ NewContext.patterns = <<>> /\ NewContext.notFound = NoHandler
               /\ NewContext.methodNotAllowed = NoHandler
<1>1. FreshContext.params = <<>> /\ FreshContext.notFound = NoHandler /\ FreshContext.methodNotAllowed = NoHandler
  BY DEF FreshContext
<1>2. NewContext = [params |-> <<>>, notFound |-> NoHandler, methodNotAllowed |-> NoHandler,
                    routePath |-> <<>>, routeMethod |-> Blank, patterns |-> <<>>]
  BY <1>1 DEF NewContext
<1>3. /\ NewContext \in Contexts /\ NewContext.routePath = <<>>
      /\ NewContext.routeMethod = Blank /\ NewContext.params = <<>>
      /\ NewContext.patterns = <<>> /\ NewContext.notFound = NoHandler
      /\ NewContext.methodNotAllowed = NoHandler
  <2>1. NoHandler \in NotFoundHandlers /\ NoHandler \in MethodNAHandlers
    BY DEF NotFoundHandlers, MethodNAHandlers
  <2>2. <<>> \in Seq(Binding) /\ <<>> \in Seq(RouteTexts) /\ <<>> \in RoutePaths
    BY EmptySeq DEF RoutePaths
  <2>. QED  BY <1>2, <2>1, <2>2 DEF Contexts
<1>4. Root \in Muxes
  BY MountServeAssumption DEF Root, Muxes
<1>5. tables[Root].uses \in Seq(Middlewares)
  BY <1>4, FieldsOfTable DEF TypeInv, TablesOK
<1>6. <<>> \in Seq(RequestPaths)
  BY EmptySeq
<1>7. Incoming(method, path, redirects) =
         [phase |-> "serve", mux |-> Root, todo |-> tables[Root].uses, method |-> method,
          path |-> path, ctx |-> NewContext, handler |-> NoHandler, looked |-> <<>>,
          redirects |-> redirects]
  BY DEF Incoming
<1> DEFINE r == Incoming(method, path, redirects)
<1> HIDE DEF r
<1>8. /\ r \in Requests /\ r.phase = "serve" /\ r.mux = Root
      /\ r.todo = tables[Root].uses /\ r.method = method /\ r.path = path
      /\ r.ctx = NewContext /\ r.handler = NoHandler /\ r.looked = <<>>
      /\ r.redirects = redirects
  BY <1>3, <1>4, <1>5, <1>6, <1>7 DEF Requests, r
<1>. QED  BY <1>3, <1>8 DEF r

(* A registration or a call of Use.                                        *)
Configures(m) ==
    \/ \E method \in Registered, pattern \in Patterns : Method(m, method, pattern)
    \/ \E routePrefix \in RoutePrefixes, prefix \in MountPrefixes, child \in Muxes :
          Mount(m, routePrefix, prefix, child)
    \/ NotFound(m)
    \/ MethodNotAllowed(m)
    \/ \E middleware \in Middlewares : Use(m, middleware)

(* Adding a route leaves a table.                                          *)
LEMMA AddRouteIs ==
    ASSUME NEW m \in Muxes, NEW t \in Table(m), NEW method, NEW pattern, NEW handler,
           [method |-> method, pattern |-> pattern, handler |-> handler] \in RoutesOf(m)
    PROVE  AddRoute(t, method, pattern, handler) \in Table(m)
<1> DEFINE x == [method |-> method, pattern |-> pattern, handler |-> handler]
           rs == Append(t.routes, x)
<1>1. t.routes \in Seq(RoutesOf(m)) /\ x \in RoutesOf(m)
  BY FieldsOfTable
<1> HIDE DEF x
<1>2. rs \in Seq(RoutesOf(m))
  BY <1>1, AppendProperties
<1>3. AddRoute(t, method, pattern, handler) = [t EXCEPT !.routes = rs]
  BY DEF AddRoute, x
<1> HIDE DEF rs
<1>. QED  BY <1>2, <1>3 DEF Table

(* Replacing one table leaves tables.                                      *)
LEMMA TableChanges ==
    ASSUME TablesOK, NEW m \in Muxes, NEW t \in Table(m), tables' = [tables EXCEPT ![m] = t]
    PROVE  TablesOK'
<1>1. \A k \in Muxes : tables'[k] = IF k = m THEN t ELSE tables[k]
  BY DEF TablesOK
<1>2. tables' = [k \in Muxes |-> tables'[k]]
  BY DEF TablesOK
<1>. QED  BY <1>1, <1>2 DEF TablesOK

(* Registrations happen between requests and leave tables.                 *)
LEMMA ConfiguresIs ==
    ASSUME TypeInv, NEW m \in Muxes, Configures(m)
    PROVE  request = Idle /\ request' = Idle /\ reply' = NoReply /\ TablesOK'
<1> DEFINE t == tables[m]
<1>1. t \in Table(m) /\ TablesOK
  BY DEF TypeInv, TablesOK
<1>2. ASSUME NEW method \in Registered, NEW pattern \in Patterns, Method(m, method, pattern)
      PROVE  TablesOK'
  <2> DEFINE n == Len(t.routes) + 1
             new == AddRoute(t, method, pattern, Handler("route", n))
  <2>1. Parses(pattern) /\ tables' = [tables EXCEPT ![m] = new]
    BY <1>2 DEF Method
  <2>2. n \in Nat
    <3>1. t.routes \in Seq(RoutesOf(m))
      BY <1>1, FieldsOfTable
    <3>2. Len(t.routes) \in Nat
      BY <3>1, LenProperties
    <3>. QED  BY <3>2
  <2> HIDE DEF n
  <2>3. [method |-> method, pattern |-> pattern, handler |-> Handler("route", n)] \in RoutesOf(m)
    BY <2>1, <2>2 DEF RoutesOf, OwnRoutes
  <2> HIDE DEF t
  <2>4. new \in Table(m)
    BY <1>1, <2>3, AddRouteIs
  <2> HIDE DEF new
  <2>. QED  BY <1>1, <2>1, <2>4, TableChanges
<1>3. ASSUME NEW a \in RoutePrefixes, NEW b \in MountPrefixes, NEW child \in Muxes, Mount(m, a, b, child)
      PROVE  TablesOK'
  <2> DEFINE added == AddRoute(t, AnyMethod, (a \o b) \o <<Rest>>, MountHandler(child, b))
             ms == t.mounts \cup {a \o b}
             new == [added EXCEPT !.mounts = ms]
  <2>1. m < child /\ tables' = [tables EXCEPT ![m] = new]
    BY <1>3 DEF Mount, Rest
  <2>2. [method |-> AnyMethod, pattern |-> (a \o b) \o <<Rest>>, handler |-> MountHandler(child, b)]
           \in RoutesOf(m)
    BY <2>1 DEF RoutesOf, MountRoutes
  <2>3. added \in Table(m)
    <3> HIDE DEF t
    <3>. QED  BY <1>1, <2>2, AddRouteIs
  <2> HIDE DEF added
  <2>4. ms \in SUBSET MountPoints
    <3>1. t.mounts \in SUBSET MountPoints
      BY <1>1 DEF Table
    <3>2. a \o b \in MountPoints
      BY DEF MountPoints
    <3>. QED  BY <3>1, <3>2
  <2>5. new \in Table(m)
    <3> HIDE DEF ms
    <3>. QED  BY <2>3, <2>4 DEF Table
  <2> HIDE DEF new, t
  <2>. QED  BY <1>1, <2>1, <2>5, TableChanges
<1>4. ASSUME NotFound(m) PROVE TablesOK'
  <2> DEFINE fs == [t.fallbacks EXCEPT !.notFound = Handler("404", m)]
             new == [t EXCEPT !.fallbacks = fs]
  <2>1. tables' = [tables EXCEPT ![m] = new]
    BY <1>1, <1>4 DEF NotFound, TablesOK
  <2>2. fs \in Fallbacks(m)
    <3> DEFINE g == t.fallbacks
    <3>1. g \in Fallbacks(m)
      BY <1>1, FieldsOfTable
    <3> HIDE DEF g
    <3>2. [g EXCEPT !.notFound = Handler("404", m)] \in Fallbacks(m)
      BY <3>1 DEF Fallbacks
    <3>. QED  BY <3>2 DEF g
  <2> HIDE DEF fs, t
  <2>3. new \in Table(m)
    BY <1>1, <2>2 DEF Table
  <2> HIDE DEF new
  <2>. QED  BY <1>1, <2>1, <2>3, TableChanges
<1>5. ASSUME MethodNotAllowed(m) PROVE TablesOK'
  <2> DEFINE fs == [t.fallbacks EXCEPT !.methodNotAllowed = Handler("405", m)]
             new == [t EXCEPT !.fallbacks = fs]
  <2>1. tables' = [tables EXCEPT ![m] = new]
    BY <1>1, <1>5 DEF MethodNotAllowed, TablesOK
  <2>2. fs \in Fallbacks(m)
    <3> DEFINE g == t.fallbacks
    <3>1. g \in Fallbacks(m)
      BY <1>1, FieldsOfTable
    <3> HIDE DEF g
    <3>2. [g EXCEPT !.methodNotAllowed = Handler("405", m)] \in Fallbacks(m)
      BY <3>1 DEF Fallbacks
    <3>. QED  BY <3>2 DEF g
  <2> HIDE DEF fs, t
  <2>3. new \in Table(m)
    BY <1>1, <2>2 DEF Table
  <2> HIDE DEF new
  <2>. QED  BY <1>1, <2>1, <2>3, TableChanges
<1>6. ASSUME NEW middleware \in Middlewares, Use(m, middleware)
      PROVE  TablesOK'
  <2> DEFINE us == Append(t.uses, middleware)
             new == [t EXCEPT !.uses = us]
  <2>1. tables' = [tables EXCEPT ![m] = new]
    BY <1>1, <1>6 DEF Use, TablesOK
  <2>2. us \in Seq(Middlewares)
    <3>1. t.uses \in Seq(Middlewares)
      BY <1>1, FieldsOfTable
    <3>. QED  BY <3>1, AppendProperties
  <2> HIDE DEF us, t
  <2>3. new \in Table(m)
    BY <1>1, <2>2 DEF Table
  <2> HIDE DEF new
  <2>. QED  BY <1>1, <2>1, <2>3, TableChanges
<1>7. request = Idle /\ request' = Idle /\ reply' = NoReply
  BY DEF Configures, Method, Mount, NotFound, MethodNotAllowed, Use, Registers
<1>. QED  BY <1>2, <1>3, <1>4, <1>5, <1>6, <1>7 DEF Configures

(* A request starts.                                                       *)
Starts(method, path, redirects) ==
    /\ request = Idle /\ request' = Incoming(method, path, redirects)
    /\ reply' = NoReply /\ UNCHANGED tables

(* A request that arrives starts at the root.                              *)
LEMMA ArriveStarts ==
    ASSUME NEW method \in Methods, NEW path \in Paths, Arrive(method, path)
    PROVE  path \in RequestPaths /\ Starts(method, path, 0)
BY MountServeAssumption DEF Arrive, Starts, RequestPaths

(* A client that follows a redirect starts a request for its target.       *)
LEMMA FollowStarts ==
    ASSUME TypeInv, Follow
    PROVE  /\ reply.method \in Methods /\ reply.target \in RequestPaths /\ reply.redirects \in Nat
           /\ reply.kind = "redirect"
           /\ Starts(reply.method, reply.target, reply.redirects + 1)
<1>1. reply.kind = "redirect" /\ Starts(reply.method, reply.target, reply.redirects + 1)
  BY DEF Follow, Starts
<1>2. reply \in Redirects
  BY <1>1 DEF TypeInv, ReplyOK, NoReply
<1>. QED  BY <1>1, <1>2 DEF Redirects

(* RedirectSlashes answers a path with a trailing slash by the clean one.  *)
LEMMA RedirectIs ==
    ASSUME TypeInv, RedirectSlashes
    PROVE  /\ Running /\ request.phase = "serve" /\ CurrentPath \in RequestPaths
           /\ TrailingSlash(CurrentPath) /\ request' = Idle /\ UNCHANGED tables
           /\ reply' \in Redirects /\ reply'.kind = "redirect"
           /\ reply'.target = Location(Trimmed(CurrentPath))
           /\ reply'.target \in RequestPaths /\ Plain(reply'.target)
           /\ reply'.redirects = request.redirects
<1> DEFINE target == Location(Trimmed(CurrentPath))
<1>1. /\ Reaches("RedirectSlashes") /\ TrailingSlash(CurrentPath) /\ request' = Idle /\ UNCHANGED tables
      /\ reply' = [kind |-> "redirect", method |-> request.method, target |-> target,
                   redirects |-> request.redirects]
  BY DEF RedirectSlashes
<1>2. Running /\ request.phase = "serve"
  BY <1>1, ReachesRuns
<1>3. request.method \in Methods /\ request.redirects \in Nat /\ request.ctx \in Contexts /\ request.path \in RequestPaths
  BY <1>2, FieldsOfRequest DEF Running
<1>4. CurrentPath \in RequestPaths
  BY <1>3, CurrentPathType DEF CurrentPath
<1>5. target \in RequestPaths /\ Plain(target)
  BY <1>4, LocationIsPlain
<1> HIDE DEF target
<1>6. reply' \in Redirects /\ reply'.kind = "redirect" /\ reply'.target = target /\ reply'.redirects = request.redirects
  BY <1>1, <1>3, <1>5 DEF Redirects
<1>. QED  BY <1>1, <1>2, <1>4, <1>5, <1>6 DEF target

(* The reply tells the outcome o.                                          *)
AnsweredBy(o) ==
    /\ reply'.kind = o.kind /\ reply'.handler = o.handler /\ reply'.params = o.params
    /\ reply'.allow = o.allow /\ reply'.method = request.method /\ reply'.path = request.path
    /\ reply'.mux = request.mux
    /\ reply'.patterns = IF o.kind = "route" THEN Append(request.ctx.patterns, o.pattern)
                         ELSE request.ctx.patterns
    /\ reply'.looked = Append(request.looked, CurrentPath)

(* Answer: the reply is the outcome, and tells the path that was looked up last. *)
LEMMA AnswerStep ==
    ASSUME TypeInv, Answer
    PROVE  /\ Running /\ request.phase = "serve" /\ request.todo = <<>>
           /\ Outcome.handler.role # "mount" /\ AnsweredBy(Outcome)
           /\ request' = Idle /\ UNCHANGED tables
           /\ Outcome.kind \in {"route", "404", "405"}
           /\ CurrentPath \in RequestPaths
           /\ reply'.looked \in Seq(RequestPaths) /\ Len(reply'.looked) = Len(request.looked) + 1
           /\ Len(request.looked) \in Nat /\ Last(reply'.looked) = CurrentPath
<1> DEFINE o == Outcome
<1>1. /\ request.phase = "serve" /\ request.todo = <<>> /\ Outcome.handler.role # "mount"
      /\ request' = Idle /\ UNCHANGED tables /\ Running
  BY Phases DEF Answer
<1>2. /\ request.ctx \in Contexts /\ request.path \in RequestPaths
      /\ request.looked \in Seq(RequestPaths) /\ request.mux \in Muxes
  BY <1>1, FieldsOfRequest DEF Running
<1>3. CurrentPath \in RequestPaths
  BY <1>2, CurrentPathType DEF CurrentPath
<1> DEFINE ps == IF o.kind = "route" THEN Append(request.ctx.patterns, o.pattern)
                 ELSE request.ctx.patterns
<1>4. reply' = [kind |-> o.kind, handler |-> o.handler, params |-> o.params, allow |-> o.allow,
                method |-> request.method, path |-> request.path, mux |-> request.mux,
                patterns |-> ps, looked |-> Append(request.looked, CurrentPath)]
  BY DEF Answer
<1>5. o.kind \in {"route", "404", "405"}
  BY <1>1, OutcomeIs DEF Routed, Unrouted
<1> HIDE DEF o, ps
<1>6. AnsweredBy(o)
  BY <1>4 DEF AnsweredBy, ps
<1>7. reply'.looked = Append(request.looked, CurrentPath)
  BY <1>4
<1> DEFINE l == request.looked
           cur == CurrentPath
<1>8. l \in Seq(RequestPaths) /\ cur \in RequestPaths
  BY <1>2, <1>3
<1> HIDE DEF l, cur
<1>9. Append(l, cur) \in Seq(RequestPaths) /\ Len(Append(l, cur)) = Len(l) + 1 /\ Len(l) \in Nat
      /\ Last(Append(l, cur)) = cur
  BY <1>8, AppendIs
<1>. QED  BY <1>1, <1>3, <1>5, <1>6, <1>7, <1>9 DEF o, l, cur

(* Every step, told by what it does.                                       *)
LEMMA StepIs ==
    ASSUME TypeInv, [Next]_vars
    PROVE  \/ \E m \in Muxes : Configures(m)
           \/ \E method \in Methods, path \in RequestPaths : Starts(method, path, 0)
           \/ Follow
           \/ RedirectSlashes
           \/ \E middleware : \E p \in RoutePaths, q \in {Blank, "GET"} : Passes(middleware, p, q)
           \/ EnterMount
           \/ HandOver
           \/ Answer
           \/ UNCHANGED vars
<1>1. ASSUME NEW method \in Methods, NEW path \in Paths, Arrive(method, path)
      PROVE  \E x \in Methods, y \in RequestPaths : Starts(x, y, 0)
  <2>1. path \in RequestPaths /\ Starts(method, path, 0)
    BY <1>1, ArriveStarts
  <2>. QED  BY <2>1
<1>2. ASSUME NEW m \in Muxes,
              \/ \E method \in Registered, pattern \in Patterns : Method(m, method, pattern)
              \/ \E routePrefix \in RoutePrefixes, prefix \in MountPrefixes, child \in Muxes :
                    Mount(m, routePrefix, prefix, child)
              \/ NotFound(m)
              \/ MethodNotAllowed(m)
              \/ \E middleware \in Middlewares : Use(m, middleware)
      PROVE  \E k \in Muxes : Configures(k)
  BY <1>2 DEF Configures
<1>3. CASE Rewrite
  BY <1>3, RewriteIs
<1>. QED  BY <1>1, <1>2, <1>3 DEF Next

(* The initial state is of its types.                                      *)
THEOREM InitTypes == Init => TypeInv
<1> SUFFICES ASSUME Init PROVE TypeInv
  OBVIOUS
<1>1. NoFallbacks.notFound = NoHandler /\ NoFallbacks.methodNotAllowed = NoHandler
  BY DEF NoFallbacks
<1>2. \A m \in Muxes : NoFallbacks \in Fallbacks(m)
  BY DEF NoFallbacks, Fallbacks
<1>3. \A m \in Muxes : [uses |-> <<>>, routes |-> <<>>, mounts |-> {}, fallbacks |-> NoFallbacks] \in Table(m)
  <2> SUFFICES ASSUME NEW m \in Muxes
               PROVE  [uses |-> <<>>, routes |-> <<>>, mounts |-> {}, fallbacks |-> NoFallbacks] \in Table(m)
    OBVIOUS
  <2>1. <<>> \in Seq(Middlewares) /\ <<>> \in Seq(RoutesOf(m))
    BY EmptySeq
  <2>. QED  BY <1>2, <2>1 DEF Table
<1>4. TablesOK
  BY <1>3 DEF Init, TablesOK
<1>. QED  BY <1>4 DEF Init, TypeInv, RequestOK, ReplyOK

(* Every step leaves a state of its types.                                 *)
LEMMA NextTypes ==
    ASSUME TypeInv, [Next]_vars
    PROVE  TypeInv'
<1>1. CASE \E m \in Muxes : Configures(m)
  <2>1. request' = Idle /\ reply' = NoReply /\ TablesOK'
    BY <1>1, ConfiguresIs
  <2>. QED  BY <2>1 DEF TypeInv, RequestOK, ReplyOK
<1>2. ASSUME NEW method \in Methods, NEW path \in RequestPaths, NEW redirects \in Nat,
             Starts(method, path, redirects)
      PROVE  TypeInv'
  <2>1. tables' = tables /\ reply' = NoReply /\ request' = Incoming(method, path, redirects)
    BY <1>2 DEF Starts
  <2>2. /\ request' \in Requests /\ request'.phase = "serve" /\ request'.mux = Root
        /\ request'.todo = tables[Root].uses
    BY <2>1, IncomingIs
  <2>3. TablesOK' /\ RequestOK' /\ ReplyOK'
    BY <2>1, <2>2 DEF TypeInv, TablesOK, RequestOK, ReplyOK
  <2>. QED  BY <2>3 DEF TypeInv
<1>3. CASE \E method \in Methods, path \in RequestPaths : Starts(method, path, 0)
  <2>1. 0 \in Nat
    OBVIOUS
  <2>. QED  BY <1>2, <1>3, <2>1
<1>4. CASE Follow
  <2>1. /\ reply.method \in Methods /\ reply.target \in RequestPaths /\ reply.redirects + 1 \in Nat
        /\ Starts(reply.method, reply.target, reply.redirects + 1)
    BY <1>4, FollowStarts
  <2>. QED  BY <1>2, <2>1
<1>5. CASE RedirectSlashes
  <2>1. request' = Idle /\ tables' = tables /\ reply' \in Redirects
    BY <1>5, RedirectIs
  <2>. QED  BY <2>1 DEF TypeInv, TablesOK, RequestOK, ReplyOK
<1>6. ASSUME NEW middleware, NEW p \in RoutePaths, NEW q \in {Blank, "GET"}, Passes(middleware, p, q)
      PROVE  TypeInv'
  <2>1. /\ request' \in Requests /\ request'.phase = "serve" /\ request'.mux = request.mux
        /\ Range(request'.todo) \subseteq Range(request.todo)
    BY <1>6, PassFields
  <2>2. tables' = tables /\ reply' = reply /\ Reaches(middleware)
    BY <1>6 DEF Passes
  <2>3. Range(request.todo) \subseteq Range(tables[request.mux].uses)
    BY <2>2, ReachesRuns DEF TypeInv, RequestOK, Running
  <2>. QED  BY <2>1, <2>2, <2>3 DEF TypeInv, TablesOK, RequestOK, ReplyOK
<1>7. CASE EnterMount
  <2>1. tables' = tables /\ reply' = reply
    BY <1>7 DEF EnterMount
  <2>2. Entered /\ Running /\ request.phase = "serve" /\ request.todo = <<>>
    BY <1>7, EnterIs
  <2>3. PICK a \in RoutePrefixes, b \in MountPrefixes, child \in Muxes : Enters(a, b, child)
    BY <1>7, EnterIs
  <2>4. request'.handler = MountHandler(child, b) /\ request'.mux < request'.handler.nth
    BY <2>2, <2>3, MountHandlerIs DEF Enters, Entered
  <2>5. /\ request' \in Requests /\ request'.phase = "mount" /\ request'.todo = <<>>
        /\ request'.ctx.patterns # <<>> /\ request'.handler \in MountHandlers
        /\ request'.mux = request.mux
    BY <2>2, <2>4 DEF Entered, MountHandlers
  <2>6. Range(request'.todo) \subseteq Range(tables'[request'.mux].uses)
    <3>1. Range(request.todo) \subseteq Range(tables[request.mux].uses)
      BY <2>2 DEF TypeInv, RequestOK, Running
    <3>. QED  BY <2>1, <2>2, <2>5, <3>1
  <2>. QED  BY <2>1, <2>4, <2>5, <2>6 DEF TypeInv, TablesOK, RequestOK, ReplyOK
<1>8. CASE HandOver
  <2>1. tables' = tables /\ reply' = reply
    BY <1>8 DEF HandOver
  <2>2. HandedOver
    BY <1>8, HandOverIs
  <2>3. /\ request' \in Requests /\ request'.phase = "serve"
        /\ request'.todo = tables'[request'.mux].uses
    BY <2>1, <2>2 DEF HandedOver
  <2>. QED  BY <2>1, <2>3 DEF TypeInv, TablesOK, RequestOK, ReplyOK
<1>9. CASE Answer
  <2>1. /\ request' = Idle /\ tables' = tables /\ AnsweredBy(Outcome) /\ Running
        /\ Outcome.kind \in {"route", "404", "405"}
        /\ reply'.looked \in Seq(RequestPaths) /\ Len(reply'.looked) = Len(request.looked) + 1
        /\ Len(request.looked) \in Nat
    BY <1>9, AnswerStep
  <2>2. request.method \in Methods /\ request.path \in RequestPaths /\ request.mux \in Muxes
    BY <2>1, FieldsOfRequest DEF Running
  <2>3. Len(reply'.looked) # 0
    BY <2>1
  <2>4. ReplyOK'
    BY <2>1, <2>2, <2>3 DEF ReplyOK, AnsweredBy
  <2>. QED  BY <2>1, <2>4 DEF TypeInv, TablesOK, RequestOK
<1>10. CASE UNCHANGED vars
  BY <1>10 DEF vars, TypeInv, TablesOK, RequestOK, ReplyOK
<1>. QED  BY <1>1, <1>3, <1>4, <1>5, <1>6, <1>7, <1>8, <1>9, <1>10, StepIs

(* Type correctness: the tables hold parsed routes whose mounts point to muxes *)
(* created later, and a request in flight has middlewares of its mux left to *)
(* run, a path of words and a context of bindings and inherited handlers.  *)
THEOREM TypesHold == Spec => []TypeInv
<1>1. TypeInv /\ [Next]_vars => TypeInv'
  BY NextTypes
<1>. QED  BY InitTypes, <1>1, PTL DEF Spec

(* No part is cut by URLFormat.                                            *)
NoCut == \A m \in Muxes : ~UsesAnyOf(m, {"URLFormat"})

(* The mux uses StripSlashes.                                              *)
Strips(m) == UsesAnyOf(m, {"StripSlashes"})

(* A followed redirect looks up clean paths only.                          *)
RedirectInv ==
    NoCut =>
        /\ Running /\ request.redirects > 0 => Plain(CurrentPath)
        /\ reply.kind = "redirect" => reply.redirects = 0 /\ Plain(reply.target)

(* The path to look up stays clean but for a last slash; it has none in the *)
(* muxes below a root that strips slashes, nor after the mux's own         *)
(* StripSlashes.                                                           *)
SlashInv ==
    NoCut =>
        /\ Running /\ Tame(request.path) =>
              /\ Tame(CurrentPath)
              /\ Strips(Root) /\ request.mux # Root => Plain(CurrentPath)
              /\ Strips(request.mux) /\ "StripSlashes" \notin Range(request.todo) => Plain(CurrentPath)
        /\ Answered /\ (Strips(Root) \/ Strips(reply.mux)) /\ Tame(reply.path) =>
              ~TrailingSlash(Last(reply.looked))

(* The inductive invariant.                                                *)
PathInv == TypeInv /\ RedirectInv /\ SlashInv

(* Whether a mux uses a middleware.                                        *)
LEMMA UsesIs ==
    ASSUME NEW m, NEW x
    PROVE  UsesAnyOf(m, {x}) <=> x \in Range(tables[m].uses)
BY DEF UsesAnyOf

(* The empty sequence has no elements.                                     *)
LEMMA EmptyRange == Range(<<>>) = {}
<1>1. DOMAIN <<>> = {}
  BY EmptySeq, LenProperties
<1>. QED  BY <1>1 DEF Range

(* A middleware other than URLFormat keeps a clean path clean, and StripSlashes *)
(* makes it clean.                                                         *)
LEMMA PassPaths ==
    ASSUME TypeInv, NEW middleware, NEW p \in RoutePaths, NEW q \in {Blank, "GET"},
           Passes(middleware, p, q), middleware # "URLFormat"
    PROVE  /\ CurrentPath \in RequestPaths /\ CurrentPath' \in RequestPaths
           /\ Plain(CurrentPath) => Plain(CurrentPath)'
           /\ Tame(CurrentPath) => Tame(CurrentPath)'
           /\ middleware = "StripSlashes" /\ Tame(CurrentPath) => Plain(CurrentPath)'
<1> DEFINE ctx == request.ctx
           path == request.path
           cur == RoutedPath(ctx, path)
           new == RoutedPath(Moved(ctx, p, q), path)
           s == SnapshotOf(request.mux)
<1>1. ctx \in Contexts /\ path \in RequestPaths
  BY ReachesRuns, FieldsOfRequest DEF Passes, Running
<1>2. CurrentPath = cur /\ CurrentPath' = new
  BY PassFields DEF CurrentPath
<1>3. Effect(middleware, s, ctx, request.method, path, p, q)
  BY DEF Passes
<1> HIDE DEF ctx, path, s
<1>4. Moved(ctx, p, q) \in Contexts /\ Moved(ctx, p, q).routePath = p
  BY <1>1, MovedIs
<1>5. /\ cur \in RequestPaths /\ new \in RequestPaths
      /\ p # <<>> => new = p
      /\ p = ctx.routePath => new = cur
  BY <1>1, <1>4, CurrentPathType
<1> HIDE DEF cur, new
<1>6. /\ Plain(cur) => Tame(cur) /\ ~TrailingSlash(cur)
      /\ Plain(new) => Tame(new)
      /\ Tame(cur) /\ ~TrailingSlash(cur) => Plain(cur)
  BY <1>5, TamePlain, PlainNoTrailing
<1> DEFINE Goal == /\ Plain(cur) => Plain(new)
                   /\ Tame(cur) => Tame(new)
                   /\ middleware = "StripSlashes" /\ Tame(cur) => Plain(new)
<1>7. ASSUME new = cur, middleware = "StripSlashes" => ~TrailingSlash(cur) PROVE Goal
  BY <1>6, <1>7
<1>8. ASSUME middleware = "CleanPath", Cleaned(ctx, path, p, q)
      PROVE  Goal
  <2>1. CASE ctx.routePath = <<>>
    <3>1. p = Clean(path) /\ p \in RequestPaths /\ Plain(p)
      BY <1>1, <1>8, <2>1, CleanIsPlain DEF Cleaned
    <3>2. new = p
      BY <1>5, <3>1 DEF RequestPaths
    <3>. QED  BY <1>6, <3>1, <3>2
  <2>2. CASE ctx.routePath # <<>>
    <3>1. new = cur
      BY <1>5, <1>8, <2>2 DEF Cleaned
    <3>. QED  BY <1>7, <1>8, <3>1
  <2>. QED  BY <2>1, <2>2
<1>9. ASSUME middleware = "StripSlashes", Stripped(ctx, path, p, q)
      PROVE  Goal
  <2>1. CASE TrailingSlash(cur)
    <3>1. p = Front(cur)
      BY <1>9, <2>1 DEF Stripped, cur
    <3>2. Front(cur) \in RequestPaths /\ (Tame(cur) => Plain(Front(cur)))
      BY <1>5, <2>1, FrontIsPlain
    <3>3. new = p
      BY <1>5, <3>1, <3>2 DEF RequestPaths
    <3>. QED  BY <1>6, <3>1, <3>2, <3>3
  <2>2. CASE ~TrailingSlash(cur)
    <3>1. new = cur
      BY <1>5, <1>9, <2>2 DEF Stripped, cur
    <3>. QED  BY <1>7, <2>2, <3>1
  <2>. QED  BY <2>1, <2>2
<1>10. ASSUME middleware = "GetHead", Headed(s, ctx, request.method, path, p, q)
      PROVE  Goal
  <2>1. p = cur \/ p = ctx.routePath
    BY <1>10 DEF Headed, cur
  <2>2. new = cur
    BY <1>5, <2>1 DEF RequestPaths
  <2>. QED  BY <1>7, <1>10, <2>2
<1>11. ASSUME middleware = "RedirectSlashes", Same(ctx, p, q)
      PROVE  Goal
  <2>1. new = cur
    BY <1>5, <1>11 DEF Same
  <2>. QED  BY <1>7, <1>11, <2>1
<1>12. Goal
  BY ONLY <1>3, <1>8, <1>9, <1>10, <1>11, middleware # "URLFormat" DEF Effect
<1>13. Plain(CurrentPath)' = Plain(new) /\ Tame(CurrentPath)' = Tame(new)
  BY <1>2 DEF Plain, Tame, TrailingSlash
<1>. QED  BY <1>2, <1>5, <1>12, <1>13

(* The initial state satisfies the invariant.                              *)
LEMMA InitPaths == Init => PathInv
<1> SUFFICES ASSUME Init PROVE PathInv
  OBVIOUS
<1>1. TypeInv
  BY InitTypes
<1>2. request = Idle /\ reply.kind = "none"
  BY DEF Init, NoReply
<1>3. RedirectInv
  BY <1>2 DEF RedirectInv, Running
<1>4. SlashInv
  BY <1>2 DEF SlashInv, Running, Answered
<1>. QED  BY <1>1, <1>3, <1>4 DEF PathInv

(* Nothing that the invariant says of depends on more than these.          *)
LEMMA PathsUnchanged ==
    ASSUME RedirectInv, SlashInv, UNCHANGED <<tables, request, reply>>
    PROVE  RedirectInv' /\ SlashInv'
<1>1. RedirectInv'
  BY DEF RedirectInv, Running, NoCut, UsesAnyOf, CurrentPath
<1>2. SlashInv'
  BY DEF SlashInv, Running, NoCut, Strips, UsesAnyOf, CurrentPath, Answered
<1>. QED  BY <1>1, <1>2

(* Between requests without a reply there is nothing to show.              *)
LEMMA IdlePaths ==
    ASSUME request' = Idle, reply' = NoReply
    PROVE  RedirectInv' /\ SlashInv'
<1>1. ~Running' /\ reply'.kind = "none"
  BY DEF Running, NoReply
<1>. QED  BY <1>1 DEF RedirectInv, SlashInv, Answered

(* A request that starts satisfies the invariant: its first mux has all its *)
(* middlewares left to run, and a followed redirect asks for a clean path. *)
LEMMA StartPaths ==
    ASSUME TypeInv, NEW method \in Methods, NEW path \in RequestPaths, NEW redirects \in Nat,
           Starts(method, path, redirects),
           NoCut /\ redirects > 0 => Plain(path)
    PROVE  RedirectInv' /\ SlashInv'
<1>1. tables' = tables /\ reply'.kind = "none" /\ request' = Incoming(method, path, redirects)
  BY DEF Starts, NoReply
<1>2. /\ request'.mux = Root /\ request'.todo = tables[Root].uses /\ request'.path = path
      /\ request'.redirects = redirects /\ request'.ctx.routePath = <<>>
  <2>1. request'.ctx = NewContext /\ NewContext.routePath = <<>>
    BY <1>1, IncomingIs
  <2>. QED  BY <1>1, <2>1, IncomingIs
<1>3. CurrentPath' = path
  BY <1>2 DEF CurrentPath, RoutedPath
<1>4. NoCut' <=> NoCut
  BY <1>1 DEF NoCut, UsesAnyOf
<1>5. RedirectInv'
  BY <1>1, <1>2, <1>3, <1>4 DEF RedirectInv
<1>6. Strips(request.mux)' => "StripSlashes" \in Range(request'.todo)
  BY <1>1, <1>2, UsesIs DEF Strips, UsesAnyOf
<1>7. SlashInv'
  BY <1>1, <1>2, <1>3, <1>6 DEF SlashInv, Answered
<1>. QED  BY <1>5, <1>7

(* A middleware that passes the request on keeps the invariant.            *)
LEMMA PassKeepsPaths ==
    ASSUME PathInv, NEW middleware, NEW p \in RoutePaths, NEW q \in {Blank, "GET"},
           Passes(middleware, p, q)
    PROVE  RedirectInv' /\ SlashInv'
<1>1. TypeInv /\ RedirectInv /\ SlashInv /\ tables' = tables /\ reply' = reply /\ Running
      /\ Reaches(middleware)
  BY ReachesRuns DEF PathInv, Passes
<1>2. /\ request'.mux = request.mux /\ request'.path = request.path
      /\ request'.redirects = request.redirects
      /\ Range(request.todo) = {middleware} \cup Range(request'.todo)
  BY <1>1, PassFields
<1>3. NoCut' <=> NoCut
  BY <1>1 DEF NoCut, UsesAnyOf
<1>4. ASSUME NoCut
      PROVE  /\ Plain(CurrentPath) => Plain(CurrentPath)'
             /\ Tame(CurrentPath) => Tame(CurrentPath)'
             /\ middleware = "StripSlashes" /\ Tame(CurrentPath) => Plain(CurrentPath)'
  <2>1. request.mux \in Muxes /\ Range(request.todo) \subseteq Range(tables[request.mux].uses)
    BY <1>1, FieldsOfRequest DEF TypeInv, RequestOK, Running
  <2>2. middleware # "URLFormat"
    BY <1>2, <1>4, <2>1, UsesIs DEF NoCut
  <2>. QED  BY <1>1, <2>2, PassPaths
<1>5. (Strips(Root))' = Strips(Root) /\ (Strips(request.mux))' = Strips(request.mux)
      /\ (Strips(reply.mux))' = Strips(reply.mux)
  BY <1>1, <1>2 DEF Strips, UsesAnyOf
<1>6. RedirectInv'
  BY <1>1, <1>2, <1>3, <1>4 DEF RedirectInv
<1>7. SlashInv'
  <2> SUFFICES ASSUME NoCut PROVE SlashInv'
    BY <1>3 DEF SlashInv
  <2>1. (Answered /\ (Strips(Root) \/ Strips(reply.mux)) /\ Tame(reply.path) =>
            ~TrailingSlash(Last(reply.looked)))'
    BY <1>1, <1>5 DEF SlashInv, Answered
  <2>2. ASSUME Tame(request.path)'
        PROVE  /\ Tame(CurrentPath)'
               /\ (Strips(Root) /\ request.mux # Root)' => Plain(CurrentPath)'
               /\ (Strips(request.mux) /\ "StripSlashes" \notin Range(request.todo))' => Plain(CurrentPath)'
    <3>1. /\ Tame(CurrentPath)
          /\ Strips(Root) /\ request.mux # Root => Plain(CurrentPath)
          /\ Strips(request.mux) /\ "StripSlashes" \notin Range(request.todo) => Plain(CurrentPath)
      BY <1>1, <1>2, <2>2 DEF SlashInv
    <3>2. ("StripSlashes" \notin Range(request.todo))' =>
             middleware = "StripSlashes" \/ "StripSlashes" \notin Range(request.todo)
      BY <1>2
    <3>. QED  BY <1>2, <1>4, <1>5, <3>1, <3>2
  <2>. QED  BY <2>1, <2>2 DEF SlashInv
<1>. QED  BY <1>6, <1>7

(* A redirect is the answer to the client's own request, never to a followed *)
(* redirect.                                                               *)
LEMMA RedirectKeepsPaths ==
    ASSUME PathInv, RedirectSlashes
    PROVE  RedirectInv' /\ SlashInv'
<1>1. /\ Running /\ TrailingSlash(CurrentPath) /\ CurrentPath \in RequestPaths
      /\ request' = Idle /\ tables' = tables /\ reply'.kind = "redirect"
      /\ Plain(reply'.target) /\ reply'.redirects = request.redirects
  BY RedirectIs DEF PathInv
<1>2. ~Running' /\ ~Answered'
  BY <1>1 DEF Running, Answered
<1>3. NoCut' <=> NoCut
  BY <1>1 DEF NoCut, UsesAnyOf
<1>4. ASSUME NoCut PROVE request.redirects = 0
  <2>1. ~Plain(CurrentPath)
    BY <1>1, PlainNoTrailing
  <2>2. request.redirects \in Nat
    BY <1>1, FieldsOfRequest DEF Running
  <2>3. ~(request.redirects > 0)
    BY <1>1, <1>4, <2>1 DEF PathInv, RedirectInv
  <2>. QED  BY <2>2, <2>3
<1>5. RedirectInv'
  BY <1>1, <1>2, <1>3, <1>4 DEF RedirectInv
<1>6. SlashInv'
  BY <1>2 DEF SlashInv
<1>. QED  BY <1>5, <1>6

(* Finding a mount's route keeps the invariant.                            *)
LEMMA EnterKeepsPaths ==
    ASSUME PathInv, EnterMount
    PROVE  RedirectInv' /\ SlashInv'
<1>1. TypeInv /\ RedirectInv /\ SlashInv /\ tables' = tables /\ reply' = reply
  BY DEF PathInv, EnterMount
<1>2. Running /\ Entered /\ request.todo = <<>>
  BY <1>1, EnterIs
<1>3. /\ request'.mux = request.mux /\ request'.path = request.path /\ request'.todo = request.todo
      /\ request'.redirects = request.redirects /\ request'.ctx.routePath = request.ctx.routePath
  BY <1>2 DEF Entered
<1>4. CurrentPath' = CurrentPath
  BY <1>3 DEF CurrentPath, RoutedPath
<1>5. RedirectInv'
  BY <1>1, <1>2, <1>3, <1>4 DEF RedirectInv, NoCut, UsesAnyOf
<1>6. SlashInv'
  BY <1>1, <1>2, <1>3, <1>4 DEF SlashInv, NoCut, Strips, UsesAnyOf, Answered
<1>. QED  BY <1>5, <1>6

(* Handing over to the mounted mux keeps the invariant: what is left of a clean *)
(* path is clean, and its own StripSlashes is still to run.                *)
LEMMA HandOverKeepsPaths ==
    ASSUME PathInv, HandOver
    PROVE  RedirectInv' /\ SlashInv'
<1> DEFINE cur == CurrentPath
           b == request.handler.prefix
<1>1. TypeInv /\ RedirectInv /\ SlashInv /\ tables' = tables /\ reply' = reply
  BY DEF PathInv, HandOver
<1>2. /\ Running /\ HandedOver /\ request.todo = <<>> /\ b \in MountPrefixes
      /\ request.mux < request.handler.nth /\ request.handler.nth \in Muxes
  BY <1>1, HandOverIs
<1>3. /\ request'.mux = request.handler.nth /\ request'.path = request.path
      /\ request'.todo = tables[request'.mux].uses
      /\ request'.redirects = request.redirects
      /\ request'.ctx.routePath = Remaining(cur, b) /\ request'.ctx.routePath # <<>>
  BY <1>2 DEF HandedOver
<1>4. CurrentPath' = Remaining(cur, b)
  BY <1>3 DEF CurrentPath, RoutedPath
<1>5. request.mux \in Muxes /\ request.ctx \in Contexts /\ request.path \in RequestPaths
  BY <1>2, FieldsOfRequest DEF Running
<1>6. cur \in RequestPaths /\ Len(b) \in Nat
  <2>1. IsText(b)
    BY <1>2, MountServeAssumption
  <2>. QED  BY <1>5, <2>1, CurrentPathType, LenProperties DEF CurrentPath, IsText
<1>7. (Plain(cur) => Plain(CurrentPath)') /\ (Tame(cur) => Tame(CurrentPath)')
  <2> HIDE DEF cur, b
  <2>1. (Plain(cur) => Plain(Remaining(cur, b))) /\ (Tame(cur) => Tame(Remaining(cur, b)))
    BY <1>6, RemainingIs
  <2>2. Plain(CurrentPath)' = Plain(Remaining(cur, b)) /\ Tame(CurrentPath)' = Tame(Remaining(cur, b))
    BY <1>4 DEF Plain, Tame
  <2>. QED  BY <2>1, <2>2
<1> HIDE DEF b
<1>8. RedirectInv'
  BY <1>1, <1>2, <1>3, <1>7 DEF RedirectInv, NoCut, UsesAnyOf
<1>9. Strips(request.mux)' => "StripSlashes" \in Range(request'.todo)
  BY <1>1, <1>3 DEF Strips, UsesAnyOf
<1>10. "StripSlashes" \notin Range(request.todo)
  BY <1>2, EmptyRange
<1>11. SlashInv'
  <2>1. NoCut' = NoCut /\ Strips(Root)' = Strips(Root) /\ Answered' = Answered /\ Strips(reply.mux)' = Strips(reply.mux)
    BY <1>1 DEF NoCut, UsesAnyOf, Strips, Answered
  <2>2. ASSUME NoCut, Tame(request.path)
        PROVE  Tame(CurrentPath)' /\ (Strips(Root) => Plain(CurrentPath)')
    <3>1. /\ Tame(cur)
          /\ Strips(Root) /\ request.mux # Root => Plain(cur)
          /\ Strips(request.mux) => Plain(cur)
      BY <1>1, <1>2, <1>10, <2>2 DEF SlashInv
    <3>. QED  BY <1>7, <3>1
  <2>. QED  BY <1>1, <1>3, <1>9, <2>1, <2>2 DEF SlashInv
<1>. QED  BY <1>8, <1>11

(* The mux answers after its middlewares ran: the path it looked up has no *)
(* trailing slash.                                                         *)
LEMMA AnswerKeepsPaths ==
    ASSUME PathInv, Answer
    PROVE  RedirectInv' /\ SlashInv'
<1>1. TypeInv /\ RedirectInv /\ SlashInv
  BY DEF PathInv
<1>2. /\ Running /\ request.todo = <<>> /\ AnsweredBy(Outcome) /\ request' = Idle /\ tables' = tables
      /\ Outcome.kind \in {"route", "404", "405"} /\ Last(reply'.looked) = CurrentPath
      /\ CurrentPath \in RequestPaths
  BY <1>1, AnswerStep
<1>3. /\ reply'.kind \in {"route", "404", "405"} /\ reply'.mux = request.mux
      /\ reply'.path = request.path
  BY <1>2 DEF AnsweredBy
<1>4. ~Running' /\ reply'.kind # "redirect"
  BY <1>2, <1>3 DEF Running
<1>5. NoCut' = NoCut /\ Strips(Root)' = Strips(Root) /\ Strips(reply.mux)' = Strips(request.mux)
  BY <1>2, <1>3 DEF NoCut, UsesAnyOf, Strips
<1>6. "StripSlashes" \notin Range(request.todo)
  BY <1>2, EmptyRange
<1>7. ASSUME NoCut, Tame(request.path), Strips(Root) \/ Strips(request.mux)
      PROVE  ~TrailingSlash(CurrentPath)
  <2>1. Plain(CurrentPath)
    BY <1>1, <1>2, <1>6, <1>7 DEF SlashInv
  <2>. QED  BY <1>2, <2>1, PlainNoTrailing
<1>8. RedirectInv'
  BY <1>4 DEF RedirectInv
<1>9. SlashInv'
  BY <1>2, <1>3, <1>4, <1>5, <1>7 DEF SlashInv
<1>. QED  BY <1>8, <1>9

(* Every step keeps the invariant.                                         *)
THEOREM NextPaths == PathInv /\ [Next]_vars => PathInv'
<1> SUFFICES ASSUME PathInv, [Next]_vars PROVE PathInv'
  OBVIOUS
<1>1. TypeInv /\ RedirectInv /\ SlashInv /\ TypeInv'
  BY NextTypes DEF PathInv
<1>2. CASE \E m \in Muxes : Configures(m)
  <2>1. request' = Idle /\ reply' = NoReply
    BY <1>1, <1>2, ConfiguresIs
  <2>. QED  BY <1>1, <2>1, IdlePaths DEF PathInv
<1>3. CASE \E method \in Methods, path \in RequestPaths : Starts(method, path, 0)
  <2>1. PICK method \in Methods, path \in RequestPaths : Starts(method, path, 0)
    BY <1>3
  <2>2. 0 \in Nat /\ ~(0 > 0)
    OBVIOUS
  <2>3. RedirectInv' /\ SlashInv'
    BY <1>1, <2>1, <2>2, StartPaths
  <2>. QED  BY <1>1, <2>3 DEF PathInv
<1>4. CASE Follow
  <2>1. /\ reply.method \in Methods /\ reply.target \in RequestPaths /\ reply.redirects + 1 \in Nat
        /\ Starts(reply.method, reply.target, reply.redirects + 1)
        /\ reply.kind = "redirect"
    BY <1>1, <1>4, FollowStarts
  <2>2. NoCut => Plain(reply.target)
    BY <1>1, <2>1 DEF RedirectInv
  <2>3. RedirectInv' /\ SlashInv'
    BY <1>1, <2>1, <2>2, StartPaths
  <2>. QED  BY <1>1, <2>3 DEF PathInv
<1>5. CASE RedirectSlashes
  BY <1>1, <1>5, RedirectKeepsPaths DEF PathInv
<1>6. ASSUME NEW middleware, NEW p \in RoutePaths, NEW q \in {Blank, "GET"}, Passes(middleware, p, q)
      PROVE  PathInv'
  BY <1>1, <1>6, PassKeepsPaths DEF PathInv
<1>7. CASE EnterMount
  BY <1>1, <1>7, EnterKeepsPaths DEF PathInv
<1>8. CASE HandOver
  BY <1>1, <1>8, HandOverKeepsPaths DEF PathInv
<1>9. CASE Answer
  BY <1>1, <1>9, AnswerKeepsPaths DEF PathInv
<1>10. CASE UNCHANGED vars
  <2>1. UNCHANGED <<tables, request, reply>>
    BY <1>10 DEF vars
  <2>. QED  BY <1>1, <2>1, PathsUnchanged DEF PathInv
<1>. QED  BY <1>1, <1>2, <1>3, <1>4, <1>5, <1>6, <1>7, <1>8, <1>9, <1>10, StepIs

(* The invariant implies the property of StripSlashes.                     *)
LEMMA PathInvSlashes == PathInv => SlashesStayStripped
<1> SUFFICES ASSUME PathInv, Answered, Strips(Root) \/ Strips(reply.mux), NoCut, Tame(reply.path)
             PROVE  ~TrailingSlash(Last(reply.looked))
  BY DEF SlashesStayStripped, Strips, NoCut, Tame
<1>. QED  BY DEF PathInv, SlashInv

(* The invariant implies the property of RedirectSlashes.                  *)
LEMMA PathInvRedirects == PathInv => RedirectedOnce
BY DEF PathInv, RedirectInv, RedirectedOnce, NoCut

(* The invariant holds in every behaviour.                                 *)
THEOREM PathsHold == Spec => []PathInv
<1>. QED  BY InitPaths, NextPaths, PTL DEF Spec

(* Once StripSlashes of the root or of the answering mux ran, no middleware and *)
(* no mount in between brings a trailing slash back to the path looked up, as *)
(* long as URLFormat cuts no part (middleware/strip.go, router_gp.go).     *)
THEOREM SlashesStripped == Spec => []SlashesStayStripped
<1>. QED  BY PathsHold, PathInvSlashes, PTL

(* A client that follows RedirectSlashes' answer is never redirected again, as *)
(* long as URLFormat cuts no part: the target has no slash left that a mux of *)
(* the tree would strip (middleware/strip.go).                             *)
THEOREM OneRedirect == Spec => []RedirectedOnce
<1>. QED  BY PathsHold, PathInvRedirects, PTL

-----------------------------------------------------------------------------

(* The handlers of the routes.                                             *)
Served == UNION {{tables[m].routes[i].handler : i \in 1..Len(tables[m].routes)} : m \in Muxes}

(* Where a journey can be.                                                 *)
Stops ==
    [muxes : Seq(Muxes) \ {<<>>}, method : Methods \cup {"GET"}, rest : RequestPaths,
     handler : {NoHandler} \cup Served]

(* The winner at a mux is one of its routes, and serves the request.       *)
LEMMA WinnerServes ==
    ASSUME TypeInv, NEW m \in Muxes, NEW method, method # AnyMethod, NEW path \in RequestPaths,
           Candidates(tables[m].routes, method, path) # {}
    PROVE  LET w == Winner(tables[m].routes, method, path)
               r == tables[m].routes[w]
           IN  /\ w \in 1..Len(tables[m].routes) /\ r \in RoutesOf(m)
               /\ Serves(r, method, path)
<1> DEFINE t == tables[m]
           ctx == [params |-> <<>>, notFound |-> NoHandler, methodNotAllowed |-> NoHandler]
           o == Serve(FillSnapshot(t.routes, t.fallbacks), ctx, method, path)
<1>1. t \in Table(m)
  BY DEF TypeInv, TablesOK
<1>2. t.routes \in Seq(RoutesOf(m)) /\ NoScopes(t.fallbacks)
  <2> HIDE DEF t
  <2>. QED  BY <1>1, FieldsOfTable
<1>3. ctx.params \in Seq(Binding)
  BY EmptySeq
<1> HIDE DEF t, ctx
<1>4. Routed(o, t.routes, ctx, method, path) \/ Unrouted(o, t.routes, t.fallbacks, ctx, method, path)
  BY <1>2, <1>3, ServeIs
<1>5. Routed(o, t.routes, ctx, method, path)
  <2>1. Candidates(t.routes, method, path) # {}
    BY DEF t
  <2>. QED  BY <1>4, <2>1 DEF Unrouted
<1>6. /\ Winner(t.routes, method, path) \in 1..Len(t.routes)
      /\ Serves(t.routes[Winner(t.routes, method, path)], method, path)
  BY <1>5 DEF Routed
<1>7. t.routes[Winner(t.routes, method, path)] \in RoutesOf(m)
  BY <1>2, <1>6, ElementOfSeq
<1>. QED  BY <1>6, <1>7 DEF t

(* The path below a mount is a path.                                       *)
LEMMA BelowType ==
    ASSUME NEW text, IsText(text), text # <<>>, NEW path \in RequestPaths
    PROVE  Below(text, path) \in RequestPaths
<1>1. Len(text) \in Nat \ {0} /\ Len(path) \in Nat
  <2>1. text \in Seq(Range(text))
    BY DEF IsText
  <2>. QED  BY <2>1, LenProperties, EmptySeq, PathProperties
<1>2. CASE Len(path) < Len(text)
  BY <1>2, BlankPath DEF Below
<1>3. CASE ~(Len(path) < Len(text))
  <2>1. Len(text) \in 1..Len(path)
    BY <1>1, <1>3
  <2>. QED  BY <1>3, <2>1, SuffixKeeps DEF Below
<1>. QED  BY <1>2, <1>3

(* Only GET can take the place of the method.                              *)
LEMMA MethodAtType ==
    ASSUME NEW m, NEW method \in Methods \cup {"GET"}, NEW path
    PROVE  /\ MethodAt(m, method, path) \in Methods \cup {"GET"}
           /\ MethodAt(m, method, path) # AnyMethod
           /\ MethodAt(m, method, path) \in {method, "GET"}
<1>1. "GET" # AnyMethod
  BY Zenon DEF AnyMethod
<1>. QED  BY <1>1, MountServeAssumption DEF MethodAt

(* One step of a journey that has not ended.                               *)
Goes(j, k) ==
    LET mux    == Last(j.muxes)
        routes == tables[mux].routes
        method == MethodAt(mux, j.method, j.rest)
        winner == routes[Winner(routes, method, j.rest)]
    IN  IF Candidates(routes, method, j.rest) = {} THEN k = j
        ELSE IF winner.handler.role = "mount"
             THEN k = [muxes |-> Append(j.muxes, winner.handler.nth), method |-> method,
                       rest |-> Below(winner.pattern, j.rest), handler |-> NoHandler]
             ELSE k = [muxes |-> j.muxes, method |-> j.method, rest |-> j.rest,
                       handler |-> winner.handler]

(* A journey that found a handler stays; another one goes on.              *)
LEMMA OnwardIs ==
    ASSUME NEW j \in Stops
    PROVE  /\ j.handler # NoHandler => Onward(j) = j
           /\ j.handler = NoHandler => Goes(j, Onward(j))
<1> DEFINE mux    == Last(j.muxes)
           routes == tables[mux].routes
           method == MethodAt(mux, j.method, j.rest)
           winner == routes[Winner(routes, method, j.rest)]
           none   == Candidates(routes, method, j.rest) = {}
<1>1. Onward(j) =
        CASE j.handler # NoHandler \/ none -> j
          [] j.handler = NoHandler /\ ~none ->
               IF winner.handler.role = "mount"
               THEN [j EXCEPT !.muxes = Append(j.muxes, winner.handler.nth),
                              !.method = method, !.rest = Below(winner.pattern, j.rest)]
               ELSE [j EXCEPT !.handler = winner.handler]
  BY DEF Onward
<1>2. Goes(j, Onward(j)) <=>
        IF none THEN Onward(j) = j
        ELSE IF winner.handler.role = "mount"
             THEN Onward(j) = [muxes |-> Append(j.muxes, winner.handler.nth), method |-> method,
                       rest |-> Below(winner.pattern, j.rest), handler |-> NoHandler]
             ELSE Onward(j) = [muxes |-> j.muxes, method |-> j.method, rest |-> j.rest,
                       handler |-> winner.handler]
  BY DEF Goes
<1> DEFINE a == Append(j.muxes, winner.handler.nth)
           b == Below(winner.pattern, j.rest)
<1>3. j = [muxes |-> j.muxes, method |-> j.method, rest |-> j.rest, handler |-> j.handler]
  BY DEF Stops
<1> HIDE DEF none, method, winner, a, b
<1>4. j.handler = NoHandler =>
         [j EXCEPT !.muxes = a, !.method = method, !.rest = b] =
         [muxes |-> a, method |-> method, rest |-> b, handler |-> NoHandler]
  <2>1. [j EXCEPT !.muxes = a, !.method = method, !.rest = b] \in
           [muxes : {a}, method : {method}, rest : {b}, handler : {j.handler}]
    BY DEF Stops
  <2>2. \A h : \A x \in [muxes : {a}, method : {method}, rest : {b}, handler : {h}] :
           x = [muxes |-> a, method |-> method, rest |-> b, handler |-> h]
    OBVIOUS
  <2> DEFINE x == [j EXCEPT !.muxes = a, !.method = method, !.rest = b]
  <2> HIDE DEF x
  <2>3. x = [muxes |-> a, method |-> method, rest |-> b, handler |-> j.handler]
    BY <2>1, <2>2 DEF x
  <2>. QED  BY <2>3 DEF x
<1>5. [j EXCEPT !.handler = winner.handler] =
         [muxes |-> j.muxes, method |-> j.method, rest |-> j.rest, handler |-> winner.handler]
  BY <1>3
<1>. QED  BY <1>1, <1>2, <1>4, <1>5 DEF a, b

(* The fields of a stop.                                                   *)
LEMMA StopIs ==
    ASSUME NEW j \in Stops
    PROVE  /\ j.muxes \in Seq(Muxes) /\ j.muxes # <<>> /\ Last(j.muxes) \in Muxes
           /\ Len(j.muxes) \in Nat \ {0} /\ Last(j.muxes) = j.muxes[Len(j.muxes)]
           /\ j.method \in Methods \cup {"GET"} /\ j.rest \in RequestPaths
           /\ j.handler \in {NoHandler} \cup Served
<1>1. /\ j.muxes \in Seq(Muxes) \ {<<>>} /\ j.method \in Methods \cup {"GET"}
      /\ j.rest \in RequestPaths /\ j.handler \in {NoHandler} \cup Served
  BY DEF Stops
<1> DEFINE s == j.muxes
<1> HIDE DEF s
<1>2. s \in Seq(Muxes) /\ s # <<>>
  BY <1>1 DEF s
<1>3. Len(s) \in Nat \ {0}
  BY <1>2, LenProperties, EmptySeq
<1>4. s[Len(s)] \in Muxes
  <2>1. Len(s) \in 1..Len(s)
    BY <1>3
  <2>. QED  BY <1>2, <2>1, ElementOfSeq
<1>. QED  BY <1>1, <1>2, <1>3, <1>4 DEF s, Last

(* Where a journey goes is a stop.                                         *)
LEMMA NextStop ==
    ASSUME TypeInv, NEW j \in Stops, NEW k, Goes(j, k)
    PROVE  k \in Stops
<1> DEFINE mux    == Last(j.muxes)
           routes == tables[mux].routes
           method == MethodAt(mux, j.method, j.rest)
           w      == Winner(routes, method, j.rest)
           winner == routes[w]
           h      == winner.handler
<1>1. CASE Candidates(routes, method, j.rest) = {}
  BY <1>1 DEF Goes
<1>2. CASE Candidates(routes, method, j.rest) # {}
  <2>1. mux \in Muxes /\ j.method \in Methods \cup {"GET"} /\ j.rest \in RequestPaths
        /\ j.muxes \in Seq(Muxes)
    BY StopIs
  <2>2. method # AnyMethod /\ method \in Methods \cup {"GET"}
    BY <2>1, MethodAtType
  <2>3. w \in 1..Len(routes) /\ winner \in RoutesOf(mux)
    <3> HIDE DEF mux, method
    <3>. QED  BY <1>2, <2>1, <2>2, WinnerServes DEF mux
  <2>4. k = IF h.role = "mount"
            THEN [muxes |-> Append(j.muxes, h.nth), method |-> method,
                  rest |-> Below(winner.pattern, j.rest), handler |-> NoHandler]
            ELSE [muxes |-> j.muxes, method |-> j.method, rest |-> j.rest, handler |-> h]
    BY <1>2 DEF Goes
  <2>5. h \in Served
    BY <2>1, <2>3 DEF Served
  <2> HIDE DEF mux, routes, method, w, winner
  <2>6. /\ IsText(winner.pattern) /\ Parses(winner.pattern)
        /\ h.role = "mount" => h.nth \in Muxes
    <3> HIDE DEF h
    <3>1. \/ h.role = "route"
          \/ \E b \in MountPrefixes, child \in Muxes : h = MountHandler(child, b)
      BY <2>1, <2>3, RouteIs DEF h
    <3>2. h.role = "mount" => h.nth \in Muxes
      BY <3>1, MountHandlerIs
    <3>. QED  BY <2>1, <2>3, <3>2, RouteIs
  <2>7. Below(winner.pattern, j.rest) \in RequestPaths
    BY <2>1, <2>6, BelowType DEF Parses
  <2> HIDE DEF h
  <2>8. CASE h.role = "mount"
    <3>1. h.nth \in Muxes
      BY <2>6, <2>8
    <3>2. Append(j.muxes, h.nth) \in Seq(Muxes) \ {<<>>}
      BY <2>1, <3>1, AppendIs
    <3>. QED  BY <2>2, <2>4, <2>7, <2>8, <3>2 DEF Stops
  <2>9. CASE h.role # "mount"
    <3>1. j.muxes \in Seq(Muxes) \ {<<>>}
      BY StopIs
    <3>. QED  BY <2>1, <2>4, <2>5, <2>9, <3>1 DEF Stops
  <2>. QED  BY <2>8, <2>9
<1>. QED  BY <1>1, <1>2

(* Every step of a journey leads to a stop.                                *)
LEMMA OnwardType ==
    ASSUME TypeInv, NEW j \in Stops
    PROVE  Onward(j) \in Stops
<1>1. CASE j.handler # NoHandler
  BY <1>1, OnwardIs
<1>2. CASE j.handler = NoHandler
  BY <1>2, OnwardIs, NextStop
<1>. QED  BY <1>1, <1>2

(* Where a journey starts.                                                 *)
FirstStop(first, path) ==
    [muxes |-> <<Root>>, method |-> first, rest |-> path, handler |-> NoHandler]

(* A journey starts at the root.                                           *)
LEMMA FirstStopType ==
    ASSUME NEW first \in Methods, NEW path \in RequestPaths
    PROVE  FirstStop(first, path) \in Stops /\ Last(<<Root>>) = Root /\ Root \in Muxes
           /\ Len(<<Root>>) = 1
<1>1. Root \in Muxes
  BY MountServeAssumption DEF Root, Muxes
<1>2. <<Root>> \in Seq(Muxes) /\ Len(<<Root>>) = 1 /\ <<Root>>[1] = Root
  BY <1>1, Singleton
<1>3. <<Root>> # <<>>
  BY <1>2, EmptySeq
<1>4. FirstStop(first, path) \in Stops
  BY <1>2, <1>3 DEF FirstStop, Stops
<1>. QED  BY <1>1, <1>2, <1>4 DEF Last

(* The stages are what their recursive definition says.                    *)
LEMMA StagesDef ==
    ASSUME TypeInv, NEW first \in Methods, NEW path \in RequestPaths
    PROVE  /\ Stages(first, path) \in [0..Depth -> Stops]
           /\ Stages(first, path)[0] = FirstStop(first, path)
           /\ \A n \in 1..Depth : Stages(first, path)[n] = Onward(Stages(first, path)[n - 1])
<1> DEFINE V == Stops
           base == FirstStop(first, path)
           step == [n \in 1..Depth |-> [j \in V |-> Onward(j)]]
           Is(f) == f = [n \in 0..Depth |->
                           IF n = 0 THEN [muxes |-> <<Root>>, method |-> first, rest |-> path,
                                          handler |-> NoHandler]
                           ELSE Onward(f[n - 1])]
<1>1. Depth \in Nat /\ base \in V
  BY MountServeAssumption, FirstStopType
<1>2. step \in [1..Depth -> [V -> V]]
  <2> HIDE DEF V
  <2>1. \A j \in V : Onward(j) \in V
    BY OnwardType DEF V
  <2>. QED  BY <2>1
<1> HIDE DEF V, base
<1>3. PICK f \in [0..Depth -> V] : Follows(f, Depth, base, step)
  <2> HIDE DEF step
  <2>. QED  BY <1>1, <1>2, Recursion
<1>4. \A n \in 1..Depth : n # 0 /\ n - 1 \in 0..Depth /\ n \in 0..Depth
  BY <1>1
<1>5. f[0] = base /\ \A n \in 1..Depth : f[n] = Onward(f[n - 1])
  BY <1>1, <1>3, <1>4 DEF Follows
<1>6. Is(f)
  <2>1. \A n \in 0..Depth : n = 0 \/ n \in 1..Depth
    BY <1>1
  <2>2. base = [muxes |-> <<Root>>, method |-> first, rest |-> path, handler |-> NoHandler]
    BY DEF base, FirstStop
  <2>. QED  BY <1>3, <1>4, <1>5, <2>1, <2>2
<1>7. Stages(first, path) = CHOOSE g : Is(g)
  BY DEF Stages
<1>8. PICK g : Is(g) /\ g = Stages(first, path)
  <2> HIDE DEF Is
  <2>. QED  BY <1>6, <1>7
<1>9. g = f
  <2>1. g = [n \in 0..Depth |-> g[n]]
    BY <1>8
  <2>2. g[0] = base /\ \A n \in 1..Depth : g[n] = Onward(g[n - 1])
    <3>1. g[0] = [muxes |-> <<Root>>, method |-> first, rest |-> path, handler |-> NoHandler]
      BY <1>1, <1>8
    <3>2. \A n \in 1..Depth : g[n] = Onward(g[n - 1])
      BY <1>4, <1>8
    <3>. QED  BY <3>1, <3>2 DEF base, FirstStop
  <2>3. \A n \in 1..Depth : \A v \in V : step[n][v] = Onward(v)
    OBVIOUS
  <2> HIDE DEF step, Is
  <2>4. FollowsIn(g, Depth, V, base, step)
    BY <2>2, <2>3 DEF FollowsIn
  <2>. QED  BY <1>1, <1>2, <1>3, <2>1, <2>4, RecursionUnique
<1>. QED  BY <1>3, <1>5, <1>8, <1>9 DEF V, base

(* A journey that has ended stays where it is.                             *)
LEMMA JourneyEnds ==
    ASSUME TypeInv, NEW first \in Methods, NEW path \in RequestPaths,
           NEW n \in 0..Depth, NEW j, Stages(first, path)[n] = j, Onward(j) = j
    PROVE  Journey(first, path) = j
<1> DEFINE s == Stages(first, path)
           Good == {m \in 0..(Depth - n) : s[n + m] = j}
<1>1. Depth \in Nat /\ n \in Nat /\ Depth - n \in Nat
  BY MountServeAssumption
<1>2. \A m \in 1..Depth : s[m] = Onward(s[m - 1])
  BY StagesDef
<1>3. s[n] = j
  OBVIOUS
<1> HIDE DEF s
<1>4. 0 \in Good
  BY <1>1, <1>3
<1>5. ASSUME NEW m \in 0..((Depth - n) - 1), m \in Good
      PROVE  m + 1 \in Good
  <2>1. n + m + 1 \in 1..Depth /\ (n + m + 1) - 1 = n + m /\ n + (m + 1) = n + m + 1
        /\ m + 1 \in 0..(Depth - n)
    BY <1>1
  <2>2. s[n + m + 1] = Onward(s[n + m])
    BY <1>2, <2>1
  <2>. QED  BY <1>5, <2>1, <2>2
<1>6. 0..(Depth - n) \subseteq Good
  <2> HIDE DEF Good
  <2>. QED  BY <1>1, <1>4, <1>5, Induction
<1>7. s[n + (Depth - n)] = j /\ n + (Depth - n) = Depth
  BY <1>1, <1>6
<1>. QED  BY <1>7 DEF Journey, s

(* What a mount's handler leaves of a path is what is below the mount.     *)
LEMMA BelowIsRemaining ==
    ASSUME NEW b, IsText(b), IsExact(b), NEW path \in RequestPaths,
           Describes(Segments(b \o <<Rest>>), path)
    PROVE  Below(b \o <<Rest>>, path) = Remaining(path, b)
<1> DEFINE text == b \o <<Rest>>
           n == Len(b)
           p == Len(path)
<1>1. Rest.kind = "wildcard" /\ IsText(<<Rest>>) /\ <<Rest>> \in Seq({Rest}) /\ Len(<<Rest>>) = 1
      /\ <<Rest>>[1] = Rest
  BY RestIsSegment, Singleton
<1>2. /\ b \in Seq(Range(b)) /\ n \in Nat /\ p \in Nat /\ DOMAIN b = 1..n
  BY PathProperties, LenProperties DEF IsText
<1>3. /\ Len(text) = n + 1 /\ text \in Seq(Range(b) \cup {Rest})
      /\ \A k \in 1..n : text[k] = b[k]
      /\ text[n + 1] = Rest
  <2>1. /\ text \in Seq(Range(b) \cup {Rest}) /\ Len(text) = Len(b) + Len(<<Rest>>)
        /\ \A i \in 1..Len(b) : text[i] = b[i]
        /\ \A i \in 1..Len(<<Rest>>) : text[Len(b) + i] = <<Rest>>[i]
    BY <1>1, <1>2, ConcatIs
  <2>2. 1 \in 1..Len(<<Rest>>)
    BY <1>1
  <2>. QED  BY <1>1, <2>1, <2>2
<1> HIDE DEF text
<1>4. Parses(text) /\ IsText(text)
  BY MountPattern DEF text
<1>5. text # RootText
  <2>1. RootText \in Seq({Static(Blank)}) /\ Len(RootText) = 1 /\ RootText[1] = Static(Blank)
    BY Singleton DEF RootText
  <2>2. Static(Blank).kind = "static"
    BY DEF Static
  <2>3. text[Len(text)] = Rest
    BY <1>3
  <2>. QED  BY <1>1, <2>1, <2>2, <2>3
<1>6. Segments(text) = text /\ WellFormed(text)
  BY <1>4, <1>5, ParsedIsWellFormed DEF Segments
<1>7. IsWild(text) /\ FixedLen(text) = n
  <2>1. Last(text) = Rest /\ text # <<>>
    <3>1. Last(text) = text[Len(text)]
      BY DEF Last
    <3>2. text # <<>>
      BY <1>2, <1>3, EmptySeq
    <3>. QED  BY <1>3, <3>1, <3>2
  <2>2. IsWild(text)
    BY <1>1, <2>1 DEF IsWild
  <2>. QED  BY <1>2, <1>3, <2>2 DEF FixedLen
<1>8. n <= p /\ \A k \in 1..n : Accepts(b[k], path[k])
  <2>1. Describes(text, path)
    BY <1>6 DEF text
  <2>2. n <= p /\ \A k \in 1..n : Stands(text, path, k)
    BY <1>6, <1>7, <2>1, DescribesStands
  <2>. QED  BY <1>3, <2>2 DEF Stands
<1>9. Covers(b, path)
  <2>1. \A k \in 1..n : b[k] = Static(path[k])
    <3> SUFFICES ASSUME NEW k \in 1..n PROVE b[k] = Static(path[k])
      OBVIOUS
    <3>1. IsSegment(b[k]) /\ b[k].kind = "static"
      BY <1>2 DEF IsText, IsExact
    <3>2. b[k] = Static(b[k].literal)
      BY <3>1, SegmentForms
    <3>3. path[k] = b[k].literal
      BY <1>8, <3>1 DEF Accepts
    <3>. QED  BY <3>2, <3>3
  <2>2. path \in Seq(Word)
    BY PathProperties
  <2>. QED  BY <1>2, <1>8, <2>1, <2>2, CoversIs
<1>10. TrimPrefix(path, b) = SubSeq(path, n + 1, p)
  BY <1>9 DEF TrimPrefix
<1>11. CASE p < n + 1
  <2>1. SubSeq(path, n + 1, p) = <<>>
    BY <1>2, <1>11, SubSeqEmpty
  <2>. QED  BY <1>3, <1>10, <1>11, <2>1 DEF Below, Remaining, text
<1>12. CASE ~(p < n + 1)
  <2>1. n + 1 \in 1..p
    BY <1>2, <1>12
  <2>2. SubSeq(path, n + 1, p) # <<>>
    <3>1. SubSeq(path, n + 1, p) \in RequestPaths
      BY <2>1, SuffixKeeps
    <3>. QED  BY <3>1 DEF RequestPaths
  <2>. QED  BY <1>3, <1>10, <1>12, <2>2 DEF Below, Remaining, text
<1>. QED  BY <1>11, <1>12

(* The context has the route path and method it is given.                  *)
LEMMA MovedTo ==
    ASSUME NEW ctx \in Contexts, NEW p, NEW q
    PROVE  Moved(ctx, p, q).routePath = p /\ Moved(ctx, p, q).routeMethod = q
BY DEF Contexts, Moved

(* What a middleware does to the method: only GetHead changes it, from HEAD to *)
(* GET, where no route of the mux serves the path for HEAD.                *)
LEMMA PassMethod ==
    ASSUME TypeInv, NEW middleware, NEW p \in RoutePaths, NEW q \in {Blank, "GET"},
           Passes(middleware, p, q)
    PROVE  /\ middleware # "GetHead" => q = request.ctx.routeMethod
           /\ q = request.ctx.routeMethod => CurrentMethod' = CurrentMethod
           /\ middleware = "GetHead" =>
                IF request.method = "HEAD" /\ Candidates(tables[request.mux].routes, "HEAD", CurrentPath) = {}
                THEN CurrentMethod' = "GET" /\ CurrentPath' = CurrentPath
                ELSE CurrentMethod' = CurrentMethod /\ CurrentPath' = CurrentPath
<1> DEFINE ctx == request.ctx
           path == request.path
           m == request.mux
           s == SnapshotOf(m)
           cur == RoutedPath(ctx, path)
           t == tables[m]
<1>1. ctx \in Contexts /\ path \in RequestPaths /\ m \in Muxes
  BY ReachesRuns, FieldsOfRequest DEF Passes, Running
<1>2. /\ CurrentPath = cur /\ CurrentPath' = RoutedPath(Moved(ctx, p, q), path)
      /\ CurrentMethod = RoutedMethod(ctx, request.method)
      /\ CurrentMethod' = RoutedMethod(Moved(ctx, p, q), request.method)
  BY PassFields DEF CurrentPath, CurrentMethod
<1>3. Effect(middleware, s, ctx, request.method, path, p, q)
  BY DEF Passes
<1> HIDE DEF ctx, path, s, m, t
<1>4. /\ Moved(ctx, p, q) \in Contexts /\ Moved(ctx, p, q).routePath = p
      /\ Moved(ctx, p, q).routeMethod = q
  <2>1. ctx \in Contexts
    BY <1>1
  <2>2. Moved(ctx, p, q) \in Contexts
    BY <2>1, MovedIs
  <2>3. /\ Moved(ctx, p, q).routePath = p /\ Moved(ctx, p, q).routeMethod = q
    BY <2>1, MovedTo
  <2>. QED  BY <2>2, <2>3
<1>5. middleware # "GetHead" => q = ctx.routeMethod
  BY <1>3 DEF Effect, Cleaned, Stripped, Same
<1>6. q = ctx.routeMethod => CurrentMethod' = CurrentMethod
  BY <1>2, <1>4 DEF RoutedMethod
<1>7. q = "GET" => CurrentMethod' = "GET"
  <2>1. "GET" # Blank
    BY Zenon DEF Blank
  <2>. QED  BY <1>2, <1>4, <2>1 DEF RoutedMethod
<1>8. /\ cur \in RequestPaths
      /\ p = cur \/ p = ctx.routePath => CurrentPath' = CurrentPath
  <2> HIDE DEF cur
  <2>1. cur \in RequestPaths /\ (ctx.routePath # <<>> => cur = ctx.routePath)
        /\ (ctx.routePath = <<>> => cur = path)
    BY <1>1, CurrentPathType DEF cur
  <2>2. cur # <<>>
    BY <2>1 DEF RequestPaths
  <2>. QED  BY <1>2, <1>4, <2>1, <2>2 DEF RoutedPath
<1>9. Match(s, "HEAD", cur) <=> Candidates(t.routes, "HEAD", cur) # {}
  <2> HIDE DEF cur
  <2>1. t \in Table(m) /\ s = FillSnapshot(t.routes, t.fallbacks)
    BY <1>1 DEF TypeInv, TablesOK, SnapshotOf, t, s
  <2>2. t.routes \in Seq(RoutesOf(m))
    BY <2>1, FieldsOfTable
  <2>3. Parsed(Range(t.routes)) /\ t.routes \in Seq(Range(t.routes))
    BY <1>1, <2>2, RoutesParsed
  <2>4. Filled(s, Kept(t.routes))
    <3>1. s = [routes |-> Kept(t.routes), fallbacks |-> t.fallbacks,
               dynamic |-> [x \in {r.method : r \in Range(Kept(t.routes))} |-> Dynamic(Kept(t.routes), x)]]
      BY <1>1, <2>1, <2>3, <2>2, RoutesParsed, FilledFromKept, MountServeAssumption
    <3>. QED  BY <3>1 DEF Filled
  <2>5. "HEAD" # AnyMethod /\ <<>> \in Seq(Binding) /\ cur \in Seq(Word) \ {<<>>}
    <3>1. "HEAD" # AnyMethod
      BY Zenon DEF AnyMethod
    <3>. QED  BY <1>8, <3>1, EmptySeq DEF RequestPaths
  <2>6. FindsWinner(t.routes, s, "HEAD", cur, <<>>, Lookup(s, <<>>, "HEAD", cur))
    <3>. QED  BY <2>3, <2>4, <2>5, LookupIsWinner
  <2>7. Match(s, "HEAD", cur) <=> Lookup(s, <<>>, "HEAD", cur).route # 0
    BY DEF Match
  <2>. QED  BY <2>6, <2>7 DEF FindsWinner
<1>10. middleware = "GetHead" => Headed(s, ctx, request.method, path, p, q)
  BY <1>3 DEF Effect
<1>11. ASSUME middleware = "GetHead"
       PROVE  IF request.method = "HEAD" /\ Candidates(t.routes, "HEAD", cur) = {}
              THEN p = cur /\ q = "GET"
              ELSE p = ctx.routePath /\ q = ctx.routeMethod
  BY <1>9, <1>10, <1>11 DEF Headed
<1> HIDE DEF cur
<1>12. middleware = "GetHead" =>
                IF request.method = "HEAD" /\ Candidates(t.routes, "HEAD", cur) = {}
                THEN CurrentMethod' = "GET" /\ CurrentPath' = CurrentPath
                ELSE CurrentMethod' = CurrentMethod /\ CurrentPath' = CurrentPath
  BY <1>6, <1>7, <1>8, <1>11
<1>. QED  BY <1>2, <1>5, <1>6, <1>12 DEF t, m, ctx, cur, path

(* Below the root no middleware changes the path that is looked up, but    *)
(* URLFormat and a StripSlashes that finds a slash.                        *)
LEMMA PassBelow ==
    ASSUME TypeInv, NEW middleware, NEW p \in RoutePaths, NEW q \in {Blank, "GET"},
           Passes(middleware, p, q), request.ctx.routePath # <<>>, middleware # "URLFormat",
           middleware = "StripSlashes" => ~TrailingSlash(CurrentPath)
    PROVE  CurrentPath' = CurrentPath /\ request'.ctx.routePath # <<>>
<1> DEFINE ctx == request.ctx
           path == request.path
           cur == RoutedPath(ctx, path)
           s == SnapshotOf(request.mux)
<1>1. ctx \in Contexts /\ path \in RequestPaths
  BY ReachesRuns, FieldsOfRequest DEF Passes, Running
<1>2. CurrentPath = cur /\ CurrentPath' = RoutedPath(Moved(ctx, p, q), path)
  BY PassFields DEF CurrentPath
<1>3. Effect(middleware, s, ctx, request.method, path, p, q)
  BY DEF Passes
<1>4. Moved(ctx, p, q) \in Contexts /\ Moved(ctx, p, q).routePath = p
  BY <1>1, MovedIs
<1>5. cur = ctx.routePath
  BY DEF RoutedPath
<1>6. p = cur
  <2>1. middleware = "CleanPath" /\ Cleaned(ctx, path, p, q) => p = cur
    BY <1>5 DEF Cleaned
  <2>2. middleware = "StripSlashes" /\ Stripped(ctx, path, p, q) => p = cur
    BY <1>2, <1>5 DEF Stripped
  <2>3. middleware = "GetHead" /\ Headed(s, ctx, request.method, path, p, q) => p = cur
    BY <1>5 DEF Headed
  <2>4. middleware = "RedirectSlashes" /\ Same(ctx, p, q) => p = cur
    BY <1>5 DEF Same
  <2> HIDE DEF cur, s
  <2>. QED  BY <1>3, <2>1, <2>2, <2>3, <2>4 DEF Effect
<1>7. request'.ctx = Moved(ctx, p, q)
  BY PassFields
<1>. QED  BY <1>2, <1>4, <1>5, <1>6, <1>7 DEF RoutedPath

(* The two halves of Settled, the second one for the path the root looked up. *)
RootSettled ==
    \A k \in DOMAIN tables[Root].uses :
       tables[Root].uses[k] = "GetHead" => k = Len(tables[Root].uses)

BelowSettled(path) ==
    \A m \in Muxes \ {Root} :
       /\ ~UsesAnyOf(m, {"URLFormat"})
       /\ UsesAnyOf(m, {"StripSlashes", "RedirectSlashes"}) => Plain(path)

(* The request is settled as far as it went.                               *)
SettledSoFar == RootSettled /\ (request.looked # <<>> => BelowSettled(request.looked[1]))

(* The middlewares still to run are the last ones of the mux.              *)
Suffix(todo, uses) ==
    Len(todo) <= Len(uses) /\ \A i \in 1..Len(todo) : todo[i] = uses[Len(uses) - Len(todo) + i]

(* Where the journey is when the request is where it is.                   *)
Where ==
    IF request.looked = <<>> THEN FirstStop(request.method, CurrentPath)
    ELSE Stages(request.method, request.looked[1])[Len(request.looked)]

(* The fallbacks by kind: of a mux, of the package, of the context.        *)
Own(kind, m) ==
    IF kind = "404" THEN tables[m].fallbacks.notFound ELSE tables[m].fallbacks.methodNotAllowed

DefaultOf(kind) == IF kind = "404" THEN Default404 ELSE Default405

Inherited(kind) == IF kind = "404" THEN request.ctx.notFound ELSE request.ctx.methodNotAllowed

(* What the context inherits after n of the muxes: the fallback of the last of *)
(* them that has one.                                                      *)
Nearest(kind, inherited, muxes, n) ==
    LET custom == {k \in 1..n : Own(kind, muxes[k]) # NoHandler}
    IN  IF custom = {} THEN inherited \in {NoHandler, DefaultOf(kind)}
        ELSE \E k \in custom : inherited = Own(kind, muxes[k]) /\ \A i \in custom : i <= k

(* How far the request is: it looked up one path per mux and each mux was  *)
(* created later than the one before, so Depth steps of a journey are enough; *)
(* no reply is there while it runs.                                        *)
WayInv ==
    request # Idle =>
        /\ reply = NoReply
        /\ Suffix(request.todo, tables[request.mux].uses)
        /\ request.looked = <<>> => request.phase = "serve" /\ request.mux = Root
        /\ request.phase = "serve" => Len(request.looked) < request.mux
        /\ request.phase = "mount" => Len(request.looked) < request.handler.nth

(* At a mux the journey is there too, with what is looked up: the path is the *)
(* one below all mounts, and the method is that of the journey until GetHead *)
(* ran.                                                                    *)
AtMux(j, h) ==
    /\ request.looked # <<>> => request.ctx.routePath # <<>>
    /\ Last(j.muxes) = request.mux /\ j.rest = CurrentPath
    /\ CurrentMethod \in {j.method, MethodAt(request.mux, j.method, CurrentPath)}
    /\ "GetHead" \notin Range(request.todo) =>
          CurrentMethod = MethodAt(request.mux, j.method, CurrentPath)
    /\ request.looked = <<>> /\ request.todo # <<>> => CurrentMethod = request.method
    /\ \A kind \in {"404", "405"} : Nearest(kind, Inherited(kind), j.muxes, h)

(* At a mount's handler the journey is already below the mount.            *)
AtMount(j, h) ==
    /\ Last(j.muxes) = request.handler.nth /\ j.muxes[h] = request.mux
    /\ j.rest = Remaining(CurrentPath, request.handler.prefix)
    /\ CurrentMethod = j.method
    /\ \A kind \in {"404", "405"} : Nearest(kind, Inherited(kind), j.muxes, h - 1)

(* A settled request is where its journey leads.                           *)
DownInv ==
    request # Idle /\ SettledSoFar =>
        LET j == Where
            h == Len(request.looked)
        IN  /\ j.handler = NoHandler /\ Len(j.muxes) = h + 1 /\ j.method \in {request.method, "GET"}
            /\ request.looked # <<>> /\ Plain(request.looked[1]) => Plain(j.rest)
            /\ request.phase = "serve" => AtMux(j, h)
            /\ request.phase = "mount" => AtMount(j, h)

(* Journeys depend on the tables only.                                     *)
LEMMA StagesUnchanged ==
    ASSUME UNCHANGED tables, NEW first, NEW path
    PROVE  Stages(first, path)' = Stages(first, path)
BY DEF Stages, Onward, MethodAt, UsesAnyOf

(* All middlewares are still to run at first, and none at last.            *)
LEMMA SuffixIs ==
    ASSUME NEW S, NEW uses \in Seq(S)
    PROVE  Suffix(uses, uses) /\ Suffix(<<>>, uses)
<1>1. Len(uses) \in Nat /\ Len(<<>>) = 0
  BY LenProperties, EmptySeq
<1>2. \A i \in 1..Len(uses) : Len(uses) - Len(uses) + i = i
  BY <1>1
<1>3. Len(uses) <= Len(uses) /\ Len(<<>>) <= Len(uses) /\ 1..Len(<<>>) = {}
  BY <1>1
<1>4. Suffix(<<>>, uses)
  BY <1>3 DEF Suffix
<1>. QED  BY <1>2, <1>3, <1>4 DEF Suffix

(* The middleware that runs next, and those that are left then.            *)
LEMMA SuffixTail ==
    ASSUME NEW S, NEW uses \in Seq(S), NEW todo \in Seq(S), todo # <<>>, Suffix(todo, uses)
    PROVE  /\ Suffix(Tail(todo), uses)
           /\ Len(uses) \in 1..Len(uses) /\ Len(todo) \in 1..Len(todo)
           /\ Len(uses) - Len(todo) + 1 \in 1..Len(uses)
           /\ Head(todo) = uses[Len(uses) - Len(todo) + 1]
           /\ todo[Len(todo)] = uses[Len(uses)]
           /\ Len(todo) = 1 => Tail(todo) = <<>>
           /\ Len(todo) # 1 => todo[Len(todo)] \in Range(Tail(todo))
<1> DEFINE t == Tail(todo)
<1>1. Len(uses) \in Nat /\ Len(todo) \in Nat \ {0} /\ Len(todo) <= Len(uses)
  BY LenProperties, EmptySeq DEF Suffix
<1>2. /\ t \in Seq(S) /\ Len(t) = Len(todo) - 1 /\ Head(todo) = todo[1]
      /\ \A i \in 1..Len(t) : t[i] = todo[i + 1]
  BY HeadTailProperties
<1>3. DOMAIN t = 1..Len(t)
  BY <1>2, LenProperties
<1>4. t = <<>> <=> Len(t) = 0
  BY <1>2, EmptySeq
<1> HIDE DEF t
<1>5. Suffix(t, uses)
  <2>1. Len(t) <= Len(uses)
    BY <1>1, <1>2
  <2>2. ASSUME NEW i \in 1..Len(t) PROVE t[i] = uses[Len(uses) - Len(t) + i]
    <3>1. i + 1 \in 1..Len(todo) /\ Len(uses) - Len(t) + i = Len(uses) - Len(todo) + (i + 1)
      BY <1>1, <1>2
    <3>. QED  BY <1>2, <3>1 DEF Suffix
  <2>. QED  BY <2>1, <2>2 DEF Suffix
<1>6. /\ Len(uses) \in 1..Len(uses) /\ Len(todo) \in 1..Len(todo)
      /\ Len(uses) - Len(todo) + 1 \in 1..Len(uses) /\ 1 \in 1..Len(todo)
      /\ Len(uses) - Len(todo) + Len(todo) = Len(uses)
  BY <1>1
<1>7. Head(todo) = uses[Len(uses) - Len(todo) + 1] /\ todo[Len(todo)] = uses[Len(uses)]
  BY <1>2, <1>6 DEF Suffix
<1>8. Len(todo) = 1 => t = <<>>
  BY <1>2, <1>4
<1>9. ASSUME Len(todo) # 1 PROVE todo[Len(todo)] \in Range(t)
  <2>1. Len(t) \in 1..Len(t) /\ Len(t) + 1 = Len(todo)
    BY <1>1, <1>2, <1>9
  <2>2. t[Len(t)] = todo[Len(todo)]
    BY <1>2, <2>1
  <2>. QED  BY <1>3, <2>1, <2>2 DEF Range
<1>. QED  BY <1>5, <1>6, <1>7, <1>8, <1>9 DEF t

(* The middlewares of a mux.                                               *)
LEMMA UsesOf ==
    ASSUME TypeInv, NEW m \in Muxes
    PROVE  tables[m].uses \in Seq(Middlewares)
<1>1. tables[m] \in Table(m)
  BY DEF TypeInv, TablesOK
<1>. QED  BY <1>1, FieldsOfTable

(* The paths looked up by a request.                                       *)
LEMMA LookedIs ==
    ASSUME Running
    PROVE  /\ request.looked \in Seq(RequestPaths) /\ Len(request.looked) \in Nat
           /\ request.looked = <<>> <=> Len(request.looked) = 0
           /\ request.looked # <<>> => request.looked[1] \in RequestPaths
<1> DEFINE l == request.looked
<1>1. l \in Seq(RequestPaths)
  BY FieldsOfRequest DEF Running
<1> HIDE DEF l
<1>2. Len(l) \in Nat /\ (l = <<>> <=> Len(l) = 0)
  BY <1>1, LenProperties, EmptySeq
<1>3. ASSUME l # <<>> PROVE l[1] \in RequestPaths
  <2>1. 1 \in 1..Len(l)
    BY <1>2, <1>3
  <2>. QED  BY <1>1, <2>1, ElementOfSeq
<1>. QED  BY <1>1, <1>2, <1>3 DEF l

(* A request starts at the root with no path looked up.                    *)
LEMMA StartWay ==
    ASSUME TypeInv, NEW method \in Methods, NEW path \in RequestPaths, NEW redirects \in Nat,
           Starts(method, path, redirects)
    PROVE  WayInv'
<1>1. Root \in Muxes /\ Root \in Nat /\ 0 < Root
  BY MountServeAssumption DEF Root, Muxes
<1>2. tables[Root].uses \in Seq(Middlewares)
  BY <1>1, UsesOf
<1>3. /\ request'.mux = Root /\ request'.todo = tables[Root].uses /\ request'.looked = <<>>
      /\ request'.phase = "serve" /\ tables' = tables /\ reply' = NoReply
  BY IncomingIs DEF Starts
<1>4. Suffix(tables[Root].uses, tables[Root].uses)
  BY <1>2, SuffixIs
<1>5. Len(<<>>) = 0
  BY EmptySeq
<1> HIDE DEF Suffix
<1>. QED  BY <1>1, <1>3, <1>4, <1>5 DEF WayInv

(* A middleware takes itself off the list.                                 *)
LEMMA PassWay ==
    ASSUME TypeInv, WayInv, NEW middleware, NEW p \in RoutePaths, NEW q \in {Blank, "GET"},
           Passes(middleware, p, q)
    PROVE  WayInv'
<1>1. Running /\ request.phase = "serve" /\ request.todo # <<>>
  BY ReachesRuns DEF Passes
<1>2. request.mux \in Muxes /\ request.todo \in Seq(Middlewares)
  BY <1>1, FieldsOfRequest DEF Running
<1>3. tables[request.mux].uses \in Seq(Middlewares)
  BY <1>2, UsesOf
<1>4. Suffix(Tail(request.todo), tables[request.mux].uses)
  <2>1. Suffix(request.todo, tables[request.mux].uses)
    BY <1>1 DEF WayInv, Running
  <2>. QED  BY <1>1, <1>2, <1>3, <2>1, SuffixTail
<1>5. /\ request'.phase = "serve" /\ request'.mux = request.mux
      /\ request'.looked = request.looked /\ request'.todo = Tail(request.todo)
      /\ tables' = tables /\ reply' = reply
  BY PassFields DEF Passes
<1> HIDE DEF Suffix
<1>. QED  BY <1>1, <1>4, <1>5 DEF WayInv, Running

(* A mount leads to a mux created later.                                   *)
LEMMA EnterWay ==
    ASSUME TypeInv, WayInv, EnterMount
    PROVE  WayInv'
<1>1. /\ Running /\ request.phase = "serve" /\ request.todo = <<>> /\ Entered
  BY EnterIs
<1>2. PICK a \in RoutePrefixes, b \in MountPrefixes, child \in Muxes : Enters(a, b, child)
  BY EnterIs
<1>3. CurrentPath \in RequestPaths
  BY <1>1, FieldsOfRequest, CurrentPathType DEF Running, CurrentPath
<1>4. /\ request'.looked # <<>> /\ Len(request'.looked) = Len(request.looked) + 1
      /\ Len(request.looked) \in Nat
  <2>1. request.looked \in Seq(RequestPaths) /\ request'.looked = Append(request.looked, CurrentPath)
    BY <1>1, LookedIs DEF Entered
  <2>. QED  BY <1>3, <2>1, AppendIs
<1>5. request'.handler.nth = child
  BY <1>1, <1>2, MountHandlerIs DEF Enters, Entered
<1>6. request.mux \in Nat /\ child \in Nat /\ request.mux < child /\ Len(request.looked) < request.mux
  <2>1. request.mux \in Muxes /\ child \in Muxes
    BY <1>1, FieldsOfRequest DEF Running
  <2>2. Len(request.looked) < request.mux /\ request.mux < child
    BY <1>1, <1>2 DEF WayInv, Running, Enters
  <2>. QED  BY <2>1, <2>2, MountServeAssumption DEF Muxes
<1>7. Suffix(<<>>, tables[request.mux].uses)
  <2>1. request.mux \in Muxes
    BY <1>1, FieldsOfRequest DEF Running
  <2>. QED  BY <2>1, UsesOf, SuffixIs
<1>8. tables' = tables /\ reply' = reply /\ reply = NoReply
  BY <1>1 DEF EnterMount, WayInv, Running
<1>9. Len(request.looked) + 1 < child
  BY <1>4, <1>6
<1> HIDE DEF Suffix
<1>. QED  BY <1>1, <1>4, <1>5, <1>7, <1>8, <1>9 DEF WayInv, Entered

(* The mounted mux starts with all its middlewares.                        *)
LEMMA HandOverWay ==
    ASSUME TypeInv, WayInv, HandOver
    PROVE  WayInv'
<1>1. /\ Running /\ request.phase = "mount" /\ request.handler.nth \in Muxes /\ HandedOver
  BY HandOverIs
<1>2. tables[request.handler.nth].uses \in Seq(Middlewares)
  BY <1>1, UsesOf
<1>3. Suffix(tables[request.handler.nth].uses, tables[request.handler.nth].uses)
  BY <1>2, SuffixIs
<1>4. /\ tables' = tables /\ reply' = reply /\ reply = NoReply
      /\ Len(request.looked) < request.handler.nth /\ request.looked # <<>>
  BY <1>1 DEF HandOver, WayInv, Running
<1> HIDE DEF Suffix
<1>. QED  BY <1>1, <1>3, <1>4 DEF WayInv, HandedOver

(* Every step keeps how far the request is.                                *)
LEMMA NextWay ==
    ASSUME TypeInv, WayInv, [Next]_vars
    PROVE  WayInv'
<1>1. ASSUME NEW m \in Muxes, Configures(m) PROVE WayInv'
  BY <1>1, ConfiguresIs DEF WayInv
<1>2. ASSUME NEW method \in Methods, NEW path \in RequestPaths, Starts(method, path, 0)
      PROVE  WayInv'
  BY <1>2, StartWay
<1>3. ASSUME Follow PROVE WayInv'
  <2>1. reply.redirects + 1 \in Nat
    BY <1>3, FollowStarts
  <2>. QED  BY <1>3, <2>1, FollowStarts, StartWay
<1>4. ASSUME RedirectSlashes PROVE WayInv'
  BY <1>4 DEF RedirectSlashes, WayInv
<1>5. ASSUME Answer PROVE WayInv'
  BY <1>5, AnswerStep DEF WayInv
<1>6. ASSUME UNCHANGED vars PROVE WayInv'
  BY <1>6 DEF vars, WayInv, Suffix
<1> HIDE DEF WayInv
<1>. QED  BY <1>1, <1>2, <1>3, <1>4, <1>5, <1>6, PassWay, EnterWay, HandOverWay, StepIs

(* Only the first n muxes matter.                                          *)
LEMMA NearestAgrees ==
    ASSUME NEW kind, NEW inherited, NEW muxes, NEW others, NEW n,
           \A k \in 1..n : others[k] = muxes[k], Nearest(kind, inherited, muxes, n)
    PROVE  Nearest(kind, inherited, others, n)
<1> DEFINE custom(s) == {k \in 1..n : Own(kind, s[k]) # NoHandler}
<1>1. custom(others) = custom(muxes)
  OBVIOUS
<1>2. CASE custom(muxes) = {}
  BY <1>1, <1>2 DEF Nearest
<1>3. CASE custom(muxes) # {}
  <2>1. PICK k \in custom(muxes) : inherited = Own(kind, muxes[k]) /\ \A i \in custom(muxes) : i <= k
    BY <1>3 DEF Nearest
  <2>2. inherited = Own(kind, others[k])
    BY <2>1
  <2>3. custom(others) # {} /\ k \in custom(others) /\ \A i \in custom(others) : i <= k
    BY <1>1, <2>1
  <2>. QED  BY <2>2, <2>3 DEF Nearest
<1>. QED  BY <1>2, <1>3

(* Handing over with Inherit (Mount's handler, router_gp.go) goes from n muxes *)
(* to one more, and leaves the default if none has a fallback.             *)
LEMMA NearestNext ==
    ASSUME NEW kind, NEW inherited, NEW muxes, NEW n \in Nat, Nearest(kind, inherited, muxes, n)
    PROVE  LET next   == Inherit(inherited, Own(kind, muxes[n + 1]), DefaultOf(kind))
               custom == {k \in 1..(n + 1) : Own(kind, muxes[k]) # NoHandler}
           IN  /\ Nearest(kind, next, muxes, n + 1)
               /\ custom = {} => next = DefaultOf(kind)
<1> DEFINE own(k)  == Own(kind, muxes[k])
           def     == DefaultOf(kind)
           next    == Inherit(inherited, own(n + 1), def)
           custom  == {k \in 1..n : own(k) # NoHandler}
           customs == {k \in 1..(n + 1) : own(k) # NoHandler}
<1>1. 1..(n + 1) = 1..n \cup {n + 1} /\ n + 1 \in 1..(n + 1) /\ \A k \in 1..n : k <= n + 1
      /\ n + 1 <= n + 1
  OBVIOUS
<1>2. IF custom = {} THEN inherited \in {NoHandler, def}
      ELSE \E k \in custom : inherited = own(k) /\ \A i \in custom : i <= k
  BY DEF Nearest
<1>3. Nearest(kind, next, muxes, n + 1) <=>
        IF customs = {} THEN next \in {NoHandler, def}
        ELSE \E k \in customs : next = own(k) /\ \A i \in customs : i <= k
  BY DEF Nearest
<1> HIDE DEF own, def
<1>4. ASSUME own(n + 1) # NoHandler
      PROVE  customs # {} /\ \E k \in customs : next = own(k) /\ \A i \in customs : i <= k
  <2>1. n + 1 \in customs /\ next = own(n + 1)
    BY <1>1, <1>4 DEF Inherit
  <2>2. \A i \in customs : i <= n + 1
    BY <1>1
  <2>. QED  BY <2>1, <2>2
<1>5. ASSUME own(n + 1) = NoHandler PROVE customs = custom
  BY <1>1, <1>5
<1>6. ASSUME own(n + 1) = NoHandler, inherited = NoHandler PROVE next = def
  BY <1>6 DEF Inherit
<1>7. ASSUME own(n + 1) = NoHandler, inherited # NoHandler PROVE next = inherited
  BY <1>7 DEF Inherit
<1>8. custom # {} => inherited # NoHandler
  <2>1. \A k \in custom : own(k) # NoHandler
    OBVIOUS
  <2> HIDE DEF custom
  <2>. QED  BY <1>2, <2>1
<1> HIDE DEF next, custom, customs
<1>9. CASE own(n + 1) # NoHandler
  BY <1>3, <1>4, <1>9 DEF next, customs, own, def
<1>10. CASE own(n + 1) = NoHandler
  <2>1. customs = {} => next = def
    BY <1>2, <1>5, <1>6, <1>7, <1>10
  <2>2. customs # {} => \E k \in customs : next = own(k) /\ \A i \in customs : i <= k
    BY <1>2, <1>5, <1>7, <1>8, <1>10
  <2>. QED  BY <1>3, <2>1, <2>2 DEF next, customs, own, def
<1>. QED  BY <1>9, <1>10

(* The journey of a request that runs has a stop for each mux it reached.  *)
LEMMA WhereType ==
    ASSUME TypeInv, WayInv, Running
    PROVE  /\ Where \in Stops /\ CurrentPath \in RequestPaths
           /\ Len(request.looked) + 1 \in 1..Depth
           /\ Where = Stages(request.method,
                             IF request.looked = <<>> THEN CurrentPath ELSE request.looked[1])
                         [Len(request.looked)]
<1>1. /\ request.mux \in Muxes /\ request.method \in Methods /\ request.path \in RequestPaths
      /\ request.ctx \in Contexts /\ request.phase \in {"serve", "mount"}
  BY FieldsOfRequest DEF Running
<1>2. CurrentPath \in RequestPaths
  BY <1>1, CurrentPathType DEF CurrentPath
<1>3. Len(request.looked) + 1 \in 1..Depth
  <2>1. \E m \in Muxes : Len(request.looked) < m
    <3>1. request.phase = "mount" => request.handler.nth \in Muxes
      <4>1. request.phase = "mount" => request.handler \in MountHandlers
        BY DEF TypeInv, RequestOK, Running
      <4>. QED  BY <4>1, MountHandlerIs DEF MountHandlers
    <3>. QED  BY <1>1, <3>1 DEF WayInv, Running
  <2>. QED  BY <2>1, LookedIs, MountServeAssumption DEF Muxes
<1> DEFINE first == IF request.looked = <<>> THEN CurrentPath ELSE request.looked[1]
<1>4. first \in RequestPaths
  BY <1>2, LookedIs
<1>5. /\ Stages(request.method, first) \in [0..Depth -> Stops]
      /\ Stages(request.method, first)[0] = FirstStop(request.method, first)
  <2> HIDE DEF first
  <2>. QED  BY <1>1, <1>4, StagesDef
<1>6. Len(request.looked) \in 0..Depth
  <2>1. Len(request.looked) \in Nat /\ Depth \in Nat
    BY LookedIs, MountServeAssumption
  <2>. QED  BY <1>3, <2>1
<1>7. Where = Stages(request.method, first)[Len(request.looked)]
  <2>1. request.looked = <<>> => Len(request.looked) = 0
    BY LookedIs
  <2>. QED  BY <1>5, <2>1 DEF Where
<1> HIDE DEF first
<1>8. Where \in Stops
  BY <1>5, <1>6, <1>7
<1>. QED  BY <1>2, <1>3, <1>7, <1>8 DEF first

(* What DownInv says of a request that runs, if all is settled.            *)
Down(j, h) ==
    /\ j.handler = NoHandler /\ Len(j.muxes) = h + 1 /\ j.method \in {request.method, "GET"}
    /\ request.looked # <<>> /\ Plain(request.looked[1]) => Plain(j.rest)
    /\ request.phase = "serve" => AtMux(j, h)
    /\ request.phase = "mount" => AtMount(j, h)

(* DownInv in terms of it.                                                 *)
LEMMA DownIs == DownInv <=> (request # Idle /\ SettledSoFar => Down(Where, Len(request.looked)))
BY DEF DownInv, Down

(* Whether a request is settled depends on tables and paths looked up.     *)
LEMMA SettledUnchanged ==
    ASSUME UNCHANGED tables, request'.looked = request.looked
    PROVE  SettledSoFar' <=> SettledSoFar
BY DEF SettledSoFar, RootSettled, BelowSettled, UsesAnyOf

(* The method after a middleware that leaves the path: it is the journey's, and *)
(* the one to look up once GetHead ran.                                    *)
LEMMA MethodAfter ==
    ASSUME TypeInv, NEW middleware, NEW p \in RoutePaths, NEW q \in {Blank, "GET"},
           Passes(middleware, p, q), NEW was \in {request.method, "GET"},
           CurrentPath' = CurrentPath,
           CurrentMethod \in {was, MethodAt(request.mux, was, CurrentPath)},
           "GetHead" \notin Range(request.todo) =>
              CurrentMethod = MethodAt(request.mux, was, CurrentPath)
    PROVE  /\ CurrentMethod' \in {was, MethodAt(request.mux, was, CurrentPath)}
           /\ "GetHead" \notin Range(Tail(request.todo)) =>
                 CurrentMethod' = MethodAt(request.mux, was, CurrentPath)
<1> DEFINE at   == MethodAt(request.mux, was, CurrentPath)
           none == Candidates(tables[request.mux].routes, "HEAD", CurrentPath) = {}
           head == UsesAnyOf(request.mux, {"GetHead"})
<1>1. at = IF was = "HEAD" /\ head /\ none THEN "GET" ELSE was
  BY DEF MethodAt
<1>2. Range(request.todo) = {middleware} \cup Range(Tail(request.todo))
  BY PassFields
<1>3. middleware = "GetHead" => head
  <2>1. middleware \in Range(tables[request.mux].uses)
    <3>1. Running
      BY ReachesRuns DEF Passes
    <3>2. Range(request.todo) \subseteq Range(tables[request.mux].uses)
      BY <3>1 DEF TypeInv, RequestOK, Running
    <3>. QED  BY <1>2, <3>2
  <2>. QED  BY <2>1, UsesIs
<1>4. /\ middleware # "GetHead" => CurrentMethod' = CurrentMethod
      /\ middleware = "GetHead" => CurrentMethod' = IF request.method = "HEAD" /\ none
                                                    THEN "GET" ELSE CurrentMethod
  BY PassMethod
<1>5. "GET" # "HEAD"
  BY Zenon
<1> HIDE DEF at, none, head
<1>6. CASE middleware # "GetHead"
  BY <1>2, <1>4, <1>6 DEF at
<1>7. CASE middleware = "GetHead"
  <2>1. CurrentMethod' = at
    <3>1. CurrentMethod \in {was, at}
      BY DEF at
    <3>2. CASE was = "HEAD" /\ none
      BY <1>1, <1>3, <1>4, <1>5, <1>7, <3>2
    <3>3. CASE ~(was = "HEAD" /\ none)
      <4>1. at = was
        BY <1>1, <3>3
      <4>2. CASE request.method = "HEAD" /\ none
        <5>1. was = "GET"
          BY <3>3, <4>2
        <5>. QED  BY <1>4, <1>7, <4>1, <4>2, <5>1
      <4>3. CASE ~(request.method = "HEAD" /\ none)
        BY <1>4, <1>7, <3>1, <4>1, <4>3
      <4>. QED  BY <4>2, <4>3
    <3>. QED  BY <3>2, <3>3
  <2>. QED  BY <2>1 DEF at
<1>. QED  BY <1>6, <1>7

(* How a request at a mux satisfies the invariant after a step.            *)
LEMMA DownServes ==
    ASSUME NEW j, NEW h, NEW m, NEW path, NEW method, UNCHANGED tables,
           request'.phase = "serve", Where' = j, Len(request'.looked) = h,
           request'.mux = m, CurrentPath' = path, CurrentMethod' = method,
           j.handler = NoHandler, Len(j.muxes) = h + 1, j.method \in {request'.method, "GET"},
           request'.looked # <<>> /\ Plain(request'.looked[1]) => Plain(j.rest),
           request'.looked # <<>> => request'.ctx.routePath # <<>>,
           Last(j.muxes) = m, j.rest = path,
           method \in {j.method, MethodAt(m, j.method, path)},
           "GetHead" \notin Range(request'.todo) => method = MethodAt(m, j.method, path),
           request'.looked = <<>> /\ request'.todo # <<>> => method = request'.method,
           \A kind \in {"404", "405"} : Nearest(kind, Inherited(kind)', j.muxes, h)
    PROVE  DownInv'
<1>2. \A kind \in {"404", "405"} :
         Nearest(kind, Inherited(kind), j.muxes, h)' <=> Nearest(kind, Inherited(kind)', j.muxes, h)
  BY DEF Nearest, Own
<1>3. AtMux(j, h)'
  <2>1. (MethodAt(request.mux, j.method, CurrentPath))' = MethodAt(m, j.method, path)
    BY DEF MethodAt, UsesAnyOf
  <2>. QED  BY <1>2, <2>1 DEF AtMux
<1>4. request'.phase # "mount"
  OBVIOUS
<1> HIDE DEF Where, CurrentPath, CurrentMethod, Plain, AtMux
<1>5. Down(j, h)'
  BY <1>3, <1>4 DEF Down
<1>6. DownInv' <=> (request' # Idle /\ SettledSoFar' => Down(j, h)')
  BY DEF DownInv, Down
<1>. QED  BY <1>5, <1>6

(* A request that is not settled satisfies the invariant.                  *)
LEMMA Unsettled ==
    ASSUME ~SettledSoFar' \/ request' = Idle
    PROVE  DownInv'
<1> HIDE DEF SettledSoFar
<1>. QED  BY DEF DownInv

(* A request that looked up a path is below the root.                      *)
LEMMA BelowRoot ==
    ASSUME TypeInv, WayInv, Running, request.looked # <<>>, request.phase = "serve"
    PROVE  request.mux \in Muxes \ {Root}
<1>1. request.mux \in Muxes /\ Len(request.looked) < request.mux
  BY FieldsOfRequest DEF WayInv, Running
<1>2. Len(request.looked) \in Nat /\ Len(request.looked) # 0
  BY LookedIs
<1>3. request.mux \in Nat
  BY <1>1, MountServeAssumption DEF Muxes
<1>. QED  BY <1>1, <1>2, <1>3 DEF Root

(* The inherited fallbacks stay when the route path changes.               *)
LEMMA MovedKeeps ==
    ASSUME NEW ctx \in Contexts, NEW p, NEW q
    PROVE  /\ Moved(ctx, p, q).notFound = ctx.notFound
           /\ Moved(ctx, p, q).methodNotAllowed = ctx.methodNotAllowed
BY DEF Contexts, Moved

(* A middleware leaves the inherited fallbacks.                            *)
LEMMA PassInherited ==
    ASSUME TypeInv, NEW middleware, NEW p \in RoutePaths, NEW q \in {Blank, "GET"},
           Passes(middleware, p, q), NEW kind
    PROVE  Inherited(kind)' = Inherited(kind)
<1>1. request.ctx \in Contexts /\ request'.ctx = Moved(request.ctx, p, q)
  BY ReachesRuns, PassFields, FieldsOfRequest DEF Passes, Running
<1> DEFINE ctx == request.ctx
<1> HIDE DEF ctx
<1>2. /\ Moved(ctx, p, q).notFound = ctx.notFound
      /\ Moved(ctx, p, q).methodNotAllowed = ctx.methodNotAllowed
  BY <1>1, MovedKeeps DEF ctx
<1>. QED  BY <1>1, <1>2 DEF Inherited, ctx

(* Below the root a middleware leaves the path of a settled request, and GetHead *)
(* gives it the method of its journey.                                     *)
LEMMA PassDownBelow ==
    ASSUME TypeInv, WayInv, DownInv, NEW middleware, NEW p \in RoutePaths, NEW q \in {Blank, "GET"},
           Passes(middleware, p, q), SettledSoFar, request.looked # <<>>
    PROVE  DownInv'
<1> DEFINE j == Where
           h == Len(request.looked)
           m == request.mux
<1>1. /\ Running /\ request.phase = "serve" /\ request.todo # <<>>
      /\ middleware \in Range(request.todo)
  BY ReachesRuns, PassFields DEF Passes
<1>2. /\ request'.phase = "serve" /\ request'.mux = m /\ request'.method = request.method
      /\ request'.looked = request.looked /\ request'.todo = Tail(request.todo)
      /\ request'.ctx = Moved(request.ctx, p, q) /\ tables' = tables
  BY PassFields DEF Passes
<1>3. m \in Muxes \ {Root}
  BY <1>1, BelowRoot
<1>4. Down(j, h)
  BY <1>1, DownIs DEF Running
<1>5. /\ request.ctx.routePath # <<>> /\ Last(j.muxes) = m /\ j.rest = CurrentPath
      /\ CurrentMethod \in {j.method, MethodAt(m, j.method, CurrentPath)}
      /\ "GetHead" \notin Range(request.todo) => CurrentMethod = MethodAt(m, j.method, CurrentPath)
      /\ \A kind \in {"404", "405"} : Nearest(kind, Inherited(kind), j.muxes, h)
  BY <1>1, <1>4 DEF Down, AtMux
<1>6. /\ middleware # "URLFormat"
      /\ middleware = "StripSlashes" => ~TrailingSlash(CurrentPath)
  <2>1. middleware \in Range(tables[m].uses)
    BY <1>1 DEF TypeInv, RequestOK, Running
  <2>2. /\ ~UsesAnyOf(m, {"URLFormat"})
        /\ UsesAnyOf(m, {"StripSlashes", "RedirectSlashes"}) => Plain(request.looked[1])
    BY <1>3 DEF SettledSoFar, BelowSettled
  <2>3. middleware # "URLFormat"
    BY <2>1, <2>2 DEF UsesAnyOf
  <2>4. ASSUME middleware = "StripSlashes" PROVE ~TrailingSlash(CurrentPath)
    <3>1. UsesAnyOf(m, {"StripSlashes", "RedirectSlashes"})
      BY <2>1, <2>4 DEF UsesAnyOf
    <3>2. Plain(CurrentPath)
      <4> HIDE DEF Plain, Where
      <4>. QED  BY <1>4, <1>5, <2>2, <3>1 DEF Down
    <3>. QED  BY <1>1, <3>2, WhereType, PlainNoTrailing
  <2>. QED  BY <2>3, <2>4
<1>7. CurrentPath' = CurrentPath /\ request'.ctx.routePath # <<>>
  BY <1>5, <1>6, PassBelow
<1>8. j.method \in {request.method, "GET"}
  BY <1>4 DEF Down
<1>9. /\ CurrentMethod' \in {j.method, MethodAt(m, j.method, CurrentPath)}
      /\ "GetHead" \notin Range(Tail(request.todo)) =>
            CurrentMethod' = MethodAt(m, j.method, CurrentPath)
  <2> DEFINE was == j.method
  <2>1. was \in {request.method, "GET"}
    BY <1>8
  <2>2. /\ CurrentMethod \in {was, MethodAt(request.mux, was, CurrentPath)}
        /\ "GetHead" \notin Range(request.todo) => CurrentMethod = MethodAt(request.mux, was, CurrentPath)
    BY <1>5
  <2> HIDE DEF was, j
  <2>3. /\ CurrentMethod' \in {was, MethodAt(request.mux, was, CurrentPath)}
        /\ "GetHead" \notin Range(Tail(request.todo)) =>
              CurrentMethod' = MethodAt(request.mux, was, CurrentPath)
    BY <1>7, <2>1, <2>2, MethodAfter
  <2>. QED  BY <2>3 DEF was
<1>10. Where' = j
  BY <1>2, StagesUnchanged DEF Where
<1>11. \A kind \in {"404", "405"} : Inherited(kind)' = Inherited(kind)
  BY PassInherited
<1>12. \A kind \in {"404", "405"} : Nearest(kind, Inherited(kind)', j.muxes, h)
  <2> SUFFICES ASSUME NEW kind \in {"404", "405"} PROVE Nearest(kind, Inherited(kind)', j.muxes, h)
    OBVIOUS
  <2> DEFINE i == Inherited(kind)
             now == Inherited(kind)'
  <2>1. now = i /\ Nearest(kind, i, j.muxes, h)
    BY <1>5, <1>11
  <2> HIDE DEF now, i, j, h
  <2>2. Nearest(kind, now, j.muxes, h)
    BY <2>1
  <2>. QED  BY <2>2 DEF now
<1>13. /\ j.handler = NoHandler /\ Len(j.muxes) = h + 1
       /\ request'.looked # <<>> /\ Plain(request'.looked[1]) => Plain(j.rest)
  <2> HIDE DEF j, Plain
  <2>. QED  BY <1>2, <1>4 DEF Down
<1> DEFINE path == CurrentPath
           method == CurrentMethod'
<1>14. Len(request'.looked) = h
  BY <1>2
<1> HIDE DEF j, h, m, Plain
<1>. QED  BY <1>2, <1>5, <1>7, <1>8, <1>9, <1>10, <1>12, <1>13, <1>14, DownServes

(* GetHead of a settled root is its last middleware.                       *)
LEMMA GetHeadLast ==
    ASSUME TypeInv, WayInv, Running, RootSettled, request.mux = Root, request.todo # <<>>
    PROVE  LET t == request.todo
           IN  /\ Head(t) = "GetHead" => Tail(t) = <<>>
               /\ Head(t) # "GetHead" /\ UsesAnyOf(Root, {"GetHead"}) => "GetHead" \in Range(Tail(t))
<1> DEFINE t == request.todo
           u == tables[Root].uses
<1>1. Root \in Muxes
  BY FieldsOfRequest DEF Running
<1>2. u \in Seq(Middlewares) /\ t \in Seq(Middlewares) /\ Suffix(t, u)
  BY <1>1, UsesOf, FieldsOfRequest DEF Running, WayInv
<1>3. \A k \in DOMAIN u : u[k] = "GetHead" => k = Len(u)
  BY DEF RootSettled
<1> HIDE DEF t, u
<1>4. t # <<>>
  BY DEF t
<1>5. DOMAIN u = 1..Len(u) /\ Len(u) \in Nat /\ Len(t) \in Nat \ {0} /\ Head(t) = t[1]
  BY <1>2, <1>4, LenProperties, EmptySeq, HeadTailProperties
<1>6. /\ Len(u) \in 1..Len(u) /\ Len(u) - Len(t) + 1 \in 1..Len(u)
      /\ Head(t) = u[Len(u) - Len(t) + 1] /\ t[Len(t)] = u[Len(u)]
      /\ Len(t) = 1 => Tail(t) = <<>>
      /\ Len(t) # 1 => t[Len(t)] \in Range(Tail(t))
  BY <1>2, <1>4, SuffixTail
<1>7. ASSUME Head(t) = "GetHead" PROVE Tail(t) = <<>>
  <2>1. Len(u) - Len(t) + 1 = Len(u)
    BY <1>3, <1>5, <1>6, <1>7
  <2>. QED  BY <1>5, <1>6, <2>1
<1>8. ASSUME Head(t) # "GetHead", UsesAnyOf(Root, {"GetHead"}) PROVE "GetHead" \in Range(Tail(t))
  <2>1. "GetHead" \in Range(u)
    BY <1>8, UsesIs DEF u
  <2>2. PICK k \in DOMAIN u : u[k] = "GetHead"
    BY <2>1 DEF Range
  <2>3. u[Len(u)] = "GetHead"
    BY <1>3, <2>2
  <2>4. Len(t) # 1
    BY <1>5, <1>6, <1>8, <2>3
  <2>. QED  BY <1>6, <2>3, <2>4
<1>. QED  BY <1>7, <1>8 DEF t

(* At the root the journey starts at whatever path the middlewares leave, as *)
(* GetHead comes last.                                                     *)
LEMMA PassDownRoot ==
    ASSUME TypeInv, WayInv, DownInv, NEW middleware, NEW p \in RoutePaths, NEW q \in {Blank, "GET"},
           Passes(middleware, p, q), SettledSoFar, request.looked = <<>>
    PROVE  DownInv'
<1> DEFINE was  == request.method
           path == CurrentPath'
           j    == FirstStop(was, path)
           now  == CurrentMethod'
<1>1. /\ Running /\ request.phase = "serve" /\ request.todo # <<>> /\ middleware = Head(request.todo)
  BY ReachesRuns DEF Passes
<1>2. /\ request'.phase = "serve" /\ request'.mux = request.mux /\ request'.method = was
      /\ request'.looked = <<>> /\ request'.todo = Tail(request.todo) /\ tables' = tables
  BY PassFields DEF Passes
<1>3. request.mux = Root /\ RootSettled
  BY <1>1 DEF WayInv, Running, SettledSoFar
<1>4. Down(Where, Len(request.looked)) /\ AtMux(Where, Len(request.looked))
  BY <1>1, DownIs DEF Running, Down
<1>5. Where = FirstStop(was, CurrentPath) /\ Len(request.looked) = 0
  BY EmptySeq DEF Where
<1>6. CurrentMethod = was
  BY <1>1, <1>4 DEF AtMux
<1>7. Root \in Muxes /\ was \in Methods /\ CurrentPath \in RequestPaths
  BY <1>1, <1>3, FieldsOfRequest, WhereType DEF Running
<1>8. /\ Last(<<Root>>) = Root /\ Len(<<Root>>) = 1 /\ j.muxes = <<Root>>
      /\ j.method = was /\ j.rest = path /\ j.handler = NoHandler
  BY <1>7, FirstStopType DEF FirstStop
<1>9. Where' = j
  BY <1>2 DEF Where
<1> DEFINE at == MethodAt(Root, was, path)
<1>10. /\ now \in {was, at}
       /\ "GetHead" \notin Range(Tail(request.todo)) => now = at
       /\ Tail(request.todo) # <<>> => now = was
  <2>1. CASE middleware = "GetHead"
    <3>1. Tail(request.todo) = <<>>
      BY <1>1, <1>3, <2>1, GetHeadLast
    <3>2. path = CurrentPath
      BY <2>1, PassMethod
    <3>3. CurrentMethod \in {was, MethodAt(request.mux, was, CurrentPath)}
      BY <1>6
    <3>4. "GetHead" \in Range(request.todo)
      BY <2>1, PassFields
    <3> HIDE DEF was
    <3>5. was \in {request.method, "GET"}
      BY DEF was
    <3>6. /\ CurrentMethod' \in {was, MethodAt(request.mux, was, CurrentPath)}
          /\ "GetHead" \notin Range(Tail(request.todo)) =>
                CurrentMethod' = MethodAt(request.mux, was, CurrentPath)
      BY <3>2, <3>3, <3>4, <3>5, MethodAfter
    <3>7. at = MethodAt(request.mux, was, CurrentPath)
      BY <1>3, <3>2
    <3>. QED  BY <3>1, <3>6, <3>7
  <2>2. CASE middleware # "GetHead"
    <3>1. now = was
      BY <1>6, <2>2, PassMethod
    <3>2. "GetHead" \notin Range(Tail(request.todo)) => at = was
      <4>1. "GetHead" \notin Range(Tail(request.todo)) => ~UsesAnyOf(Root, {"GetHead"})
        BY <1>1, <1>3, <2>2, GetHeadLast
      <4>. QED  BY <4>1 DEF MethodAt
    <3> HIDE DEF at
    <3>. QED  BY <3>1, <3>2
  <2>. QED  BY <2>1, <2>2
<1>11. \A kind \in {"404", "405"} : Nearest(kind, Inherited(kind)', j.muxes, 0)
  <2> SUFFICES ASSUME NEW kind \in {"404", "405"} PROVE Nearest(kind, Inherited(kind)', j.muxes, 0)
    OBVIOUS
  <2>1. Nearest(kind, Inherited(kind), FirstStop(was, CurrentPath).muxes, 0)
    BY <1>4, <1>5 DEF AtMux
  <2>2. FirstStop(was, CurrentPath).muxes = j.muxes
    BY DEF FirstStop
  <2> DEFINE i == Inherited(kind)
             after == Inherited(kind)'
  <2>3. after = i
    BY PassInherited
  <2> HIDE DEF i, after, j
  <2>4. Nearest(kind, after, j.muxes, 0)
    BY <2>1, <2>2, <2>3 DEF i
  <2>. QED  BY <2>4 DEF after
<1>12. Len(request'.looked) = 0
  BY <1>2, EmptySeq
<1>13. \A kind \in {"404", "405"} : Nearest(kind, Inherited(kind)', j.muxes, 0)
  BY <1>11
<1> HIDE DEF j, path, now, was
<1>14. 1 = 0 + 1
  OBVIOUS
<1>. QED
  <2>1. /\ CurrentPath' = path /\ CurrentMethod' = now /\ request'.mux = Root
        /\ Len(j.muxes) = 0 + 1 /\ j.method \in {request'.method, "GET"} /\ Last(j.muxes) = Root
        /\ now \in {j.method, MethodAt(Root, j.method, path)}
        /\ "GetHead" \notin Range(request'.todo) => now = MethodAt(Root, j.method, path)
        /\ request'.looked = <<>> /\ request'.todo # <<>> => now = request'.method
    BY <1>2, <1>3, <1>8, <1>10 DEF path, now
  <2>. QED  BY <1>2, <1>8, <1>9, <1>12, <1>13, <2>1, DownServes

(* A middleware keeps a settled request on its journey.                    *)
LEMMA PassDown ==
    ASSUME TypeInv, WayInv, DownInv, NEW middleware, NEW p \in RoutePaths, NEW q \in {Blank, "GET"},
           Passes(middleware, p, q)
    PROVE  DownInv'
<1>1. SettledSoFar' <=> SettledSoFar
  BY PassFields, SettledUnchanged DEF Passes
<1>. QED  BY <1>1, PassDownBelow, PassDownRoot, Unsettled

(* How a request at a mount's handler satisfies the invariant after a step. *)
LEMMA DownMounts ==
    ASSUME NEW j, NEW h, NEW m, UNCHANGED tables,
           request'.phase = "mount", Where' = j, Len(request'.looked) = h,
           request'.mux = m,
           j.handler = NoHandler, Len(j.muxes) = h + 1, j.method \in {request'.method, "GET"},
           request'.looked # <<>> /\ Plain(request'.looked[1]) => Plain(j.rest),
           Last(j.muxes) = request'.handler.nth, j.muxes[h] = m,
           j.rest = Remaining(CurrentPath', request'.handler.prefix),
           CurrentMethod' = j.method,
           \A kind \in {"404", "405"} : Nearest(kind, Inherited(kind)', j.muxes, h - 1)
    PROVE  DownInv'
<1>1. \A kind \in {"404", "405"} :
         Nearest(kind, Inherited(kind), j.muxes, h - 1)'
         <=> Nearest(kind, Inherited(kind)', j.muxes, h - 1)
  BY DEF Nearest, Own
<1>2. (Remaining(CurrentPath, request.handler.prefix))' = Remaining(CurrentPath', request'.handler.prefix)
  BY DEF Remaining, TrimPrefix
<1>3. AtMount(j, h)'
  BY <1>1, <1>2 DEF AtMount
<1>4. request'.phase # "serve"
  OBVIOUS
<1> HIDE DEF Where, CurrentPath, CurrentMethod, Plain, AtMount
<1>5. Down(j, h)'
  BY <1>3, <1>4 DEF Down
<1>6. DownInv' <=> (request' # Idle /\ SettledSoFar' => Down(j, h)')
  BY DEF DownInv, Down
<1>. QED  BY <1>5, <1>6

(* A request starts where its journey starts.                              *)
LEMMA StartDown ==
    ASSUME TypeInv, NEW method \in Methods, NEW path \in RequestPaths, NEW redirects \in Nat,
           Starts(method, path, redirects)
    PROVE  DownInv'
<1> DEFINE j == FirstStop(method, path)
<1>1. /\ request'.mux = Root /\ request'.todo = tables[Root].uses /\ request'.looked = <<>>
      /\ request'.phase = "serve" /\ tables' = tables /\ request'.method = method
      /\ request'.path = path /\ request'.ctx = NewContext
  BY IncomingIs DEF Starts
<1>2. /\ NewContext \in Contexts /\ NewContext.routePath = <<>> /\ NewContext.routeMethod = Blank
      /\ NewContext.notFound = NoHandler /\ NewContext.methodNotAllowed = NoHandler
  BY IncomingIs, 0 \in Nat
<1> DEFINE c == NewContext
<1> HIDE DEF c
<1>3. CurrentPath' = path /\ CurrentMethod' = method
  <2>1. c.routePath = <<>> /\ c.routeMethod = Blank /\ request'.ctx = c
    BY <1>1, <1>2 DEF c
  <2>. QED  BY <1>1, <2>1 DEF CurrentPath, CurrentMethod, RoutedPath, RoutedMethod
<1>4. Where' = j
  BY <1>1, <1>3 DEF Where
<1>5. /\ Last(<<Root>>) = Root /\ Len(<<Root>>) = 1 /\ j.muxes = <<Root>>
      /\ j.method = method /\ j.rest = path /\ j.handler = NoHandler
  BY FirstStopType DEF FirstStop
<1>6. Len(<<>>) = 0 /\ 1 = 0 + 1
  BY EmptySeq
<1>7. "GetHead" \notin Range(tables[Root].uses) => method = MethodAt(Root, method, path)
  BY UsesIs DEF MethodAt
<1>8. \A kind \in {"404", "405"} : Nearest(kind, Inherited(kind)', j.muxes, 0)
  <2> SUFFICES ASSUME NEW kind \in {"404", "405"} PROVE Nearest(kind, Inherited(kind)', j.muxes, 0)
    OBVIOUS
  <2> DEFINE i == Inherited(kind)'
  <2>1. i = NoHandler
    <3>1. c.notFound = NoHandler /\ c.methodNotAllowed = NoHandler /\ request'.ctx = c
      BY <1>1, <1>2 DEF c
    <3>. QED  BY <3>1 DEF Inherited
  <2> HIDE DEF i, j
  <2>2. 1..0 = {}
    OBVIOUS
  <2>3. Nearest(kind, i, j.muxes, 0)
    BY <2>1, <2>2 DEF Nearest
  <2>. QED  BY <2>3 DEF i
<1> HIDE DEF j
<1>. QED
  <2>1. /\ Len(request'.looked) = 0 /\ Len(j.muxes) = 0 + 1 /\ Last(j.muxes) = Root
        /\ j.method \in {request'.method, "GET"}
        /\ method \in {j.method, MethodAt(Root, j.method, path)}
        /\ "GetHead" \notin Range(request'.todo) => method = MethodAt(Root, j.method, path)
        /\ request'.looked = <<>> /\ request'.todo # <<>> => method = request'.method
    BY <1>1, <1>5, <1>6, <1>7
  <2>. QED  BY <1>1, <1>3, <1>4, <1>5, <1>8, <2>1, DownServes

(* Mount's handler passes on the rest of the path and the nearest fallbacks. *)
LEMMA HandOverDown ==
    ASSUME TypeInv, WayInv, DownInv, HandOver
    PROVE  DownInv'
<1> DEFINE j    == Where
           h    == Len(request.looked)
           m    == request.handler.nth
           path == Remaining(CurrentPath, request.handler.prefix)
<1>1. /\ Running /\ request.phase = "mount" /\ m \in Muxes /\ HandedOver /\ tables' = tables
  BY HandOverIs DEF HandOver
<1>2. /\ request'.phase = "serve" /\ request'.mux = m /\ request'.todo = tables[m].uses
      /\ request'.method = request.method /\ request'.looked = request.looked
      /\ request'.ctx.routePath = path /\ request'.ctx.routePath # <<>>
      /\ request'.ctx.routeMethod = request.ctx.routeMethod
  BY <1>1 DEF HandedOver
<1>3. SettledSoFar' <=> SettledSoFar
  BY <1>1, <1>2, SettledUnchanged
<1>4. CASE ~SettledSoFar
  BY <1>3, <1>4, Unsettled
<1>5. CASE SettledSoFar
  <2>1. Down(j, h) /\ AtMount(j, h)
    BY <1>1, <1>5, DownIs DEF Running, Down
  <2>2. /\ Last(j.muxes) = m /\ j.muxes[h] = request.mux /\ j.rest = path
        /\ CurrentMethod = j.method
        /\ \A kind \in {"404", "405"} : Nearest(kind, Inherited(kind), j.muxes, h - 1)
    BY <2>1 DEF AtMount
  <2>3. CurrentPath' = path
    BY <1>2 DEF CurrentPath, RoutedPath
  <2>4. CurrentMethod' = CurrentMethod
    BY <1>2 DEF CurrentMethod, RoutedMethod
  <2>5. Where' = j
    <3>1. request.looked # <<>>
      BY <1>1 DEF WayInv, Running
    <3>. QED  BY <1>1, <1>2, <3>1, StagesUnchanged DEF Where
  <2>6. "GetHead" \notin Range(tables[m].uses) => j.method = MethodAt(m, j.method, path)
    BY UsesIs DEF MethodAt
  <2>7. h \in Nat /\ h # 0 /\ request.looked # <<>>
    <3>1. request.looked # <<>>
      BY <1>1 DEF WayInv, Running
    <3>. QED  BY <1>1, <3>1, LookedIs
  <2>8. \A kind \in {"404", "405"} : Nearest(kind, Inherited(kind)', j.muxes, h)
    <3> SUFFICES ASSUME NEW kind \in {"404", "405"} PROVE Nearest(kind, Inherited(kind)', j.muxes, h)
      OBVIOUS
    <3> DEFINE i == Inherited(kind)
               now == Inherited(kind)'
               n == h - 1
               muxes == j.muxes
               own == Own(kind, request.mux)
    <3>1. now = Inherit(i, own, DefaultOf(kind))
      <4>1. kind = "404" => now = request'.ctx.notFound /\ i = request.ctx.notFound
                            /\ own = tables[request.mux].fallbacks.notFound
                            /\ DefaultOf(kind) = Default404
        BY DEF Inherited, Own, DefaultOf
      <4>2. kind = "405" => now = request'.ctx.methodNotAllowed /\ i = request.ctx.methodNotAllowed
                            /\ own = tables[request.mux].fallbacks.methodNotAllowed
                            /\ DefaultOf(kind) = Default405
        BY DEF Inherited, Own, DefaultOf
      <4> HIDE DEF now, i, own
      <4>. QED  BY <1>1, <4>1, <4>2 DEF HandedOver
    <3>2. n \in Nat /\ n + 1 = h
      BY <2>7
    <3>3. Nearest(kind, i, muxes, n) /\ muxes[h] = request.mux
      BY <2>2
    <3> HIDE DEF i, now, n, muxes, h, j
    <3>4. Nearest(kind, Inherit(i, Own(kind, muxes[n + 1]), DefaultOf(kind)), muxes, n + 1)
      BY <3>2, <3>3, NearestNext
    <3>5. Nearest(kind, now, muxes, h)
      BY <3>1, <3>2, <3>3, <3>4
    <3>. QED  BY <3>5 DEF now, muxes
  <2>9. /\ j.handler = NoHandler /\ Len(j.muxes) = h + 1 /\ j.method \in {request'.method, "GET"}
        /\ request'.looked # <<>> /\ Plain(request'.looked[1]) => Plain(j.rest)
    <3> HIDE DEF j, Plain
    <3>. QED  BY <1>2, <2>1 DEF Down
  <2> DEFINE now == j.method
  <2>10. /\ now \in {j.method, MethodAt(m, j.method, path)} /\ CurrentMethod' = now
         /\ Len(request'.looked) = h
         /\ "GetHead" \notin Range(request'.todo) => now = MethodAt(m, j.method, path)
         /\ request'.looked = <<>> /\ request'.todo # <<>> => now = request'.method
         /\ request'.looked # <<>> => request'.ctx.routePath # <<>>
    BY <1>2, <2>2, <2>4, <2>6, <2>7
  <2> HIDE DEF j, h, m, path, now, Plain
  <2>. QED  BY <1>1, <1>2, <2>2, <2>3, <2>5, <2>8, <2>9, <2>10, DownServes
<1>. QED  BY <1>4, <1>5

(* One more path looked up is one more stop of the journey.                *)
LEMMA WhereNext ==
    ASSUME TypeInv, WayInv, Running, request.phase = "serve", NEW looked,
           looked = Append(request.looked, CurrentPath)
    PROVE  /\ looked \in Seq(RequestPaths) /\ looked # <<>>
           /\ Len(looked) = Len(request.looked) + 1 /\ Len(request.looked) \in Nat
           /\ looked[1] = IF request.looked = <<>> THEN CurrentPath ELSE request.looked[1]
           /\ looked[1] \in RequestPaths /\ request.method \in Methods
           /\ Len(looked) \in 1..Depth /\ Len(request.looked) \in 0..Depth
           /\ Stages(request.method, looked[1])[Len(request.looked)] = Where
           /\ Stages(request.method, looked[1])[Len(looked)] = Onward(Where)
<1> DEFINE l == request.looked
           cur == CurrentPath
<1>1. /\ l \in Seq(RequestPaths) /\ Len(l) \in Nat /\ (l = <<>> <=> Len(l) = 0)
      /\ l # <<>> => l[1] \in RequestPaths
  BY LookedIs
<1>2. cur \in RequestPaths /\ Len(l) + 1 \in 1..Depth
      /\ Where = Stages(request.method, IF l = <<>> THEN cur ELSE l[1])[Len(l)]
  BY WhereType
<1> HIDE DEF l, cur
<1>3. looked = Append(l, cur)
  BY DEF l, cur
<1>4. /\ looked \in Seq(RequestPaths) /\ looked # <<>> /\ Len(looked) = Len(l) + 1
      /\ Last(looked) = cur /\ \A i \in 1..Len(l) : looked[i] = l[i]
  BY <1>1, <1>2, <1>3, AppendIs
<1>5. looked[1] = IF l = <<>> THEN cur ELSE l[1]
  <2>1. CASE l = <<>>
    <3>1. looked[1] = Last(looked)
      BY <1>1, <1>4, <2>1 DEF Last
    <3>. QED  BY <1>4, <2>1, <3>1
  <2>2. CASE l # <<>>
    <3>1. 1 \in 1..Len(l)
      BY <1>1, <2>2
    <3>. QED  BY <1>4, <2>2, <3>1
  <2>. QED  BY <2>1, <2>2
<1>6. looked[1] \in RequestPaths
  BY <1>1, <1>2, <1>5
<1>7. request.method \in Methods
  BY FieldsOfRequest DEF Running
<1>8. Depth \in Nat /\ Len(looked) \in 1..Depth /\ Len(looked) - 1 = Len(l) /\ Len(l) \in 0..Depth
  <2>1. Depth \in Nat
    BY MountServeAssumption
  <2>. QED  BY <1>1, <1>2, <1>4, <2>1
<1> DEFINE first == looked[1]
<1>9. \A n \in 1..Depth : Stages(request.method, first)[n] = Onward(Stages(request.method, first)[n - 1])
  <2>1. first \in RequestPaths
    BY <1>6
  <2> HIDE DEF first
  <2>. QED  BY <1>7, <2>1, StagesDef
<1>10. Stages(request.method, first)[Len(l)] = Where
  BY <1>2, <1>5
<1>11. Stages(request.method, first)[Len(looked)] = Onward(Where)
  BY <1>8, <1>9, <1>10
<1>. QED  BY <1>1, <1>4, <1>5, <1>6, <1>7, <1>8, <1>10, <1>11 DEF l, cur

(* The route that a mux finds for a mount is the winner of the journey: without *)
(* a Route prefix the handler takes off exactly the literal part of the pattern. *)
LEMMA EnterDown ==
    ASSUME RoutePrefixes \subseteq {<<>>}, TypeInv, WayInv, DownInv, EnterMount
    PROVE  DownInv'
<1> DEFINE j      == Where
           l      == request.looked
           m      == request.mux
           cur    == CurrentPath
           method == CurrentMethod
           routes == tables[m].routes
           k      == Onward(j)
<1>1. /\ Running /\ request.phase = "serve" /\ request.todo = <<>> /\ Entered
  BY EnterIs
<1>2. PICK a \in RoutePrefixes, b \in MountPrefixes, child \in Muxes : Enters(a, b, child)
  BY EnterIs
<1>3. /\ request'.phase = "mount" /\ request'.mux = m /\ request'.method = request.method
      /\ request'.path = request.path /\ request'.looked = Append(l, cur)
      /\ request'.ctx.routePath = request.ctx.routePath
      /\ request'.ctx.routeMethod = request.ctx.routeMethod
      /\ request'.ctx.notFound = request.ctx.notFound
      /\ request'.ctx.methodNotAllowed = request.ctx.methodNotAllowed
      /\ request'.handler = MountHandler(child, b)
  BY <1>1, <1>2 DEF Entered, Enters
<1>4. tables' = tables
  BY DEF EnterMount
<1>5. /\ request'.looked # <<>> /\ Len(request'.looked) = Len(l) + 1 /\ Len(l) \in Nat
      /\ request'.looked[1] = IF l = <<>> THEN cur ELSE l[1]
      /\ Stages(request.method, request'.looked[1])[Len(request'.looked)] = k
  <2> DEFINE looked == request'.looked
  <2>1. looked = Append(request.looked, CurrentPath)
    BY <1>3
  <2> HIDE DEF looked
  <2>2. /\ looked # <<>>
        /\ Len(looked) = Len(request.looked) + 1 /\ Len(request.looked) \in Nat
        /\ looked[1] = IF request.looked = <<>> THEN CurrentPath ELSE request.looked[1]
        /\ Stages(request.method, looked[1])[Len(looked)] = Onward(Where)
    BY <1>1, <2>1, WhereNext
  <2>. QED  BY <2>2 DEF looked
<1>6. Where' = k
  BY <1>3, <1>4, <1>5, StagesUnchanged DEF Where
<1>7. CurrentPath' = cur /\ CurrentMethod' = method
  BY <1>3 DEF CurrentPath, CurrentMethod, RoutedPath, RoutedMethod
<1>8. CASE ~SettledSoFar'
  BY <1>8, Unsettled
<1>9. CASE SettledSoFar'
  <2>1. SettledSoFar
    <3>1. RootSettled /\ BelowSettled(request'.looked[1])
      BY <1>4, <1>5, <1>9 DEF SettledSoFar, RootSettled, BelowSettled, UsesAnyOf
    <3>. QED  BY <1>5, <3>1 DEF SettledSoFar
  <2>2. Down(j, Len(l)) /\ AtMux(j, Len(l))
    BY <1>1, <2>1, DownIs DEF Running, Down
  <2>3. /\ j.handler = NoHandler /\ Len(j.muxes) = Len(l) + 1 /\ j.method \in {request.method, "GET"}
        /\ l # <<>> /\ Plain(l[1]) => Plain(j.rest)
    <3> HIDE DEF Plain, Where
    <3>. QED  BY <2>2 DEF Down
  <2>4. /\ Last(j.muxes) = m /\ j.rest = cur
        /\ \A kind \in {"404", "405"} : Nearest(kind, Inherited(kind), j.muxes, Len(l))
        /\ method = MethodAt(m, j.method, cur)
    <3>1. "GetHead" \notin Range(request.todo)
      BY <1>1, EmptyRange
    <3>. QED  BY <2>2, <3>1 DEF AtMux
  <2>5. j \in Stops /\ cur \in RequestPaths
    BY <1>1, WhereType
  <2>6. Goes(j, k)
    BY <2>3, <2>5, OnwardIs
  <2>7. /\ j.muxes \in Seq(Muxes) /\ Last(j.muxes) = j.muxes[Len(j.muxes)]
    BY <2>5, StopIs
  <2> DEFINE w == Winner(routes, method, cur)
             text == b \o <<Rest>>
  <2>8. /\ Candidates(routes, method, cur) # {} /\ routes[w].handler = MountHandler(child, b)
        /\ routes[w].pattern = text /\ Serves(routes[w], method, cur)
    <3>1. Routed(Outcome, routes, request.ctx, method, cur)
          /\ Outcome.handler = MountHandler(child, b) /\ Outcome.pattern = (a \o b) \o <<Rest>>
      BY <1>2 DEF Enters
    <3>2. a = <<>>
      OBVIOUS
    <3>3. a \o b = b
      <4>1. IsText(b)
        BY LiteralPrefix
      <4>2. b \in Seq(Range(b))
        BY <4>1 DEF IsText
      <4>. QED  BY <3>2, <4>2, ConcatEmptySeq
    <3>. QED  BY <3>1, <3>3 DEF Routed
  <2>9. k = [muxes |-> Append(j.muxes, child), method |-> method,
             rest |-> Below(text, cur), handler |-> NoHandler]
    <3>1. MountHandler(child, b).role = "mount" /\ MountHandler(child, b).nth = child
      BY MountHandlerIs
    <3> HIDE DEF j, k, w, text
    <3>2. IF Candidates(routes, method, cur) = {} THEN k = j
          ELSE IF routes[w].handler.role = "mount"
               THEN k = [muxes |-> Append(j.muxes, routes[w].handler.nth), method |-> method,
                         rest |-> Below(routes[w].pattern, cur), handler |-> NoHandler]
               ELSE k = [muxes |-> j.muxes, method |-> j.method, rest |-> j.rest,
                         handler |-> routes[w].handler]
      BY <2>4, <2>6 DEF Goes, w
    <3>. QED  BY <2>8, <3>1, <3>2
  <2>10. Below(text, cur) = Remaining(cur, b)
    <3>1. IsText(b) /\ IsExact(b)
      BY LiteralPrefix
    <3>2. Describes(Segments(text), cur)
      BY <2>8 DEF Serves, SegmentsOf
    <3> HIDE DEF cur
    <3>. QED  BY <2>5, <3>1, <3>2, BelowIsRemaining
  <2>11. Plain(cur) => Plain(Remaining(cur, b))
    <3>1. Len(b) \in Nat
      <4>1. IsText(b)
        BY LiteralPrefix
      <4>. QED  BY <4>1, LenProperties DEF IsText
    <3> HIDE DEF cur, Plain
    <3>. QED  BY <2>5, <3>1, RemainingIs
  <2>12. method \in {request.method, "GET"}
    <3>1. method \in {j.method, "GET"}
      <4>1. m \in Muxes
        BY <1>1, FieldsOfRequest DEF Running
      <4>2. j.method \in Methods \cup {"GET"}
        BY <2>5, StopIs
      <4> HIDE DEF j, m, cur, method
      <4>. QED  BY <2>4, <4>1, <4>2, MethodAtType
    <3>. QED  BY <2>3, <3>1
  <2> DEFINE s == j.muxes
             t == Append(s, child)
             h == Len(l) + 1
  <2>13. /\ Len(t) = h + 1 /\ Last(t) = child /\ t[h] = m /\ \A i \in 1..(h - 1) : t[i] = s[i]
         /\ h - 1 = Len(l)
    <3>1. s \in Seq(Muxes) /\ Len(s) = h /\ s[h] = m /\ h \in Nat \ {0} /\ h - 1 = Len(l)
      BY <1>5, <2>3, <2>4, <2>7
    <3> HIDE DEF s, h, m
    <3>2. Len(t) = Len(s) + 1 /\ Last(t) = child /\ \A i \in 1..Len(s) : t[i] = s[i]
      BY <3>1, AppendIs
    <3>3. h \in 1..Len(s) /\ \A i \in 1..(h - 1) : i \in 1..Len(s)
      BY <3>1
    <3>. QED  BY <3>1, <3>2, <3>3
  <2>14. \A kind \in {"404", "405"} : Nearest(kind, Inherited(kind)', t, h - 1)
    <3> SUFFICES ASSUME NEW kind \in {"404", "405"} PROVE Nearest(kind, Inherited(kind)', t, h - 1)
      OBVIOUS
    <3> DEFINE i == Inherited(kind)
               now == Inherited(kind)'
               n == h - 1
    <3>1. now = i
      BY <1>3 DEF Inherited
    <3>2. n = Len(l)
      BY <2>13
    <3>3. Nearest(kind, i, s, Len(l))
      BY <2>4
    <3>4. \A x \in 1..n : t[x] = s[x]
      BY <2>13
    <3> HIDE DEF i, now, n, s, t, l
    <3>5. Nearest(kind, now, t, n)
      BY <3>1, <3>2, <3>3, <3>4, NearestAgrees
    <3>. QED  BY <3>5 DEF now, n
  <2> DEFINE rest == Remaining(cur, b)
  <2>15. /\ k.muxes = t /\ k.method = method /\ k.rest = rest /\ k.handler = NoHandler
    <3> HIDE DEF t, method, k
    <3>. QED  BY <2>9, <2>10 DEF t
  <2>16. /\ request'.handler.nth = child /\ request'.handler.prefix = b
    BY <1>3, MountHandlerIs
  <2>17. request'.looked # <<>> /\ Plain(request'.looked[1]) => Plain(k.rest)
    <3>1. Plain(request'.looked[1]) => Plain(cur)
      <4> HIDE DEF Plain, Where, cur, l
      <4>. QED  BY <1>5, <2>3, <2>4
    <3> HIDE DEF Plain, k, cur
    <3>. QED  BY <2>11, <2>15, <3>1
  <2>18. /\ Len(request'.looked) = h /\ Len(k.muxes) = h + 1 /\ k.method \in {request'.method, "GET"}
         /\ Last(k.muxes) = request'.handler.nth /\ k.muxes[h] = m
         /\ k.rest = Remaining(CurrentPath', request'.handler.prefix)
         /\ CurrentMethod' = k.method
    <3> HIDE DEF t, method, k, m, h, cur
    <3>. QED  BY <1>3, <1>5, <1>7, <2>12, <2>13, <2>15, <2>16 DEF h
  <2>19. \A kind \in {"404", "405"} : Nearest(kind, Inherited(kind)', k.muxes, h - 1)
    <3> HIDE DEF t, k, h
    <3>. QED  BY <2>14, <2>15
  <2> HIDE DEF k, h, m, Plain
  <2>. QED  BY <1>3, <1>4, <1>6, <2>15, <2>17, <2>18, <2>19, DownMounts
<1>. QED  BY <1>8, <1>9

(* A reply that ends where its journey ends.                               *)
LEMMA ReplyNested ==
    ASSUME UNCHANGED tables, NEW j, (Journey(reply.method, reply.looked[1]))' = j,
           LET served == ServedMethods(tables[Last(j.muxes)].routes, j.rest)
           IN  IF j.handler # NoHandler
               THEN reply'.mux = Last(j.muxes) /\ reply'.handler = j.handler
               ELSE /\ reply'.kind = IF served = {} THEN "404" ELSE "405"
                    /\ reply'.allow = served
    PROVE  NestedDispatch'
<1> DEFINE served == ServedMethods(tables[Last(j.muxes)].routes, j.rest)
           goal == IF j.handler # NoHandler
                   THEN reply'.mux = Last(j.muxes) /\ reply'.handler = j.handler
                   ELSE /\ reply'.kind = IF served = {} THEN "404" ELSE "405"
                        /\ reply'.allow = served
<1>1. goal
  OBVIOUS
<1>2. ({m \in Methods : Candidates(tables[Last(j.muxes)].routes, m, j.rest) # {}})' = served
  BY DEF ServedMethods
<1> HIDE DEF served
<1>3. NestedDispatch' <=> (Answered' /\ Settled' => goal)
  BY <1>2 DEF NestedDispatch
<1> HIDE DEF goal
<1>. QED  BY <1>1, <1>3

(* A reply that has the nearest fallback of its journey.                   *)
LEMMA ReplyNearest ==
    ASSUME UNCHANGED tables, NEW j, (Journey(reply.method, reply.looked[1]))' = j,
           NEW kind \in {"404", "405"}, reply'.kind = kind, NEW n, DOMAIN j.muxes = 1..n,
           Nearest(kind, reply'.handler, j.muxes, n),
           {k \in 1..n : Own(kind, j.muxes[k]) # NoHandler} = {} => reply'.handler = DefaultOf(kind)
    PROVE  NearestMuxAnswers'
<1> DEFINE muxes  == j.muxes
           h      == reply'.handler
           custom == {k \in 1..n : Own(kind, muxes[k]) # NoHandler}
           goal   == IF custom = {} THEN h = DefaultOf(kind)
                     ELSE \E k \in custom : h = Own(kind, muxes[k]) /\ \A i \in custom : i <= k
<1>1. goal
  BY DEF Nearest
<1>2. \A m : Own(kind, m)' = IF kind = "404" THEN tables[m].fallbacks.notFound
                             ELSE tables[m].fallbacks.methodNotAllowed
  BY DEF Own
<1>3. DefaultOf(kind) = IF reply'.kind = "404" THEN Default404 ELSE Default405
  BY DEF DefaultOf
<1> DEFINE own(m) == IF reply'.kind = "404" THEN tables'[m].fallbacks.notFound
                     ELSE tables'[m].fallbacks.methodNotAllowed
<1>4. \A m : own(m) = Own(kind, m)
  BY DEF Own
<1> DEFINE customs == {k \in DOMAIN muxes : own(muxes[k]) # NoHandler}
           goals == IF customs = {} THEN h = DefaultOf(kind)
                    ELSE \E k \in customs : /\ h = own(muxes[k]) /\ \A i \in customs : i <= k
<1>5. goals
  <2>1. customs = custom
    BY <1>4
  <2> HIDE DEF customs, custom, own
  <2>. QED  BY <1>1, <1>4, <2>1
<1>6. NearestMuxAnswers' <=> (Answered' /\ Settled' /\ reply'.kind # "route" => goals)
  BY <1>3 DEF NearestMuxAnswers
<1> HIDE DEF goals
<1>. QED  BY <1>5, <1>6

(* A mux answers a settled request where its journey ends, with the nearest *)
(* fallback if there is no route.                                          *)
LEMMA AnswerDown ==
    ASSUME TypeInv, WayInv, DownInv, Answer
    PROVE  NestedDispatch' /\ NearestMuxAnswers'
<1> DEFINE j      == Where
           l      == request.looked
           m      == request.mux
           cur    == CurrentPath
           method == CurrentMethod
           t      == tables[m]
           routes == t.routes
           k      == Onward(j)
           o      == Outcome
           first  == reply'.looked[1]
           journey == Journey(request.method, first)
<1>1. /\ Running /\ request.phase = "serve" /\ request.todo = <<>>
      /\ o.handler.role # "mount" /\ AnsweredBy(o) /\ tables' = tables
  BY AnswerStep
<1>2. /\ reply'.kind = o.kind /\ reply'.handler = o.handler /\ reply'.allow = o.allow
      /\ reply'.method = request.method /\ reply'.mux = m /\ reply'.looked = Append(l, cur)
  BY <1>1 DEF AnsweredBy
<1>3. /\ Len(reply'.looked) = Len(l) + 1 /\ Len(l) \in Nat
      /\ first = IF l = <<>> THEN cur ELSE l[1]
      /\ first \in RequestPaths /\ request.method \in Methods
      /\ Len(reply'.looked) \in 1..Depth /\ Len(l) \in 0..Depth
      /\ Stages(request.method, first)[Len(l)] = j
      /\ Stages(request.method, first)[Len(reply'.looked)] = k
  <2> DEFINE looked == reply'.looked
  <2>1. looked = Append(request.looked, CurrentPath)
    BY <1>2
  <2> HIDE DEF looked
  <2>2. /\ Len(looked) = Len(request.looked) + 1 /\ Len(request.looked) \in Nat
        /\ looked[1] = IF request.looked = <<>> THEN CurrentPath ELSE request.looked[1]
        /\ looked[1] \in RequestPaths /\ request.method \in Methods
        /\ Len(looked) \in 1..Depth /\ Len(request.looked) \in 0..Depth
        /\ Stages(request.method, looked[1])[Len(request.looked)] = Where
        /\ Stages(request.method, looked[1])[Len(looked)] = Onward(Where)
    BY <1>1, <2>1, WhereNext
  <2>. QED  BY <2>2 DEF looked
<1>4. (Journey(reply.method, reply.looked[1]))' = journey
  BY <1>1, <1>2, StagesUnchanged DEF Journey
<1>5. CASE ~Settled'
  BY <1>5 DEF NestedDispatch, NearestMuxAnswers
<1>6. CASE Settled'
  <2>1. SettledSoFar
    <3>1. RootSettled /\ BelowSettled(first)
      BY <1>1, <1>6 DEF Settled, RootSettled, BelowSettled, UsesAnyOf
    <3> HIDE DEF first, l, cur
    <3>. QED  BY <1>3, <3>1 DEF SettledSoFar, l
  <2>2. Down(j, Len(l)) /\ AtMux(j, Len(l))
    BY <1>1, <2>1, DownIs DEF Running, Down
  <2>3. /\ j.handler = NoHandler /\ Len(j.muxes) = Len(l) + 1
        /\ Last(j.muxes) = m /\ j.rest = cur
        /\ \A kind \in {"404", "405"} : Nearest(kind, Inherited(kind), j.muxes, Len(l))
        /\ method = MethodAt(m, j.method, cur)
    <3>1. "GetHead" \notin Range(request.todo)
      BY <1>1, EmptyRange
    <3>. QED  BY <2>2, <3>1 DEF AtMux, Down
  <2>4. j \in Stops /\ cur \in RequestPaths
    BY <1>1, WhereType
  <2>5. Goes(j, k) /\ k \in Stops
    BY <2>3, <2>4, OnwardIs, NextStop
  <2>6. /\ j.muxes \in Seq(Muxes) /\ Last(j.muxes) = j.muxes[Len(j.muxes)]
    BY <2>4, StopIs
  <2>7. Routed(o, routes, request.ctx, method, cur) \/ Unrouted(o, routes, t.fallbacks, request.ctx, method, cur)
    BY <1>1, OutcomeIs
  <2> DEFINE w == Winner(routes, method, cur)
  <2>8. IF Candidates(routes, method, cur) = {} THEN k = j
        ELSE IF routes[w].handler.role = "mount" THEN TRUE
             ELSE k = [muxes |-> j.muxes, method |-> j.method, rest |-> j.rest,
                       handler |-> routes[w].handler]
    <3> HIDE DEF j, k, m, cur, method
    <3>. QED  BY <2>3, <2>5 DEF Goes, m
  <2>9. CASE Routed(o, routes, request.ctx, method, cur)
    <3>1. /\ o.kind = "route" /\ Candidates(routes, method, cur) # {} /\ o.handler = routes[w].handler
          /\ w \in 1..Len(routes)
      BY <2>9 DEF Routed
    <3>2. o.handler # NoHandler
      <4>1. routes \in Seq(RoutesOf(m)) /\ m \in Muxes
        <5>1. m \in Muxes
          BY <1>1, FieldsOfRequest DEF Running
        <5>2. t \in Table(m)
          BY <5>1 DEF TypeInv, TablesOK
        <5> HIDE DEF t
        <5>. QED  BY <5>1, <5>2, FieldsOfTable
      <4> HIDE DEF routes, w, m
      <4>2. routes[w] \in RoutesOf(m)
        BY <3>1, <4>1, ElementOfSeq
      <4>3. routes[w].handler.role \in {"route", "mount"}
        BY <4>1, <4>2, RouteIs
      <4>4. NoHandler.role = "nil"
        BY DEF NoHandler, Handler
      <4> HIDE DEF o
      <4>. QED  BY <3>1, <4>3, <4>4
    <3>3. k = [muxes |-> j.muxes, method |-> j.method, rest |-> j.rest, handler |-> o.handler]
      <4> HIDE DEF j, k, o, routes, w
      <4>. QED  BY <1>1, <2>8, <3>1
    <3>4. k.handler = o.handler /\ k.muxes = j.muxes
      <4> HIDE DEF j, k, o
      <4>. QED  BY <3>3
    <3>5. Onward(k) = k
      <4> HIDE DEF k, o
      <4>. QED  BY <2>5, <3>2, <3>4, OnwardIs
    <3>6. journey = k
      <4> DEFINE n == Len(reply'.looked)
                 path == first
      <4>1. n \in 0..Depth
        <5>1. Depth \in Nat
          BY MountServeAssumption
        <5>. QED  BY <1>3, <5>1
      <4>2. path \in RequestPaths /\ request.method \in Methods /\ Stages(request.method, path)[n] = k
        BY <1>3
      <4> HIDE DEF n, path, k
      <4>3. Journey(request.method, path) = k
        BY <3>5, <4>1, <4>2, JourneyEnds
      <4>. QED  BY <4>3 DEF path
    <3>7. NestedDispatch'
      <4> DEFINE x == k
      <4>1. /\ x.handler # NoHandler /\ reply'.mux = Last(x.muxes) /\ reply'.handler = x.handler
            /\ (Journey(reply.method, reply.looked[1]))' = x
        <5> HIDE DEF k, j, o, journey
        <5>. QED  BY <1>2, <1>4, <2>3, <3>2, <3>4, <3>6
      <4> HIDE DEF x
      <4>. QED  BY <1>1, <4>1, ReplyNested
    <3>8. NearestMuxAnswers'
      <4>1. reply'.kind = "route"
        BY <1>2, <3>1
      <4>. QED  BY <4>1 DEF NearestMuxAnswers
    <3>. QED  BY <3>7, <3>8
  <2>10. CASE Unrouted(o, routes, t.fallbacks, request.ctx, method, cur)
    <3> DEFINE served == ServedMethods(routes, cur)
               kind == o.kind
    <3>1. /\ Candidates(routes, method, cur) = {} /\ o.allow = served
          /\ kind = IF served = {} THEN "404" ELSE "405"
          /\ kind = "404" => o.handler = Inherit(request.ctx.notFound, t.fallbacks.notFound, Default404)
          /\ kind = "405" => o.handler = Inherit(request.ctx.methodNotAllowed,
                                                 t.fallbacks.methodNotAllowed, Default405)
      <4> HIDE DEF served, o, routes, t
      <4>. QED  BY <2>10 DEF Unrouted, served
    <3>2. k = j
      BY <2>8, <3>1
    <3>3. journey = j
      <4> DEFINE n == Len(l)
                 path == first
      <4>1. n \in 0..Depth /\ path \in RequestPaths /\ request.method \in Methods
            /\ Stages(request.method, path)[n] = j
        BY <1>3
      <4>2. Onward(j) = j
        BY <3>2
      <4> HIDE DEF n, path, j
      <4>3. Journey(request.method, path) = j
        BY <4>1, <4>2, JourneyEnds
      <4>. QED  BY <4>3 DEF path
    <3>4. (Journey(reply.method, reply.looked[1]))' = j
      BY <1>4, <3>3
    <3>5. NestedDispatch'
      <4> DEFINE x == j
      <4>1. /\ x.handler = NoHandler
            /\ ServedMethods(tables[Last(x.muxes)].routes, x.rest) = served
            /\ reply'.kind = (IF served = {} THEN "404" ELSE "405")
            /\ reply'.allow = served
            /\ (Journey(reply.method, reply.looked[1]))' = x
        <5>1. ServedMethods(tables[Last(x.muxes)].routes, x.rest) = served
          <6> HIDE DEF j, cur, m
          <6>. QED  BY <2>3 DEF m
        <5> HIDE DEF j, served
        <5>. QED  BY <1>2, <2>3, <3>1, <3>4, <5>1
      <4> HIDE DEF x, served
      <4>. QED  BY <1>1, <4>1, ReplyNested
    <3>6. NearestMuxAnswers'
      <4> DEFINE n == Len(l) + 1
                 i == Inherited(kind)
                 muxes == j.muxes
      <4>1. kind \in {"404", "405"}
        BY <3>1
      <4>2. o.handler = Inherit(i, Own(kind, m), DefaultOf(kind))
        <5>1. kind = "404" => i = request.ctx.notFound /\ Own(kind, m) = t.fallbacks.notFound
                              /\ DefaultOf(kind) = Default404
          BY DEF Inherited, Own, DefaultOf
        <5>2. kind = "405" => i = request.ctx.methodNotAllowed
                              /\ Own(kind, m) = t.fallbacks.methodNotAllowed
                              /\ DefaultOf(kind) = Default405
          BY DEF Inherited, Own, DefaultOf
        <5> HIDE DEF i, kind, o, t, m
        <5>. QED  BY <3>1, <4>1, <5>1, <5>2
      <4>3. /\ muxes \in Seq(Muxes) /\ Len(muxes) = n /\ muxes[n] = m /\ Len(l) \in Nat
            /\ Nearest(kind, i, muxes, Len(l))
        BY <1>3, <2>3, <2>6, <4>1
      <4>4. DOMAIN muxes = 1..n
        <5> HIDE DEF muxes, n
        <5>. QED  BY <4>3, LenProperties
      <4> DEFINE q == Len(l)
                 h == reply'.handler
                 x == j
                 kd == kind
      <4>5. h = Inherit(i, Own(kd, muxes[q + 1]), DefaultOf(kd))
        BY <1>2, <4>2, <4>3
      <4>6. /\ Nearest(kd, h, muxes, q + 1)
            /\ {y \in 1..(q + 1) : Own(kd, muxes[y]) # NoHandler} = {} => h = DefaultOf(kd)
        <5>1. q \in Nat /\ Nearest(kd, i, muxes, q)
          BY <4>3
        <5> HIDE DEF q, i, muxes, kd, h
        <5>. QED  BY <4>5, <5>1, NearestNext
      <4>7. /\ kd \in {"404", "405"} /\ reply'.kind = kd /\ DOMAIN x.muxes = 1..(q + 1)
            /\ (Journey(reply.method, reply.looked[1]))' = x
            /\ Nearest(kd, reply'.handler, x.muxes, q + 1)
            /\ {y \in 1..(q + 1) : Own(kd, x.muxes[y]) # NoHandler} = {} =>
                  reply'.handler = DefaultOf(kd)
        BY <1>2, <3>4, <4>1, <4>4, <4>6
      <4> DEFINE z == q + 1
      <4>8. /\ DOMAIN x.muxes = 1..z /\ Nearest(kd, reply'.handler, x.muxes, z)
            /\ {y \in 1..z : Own(kd, x.muxes[y]) # NoHandler} = {} => reply'.handler = DefaultOf(kd)
        BY <4>7
      <4> HIDE DEF x, kd, z, q
      <4>. QED  BY <1>1, <4>7, <4>8, ReplyNearest
    <3>. QED  BY <3>5, <3>6
  <2>. QED  BY <2>7, <2>9, <2>10
<1>. QED  BY <1>5, <1>6

(* The inductive invariant.                                                *)
JourneyInv == TypeInv /\ WayInv /\ DownInv /\ NestedDispatch /\ NearestMuxAnswers

(* Without an answer there is nothing to show.                             *)
LEMMA NoAnswer ==
    ASSUME ~Answered'
    PROVE  NestedDispatch' /\ NearestMuxAnswers'
<1> HIDE DEF Answered
<1>. QED  BY DEF NestedDispatch, NearestMuxAnswers

(* A stuttering step changes no answer.                                    *)
LEMMA RepliesUnchanged ==
    ASSUME NestedDispatch, NearestMuxAnswers, UNCHANGED vars
    PROVE  NestedDispatch' /\ NearestMuxAnswers'
<1>1. tables' = tables /\ reply' = reply
  BY DEF vars
<1>2. (Journey(reply.method, reply.looked[1]))' = Journey(reply.method, reply.looked[1])
  BY <1>1, StagesUnchanged DEF Journey
<1>3. Settled' <=> Settled
  BY <1>1 DEF Settled, UsesAnyOf
<1>4. Answered' <=> Answered
  BY <1>1 DEF Answered
<1> HIDE DEF Journey, Settled, Answered
<1>5. NestedDispatch'
  BY <1>1, <1>2, <1>3, <1>4 DEF NestedDispatch
<1>6. NearestMuxAnswers'
  <2> DEFINE muxes  == Journey(reply.method, reply.looked[1]).muxes
             own(m) == IF reply.kind = "404" THEN tables[m].fallbacks.notFound
                       ELSE tables[m].fallbacks.methodNotAllowed
             custom == {k \in DOMAIN muxes : own(muxes[k]) # NoHandler}
             goal   == IF custom = {}
                       THEN reply.handler = IF reply.kind = "404" THEN Default404 ELSE Default405
                       ELSE \E k \in custom : /\ reply.handler = own(muxes[k])
                                              /\ \A j \in custom : j <= k
             before == NearestMuxAnswers
             after  == NearestMuxAnswers'
  <2>1. before <=> (Answered /\ Settled /\ reply.kind # "route" => goal)
    BY DEF NearestMuxAnswers
  <2>2. after <=> (Answered' /\ Settled' /\ reply'.kind # "route" => goal')
    BY DEF NearestMuxAnswers
  <2>3. muxes' = muxes
    BY <1>2
  <2>4. goal' <=> goal
    <3> HIDE DEF muxes
    <3>. QED  BY <1>1, <2>3
  <2> HIDE DEF goal
  <2>5. before
    OBVIOUS
  <2> HIDE DEF before, after
  <2>6. after
    BY <1>1, <1>3, <1>4, <2>1, <2>2, <2>4, <2>5
  <2>. QED  BY <2>6 DEF after
<1>. QED  BY <1>5, <1>6

(* A stuttering step leaves the request on its journey.                    *)
LEMMA DownUnchanged ==
    ASSUME DownInv, UNCHANGED vars
    PROVE  DownInv'
<1>1. tables' = tables /\ request' = request
  BY DEF vars
<1>2. CurrentPath' = CurrentPath /\ CurrentMethod' = CurrentMethod
  BY <1>1 DEF CurrentPath, CurrentMethod
<1>3. Where' = Where
  <2> HIDE DEF CurrentPath
  <2>. QED  BY <1>1, <1>2, StagesUnchanged DEF Where
<1>4. SettledSoFar' <=> SettledSoFar
  BY <1>1, SettledUnchanged
<1>5. ASSUME NEW j, NEW h, Down(j, h) PROVE Down(j, h)'
  <2>1. \A kind, n : Nearest(kind, Inherited(kind), j.muxes, n)' <=> Nearest(kind, Inherited(kind), j.muxes, n)
    BY <1>1 DEF Nearest, Own, Inherited
  <2>2. (MethodAt(request.mux, j.method, CurrentPath))' = MethodAt(request.mux, j.method, CurrentPath)
    BY <1>1 DEF MethodAt, UsesAnyOf, CurrentPath
  <2>3. (Remaining(CurrentPath, request.handler.prefix))' = Remaining(CurrentPath, request.handler.prefix)
    BY <1>1 DEF Remaining, TrimPrefix, CurrentPath
  <2>4. AtMux(j, h)' <=> AtMux(j, h)
    <3> HIDE DEF CurrentPath, CurrentMethod
    <3>. QED  BY <1>1, <1>2, <2>1, <2>2 DEF AtMux
  <2>5. AtMount(j, h)' <=> AtMount(j, h)
    <3> HIDE DEF CurrentPath, CurrentMethod
    <3>. QED  BY <1>1, <1>2, <2>1, <2>3 DEF AtMount
  <2>6. \A path : Plain(path)' <=> Plain(path)
    OBVIOUS
  <2>. QED  BY <1>1, <1>5, <2>4, <2>5 DEF Down, Plain
<1> DEFINE j == Where
           h == Len(request.looked)
<1>6. Down(j, h) => Down(j, h)'
  <2> DEFINE G(x, y) == Down(x, y) => Down(x, y)'
  <2>. QED  BY <1>1, <1>3, <1>5
<1>. QED  BY <1>1, <1>3, <1>4, <1>6 DEF DownInv, Down

(* The initial state satisfies the invariant.                              *)
LEMMA InitJourney == Init => JourneyInv
<1> SUFFICES ASSUME Init PROVE JourneyInv
  OBVIOUS
<1>1. TypeInv
  BY InitTypes
<1>2. request = Idle /\ reply = NoReply
  BY DEF Init
<1>3. WayInv /\ DownInv
  BY <1>2 DEF WayInv, DownInv
<1>4. ~Answered
  BY <1>2 DEF Answered, NoReply
<1>5. NestedDispatch /\ NearestMuxAnswers
  <2> HIDE DEF Answered
  <2>. QED  BY <1>4 DEF NestedDispatch, NearestMuxAnswers
<1>. QED  BY <1>1, <1>3, <1>5 DEF JourneyInv

(* Every step keeps the invariant.                                         *)
LEMMA NextJourney ==
    ASSUME RoutePrefixes \subseteq {<<>>}, JourneyInv, [Next]_vars
    PROVE  JourneyInv'
<1> DEFINE Goal == DownInv' /\ NestedDispatch' /\ NearestMuxAnswers'
<1>1. TypeInv /\ WayInv /\ DownInv /\ NestedDispatch /\ NearestMuxAnswers
  BY DEF JourneyInv
<1>2. TypeInv' /\ WayInv'
  BY <1>1, NextTypes, NextWay
<1>3. reply' = NoReply => ~Answered'
  BY DEF Answered, NoReply
<1>4. Running => reply = NoReply
  BY <1>1 DEF WayInv, Running
<1>5. ASSUME NEW m \in Muxes, Configures(m) PROVE Goal
  BY <1>1, <1>3, <1>5, ConfiguresIs, Unsettled, NoAnswer
<1>6. ASSUME NEW method \in Methods, NEW path \in RequestPaths, NEW redirects \in Nat,
             Starts(method, path, redirects)
      PROVE  Goal
  <2>1. reply' = NoReply
    BY <1>6 DEF Starts
  <2>. QED  BY <1>1, <1>3, <1>6, <2>1, StartDown, NoAnswer
<1>7. ASSUME Follow PROVE Goal
  <2>1. reply.redirects + 1 \in Nat
    BY <1>1, <1>7, FollowStarts
  <2>. QED  BY <1>1, <1>6, <1>7, <2>1, FollowStarts
<1>8. ASSUME RedirectSlashes PROVE Goal
  <2>1. request' = Idle /\ reply'.kind = "redirect"
    BY <1>1, <1>8, RedirectIs
  <2>2. ~Answered'
    BY <2>1 DEF Answered
  <2>. QED  BY <2>1, <2>2, Unsettled, NoAnswer
<1>9. ASSUME NEW middleware, NEW p \in RoutePaths, NEW q \in {Blank, "GET"}, Passes(middleware, p, q)
      PROVE  Goal
  <2>1. Running /\ reply' = reply
    BY <1>1, <1>9, ReachesRuns DEF Passes
  <2>. QED  BY <1>1, <1>3, <1>4, <1>9, <2>1, PassDown, NoAnswer
<1>10. ASSUME EnterMount PROVE Goal
  <2>1. Running /\ reply' = reply
    BY <1>1, <1>10, EnterIs DEF EnterMount
  <2>. QED  BY <1>1, <1>3, <1>4, <1>10, <2>1, EnterDown, NoAnswer
<1>11. ASSUME HandOver PROVE Goal
  <2>1. Running /\ reply' = reply
    BY <1>1, <1>11, HandOverIs DEF HandOver
  <2>. QED  BY <1>1, <1>3, <1>4, <1>11, <2>1, HandOverDown, NoAnswer
<1>12. ASSUME Answer PROVE Goal
  <2>1. request' = Idle
    BY <1>1, <1>12, AnswerStep
  <2>. QED  BY <1>1, <1>12, <2>1, Unsettled, AnswerDown
<1>13. ASSUME UNCHANGED vars PROVE Goal
  BY <1>1, <1>13, DownUnchanged, RepliesUnchanged
<1> HIDE DEF Goal
<1>14. Goal
  BY <1>1, <1>5, <1>6, <1>7, <1>8, <1>9, <1>10, <1>11, <1>12, <1>13, StepIs, 0 \in Nat
<1>. QED  BY <1>2, <1>14 DEF JourneyInv, Goal

(* Where no mux is mounted inside Route, a settled request follows its journey *)
(* in every behaviour.                                                     *)
THEOREM JourneysHold ==
    ASSUME RoutePrefixes \subseteq {<<>>}
    PROVE  Spec => []JourneyInv
<1>1. Init => JourneyInv
  BY InitJourney
<1>2. JourneyInv /\ [Next]_vars => JourneyInv'
  BY NextJourney
<1>. QED  BY <1>1, <1>2, PTL DEF Spec

(* Through any tree of mounted muxes, with any middlewares, a settled request *)
(* is answered by the mux and handler that its journey leads to, and a 405 *)
(* lists the methods of the mux it ends at, where no mux is mounted inside *)
(* Route (router_gp.go serveHTTP, Mount; middleware/path_gp.go).           *)
THEOREM NestedDispatched ==
    ASSUME RoutePrefixes \subseteq {<<>>}
    PROVE  Spec => []NestedDispatch
<1>1. JourneyInv => NestedDispatch
  BY DEF JourneyInv
<1>. QED  BY <1>1, JourneysHold, PTL

(* A settled request that no route serves is answered by the nearest custom *)
(* 404 or 405 handler above the place where it ends, and by the default if *)
(* there is none (router_gp.go Mount, serveHTTP).                          *)
THEOREM NearestAnswered ==
    ASSUME RoutePrefixes \subseteq {<<>>}
    PROVE  Spec => []NearestMuxAnswers
<1>1. JourneyInv => NearestMuxAnswers
  BY DEF JourneyInv
<1>. QED  BY <1>1, JourneysHold, PTL

-----------------------------------------------------------------------------
(* The pattern of a mount binds one parameter, "*", after those before it. *)
LEMMA MountBinds ==
    ASSUME NEW b, IsText(b), IsExact(b), NEW path \in RequestPaths,
           Describes(b \o <<Rest>>, path), NEW params \in Seq(Binding)
    PROVE  LET next == MatchRoute(b \o <<Rest>>, path, params).params
           IN  /\ next \in Seq(Binding) /\ Len(params) \in Nat /\ Len(next) = Len(params) + 1
               /\ \A k \in 1..Len(params) : next[k] = params[k]
               /\ next[Len(params) + 1].name = Unnamed
<1> DEFINE text == b \o <<Rest>>
           n == Len(b)
           own == MatchRoute(text, path, <<>>).params
           next == MatchRoute(text, path, params).params
           scan == Scan(text, path, <<>>)
<1>1. /\ n \in Nat /\ Len(text) = n + 1 /\ text[n + 1] = Rest
      /\ \A k \in 1..n : text[k] = b[k]
      /\ text # <<>> /\ WellFormed(text) /\ IsWild(text)
  BY MountPattern
<1>2. path \in Seq(Word) \ {<<>>} /\ <<>> \in Seq(Binding)
  BY EmptySeq DEF RequestPaths
<1>3. \A k \in 1..n : text[k].kind = "static" /\ text[k].names = <<>>
  BY <1>1, LiteralIs
<1>4. Describes(text, path)
  OBVIOUS
<1> HIDE DEF text, n
<1>5. FixedLen(text) = n /\ n \in 0..FixedLen(text) /\ n + 1 \in 1..Len(text) /\ n \in 0..Len(text)
      /\ n + 1 - 1 = n
  BY <1>1 DEF FixedLen
<1>6. MatchRoute(text, path, params).ok /\ MatchRoute(text, path, <<>>).ok
  BY <1>1, <1>2, <1>4, MatchRouteDescribes
<1>7. next = params \o own /\ own \in Seq(Binding)
  BY <1>1, <1>2, <1>6, MatchRouteOnto
<1>8. scan[n].ok
  <2>1. n <= Len(path) /\ \A k \in 1..n : Stands(text, path, k)
    BY <1>1, <1>4, <1>5, DescribesStands
  <2>. QED  BY <1>1, <1>2, <1>5, <2>1, ScanFixed
<1>9. scan[n].params = <<>> /\ scan[n] \in Progress
  BY <1>1, <1>2, <1>3, <1>5, <1>8, ScanLiterals, ScanIn
<1>10. scan[n + 1] = MatchSegment(scan[n], Rest)
  <2>1. \A k \in 1..Len(text) : scan[k] = MatchSegment(scan[k - 1], text[k])
    BY <1>1, <1>2, ScanDef
  <2> HIDE DEF scan
  <2>. QED  BY <1>1, <1>5, <2>1
<1>11. own = scan[n + 1].params
  BY <1>1, <1>6 DEF MatchRoute
<1> HIDE DEF own, next, scan
<1>12. \E v : own = <<>> \o Bind(Rest.names, <<v>>) /\ Rest.names = <<Unnamed>> /\ v \in Seq(Word)
  <2> DEFINE v == IF scan[n].rest \in NoText THEN <<Blank>> ELSE scan[n].rest
  <2>1. Rest.kind = "wildcard" /\ Rest.names = <<Unnamed>>
    BY DEF Rest, Wildcard
  <2>2. own = <<>> \o Bind(Rest.names, <<v>>)
    BY <1>8, <1>9, <1>10, <1>11, <2>1, MatchSegmentWild
  <2>3. v \in Seq(Word)
    BY <1>9, BlankPath DEF Progress, RequestPaths
  <2>. QED  BY <2>1, <2>2, <2>3
<1>13. Len(own) = 1 /\ own[1].name = Unnamed
  <2>1. PICK v : own = <<>> \o Bind(<<Unnamed>>, <<v>>) /\ v \in Seq(Word)
    BY <1>12
  <2>2. Unnamed \in Word
    BY DEF Word
  <2> DEFINE names == <<Unnamed>>
             values == <<v>>
  <2>3. names \in Seq(Word) /\ Len(names) = 1 /\ names[1] = Unnamed /\ values[1] \in Seq(Word)
    BY <2>1, <2>2
  <2> HIDE DEF names, values
  <2>6. \A k \in 1..Len(names) : k = 1 /\ values[k] \in Seq(Word)
    BY <2>3
  <2>7. 1 \in 1..Len(names)
    BY <2>3
  <2>4. /\ Bind(names, values) \in Seq(Binding) /\ Len(Bind(names, values)) = 1
        /\ Bind(names, values)[1] = [name |-> names[1], value |-> values[1]]
    <3>1. names \in Seq(Word) /\ \A k \in 1..Len(names) : values[k] \in Seq(Word)
      BY <2>3, <2>6
    <3>2. /\ Bind(names, values) \in Seq(Binding)
          /\ Len(Bind(names, values)) = Len(names)
          /\ \A k \in 1..Len(names) :
                Bind(names, values)[k] = [name |-> names[k], value |-> values[k]]
      BY <3>1, BindType
    <3>. QED  BY <2>3, <2>7, <3>2
  <2>5. own = Bind(names, values)
    BY <2>1, <2>4, ConcatEmptySeq DEF names, values
  <2>. QED  BY <2>3, <2>4, <2>5
<1>14. next \in Seq(Binding)
  BY <1>1, <1>2, MatchRouteDescribes DEF next
<1>15. /\ Len(params) \in Nat /\ Len(next) = Len(params) + Len(own)
       /\ \A i \in 1..Len(params) : next[i] = params[i]
       /\ \A i \in 1..Len(own) : next[Len(params) + i] = own[i]
  BY <1>7, ConcatIs
<1>. QED  BY <1>13, <1>14, <1>15 DEF next, text

(* What the mounts above leave in a context: one empty "*" each.           *)
Hop == [name |-> Unnamed, value |-> <<Blank>>]

(* The prefixes spell what comes before the rest of the path, a trailing   *)
(* slash apart.                                                            *)
Spells(prefixes, rest, path) ==
    LET whole == PathOf(FlattenSeq(prefixes)) \o rest
    IN  whole = path \/ (whole = path \o <<Blank>> /\ rest = <<Blank>>)

(* The first parameters are those of the mounts.                           *)
Hops(prefixes, params) ==
    /\ prefixes \in Seq(MountPrefixes) /\ Len(prefixes) <= Len(params)
    /\ \A k \in 1..Len(prefixes) : params[k] = Hop

(* Mount's handler empties the parameter its pattern has bound.            *)
LEMMA ClearsLast ==
    ASSUME NEW params \in Seq(Binding), NEW n \in Nat, Len(params) = n + 1,
           params[n + 1].name = Unnamed
    PROVE  /\ Len(ClearWildcard(params)) = n + 1
           /\ \A k \in 1..n : ClearWildcard(params)[k] = params[k]
           /\ ClearWildcard(params)[n + 1] = Hop
<1> DEFINE i == n + 1
           new == [params EXCEPT ![i].value = <<Blank>>]
<1>1. params # <<>> /\ Last(params) = params[i] /\ i \in Nat /\ i \in 1..i
  BY EmptySeq DEF Last
<1>2. ClearWildcard(params) = new
  BY <1>1 DEF ClearWildcard
<1>3. DOMAIN params = 1..i /\ params = [k \in 1..i |-> params[k]] /\ params[i] \in Binding
  BY <1>1, LenProperties, ElementOfSeq
<1> HIDE DEF i
<1>4. new = [k \in 1..i |-> IF k = i THEN [params[i] EXCEPT !.value = <<Blank>>] ELSE params[k]]
  BY <1>1, <1>3
<1>5. [params[i] EXCEPT !.value = <<Blank>>] = Hop
  <2> DEFINE y == params[i]
  <2>1. y \in Binding /\ y.name = Unnamed
    BY <1>3 DEF i
  <2> HIDE DEF y
  <2>2. [y EXCEPT !.value = <<Blank>>] = Hop
    BY <2>1 DEF Binding, Hop
  <2>. QED  BY <2>2 DEF y
<1>6. ClearWildcard(params) \in Seq(Binding)
  BY ClearWildcardType
<1> HIDE DEF new
<1>7. DOMAIN new = 1..i /\ new[i] = Hop /\ \A k \in 1..i : k # i => new[k] = params[k]
  BY <1>1, <1>4, <1>5
<1>8. Len(new) = i
  BY <1>1, <1>2, <1>6, <1>7, LenProperties
<1>9. \A k \in 1..n : k \in 1..i /\ k # i
  BY DEF i
<1>. QED  BY <1>2, <1>7, <1>8, <1>9 DEF i

(* The prefixes of mounts, joined.                                         *)
LEMMA PrefixesJoined ==
    ASSUME NEW q \in Seq(MountPrefixes)
    PROVE  /\ q \in Seq(Seq(Literals))
           /\ FlattenSeq(q) \in Seq(Literals)
           /\ IsText(FlattenSeq(q)) /\ IsExact(FlattenSeq(q))
           /\ PathOf(FlattenSeq(q)) \in Seq(Word)
           /\ \A b \in MountPrefixes :
                 /\ FlattenSeq(Append(q, b)) = FlattenSeq(q) \o b
                 /\ PathOf(FlattenSeq(Append(q, b))) = PathOf(FlattenSeq(q)) \o PathOf(b)
                 /\ IsText(b) /\ IsExact(b) /\ PathOf(b) \in Seq(Word)
           /\ \A text : IsText(text) => FlattenSeq(Append(q, text)) = FlattenSeq(q) \o text
<1>1. \A b \in MountPrefixes : IsText(b) /\ IsExact(b) /\ b \in Seq(Literals)
  BY MountServeAssumption, LiteralTexts
<1>2. q \in Seq(Seq(Literals))
  BY <1>1, SeqMonotonic
<1>3. <<>> \in Seq(Literals)
  BY EmptySeq
<1>4. FlattenSeq(q) \in Seq(Literals)
  BY <1>2, <1>3, FlattenAppends
<1>5. /\ IsText(FlattenSeq(q)) /\ IsExact(FlattenSeq(q))
  BY <1>4, LiteralTexts
<1>6. PathOf(FlattenSeq(q)) \in Seq(Word)
  BY <1>5, LiteralIs
<1>7. ASSUME NEW b \in MountPrefixes
      PROVE  /\ FlattenSeq(Append(q, b)) = FlattenSeq(q) \o b
             /\ PathOf(FlattenSeq(Append(q, b))) = PathOf(FlattenSeq(q)) \o PathOf(b)
             /\ IsText(b) /\ IsExact(b) /\ PathOf(b) \in Seq(Word)
  <2>1. FlattenSeq(Append(q, b)) = FlattenSeq(q) \o b
    BY <1>1, <1>2, FlattenAppends
  <2>2. PathOf(FlattenSeq(q) \o b) = PathOf(FlattenSeq(q)) \o PathOf(b)
    BY <1>1, <1>4, PathOfJoined
  <2>. QED  BY <1>1, <2>1, <2>2, LiteralIs
<1>8. ASSUME NEW text, IsText(text)
      PROVE  FlattenSeq(Append(q, text)) = FlattenSeq(q) \o text
  <2> DEFINE S == Literals \cup Range(text)
  <2>1. Seq(Literals) \subseteq Seq(S) /\ text \in Seq(S)
    BY <1>8, SeqMonotonic DEF IsText
  <2>2. q \in Seq(Seq(S))
    BY <1>2, <2>1, SeqMonotonic
  <2> HIDE DEF S
  <2>. QED  BY <2>1, <2>2, FlattenAppends
<1>. QED  BY <1>1, <1>2, <1>4, <1>5, <1>6, <1>7, <1>8

(* A mounted mux looks up what the prefixes leave, its own included.       *)
LEMMA SpellsNext ==
    ASSUME NEW q \in Seq(MountPrefixes), NEW b \in MountPrefixes, NEW path \in RequestPaths,
           NEW rest \in RequestPaths, Describes(b \o <<Rest>>, rest), Spells(q, rest, path)
    PROVE  Spells(Append(q, b), Remaining(rest, b), path)
<1> DEFINE c == PathOf(FlattenSeq(q))
           d == PathOf(b)
           left == Remaining(rest, b)
<1>1. /\ PathOf(FlattenSeq(Append(q, b))) = c \o d /\ c \in Seq(Word) /\ d \in Seq(Word)
      /\ IsText(b) /\ IsExact(b)
  BY PrefixesJoined
<1>2. \/ d \o left = rest /\ (rest = <<Blank>> => left = <<Blank>>)
      \/ d = rest /\ rest # <<Blank>> /\ left = <<Blank>>
  BY <1>1, MountLeaves
<1>3. left \in Seq(Word)
  <2>1. Len(b) \in Nat
    BY <1>1, LiteralIs
  <2>. QED  BY <2>1, RemainingIs DEF RequestPaths
<1>4. c \o rest = path \/ (c \o rest = path \o <<Blank>> /\ rest = <<Blank>>)
  BY DEF Spells
<1> HIDE DEF c, d, left
<1>5. (c \o d) \o left = c \o (d \o left)
  BY <1>1, <1>3, ConcatAssociative
<1>6. \/ (c \o d) \o left = path
      \/ (c \o d) \o left = path \o <<Blank>> /\ left = <<Blank>>
  <2>1. CASE d \o left = rest /\ (rest = <<Blank>> => left = <<Blank>>)
    BY <1>4, <1>5, <2>1
  <2>2. CASE d = rest /\ rest # <<Blank>> /\ left = <<Blank>>
    BY <1>4, <2>2
  <2>. QED  BY <1>2, <2>1, <2>2
<1>. QED  BY <1>1, <1>6 DEF Spells, left

-----------------------------------------------------------------------------
(* The mux's context tells how the request came to it: its patterns are    *)
(* the prefixes of the mounts, with an empty "*" each, and spell what is   *)
(* no longer looked up.  A mount's handler finds its own pattern and       *)
(* parameter after those.                                                  *)
ContextInv ==
    request # Idle =>
        LET ctx == request.ctx
        IN  /\ request.phase = "serve" =>
                  /\ Hops(ctx.patterns, ctx.params) /\ Len(ctx.params) = Len(ctx.patterns)
                  /\ Spells(ctx.patterns, CurrentPath, request.path)
            /\ request.phase = "mount" =>
                  \E q \in Seq(MountPrefixes) :
                     /\ ctx.patterns = Append(q, request.handler.prefix \o <<Rest>>)
                     /\ Hops(q, ctx.params) /\ Len(ctx.params) = Len(q) + 1
                     /\ ctx.params[Len(q) + 1].name = Unnamed
                     /\ Spells(q, CurrentPath, request.path)
                     /\ Describes(request.handler.prefix \o <<Rest>>, CurrentPath)

(* The inductive invariant.                                                *)
SpanInv == TypeInv /\ ContextInv /\ ContextSpansTheMounts

(* How a request at a mux satisfies the invariant after a step.            *)
LEMMA SpansServing ==
    ASSUME request'.phase = "serve", NEW path, CurrentPath' = path,
           Hops(request'.ctx.patterns, request'.ctx.params),
           Len(request'.ctx.params) = Len(request'.ctx.patterns),
           Spells(request'.ctx.patterns, path, request'.path)
    PROVE  ContextInv'
<1>1. request'.phase # "mount"
  OBVIOUS
<1>. QED  BY <1>1 DEF ContextInv

(* Without a request, or without an answer, there is nothing to show.      *)
LEMMA NothingSpanned ==
    /\ request' = Idle => ContextInv'
    /\ reply'.kind # "route" => ContextSpansTheMounts'
    /\ UNCHANGED reply /\ ContextSpansTheMounts => ContextSpansTheMounts'
<1>1. request' = Idle => ContextInv'
  BY DEF ContextInv
<1>2. reply'.kind # "route" => ContextSpansTheMounts'
  BY DEF ContextSpansTheMounts
<1>3. UNCHANGED reply /\ ContextSpansTheMounts => ContextSpansTheMounts'
  BY DEF ContextSpansTheMounts
<1>. QED  BY <1>1, <1>2, <1>3

(* A request starts at the root, which no mount leads to.                  *)
LEMMA StartSpans ==
    ASSUME TypeInv, NEW method \in Methods, NEW path \in RequestPaths, NEW redirects \in Nat,
           Starts(method, path, redirects)
    PROVE  ContextInv'
<1>1. /\ request'.phase = "serve" /\ request'.path = path /\ request'.ctx = NewContext
      /\ NewContext.routePath = <<>> /\ NewContext.params = <<>> /\ NewContext.patterns = <<>>
  BY IncomingIs DEF Starts
<1>2. CurrentPath' = path
  BY <1>1 DEF CurrentPath, RoutedPath
<1>3. Spells(<<>>, path, path)
  <2>1. <<>> \in Seq(Literals) /\ DOMAIN <<>> = {}
    BY EmptySeq
  <2>2. PathOf(<<>>) = <<>>
    BY <2>1 DEF PathOf
  <2>3. <<>> \o path = path
    BY PathProperties, ConcatEmptySeq
  <2>. QED  BY <2>2, <2>3, FlattenNone DEF Spells
<1>4. Hops(<<>>, <<>>) /\ Len(<<>>) = 0
  <2> DEFINE none == <<>>
  <2>1. none \in Seq(MountPrefixes) /\ Len(none) = 0
    BY EmptySeq
  <2> HIDE DEF none
  <2>2. Hops(none, none) /\ Len(none) = 0
    BY <2>1 DEF Hops
  <2>. QED  BY <2>2 DEF none
<1>. QED  BY <1>1, <1>2, <1>3, <1>4, SpansServing

(* What the mounts left stays when the route path changes.                 *)
LEMMA MovedBindings ==
    ASSUME NEW ctx \in Contexts, NEW p, NEW q
    PROVE  Moved(ctx, p, q).params = ctx.params /\ Moved(ctx, p, q).patterns = ctx.patterns
BY DEF Contexts, Moved

(* RedirectSlashes and GetHead change neither what is looked up nor what   *)
(* the mounts left.                                                        *)
LEMMA PassSpans ==
    ASSUME Middlewares \cap {"CleanPath", "StripSlashes", "URLFormat"} = {},
           TypeInv, ContextInv, NEW middleware, NEW p \in RoutePaths, NEW q \in {Blank, "GET"},
           Passes(middleware, p, q)
    PROVE  ContextInv'
<1>1. Running /\ request.phase = "serve" /\ middleware = Head(request.todo) /\ request.todo # <<>>
  BY ReachesRuns DEF Passes
<1>2. /\ request.todo \in Seq(Middlewares) /\ request.ctx \in Contexts
      /\ request.path \in RequestPaths
  BY <1>1, FieldsOfRequest DEF Running
<1>3. middleware \in Middlewares
  BY <1>1, <1>2
<1>4. Effect(middleware, SnapshotOf(request.mux), request.ctx, request.method, request.path, p, q)
  BY DEF Passes
<1>5. middleware \in {"RedirectSlashes", "GetHead"}
  BY <1>3, <1>4 DEF Effect
<1>6. /\ request'.phase = "serve" /\ request'.path = request.path
      /\ request'.ctx = Moved(request.ctx, p, q)
  BY PassFields
<1>7. /\ request'.ctx.params = request.ctx.params /\ request'.ctx.patterns = request.ctx.patterns
      /\ request'.ctx.routePath = p
  <2> DEFINE next == Moved(request.ctx, p, q)
  <2>1. /\ next.params = request.ctx.params /\ next.patterns = request.ctx.patterns
        /\ next.routePath = p
    BY <1>2, MovedTo, MovedBindings
  <2>. QED  BY <1>6, <2>1
<1>8. CurrentPath' = CurrentPath
  <2>1. CASE middleware = "GetHead"
    BY <2>1, PassMethod
  <2>2. CASE middleware = "RedirectSlashes"
    <3>1. p = request.ctx.routePath
      BY <1>4, <2>2 DEF Effect, Same
    <3>. QED  BY <1>6, <1>7, <3>1 DEF CurrentPath, RoutedPath
  <2>. QED  BY <1>5, <2>1, <2>2
<1>9. /\ Hops(request.ctx.patterns, request.ctx.params)
      /\ Len(request.ctx.params) = Len(request.ctx.patterns)
      /\ Spells(request.ctx.patterns, CurrentPath, request.path)
  BY <1>1 DEF ContextInv, Running
<1>. QED  BY <1>6, <1>7, <1>8, <1>9, SpansServing

(* The mux that mounts adds its pattern and parameter to those above.      *)
LEMMA EnterSpans ==
    ASSUME RoutePrefixes \subseteq {<<>>}, TypeInv, ContextInv, EnterMount
    PROVE  ContextInv'
<1> DEFINE ctx == request.ctx
           q == ctx.patterns
           cur == CurrentPath
<1>1. /\ Running /\ request.phase = "serve" /\ Entered
      /\ \E a \in RoutePrefixes, b \in MountPrefixes, child \in Muxes : Enters(a, b, child)
  BY EnterIs
<1>2. PICK a \in RoutePrefixes, b \in MountPrefixes, child \in Muxes : Enters(a, b, child)
  BY <1>1
<1>3. /\ ctx \in Contexts /\ ctx.params \in Seq(Binding) /\ request.path \in RequestPaths
      /\ cur \in RequestPaths /\ request.mux \in Muxes
  BY <1>1, FieldsOfRequest, FieldsOfContext, CurrentPathType DEF Running, CurrentPath
<1>4. IsText(b) /\ IsExact(b) /\ a \o b = b
  <2>1. a = <<>> /\ IsText(b) /\ IsExact(b)
    BY MountServeAssumption
  <2>. QED  BY <2>1, ConcatEmptySeq DEF IsText
<1>5. /\ Outcome.pattern = b \o <<Rest>> /\ Outcome.handler = MountHandler(child, b)
      /\ Outcome.params = MatchRoute(b \o <<Rest>>, cur, ctx.params).params
  BY <1>2, <1>4 DEF Enters
<1>6. Describes(b \o <<Rest>>, cur)
  <2> DEFINE routes == tables[request.mux].routes
             w == Winner(routes, CurrentMethod, cur)
  <2>1. Serves(routes[w], CurrentMethod, cur) /\ Outcome.pattern = routes[w].pattern
    BY <1>2 DEF Enters, Routed
  <2>2. Describes(Segments(b \o <<Rest>>), cur)
    BY <1>5, <2>1 DEF Serves, SegmentsOf
  <2>. QED  BY <1>4, <2>2, MountPattern
<1>7. /\ Hops(q, ctx.params) /\ Len(ctx.params) = Len(q) /\ Spells(q, cur, request.path)
  BY <1>1 DEF ContextInv, Running
<1>8. /\ request'.phase = "mount" /\ request'.path = request.path
      /\ request'.handler.prefix = b
      /\ request'.ctx.patterns = Append(q, b \o <<Rest>>)
      /\ request'.ctx.params = MatchRoute(b \o <<Rest>>, cur, ctx.params).params
      /\ request'.ctx.routePath = ctx.routePath
  BY <1>1, <1>5, MountHandlerIs DEF Entered
<1>9. CurrentPath' = cur
  BY <1>8 DEF CurrentPath, RoutedPath
<1> DEFINE next == request'.ctx.params
<1>10. /\ next \in Seq(Binding) /\ Len(next) = Len(ctx.params) + 1 /\ Len(ctx.params) \in Nat
       /\ \A k \in 1..Len(ctx.params) : next[k] = ctx.params[k]
       /\ next[Len(ctx.params) + 1].name = Unnamed
  <2> DEFINE bound == MatchRoute(b \o <<Rest>>, cur, ctx.params).params
  <2>1. /\ bound \in Seq(Binding) /\ Len(ctx.params) \in Nat /\ Len(bound) = Len(ctx.params) + 1
        /\ \A k \in 1..Len(ctx.params) : bound[k] = ctx.params[k]
        /\ bound[Len(ctx.params) + 1].name = Unnamed
    BY <1>3, <1>4, <1>6, MountBinds
  <2> HIDE DEF cur
  <2>2. next = bound
    BY <1>8
  <2>. QED  BY <2>1, <2>2
<1> HIDE DEF cur
<1>11. /\ q \in Seq(MountPrefixes) /\ Hops(q, next) /\ Len(next) = Len(q) + 1
       /\ next[Len(q) + 1].name = Unnamed
  BY <1>7, <1>10 DEF Hops
<1>. QED  BY <1>6, <1>7, <1>8, <1>9, <1>11 DEF ContextInv

(* Mount's handler puts its prefix in place of the pattern, and empties    *)
(* the parameter.                                                          *)
LEMMA HandOverSpans ==
    ASSUME TypeInv, ContextInv, HandOver
    PROVE  ContextInv'
<1> DEFINE ctx == request.ctx
           b == request.handler.prefix
           cur == CurrentPath
           left == Remaining(cur, b)
<1>1. Running /\ request.phase = "mount" /\ b \in MountPrefixes /\ HandedOver
  BY HandOverIs
<1>2. /\ ctx.params \in Seq(Binding) /\ request.path \in RequestPaths /\ cur \in RequestPaths
  BY <1>1, FieldsOfRequest, FieldsOfContext, CurrentPathType DEF Running, CurrentPath
<1>3. PICK q \in Seq(MountPrefixes) :
         /\ ctx.patterns = Append(q, b \o <<Rest>>)
         /\ Hops(q, ctx.params) /\ Len(ctx.params) = Len(q) + 1
         /\ ctx.params[Len(q) + 1].name = Unnamed
         /\ Spells(q, cur, request.path)
         /\ Describes(b \o <<Rest>>, cur)
  BY <1>1 DEF ContextInv, Running
<1>4. /\ request'.phase = "serve" /\ request'.path = request.path
      /\ request'.ctx.params = ClearWildcard(ctx.params)
      /\ request'.ctx.patterns = [ctx.patterns EXCEPT ![Len(ctx.patterns)] = b]
      /\ request'.ctx.routePath = left /\ request'.ctx.routePath # <<>>
  BY <1>1 DEF HandedOver
<1>5. CurrentPath' = left
  BY <1>4 DEF CurrentPath, RoutedPath
<1>6. Spells(Append(q, b), left, request.path)
  BY <1>1, <1>2, <1>3, SpellsNext
<1>7. Len(q) \in Nat
  OBVIOUS
<1>8. request'.ctx.patterns = Append(q, b)
  <2> DEFINE x == b \o <<Rest>>
             S == MountPrefixes \cup {x}
             n == Len(q)
  <2>1. q \in Seq(S) /\ x \in S /\ b \in S
    BY <1>1, SeqMonotonic
  <2> HIDE DEF x, S
  <2> DEFINE was == Append(q, x)
             new == [was EXCEPT ![Len(was)] = b]
             want == Append(q, b)
  <2>2. /\ was \in Seq(S) /\ Len(was) = n + 1 /\ was # <<>>
        /\ \A k \in 1..n : was[k] = q[k]
    BY <2>1, AppendIs
  <2>3. /\ want \in Seq(S) /\ Len(want) = n + 1 /\ want[n + 1] = b
        /\ \A k \in 1..n : want[k] = q[k]
    BY <2>1, AppendProperties
  <2> HIDE DEF was, want
  <2>4. new \in Seq(S) /\ DOMAIN was = 1..(n + 1)
    BY <2>1, <2>2, ReplaceLast
  <2>5. new = [k \in 1..(n + 1) |-> IF k = n + 1 THEN b ELSE was[k]]
    BY <2>2, <2>4
  <2> HIDE DEF new
  <2>6. /\ DOMAIN new = 1..(n + 1)
        /\ \A k \in 1..(n + 1) : new[k] = IF k = n + 1 THEN b ELSE was[k]
    BY <2>5
  <2>7. Len(new) = n + 1
    BY <1>7, <2>4, <2>6
  <2>8. \A k \in 1..(n + 1) : new[k] = want[k]
    BY <1>7, <2>2, <2>3, <2>6
  <2>9. new = want
    BY <2>3, <2>4, <2>7, <2>8, SeqEqual
  <2>. QED  BY <1>3, <1>4, <2>9 DEF new, want, was, x
<1>9. /\ Len(request'.ctx.params) = Len(q) + 1
      /\ \A k \in 1..Len(q) : request'.ctx.params[k] = ctx.params[k]
      /\ request'.ctx.params[Len(q) + 1] = Hop
  BY <1>2, <1>3, <1>4, <1>7, ClearsLast
<1>10. Append(q, b) \in Seq(MountPrefixes) /\ Len(Append(q, b)) = Len(q) + 1
  BY <1>1
<1>11. Hops(Append(q, b), request'.ctx.params)
  <2>1. \A k \in 1..Len(q) : ctx.params[k] = Hop
    BY <1>3 DEF Hops
  <2>2. \A k \in 1..(Len(q) + 1) : k \in 1..Len(q) \/ k = Len(q) + 1
    BY <1>7
  <2>. QED  BY <1>7, <1>9, <1>10, <2>1, <2>2 DEF Hops
<1> HIDE DEF left
<1>. QED  BY <1>4, <1>5, <1>6, <1>8, <1>9, <1>10, <1>11, SpansServing

(* What a route that is found tells of its pattern, with the parameters    *)
(* that were bound before.                                                 *)
LEMMA RoutedSpans ==
    ASSUME NEW p, IsText(p), Parses(p), NEW q \in Seq(MountPrefixes),
           NEW before \in Seq(Binding), Len(before) = Len(q), Hops(q, before),
           NEW rest \in RequestPaths, NEW path \in RequestPaths, Spells(q, rest, path),
           Describes(Segments(p), rest), NEW params,
           params = IF IsExact(p) THEN before ELSE MatchRoute(Segments(p), rest, before).params
    PROVE  LET joined == Segments(FlattenSeq(Append(q, p)))
               own    == SubSeq(params, Len(q) + 1, Len(params))
           IN  /\ \A k \in 1..Len(q) : params[k] = Hop
               /\ \E whole \in {path, path \o <<Blank>>} :
                     Describes(joined, whole) /\ Rebuilds(joined, own, whole)
<1> DEFINE P == FlattenSeq(q)
           whole == PathOf(P) \o rest
           own == IF IsExact(p) THEN <<>> ELSE MatchRoute(Segments(p), rest, <<>>).params
           joined == Segments(FlattenSeq(Append(q, p)))
<1>1. /\ IsText(P) /\ IsExact(P) /\ FlattenSeq(Append(q, p)) = P \o p
  BY PrefixesJoined
<1>2. rest \in Seq(Word) \ {<<>>} /\ <<>> \in Seq(Binding)
  BY EmptySeq DEF RequestPaths
<1>3. whole \in {path, path \o <<Blank>>}
  BY DEF Spells
<1>4. Describes(joined, whole) /\ Rebuilds(joined, own, whole)
  <2> HIDE DEF P
  <2>. QED  BY <1>1, <1>2, SpansBehind
<1>5. params = before \o own /\ own \in Seq(Binding)
  <2>1. CASE IsExact(p)
    BY <1>2, <2>1, ConcatEmptySeq
  <2>2. CASE ~IsExact(p)
    <3>1. WellFormed(Segments(p))
      BY ParsedIsWellFormed
    <3>2. MatchRoute(Segments(p), rest, before).ok
      BY <1>2, <3>1, MatchRouteDescribes
    <3>. QED  BY <1>2, <2>2, <3>1, <3>2, MatchRouteOnto
  <2>. QED  BY <2>1, <2>2
<1> HIDE DEF own, whole, joined, P
<1>6. /\ params \in Seq(Binding) /\ Len(params) = Len(q) + Len(own)
      /\ Len(q) \in Nat /\ Len(own) \in Nat
      /\ \A k \in 1..Len(q) : params[k] = before[k]
      /\ \A k \in 1..Len(own) : params[Len(q) + k] = own[k]
  <2>1. before \o own \in Seq(Binding)
    BY <1>5, ConcatProperties
  <2>2. /\ Len(before \o own) = Len(before) + Len(own)
        /\ Len(before) \in Nat /\ Len(own) \in Nat
        /\ \A i \in 1..Len(before) : (before \o own)[i] = before[i]
        /\ \A i \in 1..Len(own) : (before \o own)[Len(before) + i] = own[i]
    <3> DEFINE S == Binding
    <3>1. before \in Seq(S) /\ own \in Seq(S)
      BY <1>5
    <3> HIDE DEF S
    <3>2. /\ Len(before \o own) = Len(before) + Len(own)
          /\ Len(before) \in Nat /\ Len(own) \in Nat
      BY <3>1, ConcatProperties, LenProperties
    <3>3. \A i \in 1..Len(before) : (before \o own)[i] = before[i]
      BY <3>1, ConcatIs
    <3>4. \A i \in 1..Len(own) : (before \o own)[Len(before) + i] = own[i]
      BY <3>1, ConcatIs
    <3>. QED  BY <3>2, <3>3, <3>4
  <2>. QED  BY <1>5, <2>1, <2>2
<1>7. SubSeq(params, Len(q) + 1, Len(params)) = own
  <2>1. Len(q) + Len(own) <= Len(params)
    BY <1>6
  <2>2. SubSeq(params, Len(q) + 1, Len(q) + Len(own)) = own
    BY <1>5, <1>6, <2>1, SubSeqIs
  <2>. QED  BY <1>6, <2>2
<1>8. \A k \in 1..Len(q) : params[k] = Hop
  BY <1>6 DEF Hops
<1>. QED  BY <1>3, <1>4, <1>7, <1>8 DEF joined

(* A mux answers with the route it found.                                  *)
LEMMA AnswerSpans ==
    ASSUME TypeInv, ContextInv, Answer
    PROVE  ContextSpansTheMounts'
<1> DEFINE ctx == request.ctx
           q == ctx.patterns
           cur == CurrentPath
           m == request.mux
           routes == tables[m].routes
           w == Winner(routes, CurrentMethod, cur)
           p == routes[w].pattern
           path == request.path
<1>1. Running /\ request.phase = "serve" /\ AnsweredBy(Outcome) /\ cur \in RequestPaths
  BY AnswerStep
<1>2. /\ ctx \in Contexts /\ ctx.params \in Seq(Binding) /\ path \in RequestPaths /\ m \in Muxes
  BY <1>1, FieldsOfRequest, FieldsOfContext DEF Running
<1>3. CASE Outcome.kind # "route"
  BY <1>1, <1>3, NothingSpanned DEF AnsweredBy
<1>4. CASE Outcome.kind = "route"
  <2>1. Routed(Outcome, routes, ctx, CurrentMethod, cur)
    BY <1>1, <1>4, OutcomeIs DEF Unrouted
  <2>2. /\ w \in 1..Len(routes) /\ Outcome.pattern = p /\ Describes(Segments(p), cur)
        /\ Outcome.params = IF IsExact(p) THEN ctx.params
                            ELSE MatchRoute(Segments(p), cur, ctx.params).params
    BY <2>1 DEF Routed, Serves, SegmentsOf
  <2>3. IsText(p) /\ Parses(p)
    <3>1. routes \in Seq(RoutesOf(m))
      BY <1>2, FieldsOfTable DEF TypeInv, TablesOK
    <3>2. routes[w] \in RoutesOf(m)
      BY <2>2, <3>1, ElementOfSeq
    <3>. QED  BY <1>2, <3>2, RouteIs
  <2>4. /\ Hops(q, ctx.params) /\ Len(ctx.params) = Len(q) /\ Spells(q, cur, path)
        /\ q \in Seq(MountPrefixes)
    BY <1>1 DEF ContextInv, Running, Hops
  <2> DEFINE before == ctx.params
             after == Outcome.params
  <2>5. /\ before \in Seq(Binding) /\ Len(before) = Len(q) /\ Hops(q, before)
        /\ q \in Seq(MountPrefixes) /\ path \in RequestPaths /\ cur \in RequestPaths
        /\ Spells(q, cur, path) /\ Describes(Segments(p), cur)
        /\ after = IF IsExact(p) THEN before ELSE MatchRoute(Segments(p), cur, before).params
    BY <1>1, <1>2, <2>2, <2>4
  <2> HIDE DEF cur, p, q, path, before, after
  <2>6. LET joined == Segments(FlattenSeq(Append(q, p)))
            own    == SubSeq(after, Len(q) + 1, Len(after))
        IN  /\ \A k \in 1..Len(q) : after[k] = Hop
            /\ \E whole \in {path, path \o <<Blank>>} :
                  Describes(joined, whole) /\ Rebuilds(joined, own, whole)
    BY <2>3, <2>5, RoutedSpans
  <2>7. /\ reply'.patterns = Append(q, p) /\ reply'.params = after
        /\ reply'.path = path
    BY <1>1, <1>4, <2>2 DEF AnsweredBy, q, path, after
  <2>8. Len(Append(q, p)) - 1 = Len(q)
    <3> DEFINE S == MountPrefixes \cup {p}
    <3>1. q \in Seq(S) /\ p \in S
      BY <2>5, SeqMonotonic
    <3> HIDE DEF S
    <3>2. Len(Append(q, p)) = Len(q) + 1 /\ Len(q) \in Nat
      BY <3>1, AppendIs
    <3>. QED  BY <3>2
  <2>. QED  BY <2>6, <2>7, <2>8 DEF ContextSpansTheMounts, Hop
<1>. QED  BY <1>3, <1>4

(* The initial state satisfies the invariant.                              *)
LEMMA InitSpans == Init => SpanInv
<1>1. SUFFICES ASSUME Init PROVE SpanInv
  OBVIOUS
<1>2. TypeInv
  BY <1>1, InitTypes
<1>3. request = Idle /\ reply.kind # "route"
  BY <1>1 DEF Init, NoReply
<1>. QED  BY <1>2, <1>3 DEF SpanInv, ContextInv, ContextSpansTheMounts

(* Every step keeps the invariant.                                         *)
LEMMA NextSpans ==
    ASSUME RoutePrefixes \subseteq {<<>>},
           Middlewares \cap {"CleanPath", "StripSlashes", "URLFormat"} = {},
           SpanInv, [Next]_vars
    PROVE  SpanInv'
<1>1. TypeInv /\ ContextInv /\ ContextSpansTheMounts
  BY DEF SpanInv
<1>2. TypeInv'
  BY <1>1, NextTypes
<1>3. NoReply.kind # "route"
  BY DEF NoReply
<1>4. ASSUME NEW m \in Muxes, Configures(m) PROVE ContextInv' /\ ContextSpansTheMounts'
  BY <1>1, <1>3, <1>4, ConfiguresIs, NothingSpanned
<1>5. ASSUME NEW method \in Methods, NEW path \in RequestPaths, NEW redirects \in Nat,
             Starts(method, path, redirects)
      PROVE  ContextInv' /\ ContextSpansTheMounts'
  <2>1. reply' = NoReply
    BY <1>5 DEF Starts
  <2>. QED  BY <1>1, <1>3, <1>5, <2>1, StartSpans, NothingSpanned
<1>6. ASSUME Follow PROVE ContextInv' /\ ContextSpansTheMounts'
  <2>1. /\ reply.method \in Methods /\ reply.target \in RequestPaths /\ reply.redirects + 1 \in Nat
        /\ Starts(reply.method, reply.target, reply.redirects + 1)
    BY <1>1, <1>6, FollowStarts
  <2>. QED  BY <1>5, <2>1
<1>7. ASSUME RedirectSlashes PROVE ContextInv' /\ ContextSpansTheMounts'
  <2>1. request' = Idle /\ reply'.kind # "route"
    BY <1>1, <1>7, RedirectIs
  <2>. QED  BY <2>1, NothingSpanned
<1>8. ASSUME NEW middleware, NEW p \in RoutePaths, NEW q \in {Blank, "GET"},
             Passes(middleware, p, q)
      PROVE  ContextInv' /\ ContextSpansTheMounts'
  <2>1. UNCHANGED reply
    BY <1>8 DEF Passes
  <2>. QED  BY <1>1, <1>8, <2>1, PassSpans, NothingSpanned
<1>9. ASSUME EnterMount PROVE ContextInv' /\ ContextSpansTheMounts'
  <2>1. UNCHANGED reply
    BY <1>9 DEF EnterMount
  <2>. QED  BY <1>1, <1>9, <2>1, EnterSpans, NothingSpanned
<1>10. ASSUME HandOver PROVE ContextInv' /\ ContextSpansTheMounts'
  <2>1. UNCHANGED reply
    BY <1>10 DEF HandOver
  <2>. QED  BY <1>1, <1>10, <2>1, HandOverSpans, NothingSpanned
<1>11. ASSUME Answer PROVE ContextInv' /\ ContextSpansTheMounts'
  <2>1. request' = Idle
    BY <1>1, <1>11, AnswerStep
  <2>. QED  BY <1>1, <1>11, <2>1, AnswerSpans, NothingSpanned
<1>12. ASSUME UNCHANGED vars PROVE ContextInv' /\ ContextSpansTheMounts'
  <2>1. UNCHANGED <<request, reply>>
    BY <1>12 DEF vars
  <2>2. ContextInv'
    BY <1>1, <2>1 DEF ContextInv, CurrentPath
  <2>. QED  BY <1>1, <2>1, <2>2, NothingSpanned
<1>13. 0 \in Nat
  OBVIOUS
<1>14. ContextInv' /\ ContextSpansTheMounts'
  BY <1>1, <1>4, <1>5, <1>6, <1>7, <1>8, <1>9, <1>10, <1>11, <1>12, <1>13, StepIs
<1>. QED  BY <1>2, <1>14 DEF SpanInv

(* The patterns and parameters in the context span the mounts in every     *)
(* behaviour.                                                              *)
THEOREM SpansHold ==
    ASSUME RoutePrefixes \subseteq {<<>>},
           Middlewares \cap {"CleanPath", "StripSlashes", "URLFormat"} = {}
    PROVE  Spec => []SpanInv
<1>1. Init => SpanInv
  BY InitSpans
<1>2. SpanInv /\ [Next]_vars => SpanInv'
  BY NextSpans
<1>. QED  BY <1>1, <1>2, PTL DEF Spec

(* Through any tree of mounted muxes a routed request's patterns, joined,  *)
(* describe the path it asked for, and its parameters are an empty "*" for *)
(* every mount and then those of the joined pattern: where no mux is       *)
(* mounted inside Route, and no middleware looks up another path than the  *)
(* one that was asked for (router_gp.go serveHTTP, Mount).                 *)
THEOREM ContextSpans ==
    ASSUME RoutePrefixes \subseteq {<<>>},
           Middlewares \cap {"CleanPath", "StripSlashes", "URLFormat"} = {}
    PROVE  Spec => []ContextSpansTheMounts
<1>1. SpanInv => ContextSpansTheMounts
  BY DEF SpanInv
<1>. QED  BY <1>1, SpansHold, PTL
=============================================================================

