-------------------------- MODULE RouteTableProofs --------------------------
(***************************************************************************)
(* How a route pattern is matched, for any pattern and any path: the loop  *)
(* over its segments finds what the reference meaning of the pattern says, *)
(* and binds what gives the path back.                                     *)
(*                                                                         *)
(* How registrations are compiled and looked up, for any number of them:   *)
(* the exact table, the sorted dynamic lists and the replacement of        *)
(* earlier routes together find the registration that Precedence ranks     *)
(* first.                                                                  *)
(***************************************************************************)
EXTENDS Precedence, RoutePattern, FiniteSetTheorems, SequenceTheorems, TLAPS

-----------------------------------------------------------------------------
(* Patterns (RoutePattern)                                                 *)

(* A nonempty set of naturals has a least element: of the intervals from 0 *)
(* to its members, one contains no other.                                  *)
LEMMA LeastNatural ==
    ASSUME NEW T, T \subseteq Nat, T # {}
    PROVE  \E n \in T : \A k \in T : n <= k
<1> DEFINE U == {0..n : n \in T}
           R == StrictSubsetOrdering(Nat)
<1>1. IsWellFoundedOn(R, FiniteSubsetsOf(Nat))
  BY FS_StrictSubsetOrderingWellFounded
<1>2. U \subseteq FiniteSubsetsOf(Nat) /\ U # {}
  <2>1. \A n \in T : IsFiniteSet(0..n)
    BY FS_Interval
  <2>2. \A n \in T : 0..n \in SUBSET Nat
    OBVIOUS
  <2>. QED  BY <2>1, <2>2 DEF FiniteSubsetsOf
<1>3. \E x \in U : \A y \in U : ~ (<<y, x>> \in R)
  <2> HIDE DEF U, R
  <2>. QED  BY <1>1, <1>2, WFMin
<1>4. PICK n \in T : \A k \in T : ~ (<<0..k, 0..n>> \in R)
  BY <1>3
<1>5. ASSUME NEW k \in T, k < n
      PROVE  FALSE
  <2>1. n \in 0..n /\ n \notin 0..k
    BY <1>5
  <2>2. 0..k \subseteq 0..n /\ 0..k # 0..n /\ 0..k \in SUBSET Nat /\ 0..n \in SUBSET Nat
    BY <1>5, <2>1
  <2>. QED  BY <2>2, <1>4 DEF StrictSubsetOrdering
<1>. QED  BY <1>5

(* What holds of 0, and of k + 1 when it holds of k < n, holds up to n.    *)
LEMMA Induction ==
    ASSUME NEW n \in Nat, NEW Good, 0 \in Good,
           \A k \in 0..(n - 1) : k \in Good => k + 1 \in Good
    PROVE  0..n \subseteq Good
<1> SUFFICES ASSUME ~(0..n \subseteq Good) PROVE FALSE
  OBVIOUS
<1> DEFINE T == (0..n) \ Good
<1>1. PICK m \in T : \A k \in T : m <= k
  <2>1. T \subseteq Nat /\ T # {}
    OBVIOUS
  <2> HIDE DEF T
  <2>. QED  BY <2>1, LeastNatural
<1>2. m # 0 /\ m - 1 \in 0..(n - 1) /\ m - 1 \notin T
  BY <1>1
<1>. QED  BY <1>2

(* f is what n steps make of base: step[k] is the function applied k-th.   *)
Follows(f, n, base, step) ==
    f[0] = base /\ \A k \in 1..n : f[k] = step[k][f[k - 1]]

(* What follows it as long as it stays in V.                               *)
FollowsIn(f, n, V, base, step) ==
    f[0] = base /\ \A k \in 1..n : f[k - 1] \in V => f[k] = step[k][f[k - 1]]

(* A recursive definition over 0..n has a solution.                        *)
LEMMA Recursion ==
    ASSUME NEW n \in Nat, NEW V, NEW base \in V, NEW step \in [1..n -> [V -> V]]
    PROVE  \E f \in [0..n -> V] : Follows(f, n, base, step)
<1> DEFINE Good == {m \in 0..n : \E f \in [0..m -> V] : Follows(f, m, base, step)}
<1>1. 0 \in Good
  <2>1. [k \in 0..0 |-> base] \in [0..0 -> V] /\ Follows([k \in 0..0 |-> base], 0, base, step)
    BY DEF Follows
  <2>. QED  BY <2>1
<1>2. ASSUME NEW m \in 0..(n - 1), m \in Good
      PROVE  m + 1 \in Good
  <2>1. PICK f \in [0..m -> V] : Follows(f, m, base, step)
    BY <1>2
  <2> DEFINE next == step[m + 1][f[m]]
             g == [k \in 0..(m + 1) |-> IF k = m + 1 THEN next ELSE f[k]]
  <2> HIDE DEF Good
  <2>2. next \in V
    <3>1. m + 1 \in 1..n /\ f[m] \in V
      OBVIOUS
    <3>. QED  BY <3>1
  <2> HIDE DEF next
  <2>3. m \in Nat /\ \A k \in 0..m : k # m + 1 /\ k \in 0..(m + 1) /\ f[k] \in V
    OBVIOUS
  <2>4. g[m + 1] = next /\ \A k \in 0..m : g[k] = f[k]
    BY <2>3
  <2>5. g \in [0..(m + 1) -> V]
    <3>1. \A k \in 0..(m + 1) : k = m + 1 \/ k \in 0..m
      BY <2>3
    <3>. QED  BY <2>2, <2>3, <3>1
  <2> HIDE DEF g
  <2>6. ASSUME NEW k \in 1..(m + 1)
        PROVE  g[k] = step[k][g[k - 1]]
    <3>1. CASE k = m + 1
      BY <2>3, <2>4, <3>1 DEF next
    <3>2. CASE k # m + 1
      <4>1. k \in 1..m /\ k \in 0..m /\ k - 1 \in 0..m
        BY <2>3, <3>2
      <4>. QED  BY <2>1, <2>4, <4>1 DEF Follows
    <3>. QED  BY <3>1, <3>2
  <2>7. Follows(g, m + 1, base, step)
    <3>1. g[0] = base
      BY <2>1, <2>3, <2>4 DEF Follows
    <3>. QED  BY <2>6, <3>1 DEF Follows
  <2>. QED  BY <2>5, <2>7 DEF Good
<1>3. 0..n \subseteq Good
  <2> HIDE DEF Good
  <2>. QED  BY <1>1, <1>2, Induction
<1>. QED  BY <1>3

(* Its solution is the only one: a definition by CHOOSE is that one.       *)
LEMMA RecursionUnique ==
    ASSUME NEW n \in Nat, NEW V, NEW base \in V, NEW step \in [1..n -> [V -> V]],
           NEW f, NEW g \in [0..n -> V], f = [k \in 0..n |-> f[k]],
           FollowsIn(f, n, V, base, step), Follows(g, n, base, step)
    PROVE  f = g
<1> DEFINE Good == {m \in 0..n : f[m] = g[m]}
<1>1. 0 \in Good
  BY DEF Follows, FollowsIn
<1>2. ASSUME NEW m \in 0..(n - 1), m \in Good
      PROVE  m + 1 \in Good
  <2>1. m + 1 \in 1..n /\ (m + 1) - 1 = m /\ m + 1 \in 0..n /\ f[m] = g[m] /\ g[m] \in V
    BY <1>2
  <2>2. f[m + 1] = step[m + 1][f[m]]
    BY <2>1 DEF FollowsIn
  <2>3. g[m + 1] = step[m + 1][g[m]]
    BY <2>1 DEF Follows
  <2>. QED  BY <2>1, <2>2, <2>3
<1>3. 0..n \subseteq Good
  <2> HIDE DEF Good
  <2>. QED  BY <1>1, <1>2, Induction
<1>. QED  BY <1>3

-----------------------------------------------------------------------------

(* A parameter bound in the route context.                                 *)
Binding == [name : Word, value : Seq(Word)]

(* What parsePattern returns without an error: a wildcard comes last.      *)
WellFormed(segments) ==
    /\ segments \in Seq(Range(segments))
    /\ \A k \in DOMAIN segments :
          /\ IsSegment(segments[k])
          /\ segments[k].kind # "malformed"
          /\ segments[k].kind = "wildcard" => k = Len(segments)

(* A text that parses has well-formed segments.                            *)
LEMMA ParsedIsWellFormed ==
    ASSUME NEW text, IsText(text), Parses(text)
    PROVE  WellFormed(Segments(text))
<1>1. CASE text = RootText
  <2>1. <<>> \in Seq(Range(<<>>))
    BY EmptySeq
  <2>. QED  BY <1>1, <2>1 DEF Segments, WellFormed
<1>2. CASE text # RootText
  BY <1>2 DEF Segments, WellFormed, IsText, Parses
<1>. QED  BY <1>1, <1>2

(* Well-formed segments are a sequence.                                    *)
LEMMA WellFormedLen ==
    ASSUME NEW segments, WellFormed(segments)
    PROVE  Len(segments) \in Nat /\ DOMAIN segments = 1..Len(segments)
BY LenProperties DEF WellFormed

(* A sequence of one element.                                              *)
LEMMA Singleton ==
    ASSUME NEW S, NEW x \in S
    PROVE  <<x>> \in Seq(S) /\ Len(<<x>>) = 1 /\ <<x>>[1] = x
OBVIOUS

(* A sequence is <<x>> when its length is one and its first element x.     *)
LEMMA IsSingleton ==
    ASSUME NEW S, NEW x \in S, NEW seq \in Seq(S)
    PROVE  seq = <<x>> <=> Len(seq) = 1 /\ seq[1] = x
<1>1. <<x>> \in Seq(S) /\ Len(<<x>>) = 1 /\ <<x>>[1] = x
  BY Singleton
<1>2. ASSUME Len(seq) = 1, seq[1] = x PROVE seq = <<x>>
  <2>1. \A i \in 1..Len(seq) : seq[i] = <<x>>[i]
    BY <1>1, <1>2
  <2>. QED  BY <1>1, <1>2, <2>1, SeqEqual
<1>. QED  BY <1>1, <1>2

(* The names of a segment are a sequence of words.                         *)
LEMMA SegmentNames ==
    ASSUME NEW s, IsSegment(s)
    PROVE  s.names \in Seq(Word)
<1>1. \A n \in Word : <<n>> \in Seq(Word)
  BY Singleton
<1>2. <<>> \in Seq(Word)
  BY EmptySeq
<1>3. CASE s.kind = "static" /\ s = Static(s.literal)
  <2> DEFINE l == s.literal
  <2>1. Static(l).names = <<>>
    BY DEF Static
  <2>. QED  BY <1>2, <1>3, <2>1
<1>4. CASE s = Parameter(s.names[1]) /\ s.names[1] \in Word
  <2> DEFINE n == s.names[1]
  <2>1. Parameter(n).names = <<n>>
    BY DEF Parameter
  <2>. QED  BY <1>1, <1>4, <2>1
<1>5. CASE s = Wildcard(s.names[1]) /\ s.names[1] \in Word
  <2> DEFINE n == s.names[1]
  <2>1. Wildcard(n).names = <<n>>
    BY DEF Wildcard
  <2>. QED  BY <1>1, <1>5, <2>1
<1>6. CASE s = Malformed
  BY <1>2, <1>6 DEF Malformed
<1>. QED  BY <1>3, <1>4, <1>5, <1>6 DEF IsSegment

(* The names of the first k segments, told by its recursion.               *)
LEMMA NamesUpToDef ==
    ASSUME NEW segments, WellFormed(segments)
    PROVE  /\ NamesUpTo(segments) \in [0..Len(segments) -> Seq(Word)]
           /\ NamesUpTo(segments)[0] = <<>>
           /\ \A k \in 1..Len(segments) :
                 NamesUpTo(segments)[k] = NamesUpTo(segments)[k - 1] \o segments[k].names
<1> DEFINE n == Len(segments)
           V == Seq(Word)
           step == [k \in 1..n |-> [v \in V |-> v \o segments[k].names]]
           Is(f) == f = [k \in 0..n |-> IF k = 0 THEN <<>> ELSE f[k - 1] \o segments[k].names]
<1>1. n \in Nat /\ DOMAIN segments = 1..n
  BY WellFormedLen
<1>2. step \in [1..n -> [V -> V]] /\ <<>> \in V
  <2>1. \A k \in 1..n : segments[k].names \in V
    BY <1>1, SegmentNames DEF WellFormed
  <2>2. \A k \in 1..n : \A v \in V : v \o segments[k].names \in V
    BY <2>1
  <2>. QED  BY <2>2
<1> HIDE DEF V
<1>3. PICK f \in [0..n -> V] : Follows(f, n, <<>>, step)
  <2> HIDE DEF step, n
  <2>. QED  BY <1>1, <1>2, Recursion
<1>4. \A k \in 1..n : k # 0 /\ k - 1 \in 0..n /\ k \in 0..n
  BY <1>1
<1>5. Is(f)
  <2>1. \A k \in 1..n : f[k] = f[k - 1] \o segments[k].names
    BY <1>1, <1>3, <1>4 DEF Follows
  <2>2. f[0] = <<>>
    BY <1>3 DEF Follows
  <2>3. \A k \in 0..n : k = 0 \/ k \in 1..n
    BY <1>1
  <2>. QED  BY <2>1, <2>2, <2>3
<1>6. NamesUpTo(segments) = CHOOSE g : Is(g)
  BY DEF NamesUpTo
<1>7. PICK g : Is(g) /\ g = NamesUpTo(segments)
  <2> HIDE DEF Is
  <2>. QED  BY <1>5, <1>6
<1>8. g = f
  <2>1. g = [k \in 0..n |-> g[k]]
    BY <1>7
  <2>2. g[0] = <<>> /\ \A k \in 1..n : g[k] = g[k - 1] \o segments[k].names
    BY <1>1, <1>4, <1>7
  <2>3. \A k \in 1..n : \A v \in V : step[k][v] = v \o segments[k].names
    OBVIOUS
  <2> HIDE DEF step, n, Is
  <2>4. FollowsIn(g, n, V, <<>>, step)
    BY <2>2, <2>3 DEF FollowsIn
  <2>. QED  BY <1>1, <1>2, <1>3, <2>1, <2>4, RecursionUnique
<1>9. \A k \in 1..n : f[k] = f[k - 1] \o segments[k].names
  BY <1>1, <1>4, <1>5
<1>. QED  BY <1>3, <1>7, <1>8, <1>9 DEF V, Follows

(* What a segment of each kind consists of.                                *)
LEMMA SegmentForms ==
    ASSUME NEW s, IsSegment(s)
    PROVE  /\ s.kind \in {"static", "parameter", "wildcard", "regex", "malformed"}
           /\ s.names \in Seq(Word)
           /\ s.kind = "static" => s = Static(s.literal) /\ s.names = <<>> /\ s.literal \in Word
           /\ s.kind \in {"parameter", "wildcard"} => Len(s.names) = 1
           /\ s.kind = "regex" =>
                \A part \in DOMAIN s.captures :
                   s.captures[part] \in Seq(Word) /\ Len(s.captures[part]) = Len(s.names)
<1>1. s.kind \in {"static", "parameter", "wildcard", "regex", "malformed"}
  BY DEF IsSegment, Malformed
<1>2. ASSUME s.kind = "static"
      PROVE  s = Static(s.literal) /\ s.names = <<>> /\ s.literal \in Word
  <2>1. s = Static(s.literal) /\ s.literal \in Word
    BY <1>2 DEF IsSegment, Malformed
  <2> DEFINE l == s.literal
  <2>2. Static(l).names = <<>>
    BY DEF Static
  <2>. QED  BY <2>1, <2>2
<1>3. ASSUME s.kind \in {"parameter", "wildcard"}
      PROVE  Len(s.names) = 1
  <2> DEFINE w == s.names[1]
  <2>1. s = Parameter(w) \/ s = Wildcard(w)
    BY <1>3 DEF IsSegment, Malformed
  <2>2. Parameter(w).names = <<w>> /\ Wildcard(w).names = <<w>>
    BY DEF Parameter, Wildcard
  <2>. QED  BY <2>1, <2>2
<1>4. ASSUME s.kind = "regex"
      PROVE  \A part \in DOMAIN s.captures :
                s.captures[part] \in Seq(Word) /\ Len(s.captures[part]) = Len(s.names)
  BY <1>4 DEF IsSegment, Malformed
<1>. QED  BY <1>1, <1>2, <1>3, <1>4, SegmentNames

(* Binding names to values gives one parameter for each name.              *)
LEMMA BindType ==
    ASSUME NEW names \in Seq(Word), NEW values,
           \A k \in 1..Len(names) : values[k] \in Seq(Word)
    PROVE  /\ Bind(names, values) \in Seq(Binding)
           /\ Len(Bind(names, values)) = Len(names)
           /\ \A k \in 1..Len(names) :
                 Bind(names, values)[k] = [name |-> names[k], value |-> values[k]]
<1>1. \A k \in 1..Len(names) : names[k] \in Word
  OBVIOUS
<1>2. \A k \in 1..Len(names) : [name |-> names[k], value |-> values[k]] \in Binding
  BY <1>1 DEF Binding
<1>3. DOMAIN names = 1..Len(names) /\ Len(names) \in Nat
  OBVIOUS
<1>. QED  BY <1>2, <1>3 DEF Bind

(* A segment that accepts a part binds each of its names.                  *)
LEMMA CapturedType ==
    ASSUME NEW s, IsSegment(s), s.kind \notin {"malformed", "wildcard"},
           NEW part \in Word, Accepts(s, part)
    PROVE  /\ Bind(s.names, Captured(s, part)) \in Seq(Binding)
           /\ Len(Bind(s.names, Captured(s, part))) = Len(s.names)
           /\ \A k \in 1..Len(s.names) :
                 Bind(s.names, Captured(s, part))[k].name = s.names[k]
<1> DEFINE v == Captured(s, part)
<1>1. s.names \in Seq(Word)
  BY SegmentForms
<1>2. \A k \in 1..Len(s.names) : v[k] \in Seq(Word)
  <2>1. CASE s.kind = "static"
    <3>1. Len(s.names) = 0
      BY <2>1, SegmentForms, EmptySeq
    <3>. QED  BY <3>1
  <2>2. CASE s.kind = "parameter"
    <3>1. Len(s.names) = 1 /\ v = << <<part>> >>
      BY <2>2, SegmentForms DEF Captured
    <3>2. v[1] = <<part>> /\ <<part>> \in Seq(Word)
      BY <3>1, Singleton
    <3> HIDE DEF v
    <3>3. \A k \in 1..Len(s.names) : k = 1
      BY <3>1
    <3>. QED  BY <3>2, <3>3
  <2>3. CASE s.kind = "regex"
    <3>1. part \in DOMAIN s.captures /\ v = [k \in DOMAIN s.captures[part] |-> <<s.captures[part][k]>>]
      BY <2>3 DEF Accepts, Captured
    <3>2. s.captures[part] \in Seq(Word) /\ Len(s.captures[part]) = Len(s.names)
      BY <2>3, <3>1, SegmentForms
    <3> DEFINE c == s.captures[part]
    <3>3. \A k \in 1..Len(s.names) : c[k] \in Word /\ k \in DOMAIN c
      BY <3>2
    <3> HIDE DEF c
    <3>4. \A k \in 1..Len(s.names) : <<c[k]>> \in Seq(Word)
      BY <3>3, Singleton
    <3>5. \A k \in 1..Len(s.names) : v[k] = <<c[k]>>
      BY <3>1, <3>3 DEF c
    <3>. QED  BY <3>4, <3>5
  <2>. QED  BY <2>1, <2>2, <2>3, SegmentForms
<1> HIDE DEF v
<1>3. \A k \in 1..Len(s.names) : [name |-> s.names[k], value |-> v[k]].name = s.names[k]
  OBVIOUS
<1>4. /\ Bind(s.names, v) \in Seq(Binding)
      /\ Len(Bind(s.names, v)) = Len(s.names)
      /\ \A k \in 1..Len(s.names) : Bind(s.names, v)[k] = [name |-> s.names[k], value |-> v[k]]
  BY <1>1, <1>2, BindType
<1>. QED  BY <1>3, <1>4 DEF v

(* Where the loop of matchRoute stands.                                    *)
Progress == [ok : BOOLEAN, params : Seq(Binding), rest : Seq(Word), terminalEmpty : BOOLEAN]

(* One turn of the loop.                                                   *)
LEMMA MatchSegmentType ==
    ASSUME NEW m \in Progress, NEW s, IsSegment(s), s.kind # "malformed"
    PROVE  MatchSegment(m, s) \in Progress
<1> DEFINE empty == m.rest \in NoText
           part  == IF empty THEN Blank ELSE Head(m.rest)
           fits  == ~empty \/ (m.terminalEmpty /\ s = Static(Blank))
<1>1. Blank \in Word /\ part \in Word
  <2>1. Blank \in Word
    BY DEF Word
  <2>2. ASSUME m.rest # <<>> PROVE Head(m.rest) \in Word
    BY <2>2 DEF Progress
  <2>. QED  BY <2>1, <2>2 DEF NoText
<1>2. CASE m.ok /\ s.kind = "wildcard"
  <2> DEFINE v == << IF empty THEN <<Blank>> ELSE m.rest >>
  <2>1. <<Blank>> \in Seq(Word) /\ m.rest \in Seq(Word)
    BY <1>1, Singleton DEF Progress
  <2>2. v[1] \in Seq(Word)
    BY <2>1
  <2>3. Bind(s.names, v) \in Seq(Binding)
    <3> HIDE DEF v
    <3>1. s.names \in Seq(Word) /\ Len(s.names) = 1
      BY <1>2, SegmentForms
    <3>2. \A k \in 1..Len(s.names) : k = 1
      BY <3>1
    <3>. QED  BY <2>2, <3>1, <3>2, BindType
  <2>4. m.params \o Bind(s.names, v) \in Seq(Binding)
    BY <2>3, ConcatProperties DEF Progress
  <2>5. MatchSegment(m, s) = [ok |-> TRUE, rest |-> <<>>, terminalEmpty |-> FALSE,
                              params |-> m.params \o Bind(s.names, v)]
    BY <1>2 DEF MatchSegment
  <2> HIDE DEF v
  <2>. QED  BY <2>4, <2>5, EmptySeq DEF Progress
<1>3. CASE m.ok /\ s.kind # "wildcard" /\ fits /\ Accepts(s, part)
  <2>1. Bind(s.names, Captured(s, part)) \in Seq(Binding)
    BY <1>1, <1>3, CapturedType
  <2>2. m.params \o Bind(s.names, Captured(s, part)) \in Seq(Binding)
    BY <2>1, ConcatProperties DEF Progress
  <2>3. (IF empty THEN <<>> ELSE Tail(m.rest)) \in Seq(Word)
    <3>1. m.rest \in Seq(Word) /\ (m.rest # <<>> => Tail(m.rest) \in Seq(Word))
      BY HeadTailProperties DEF Progress
    <3>. QED  BY <3>1, EmptySeq DEF NoText
  <2>4. MatchSegment(m, s) =
          [ok |-> TRUE, rest |-> IF empty THEN <<>> ELSE Tail(m.rest),
           terminalEmpty |-> m.terminalEmpty /\ ~empty,
           params |-> m.params \o Bind(s.names, Captured(s, part))]
    BY <1>3 DEF MatchSegment
  <2> HIDE DEF empty, part, fits
  <2>. QED  BY <2>2, <2>3, <2>4 DEF Progress
<1>4. CASE /\ ~(m.ok /\ s.kind = "wildcard")
           /\ ~(m.ok /\ s.kind # "wildcard" /\ fits /\ Accepts(s, part))
  <2>1. MatchSegment(m, s) = [m EXCEPT !.ok = FALSE]
    BY <1>4 DEF MatchSegment
  <2>. QED  BY <2>1 DEF Progress
<1>. QED  BY <1>2, <1>3, <1>4

-----------------------------------------------------------------------------

(* The loop of matchRoute, told by its recursion.                          *)
LEMMA ScanDef ==
    ASSUME NEW segments, WellFormed(segments), NEW path \in Seq(Word), NEW params \in Seq(Binding)
    PROVE  /\ Scan(segments, path, params) \in [0..Len(segments) -> Progress]
           /\ Scan(segments, path, params)[0] = Start(path, params)
           /\ \A k \in 1..Len(segments) :
                 Scan(segments, path, params)[k] =
                    MatchSegment(Scan(segments, path, params)[k - 1], segments[k])
<1> DEFINE n == Len(segments)
           base == Start(path, params)
           step == [k \in 1..n |-> [m \in Progress |-> MatchSegment(m, segments[k])]]
           Is(f) == f = [k \in 0..n |-> IF k = 0 THEN base ELSE MatchSegment(f[k - 1], segments[k])]
<1>1. n \in Nat /\ DOMAIN segments = 1..n
  BY WellFormedLen
<1>2. step \in [1..n -> [Progress -> Progress]] /\ base \in Progress
  <2>1. \A k \in 1..n : IsSegment(segments[k]) /\ segments[k].kind # "malformed"
    BY <1>1 DEF WellFormed
  <2>2. \A k \in 1..n : \A m \in Progress : MatchSegment(m, segments[k]) \in Progress
    BY <2>1, MatchSegmentType
  <2>3. base \in Progress
    BY DEF Start, Progress
  <2> HIDE DEF base
  <2>. QED  BY <2>2, <2>3
<1> HIDE DEF base
<1>3. PICK f \in [0..n -> Progress] : Follows(f, n, base, step)
  <2> HIDE DEF step, n
  <2>. QED  BY <1>1, <1>2, Recursion
<1>4. \A k \in 1..n : k # 0 /\ k - 1 \in 0..n /\ k \in 0..n
  BY <1>1
<1>5. Is(f)
  <2>1. \A k \in 1..n : f[k] = MatchSegment(f[k - 1], segments[k])
    BY <1>1, <1>3, <1>4 DEF Follows
  <2>2. f[0] = base
    BY <1>3 DEF Follows
  <2>3. \A k \in 0..n : k = 0 \/ k \in 1..n
    BY <1>1
  <2>. QED  BY <2>1, <2>2, <2>3
<1>6. Scan(segments, path, params) = CHOOSE g : Is(g)
  BY DEF Scan, base
<1>7. PICK g : Is(g) /\ g = Scan(segments, path, params)
  <2> HIDE DEF Is
  <2>. QED  BY <1>5, <1>6
<1>8. g = f
  <2>1. g = [k \in 0..n |-> g[k]]
    BY <1>7
  <2>2. g[0] = base /\ \A k \in 1..n : g[k] = MatchSegment(g[k - 1], segments[k])
    BY <1>1, <1>4, <1>7
  <2>3. \A k \in 1..n : \A m \in Progress : step[k][m] = MatchSegment(m, segments[k])
    OBVIOUS
  <2> HIDE DEF step, n, Is
  <2>4. FollowsIn(g, n, Progress, base, step)
    BY <2>2, <2>3 DEF FollowsIn
  <2>. QED  BY <1>1, <1>2, <1>3, <2>1, <2>4, RecursionUnique
<1>9. \A k \in 1..n : f[k] = MatchSegment(f[k - 1], segments[k])
  BY <1>1, <1>4, <1>5
<1>. QED  BY <1>3, <1>7, <1>8, <1>9 DEF base, Follows

(* The path after its first k parts.                                       *)
From(path, k) == SubSeq(path, k + 1, Len(path))

(* Its head, its tail, and when nothing or only an empty part is left.     *)
LEMMA FromProperties ==
    ASSUME NEW path \in Seq(Word), NEW k \in 0..Len(path)
    PROVE  /\ k = Len(path) => From(path, k) = <<>>
           /\ k < Len(path) =>
                /\ From(path, k) # <<>>
                /\ Head(From(path, k)) = path[k + 1]
                /\ Tail(From(path, k)) = From(path, k + 1)
                /\ From(path, k) = <<Blank>> <=> k + 1 = Len(path) /\ path[k + 1] = Blank
           /\ From(path, 0) = path
<1>1. Len(path) \in Nat
  OBVIOUS
<1>2. ASSUME k = Len(path) PROVE From(path, k) = <<>>
  BY <1>1, <1>2, SubSeqEmpty DEF From
<1>3. From(path, 0) = path
  BY SubSeqFull DEF From
<1>4. ASSUME k < Len(path)
      PROVE  /\ From(path, k) # <<>>
             /\ Head(From(path, k)) = path[k + 1]
             /\ Tail(From(path, k)) = From(path, k + 1)
             /\ From(path, k) = <<Blank>> <=> k + 1 = Len(path) /\ path[k + 1] = Blank
  <2>1. /\ From(path, k) \in Seq(Word)
        /\ Len(From(path, k)) = Len(path) - k
        /\ \A i \in 1..(Len(path) - k) : From(path, k)[i] = path[k + i]
    BY <1>1, <1>4 DEF From
  <2>2. From(path, k) # <<>>
    BY <1>1, <1>4, <2>1
  <2>3. k + 1 \in 1..Len(path) /\ Len(path) \in (k + 1)..Len(path) /\ (k + 1) + 1 = k + 2
    BY <1>1, <1>4
  <2>4. Head(From(path, k)) = path[k + 1] /\ Tail(From(path, k)) = From(path, k + 1)
    BY <2>3, HeadTailOfSubSeq DEF From
  <2>5. Blank \in Word
    BY DEF Word
  <2>6. From(path, k) = <<Blank>> <=> Len(From(path, k)) = 1 /\ From(path, k)[1] = Blank
    BY <2>1, <2>5, IsSingleton
  <2>7. From(path, k)[1] = path[k + 1]
    BY <1>1, <1>4, <2>1
  <2>8. Len(From(path, k)) = 1 <=> k + 1 = Len(path)
    BY <1>1, <2>1
  <2>. QED  BY <2>2, <2>4, <2>6, <2>7, <2>8
<1>. QED  BY <1>2, <1>3, <1>4

(* Segment k stands for part k, as Describes has it.                       *)
Stands(segments, path, k) ==
    /\ Accepts(segments[k], path[k])
    /\ k = Len(path) /\ path[k] = Blank => segments[k] = Static(Blank) /\ k > 1

(* The loop after k segments that are not wildcards. *)
After(m, path, k) ==
    /\ m.ok
    /\ m.rest = From(path, k)
    /\ m.terminalEmpty = (path # <<Blank>> /\ path[Len(path)] = Blank /\ k < Len(path))

(* A turn succeeds exactly when the segment stands for the next part; then *)
(* it moves one part on and binds what the segment captures.               *)
LEMMA MatchSegmentStep ==
    ASSUME NEW segments, NEW path \in Seq(Word) \ {<<>>}, NEW k \in 0..Len(path),
           NEW m \in Progress, After(m, path, k),
           IsSegment(segments[k + 1]), segments[k + 1].kind # "wildcard"
    PROVE  LET next == MatchSegment(m, segments[k + 1])
           IN  /\ next.ok <=> k < Len(path) /\ Stands(segments, path, k + 1)
               /\ next.ok => /\ After(next, path, k + 1)
                             /\ next.params = m.params \o
                                  Bind(segments[k + 1].names, Captured(segments[k + 1], path[k + 1]))
<1> DEFINE s == segments[k + 1]
           next == MatchSegment(m, s)
           empty == m.rest \in NoText
           part  == IF empty THEN Blank ELSE Head(m.rest)
           fits  == ~empty \/ (m.terminalEmpty /\ s = Static(Blank))
<1>1. Len(path) \in Nat /\ Len(path) > 0
  OBVIOUS
<1>2. /\ m.ok = TRUE /\ m.rest = From(path, k)
      /\ m.terminalEmpty = (path # <<Blank>> /\ path[Len(path)] = Blank /\ k < Len(path))
  BY DEF After, Progress
<1>3. path = <<Blank>> <=> Len(path) = 1 /\ path[1] = Blank
  <2>1. Blank \in Word
    BY DEF Word
  <2>. QED  BY <2>1, IsSingleton
<1>4. next = IF fits /\ Accepts(s, part)
             THEN [ok |-> TRUE, rest |-> IF empty THEN <<>> ELSE Tail(m.rest),
                   terminalEmpty |-> m.terminalEmpty /\ ~empty,
                   params |-> m.params \o Bind(s.names, Captured(s, part))]
             ELSE [m EXCEPT !.ok = FALSE]
  BY <1>2 DEF MatchSegment
<1> HIDE DEF next, fits, part, empty
<1>5. next.ok <=> fits /\ Accepts(s, part)
  <2>1. CASE fits /\ Accepts(s, part)
    BY <1>4, <2>1
  <2>2. CASE ~(fits /\ Accepts(s, part))
    <3>1. next = [m EXCEPT !.ok = FALSE]
      BY <1>4, <2>2
    <3>. QED  BY <2>2, <3>1 DEF Progress
  <2>. QED  BY <2>1, <2>2
<1>6. ASSUME fits, Accepts(s, part)
      PROVE  /\ next.rest = IF empty THEN <<>> ELSE Tail(m.rest)
             /\ next.terminalEmpty = (m.terminalEmpty /\ ~empty)
             /\ next.params = m.params \o Bind(s.names, Captured(s, part))
  BY <1>4, <1>6
<1> USE DEF fits, part, empty
<1>7. ASSUME k = Len(path) PROVE ~next.ok
  <2>1. empty /\ ~m.terminalEmpty
    BY <1>1, <1>2, <1>7, FromProperties DEF NoText
  <2>. QED  BY <1>1, <1>5, <1>7, <2>1
<1>8. ASSUME k < Len(path)
      PROVE  /\ next.ok <=> Stands(segments, path, k + 1)
             /\ next.ok => /\ After(next, path, k + 1)
                           /\ next.params = m.params \o Bind(s.names, Captured(s, path[k + 1]))
  <2>1. empty <=> k + 1 = Len(path) /\ path[k + 1] = Blank
    BY <1>2, <1>8, FromProperties DEF NoText
  <2>2. part = path[k + 1]
    BY <1>2, <1>8, <2>1, FromProperties
  <2>3. fits <=> (k + 1 = Len(path) /\ path[k + 1] = Blank => s = Static(Blank) /\ k + 1 > 1)
    <3>1. CASE k + 1 = Len(path) /\ path[k + 1] = Blank
      <4>1. k + 1 > 1 <=> k # 0
        OBVIOUS
      <4>2. k + 1 = Len(path)
        BY <3>1
      <4>3. k = 0 => Len(path) = 1
        BY <4>2
      <4>4. k # 0 => Len(path) # 1
        <5>1. k \in Nat
          BY <1>1
        <5>. QED  BY <4>2, <5>1
      <4>5. m.terminalEmpty <=> k # 0
        <5>1. CASE k = 0
          <6>1. Len(path) = 1 /\ path[1] = Blank
            BY <3>1, <4>3, <5>1
          <6>. QED  BY <1>2, <1>3, <5>1, <6>1
        <5>2. CASE k # 0
          BY <1>2, <1>3, <1>8, <3>1, <4>4, <5>2
        <5>. QED  BY <5>1, <5>2
      <4> HIDE DEF s
      <4>. QED  BY <2>1, <3>1, <4>1, <4>5
    <3>2. CASE ~(k + 1 = Len(path) /\ path[k + 1] = Blank)
      BY <2>1, <3>2
    <3>. QED  BY <3>1, <3>2
  <2>4. next.ok <=> Stands(segments, path, k + 1)
    BY <1>5, <2>2, <2>3 DEF Stands
  <2>5. ASSUME next.ok
        PROVE  /\ After(next, path, k + 1)
               /\ next.params = m.params \o Bind(s.names, Captured(s, path[k + 1]))
    <3>1. fits /\ Accepts(s, part)
      BY <1>5, <2>5
    <3>2. next.rest = From(path, k + 1)
      <4>1. CASE empty
        <5>1. k + 1 = Len(path)
          BY <2>1, <4>1
        <5>2. k + 1 \in 0..Len(path)
          BY <1>1, <1>8
        <5>. QED  BY <1>6, <3>1, <4>1, <5>1, <5>2, FromProperties
      <4>2. CASE ~empty
        BY <1>2, <1>6, <1>8, <3>1, <4>2, FromProperties
      <4>. QED  BY <4>1, <4>2
    <3>3. next.terminalEmpty = (path # <<Blank>> /\ path[Len(path)] = Blank /\ k + 1 < Len(path))
      <4>1. next.terminalEmpty = (m.terminalEmpty /\ ~empty)
        BY <1>6, <3>1
      <4>2. Len(path) \in Nat /\ k \in Nat
        OBVIOUS
      <4>3. m.terminalEmpty <=> (path # <<Blank>> /\ path[Len(path)] = Blank)
        BY <1>2, <1>8
      <4>4. CASE k + 1 = Len(path)
        <5>1. ~(k + 1 < Len(path))
          BY <4>2, <4>4
        <5>2. empty <=> path[Len(path)] = Blank
          BY <2>1, <4>4
        <5> HIDE DEF empty, s
        <5>. QED  BY <4>1, <4>3, <5>1, <5>2
      <4>5. CASE k + 1 # Len(path)
        <5>1. k + 1 < Len(path)
          BY <1>8, <4>2, <4>5
        <5> HIDE DEF empty, s
        <5>. QED  BY <2>1, <4>1, <4>3, <4>5, <5>1
      <4>. QED  BY <4>4, <4>5
    <3>. QED  BY <1>6, <2>2, <2>5, <3>1, <3>2, <3>3 DEF After
  <2>. QED  BY <1>8, <2>4, <2>5
<1>9. /\ next.ok <=> k < Len(path) /\ Stands(segments, path, k + 1)
      /\ next.ok => /\ After(next, path, k + 1)
                    /\ next.params = m.params \o Bind(s.names, Captured(s, path[k + 1]))
  <2>1. k = Len(path) \/ k < Len(path)
    BY <1>1
  <2>2. k = Len(path) => ~(k < Len(path))
    BY <1>1
  <2> HIDE DEF s, empty, part, fits
  <2>. QED  BY <1>7, <1>8, <2>1, <2>2
<1>. QED  BY <1>9 DEF next

(* After a failure every turn fails.                                       *)
LEMMA MatchSegmentFails ==
    ASSUME NEW m \in Progress, NEW s, ~m.ok
    PROVE  ~MatchSegment(m, s).ok
<1>1. MatchSegment(m, s) = [m EXCEPT !.ok = FALSE]
  BY DEF MatchSegment
<1>. QED  BY <1>1 DEF Progress

(* A wildcard takes all that is left, and the match succeeds.              *)
LEMMA MatchSegmentWild ==
    ASSUME NEW m \in Progress, NEW s, m.ok, s.kind = "wildcard"
    PROVE  LET next == MatchSegment(m, s)
           IN  /\ Matched(next)
               /\ next.params = m.params \o
                     Bind(s.names, << IF m.rest \in NoText THEN <<Blank>> ELSE m.rest >>)
<1> DEFINE next == MatchSegment(m, s)
           b == Bind(s.names, << IF m.rest \in NoText THEN <<Blank>> ELSE m.rest >>)
<1>1. next = [ok |-> TRUE, rest |-> <<>>, terminalEmpty |-> FALSE, params |-> m.params \o b]
  BY DEF MatchSegment
<1> HIDE DEF next, b
<1>2. Matched(next) /\ next.params = m.params \o b
  BY <1>1 DEF Matched, NoText
<1>. QED  BY <1>2 DEF next, b

(* How many segments stand for one part each. *)
FixedLen(segments) == IF IsWild(segments) THEN Len(segments) - 1 ELSE Len(segments)

(* Only the last of well-formed segments may be a wildcard.                *)
LEMMA FixedSegments ==
    ASSUME NEW segments, WellFormed(segments)
    PROVE  /\ FixedLen(segments) \in 0..Len(segments)
           /\ IsWild(segments) =>
                /\ Len(segments) = FixedLen(segments) + 1
                /\ segments[FixedLen(segments) + 1].kind = "wildcard"
           /\ ~IsWild(segments) => Len(segments) = FixedLen(segments)
           /\ \A k \in 1..Len(segments) :
                 IsSegment(segments[k]) /\ segments[k].kind # "malformed"
           /\ \A k \in 1..FixedLen(segments) : segments[k].kind # "wildcard"
<1> DEFINE n == Len(segments)
<1>1. n \in Nat /\ DOMAIN segments = 1..n
  BY WellFormedLen
<1>2. segments # <<>> => n # 0
  BY DEF WellFormed
<1>3. IsWild(segments) => n # 0 /\ segments[n].kind = "wildcard"
  BY <1>2 DEF IsWild, Last
<1>4. \A k \in 1..n : IsSegment(segments[k]) /\ segments[k].kind # "malformed"
                        /\ (segments[k].kind = "wildcard" => k = n)
  BY <1>1 DEF WellFormed
<1>5. ~IsWild(segments) => n = 0 \/ segments[n].kind # "wildcard"
  <2>1. n # 0 => segments # <<>>
    OBVIOUS
  <2>. QED  BY <2>1 DEF IsWild, Last
<1> DEFINE f == FixedLen(segments)
<1>6. /\ f \in 0..n
      /\ IsWild(segments) => n = f + 1 /\ segments[f + 1].kind = "wildcard"
      /\ ~IsWild(segments) => n = f
      /\ \A k \in 1..f : segments[k].kind # "wildcard"
  <2> HIDE DEF n, f
  <2>1. CASE IsWild(segments)
    <3>1. f = n - 1
      BY <2>1 DEF FixedLen, n, f
    <3>2. f \in 0..n /\ f + 1 = n
      BY <1>1, <1>3, <2>1, <3>1
    <3>3. \A k \in 1..f : k \in 1..n /\ k # n
      BY <1>1, <3>2
    <3>4. segments[f + 1].kind = "wildcard"
      BY <1>3, <2>1, <3>2
    <3>. QED  BY <1>4, <2>1, <3>2, <3>3, <3>4
  <2>2. CASE ~IsWild(segments)
    <3>1. f = n
      BY <2>2 DEF FixedLen, n, f
    <3>2. \A k \in 1..n : segments[k].kind # "wildcard"
      BY <1>1, <1>4, <1>5, <2>2
    <3>. QED  BY <1>1, <2>2, <3>1, <3>2
  <2>. QED  BY <2>1, <2>2
<1>. QED  BY <1>4, <1>6

(* The segments before a wildcard, as Describes and Rebuilds name them.    *)
LEMMA FixedIs ==
    ASSUME NEW segments, WellFormed(segments)
    PROVE  LET fixed == IF IsWild(segments) THEN Front(segments) ELSE segments
           IN  /\ Len(fixed) = FixedLen(segments)
               /\ DOMAIN fixed = 1..FixedLen(segments)
               /\ \A k \in 1..FixedLen(segments) : fixed[k] = segments[k]
<1> DEFINE fixed == IF IsWild(segments) THEN Front(segments) ELSE segments
<1>1. Len(segments) \in Nat /\ DOMAIN segments = 1..Len(segments) /\ segments \in Seq(Range(segments))
  BY WellFormedLen DEF WellFormed
<1>2. /\ Len(fixed) = FixedLen(segments)
      /\ DOMAIN fixed = 1..FixedLen(segments)
      /\ \A k \in 1..FixedLen(segments) : fixed[k] = segments[k]
  <2>1. CASE IsWild(segments)
    <3>1. Len(segments) - 1 \in Nat /\ FixedLen(segments) = Len(segments) - 1
      BY <1>1, <2>1, FixedSegments
    <3>2. fixed = SubSeq(segments, 1, Len(segments) - 1)
      BY <2>1 DEF Front
    <3>3. \A k \in 1..(Len(segments) - 1) : segments[k] \in Range(segments)
      BY <1>1
    <3> DEFINE l == Len(segments) - 1
    <3> HIDE DEF l
    <3>4. l \in Nat
      BY <3>1 DEF l
    <3>5. l \in Int /\ l >= 0 /\ (1 <= l <=> l # 0) /\ l - 1 + 1 = l
      BY <3>4
    <3>6. /\ SubSeq(segments, 1, l) \in Seq(Range(segments))
          /\ Len(SubSeq(segments, 1, l)) = IF 1 <= l THEN l - 1 + 1 ELSE 0
          /\ \A k \in 1..(l - 1 + 1) : SubSeq(segments, 1, l)[k] = segments[1 + k - 1]
      BY <3>3, <3>5, SubSeqProperties DEF l
    <3>7. Len(SubSeq(segments, 1, l)) = l /\ \A k \in 1..l : SubSeq(segments, 1, l)[k] = segments[k]
      BY <3>5, <3>6
    <3>8. fixed = SubSeq(segments, 1, l) /\ FixedLen(segments) = l
      BY <3>1, <3>2 DEF l
    <3> HIDE DEF fixed
    <3>. QED  BY <3>6, <3>7, <3>8, LenProperties
  <2>2. CASE ~IsWild(segments)
    BY <1>1, <2>2 DEF FixedLen
  <2>. QED  BY <2>1, <2>2
<1>. QED  BY <1>2

(* Describes, segment by segment.                                          *)
LEMMA DescribesStands ==
    ASSUME NEW segments, WellFormed(segments), NEW path
    PROVE  Describes(segments, path) <=>
             /\ IF IsWild(segments) THEN FixedLen(segments) <= Len(path)
                ELSE FixedLen(segments) = Len(path) \/ (segments = <<>> /\ path = <<Blank>>)
             /\ \A k \in 1..FixedLen(segments) : Stands(segments, path, k)
<1> DEFINE fixed == IF IsWild(segments) THEN Front(segments) ELSE segments
<1>1. /\ Len(fixed) = FixedLen(segments)
      /\ DOMAIN fixed = 1..FixedLen(segments)
      /\ \A k \in 1..FixedLen(segments) : fixed[k] = segments[k]
  BY FixedIs
<1>2. Describes(segments, path) <=>
        /\ IF IsWild(segments) THEN Len(fixed) <= Len(path)
           ELSE Len(fixed) = Len(path) \/ (segments = <<>> /\ path = <<Blank>>)
        /\ \A k \in DOMAIN fixed :
              /\ Accepts(fixed[k], path[k])
              /\ k = Len(path) /\ path[k] = Blank => fixed[k] = Static(Blank) /\ k > 1
  BY DEF Describes
<1> HIDE DEF fixed
<1>. QED  BY <1>1, <1>2 DEF Stands

(* After k segments the loop has not failed exactly when each of them      *)
(* stands for its part; then k parts are used up.                          *)
LEMMA ScanFixed ==
    ASSUME NEW segments, WellFormed(segments), NEW path \in Seq(Word) \ {<<>>},
           NEW params \in Seq(Binding), NEW k \in 0..FixedLen(segments)
    PROVE  /\ Scan(segments, path, params)[k].ok <=>
                k <= Len(path) /\ \A j \in 1..k : Stands(segments, path, j)
           /\ Scan(segments, path, params)[k].ok => After(Scan(segments, path, params)[k], path, k)
<1> DEFINE scan == Scan(segments, path, params)
           n == FixedLen(segments)
           Good == {i \in 0..n :
                      /\ scan[i].ok <=> i <= Len(path) /\ \A j \in 1..i : Stands(segments, path, j)
                      /\ scan[i].ok => After(scan[i], path, i)}
<1>1. Len(path) \in Nat /\ Len(path) > 0
  OBVIOUS
<1>2. n \in Nat /\ \A i \in 0..n : i \in 0..Len(segments) /\ scan[i] \in Progress
  <2>1. Len(segments) \in Nat
    BY WellFormedLen
  <2>2. n \in 0..Len(segments)
    BY FixedSegments
  <2>3. \A i \in 0..Len(segments) : scan[i] \in Progress
    BY ScanDef
  <2> HIDE DEF n, scan
  <2>. QED  BY <2>1, <2>2, <2>3
<1>3. 0 \in Good
  <2>1. scan[0] = Start(path, params)
    BY ScanDef
  <2>2. After(Start(path, params), path, 0)
    <3>1. From(path, 0) = path
      <4>1. 0 \in 0..Len(path)
        BY <1>1
      <4>. QED  BY <4>1, FromProperties
    <3>. QED  BY <1>1, <3>1 DEF After, Start, Last
  <2>3. Start(path, params).ok
    BY DEF Start
  <2> HIDE DEF scan
  <2>. QED  BY <1>1, <1>2, <2>1, <2>2, <2>3
<1>4. ASSUME NEW i \in 0..(n - 1), i \in Good
      PROVE  i + 1 \in Good
  <2> DEFINE s == segments[i + 1]
  <2>1. i \in 0..n /\ i + 1 \in 0..n /\ i + 1 \in 1..n /\ i + 1 \in 1..Len(segments) /\ (i + 1) - 1 = i
    <3>1. Len(segments) \in Nat /\ n <= Len(segments)
      BY WellFormedLen, FixedSegments
    <3>. QED  BY <1>2, <3>1
  <2>2. scan[i + 1] = MatchSegment(scan[i], s)
    BY <2>1, ScanDef
  <2>3. IsSegment(s) /\ s.kind # "wildcard" /\ scan[i] \in Progress /\ scan[i + 1] \in Progress
    BY <1>2, <2>1, FixedSegments
  <2>4. /\ scan[i].ok <=> i <= Len(path) /\ \A j \in 1..i : Stands(segments, path, j)
        /\ scan[i].ok => After(scan[i], path, i)
    BY <1>4
  <2>5. (\A j \in 1..(i + 1) : Stands(segments, path, j)) <=>
          Stands(segments, path, i + 1) /\ \A j \in 1..i : Stands(segments, path, j)
    <3>1. \A j \in 1..(i + 1) : j = i + 1 \/ j \in 1..i
      BY <2>1
    <3>2. i + 1 \in 1..(i + 1) /\ \A j \in 1..i : j \in 1..(i + 1)
      BY <2>1
    <3>. QED  BY <3>1, <3>2
  <2> HIDE DEF scan
  <2>6. CASE ~scan[i].ok
    <3>1. ~scan[i + 1].ok
      BY <2>2, <2>3, <2>6, MatchSegmentFails
    <3>2. i + 1 <= Len(path) => i <= Len(path)
      BY <1>1, <2>1
    <3>. QED  BY <2>1, <2>4, <2>5, <2>6, <3>1, <3>2
  <2>7. CASE scan[i].ok
    <3>1. After(scan[i], path, i) /\ i <= Len(path) /\ \A j \in 1..i : Stands(segments, path, j)
      BY <2>4, <2>7
    <3>2. i \in 0..Len(path)
      BY <1>1, <2>1, <3>1
    <3>3. /\ scan[i + 1].ok <=> i < Len(path) /\ Stands(segments, path, i + 1)
          /\ scan[i + 1].ok => After(scan[i + 1], path, i + 1)
      BY <2>2, <2>3, <3>1, <3>2, MatchSegmentStep
    <3>4. i < Len(path) <=> i + 1 <= Len(path)
      BY <1>1, <2>1
    <3>. QED  BY <2>1, <2>5, <3>1, <3>3, <3>4
  <2>. QED  BY <2>6, <2>7
<1>5. 0..n \subseteq Good
  <2> HIDE DEF Good, n
  <2>. QED  BY <1>2, <1>3, <1>4, Induction
<1>. QED  BY <1>5

(* The loop over the segments and the remaining path finds what Describes  *)
(* says; a failure hands back the parameters it was given.                 *)
LEMMA MatchRouteDescribes ==
    ASSUME NEW segments, WellFormed(segments), NEW path \in Seq(Word) \ {<<>>},
           NEW params \in Seq(Binding)
    PROVE  /\ MatchRoute(segments, path, params).ok <=> Describes(segments, path)
           /\ MatchRoute(segments, path, params).params \in Seq(Binding)
           /\ ~MatchRoute(segments, path, params).ok =>
                 MatchRoute(segments, path, params).params = params
<1> DEFINE scan == Scan(segments, path, params)
           f == FixedLen(segments)
           end == scan[Len(segments)]
<1>1. Len(path) \in Nat /\ Len(path) > 0 /\ Len(segments) \in Nat /\ f \in Nat
  BY WellFormedLen, FixedSegments
<1>2. end \in Progress
  BY <1>1, ScanDef
<1>3. scan[f] \in Progress
  BY <1>1, FixedSegments, ScanDef
<1>4. /\ scan[f].ok <=> f <= Len(path) /\ \A j \in 1..f : Stands(segments, path, j)
      /\ scan[f].ok => After(scan[f], path, f)
  BY <1>1, ScanFixed
<1>5. Matched(end) <=> Describes(segments, path)
  <2>1. CASE IsWild(segments)
    <3>1. Len(segments) = f + 1 /\ segments[f + 1].kind = "wildcard"
      BY <2>1, FixedSegments
    <3>2. end = MatchSegment(scan[f], segments[f + 1])
      <4>1. \A k \in 1..Len(segments) : scan[k] = MatchSegment(scan[k - 1], segments[k])
        BY ScanDef
      <4> HIDE DEF scan, f
      <4>2. f + 1 \in 1..Len(segments)
        BY <1>1, <3>1
      <4>3. (f + 1) - 1 = f
        BY <1>1
      <4>. QED  BY <3>1, <4>1, <4>2, <4>3
    <3> HIDE DEF scan, f, end
    <3>3. ASSUME scan[f].ok PROVE Matched(end)
      BY <1>3, <3>1, <3>2, <3>3, MatchSegmentWild
    <3>4. ASSUME ~scan[f].ok PROVE ~Matched(end)
      BY <1>3, <3>2, <3>4, MatchSegmentFails DEF Matched
    <3>5. Describes(segments, path) <=> f <= Len(path) /\ \A j \in 1..f : Stands(segments, path, j)
      BY <2>1, DescribesStands DEF f
    <3>. QED  BY <1>4, <3>3, <3>4, <3>5
  <2>2. CASE ~IsWild(segments)
    <3>1. Len(segments) = f /\ end = scan[f]
      BY <2>2, FixedSegments
    <3>2. segments = <<>> <=> f = 0
      <4>1. segments \in Seq(Range(segments))
        BY DEF WellFormed
      <4>. QED  BY <3>1, <4>1, EmptySeq
    <3>3. Describes(segments, path) <=>
            /\ f = Len(path) \/ (f = 0 /\ path = <<Blank>>)
            /\ \A j \in 1..f : Stands(segments, path, j)
      <4>1. Describes(segments, path) <=>
              /\ f = Len(path) \/ (segments = <<>> /\ path = <<Blank>>)
              /\ \A j \in 1..f : Stands(segments, path, j)
        BY <2>2, DescribesStands
      <4> HIDE DEF f
      <4>. QED  BY <3>2, <4>1
    <3> HIDE DEF f, scan, end
    <3>4. f = 0 => f <= Len(path)
      BY <1>1
    <3>5. CASE ~end.ok
      <4>1. ~Matched(end)
        BY <3>5 DEF Matched
      <4>2. f = Len(path) => f <= Len(path)
        BY <1>1
      <4>. QED  BY <1>4, <3>1, <3>3, <3>4, <3>5, <4>1, <4>2
    <3>6. CASE end.ok
      <4>1. f <= Len(path) /\ \A j \in 1..f : Stands(segments, path, j)
        BY <1>4, <3>1, <3>6
      <4>2. /\ end.rest = From(path, f)
            /\ end.terminalEmpty = (path # <<Blank>> /\ path[Len(path)] = Blank /\ f < Len(path))
        BY <1>4, <3>1, <3>6 DEF After
      <4>3. f \in 0..Len(path)
        BY <1>1, <4>1
      <4>4. CASE f = Len(path)
        <5>1. end.rest = <<>> /\ ~end.terminalEmpty
          BY <1>1, <4>2, <4>3, <4>4, FromProperties
        <5>. QED  BY <3>3, <3>6, <4>1, <4>4, <5>1 DEF Matched, NoText
      <4>5. CASE f # Len(path)
        <5>1. f < Len(path)
          BY <1>1, <4>1, <4>5
        <5>2. /\ end.rest # <<>>
              /\ end.rest = <<Blank>> <=> f + 1 = Len(path) /\ path[f + 1] = Blank
          BY <4>2, <4>3, <5>1, FromProperties
        <5>3. path = <<Blank>> => f = 0 /\ Len(path) = 1 /\ path[1] = Blank
          <6> SUFFICES ASSUME path = <<Blank>> PROVE f = 0 /\ Len(path) = 1 /\ path[1] = Blank
            OBVIOUS
          <6>1. Blank \in Word /\ path \in Seq(Word)
            BY DEF Word
          <6>2. Len(path) = 1
            BY <6>1, IsSingleton
          <6>3. f = 0
            <7>1. f < 1
              BY <5>1, <6>2
            <7>. QED  BY ONLY <1>1, <7>1
          <6>4. path[1] = Blank
            BY <6>1, IsSingleton
          <6>. QED  BY <6>2, <6>3, <6>4
        <5>4. ASSUME f = 0, path = <<Blank>> PROVE Matched(end)
          <6>1. Len(path) = 1 /\ path[1] = Blank /\ f = 0
            BY <5>3, <5>4
          <6>2. f + 1 = 1
            BY ONLY <6>1
          <6>3. f + 1 = Len(path) /\ path[f + 1] = Blank
            BY ONLY <6>1, <6>2, Zenon
          <6>4. end.rest = <<Blank>>
            BY <5>2, <6>3
          <6>5. ~end.terminalEmpty
            BY <4>2, <5>4
          <6>. QED  BY <3>6, <6>4, <6>5 DEF Matched, NoText
        <5>5. ASSUME Matched(end) PROVE f = 0 /\ path = <<Blank>>
          <6>1. end.rest = <<Blank>> /\ ~end.terminalEmpty
            BY <5>2, <5>5 DEF Matched, NoText
          <6>2. f + 1 = Len(path)
            BY <5>2, <6>1
          <6>3. path[Len(path)] = Blank
            BY <5>2, <6>1, <6>2
          <6>4. path = <<Blank>>
            BY <4>2, <5>1, <6>1, <6>3
          <6>. QED  BY <5>3, <6>4
        <5>. QED  BY <3>3, <4>1, <4>5, <5>4, <5>5
      <4>. QED  BY <4>4, <4>5
    <3>. QED  BY <3>5, <3>6
  <2>. QED  BY <2>1, <2>2
<1>6. MatchRoute(segments, path, params) =
        [ok |-> Matched(end), params |-> IF Matched(end) THEN end.params ELSE params]
  BY DEF MatchRoute
<1> HIDE DEF end
<1>. QED  BY <1>2, <1>5, <1>6 DEF Progress

-----------------------------------------------------------------------------

(* params names the first k segments, and its values for the first f of    *)
(* them are what these capture.                                            *)
Agrees(segments, path, params, k, f) ==
    /\ Len(params) = Len(NamesUpTo(segments)[k])
    /\ \A i \in 1..Len(params) : params[i].name = NamesUpTo(segments)[k][i]
    /\ \A j \in 1..f :
          /\ Len(NamesUpTo(segments)[j]) <= Len(params)
          /\ \A i \in 1..Len(segments[j].names) :
                params[Len(NamesUpTo(segments)[j - 1]) + i] =
                   Bind(segments[j].names, Captured(segments[j], path[j]))[i]

(* One more segment binds its own names, after those bound before.         *)
LEMMA AgreesAppend ==
    ASSUME NEW segments, WellFormed(segments), NEW path, NEW k \in 0..(Len(segments) - 1),
           NEW params \in Seq(Binding), Agrees(segments, path, params, k, k),
           NEW b \in Seq(Binding), Len(b) = Len(segments[k + 1].names),
           \A i \in 1..Len(b) : b[i].name = segments[k + 1].names[i]
    PROVE  /\ Agrees(segments, path, params \o b, k + 1, k)
           /\ b = Bind(segments[k + 1].names, Captured(segments[k + 1], path[k + 1]))
                 => Agrees(segments, path, params \o b, k + 1, k + 1)
<1> DEFINE names == NamesUpTo(segments)
           all == params \o b
           n == Len(params)
           last == segments[k + 1].names
<1>1. Len(segments) \in Nat
  BY WellFormedLen
<1>2. /\ k \in Nat /\ k + 1 \in 1..Len(segments) /\ (k + 1) - 1 = k
      /\ k \in 0..Len(segments) /\ k + 1 \in 0..Len(segments)
  BY <1>1
<1>3. /\ names \in [0..Len(segments) -> Seq(Word)]
      /\ names[k + 1] = names[k] \o last
  BY <1>2, NamesUpToDef
<1>4. last \in Seq(Word) /\ names[k] \in Seq(Word)
  BY <1>2, <1>3, FixedSegments, SegmentNames
<1>5. /\ Len(names[k + 1]) = Len(names[k]) + Len(last)
      /\ \A i \in 1..(Len(names[k]) + Len(last)) :
            names[k + 1][i] = IF i <= Len(names[k]) THEN names[k][i] ELSE last[i - Len(names[k])]
  <2> HIDE DEF names, last
  <2>1. /\ Len(names[k] \o last) = Len(names[k]) + Len(last)
        /\ \A i \in 1..(Len(names[k]) + Len(last)) :
             (names[k] \o last)[i] =
                IF i <= Len(names[k]) THEN names[k][i] ELSE last[i - Len(names[k])]
    BY <1>4, ConcatProperties
  <2>. QED  BY <1>3, <2>1
<1>6. /\ Len(all) = n + Len(b)
      /\ \A i \in 1..(n + Len(b)) : all[i] = IF i <= n THEN params[i] ELSE b[i - n]
  BY ConcatProperties
<1>7. /\ n = Len(names[k])
      /\ \A i \in 1..n : params[i].name = names[k][i]
      /\ \A j \in 1..k :
            /\ Len(names[j]) <= n
            /\ \A i \in 1..Len(segments[j].names) :
                  params[Len(names[j - 1]) + i] =
                     Bind(segments[j].names, Captured(segments[j], path[j]))[i]
  BY DEF Agrees
<1>8. n \in Nat /\ Len(b) \in Nat /\ Len(b) = Len(last)
  OBVIOUS
<1>9. \A j \in 1..k : /\ Len(names[j]) = Len(names[j - 1]) + Len(segments[j].names)
                      /\ Len(names[j - 1]) \in Nat /\ Len(segments[j].names) \in Nat
  <2> TAKE j \in 1..k
  <2>1. j \in 1..Len(segments) /\ j - 1 \in 0..Len(segments)
    BY <1>1, <1>2
  <2>2. names[j] = names[j - 1] \o segments[j].names
    BY <2>1, NamesUpToDef
  <2>3. names[j - 1] \in Seq(Word) /\ segments[j].names \in Seq(Word)
    BY <1>3, <2>1, FixedSegments, SegmentNames
  <2>. QED  BY <2>2, <2>3, ConcatProperties, LenProperties
<1> DEFINE Pieces(p, m) == \A j \in 1..m :
              /\ Len(names[j]) <= Len(p)
              /\ \A i \in 1..Len(segments[j].names) :
                    p[Len(names[j - 1]) + i] =
                       Bind(segments[j].names, Captured(segments[j], path[j]))[i]
<1> HIDE DEF names, all, n, last
<1>10. Len(all) = Len(names[k + 1])
  BY <1>5, <1>6, <1>7, <1>8
<1>11. ASSUME NEW i \in 1..Len(all)
       PROVE  all[i].name = names[k + 1][i]
  <2>1. i \in 1..(n + Len(b)) /\ i \in 1..(Len(names[k]) + Len(last))
    BY <1>6, <1>7, <1>8
  <2>2. CASE i <= n
    <3>1. i \in 1..n
      BY <1>8, <2>1, <2>2
    <3>. QED  BY <1>5, <1>6, <1>7, <2>1, <2>2, <3>1
  <2>3. CASE ~(i <= n)
    <3>1. i - n \in 1..Len(b)
      BY <1>8, <2>1, <2>3
    <3>2. b[i - n].name = last[i - n]
      BY <3>1 DEF last
    <3>3. all[i] = b[i - n] /\ names[k + 1][i] = last[i - n]
      BY <1>5, <1>6, <1>7, <2>1, <2>3
    <3>. QED  BY <3>2, <3>3
  <2>. QED  BY <2>2, <2>3
<1>12. Pieces(all, k)
  <2> SUFFICES ASSUME NEW j \in 1..k
               PROVE  /\ Len(names[j]) <= Len(all)
                      /\ \A i \in 1..Len(segments[j].names) :
                            all[Len(names[j - 1]) + i] =
                               Bind(segments[j].names, Captured(segments[j], path[j]))[i]
    OBVIOUS
  <2>1. Len(names[j]) \in Nat /\ Len(names[j]) <= n
    BY <1>7, <1>9
  <2>2. Len(names[j]) <= Len(all)
    BY <1>6, <1>8, <2>1
  <2>3. ASSUME NEW i \in 1..Len(segments[j].names)
        PROVE  all[Len(names[j - 1]) + i] = params[Len(names[j - 1]) + i]
    <3>1. Len(names[j - 1]) + i \in 1..n
      <4>1. /\ Len(names[j - 1]) + Len(segments[j].names) <= n
            /\ Len(names[j - 1]) \in Nat /\ Len(segments[j].names) \in Nat
        BY <1>7, <1>9
      <4>2. \A x, y, z \in Nat : x + y <= z => \A w \in 1..y : x + w \in 1..z
        OBVIOUS
      <4>. QED  BY <1>8, <4>1, <4>2
    <3> DEFINE x == Len(names[j - 1]) + i
    <3> HIDE DEF x
    <3>2. x \in 1..(n + Len(b)) /\ x <= n
      BY <1>8, <3>1 DEF x
    <3>. QED  BY <1>6, <3>2 DEF x
  <2>. QED  BY <1>7, <2>2, <2>3
<1>13. ASSUME b = Bind(last, Captured(segments[k + 1], path[k + 1]))
       PROVE  Pieces(all, k + 1)
  <2> SUFFICES ASSUME NEW j \in 1..(k + 1)
               PROVE  /\ Len(names[j]) <= Len(all)
                      /\ \A i \in 1..Len(segments[j].names) :
                            all[Len(names[j - 1]) + i] =
                               Bind(segments[j].names, Captured(segments[j], path[j]))[i]
    OBVIOUS
  <2>1. CASE j \in 1..k
    BY <1>12, <2>1
  <2>2. CASE j = k + 1
    <3>1. Len(names[j]) <= Len(all)
      BY <1>6, <1>8, <1>10, <2>2
    <3>2. ASSUME NEW i \in 1..Len(last)
          PROVE  all[n + i] = b[i]
      <4> DEFINE x == n + i
      <4> HIDE DEF x
      <4>1. x \in 1..(n + Len(b)) /\ ~(x <= n) /\ x - n = i
        BY <1>8 DEF x
      <4>. QED  BY <1>6, <4>1 DEF x
    <3>3. j - 1 = k /\ segments[j].names = last
      BY <1>2, <2>2 DEF last
    <3>. QED  BY <1>7, <1>13, <2>2, <3>1, <3>2, <3>3
  <2>3. j \in 1..k \/ j = k + 1
    BY <1>2
  <2>. QED  BY <2>1, <2>2, <2>3
<1>. QED  BY <1>10, <1>11, <1>12, <1>13 DEF Agrees, names, all, last

(* The loop has bound the names of the segments it passed, in order.       *)
LEMMA ScanAgrees ==
    ASSUME NEW segments, WellFormed(segments), NEW path \in Seq(Word) \ {<<>>},
           NEW k \in 0..FixedLen(segments), Scan(segments, path, <<>>)[k].ok
    PROVE  Agrees(segments, path, Scan(segments, path, <<>>)[k].params, k, k)
<1> DEFINE scan == Scan(segments, path, <<>>)
           n == FixedLen(segments)
           Good == {i \in 0..n : scan[i].ok => Agrees(segments, path, scan[i].params, i, i)}
<1>1. <<>> \in Seq(Binding)
  BY EmptySeq
<1>2. Len(path) \in Nat /\ Len(segments) \in Nat /\ n \in 0..Len(segments)
  BY WellFormedLen, FixedSegments
<1>3. /\ scan \in [0..Len(segments) -> Progress]
      /\ scan[0] = Start(path, <<>>)
      /\ \A i \in 1..Len(segments) : scan[i] = MatchSegment(scan[i - 1], segments[i])
  BY <1>1, ScanDef
<1>4. 0 \in Good
  <2>1. Start(path, <<>>).params = <<>>
    BY DEF Start
  <2>2. NamesUpTo(segments)[0] = <<>>
    BY NamesUpToDef
  <2>3. Len(<<>>) = 0
    BY EmptySeq
  <2>4. Agrees(segments, path, <<>>, 0, 0)
    BY <2>2, <2>3 DEF Agrees
  <2> HIDE DEF scan, n
  <2>. QED  BY <1>2, <1>3, <2>1, <2>4
<1>5. ASSUME NEW i \in 0..(n - 1), i \in Good
      PROVE  i + 1 \in Good
  <2> DEFINE s == segments[i + 1]
             b == Bind(s.names, Captured(s, path[i + 1]))
  <2> HIDE DEF scan, n
  <2>1. /\ i \in 0..n /\ i + 1 \in 0..n /\ i + 1 \in 1..n /\ i + 1 \in 1..Len(segments)
        /\ i \in 0..(Len(segments) - 1) /\ i \in 0..Len(segments)
    BY <1>2
  <2>2. (i + 1) - 1 = i
    BY <2>1
  <2>3. scan[i + 1] = MatchSegment(scan[i], s) /\ scan[i] \in Progress
    BY <1>3, <2>1, <2>2
  <2>4. IsSegment(s) /\ s.kind # "wildcard" /\ s.kind # "malformed"
    BY <2>1, FixedSegments DEF n
  <2>5. SUFFICES ASSUME scan[i + 1].ok
                 PROVE  Agrees(segments, path, scan[i + 1].params, i + 1, i + 1)
    BY <2>1
  <2>6. scan[i].ok
    BY <2>3, <2>5, MatchSegmentFails
  <2>7. i <= Len(path) /\ After(scan[i], path, i)
    BY <1>1, <2>1, <2>6, ScanFixed DEF scan, n
  <2>8. i \in 0..Len(path)
    BY <1>2, <2>1, <2>7
  <2>9. /\ i < Len(path) /\ Stands(segments, path, i + 1)
        /\ scan[i + 1].params = scan[i].params \o b
    BY <2>3, <2>4, <2>5, <2>7, <2>8, MatchSegmentStep
  <2>10. Agrees(segments, path, scan[i].params, i, i) /\ scan[i].params \in Seq(Binding)
    BY <1>5, <2>3, <2>6 DEF Progress
  <2>11. path[i + 1] \in Word
    <3>1. i + 1 \in 1..Len(path)
      BY <1>2, <2>8, <2>9
    <3>. QED  BY <3>1
  <2>12. /\ b \in Seq(Binding)
         /\ Len(b) = Len(s.names)
         /\ \A l \in 1..Len(s.names) : b[l].name = s.names[l]
    BY <2>4, <2>9, <2>11, CapturedType DEF Stands
  <2> HIDE DEF s
  <2>. QED  BY <2>1, <2>9, <2>10, <2>12, AgreesAppend DEF s
<1>6. 0..n \subseteq Good
  <2> HIDE DEF Good, n
  <2>. QED  BY <1>2, <1>4, <1>5, Induction
<1>. QED  BY <1>6

(* A run of elements is the subsequence they are in.                       *)
LEMMA SubSeqIs ==
    ASSUME NEW S, NEW seq \in Seq(S), NEW b \in Seq(S), NEW x \in Nat,
           x + Len(b) <= Len(seq), \A i \in 1..Len(b) : seq[x + i] = b[i]
    PROVE  SubSeq(seq, x + 1, x + Len(b)) = b
<1> DEFINE m == x + 1
           n == x + Len(b)
           piece == SubSeq(seq, m, n)
<1>1. /\ Len(b) \in Nat /\ Len(seq) \in Nat
      /\ m \in Int /\ n \in Int /\ n - m + 1 = Len(b)
      /\ (IF m <= n THEN n - m + 1 ELSE 0) = Len(b)
      /\ \A i \in 1..Len(b) : m + i - 1 = x + i
  OBVIOUS
<1>2. \A i \in m..n : seq[i] \in S
  <2>1. \A i \in m..n : i \in 1..Len(seq)
    BY <1>1
  <2>. QED  BY <2>1
<1> HIDE DEF m, n
<1>3. /\ piece \in Seq(S)
      /\ Len(piece) = IF m <= n THEN n - m + 1 ELSE 0
      /\ \A i \in 1..(n - m + 1) : piece[i] = seq[m + i - 1]
  BY <1>1, <1>2, SubSeqProperties
<1> HIDE DEF piece
<1>4. Len(piece) = Len(b) /\ \A i \in 1..Len(b) : piece[i] = b[i]
  BY <1>1, <1>3
<1>5. piece = b
  BY <1>3, <1>4, SeqEqual
<1>. QED  BY <1>5 DEF piece, m, n

(* Parameters that agree with all segments give the path back.             *)
LEMMA AgreesRebuilds ==
    ASSUME NEW segments, WellFormed(segments), NEW path \in Seq(Word) \ {<<>>},
           NEW params \in Seq(Binding),
           Agrees(segments, path, params, Len(segments), FixedLen(segments)),
           FixedLen(segments) <= Len(path),
           \A k \in 1..FixedLen(segments) : Accepts(segments[k], path[k]),
           IsWild(segments) =>
              Last(params).value = IF Len(path) = FixedLen(segments) THEN <<Blank>>
                                   ELSE From(path, FixedLen(segments))
    PROVE  Rebuilds(segments, params, path)
<1> DEFINE f == FixedLen(segments)
           fixed == IF IsWild(segments) THEN Front(segments) ELSE segments
           names == NamesUpTo(segments)
           first(k) == Len(names[k - 1])
           piece(k) == SubSeq(params, first(k) + 1, first(k) + Len(segments[k].names))
<1>1. Len(segments) \in Nat /\ f \in 0..Len(segments) /\ Len(path) \in Nat
  BY WellFormedLen, FixedSegments
<1>2. Len(fixed) = f /\ DOMAIN fixed = 1..f /\ \A k \in 1..f : fixed[k] = segments[k]
  BY FixedIs
<1>3. names \in [0..Len(segments) -> Seq(Word)]
  BY NamesUpToDef
<1>4. [k \in DOMAIN params |-> params[k].name] = ParamNames(segments)
  <2>1. names[Len(segments)] \in Seq(Word)
    <3>1. Len(segments) \in 0..Len(segments)
      BY <1>1
    <3> HIDE DEF names
    <3>. QED  BY <1>3, <3>1
  <2>2. /\ Len(params) = Len(names[Len(segments)])
        /\ \A i \in 1..Len(params) : params[i].name = names[Len(segments)][i]
    BY DEF Agrees
  <2> DEFINE all == names[Len(segments)]
  <2>3. all = [i \in 1..Len(params) |-> all[i]]
    BY <2>1, <2>2
  <2> HIDE DEF all, names
  <2>4. DOMAIN params = 1..Len(params)
    OBVIOUS
  <2>5. \A i \in 1..Len(params) : params[i].name = all[i]
    BY <2>2 DEF all
  <2>6. [k \in DOMAIN params |-> params[k].name] = all
    BY <2>3, <2>4, <2>5
  <2>. QED  BY <2>6 DEF ParamNames, all, names
<1>5. ASSUME NEW k \in 1..f
      PROVE  /\ k \in DOMAIN path
             /\ piece(k) = Bind(segments[k].names, Captured(segments[k], path[k]))
             /\ segments[k].kind = "static" => segments[k].literal = path[k]
  <2> DEFINE b == Bind(segments[k].names, Captured(segments[k], path[k]))
             l == Len(segments[k].names)
  <2>1. k \in 1..Len(path) /\ k \in 1..Len(segments) /\ k - 1 \in 0..Len(segments) /\ k \in 0..Len(segments)
    BY <1>1
  <2>2. DOMAIN path = 1..Len(path) /\ path[k] \in Word
    BY <2>1
  <2>3. /\ IsSegment(segments[k]) /\ segments[k].kind \notin {"malformed", "wildcard"}
        /\ Accepts(segments[k], path[k])
    BY <2>1, FixedSegments
  <2>4. b \in Seq(Binding) /\ Len(b) = l
    BY <2>2, <2>3, CapturedType
  <2>5. names[k] = names[k - 1] \o segments[k].names
    BY <2>1, NamesUpToDef
  <2>6. names[k - 1] \in Seq(Word) /\ segments[k].names \in Seq(Word)
    BY <1>3, <2>1, <2>3, SegmentNames
  <2>7. Len(names[k]) = first(k) + l /\ first(k) \in Nat /\ l \in Nat
    BY <2>5, <2>6, ConcatProperties
  <2>8. /\ Len(names[k]) <= Len(params)
        /\ \A i \in 1..l : params[first(k) + i] = b[i]
    BY DEF Agrees
  <2>9. piece(k) = b
    <3> DEFINE x == first(k)
    <3>1. x \in Nat /\ x + Len(b) <= Len(params) /\ \A i \in 1..Len(b) : params[x + i] = b[i]
      BY <2>4, <2>7, <2>8
    <3>2. piece(k) = SubSeq(params, x + 1, x + Len(b))
      BY <2>4
    <3> HIDE DEF b, x, names, piece
    <3>. QED  BY <2>4, <3>1, <3>2, SubSeqIs
  <2> HIDE DEF piece
  <2>10. segments[k].kind = "static" => segments[k].literal = path[k]
    BY <2>3 DEF Accepts
  <2>. QED  BY <2>1, <2>2, <2>9, <2>10 DEF b
<1>6. From(path, f) = SubSeq(path, Len(fixed) + 1, Len(path))
  BY <1>2 DEF From
<1>7. IsWild(segments) => Last(params).value =
                            IF Len(path) = Len(fixed) THEN <<Blank>>
                            ELSE SubSeq(path, Len(fixed) + 1, Len(path))
  BY <1>2, <1>6
<1>8. \A k \in DOMAIN fixed :
         /\ k \in DOMAIN path
         /\ piece(k) = Bind(fixed[k].names, Captured(fixed[k], path[k]))
         /\ fixed[k].kind = "static" => fixed[k].literal = path[k]
  BY <1>2, <1>5
<1>. QED  BY <1>4, <1>7, <1>8 DEF Rebuilds

(* The parameters of a match give the path back.                           *)
LEMMA MatchRouteRebuilds ==
    ASSUME NEW segments, WellFormed(segments), NEW path \in Seq(Word) \ {<<>>},
           MatchRoute(segments, path, <<>>).ok
    PROVE  Rebuilds(segments, MatchRoute(segments, path, <<>>).params, path)
<1> DEFINE scan == Scan(segments, path, <<>>)
           f == FixedLen(segments)
           end == scan[Len(segments)]
<1>1. /\ Len(path) \in Nat /\ Len(segments) \in Nat /\ f \in Nat /\ f \in 0..Len(segments)
      /\ <<>> \in Seq(Binding)
  BY WellFormedLen, FixedSegments, EmptySeq
<1>2. /\ scan \in [0..Len(segments) -> Progress]
      /\ \A i \in 1..Len(segments) : scan[i] = MatchSegment(scan[i - 1], segments[i])
  BY <1>1, ScanDef
<1>3. MatchRoute(segments, path, <<>>) =
        [ok |-> Matched(end), params |-> IF Matched(end) THEN end.params ELSE <<>>]
  BY DEF MatchRoute
<1> HIDE DEF scan
<1>4. Matched(end) /\ MatchRoute(segments, path, <<>>).params = end.params
  BY <1>3
<1>5. scan[f] \in Progress /\ end \in Progress
  BY <1>1, <1>2
<1>6. scan[f].ok
  <2>1. CASE IsWild(segments)
    <3>1. Len(segments) = f + 1
      BY <2>1, FixedSegments
    <3> HIDE DEF f
    <3>2. f + 1 \in 1..Len(segments) /\ (f + 1) - 1 = f
      BY <1>1, <3>1
    <3>3. end = MatchSegment(scan[f], segments[f + 1])
      BY <1>2, <3>1, <3>2
    <3>. QED  BY <1>4, <1>5, <3>3, MatchSegmentFails DEF Matched
  <2>2. CASE ~IsWild(segments)
    <3>1. Len(segments) = f
      BY <2>2, FixedSegments
    <3>. QED  BY <1>4, <3>1 DEF Matched
  <2>. QED  BY <2>1, <2>2
<1>7. /\ f <= Len(path)
      /\ \A j \in 1..f : Accepts(segments[j], path[j])
      /\ After(scan[f], path, f)
      /\ Agrees(segments, path, scan[f].params, f, f)
  <2>1. f \in 0..f
    BY <1>1
  <2>2. /\ scan[f].ok <=> f <= Len(path) /\ \A j \in 1..f : Stands(segments, path, j)
        /\ scan[f].ok => After(scan[f], path, f)
    BY <1>1, <2>1, ScanFixed DEF scan
  <2>3. Agrees(segments, path, scan[f].params, f, f)
    BY <1>1, <1>6, <2>1, ScanAgrees DEF scan
  <2>. QED  BY <1>6, <2>2, <2>3 DEF Stands
<1>8. CASE ~IsWild(segments)
  <2>1. Len(segments) = f
    BY <1>8, FixedSegments
  <2>. QED  BY <1>4, <1>5, <1>7, <1>8, <2>1, AgreesRebuilds DEF Progress
<1>9. CASE IsWild(segments)
  <2> DEFINE s == segments[f + 1]
             v == IF scan[f].rest \in NoText THEN <<Blank>> ELSE scan[f].rest
             b == Bind(s.names, <<v>>)
  <2>1. Len(segments) = f + 1 /\ s.kind = "wildcard"
    BY <1>9, FixedSegments
  <2>2. f + 1 \in 1..Len(segments) /\ (f + 1) - 1 = f /\ f \in 0..(Len(segments) - 1)
    <3> HIDE DEF f
    <3>. QED  BY <1>1, <2>1
  <2>3. end = MatchSegment(scan[f], s)
    <3> HIDE DEF f
    <3>. QED  BY <1>2, <2>1, <2>2
  <2>4. end.params = scan[f].params \o b
    BY <1>5, <1>6, <2>1, <2>3, MatchSegmentWild
  <2>5. s.names \in Seq(Word) /\ Len(s.names) = 1
    BY <2>1, <2>2, FixedSegments, SegmentForms
  <2>6. v \in Seq(Word)
    <3>1. Blank \in Word /\ <<Blank>> \in Seq(Word)
      BY Singleton DEF Word
    <3>. QED  BY <1>5, <3>1 DEF Progress
  <2>7. <<v>>[1] = v
    OBVIOUS
  <2> HIDE DEF v, f, s
  <2>8. /\ b \in Seq(Binding) /\ Len(b) = 1
        /\ \A k \in 1..1 : b[k] = [name |-> s.names[k], value |-> <<v>>[k]]
    <3>1. \A k \in 1..Len(s.names) : <<v>>[k] \in Seq(Word)
      <4>1. \A k \in 1..Len(s.names) : k = 1
        BY <2>5
      <4>. QED  BY <2>6, <2>7, <4>1
    <3>. QED  BY <2>5, <3>1, BindType
  <2>9. b[1] = [name |-> s.names[1], value |-> v]
    <3>1. 1 \in 1..1
      OBVIOUS
    <3> HIDE DEF b
    <3>. QED  BY <2>7, <2>8, <3>1
  <2> HIDE DEF b
  <2>10. Len(b) = Len(s.names) /\ \A k \in 1..Len(b) : b[k].name = s.names[k]
    <3>1. \A k \in 1..Len(b) : k = 1
      BY <2>8
    <3>. QED  BY <2>5, <2>8, <2>9, <3>1
  <2>11. scan[f].params \in Seq(Binding)
    BY <1>5 DEF Progress
  <2>12. Agrees(segments, path, end.params, Len(segments), f)
    BY <1>7, <2>1, <2>2, <2>4, <2>8, <2>10, <2>11, AgreesAppend DEF s
  <2>13. end.params \in Seq(Binding)
    BY <1>5 DEF Progress
  <2>14. Last(end.params).value = v
    <3> DEFINE p == scan[f].params
    <3> HIDE DEF p
    <3>1. p \in Seq(Binding) /\ b \in Seq(Binding)
      BY <2>8, <2>11 DEF p
    <3>2. /\ Len(p \o b) = Len(p) + Len(b)
          /\ \A i \in 1..(Len(p) + Len(b)) : (p \o b)[i] = IF i <= Len(p) THEN p[i] ELSE b[i - Len(p)]
      BY <3>1, ConcatProperties
    <3>3. Len(p) \in Nat /\ Len(b) = 1
      BY <2>8, <2>11 DEF p
    <3> DEFINE x == Len(p) + 1
    <3>4. x \in 1..(Len(p) + Len(b)) /\ ~(x <= Len(p)) /\ x - Len(p) = 1 /\ x = Len(p \o b)
      BY <3>2, <3>3
    <3> HIDE DEF x
    <3>5. (p \o b)[x] = b[1]
      BY <3>2, <3>4
    <3>. QED  BY <2>4, <2>9, <3>4, <3>5 DEF Last, p
  <2>15. v = IF Len(path) = f THEN <<Blank>> ELSE From(path, f)
    <3>1. scan[f].rest = From(path, f) /\ f \in 0..Len(path)
      BY <1>1, <1>7 DEF After
    <3>2. f = Len(path) \/ f < Len(path)
      BY <1>1, <1>7
    <3>3. CASE f = Len(path)
      BY <3>1, <3>3, FromProperties DEF v, NoText
    <3>4. CASE f < Len(path)
      <4>1. From(path, f) # <<>> /\ Len(path) # f
        BY <1>1, <3>1, <3>4, FromProperties
      <4>. QED  BY <3>1, <4>1 DEF v, NoText
    <3>. QED  BY <3>2, <3>3, <3>4
  <2>. QED  BY <1>4, <1>7, <1>9, <2>12, <2>13, <2>14, <2>15, AgreesRebuilds DEF f
<1>. QED  BY <1>8, <1>9

(* A literal pattern describes the one path it spells.                     *)
LEMMA ExactDescribes ==
    ASSUME NEW text, IsText(text), Parses(text), IsExact(text), NEW path \in Seq(Word) \ {<<>>}
    PROVE  /\ WellFormed(Segments(text)) /\ ~IsWild(Segments(text))
           /\ Describes(Segments(text), path) <=> PathOf(text) = path
<1>1. WellFormed(Segments(text))
  BY ParsedIsWellFormed
<1>2. Len(text) \in Nat /\ DOMAIN text = 1..Len(text) /\ Len(text) # 0 /\ text \in Seq(Range(text))
  BY DEF IsText, Parses
<1>3. \A k \in 1..Len(text) :
         text[k].kind = "static" /\ text[k] = Static(text[k].literal) /\ text[k].literal \in Word
  BY <1>2, SegmentForms DEF IsText, IsExact
<1>4. \A w : Static(w).literal = w
  BY DEF Static
<1>5. PathOf(text) \in Seq(Word) /\ Len(PathOf(text)) = Len(text)
        /\ \A k \in 1..Len(text) : PathOf(text)[k] = text[k].literal
  BY <1>2, <1>3 DEF PathOf
<1>6. Blank \in Word
  BY DEF Word
<1>7. text = RootText <=> Len(text) = 1 /\ text[1].literal = Blank
  <2>1. RootText = <<Static(Blank)>> /\ Len(RootText) = 1 /\ RootText[1] = Static(Blank)
    BY DEF RootText
  <2>2. ASSUME Len(text) = 1, text[1].literal = Blank
        PROVE  text = RootText
    <3>1. text[1] = Static(Blank)
      BY <1>3, <2>2
    <3>2. Static(Blank) \in Range(text)
      BY <1>2, <2>2, <3>1 DEF Range
    <3>. QED  BY <1>2, <2>1, <2>2, <3>1, <3>2, IsSingleton
  <2>. QED  BY <1>4, <2>1, <2>2
<1>8. CASE text = RootText
  <2>1. Segments(text) = <<>> /\ ~IsWild(<<>>) /\ FixedLen(<<>>) = 0
    BY <1>8, EmptySeq DEF Segments, IsWild, FixedLen
  <2>2. Len(path) # 0
    OBVIOUS
  <2>3. Describes(<<>>, path) <=> path = <<Blank>>
    <3>1. Describes(<<>>, path) <=> (0 = Len(path) \/ path = <<Blank>>)
      BY <1>1, <2>1, DescribesStands
    <3>. QED  BY <2>2, <3>1
  <2>4. PathOf(text) = <<Blank>>
    BY <1>5, <1>6, <1>7, <1>8, IsSingleton
  <2>. QED  BY <1>1, <2>1, <2>3, <2>4
<1>9. CASE text # RootText
  <2>1. Segments(text) = text
    BY <1>9 DEF Segments
  <2>2. ~IsWild(text)
    BY <1>2, <1>3 DEF IsWild, Last
  <2>3. FixedLen(text) = Len(text)
    BY <2>2 DEF FixedLen
  <2>4. text # <<>>
    BY DEF Parses
  <2>5. Describes(text, path) <=>
          Len(text) = Len(path) /\ \A k \in 1..Len(text) : Stands(text, path, k)
    BY <1>1, <2>1, <2>2, <2>3, <2>4, DescribesStands
  <2>6. ASSUME PathOf(text) = path
        PROVE  Len(text) = Len(path) /\ \A k \in 1..Len(text) : Stands(text, path, k)
    <3>1. Len(text) = Len(path) /\ \A k \in 1..Len(text) : text[k].literal = path[k]
      BY <1>5, <2>6
    <3>2. ASSUME NEW k \in 1..Len(text)
          PROVE  Stands(text, path, k)
      <4>1. Accepts(text[k], path[k])
        BY <1>3, <3>1 DEF Accepts
      <4>2. ASSUME k = Len(path), path[k] = Blank
            PROVE  text[k] = Static(Blank) /\ k > 1
        <5>1. text[k].literal = Blank /\ text[k] = Static(Blank)
          BY <1>3, <3>1, <4>2
        <5>2. k # 1
          BY <1>7, <1>9, <3>1, <4>2, <5>1
        <5>. QED  BY <1>2, <5>1, <5>2
      <4>. QED  BY <4>1, <4>2 DEF Stands
    <3>. QED  BY <3>1, <3>2
  <2>7. ASSUME Len(text) = Len(path), \A k \in 1..Len(text) : Stands(text, path, k)
        PROVE  PathOf(text) = path
    <3>1. \A k \in 1..Len(text) : path[k] = text[k].literal
      BY <1>3, <2>7 DEF Stands, Accepts
    <3>. QED  BY <1>5, <2>7, <3>1, SeqEqual
  <2>. QED  BY <1>1, <2>1, <2>2, <2>5, <2>6, <2>7
<1>. QED  BY <1>8, <1>9

(* It binds no parameter, and needs none to give the path back.            *)
LEMMA ExactRebuilds ==
    ASSUME NEW text, IsText(text), Parses(text), IsExact(text), NEW path \in Seq(Word) \ {<<>>},
           Describes(Segments(text), path)
    PROVE  Rebuilds(Segments(text), <<>>, path)
<1> DEFINE segments == Segments(text)
           names == NamesUpTo(segments)
           n == Len(segments)
           Good == {k \in 0..n : names[k] = <<>>}
<1>1. WellFormed(segments) /\ ~IsWild(segments)
  BY ExactDescribes
<1>2. n \in Nat /\ FixedLen(segments) = n /\ <<>> \in Seq(Word) /\ <<>> \in Seq(Binding)
  BY <1>1, WellFormedLen, EmptySeq DEF FixedLen
<1>3. \A k \in 1..n : segments[k].names = <<>>
  <2>1. CASE text = RootText
    <3>1. n = 0
      BY <2>1, EmptySeq DEF Segments
    <3>. QED  BY <3>1
  <2>2. CASE text # RootText
    <3>1. segments = text /\ DOMAIN text = 1..n
      BY <1>1, <2>2, WellFormedLen DEF Segments
    <3>2. \A k \in 1..n : IsSegment(text[k]) /\ text[k].kind = "static"
      BY <3>1 DEF IsText, IsExact
    <3>. QED  BY <3>1, <3>2, SegmentForms
  <2>. QED  BY <2>1, <2>2
<1>4. /\ names[0] = <<>>
      /\ \A k \in 1..n : names[k] = names[k - 1] \o segments[k].names
  BY <1>1, NamesUpToDef
<1> HIDE DEF names, segments
<1>5. 0 \in Good
  BY <1>2, <1>4
<1>6. ASSUME NEW k \in 0..(n - 1), k \in Good
      PROVE  k + 1 \in Good
  <2> HIDE DEF n
  <2>1. k + 1 \in 1..n /\ (k + 1) - 1 = k /\ k + 1 \in 0..n
    BY <1>2
  <2>2. names[k + 1] = <<>> \o <<>>
    BY <1>3, <1>4, <1>6, <2>1
  <2>3. <<>> \o <<>> = <<>>
    BY <1>2, ConcatEmptySeq
  <2>. QED  BY <2>1, <2>2, <2>3
<1>7. 0..n \subseteq Good
  <2> HIDE DEF Good, n
  <2>. QED  BY <1>2, <1>5, <1>6, Induction
<1>8. \A k \in 0..n : names[k] = <<>>
  BY <1>7
<1>9. n <= Len(path) /\ \A k \in 1..n : Accepts(segments[k], path[k])
  <2>1. /\ FixedLen(segments) = Len(path) \/ (segments = <<>> /\ path = <<Blank>>)
        /\ \A k \in 1..FixedLen(segments) : Stands(segments, path, k)
    BY <1>1, DescribesStands DEF segments
  <2>2. segments = <<>> => n = 0
    BY EmptySeq
  <2>. QED  BY <1>2, <2>1, <2>2 DEF Stands
<1>10. Agrees(segments, path, <<>>, n, n)
  <2>1. Len(<<>>) = 0
    BY EmptySeq
  <2>2. \A j \in 1..n : names[j] = <<>> /\ Len(segments[j].names) = 0
    BY <1>2, <1>3, <1>8, <2>1
  <2>3. names[n] = <<>>
    BY <1>2, <1>8
  <2> HIDE DEF n
  <2>. QED  BY <2>1, <2>2, <2>3 DEF Agrees, names
<1>. QED  BY <1>1, <1>2, <1>9, <1>10, AgreesRebuilds DEF segments

(* The elements of a concatenation.                                        *)
LEMMA ConcatIs ==
    ASSUME NEW S, NEW T, NEW d \in Seq(S), NEW e \in Seq(T)
    PROVE  /\ d \o e \in Seq(S \cup T) /\ Len(d \o e) = Len(d) + Len(e)
           /\ Len(d) \in Nat /\ Len(e) \in Nat
           /\ \A i \in 1..Len(d) : (d \o e)[i] = d[i] /\ d[i] \in S
           /\ \A i \in 1..Len(e) : (d \o e)[Len(d) + i] = e[i] /\ e[i] \in T
           /\ \A j \in 1..Len(d \o e) :
                 j \in 1..Len(d) \/ (j - Len(d) \in 1..Len(e) /\ Len(d) + (j - Len(d)) = j)
<1> DEFINE U == S \cup T
<1>1. d \in Seq(U) /\ e \in Seq(U)
  BY LenProperties, ElementOfSeq, SeqDef
<1> HIDE DEF U
<1>2. /\ d \o e \in Seq(U) /\ Len(d \o e) = Len(d) + Len(e)
      /\ \A i \in 1..(Len(d) + Len(e)) :
            (d \o e)[i] = IF i <= Len(d) THEN d[i] ELSE e[i - Len(d)]
  BY <1>1, ConcatProperties
<1>3. Len(d) \in Nat /\ Len(e) \in Nat
  BY LenProperties
<1>4. (\A i \in 1..Len(d) : d[i] \in S) /\ \A i \in 1..Len(e) : e[i] \in T
  BY ElementOfSeq
<1> DEFINE x == Len(d)
           y == Len(e)
           c == d \o e
<1>5. c \in Seq(U) /\ Len(c) = x + y /\ x \in Nat /\ y \in Nat
  BY <1>2, <1>3
<1>6. \A i \in 1..(x + y) : c[i] = IF i <= x THEN d[i] ELSE e[i - x]
  BY <1>2
<1>7. (\A i \in 1..x : d[i] \in S) /\ \A i \in 1..y : e[i] \in T
  BY <1>4
<1> HIDE DEF c, x, y
<1>8. \A i \in 1..x : i \in 1..(x + y) /\ i <= x
  BY <1>5
<1>9. \A i \in 1..y : x + i \in 1..(x + y) /\ ~(x + i <= x) /\ (x + i) - x = i
  BY <1>5
<1>10. \A i \in 1..x : c[i] = d[i] /\ d[i] \in S
  BY <1>6, <1>7, <1>8
<1>11. \A i \in 1..y : c[x + i] = e[i] /\ e[i] \in T
  BY <1>6, <1>7, <1>9
<1>12. \A j \in 1..Len(c) : j \in 1..x \/ (j - x \in 1..y /\ x + (j - x) = j)
  BY <1>5
<1>. QED  BY <1>5, <1>10, <1>11, <1>12 DEF c, x, y, U

(* A prefixed text consists of segments of its two parts.                  *)
LEMMA ConcatIsText ==
    ASSUME NEW a, NEW b, IsText(a), IsText(b)
    PROVE  /\ IsText(a \o b)
           /\ \A k \in DOMAIN (a \o b) :
                 (a \o b)[k] \in Range(a) \cup Range(b)
<1>1. a \in Seq(Range(a)) /\ b \in Seq(Range(b))
  BY DEF IsText
<1> DEFINE c == a \o b
<1>2. /\ c \in Seq(Range(a) \cup Range(b)) /\ Len(c) = Len(a) + Len(b)
      /\ Len(a) \in Nat /\ Len(b) \in Nat
      /\ \A i \in 1..Len(a) : c[i] = a[i] /\ a[i] \in Range(a)
      /\ \A i \in 1..Len(b) : c[Len(a) + i] = b[i] /\ b[i] \in Range(b)
      /\ \A j \in 1..Len(c) :
            j \in 1..Len(a) \/ (j - Len(a) \in 1..Len(b) /\ Len(a) + (j - Len(a)) = j)
  BY <1>1, ConcatIs
<1> HIDE DEF c
<1>3. /\ DOMAIN c = 1..Len(c) /\ DOMAIN a = 1..Len(a) /\ DOMAIN b = 1..Len(b)
      /\ Len(c) \in Nat /\ c = [k \in 1..Len(c) |-> c[k]]
  BY <1>1, <1>2, LenProperties
<1>4. \A j \in 1..Len(c) : c[j] \in Range(a) \cup Range(b)
  BY <1>2, ElementOfSeq
<1>5. c \in Seq(Range(c))
  <2>1. \A j \in 1..Len(c) : c[j] \in Range(c)
    BY <1>3 DEF Range
  <2>. QED  BY <1>3, <2>1, SeqDef
<1>6. ASSUME NEW j \in 1..Len(c) PROVE IsSegment(c[j])
  <2>1. CASE j \in 1..Len(a)
    BY <1>2, <1>3, <2>1 DEF IsText
  <2>2. CASE j \notin 1..Len(a)
    <3> DEFINE i == j - Len(a)
    <3>1. i \in 1..Len(b) /\ Len(a) + i = j
      BY <1>2, <2>2
    <3> HIDE DEF i
    <3>2. c[j] = b[i]
      BY <1>2, <3>1
    <3>. QED  BY <1>3, <3>1, <3>2 DEF IsText
  <2>. QED  BY <2>1, <2>2
<1>. QED  BY <1>3, <1>4, <1>5, <1>6 DEF IsText, c

(* A pattern behind a literal text, as Mount and Route prefix it.          *)

(* The loop where it stands, with params bound before it started.          *)
Onto(params, m) ==
    [ok |-> m.ok, params |-> params \o m.params, rest |-> m.rest,
     terminalEmpty |-> m.terminalEmpty]

(* Concatenating is associative.                                           *)
LEMMA Associates ==
    ASSUME NEW a \in Seq(Binding), NEW b \in Seq(Binding), NEW c \in Seq(Binding)
    PROVE  (a \o b) \o c = a \o (b \o c)
<1> DEFINE S == Binding
<1> HIDE DEF S
<1>1. a \in Seq(S) /\ b \in Seq(S) /\ c \in Seq(S)
  BY DEF S
<1>. QED  BY <1>1, ConcatAssociative

(* The loop stands where its fields say.                                   *)
LEMMA ProgressIs ==
    ASSUME NEW m \in Progress, NEW n \in Progress, m.ok = n.ok, m.params = n.params,
           m.rest = n.rest, m.terminalEmpty = n.terminalEmpty
    PROVE  m = n
BY DEF Progress

(* A failure leaves the rest.                                              *)
LEMMA FailureIs ==
    ASSUME NEW m \in Progress, NEW x \in BOOLEAN
    PROVE  /\ [m EXCEPT !.ok = x] \in Progress
           /\ [m EXCEPT !.ok = x].ok = x
           /\ [m EXCEPT !.ok = x].params = m.params
           /\ [m EXCEPT !.ok = x].rest = m.rest
           /\ [m EXCEPT !.ok = x].terminalEmpty = m.terminalEmpty
BY DEF Progress

(* The fields of where the loop stands.                                    *)
LEMMA OntoIs ==
    ASSUME NEW m \in Progress, NEW params \in Seq(Binding)
    PROVE  /\ Onto(params, m) \in Progress
           /\ Onto(params, m).ok = m.ok /\ Onto(params, m).params = params \o m.params
           /\ Onto(params, m).rest = m.rest
           /\ Onto(params, m).terminalEmpty = m.terminalEmpty
BY ConcatProperties DEF Progress, Onto

(* A failure binds nothing.                                                *)
LEMMA FailedOnto ==
    ASSUME NEW m \in Progress, NEW params \in Seq(Binding)
    PROVE  [Onto(params, m) EXCEPT !.ok = FALSE] = Onto(params, [m EXCEPT !.ok = FALSE])
<1> DEFINE f == [m EXCEPT !.ok = FALSE]
           n == Onto(params, m)
           g == [n EXCEPT !.ok = FALSE]
<1>1. /\ f \in Progress /\ f.ok = FALSE /\ f.params = m.params /\ f.rest = m.rest
      /\ f.terminalEmpty = m.terminalEmpty
  BY FailureIs
<1>2. /\ n \in Progress /\ n.params = params \o m.params /\ n.rest = m.rest
      /\ n.terminalEmpty = m.terminalEmpty
  BY OntoIs
<1> HIDE DEF f, n
<1>3. /\ g \in Progress /\ g.ok = FALSE /\ g.params = n.params /\ g.rest = n.rest
      /\ g.terminalEmpty = n.terminalEmpty
  BY <1>2, FailureIs
<1>4. /\ Onto(params, f) \in Progress /\ Onto(params, f).ok = f.ok
      /\ Onto(params, f).params = params \o f.params /\ Onto(params, f).rest = f.rest
      /\ Onto(params, f).terminalEmpty = f.terminalEmpty
  BY <1>1, OntoIs
<1> HIDE DEF g
<1>5. g = Onto(params, f)
  BY <1>1, <1>2, <1>3, <1>4, ProgressIs
<1>. QED  BY <1>5 DEF f, g, n

(* What was bound before a turn stays in front of what it binds.           *)
LEMMA MatchSegmentOnto ==
    ASSUME NEW m \in Progress, NEW s, IsSegment(s), s.kind # "malformed",
           NEW params \in Seq(Binding)
    PROVE  MatchSegment(Onto(params, m), s) = Onto(params, MatchSegment(m, s))
<1> DEFINE n     == Onto(params, m)
           empty == m.rest \in NoText
           part  == IF empty THEN Blank ELSE Head(m.rest)
           fits  == ~empty \/ (m.terminalEmpty /\ s = Static(Blank))
<1>1. /\ n.ok = m.ok /\ n.rest = m.rest /\ n.terminalEmpty = m.terminalEmpty
      /\ n.params = params \o m.params
  BY DEF Onto
<1>2. m.params \in Seq(Binding) /\ MatchSegment(m, s) \in Progress
  BY MatchSegmentType DEF Progress
<1>3. ASSUME NEW b \in Seq(Binding)
      PROVE  (params \o m.params) \o b = params \o (m.params \o b)
  BY <1>2, Associates
<1>a. Blank \in Word /\ part \in Word /\ m.rest \in Seq(Word)
  <2>1. Blank \in Word
    BY DEF Word
  <2>2. ASSUME m.rest # <<>> PROVE Head(m.rest) \in Word
    BY <2>2 DEF Progress
  <2>. QED  BY <2>1, <2>2 DEF NoText, Progress
<1>4. CASE m.ok /\ s.kind = "wildcard"
  <2> DEFINE b == Bind(s.names, << IF empty THEN <<Blank>> ELSE m.rest >>)
  <2>1. b \in Seq(Binding)
    <3> DEFINE v == << IF empty THEN <<Blank>> ELSE m.rest >>
    <3>1. v[1] \in Seq(Word)
      BY <1>a, Singleton
    <3> HIDE DEF v
    <3>2. s.names \in Seq(Word) /\ Len(s.names) = 1
      BY <1>4, SegmentForms
    <3>3. \A k \in 1..Len(s.names) : v[k] \in Seq(Word)
      BY <3>1, <3>2
    <3>4. Bind(s.names, v) \in Seq(Binding)
      BY <3>2, <3>3, BindType
    <3>. QED  BY <3>4 DEF v
  <2>2. MatchSegment(m, s) = [ok |-> TRUE, rest |-> <<>>, terminalEmpty |-> FALSE,
                              params |-> m.params \o b]
    BY <1>4 DEF MatchSegment
  <2>3. MatchSegment(n, s) = [ok |-> TRUE, rest |-> <<>>, terminalEmpty |-> FALSE,
                              params |-> (params \o m.params) \o b]
    BY <1>1, <1>4 DEF MatchSegment
  <2>4. (params \o m.params) \o b = params \o (m.params \o b)
    BY <1>3, <2>1
  <2> HIDE DEF b, n
  <2>5. Onto(params, MatchSegment(m, s)) = MatchSegment(n, s)
    BY <2>2, <2>3, <2>4 DEF Onto
  <2>. QED  BY <2>5 DEF n
<1>5. CASE m.ok /\ s.kind # "wildcard" /\ fits /\ Accepts(s, part)
  <2> DEFINE b == Bind(s.names, Captured(s, part))
  <2>1. b \in Seq(Binding)
    BY <1>a, <1>5, CapturedType
  <2>2. MatchSegment(m, s) =
          [ok |-> TRUE, rest |-> IF empty THEN <<>> ELSE Tail(m.rest),
           terminalEmpty |-> m.terminalEmpty /\ ~empty, params |-> m.params \o b]
    BY <1>5 DEF MatchSegment
  <2>3. MatchSegment(n, s) =
          [ok |-> TRUE, rest |-> IF empty THEN <<>> ELSE Tail(m.rest),
           terminalEmpty |-> m.terminalEmpty /\ ~empty, params |-> (params \o m.params) \o b]
    BY <1>1, <1>5 DEF MatchSegment
  <2>4. (params \o m.params) \o b = params \o (m.params \o b)
    BY <1>3, <2>1
  <2> HIDE DEF b, n
  <2>5. Onto(params, MatchSegment(m, s)) = MatchSegment(n, s)
    BY <2>2, <2>3, <2>4 DEF Onto
  <2>. QED  BY <2>5 DEF n
<1>6. CASE ~m.ok \/ (s.kind # "wildcard" /\ ~(fits /\ Accepts(s, part)))
  <2>1. MatchSegment(m, s) = [m EXCEPT !.ok = FALSE]
    BY <1>6 DEF MatchSegment
  <2>2. MatchSegment(n, s) = [n EXCEPT !.ok = FALSE]
    BY <1>1, <1>6 DEF MatchSegment
  <2>3. [n EXCEPT !.ok = FALSE] = Onto(params, [m EXCEPT !.ok = FALSE])
    BY FailedOnto
  <2> HIDE DEF n
  <2>4. MatchSegment(n, s) = Onto(params, MatchSegment(m, s))
    BY <2>1, <2>2, <2>3
  <2>. QED  BY <2>4 DEF n
<1>. QED  BY <1>4, <1>5, <1>6

(* Matching with parameters bound before adds the same ones to them.       *)
LEMMA MatchRouteOnto ==
    ASSUME NEW segments, WellFormed(segments), NEW path \in Seq(Word) \ {<<>>},
           NEW params \in Seq(Binding), MatchRoute(segments, path, params).ok
    PROVE  /\ MatchRoute(segments, path, <<>>).ok
           /\ MatchRoute(segments, path, params).params =
                 params \o MatchRoute(segments, path, <<>>).params
           /\ MatchRoute(segments, path, <<>>).params \in Seq(Binding)
<1> DEFINE n == Len(segments)
           from == Scan(segments, path, params)
           scan == Scan(segments, path, <<>>)
           Good == {k \in 0..n : from[k] = Onto(params, scan[k])}
<1>1. <<>> \in Seq(Binding) /\ n \in Nat
  BY EmptySeq, WellFormedLen
<1>2. /\ scan \in [0..n -> Progress] /\ scan[0] = Start(path, <<>>)
      /\ \A k \in 1..n : scan[k] = MatchSegment(scan[k - 1], segments[k])
  BY <1>1, ScanDef
<1>3. /\ from[0] = Start(path, params)
      /\ \A k \in 1..n : from[k] = MatchSegment(from[k - 1], segments[k])
  BY ScanDef
<1>4. \A k \in 1..n : IsSegment(segments[k]) /\ segments[k].kind # "malformed"
  BY FixedSegments
<1> HIDE DEF n, from, scan
<1>5. 0 \in Good
  <2>1. Start(path, params) = Onto(params, Start(path, <<>>))
    <3>1. params \o <<>> = params
      BY ConcatEmptySeq
    <3>. QED  BY <3>1 DEF Start, Onto
  <2>. QED  BY <1>1, <1>2, <1>3, <2>1
<1>6. ASSUME NEW k \in 0..(n - 1), k \in Good PROVE k + 1 \in Good
  <2>1. k + 1 \in 1..n /\ k + 1 \in 0..n /\ (k + 1) - 1 = k /\ k \in 0..n
    BY <1>1
  <2>2. from[k + 1] = MatchSegment(Onto(params, scan[k]), segments[k + 1])
    BY <1>3, <1>6, <2>1
  <2>3. scan[k] \in Progress /\ scan[k + 1] = MatchSegment(scan[k], segments[k + 1])
    BY <1>2, <2>1
  <2>4. from[k + 1] = Onto(params, scan[k + 1])
    BY <1>4, <2>1, <2>2, <2>3, MatchSegmentOnto
  <2>. QED  BY <2>1, <2>4
<1>7. from[n] = Onto(params, scan[n])
  <2> HIDE DEF Good
  <2>1. 0..n \subseteq Good
    BY <1>1, <1>5, <1>6, Induction
  <2>2. n \in 0..n
    BY <1>1
  <2>. QED  BY <2>1, <2>2 DEF Good
<1>8. scan[n] \in Progress
  BY <1>1, <1>2
<1>9. Matched(from[n]) <=> Matched(scan[n])
  BY <1>7 DEF Onto, Matched
<1>10. from[n].params = params \o scan[n].params /\ scan[n].params \in Seq(Binding)
  BY <1>7, <1>8 DEF Onto, Progress
<1>11. MatchRoute(segments, path, params) =
         [ok |-> Matched(from[n]), params |-> IF Matched(from[n]) THEN from[n].params ELSE params]
  BY DEF MatchRoute, from, n
<1>12. MatchRoute(segments, path, <<>>) =
         [ok |-> Matched(scan[n]), params |-> IF Matched(scan[n]) THEN scan[n].params ELSE <<>>]
  BY DEF MatchRoute, scan, n
<1>13. Matched(from[n]) /\ Matched(scan[n])
  BY <1>9, <1>11
<1>14. MatchRoute(segments, path, params).params = from[n].params
  BY <1>11, <1>13
<1>15. MatchRoute(segments, path, <<>>).params = scan[n].params /\ MatchRoute(segments, path, <<>>).ok
  BY <1>12, <1>13
<1>. QED  BY <1>10, <1>14, <1>15

(* A literal text, part by part.                                           *)
LEMMA LiteralIs ==
    ASSUME NEW text, IsText(text), IsExact(text)
    PROVE  /\ Len(text) \in Nat /\ DOMAIN text = 1..Len(text)
           /\ \A k \in 1..Len(text) :
                 /\ text[k].kind = "static" /\ text[k].names = <<>>
                 /\ Accepts(text[k], text[k].literal)
           /\ PathOf(text) \in Seq(Word) /\ Len(PathOf(text)) = Len(text)
           /\ \A k \in 1..Len(text) : PathOf(text)[k] = text[k].literal
<1>1. Len(text) \in Nat /\ DOMAIN text = 1..Len(text)
  BY DEF IsText
<1>2. \A k \in 1..Len(text) :
         text[k].kind = "static" /\ text[k].names = <<>> /\ text[k].literal \in Word
  BY <1>1, SegmentForms DEF IsText, IsExact
<1>3. PathOf(text) \in Seq(Word) /\ Len(PathOf(text)) = Len(text)
        /\ \A k \in 1..Len(text) : PathOf(text)[k] = text[k].literal
  BY <1>1, <1>2 DEF PathOf
<1>4. \A k \in 1..Len(text) : Accepts(text[k], text[k].literal)
  BY <1>2 DEF Accepts
<1>. QED  BY <1>1, <1>2, <1>3, <1>4

(* A pattern behind a literal text, and a path behind what the text spells. *)
LEMMA BehindIs ==
    ASSUME NEW P, IsText(P), IsExact(P), NEW p, IsText(p), Parses(p),
           NEW rest \in Seq(Word) \ {<<>>}
    PROVE  LET w == P \o p
               full == PathOf(P) \o rest
           IN  /\ Len(P) \in Nat /\ Len(p) \in Nat \ {0} /\ Len(w) = Len(P) + Len(p)
               /\ \A k \in 1..Len(P) : w[k] = P[k]
               /\ \A k \in 1..Len(p) : w[Len(P) + k] = p[k]
               /\ full \in Seq(Word) \ {<<>>} /\ Len(full) = Len(P) + Len(rest)
               /\ Len(rest) \in Nat \ {0}
               /\ \A k \in 1..Len(P) : full[k] = P[k].literal
               /\ \A k \in 1..Len(rest) : full[Len(P) + k] = rest[k]
               /\ WellFormed(w) /\ WellFormed(p)
               /\ IsWild(w) <=> IsWild(p)
               /\ FixedLen(w) = Len(P) + FixedLen(p)
<1> DEFINE w == P \o p
           full == PathOf(P) \o rest
<1>1. P \in Seq(Range(P)) /\ p \in Seq(Range(p)) /\ IsText(w) /\ w \in Seq(Range(w))
  BY ConcatIsText DEF IsText
<1>2. /\ Len(w) = Len(P) + Len(p) /\ Len(P) \in Nat /\ Len(p) \in Nat
      /\ \A k \in 1..Len(P) : w[k] = P[k]
      /\ \A k \in 1..Len(p) : w[Len(P) + k] = p[k]
      /\ \A j \in 1..Len(w) :
            j \in 1..Len(P) \/ (j - Len(P) \in 1..Len(p) /\ Len(P) + (j - Len(P)) = j)
  BY <1>1, ConcatIs
<1>3. Len(p) # 0 /\ DOMAIN p = 1..Len(p) /\ DOMAIN w = 1..Len(w)
  BY <1>1, LenProperties DEF Parses
<1>4. /\ PathOf(P) \in Seq(Word) /\ Len(PathOf(P)) = Len(P)
      /\ \A k \in 1..Len(P) : PathOf(P)[k] = P[k].literal /\ P[k].kind = "static"
  BY LiteralIs
<1>5. rest \in Seq(Word) /\ Len(rest) \in Nat \ {0}
  OBVIOUS
<1>6. /\ full \in Seq(Word \cup Word) /\ Len(full) = Len(P) + Len(rest)
      /\ \A k \in 1..Len(P) : full[k] = P[k].literal
      /\ \A k \in 1..Len(rest) : full[Len(P) + k] = rest[k]
  <2> DEFINE d == PathOf(P)
  <2>1. d \in Seq(Word) /\ Len(d) = Len(P) /\ \A k \in 1..Len(P) : d[k] = P[k].literal
    BY <1>4
  <2> HIDE DEF d
  <2>2. /\ d \o rest \in Seq(Word \cup Word) /\ Len(d \o rest) = Len(d) + Len(rest)
        /\ \A i \in 1..Len(d) : (d \o rest)[i] = d[i]
        /\ \A i \in 1..Len(rest) : (d \o rest)[Len(d) + i] = rest[i]
    <3> HIDE DEF full, w
    <3>1. d \in Seq(Word) /\ rest \in Seq(Word)
      BY <1>5, <2>1
    <3>. QED  BY <3>1, ConcatIs
  <2>. QED  BY <2>1, <2>2 DEF d
<1>7. full \in Seq(Word) \ {<<>>}
  <2>1. Word \cup Word = Word
    OBVIOUS
  <2> HIDE DEF full
  <2>2. full # <<>>
    BY <1>2, <1>5, <1>6, EmptySeq
  <2>. QED  BY <1>6, <2>1, <2>2
<1>8. WellFormed(p)
  BY DEF WellFormed, IsText, Parses
<1>9. WellFormed(w)
  <2> HIDE DEF w
  <2>1. ASSUME NEW j \in DOMAIN w
        PROVE  /\ IsSegment(w[j]) /\ w[j].kind # "malformed"
               /\ w[j].kind = "wildcard" => j = Len(w)
    <3>1. IsSegment(w[j])
      BY <1>1 DEF IsText
    <3>2. CASE j \in 1..Len(P)
      <4>1. w[j].kind = "static"
        BY <1>2, <1>4, <3>2
      <4>. QED  BY <3>1, <4>1
    <3>3. CASE j \notin 1..Len(P)
      <4> DEFINE k == j - Len(P)
      <4>1. k \in 1..Len(p) /\ Len(P) + k = j
        BY <1>2, <1>3, <3>3
      <4>2. w[j] = p[k]
        BY <1>2, <4>1
      <4>3. p[k].kind # "malformed" /\ (p[k].kind = "wildcard" => k = Len(p))
        BY <1>3, <1>8, <4>1 DEF WellFormed
      <4> HIDE DEF k
      <4>. QED  BY <1>2, <3>1, <4>1, <4>2, <4>3
    <3>. QED  BY <3>2, <3>3
  <2>. QED  BY <1>1, <2>1 DEF WellFormed
<1>10. w # <<>> /\ p # <<>> /\ w[Len(w)] = p[Len(p)]
  <2>1. Len(p) \in 1..Len(p)
    BY <1>2, <1>3
  <2>2. w[Len(P) + Len(p)] = p[Len(p)]
    BY <1>2, <2>1
  <2> HIDE DEF w
  <2>3. w # <<>>
    BY <1>2, <1>3, EmptySeq
  <2>. QED  BY <1>2, <1>3, <2>2, <2>3, EmptySeq
<1>11. IsWild(w) <=> IsWild(p)
  BY <1>10 DEF IsWild, Last
<1> HIDE DEF w, full
<1>12. FixedLen(w) = Len(P) + FixedLen(p)
  BY <1>2, <1>3, <1>11 DEF FixedLen
<1>. QED  BY <1>2, <1>3, <1>5, <1>6, <1>7, <1>8, <1>9, <1>11, <1>12 DEF w, full

(* It describes the path if the pattern describes what is left.            *)
LEMMA DescribesBehind ==
    ASSUME NEW P, IsText(P), IsExact(P), NEW p, IsText(p), Parses(p),
           NEW rest \in Seq(Word) \ {<<>>}, Describes(Segments(p), rest)
    PROVE  Describes(Segments(P \o p), PathOf(P) \o rest)
<1> DEFINE w == P \o p
           full == PathOf(P) \o rest
           n == Len(P)
<1>1. /\ n \in Nat /\ Len(p) \in Nat \ {0} /\ Len(w) = n + Len(p)
      /\ \A k \in 1..n : w[k] = P[k]
      /\ \A k \in 1..Len(p) : w[n + k] = p[k]
      /\ full \in Seq(Word) \ {<<>>} /\ Len(full) = n + Len(rest) /\ Len(rest) \in Nat \ {0}
      /\ \A k \in 1..n : full[k] = P[k].literal
      /\ \A k \in 1..Len(rest) : full[n + k] = rest[k]
      /\ WellFormed(w) /\ WellFormed(p) /\ (IsWild(w) <=> IsWild(p))
      /\ FixedLen(w) = n + FixedLen(p)
  BY BehindIs
<1>2. \A k \in 1..n : Accepts(P[k], P[k].literal)
  BY LiteralIs
<1>3. CASE P = <<>>
  <2>1. w = p
    <3>1. p \in Seq(Range(p))
      BY DEF IsText
    <3>. QED  BY <1>3, <3>1, ConcatEmptySeq
  <2>2. PathOf(P) = <<>>
    BY <1>3 DEF PathOf
  <2>3. full = rest
    <3>1. rest \in Seq(Word)
      OBVIOUS
    <3>. QED  BY <2>2, <3>1, ConcatEmptySeq
  <2>. QED  BY <2>1, <2>3
<1>4. CASE P # <<>>
  <2>1. n > 0
    BY <1>1, <1>4, EmptySeq DEF IsText
  <2> HIDE DEF w, full, n
  <2>2. Segments(w) = w /\ w # <<>>
    <3>1. Len(RootText) = 1 /\ Len(<<>>) = 0
      BY DEF RootText
    <3>2. Len(w) # 1 /\ Len(w) # 0
      BY <1>1, <2>1
    <3> HIDE DEF RootText
    <3>3. w # RootText /\ w # <<>>
      BY <3>1, <3>2
    <3>. QED  BY <3>3 DEF Segments
  <2>3. ASSUME NEW k \in 1..n PROVE Stands(w, full, k)
    <3>1. k # Len(full) /\ w[k] = P[k] /\ full[k] = P[k].literal
      BY <1>1
    <3>. QED  BY <1>2, <3>1 DEF Stands
  <2>4. ASSUME NEW k \in 1..FixedLen(p),
               k <= Len(rest), Accepts(p[k], rest[k]),
               k = Len(rest) /\ rest[k] = Blank => p[k] = Static(Blank)
        PROVE  Stands(w, full, n + k)
    <3>1. k \in 1..Len(p) /\ k \in 1..Len(rest)
      <4>1. FixedLen(p) \in 0..Len(p)
        BY <1>1, FixedSegments
      <4>2. Len(p) \in Nat /\ Len(rest) \in Nat
        BY <1>1
      <4>. QED  BY <2>4, <4>1, <4>2
    <3>2. w[n + k] = p[k] /\ full[n + k] = rest[k] /\ n + k > 1
      BY <1>1, <2>1, <3>1
    <3>3. n + k = Len(full) => k = Len(rest)
      BY <1>1, <3>1
    <3>. QED  BY <2>4, <3>2, <3>3 DEF Stands
  <2>5. /\ \A k \in 1..FixedLen(p) : k <= Len(rest) /\ Accepts(p[k], rest[k])
               /\ (k = Len(rest) /\ rest[k] = Blank => p[k] = Static(Blank))
        /\ IF IsWild(p) THEN FixedLen(p) <= Len(rest) ELSE FixedLen(p) = Len(rest)
    <3>1. CASE p = RootText
      <4>1. Describes(<<>>, rest)
        BY <3>1 DEF Segments
      <4>2. WellFormed(<<>>) /\ FixedLen(<<>>) = 0 /\ ~IsWild(<<>>)
        <5>1. <<>> \in Seq(Range(<<>>))
          BY EmptySeq
        <5>. QED  BY <5>1, EmptySeq DEF WellFormed, FixedLen, IsWild
      <4>3. rest = <<Blank>>
        BY <1>1, <4>1, <4>2, DescribesStands
      <4>4. Len(p) = 1 /\ p[1] = Static(Blank) /\ Len(rest) = 1 /\ rest[1] = Blank
        BY <3>1, <4>3 DEF RootText
      <4>5. ~IsWild(p) /\ FixedLen(p) = 1
        BY <4>4 DEF IsWild, Last, FixedLen, Static
      <4>6. Accepts(p[1], rest[1])
        BY <4>4 DEF Accepts, Static
      <4>7. \A k \in 1..FixedLen(p) : k = 1
        BY <4>5
      <4>. QED  BY <4>4, <4>5, <4>6, <4>7
    <3>2. CASE p # RootText
      <4>1. Describes(p, rest) /\ p # <<>>
        BY <3>2 DEF Segments, Parses
      <4>2. /\ IF IsWild(p) THEN FixedLen(p) <= Len(rest) ELSE FixedLen(p) = Len(rest)
            /\ \A k \in 1..FixedLen(p) : Stands(p, rest, k)
        BY <1>1, <4>1, DescribesStands
      <4>3. FixedLen(p) \in Nat /\ FixedLen(p) <= Len(rest)
        BY <1>1, <4>2, FixedSegments
      <4>4. \A k \in 1..FixedLen(p) : k <= Len(rest)
        BY <1>1, <4>3
      <4>. QED  BY <4>2, <4>4 DEF Stands
    <3>. QED  BY <3>1, <3>2
  <2>6. FixedLen(p) \in Nat
    BY <1>1, FixedSegments
  <2>7. \A k \in 1..FixedLen(w) : Stands(w, full, k)
    <3> TAKE k \in 1..FixedLen(w)
    <3>1. CASE k \in 1..n
      BY <2>3, <3>1
    <3>2. CASE k \notin 1..n
      <4> DEFINE i == k - n
      <4>1. i \in 1..FixedLen(p) /\ n + i = k
        BY <1>1, <2>6, <3>2
      <4> HIDE DEF i
      <4>2. Stands(w, full, n + i)
        BY <2>4, <2>5, <4>1
      <4>. QED  BY <4>1, <4>2
    <3>. QED  BY <3>1, <3>2
  <2>8. IF IsWild(w) THEN FixedLen(w) <= Len(full) ELSE FixedLen(w) = Len(full)
    <3>1. /\ FixedLen(w) = n + FixedLen(p) /\ Len(full) = n + Len(rest) /\ n \in Nat
          /\ Len(rest) \in Nat /\ (IsWild(w) <=> IsWild(p))
      BY <1>1
    <3>2. CASE IsWild(p)
      <4>1. FixedLen(p) <= Len(rest) /\ IsWild(w)
        BY <2>5, <3>1, <3>2
      <4>2. FixedLen(w) <= Len(full)
        BY <2>6, <3>1, <4>1
      <4>. QED  BY <4>1, <4>2
    <3>3. CASE ~IsWild(p)
      <4>1. FixedLen(p) = Len(rest) /\ ~IsWild(w)
        BY <2>5, <3>1, <3>3
      <4>2. FixedLen(w) = Len(full)
        BY <3>1, <4>1
      <4>. QED  BY <4>1, <4>2
    <3>. QED  BY <3>2, <3>3
  <2>9. Describes(w, full)
    BY <1>1, <2>7, <2>8, DescribesStands
  <2>. QED  BY <2>2, <2>9 DEF w, full
<1>. QED  BY <1>3, <1>4

(* Where the loop stands after k segments, and where it starts.            *)
LEMMA ScanIn ==
    ASSUME NEW segments, WellFormed(segments), NEW path \in Seq(Word) \ {<<>>},
           NEW k \in 0..Len(segments)
    PROVE  Scan(segments, path, <<>>)[k] \in Progress
<1>1. <<>> \in Seq(Binding)
  BY EmptySeq
<1>2. Scan(segments, path, <<>>) \in [0..Len(segments) -> Progress]
  BY <1>1, ScanDef
<1>. QED  BY <1>2

(* The loop starts with the whole path.                                    *)
LEMMA StartIs ==
    ASSUME NEW path \in Seq(Word) \ {<<>>}
    PROVE  Start(path, <<>>) \in Progress
<1>1. <<>> \in Seq(Binding) /\ path \in Seq(Word)
  BY EmptySeq
<1>. QED  BY <1>1 DEF Start, Progress

(* Literal segments bind nothing.                                          *)
LEMMA ScanLiterals ==
    ASSUME NEW segments, WellFormed(segments), NEW path \in Seq(Word) \ {<<>>},
           NEW n \in 0..FixedLen(segments),
           \A k \in 1..n : segments[k].kind = "static" /\ segments[k].names = <<>>,
           Scan(segments, path, <<>>)[n].ok
    PROVE  Scan(segments, path, <<>>)[n].params = <<>>
<1> DEFINE Good == {k \in 0..n : Len(NamesUpTo(segments)[k]) = 0}
<1>1. FixedLen(segments) \in 0..Len(segments) /\ Len(segments) \in Nat
  BY WellFormedLen, FixedSegments
<1>2. n \in Nat /\ n \in 0..Len(segments) /\ \A k \in 0..n : k \in 0..Len(segments)
  BY <1>1
<1>3. /\ NamesUpTo(segments) \in [0..Len(segments) -> Seq(Word)]
      /\ NamesUpTo(segments)[0] = <<>>
      /\ \A k \in 1..Len(segments) :
            NamesUpTo(segments)[k] = NamesUpTo(segments)[k - 1] \o segments[k].names
  BY NamesUpToDef
<1>4. 0 \in Good
  BY <1>2, <1>3, EmptySeq
<1>5. ASSUME NEW k \in 0..(n - 1), k \in Good PROVE k + 1 \in Good
  <2>1. k + 1 \in 1..n /\ k + 1 \in 1..Len(segments) /\ (k + 1) - 1 = k /\ k \in 0..Len(segments)
    BY <1>2
  <2>2. NamesUpTo(segments)[k + 1] = NamesUpTo(segments)[k] \o <<>>
    BY <1>3, <2>1
  <2>3. NamesUpTo(segments)[k] \in Seq(Word)
    BY <1>3, <2>1
  <2>4. NamesUpTo(segments)[k + 1] = NamesUpTo(segments)[k]
    BY <2>2, <2>3, ConcatEmptySeq
  <2>. QED  BY <1>5, <2>1, <2>4
<1>6. Len(NamesUpTo(segments)[n]) = 0
  <2> HIDE DEF Good
  <2>1. 0..n \subseteq Good
    BY <1>2, <1>4, <1>5, Induction
  <2>2. n \in 0..n
    BY <1>2
  <2>. QED  BY <2>1, <2>2 DEF Good
<1> DEFINE params == Scan(segments, path, <<>>)[n].params
<1>7. Agrees(segments, path, params, n, n)
  BY ScanAgrees
<1>8. params \in Seq(Binding)
  <2>1. Scan(segments, path, <<>>)[n] \in Progress
    BY <1>2, ScanIn
  <2>. QED  BY <2>1 DEF Progress
<1> HIDE DEF params
<1>9. Len(params) = 0
  BY <1>6, <1>7 DEF Agrees
<1>. QED  BY <1>8, <1>9, EmptySeq DEF params

(* A literal pattern binds nothing.                                        *)
LEMMA MatchLiterals ==
    ASSUME NEW segments, WellFormed(segments), NEW path \in Seq(Word) \ {<<>>},
           Describes(segments, path),
           \A k \in 1..Len(segments) : segments[k].kind = "static" /\ segments[k].names = <<>>
    PROVE  Rebuilds(segments, <<>>, path)
<1> DEFINE n == Len(segments)
           m == MatchRoute(segments, path, <<>>)
<1>1. <<>> \in Seq(Binding) /\ n \in Nat
  BY EmptySeq, WellFormedLen
<1>2. m.ok
  BY <1>1, MatchRouteDescribes
<1>3. FixedLen(segments) = n
  <2>1. IsWild(segments) => n = FixedLen(segments) + 1 /\ segments[FixedLen(segments) + 1].kind = "wildcard"
    BY FixedSegments
  <2>2. ~IsWild(segments)
    BY <1>1, <2>1, FixedSegments
  <2>. QED  BY <2>2 DEF FixedLen
<1>4. m.params = Scan(segments, path, <<>>)[n].params /\ Scan(segments, path, <<>>)[n].ok
  BY <1>2 DEF MatchRoute, Matched
<1>5. m.params = <<>>
  <2>1. n \in 0..FixedLen(segments)
    BY <1>1, <1>3
  <2> HIDE DEF m
  <2>. QED  BY <1>4, <2>1, ScanLiterals
<1>. QED  BY <1>2, <1>5, MatchRouteRebuilds

(* The loop at the end of the literal text is where the loop over what is  *)
(* left starts, but for an empty rest.                                     *)
LEMMA ScanBehind ==
    ASSUME NEW segments, WellFormed(segments), NEW path \in Seq(Word) \ {<<>>},
           NEW n \in 0..FixedLen(segments), n < Len(path),
           \A k \in 1..n : segments[k].kind = "static" /\ segments[k].names = <<>>,
           Scan(segments, path, <<>>)[n].ok, From(path, n) # <<Blank>>
    PROVE  Scan(segments, path, <<>>)[n] = Start(From(path, n), <<>>)
<1> DEFINE m == Scan(segments, path, <<>>)[n]
           rest == From(path, n)
           start == Start(rest, <<>>)
<1>1. <<>> \in Seq(Binding) /\ n \in Nat /\ Len(path) \in Nat /\ path \in Seq(Word)
  BY EmptySeq, FixedSegments
<1>2. n \in 0..Len(segments) /\ n + 1 \in 1..Len(path)
  BY <1>1, FixedSegments, WellFormedLen
<1>3. m \in Progress
  BY <1>2, ScanIn
<1>4. m.params = <<>> /\ m.ok
  BY ScanLiterals
<1>5. After(m, path, n)
  BY <1>1, ScanFixed
<1>6. /\ rest \in Seq(Word) /\ Len(rest) = Len(path) - n
      /\ rest[Len(rest)] = path[Len(path)]
  <2> DEFINE l == Len(path)
  <2> HIDE DEF l
  <2>1. l \in Nat /\ n + 1 \in 1..l + 1 /\ l \in n..l /\ l - n \in 1..(l - n)
    BY <1>1 DEF l
  <2>2. /\ SubSeq(path, n + 1, l) \in Seq(Word)
        /\ Len(SubSeq(path, n + 1, l)) = l - n
        /\ SubSeq(path, n + 1, l)[l - n] = path[l]
    <3>1. n + 1 \in 1..Len(path) + 1 /\ l \in (n + 1) - 1..Len(path)
      BY <1>1, <2>1 DEF l
    <3>2. /\ SubSeq(path, n + 1, l) \in Seq(Word)
          /\ Len(SubSeq(path, n + 1, l)) = l - (n + 1) + 1
          /\ \A i \in 1..(l - (n + 1) + 1) : SubSeq(path, n + 1, l)[i] = path[(n + 1) + i - 1]
      BY <1>1, <3>1, SubSeqProperties
    <3>3. l - (n + 1) + 1 = l - n /\ (n + 1) + (l - n) - 1 = l
      BY <1>1, <2>1
    <3>. QED  BY <2>1, <3>2, <3>3
  <2>. QED  BY <2>2 DEF From, l
<1>7. path # <<Blank>>
  <2>1. n = 0 => path = rest
    <3>1. 0 \in 0..Len(path)
      BY <1>1
    <3>. QED  BY <1>1, <3>1, FromProperties
  <2>2. Len(path) = 1 => n = 0
    BY <1>1
  <2> HIDE DEF rest
  <2>3. path = <<Blank>> => Len(path) = 1
    OBVIOUS
  <2>4. rest # <<Blank>>
    BY DEF rest
  <2>. QED  BY <2>1, <2>2, <2>3, <2>4
<1>8. start \in Progress
  <2>1. rest \in Seq(Word) \ {<<>>}
    <3> HIDE DEF rest
    <3>. QED  BY <1>1, <1>6, EmptySeq
  <2>. QED  BY <2>1, StartIs
<1>9. /\ start.ok /\ start.params = <<>> /\ start.rest = rest
      /\ start.terminalEmpty = (rest # <<Blank>> /\ Last(rest) = Blank)
  BY DEF Start
<1>10. m.rest = rest /\ m.terminalEmpty = (path[Len(path)] = Blank)
  BY <1>5, <1>7 DEF After
<1>11. start.terminalEmpty = m.terminalEmpty
  BY <1>6, <1>9, <1>10 DEF Last
<1> HIDE DEF m, start, rest
<1>12. m = start
  BY <1>3, <1>4, <1>8, <1>9, <1>10, <1>11, ProgressIs
<1>. QED  BY <1>12 DEF m, start, rest

(* A match behind a literal text that the path starts with binds what the  *)
(* match of what is left does.                                             *)
LEMMA MatchBehind ==
    ASSUME NEW P, IsText(P), IsExact(P), NEW p, IsText(p), Parses(p),
           NEW rest \in Seq(Word) \ {<<>>},
           Describes(p, rest), Describes(P \o p, PathOf(P) \o rest)
    PROVE  MatchRoute(P \o p, PathOf(P) \o rest, <<>>).params = MatchRoute(p, rest, <<>>).params
<1> DEFINE w == P \o p
           full == PathOf(P) \o rest
           n == Len(P)
           l == Len(p)
           long == Scan(w, full, <<>>)
           short == Scan(p, rest, <<>>)
           Good == {k \in 0..l : long[n + k] = short[k]}
<1>1. /\ n \in Nat /\ l \in Nat \ {0} /\ Len(w) = n + l
      /\ \A k \in 1..n : w[k] = P[k]
      /\ \A k \in 1..l : w[n + k] = p[k]
      /\ full \in Seq(Word) \ {<<>>} /\ Len(full) = n + Len(rest) /\ Len(rest) \in Nat \ {0}
      /\ \A k \in 1..n : full[k] = P[k].literal
      /\ \A k \in 1..Len(rest) : full[n + k] = rest[k]
      /\ WellFormed(w) /\ WellFormed(p) /\ (IsWild(w) <=> IsWild(p))
      /\ FixedLen(w) = n + FixedLen(p)
  BY BehindIs
<1>2. \A k \in 1..n : w[k].kind = "static" /\ w[k].names = <<>>
  BY <1>1, LiteralIs
<1>3. <<>> \in Seq(Binding) /\ FixedLen(p) \in 0..l /\ FixedLen(p) \in Nat
  BY <1>1, EmptySeq, FixedSegments
<1> HIDE DEF w, full, n, l
<1>4. Describes(w, full) /\ Describes(p, rest)
  BY DEF w, full
<1>5. MatchRoute(w, full, <<>>).ok /\ MatchRoute(p, rest, <<>>).ok
  BY <1>1, <1>3, <1>4, MatchRouteDescribes
<1>6. /\ MatchRoute(w, full, <<>>).params = long[n + l].params
      /\ MatchRoute(p, rest, <<>>).params = short[l].params
  BY <1>1, <1>5 DEF MatchRoute, l
<1>7. From(full, n) = rest
  <2>1. full \in Seq(Word) /\ rest \in Seq(Word)
    BY <1>1
  <2>2. PathOf(P) \in Seq(Word) /\ Len(PathOf(P)) = n
    BY LiteralIs DEF n
  <2>3. SubSeq(PathOf(P) \o rest, Len(PathOf(P)) + 1, Len(PathOf(P)) + Len(rest)) = rest
    <3> DEFINE d == PathOf(P)
    <3>1. d \in Seq(Word)
      BY <2>2
    <3> HIDE DEF d
    <3>2. /\ d \o rest \in Seq(Word \cup Word) /\ Len(d \o rest) = Len(d) + Len(rest)
          /\ Len(d) \in Nat /\ \A i \in 1..Len(rest) : (d \o rest)[Len(d) + i] = rest[i]
      BY <2>1, <3>1, ConcatIs
    <3>3. Word \cup Word = Word
      OBVIOUS
    <3>4. d \o rest \in Seq(Word) /\ Len(d) + Len(rest) <= Len(d \o rest)
      BY <1>1, <3>2, <3>3
    <3>5. SubSeq(d \o rest, Len(d) + 1, Len(d) + Len(rest)) = rest
      BY <2>1, <3>2, <3>4, SubSeqIs
    <3>. QED  BY <3>5 DEF d
  <2>. QED  BY <1>1, <2>2, <2>3 DEF From, full
<1>8. /\ n \in 0..FixedLen(w) /\ n < Len(full) /\ n \in 0..Len(w)
  BY <1>1, <1>3
<1>9. long[n].ok
  <2>1. \A k \in 1..FixedLen(w) : Stands(w, full, k)
    BY <1>1, <1>4, DescribesStands
  <2> DEFINE f == FixedLen(w)
             a == Len(full)
             c == FixedLen(p)
  <2>2. f = n + c /\ c \in Nat /\ n \in Nat /\ a = n + Len(rest) /\ Len(rest) \in Nat \ {0}
    BY <1>1, <1>3
  <2> HIDE DEF f, a, c
  <2>3. n <= a /\ \A k \in 1..n : k \in 1..f
    BY <2>2
  <2>4. n <= Len(full) /\ \A k \in 1..n : k \in 1..FixedLen(w)
    BY <2>3 DEF f, a
  <2>5. n <= Len(full) /\ \A k \in 1..n : Stands(w, full, k)
    BY <2>1, <2>4
  <2>6. WellFormed(w) /\ full \in Seq(Word) \ {<<>>} /\ n \in 0..FixedLen(w) /\ <<>> \in Seq(Binding)
    BY <1>1, <1>3, <1>8
  <2>. QED  BY <2>5, <2>6, ScanFixed
<1>10. /\ short[0] = Start(rest, <<>>)
       /\ \A k \in 1..l : short[k] = MatchSegment(short[k - 1], p[k])
       /\ \A k \in 1..l : long[n + k] = MatchSegment(long[n + k - 1], w[n + k])
       /\ short \in [0..l -> Progress]
  <2>0. /\ short \in [0..Len(p) -> Progress] /\ short[0] = Start(rest, <<>>)
        /\ \A k \in 1..Len(p) : short[k] = MatchSegment(short[k - 1], p[k])
    <3>1. WellFormed(p) /\ <<>> \in Seq(Binding)
      BY <1>1, <1>3
    <3>. QED  BY <3>1, ScanDef
  <2>1. /\ short \in [0..l -> Progress] /\ short[0] = Start(rest, <<>>)
        /\ \A k \in 1..l : short[k] = MatchSegment(short[k - 1], p[k])
    BY <2>0 DEF l
  <2>2. \A k \in 1..Len(w) : long[k] = MatchSegment(long[k - 1], w[k])
    BY <1>1, <1>3, ScanDef
  <2> HIDE DEF long, short
  <2>3. \A k \in 1..l : n + k \in 1..Len(w)
    BY <1>1
  <2> HIDE DEF w, full
  <2>4. ASSUME NEW k \in 1..l
        PROVE  long[n + k] = MatchSegment(long[n + k - 1], w[n + k])
    <3> DEFINE j == n + k
    <3>1. j \in 1..Len(w)
      BY <2>3
    <3> HIDE DEF j
    <3>2. long[j] = MatchSegment(long[j - 1], w[j])
      BY <2>2, <3>1
    <3>3. j = n + k /\ j - 1 = n + k - 1
      BY <1>1 DEF j
    <3>. QED  BY <3>2, <3>3
  <2>. QED  BY <2>1, <2>4
<1>11. CASE rest # <<Blank>>
  <2>1. long[n] = short[0]
    BY <1>1, <1>2, <1>7, <1>8, <1>9, <1>10, <1>11, ScanBehind
  <2> HIDE DEF long, short
  <2>2. 0 \in Good
    BY <1>1, <2>1
  <2>3. ASSUME NEW k \in 0..(l - 1), k \in Good PROVE k + 1 \in Good
    <3>1. k + 1 \in 1..l /\ k + 1 \in 0..l /\ (k + 1) - 1 = k /\ n + (k + 1) - 1 = n + k
      BY <1>1
    <3>2. long[n + (k + 1)] = MatchSegment(long[n + k], p[k + 1])
      BY <1>1, <1>10, <3>1
    <3>3. short[k + 1] = MatchSegment(short[k], p[k + 1])
      BY <1>10, <3>1
    <3>. QED  BY <2>3, <3>1, <3>2, <3>3
  <2>4. l \in Good
    <3> HIDE DEF Good
    <3>1. 0..l \subseteq Good
      BY <1>1, <2>2, <2>3, Induction
    <3>. QED  BY <1>1, <3>1
  <2>. QED  BY <1>6, <2>4 DEF w, full
<1>12. CASE rest = <<Blank>>
  <2>1. Len(rest) = 1 /\ rest[1] = Blank
    BY <1>12
  <2>2. /\ IF IsWild(p) THEN FixedLen(p) <= 1
           ELSE FixedLen(p) = 1 \/ (p = <<>> /\ rest = <<Blank>>)
        /\ \A k \in 1..FixedLen(p) : Stands(p, rest, k)
    BY <1>1, <1>4, <2>1, DescribesStands
  <2>3. FixedLen(p) # 1
    <3> SUFFICES ASSUME FixedLen(p) = 1 PROVE FALSE
      OBVIOUS
    <3>1. Stands(p, rest, 1)
      BY <2>2
    <3>. QED  BY <2>1, <3>1 DEF Stands
  <2>4. p # <<>>
    BY DEF Parses
  <2>5. IsWild(p) /\ FixedLen(p) = 0 /\ l = 1
    <3>1. IsWild(p) /\ FixedLen(p) <= 1
      BY <2>2, <2>3, <2>4
    <3>2. l = FixedLen(p) + 1
      BY <1>1, <3>1, FixedSegments DEF l
    <3>. QED  BY <1>3, <2>3, <3>1, <3>2
  <2>6. p[1].kind = "wildcard"
    BY <1>1, <2>5, FixedSegments
  <2>7. long[n] \in Progress /\ short[0] \in Progress /\ short[0].ok
    <3>1. long[n] \in Progress
      BY <1>1, <1>8, ScanIn
    <3>2. 0 \in 0..l
      BY <1>1
    <3> HIDE DEF long, short
    <3>3. short \in [0..l -> Progress] /\ short[0].ok
      BY <1>10 DEF Start
    <3>4. short[0] \in Progress
      BY <3>2, <3>3
    <3>. QED  BY <3>1, <3>3, <3>4
  <2>8. long[n].params = <<>> /\ long[n].rest = rest
    <3>1. long[n].params = <<>>
      BY <1>1, <1>2, <1>8, <1>9, ScanLiterals
    <3>2. long[n].rest = From(full, n)
      <4>1. After(long[n], full, n)
        BY <1>1, <1>3, <1>8, <1>9, ScanFixed
      <4>. QED  BY <4>1 DEF After
    <3>. QED  BY <1>7, <3>1, <3>2
  <2>9. short[0].params = <<>> /\ short[0].rest = rest
    BY <1>10 DEF Start
  <2>10. long[n + 1] = MatchSegment(long[n], p[1]) /\ short[1] = MatchSegment(short[0], p[1])
    <3>1. 1 \in 1..l /\ n + 1 - 1 = n /\ 1 - 1 = 0
      BY <1>1
    <3>2. long[n + 1] = MatchSegment(long[n + 1 - 1], w[n + 1]) /\ w[n + 1] = p[1]
      BY <1>1, <1>10, <3>1
    <3>3. short[1] = MatchSegment(short[1 - 1], p[1])
      BY <1>10, <3>1
    <3>. QED  BY <3>1, <3>2, <3>3
  <2> HIDE DEF long, short
  <2>11. /\ long[n + 1].params = long[n].params \o
               Bind(p[1].names, << IF long[n].rest \in NoText THEN <<Blank>> ELSE long[n].rest >>)
         /\ short[1].params = short[0].params \o
               Bind(p[1].names, << IF short[0].rest \in NoText THEN <<Blank>> ELSE short[0].rest >>)
    BY <1>9, <2>6, <2>7, <2>10, MatchSegmentWild
  <2>12. long[n + l].params = short[l].params
    BY <2>5, <2>8, <2>9, <2>11
  <2>. QED  BY <1>6, <2>12 DEF w, full
<1>. QED  BY <1>11, <1>12

(* What a match binds of the path that a literal text leaves gives, in the *)
(* pattern behind the text, the whole path back.                           *)
LEMMA SpansBehind ==
    ASSUME NEW P, IsText(P), IsExact(P), NEW p, IsText(p), Parses(p),
           NEW rest \in Seq(Word) \ {<<>>}, Describes(Segments(p), rest)
    PROVE  /\ Describes(Segments(P \o p), PathOf(P) \o rest)
           /\ Rebuilds(Segments(P \o p),
                       IF IsExact(p) THEN <<>> ELSE MatchRoute(Segments(p), rest, <<>>).params,
                       PathOf(P) \o rest)
<1> DEFINE w == P \o p
           full == PathOf(P) \o rest
<1>1. /\ Len(P) \in Nat /\ Len(p) \in Nat \ {0} /\ Len(w) = Len(P) + Len(p)
      /\ \A k \in 1..Len(P) : w[k] = P[k]
      /\ \A k \in 1..Len(p) : w[Len(P) + k] = p[k]
      /\ full \in Seq(Word) \ {<<>>}
      /\ WellFormed(w) /\ WellFormed(p)
  BY BehindIs
<1>2. IsText(w)
  BY ConcatIsText
<1>3. Describes(Segments(w), full)
  BY DescribesBehind
<1>4. DOMAIN P = 1..Len(P) /\ DOMAIN p = 1..Len(p) /\ DOMAIN w = 1..Len(w)
  <2>1. DOMAIN p = 1..Len(p)
    BY DEF IsText
  <2>2. DOMAIN w = 1..Len(w)
    BY <1>2 DEF IsText
  <2>. QED  BY <2>1, <2>2, LiteralIs
<1> HIDE DEF w, full
<1>5. CASE IsExact(p)
  <2>1. IsExact(w)
    <3>1. ASSUME NEW j \in 1..Len(w) PROVE w[j].kind = "static"
      <4>1. CASE j \in 1..Len(P)
        BY <1>1, <1>4, <4>1 DEF IsExact
      <4>2. CASE j \notin 1..Len(P)
        <5>1. j - Len(P) \in 1..Len(p) /\ Len(P) + (j - Len(P)) = j
          BY <1>1, <4>2
        <5>2. w[j] = p[j - Len(P)]
          BY <1>1, <5>1
        <5>3. p[j - Len(P)].kind = "static"
          BY <1>4, <1>5, <5>1 DEF IsExact
        <5>. QED  BY <5>2, <5>3
      <4>. QED  BY <4>1, <4>2
    <3>. QED  BY <1>4, <3>1 DEF IsExact
  <2>2. \A k \in 1..Len(w) : w[k].kind = "static" /\ w[k].names = <<>>
    BY <1>2, <2>1, LiteralIs
  <2>3. CASE w = RootText
    <3>1. Segments(w) = <<>>
      BY <2>3 DEF Segments
    <3> DEFINE none == <<>>
    <3>2. none \in Seq(Range(none)) /\ Len(none) = 0 /\ DOMAIN none = {}
      BY EmptySeq
    <3>3. WellFormed(none) /\ \A k \in 1..Len(none) : none[k].kind = "static" /\ none[k].names = <<>>
      BY <3>2 DEF WellFormed
    <3>4. Describes(none, full)
      BY <1>3, <3>1
    <3> HIDE DEF none
    <3>5. Rebuilds(none, <<>>, full)
      BY <1>1, <3>3, <3>4, MatchLiterals
    <3>. QED  BY <1>3, <1>5, <3>1, <3>5 DEF none, w, full
  <2>4. CASE w # RootText
    <3>1. Segments(w) = w
      BY <2>4 DEF Segments
    <3>2. Rebuilds(w, <<>>, full)
      BY <1>1, <1>3, <2>2, <3>1, MatchLiterals
    <3>. QED  BY <1>3, <1>5, <3>1, <3>2 DEF w, full
  <2>. QED  BY <2>3, <2>4
<1>6. CASE ~IsExact(p)
  <2>1. p # RootText
    <3> SUFFICES ASSUME p = RootText PROVE IsExact(p)
      BY <1>6
    <3>. QED  BY DEF RootText, IsExact, Static
  <2>2. Segments(p) = p
    BY <2>1 DEF Segments
  <2>3. ~IsExact(w)
    <3>1. PICK k \in 1..Len(p) : p[k].kind # "static"
      BY <1>4, <1>6 DEF IsExact
    <3>2. Len(P) + k \in 1..Len(w)
      BY <1>1
    <3>. QED  BY <1>1, <1>4, <3>1, <3>2 DEF IsExact
  <2>4. w # RootText
    <3> SUFFICES ASSUME w = RootText PROVE IsExact(w)
      BY <2>3
    <3>. QED  BY DEF RootText, IsExact, Static
  <2>5. Segments(w) = w
    BY <2>4 DEF Segments
  <2>6. MatchRoute(w, full, <<>>).params = MatchRoute(p, rest, <<>>).params
    BY <1>3, <2>2, <2>5, MatchBehind DEF w, full
  <2>7. <<>> \in Seq(Binding)
    BY EmptySeq
  <2>8. MatchRoute(w, full, <<>>).ok
    BY <1>1, <1>3, <2>5, <2>7, MatchRouteDescribes
  <2>9. Rebuilds(w, MatchRoute(w, full, <<>>).params, full)
    BY <1>1, <2>8, MatchRouteRebuilds
  <2>. QED  BY <1>3, <1>6, <2>2, <2>5, <2>6, <2>9 DEF w, full
<1>. QED  BY <1>5, <1>6

(* The segments of literal texts.                                          *)
Literals == {Static(word) : word \in Word}

(* Literal texts are the sequences of such segments.                       *)
LEMMA LiteralTexts ==
    ASSUME NEW text
    PROVE  IsText(text) /\ IsExact(text) <=> text \in Seq(Literals)
<1>1. ASSUME IsText(text), IsExact(text) PROVE text \in Seq(Literals)
  <2>1. /\ Len(text) \in Nat /\ DOMAIN text = 1..Len(text)
        /\ text \in Seq(Range(text))
    BY <1>1, LiteralIs DEF IsText
  <2>2. ASSUME NEW k \in 1..Len(text) PROVE text[k] \in Literals
    <3>1. IsSegment(text[k]) /\ text[k].kind = "static"
      BY <1>1, <2>1 DEF IsText, IsExact
    <3>. QED  BY <3>1, SegmentForms DEF Literals
  <2>. QED  BY <2>1, <2>2
<1>2. ASSUME text \in Seq(Literals) PROVE IsText(text) /\ IsExact(text)
  <2>1. Len(text) \in Nat /\ text \in [1..Len(text) -> Literals] /\ DOMAIN text = 1..Len(text)
    BY <1>2
  <2>2. \A s \in Literals : IsSegment(s) /\ s.kind = "static"
    BY DEF Literals, IsSegment, Static
  <2>3. \A k \in 1..Len(text) : text[k] \in Range(text)
    BY <2>1 DEF Range
  <2>4. text \in Seq(Range(text))
    BY <2>1, <2>3
  <2>. QED  BY <2>1, <2>2, <2>4 DEF IsText, IsExact
<1>. QED  BY <1>1, <1>2

(* Texts joined one by one.                                                *)
Joins(q, joined) ==
    /\ joined[0] = <<>>
    /\ \A k \in 1..Len(q) : joined[k] = joined[k - 1] \o q[k]

(* FlattenSeq joins texts, and there is one way to.                        *)
LEMMA FlattenIs ==
    ASSUME NEW S, NEW q \in Seq(Seq(S))
    PROVE  \E joined \in [0..Len(q) -> Seq(S)] :
              Joins(q, joined) /\ FlattenSeq(q) = joined[Len(q)]
<1> DEFINE n == Len(q)
           V == Seq(S)
           step == [k \in 1..n |-> [v \in V |-> v \o q[k]]]
           Is(f) == f = [i \in 1..Len(q) |-> IF i = 1 THEN q[i] ELSE f[i - 1] \o q[i]]
<1>1. n \in Nat /\ \A k \in 1..n : q[k] \in V
  OBVIOUS
<1>2. <<>> \in V /\ step \in [1..n -> [V -> V]]
  <2>1. <<>> \in V
    BY EmptySeq
  <2>2. \A v \in V, t \in V : v \o t \in V
    BY ConcatProperties
  <2> HIDE DEF V
  <2>. QED  BY <1>1, <2>1, <2>2
<1>3. PICK joined \in [0..n -> V] : Follows(joined, n, <<>>, step)
  <2> HIDE DEF step, n, V
  <2>. QED  BY <1>1, <1>2, Recursion
<1>4. \A k \in 1..n : k - 1 \in 0..n /\ k \in 0..n
  BY <1>1
<1>5. Joins(q, joined)
  BY <1>3, <1>4 DEF Follows, Joins
<1>6. CASE n = 0
  <2>1. q = <<>>
    BY <1>6, EmptySeq
  <2>2. FlattenSeq(q) = q
    BY <1>6 DEF FlattenSeq
  <2>. QED  BY <1>3, <1>5, <1>6, <2>1, <2>2 DEF Joins
<1>7. CASE n # 0
  <2> DEFINE first == [i \in 1..n |-> joined[i]]
  <2>1. joined[1] = q[1]
    <3>1. 1 \in 1..n /\ 1 - 1 = 0
      BY <1>1, <1>7
    <3>2. joined[1] = <<>> \o q[1] /\ q[1] \in V
      BY <1>1, <1>5, <3>1 DEF Joins
    <3>. QED  BY <3>2, ConcatEmptySeq
  <2>2. \A i \in 1..n : i # 1 => i - 1 \in 1..n
    BY <1>1
  <2>3. Is(first)
    <3>1. \A i \in 1..n : first[i] = IF i = 1 THEN q[i] ELSE first[i - 1] \o q[i]
      BY <1>5, <2>1, <2>2 DEF Joins
    <3>. QED  BY <3>1
  <2>4. FlattenSeq(q) = (CHOOSE f : Is(f))[n]
    BY <1>7 DEF FlattenSeq
  <2>5. PICK f : Is(f) /\ FlattenSeq(q) = f[n]
    <3> HIDE DEF Is, n, first
    <3>. QED  BY <2>3, <2>4
  <2> DEFINE Good == {i \in 0..n : i = 0 \/ f[i] = joined[i]}
  <2>6. ASSUME NEW i \in 0..(n - 1), i \in Good PROVE i + 1 \in Good
    <3>1. i + 1 \in 1..n /\ i + 1 \in 0..n /\ (i + 1) - 1 = i
      BY <1>1
    <3>2. f[i + 1] = IF i + 1 = 1 THEN q[i + 1] ELSE f[i] \o q[i + 1]
      BY <2>5, <3>1
    <3>3. joined[i + 1] = joined[i] \o q[i + 1]
      BY <1>5, <3>1 DEF Joins
    <3>4. CASE i = 0
      BY <2>1, <3>1, <3>2, <3>4
    <3>5. CASE i # 0
      <4>1. i + 1 # 1
        BY <3>5
      <4>. QED  BY <2>6, <3>1, <3>2, <3>3, <3>5, <4>1
    <3>. QED  BY <3>4, <3>5
  <2>7. n \in Good
    <3>1. 0 \in Good
      BY <1>1
    <3> HIDE DEF Good, n
    <3>2. 0..n \subseteq Good
      BY <1>1, <2>6, <3>1, Induction
    <3>. QED  BY <1>1, <3>2
  <2>. QED  BY <1>3, <1>5, <1>7, <2>5, <2>7
<1>. QED  BY <1>6, <1>7

(* Joining one more text appends it.                                       *)
LEMMA FlattenAppends ==
    ASSUME NEW S, NEW q \in Seq(Seq(S)), NEW text \in Seq(S)
    PROVE  /\ FlattenSeq(q) \in Seq(S)
           /\ FlattenSeq(Append(q, text)) = FlattenSeq(q) \o text
<1> DEFINE n == Len(q)
           V == Seq(S)
           more == Append(q, text)
<1>1. PICK f \in [0..n -> V] : Joins(q, f) /\ FlattenSeq(q) = f[n]
  BY FlattenIs
<1>2. /\ n \in Nat /\ more \in Seq(V) /\ Len(more) = n + 1 /\ more[n + 1] = text
      /\ \A k \in 1..n : more[k] = q[k]
  BY AppendProperties
<1>3. PICK g \in [0..(n + 1) -> V] : Joins(more, g) /\ FlattenSeq(more) = g[n + 1]
  <2> HIDE DEF more
  <2>. QED  BY <1>2, FlattenIs
<1> DEFINE Good == {k \in 0..n : f[k] = g[k]}
<1>4. 0 \in Good
  BY <1>1, <1>2, <1>3 DEF Joins
<1> HIDE DEF more, n, V
<1>5. ASSUME NEW k \in 0..(n - 1), k \in Good PROVE k + 1 \in Good
  <2>1. k + 1 \in 1..n /\ k + 1 \in 1..(n + 1) /\ k + 1 \in 0..n /\ (k + 1) - 1 = k
    BY <1>2
  <2>2. f[k + 1] = f[k] \o q[k + 1]
    BY <1>1, <2>1 DEF Joins, n
  <2>3. g[k + 1] = g[k] \o more[k + 1]
    BY <1>2, <1>3, <2>1 DEF Joins
  <2>. QED  BY <1>2, <1>5, <2>1, <2>2, <2>3
<1>6. f[n] = g[n]
  <2> HIDE DEF Good
  <2>1. 0..n \subseteq Good
    BY <1>2, <1>4, <1>5, Induction
  <2>. QED  BY <1>2, <2>1 DEF Good
<1>7. g[n + 1] = g[n] \o more[n + 1]
  <2>1. n + 1 \in 1..(n + 1) /\ (n + 1) - 1 = n
    BY <1>2
  <2>. QED  BY <1>2, <1>3, <2>1 DEF Joins
<1>8. FlattenSeq(q) \in Seq(S)
  <2>1. n \in 0..n
    BY <1>2
  <2>. QED  BY <1>1, <2>1 DEF V
<1>. QED  BY <1>1, <1>2, <1>3, <1>6, <1>7, <1>8 DEF more

(* No text is joined to the empty one.                                     *)
LEMMA FlattenNone == FlattenSeq(<<>>) = <<>>
  BY EmptySeq DEF FlattenSeq

(* The path a joined literal text spells.                                  *)
LEMMA PathOfJoined ==
    ASSUME NEW a \in Seq(Literals), NEW b \in Seq(Literals)
    PROVE  PathOf(a \o b) = PathOf(a) \o PathOf(b)
<1> DEFINE w == a \o b
           c == PathOf(a)
           d == PathOf(b)
<1>1. /\ w \in Seq(Literals) /\ Len(a) \in Nat /\ Len(b) \in Nat /\ Len(w) = Len(a) + Len(b)
      /\ \A k \in 1..Len(a) : w[k] = a[k]
      /\ \A k \in 1..Len(b) : w[Len(a) + k] = b[k]
      /\ \A j \in 1..Len(w) :
            j \in 1..Len(a) \/ (j - Len(a) \in 1..Len(b) /\ Len(a) + (j - Len(a)) = j)
  <2>1. Literals \cup Literals = Literals
    OBVIOUS
  <2>. QED  BY <2>1, ConcatIs
<1>2. /\ c \in Seq(Word) /\ Len(c) = Len(a) /\ \A k \in 1..Len(a) : c[k] = a[k].literal
      /\ d \in Seq(Word) /\ Len(d) = Len(b) /\ \A k \in 1..Len(b) : d[k] = b[k].literal
  BY LiteralTexts, LiteralIs
<1> HIDE DEF w, c, d
<1>3. /\ PathOf(w) \in Seq(Word) /\ Len(PathOf(w)) = Len(w)
      /\ \A k \in 1..Len(w) : PathOf(w)[k] = w[k].literal
  BY <1>1, LiteralTexts, LiteralIs
<1>4. /\ c \o d \in Seq(Word) /\ Len(c \o d) = Len(w)
      /\ \A k \in 1..Len(a) : (c \o d)[k] = c[k]
      /\ \A k \in 1..Len(b) : (c \o d)[Len(a) + k] = d[k]
  <2>1. Word \cup Word = Word /\ c \in Seq(Word) /\ d \in Seq(Word)
    BY <1>2
  <2>2. /\ c \o d \in Seq(Word \cup Word) /\ Len(c \o d) = Len(c) + Len(d)
        /\ \A k \in 1..Len(c) : (c \o d)[k] = c[k]
        /\ \A k \in 1..Len(d) : (c \o d)[Len(c) + k] = d[k]
    BY <2>1, ConcatIs
  <2>. QED  BY <1>1, <1>2, <2>1, <2>2
<1>5. ASSUME NEW k \in 1..Len(w) PROVE PathOf(w)[k] = (c \o d)[k]
  <2>1. CASE k \in 1..Len(a)
    <3>1. w[k] = a[k]
      BY <1>1, <2>1
    <3>2. (c \o d)[k] = c[k]
      BY <1>4, <2>1
    <3>3. c[k] = a[k].literal
      BY <1>2, <2>1
    <3>4. PathOf(w)[k] = w[k].literal
      BY <1>3
    <3>. QED  BY <3>1, <3>2, <3>3, <3>4
  <2>2. CASE k \notin 1..Len(a)
    <3>1. k - Len(a) \in 1..Len(b) /\ Len(a) + (k - Len(a)) = k
      BY <1>1, <2>2
    <3> DEFINE j == k - Len(a)
    <3>2. j \in 1..Len(b) /\ Len(a) + j = k
      BY <3>1
    <3> HIDE DEF j
    <3>3. w[k] = b[j] /\ (c \o d)[k] = d[j]
      BY <1>1, <1>4, <3>2
    <3>. QED  BY <1>2, <1>3, <3>2, <3>3
  <2>. QED  BY <2>1, <2>2
<1>6. PathOf(w) = c \o d
  <2> DEFINE x == PathOf(w)
             y == c \o d
  <2>1. x \in Seq(Word) /\ y \in Seq(Word) /\ Len(x) = Len(y) /\ \A k \in 1..Len(x) : x[k] = y[k]
    BY <1>3, <1>4, <1>5
  <2> HIDE DEF x, y
  <2>2. x = y
    BY <2>1, SeqEqual
  <2>. QED  BY <2>2 DEF x, y
<1>. QED  BY <1>6 DEF w, c, d

-----------------------------------------------------------------------------
(* Route tables (RouteTable, Precedence)                                   *)

(* seq lists S in the order of Precedes.                                   *)
Sorted(seq, S, rank) ==
    /\ seq \in [1..Cardinality(S) -> S]
    /\ \A i, j \in 1..Cardinality(S) : i < j => Precedes(rank, seq[i], seq[j])

(* Of finitely many positions one is preceded by all others.               *)
LEMMA LastExists ==
    ASSUME NEW n \in Nat, NEW rank \in [1..n -> Nat], NEW S \in SUBSET (1..n), S # {}
    PROVE  \E x \in S : \A y \in S \ {x} : Precedes(rank, y, x)
<1>1. PICK r \in {rank[i] : i \in S} : \A q \in {rank[i] : i \in S} : r <= q
  <2> DEFINE T == {rank[i] : i \in S}
  <2>1. T \subseteq Nat /\ T # {}
    OBVIOUS
  <2> HIDE DEF T
  <2>2. \E q \in T : \A k \in T : q <= k
    BY <2>1, LeastNatural
  <2>. QED  BY <2>2 DEF T
<1>2. PICK d \in {n - i : i \in {j \in S : rank[j] = r}} :
         \A e \in {n - i : i \in {j \in S : rank[j] = r}} : d <= e
  <2> DEFINE T == {n - i : i \in {j \in S : rank[j] = r}}
  <2>1. T # {}
    BY <1>1
  <2>2. T \subseteq Nat
    OBVIOUS
  <2> HIDE DEF T
  <2>3. \E q \in T : \A k \in T : q <= k
    BY <2>1, <2>2, LeastNatural
  <2>. QED  BY <2>3 DEF T
<1>3. PICK x \in S : rank[x] = r /\ d = n - x
  BY <1>2
<1>4. ASSUME NEW y \in S, y # x
      PROVE  Precedes(rank, y, x)
  <2>1. rank[y] \in Nat /\ rank[x] \in Nat /\ rank[x] <= rank[y]
    BY <1>1, <1>3
  <2>2. ASSUME rank[y] = r PROVE y < x
    <3>1. n - x <= n - y
      BY <1>2, <1>3, <2>2
    <3>2. x \in Nat /\ y \in Nat
      BY <1>4
    <3>. QED  BY <1>4, <3>1, <3>2
  <2>. QED  BY <1>3, <2>1, <2>2 DEF Precedes
<1>. QED  BY <1>4

(* Finitely many positions can be put in order.                            *)
LEMMA SortedExists ==
    ASSUME NEW n \in Nat, NEW rank \in [1..n -> Nat], NEW S \in SUBSET (1..n)
    PROVE  /\ IsFiniteSet(S) /\ Cardinality(S) \in 0..n
           /\ \E seq : Sorted(seq, S, rank)
<1> DEFINE Good == {c \in 0..n : \A T \in SUBSET (1..n) :
                                    Cardinality(T) = c => \E seq : Sorted(seq, T, rank)}
<1>1. ASSUME NEW T \in SUBSET (1..n)
      PROVE  IsFiniteSet(T) /\ Cardinality(T) \in 0..n
  <2>1. IsFiniteSet(1..n) /\ Cardinality(1..n) = n
    <3>1. IsFiniteSet(1..n) /\ Cardinality(1..n) = IF 1 > n THEN 0 ELSE n - 1 + 1
      BY FS_Interval
    <3>. QED  BY <3>1
  <2>2. IsFiniteSet(T) /\ Cardinality(T) <= n
    <3> DEFINE I == 1..n
    <3>1. T \in SUBSET I /\ IsFiniteSet(I) /\ Cardinality(I) = n
      BY <2>1
    <3> HIDE DEF I
    <3>. QED  BY <3>1, FS_Subset
  <2>3. Cardinality(T) \in Nat
    BY <2>2, FS_CardinalityType
  <2>. QED  BY <2>2, <2>3
<1>2. 0 \in Good
  <2>1. ASSUME NEW T \in SUBSET (1..n), Cardinality(T) = 0
        PROVE  Sorted([i \in 1..0 |-> 0], T, rank)
    BY <2>1 DEF Sorted
  <2>. QED  BY <2>1
<1>3. ASSUME NEW c \in 0..(n - 1), c \in Good
      PROVE  c + 1 \in Good
  <2>1. ASSUME NEW T \in SUBSET (1..n), Cardinality(T) = c + 1
        PROVE  \E seq : Sorted(seq, T, rank)
    <3>1. IsFiniteSet(T) /\ T # {}
      BY <1>1, <2>1, FS_EmptySet
    <3>2. PICK x \in T : \A y \in T \ {x} : Precedes(rank, y, x)
      BY <3>1, LastExists
    <3> DEFINE U == T \ {x}
    <3>3. Cardinality(U) = c
      <4>1. Cardinality(U) = Cardinality(T) - 1
        BY <3>1, FS_RemoveElement
      <4> HIDE DEF U
      <4>. QED  BY <2>1, <4>1
    <3>4. U \in SUBSET (1..n)
      OBVIOUS
    <3>5. PICK seq : Sorted(seq, U, rank)
      <4> HIDE DEF U
      <4>. QED  BY <1>3, <3>3, <3>4
    <3> DEFINE g == [k \in 1..(c + 1) |-> IF k = c + 1 THEN x ELSE seq[k]]
    <3>6. /\ seq \in [1..c -> U]
          /\ \A i, j \in 1..c : i < j => Precedes(rank, seq[i], seq[j])
      BY <3>3, <3>5 DEF Sorted
    <3>7. c \in Nat /\ \A k \in 1..(c + 1) : k = c + 1 \/ (k \in 1..c /\ k # c + 1)
      OBVIOUS
    <3>8. g[c + 1] = x /\ \A k \in 1..c : g[k] = seq[k]
      BY <3>7
    <3>9. g \in [1..(c + 1) -> T]
      BY <3>6, <3>7
    <3> HIDE DEF g, Good
    <3>10. ASSUME NEW i \in 1..(c + 1), NEW j \in 1..(c + 1), i < j
           PROVE  Precedes(rank, g[i], g[j])
      <4>1. i \in 1..c
        BY <3>7, <3>10
      <4>2. CASE j = c + 1
        BY <3>2, <3>6, <3>8, <4>1, <4>2
      <4>3. CASE j \in 1..c
        BY <3>6, <3>8, <3>10, <4>1, <4>3
      <4>. QED  BY <3>7, <4>2, <4>3
    <3>. QED  BY <2>1, <3>9, <3>10 DEF Sorted
  <2>. QED  BY <2>1
<1>4. 0..n \subseteq Good
  <2> HIDE DEF Good
  <2>. QED  BY <1>2, <1>3, Induction
<1>. QED  BY <1>1, <1>4

(* InOrder lists all of S, in order.                                       *)
LEMMA InOrderSorted ==
    ASSUME NEW n \in Nat, NEW rank \in [1..n -> Nat], NEW S \in SUBSET (1..n)
    PROVE  /\ Cardinality(S) \in 0..n
           /\ Sorted(InOrder(S, rank), S, rank)
           /\ \A x \in S : \E i \in 1..Cardinality(S) : InOrder(S, rank)[i] = x
<1> DEFINE c == Cardinality(S)
           seq == InOrder(S, rank)
<1>1. IsFiniteSet(S) /\ c \in 0..n
  BY SortedExists
<1>2. \E q \in [1..c -> S] : \A i, j \in DOMAIN q : i < j => Precedes(rank, q[i], q[j])
  <2>1. PICK q : Sorted(q, S, rank)
    BY SortedExists
  <2>. QED  BY <2>1 DEF Sorted
<1>3. /\ seq \in [1..c -> S]
      /\ \A i, j \in DOMAIN seq : i < j => Precedes(rank, seq[i], seq[j])
  BY <1>2 DEF InOrder
<1>4. \A i, j \in 1..c : i < j => Precedes(rank, seq[i], seq[j])
  BY <1>3
<1> HIDE DEF seq
<1>5. \A i, j \in 1..c : i < j => seq[i] # seq[j]
  <2>1. \A i \in 1..c : seq[i] \in S
    BY <1>3
  <2>2. \A i \in 1..c : rank[seq[i]] \in Nat /\ seq[i] \in Nat
    <3> SUFFICES ASSUME NEW i \in 1..c PROVE rank[seq[i]] \in Nat /\ seq[i] \in Nat
      OBVIOUS
    <3> DEFINE x == seq[i]
    <3>1. x \in S
      BY <2>1
    <3> HIDE DEF x
    <3>2. x \in 1..n
      BY <3>1
    <3>3. rank[x] \in Nat /\ x \in Nat
      BY <3>2
    <3>. QED  BY <3>3 DEF x
  <2> HIDE DEF c
  <2>. QED  BY <1>4, <2>2 DEF Precedes
<1>6. seq \in Injection(1..c, S)
  <2>1. \A i, j \in 1..c : seq[i] = seq[j] => i = j
    BY <1>1, <1>5
  <2>. QED  BY <1>3, <2>1 DEF Injection, IsInjective
<1>7. seq \in Surjection(1..c, S)
  <2>1. Cardinality(1..c) = c
    <3>1. c \in Int /\ 1 \in Int
      BY <1>1
    <3> HIDE DEF c
    <3>2. Cardinality(1..c) = IF 1 > c THEN 0 ELSE c - 1 + 1
      BY <3>1, FS_Interval
    <3>. QED  BY <1>1, <3>2
  <2>. QED  BY <1>1, <1>6, <2>1, FS_Injection
<1>. QED  BY <1>1, <1>3, <1>4, <1>7 DEF Sorted, Surjection, seq

(* Without ranks the order is that of the positions.                       *)
LEMMA InOrderIdentity ==
    ASSUME NEW n \in Nat, NEW rank, rank = [i \in 1..n |-> 0]
    PROVE  InOrder(1..n, rank) = [k \in 1..n |-> k]
<1> DEFINE f == InOrder(1..n, rank)
           Good == {k \in 0..n : \A j \in 1..k : f[j] = j}
<1>1. Cardinality(1..n) = n
  <2>1. Cardinality(1..n) = IF 1 > n THEN 0 ELSE n - 1 + 1
    BY FS_Interval
  <2>. QED  BY <2>1
<1>2. rank \in [1..n -> Nat] /\ \A i \in 1..n : rank[i] = 0
  OBVIOUS
<1>3. Sorted(f, 1..n, rank) /\ \A x \in 1..n : \E i \in 1..n : f[i] = x
  <2> HIDE DEF f
  <2>. QED  BY <1>1, <1>2, InOrderSorted DEF f
<1> HIDE DEF f
<1>4. f \in [1..n -> 1..n] /\ \A i, j \in 1..n : i < j => f[i] < f[j]
  <2>1. f \in [1..n -> 1..n] /\ \A i, j \in 1..n : i < j => Precedes(rank, f[i], f[j])
    BY <1>1, <1>3 DEF Sorted
  <2>2. ASSUME NEW i \in 1..n, NEW j \in 1..n, i < j
        PROVE  f[i] < f[j]
    <3>1. f[i] \in 1..n /\ f[j] \in 1..n
      BY <2>1
    <3>2. rank[f[i]] = 0 /\ rank[f[j]] = 0
      BY <1>2, <3>1
    <3>3. Precedes(rank, f[i], f[j])
      BY <2>1, <2>2
    <3>. QED  BY <3>2, <3>3 DEF Precedes
  <2>. QED  BY <2>1, <2>2
<1>5. 0 \in Good
  OBVIOUS
<1>6. ASSUME NEW k \in 0..(n - 1), k \in Good
      PROVE  k + 1 \in Good
  <2>1. PICK i \in 1..n : f[i] = k + 1
    <3>1. k + 1 \in 1..n
      OBVIOUS
    <3>. QED  BY <1>3, <3>1
  <2>2. \A j \in 1..k : f[j] = j
    BY <1>6
  <2>3. ~(i <= k)
    BY <2>1, <2>2
  <2>4. ~(i > k + 1)
    <3> SUFFICES ASSUME i > k + 1 PROVE FALSE
      OBVIOUS
    <3>1. k + 1 \in 1..n
      OBVIOUS
    <3>2. f[k + 1] < k + 1 /\ f[k + 1] \in 1..n
      BY <1>4, <2>1, <3>1
    <3>3. f[k + 1] \in 1..k
      BY <3>2
    <3> DEFINE j == f[k + 1]
    <3>4. f[j] = j /\ j \in 1..n /\ j < k + 1
      BY <2>2, <3>2, <3>3
    <3> HIDE DEF j
    <3>5. f[j] < f[k + 1]
      BY <1>4, <3>1, <3>4
    <3>. QED  BY <3>2, <3>4, <3>5 DEF j
  <2>5. i = k + 1
    BY <2>3, <2>4
  <2>6. \A j \in 1..(k + 1) : f[j] = j
    <3>1. \A j \in 1..(k + 1) : j \in 1..k \/ j = k + 1
      OBVIOUS
    <3>. QED  BY <2>1, <2>2, <2>5, <3>1
  <2>. QED  BY <2>6
<1>7. 0..n \subseteq Good
  <2> HIDE DEF Good
  <2>. QED  BY <1>5, <1>6, Induction
<1>8. \A j \in 1..n : f[j] = j
  BY <1>7
<1>. QED  BY <1>4, <1>8 DEF f

-----------------------------------------------------------------------------

(* The registrations that were not refused or did not panic.               *)
Parsed(R) == \A r \in R : IsText(r.pattern) /\ Parses(r.pattern)

(* Keeping a route keeps registrations.                                    *)
LEMMA KeepLaterIn ==
    ASSUME NEW R, NEW kept \in Seq(R), NEW r \in R
    PROVE  KeepLater(kept, r) \in Seq(R)
<1> DEFINE taken == {k \in DOMAIN kept : CompatibilityKey(kept[k]) = CompatibilityKey(r)}
           new == [k \in DOMAIN kept |-> IF k \in taken THEN r ELSE kept[k]]
<1>1. Append(kept, r) \in Seq(R)
  BY AppendProperties
<1>2. DOMAIN kept = 1..Len(kept) /\ Len(kept) \in Nat /\ \A k \in 1..Len(kept) : kept[k] \in R
  BY LenProperties, ElementOfSeq
<1>3. new \in Seq(R)
  <2> HIDE DEF taken
  <2>1. \A k \in 1..Len(kept) : (IF k \in taken THEN r ELSE kept[k]) \in R
    BY <1>2
  <2>. QED  BY <1>2, <2>1, SeqDef
<1>. QED  BY <1>1, <1>3 DEF KeepLater

(* What is kept of the first k routes, told by its recursion.              *)
LEMMA KeptUpToIs ==
    ASSUME NEW R, NEW routes \in Seq(R)
    PROVE  /\ KeptUpTo(routes) \in [0..Len(routes) -> Seq(R)]
           /\ KeptUpTo(routes)[0] = <<>>
           /\ \A k \in 1..Len(routes) :
                 KeptUpTo(routes)[k] = KeepLater(KeptUpTo(routes)[k - 1], routes[k])
<1> DEFINE n == Len(routes)
           V == Seq(R)
           step == [k \in 1..n |-> [kept \in V |-> KeepLater(kept, routes[k])]]
           ok(f) == f = [k \in 0..n |-> IF k = 0 THEN <<>> ELSE KeepLater(f[k - 1], routes[k])]
<1>1. n \in Nat /\ \A k \in 1..n : routes[k] \in R
  BY LenProperties, ElementOfSeq
<1>2. <<>> \in V
  BY EmptySeq
<1>3. step \in [1..n -> [V -> V]]
  <2> HIDE DEF n
  <2>. QED  BY <1>1, KeepLaterIn
<1>4. \A k \in 1..n : \A kept \in V : step[k][kept] = KeepLater(kept, routes[k])
  OBVIOUS
<1> HIDE DEF n, V, step
<1>5. PICK f \in [0..n -> V] : Follows(f, n, <<>>, step)
  BY <1>1, <1>2, <1>3, Recursion
<1>6. ok(f)
  <2>1. \A k \in 0..n : k # 0 => k \in 1..n /\ k - 1 \in 0..n
    BY <1>1
  <2>2. \A k \in 1..n : f[k - 1] \in V /\ f[k] = KeepLater(f[k - 1], routes[k])
    BY <1>4, <1>5, <2>1 DEF Follows
  <2>3. \A k \in 0..n : f[k] = IF k = 0 THEN <<>> ELSE KeepLater(f[k - 1], routes[k])
    BY <1>5, <2>1, <2>2 DEF Follows
  <2>. QED  BY <2>3
<1>7. ASSUME NEW g, ok(g) PROVE g = f
  <2>1. g = [k \in 0..n |-> g[k]]
    BY <1>7
  <2>2. FollowsIn(g, n, V, <<>>, step)
    <3>1. \A k \in 1..n : k \in 0..n /\ k # 0
      BY <1>1
    <3>2. 0 \in 0..n
      BY <1>1
    <3>. QED  BY <1>4, <1>7, <3>1, <3>2 DEF FollowsIn
  <2>. QED  BY <1>1, <1>2, <1>3, <1>5, <2>1, <2>2, RecursionUnique
<1>8. KeptUpTo(routes) = f
  BY <1>6, <1>7 DEF KeptUpTo, n
<1>9. \A k \in 1..n : f[k - 1] \in V
  BY <1>1, <1>5
<1>. QED  BY <1>4, <1>5, <1>8, <1>9 DEF Follows, n, V

(* One of the two takes the place of the other.                            *)
SameKey(routes, i, j) == CompatibilityKey(routes[i]) = CompatibilityKey(routes[j])

(* kept is the first k routes with each one replaced by the latest of its  *)
(* key, in the place of the earliest.                                      *)
KeptFrom(routes, k, kept, first, last) ==
    /\ first \in [1..Len(kept) -> 1..k]
    /\ last \in [1..Len(kept) -> 1..k]
    /\ \A p \in 1..Len(kept) :
          /\ kept[p] = routes[last[p]]
          /\ SameKey(routes, first[p], last[p])
          /\ \A j \in 1..k : SameKey(routes, first[p], j) => first[p] <= j /\ j <= last[p]
    /\ \A p, q \in 1..Len(kept) : p < q => first[p] < first[q]
    /\ \A i \in 1..k : \E p \in 1..Len(kept) : SameKey(routes, first[p], i)

(* No key is kept twice.                                                   *)
LEMMA KeptApart ==
    ASSUME NEW R, NEW routes \in Seq(R), NEW k \in 0..Len(routes), NEW kept \in Seq(R),
           NEW first, NEW last, KeptFrom(routes, k, kept, first, last),
           NEW p \in 1..Len(kept), NEW q \in 1..Len(kept),
           CompatibilityKey(kept[p]) = CompatibilityKey(kept[q])
    PROVE  p = q
<1> SUFFICES ASSUME p # q PROVE FALSE
  OBVIOUS
<1>1. /\ first \in [1..Len(kept) -> 1..k]
      /\ kept[p] = routes[last[p]] /\ kept[q] = routes[last[q]]
      /\ SameKey(routes, first[p], last[p]) /\ SameKey(routes, first[q], last[q])
      /\ \A j \in 1..k : SameKey(routes, first[p], j) => first[p] <= j
      /\ \A j \in 1..k : SameKey(routes, first[q], j) => first[q] <= j
      /\ p < q => first[p] < first[q]
      /\ q < p => first[q] < first[p]
  BY DEF KeptFrom
<1>2. SameKey(routes, first[p], first[q]) /\ SameKey(routes, first[q], first[p])
  BY <1>1 DEF SameKey
<1>3. first[p] \in 1..k /\ first[q] \in 1..k
  BY <1>1
<1>4. first[p] <= first[q] /\ first[q] <= first[p]
  BY <1>1, <1>2, <1>3
<1>5. p < q \/ q < p
  OBVIOUS
<1>. QED  BY <1>1, <1>3, <1>4, <1>5

(* A route of a new key goes to the end.                                   *)
LEMMA KeptAppends ==
    ASSUME NEW R, NEW routes \in Seq(R), NEW k \in 0..(Len(routes) - 1), NEW kept \in Seq(R),
           NEW first, NEW last, KeptFrom(routes, k, kept, first, last),
           \A p \in 1..Len(kept) : CompatibilityKey(kept[p]) # CompatibilityKey(routes[k + 1])
    PROVE  \E f, l : KeptFrom(routes, k + 1, Append(kept, routes[k + 1]), f, l)
<1> DEFINE c == Len(kept)
           r == routes[k + 1]
           new == Append(kept, r)
           f == [p \in 1..(c + 1) |-> IF p = c + 1 THEN k + 1 ELSE first[p]]
           l == [p \in 1..(c + 1) |-> IF p = c + 1 THEN k + 1 ELSE last[p]]
<1>1. c \in Nat /\ k \in Nat /\ r \in R
  <2>1. k + 1 \in 1..Len(routes)
    BY LenProperties
  <2>. QED  BY <2>1, ElementOfSeq, LenProperties
<1>2. Len(new) = c + 1 /\ new[c + 1] = r /\ \A p \in 1..c : new[p] = kept[p]
  BY <1>1, AppendProperties
<1> HIDE DEF r
<1>3. r = routes[k + 1]
  BY DEF r
<1> HIDE DEF c, new
<1>4. \A p \in 1..(c + 1) : p = c + 1 \/ p \in 1..c
  BY <1>1
<1>5. c + 1 \in 1..(c + 1) /\ \A p \in 1..c : p # c + 1 /\ p \in 1..(c + 1)
  BY <1>1
<1>6. /\ f[c + 1] = k + 1 /\ l[c + 1] = k + 1
      /\ \A p \in 1..c : f[p] = first[p] /\ l[p] = last[p]
  BY <1>5
<1>7. \A j \in 1..(k + 1) : j = k + 1 \/ j \in 1..k
  BY <1>1
<1>8. k + 1 \in 1..(k + 1) /\ \A j \in 1..k : j \in 1..(k + 1) /\ j < k + 1
  BY <1>1
<1>9. /\ first \in [1..c -> 1..k] /\ last \in [1..c -> 1..k]
      /\ \A p \in 1..c : /\ kept[p] = routes[last[p]]
                         /\ SameKey(routes, first[p], last[p])
                         /\ \A j \in 1..k : SameKey(routes, first[p], j) => first[p] <= j /\ j <= last[p]
      /\ \A p, q \in 1..c : p < q => first[p] < first[q]
      /\ \A i \in 1..k : \E p \in 1..c : SameKey(routes, first[p], i)
  BY DEF KeptFrom, c
<1>10. f \in [1..(c + 1) -> 1..(k + 1)] /\ l \in [1..(c + 1) -> 1..(k + 1)]
  BY <1>4, <1>8, <1>9
<1> HIDE DEF f, l
<1>11. \A p \in 1..c : CompatibilityKey(kept[p]) # CompatibilityKey(r)
  BY <1>3 DEF c
<1>12. \A p \in 1..c : ~SameKey(routes, first[p], k + 1)
  BY <1>3, <1>9, <1>11 DEF SameKey
<1>13. \A j \in 1..k : ~SameKey(routes, k + 1, j)
  BY <1>9, <1>12 DEF SameKey
<1>14. ASSUME NEW p \in 1..(c + 1)
       PROVE  /\ new[p] = routes[l[p]]
              /\ SameKey(routes, f[p], l[p])
              /\ \A j \in 1..(k + 1) : SameKey(routes, f[p], j) => f[p] <= j /\ j <= l[p]
  <2>1. CASE p = c + 1
    <3>1. SameKey(routes, k + 1, k + 1)
      BY DEF SameKey
    <3>2. \A j \in 1..(k + 1) : SameKey(routes, k + 1, j) => k + 1 <= j /\ j <= k + 1
      BY <1>1, <1>7, <1>13
    <3>. QED  BY <1>2, <1>3, <1>6, <2>1, <3>1, <3>2
  <2>2. CASE p \in 1..c
    <3>1. \A j \in 1..(k + 1) : SameKey(routes, first[p], j) => first[p] <= j /\ j <= last[p]
      BY <1>7, <1>9, <1>12, <2>2
    <3>. QED  BY <1>2, <1>6, <1>9, <2>2, <3>1
  <2>. QED  BY <1>4, <2>1, <2>2
<1>15. ASSUME NEW p \in 1..(c + 1), NEW q \in 1..(c + 1), p < q
       PROVE  f[p] < f[q]
  <2>1. p \in 1..c
    BY <1>1, <1>15
  <2>2. CASE q = c + 1
    <3>1. first[p] \in 1..k
      BY <1>9, <2>1
    <3>. QED  BY <1>6, <1>8, <2>1, <2>2, <3>1
  <2>3. CASE q \in 1..c
    BY <1>6, <1>9, <1>15, <2>1, <2>3
  <2>. QED  BY <1>4, <2>2, <2>3
<1>16. \A i \in 1..(k + 1) : \E p \in 1..(c + 1) : SameKey(routes, f[p], i)
  <2>1. SameKey(routes, f[c + 1], k + 1)
    BY <1>6 DEF SameKey
  <2>2. ASSUME NEW i \in 1..k PROVE \E p \in 1..(c + 1) : SameKey(routes, f[p], i)
    <3>1. PICK p \in 1..c : SameKey(routes, first[p], i)
      BY <1>9
    <3>. QED  BY <1>5, <1>6, <3>1
  <2>. QED  BY <1>5, <1>7, <2>1, <2>2
<1>17. KeptFrom(routes, k + 1, new, f, l)
  BY <1>2, <1>10, <1>14, <1>15, <1>16 DEF KeptFrom
<1>18. KeptFrom(routes, k + 1, Append(kept, routes[k + 1]), f, l)
  BY <1>3, <1>17 DEF new
<1>. QED  BY <1>18

(* A route of a known key replaces the kept one.                           *)
LEMMA KeptReplaces ==
    ASSUME NEW R, NEW routes \in Seq(R), NEW k \in 0..(Len(routes) - 1), NEW kept \in Seq(R),
           NEW first, NEW last, KeptFrom(routes, k, kept, first, last),
           NEW at \in 1..Len(kept), CompatibilityKey(kept[at]) = CompatibilityKey(routes[k + 1]),
           NEW new \in Seq(R), Len(new) = Len(kept),
           new[at] = routes[k + 1],
           \A p \in 1..Len(kept) : p # at => new[p] = kept[p]
    PROVE  KeptFrom(routes, k + 1, new, first,
                    [p \in 1..Len(kept) |-> IF p = at THEN k + 1 ELSE last[p]])
<1> DEFINE c == Len(kept)
           l == [p \in 1..c |-> IF p = at THEN k + 1 ELSE last[p]]
<1>1. c \in Nat /\ k \in Nat
  BY LenProperties
<1> HIDE DEF c
<1>2. \A j \in 1..(k + 1) : j = k + 1 \/ j \in 1..k
  BY <1>1
<1>3. k + 1 \in 1..(k + 1) /\ \A j \in 1..k : j \in 1..(k + 1) /\ j < k + 1
  BY <1>1
<1>4. /\ first \in [1..c -> 1..k] /\ last \in [1..c -> 1..k]
      /\ \A p \in 1..c : /\ kept[p] = routes[last[p]]
                         /\ SameKey(routes, first[p], last[p])
                         /\ \A j \in 1..k : SameKey(routes, first[p], j) => first[p] <= j /\ j <= last[p]
      /\ \A p, q \in 1..c : p < q => first[p] < first[q]
      /\ \A i \in 1..k : \E p \in 1..c : SameKey(routes, first[p], i)
  BY DEF KeptFrom, c
<1>5. at \in 1..c /\ Len(new) = c /\ \A p \in 1..c : p # at => new[p] = kept[p]
  BY DEF c
<1>6. l[at] = k + 1 /\ \A p \in 1..c : p # at => l[p] = last[p]
  BY <1>5
<1>7. first \in [1..c -> 1..(k + 1)] /\ l \in [1..c -> 1..(k + 1)]
  BY <1>3, <1>4
<1> HIDE DEF l
<1>8. SameKey(routes, first[at], k + 1)
  BY <1>4, <1>5 DEF SameKey
<1>9. \A p \in 1..c : p # at => ~SameKey(routes, first[p], k + 1)
  <2> SUFFICES ASSUME NEW p \in 1..c, p # at, SameKey(routes, first[p], k + 1) PROVE FALSE
    OBVIOUS
  <2>1. first[p] \in 1..k /\ first[at] \in 1..k
    BY <1>4, <1>5
  <2>2. SameKey(routes, first[p], first[at]) /\ SameKey(routes, first[at], first[p])
    BY <1>8 DEF SameKey
  <2>3. first[p] <= first[at] /\ first[at] <= first[p]
    BY <1>4, <1>5, <2>1, <2>2
  <2>4. p < at \/ at < p
    BY <1>1, <1>5
  <2>5. first[p] < first[at] \/ first[at] < first[p]
    BY <1>4, <1>5, <2>4
  <2>. QED  BY <2>1, <2>3, <2>5
<1>10. ASSUME NEW p \in 1..c
       PROVE  /\ new[p] = routes[l[p]]
              /\ SameKey(routes, first[p], l[p])
              /\ \A j \in 1..(k + 1) : SameKey(routes, first[p], j) => first[p] <= j /\ j <= l[p]
  <2>1. CASE p = at
    <3>1. \A j \in 1..k : SameKey(routes, first[at], j) => first[at] <= j /\ j <= k + 1
      BY <1>3, <1>4, <1>5
    <3>2. first[at] <= k + 1 /\ k + 1 <= k + 1
      <4>1. first[at] \in 1..k
        BY <1>4, <1>5
      <4>. QED  BY <1>1, <4>1
    <3>3. \A j \in 1..(k + 1) : SameKey(routes, first[at], j) => first[at] <= j /\ j <= k + 1
      BY <1>2, <3>1, <3>2
    <3>. QED  BY <1>6, <1>8, <2>1, <3>3
  <2>2. CASE p # at
    <3>1. \A j \in 1..(k + 1) : SameKey(routes, first[p], j) => first[p] <= j /\ j <= last[p]
      BY <1>2, <1>4, <1>9, <2>2
    <3>. QED  BY <1>4, <1>5, <1>6, <2>2, <3>1
  <2>. QED  BY <2>1, <2>2
<1>11. \A i \in 1..(k + 1) : \E p \in 1..c : SameKey(routes, first[p], i)
  BY <1>2, <1>4, <1>5, <1>8
<1>12. KeptFrom(routes, k + 1, new, first, l)
  BY <1>4, <1>5, <1>7, <1>10, <1>11 DEF KeptFrom
<1>. QED  BY <1>12 DEF l, c

(* compatibilitySnapshot keeps the latest of each key in the place of the  *)
(* earliest.                                                               *)
LEMMA KeptIs ==
    ASSUME NEW R, NEW routes \in Seq(R)
    PROVE  /\ Kept(routes) \in Seq(R)
           /\ \E first, last : KeptFrom(routes, Len(routes), Kept(routes), first, last)
<1> DEFINE n == Len(routes)
           K == KeptUpTo(routes)
           Good == {k \in 0..n : \E first, last : KeptFrom(routes, k, K[k], first, last)}
<1>1. n \in Nat
  BY LenProperties
<1>2. /\ K \in [0..n -> Seq(R)] /\ K[0] = <<>>
      /\ \A k \in 1..n : K[k] = KeepLater(K[k - 1], routes[k])
  BY KeptUpToIs
<1>3. \A k \in 1..n : routes[k] \in R
  BY ElementOfSeq
<1> HIDE DEF K
<1>4. 0 \in Good
  <2>1. Len(K[0]) = 0 /\ 1..0 = {}
    BY <1>2
  <2> DEFINE none == [p \in 1..0 |-> 0]
  <2>2. none \in [1..0 -> 1..0]
    OBVIOUS
  <2>3. KeptFrom(routes, 0, K[0], none, none)
    <3> HIDE DEF none
    <3>. QED  BY <2>1, <2>2 DEF KeptFrom
  <2>. QED  BY <1>1, <2>3
<1>5. ASSUME NEW k \in 0..(n - 1), k \in Good
      PROVE  k + 1 \in Good
  <2>1. PICK first, last : KeptFrom(routes, k, K[k], first, last)
    BY <1>5
  <2> DEFINE kept == K[k]
             r == routes[k + 1]
             taken == {p \in DOMAIN kept : CompatibilityKey(kept[p]) = CompatibilityKey(r)}
  <2>2. /\ k \in 0..(Len(routes) - 1) /\ k + 1 \in 1..n /\ k \in 0..n /\ (k + 1) - 1 = k
        /\ k + 1 \in 0..n
    BY <1>1
  <2>3. kept \in Seq(R) /\ r \in R /\ K[k + 1] = KeepLater(kept, r)
    BY <1>2, <1>3, <2>2
  <2> HIDE DEF kept, Good, n
  <2>4. DOMAIN kept = 1..Len(kept) /\ Len(kept) \in Nat
    BY <2>3, LenProperties
  <2>5. \E f, l : KeptFrom(routes, k + 1, K[k + 1], f, l)
    <3>1. CASE taken = {}
      <4>1. K[k + 1] = Append(kept, routes[k + 1])
        BY <2>3, <3>1 DEF KeepLater
      <4>2. \A p \in 1..Len(kept) : CompatibilityKey(kept[p]) # CompatibilityKey(routes[k + 1])
        BY <2>4, <3>1
      <4>3. KeptFrom(routes, k, kept, first, last)
        BY <2>1 DEF kept
      <4>4. \E f, l : KeptFrom(routes, k + 1, Append(kept, routes[k + 1]), f, l)
        <5> HIDE DEF taken
        <5>. QED  BY <2>2, <2>3, <4>2, <4>3, KeptAppends
      <4>. QED  BY <4>1, <4>4
    <3>2. CASE taken # {}
      <4>1. PICK at \in 1..Len(kept) : CompatibilityKey(kept[at]) = CompatibilityKey(r)
        BY <2>4, <3>2
      <4>2. KeptFrom(routes, k, kept, first, last)
        BY <2>1 DEF kept
      <4>3. \A p \in 1..Len(kept) : p \in taken => p = at
        <5>1. \A p \in 1..Len(kept) : p \in taken => CompatibilityKey(kept[p]) = CompatibilityKey(kept[at])
          BY <4>1
        <5>2. k \in 0..Len(routes)
          BY <2>2, LenProperties
        <5> HIDE DEF taken
        <5>. QED  BY <2>3, <4>2, <5>1, <5>2, KeptApart
      <4>4. K[k + 1] = [p \in DOMAIN kept |-> IF p \in taken THEN r ELSE kept[p]]
        BY <2>3, <3>2 DEF KeepLater
      <4>5. at \in taken
        BY <2>4, <4>1
      <4> DEFINE new == K[k + 1]
      <4>6. new \in Seq(R)
        BY <2>3, KeepLaterIn
      <4>7. DOMAIN new = 1..Len(kept)
        BY <2>4, <4>4
      <4>8. new[at] = routes[k + 1] /\ \A p \in 1..Len(kept) : p # at => new[p] = kept[p]
        <5> HIDE DEF taken
        <5>. QED  BY <2>4, <4>1, <4>3, <4>4, <4>5
      <4> HIDE DEF new
      <4>9. Len(new) = Len(kept)
        BY <2>4, <4>6, <4>7, LenProperties
      <4>10. CompatibilityKey(kept[at]) = CompatibilityKey(routes[k + 1])
        BY <4>1
      <4>11. KeptFrom(routes, k + 1, new, first,
                      [p \in 1..Len(kept) |-> IF p = at THEN k + 1 ELSE last[p]])
        <5> HIDE DEF taken, r
        <5>. QED  BY ONLY <2>2, <2>3, <4>1, <4>2, <4>6, <4>8, <4>9, <4>10, KeptReplaces, routes \in Seq(R), SMTT(30)
      <4>. QED  BY <4>11 DEF new
    <3>. QED  BY <3>1, <3>2
  <2>. QED  BY <2>2, <2>5 DEF Good
<1>6. 0..n \subseteq Good
  <2> HIDE DEF Good
  <2>. QED  BY <1>1, <1>4, <1>5, Induction
<1>7. n \in Good /\ K[n] \in Seq(R)
  BY <1>1, <1>2, <1>6
<1>. QED  BY <1>7 DEF Kept, K

(* Tuples of different lengths differ.                                     *)
LEMMA TuplesDiffer ==
    ASSUME NEW x, NEW y, NEW u, NEW v, NEW w
    PROVE  <<u, v, w>> # <<x>> /\ (<<x>> = <<y>> => x = y)
<1>1. DOMAIN <<u, v, w>> = 1..3 /\ DOMAIN <<x>> = 1..1
  OBVIOUS
<1>2. 3 \in 1..3 /\ 3 \notin 1..1
  OBVIOUS
<1>3. <<x>>[1] = x /\ <<y>>[1] = y
  OBVIOUS
<1>. QED  BY <1>1, <1>2, <1>3, Zenon

(* Equal compatibility shapes have equal shapes, so that compile reports   *)
(* every pair that compatibilitySnapshot would merge.                      *)
LEMMA CompatibilityRefinesShape ==
    ASSUME NEW a, NEW b, CompatibilityShape(a) = CompatibilityShape(b)
    PROVE  Shape(a) = Shape(b)
<1>1. DOMAIN a = DOMAIN b
  <2>1. DOMAIN CompatibilityShape(a) = DOMAIN a /\ DOMAIN CompatibilityShape(b) = DOMAIN b
    BY DEF CompatibilityShape
  <2>. QED  BY <2>1
<1>2. ASSUME NEW k \in DOMAIN a
      PROVE  Shape(a)[k] = Shape(b)[k]
  <2>1. CompatibilityShape(a)[k] = CompatibilityShape(b)[k] /\ k \in DOMAIN b
    BY <1>1
  <2> DEFINE whole(c) == c[k].kind = "regex" /\ c[k].shapeText = Blank
  <2>2. /\ CompatibilityShape(a)[k] = IF whole(a) THEN <<"{", a[k].expression, "}">>
                                      ELSE <<Shape(a)[k]>>
        /\ CompatibilityShape(b)[k] = IF whole(b) THEN <<"{", b[k].expression, "}">>
                                      ELSE <<Shape(b)[k]>>
    BY <2>1 DEF CompatibilityShape
  <2>3. whole(a) => Shape(a)[k] = Hole
    BY DEF Shape
  <2>4. whole(b) => Shape(b)[k] = Hole
    BY <2>1 DEF Shape
  <2> HIDE DEF whole
  <2>5. CASE whole(a) /\ whole(b)
    BY <2>3, <2>4, <2>5
  <2>6. CASE ~whole(a) /\ ~whole(b)
    BY <2>1, <2>2, <2>6, TuplesDiffer, Zenon
  <2>7. CASE whole(a) # whole(b)
    BY <2>1, <2>2, <2>7, TuplesDiffer, Zenon
  <2>. QED  BY <2>5, <2>6, <2>7
<1>. QED  BY <1>1, <1>2 DEF Shape

(* Without conflicts all patterns parse and no key occurs twice.           *)
LEMMA NoConflictsApart ==
    ASSUME NEW R, NEW routes \in Seq(R), ~HasConflicts(routes)
    PROVE  /\ \A i \in 1..Len(routes) : Parses(routes[i].pattern)
           /\ \A i, j \in 1..Len(routes) : SameKey(routes, i, j) => i = j
<1>1. DOMAIN routes = 1..Len(routes) /\ Len(routes) \in Nat
  BY LenProperties
<1>2. \A i \in 1..Len(routes) : Parses(routes[i].pattern)
  BY <1>1 DEF HasConflicts, Retained
<1>3. \A i, j \in 1..Len(routes) : j < i => ShapeKey(routes[i]) # ShapeKey(routes[j])
  BY <1>1 DEF HasConflicts
<1>4. ASSUME NEW i \in 1..Len(routes), NEW j \in 1..Len(routes), SameKey(routes, i, j)
      PROVE  ShapeKey(routes[i]) = ShapeKey(routes[j])
  BY <1>4, CompatibilityRefinesShape DEF SameKey, CompatibilityKey, ShapeKey
<1>5. \A i, j \in 1..Len(routes) : i # j => i < j \/ j < i
  BY <1>1
<1>. QED  BY <1>2, <1>3, <1>4, <1>5

(* Routes of different keys are all kept as they are.                      *)
LEMMA KeptWithoutReplacing ==
    ASSUME NEW R, NEW routes \in Seq(R),
           \A i, j \in 1..Len(routes) : SameKey(routes, i, j) => i = j
    PROVE  Kept(routes) = routes
<1> DEFINE n == Len(routes)
           K == KeptUpTo(routes)
           Good == {k \in 0..n : Len(K[k]) = k /\ \A i \in 1..k : K[k][i] = routes[i]}
<1>1. n \in Nat
  BY LenProperties
<1>2. /\ K \in [0..n -> Seq(R)] /\ K[0] = <<>>
      /\ \A k \in 1..n : K[k] = KeepLater(K[k - 1], routes[k])
  BY KeptUpToIs
<1>3. \A k \in 1..n : routes[k] \in R
  BY ElementOfSeq
<1> HIDE DEF K
<1>4. 0 \in Good
  BY <1>1, <1>2
<1>5. ASSUME NEW k \in 0..(n - 1), k \in Good
      PROVE  k + 1 \in Good
  <2> DEFINE kept == K[k]
             r == routes[k + 1]
  <2>1. Len(kept) = k /\ \A i \in 1..k : kept[i] = routes[i]
    BY <1>5
  <2>2. k + 1 \in 1..n /\ k \in 0..n /\ (k + 1) - 1 = k /\ k + 1 \in 0..n /\ k \in Nat
    BY <1>1
  <2>3. kept \in Seq(R) /\ r \in R /\ K[k + 1] = KeepLater(kept, r)
    BY <1>2, <1>3, <2>2
  <2> HIDE DEF kept
  <2>4. DOMAIN kept = 1..k
    BY <2>1, <2>3, LenProperties
  <2>5. \A p \in 1..k : CompatibilityKey(kept[p]) # CompatibilityKey(r)
    <3>1. \A p \in 1..k : p \in 1..Len(routes) /\ p # k + 1
      BY <2>2
    <3>2. k + 1 \in 1..Len(routes)
      BY <2>2
    <3>. QED  BY <2>1, <3>1, <3>2 DEF SameKey
  <2>6. K[k + 1] = Append(kept, r)
    BY <2>3, <2>4, <2>5 DEF KeepLater
  <2> HIDE DEF r
  <2>7. Len(K[k + 1]) = k + 1 /\ K[k + 1][k + 1] = r /\ \A i \in 1..k : K[k + 1][i] = kept[i]
    BY <2>1, <2>3, <2>6, AppendProperties
  <2>8. \A i \in 1..(k + 1) : i = k + 1 \/ i \in 1..k
    BY <2>2
  <2>9. \A i \in 1..(k + 1) : K[k + 1][i] = routes[i]
    BY <2>1, <2>7, <2>8 DEF r
  <2>. QED  BY <2>2, <2>7, <2>9
<1>6. 0..n \subseteq Good
  <2> HIDE DEF Good
  <2>. QED  BY <1>1, <1>4, <1>5, Induction
<1>7. n \in Good /\ K[n] \in Seq(R)
  BY <1>1, <1>2, <1>6
<1>8. K[n] = routes
  <2>1. Len(K[n]) = Len(routes) /\ \A i \in 1..Len(routes) : K[n][i] = routes[i]
    BY <1>7
  <2>. QED  BY <1>7, <2>1, SeqEqual
<1>. QED  BY <1>8 DEF Kept, K

(* compile leaves routes alone that it retains.                            *)
LEMMA CompiledAsGiven ==
    ASSUME NEW R, NEW routes \in Seq(R), Retained(routes) = DOMAIN routes
    PROVE  CompileRoutes(routes) = routes
<1> DEFINE n == Len(routes)
<1>1. n \in Nat /\ DOMAIN routes = 1..n
  BY LenProperties
<1> HIDE DEF n
<1>2. Unranked(routes) = [i \in 1..n |-> 0]
  BY <1>1 DEF Unranked
<1>3. InOrder(Retained(routes), Unranked(routes)) = [k \in 1..n |-> k]
  BY <1>1, <1>2, InOrderIdentity
<1>4. CompileRoutes(routes) = [k \in 1..n |-> routes[k]]
  BY <1>3 DEF CompileRoutes
<1>5. routes = [k \in 1..n |-> routes[k]]
  BY <1>1, LenProperties
<1>. QED  BY <1>4, <1>5

(* compile retains all that compatibilitySnapshot kept.                    *)
LEMMA KeptCompilesAsKept ==
    ASSUME NEW R, Parsed(R), NEW routes \in Seq(R)
    PROVE  CompileRoutes(Kept(routes)) = Kept(routes)
<1> DEFINE kept == Kept(routes)
<1>1. PICK first, last : KeptFrom(routes, Len(routes), kept, first, last)
  BY KeptIs
<1>2. kept \in Seq(R)
  BY KeptIs
<1> HIDE DEF kept
<1>3. DOMAIN kept = 1..Len(kept) /\ Len(kept) \in Nat /\ \A p \in 1..Len(kept) : kept[p] \in R
  BY <1>2, LenProperties, ElementOfSeq
<1>4. \A p, q \in 1..Len(kept) : q < p => Key(kept[p]) # Key(kept[q])
  <2>1. Len(routes) \in 0..Len(routes)
    BY LenProperties
  <2>2. \A p, q \in 1..Len(kept) : CompatibilityKey(kept[p]) = CompatibilityKey(kept[q]) => p = q
    BY <1>1, <1>2, <2>1, KeptApart
  <2>3. \A p, q \in 1..Len(kept) :
           Key(kept[p]) = Key(kept[q]) => CompatibilityKey(kept[p]) = CompatibilityKey(kept[q])
    BY DEF Key, CompatibilityKey, SegmentsOf
  <2>. QED  BY <1>3, <2>2, <2>3
<1>5. \A p \in 1..Len(kept) : \A q \in 1..(p - 1) : q \in 1..Len(kept) /\ q < p
  BY <1>3
<1>6. Retained(kept) = DOMAIN kept
  BY <1>3, <1>4, <1>5 DEF Retained, Parsed
<1>. QED  BY <1>2, <1>6, CompiledAsGiven DEF kept

(* However a snapshot was filled, its routes are the kept ones.            *)
LEMMA FilledFromKept ==
    ASSUME NEW R, Parsed(R), NEW routes \in Seq(R), NEW fallbacks
    PROVE  /\ FillSnapshot(routes, fallbacks) = CompatibilitySnapshot(routes, fallbacks)
           /\ FillSnapshot(routes, fallbacks) =
                 [routes |-> Kept(routes), fallbacks |-> fallbacks,
                  dynamic |-> [m \in {r.method : r \in Range(Kept(routes))} |->
                                 Dynamic(Kept(routes), m)]]
<1>1. CompatibilitySnapshot(routes, fallbacks) =
         [routes |-> Kept(routes), fallbacks |-> fallbacks,
          dynamic |-> [m \in {r.method : r \in Range(Kept(routes))} |-> Dynamic(Kept(routes), m)]]
  BY KeptCompilesAsKept DEF CompatibilitySnapshot, CompileSnapshot
<1>2. CASE HasConflicts(routes)
  BY <1>1, <1>2 DEF FillSnapshot
<1>3. CASE ~HasConflicts(routes)
  <2>1. Kept(routes) = routes
    BY <1>3, NoConflictsApart, KeptWithoutReplacing
  <2>. QED  BY <1>1, <1>3, <2>1 DEF FillSnapshot, CompatibilitySnapshot
<1>. QED  BY <1>2, <1>3

-----------------------------------------------------------------------------

(* The ranks Dynamic sorts by.                                             *)
SpecificityOf(routes) == [i \in DOMAIN routes |-> Specificity(SegmentsOf(routes[i]))]

(* A specificity is a natural number.                                      *)
LEMMA SpecificityType ==
    ASSUME NEW segments, WellFormed(segments)
    PROVE  Specificity(segments) \in Nat
<1> DEFINE count(kind) == Cardinality({k \in DOMAIN segments : segments[k].kind = kind})
<1>1. ASSUME NEW kind PROVE count(kind) \in Nat
  <2> DEFINE T == {k \in DOMAIN segments : segments[k].kind = kind}
  <2>1. DOMAIN segments = 1..Len(segments) /\ Len(segments) \in Nat
    BY WellFormedLen
  <2>2. IsFiniteSet(1..Len(segments))
    BY <2>1, FS_Interval
  <2>3. T \subseteq 1..Len(segments)
    BY <2>1
  <2> HIDE DEF T
  <2>4. IsFiniteSet(T)
    BY <2>2, <2>3, FS_Subset
  <2>5. Cardinality(T) \in Nat
    BY <2>4, FS_CardinalityType
  <2>. QED  BY <2>5 DEF T
<1>2. count("static") \in Nat /\ count("regex") \in Nat /\ count("parameter") \in Nat /\ count("wildcard") \in Nat
  BY <1>1
<1>3. Specificity(segments) =
        4 * count("static") + 3 * count("regex") + 2 * count("parameter") + count("wildcard")
  BY DEF Specificity
<1> HIDE DEF count
<1>. QED  BY <1>2, <1>3

(* s is a snapshot of the routes kept, whatever its fallbacks.             *)
Filled(s, kept) ==
    /\ s.routes = kept
    /\ s.dynamic = [m \in {r.method : r \in Range(kept)} |-> Dynamic(kept, m)]

(* Each route of a snapshot has well-formed segments.                      *)
LEMMA KeptWellFormed ==
    ASSUME NEW R, Parsed(R), NEW kept \in Seq(R)
    PROVE  /\ Len(kept) \in Nat /\ DOMAIN kept = 1..Len(kept)
           /\ \A i \in 1..Len(kept) :
                 /\ kept[i] \in R /\ IsText(kept[i].pattern) /\ Parses(kept[i].pattern)
                 /\ WellFormed(SegmentsOf(kept[i]))
                 /\ SpecificityOf(kept)[i] \in Nat
<1>1. Len(kept) \in Nat /\ DOMAIN kept = 1..Len(kept) /\ \A i \in 1..Len(kept) : kept[i] \in R
  BY LenProperties, ElementOfSeq
<1>2. \A i \in 1..Len(kept) : IsText(kept[i].pattern) /\ Parses(kept[i].pattern)
  BY <1>1 DEF Parsed
<1>3. \A i \in 1..Len(kept) : WellFormed(SegmentsOf(kept[i]))
  BY <1>2, ParsedIsWellFormed DEF SegmentsOf
<1>4. \A i \in 1..Len(kept) : SpecificityOf(kept)[i] \in Nat
  BY <1>1, <1>3, SpecificityType DEF SpecificityOf
<1>. QED  BY <1>1, <1>2, <1>3, <1>4

(* The dynamic routes of a method, most specific first.                    *)
LEMMA DynamicOfIs ==
    ASSUME NEW R, Parsed(R), NEW kept \in Seq(R), NEW s, Filled(s, kept), NEW m
    PROVE  LET d == DynamicOf(s, m)
           IN  /\ d \in Seq(DynamicAt(kept, m))
               /\ \A x \in DynamicAt(kept, m) : \E i \in 1..Len(d) : d[i] = x
               /\ \A i, j \in 1..Len(d) : i < j => Precedes(SpecificityOf(kept), d[i], d[j])
<1> DEFINE n == Len(kept)
           d == DynamicOf(s, m)
           S == DynamicAt(kept, m)
           rank == SpecificityOf(kept)
           c == Cardinality(S)
<1>1. n \in Nat /\ DOMAIN kept = 1..n /\ rank \in [1..n -> Nat]
  BY KeptWellFormed DEF SpecificityOf
<1>2. S \in SUBSET (1..n)
  BY <1>1 DEF DynamicAt
<1>3. CASE m \in {r.method : r \in Range(kept)}
  <2>1. d = InOrder(S, rank)
    BY <1>3 DEF Filled, DynamicOf, Dynamic, SpecificityOf
  <2> HIDE DEF d, S, rank, n
  <2>2. /\ c \in Nat /\ Sorted(d, S, rank) /\ \A x \in S : \E i \in 1..c : d[i] = x
    <3>1. c \in 0..n
      BY <1>1, <1>2, InOrderSorted
    <3>. QED  BY <1>1, <1>2, <2>1, <3>1, InOrderSorted
  <2>3. d \in [1..c -> S] /\ \A i, j \in 1..c : i < j => Precedes(rank, d[i], d[j])
    BY <2>2 DEF Sorted
  <2> HIDE DEF c
  <2>4. d \in Seq(S)
    BY <2>2, <2>3, SeqDef
  <2>5. Len(d) = c
    BY <2>2, <2>3, <2>4, LenProperties
  <2>. QED  BY <2>2, <2>3, <2>4, <2>5 DEF d, S, rank
<1>4. CASE m \notin {r.method : r \in Range(kept)}
  <2>1. d = <<>>
    BY <1>4 DEF Filled, DynamicOf
  <2>2. S = {}
    BY <1>1, <1>4 DEF DynamicAt, Range
  <2>. QED  BY <2>1, <2>2, EmptySeq
<1>. QED  BY <1>3, <1>4

(* found is the first of the list that describes the path, or none.        *)
FirstOf(kept, list, path, params, found) ==
    \/ /\ found.route = 0 /\ found.params = params
       /\ \A j \in 1..Len(list) : ~Describes(SegmentsOf(kept[list[j]]), path)
    \/ \E j \in 1..Len(list) :
          /\ found.route = list[j]
          /\ found.params = MatchRoute(SegmentsOf(kept[list[j]]), path, params).params
          /\ Describes(SegmentsOf(kept[list[j]]), path)
          /\ \A i \in 1..(j - 1) : ~Describes(SegmentsOf(kept[list[i]]), path)

(* One turn of match.                                                      *)
LEMMA TryType ==
    ASSUME NEW R, Parsed(R), NEW kept \in Seq(R), NEW s, Filled(s, kept),
           NEW path \in Seq(Word) \ {<<>>}, NEW i \in 1..Len(kept),
           NEW found \in [route : 0..Len(kept), params : Seq(Binding)]
    PROVE  Try(s, found, i, path) \in [route : 0..Len(kept), params : Seq(Binding)]
<1> DEFINE mr == MatchRoute(SegmentsOf(kept[i]), path, found.params)
<1>1. WellFormed(SegmentsOf(kept[i])) /\ found.params \in Seq(Binding)
  BY KeptWellFormed
<1>2. mr.params \in Seq(Binding)
  BY <1>1, MatchRouteDescribes
<1>3. Try(s, found, i, path) =
        IF found.route # 0 THEN found ELSE [route |-> IF mr.ok THEN i ELSE 0, params |-> mr.params]
  BY DEF Try, Filled
<1> HIDE DEF mr
<1>4. Len(kept) \in Nat
  BY LenProperties
<1>5. (IF mr.ok THEN i ELSE 0) \in 0..Len(kept)
  BY <1>4
<1>. QED  BY <1>2, <1>3, <1>5

(* The loop of match, told by its recursion.                               *)
LEMMA TriesDef ==
    ASSUME NEW R, Parsed(R), NEW kept \in Seq(R), NEW s, Filled(s, kept),
           NEW path \in Seq(Word) \ {<<>>}, NEW params \in Seq(Binding),
           NEW list \in Seq(1..Len(kept))
    PROVE  /\ Tries(s, params, list, path)
                 \in [0..Len(list) -> [route : 0..Len(kept), params : Seq(Binding)]]
           /\ Tries(s, params, list, path)[0] = NoMatch(params)
           /\ \A k \in 1..Len(list) :
                 Tries(s, params, list, path)[k] =
                    Try(s, Tries(s, params, list, path)[k - 1], list[k], path)
<1> DEFINE n == Len(list)
           V == [route : 0..Len(kept), params : Seq(Binding)]
           base == NoMatch(params)
           step == [k \in 1..n |-> [m \in V |-> Try(s, m, list[k], path)]]
           Is(f) == f = [k \in 0..n |-> IF k = 0 THEN base ELSE Try(s, f[k - 1], list[k], path)]
<1>1. n \in Nat /\ Len(kept) \in Nat /\ \A k \in 1..n : list[k] \in 1..Len(kept)
  BY LenProperties, ElementOfSeq
<1>2. step \in [1..n -> [V -> V]] /\ base \in V
  <2>1. \A k \in 1..n : \A m \in V : Try(s, m, list[k], path) \in V
    BY <1>1, TryType
  <2>2. base \in V
    BY <1>1 DEF NoMatch
  <2> HIDE DEF base, V
  <2>. QED  BY <2>1, <2>2
<1>3. \A k \in 1..n : \A m \in V : step[k][m] = Try(s, m, list[k], path)
  OBVIOUS
<1> HIDE DEF n, V, base, step
<1>4. PICK f \in [0..n -> V] : Follows(f, n, base, step)
  BY <1>1, <1>2, Recursion
<1>5. \A k \in 1..n : k # 0 /\ k - 1 \in 0..n /\ k \in 0..n
  BY <1>1
<1>6. Is(f)
  <2>1. \A k \in 1..n : f[k] = Try(s, f[k - 1], list[k], path)
    BY <1>3, <1>4, <1>5 DEF Follows
  <2>2. f[0] = base
    BY <1>4 DEF Follows
  <2>3. \A k \in 0..n : k = 0 \/ k \in 1..n
    BY <1>1
  <2>. QED  BY <1>4, <2>1, <2>2, <2>3
<1>7. Tries(s, params, list, path) = CHOOSE g : Is(g)
  BY DEF Tries, base, n
<1>8. ASSUME NEW g, Is(g) PROVE g = f
  <2>1. g = [k \in 0..n |-> g[k]]
    BY <1>8
  <2>2. FollowsIn(g, n, V, base, step)
    <3>1. g[0] = base
      BY <1>1, <1>8
    <3>2. \A k \in 1..n : g[k] = Try(s, g[k - 1], list[k], path)
      BY <1>5, <1>8
    <3>. QED  BY <1>3, <3>1, <3>2 DEF FollowsIn
  <2>. QED  BY <1>1, <1>2, <1>4, <2>1, <2>2, RecursionUnique
<1> HIDE DEF Is
<1>9. Tries(s, params, list, path) = f
  BY <1>6, <1>7, <1>8
<1>10. \A k \in 1..n : f[k] = Try(s, f[k - 1], list[k], path)
  BY <1>3, <1>4, <1>5 DEF Follows
<1>. QED  BY <1>4, <1>9, <1>10 DEF Follows, n, V, base

(* The loop of match finds the first of its list.                          *)
LEMMA TriesFindFirst ==
    ASSUME NEW R, Parsed(R), NEW kept \in Seq(R), NEW s, Filled(s, kept),
           NEW path \in Seq(Word) \ {<<>>}, NEW params \in Seq(Binding),
           NEW list \in Seq(1..Len(kept))
    PROVE  FirstOf(kept, list, path, params, Tries(s, params, list, path)[Len(list)])
<1> DEFINE T == Tries(s, params, list, path)
           n == Len(list)
           D(j) == Describes(SegmentsOf(kept[list[j]]), path)
           P(j) == MatchRoute(SegmentsOf(kept[list[j]]), path, params).params
           None(k) == /\ T[k].route = 0 /\ T[k].params = params
                      /\ \A j \in 1..k : ~D(j)
           Found(k) == \E j \in 1..k : /\ T[k].route = list[j] /\ T[k].params = P(j) /\ D(j)
                                       /\ \A i \in 1..(j - 1) : ~D(i)
           Good == {k \in 0..n : None(k) \/ Found(k)}
<1>1. n \in Nat /\ \A k \in 1..n : list[k] \in 1..Len(kept)
  BY LenProperties, ElementOfSeq
<1>2. /\ T \in [0..n -> [route : 0..Len(kept), params : Seq(Binding)]]
      /\ T[0] = NoMatch(params)
      /\ \A k \in 1..n : T[k] = Try(s, T[k - 1], list[k], path)
  BY TriesDef
<1> HIDE DEF T
<1>3. 0 \in Good
  BY <1>1, <1>2 DEF NoMatch
<1>4. ASSUME NEW k \in 0..(n - 1), k \in Good
      PROVE  k + 1 \in Good
  <2>1. k + 1 \in 1..n /\ (k + 1) - 1 = k /\ k + 1 \in 0..n /\ k \in Nat /\ k \in 0..n
    BY <1>1
  <2>2. list[k + 1] \in 1..Len(kept) /\ list[k + 1] # 0
    BY <1>1, <2>1
  <2>3. T[k + 1] = Try(s, T[k], list[k + 1], path)
    BY <1>2, <2>1
  <2>4. CASE None(k)
    <3> DEFINE mr == MatchRoute(SegmentsOf(kept[list[k + 1]]), path, params)
    <3>1. WellFormed(SegmentsOf(kept[list[k + 1]]))
      BY <2>2, KeptWellFormed
    <3>2. (mr.ok <=> D(k + 1)) /\ (~mr.ok => mr.params = params)
      BY <3>1, MatchRouteDescribes
    <3>3. T[k + 1] = [route |-> IF mr.ok THEN list[k + 1] ELSE 0, params |-> mr.params]
      BY <2>3, <2>4 DEF Try, Filled
    <3>4. mr.params = P(k + 1)
      OBVIOUS
    <3> HIDE DEF mr, D, P
    <3>5. CASE mr.ok
      <4>1. T[k + 1].route = list[k + 1] /\ T[k + 1].params = P(k + 1) /\ D(k + 1)
        BY <3>2, <3>3, <3>4, <3>5
      <4>2. k + 1 \in 1..(k + 1) /\ \A i \in 1..((k + 1) - 1) : ~D(i)
        BY <2>1, <2>4
      <4>3. Found(k + 1)
        BY <4>1, <4>2
      <4>. QED  BY <2>1, <4>3
    <3>6. CASE ~mr.ok
      <4>1. \A j \in 1..(k + 1) : j = k + 1 \/ j \in 1..k
        BY <2>1
      <4>2. T[k + 1].route = 0 /\ T[k + 1].params = params
        BY <3>2, <3>3, <3>6
      <4>3. \A j \in 1..(k + 1) : ~D(j)
        BY <2>4, <3>2, <3>6, <4>1
      <4>. QED  BY <2>1, <4>2, <4>3
    <3>. QED  BY <3>5, <3>6
  <2>5. CASE Found(k)
    <3>1. PICK j \in 1..k : /\ T[k].route = list[j] /\ T[k].params = P(j) /\ D(j)
                            /\ \A i \in 1..(j - 1) : ~D(i)
      BY <2>5
    <3>2. j \in 1..n /\ j \in 1..(k + 1)
      BY <1>1, <2>1
    <3>3. T[k].route # 0
      BY <1>1, <3>1, <3>2
    <3>4. T[k + 1] = T[k]
      BY <2>3, <3>3 DEF Try
    <3> HIDE DEF D, P
    <3>. QED  BY <2>1, <3>1, <3>2, <3>4
  <2>. QED  BY <1>4, <2>4, <2>5
<1>5. 0..n \subseteq Good
  <2> HIDE DEF Good
  <2>. QED  BY <1>1, <1>3, <1>4, Induction
<1>6. None(n) \/ Found(n)
  BY <1>1, <1>5
<1>. QED  BY <1>6 DEF FirstOf, T

(* Literal patterns that spell one path are equal.                         *)
LEMMA PatternOfPath ==
    ASSUME NEW t, NEW u, IsText(t), IsText(u), IsExact(t), IsExact(u), PathOf(t) = PathOf(u)
    PROVE  t = u
<1>1. DOMAIN t = 1..Len(t) /\ DOMAIN u = 1..Len(u) /\ t \in Seq(Range(t)) /\ u \in Seq(Range(u))
  BY LenProperties DEF IsText
<1>2. DOMAIN t = DOMAIN u
  <2>1. DOMAIN PathOf(t) = DOMAIN t /\ DOMAIN PathOf(u) = DOMAIN u
    BY DEF PathOf
  <2>. QED  BY <2>1
<1>3. ASSUME NEW x, IsText(x), IsExact(x), NEW k \in DOMAIN x
      PROVE  x[k] = Static(PathOf(x)[k])
  <2>1. IsSegment(x[k]) /\ x[k].kind = "static"
    BY <1>3 DEF IsText, IsExact
  <2>2. PathOf(x)[k] = x[k].literal
    BY DEF PathOf
  <2>. QED  BY <2>1, <2>2 DEF IsSegment, Malformed
<1>4. \A k \in DOMAIN t : t[k] = u[k]
  BY <1>2, <1>3
<1>. QED  BY <1>1, <1>2, <1>4

(* Before compares ranks from the left.                                    *)
LEMMA BeforeIs ==
    ASSUME NEW a, NEW b, NEW c, NEW d, NEW e, NEW f, NEW g, NEW h
    PROVE  Before(<<a, b, c, d>>, <<e, f, g, h>>) <=>
              \/ a < e
              \/ a = e /\ b < f
              \/ a = e /\ b = f /\ c < g
              \/ a = e /\ b = f /\ c = g /\ d < h
<1> DEFINE r == <<a, b, c, d>>
           s == <<e, f, g, h>>
<1>1. /\ r[1] = a /\ r[2] = b /\ r[3] = c /\ r[4] = d
      /\ s[1] = e /\ s[2] = f /\ s[3] = g /\ s[4] = h
  OBVIOUS
<1>2. 1..4 = {1, 2, 3, 4}
  OBVIOUS
<1> HIDE DEF r, s
<1> DEFINE B(n) == r[n] < s[n] /\ \A k \in 1..(n - 1) : r[k] = s[k]
<1>3. Before(r, s) <=> B(1) \/ B(2) \/ B(3) \/ B(4)
  BY <1>2 DEF Before
<1>4. B(1) <=> r[1] < s[1]
  OBVIOUS
<1>5. B(2) <=> r[1] = s[1] /\ r[2] < s[2]
  OBVIOUS
<1>6. B(3) <=> r[1] = s[1] /\ r[2] = s[2] /\ r[3] < s[3]
  <2>1. 1..(3 - 1) = {1, 2}
    OBVIOUS
  <2>. QED  BY <2>1
<1>7. B(4) <=> r[1] = s[1] /\ r[2] = s[2] /\ r[3] = s[3] /\ r[4] < s[4]
  <2>1. 1..(4 - 1) = {1, 2, 3}
    OBVIOUS
  <2>. QED  BY <2>1
<1> HIDE DEF B
<1>8. Before(r, s) <=> \/ r[1] < s[1]
                       \/ r[1] = s[1] /\ r[2] < s[2]
                       \/ r[1] = s[1] /\ r[2] = s[2] /\ r[3] < s[3]
                       \/ r[1] = s[1] /\ r[2] = s[2] /\ r[3] = s[3] /\ r[4] < s[4]
  BY <1>3, <1>4, <1>5, <1>6, <1>7, Zenon
<1>9. Before(r, s) <=> \/ a < e
                       \/ a = e /\ b < f
                       \/ a = e /\ b = f /\ c < g
                       \/ a = e /\ b = f /\ c = g /\ d < h
  BY <1>1, <1>8, Zenon
<1>. QED  BY <1>9 DEF r, s

(* The rank of a registration but for its place.                           *)
Grade(r) == << IF IsExact(r.pattern) THEN 0 ELSE 1,
               IF r.method = AnyMethod THEN 1 ELSE 0,
               IF IsExact(r.pattern) THEN 0 ELSE 0 - Specificity(SegmentsOf(r)) >>

(* The rank of a registration of grade g that has that place.              *)
Placed(g, place) == <<g[1], g[2], g[3], place>>

(* The parts of a grade are integers.                                      *)
LEMMA GradeType ==
    ASSUME NEW R, Parsed(R), NEW r \in R
    PROVE  /\ Grade(r)[1] = IF IsExact(r.pattern) THEN 0 ELSE 1
           /\ Grade(r)[2] = IF r.method = AnyMethod THEN 1 ELSE 0
           /\ Grade(r)[3] = IF IsExact(r.pattern) THEN 0 ELSE 0 - Specificity(SegmentsOf(r))
           /\ Specificity(SegmentsOf(r)) \in Nat
           /\ Grade(r)[1] \in Int /\ Grade(r)[2] \in Int /\ Grade(r)[3] \in Int
<1>1. WellFormed(SegmentsOf(r))
  BY ParsedIsWellFormed DEF Parsed, SegmentsOf
<1>2. Specificity(SegmentsOf(r)) \in Nat
  BY <1>1, SpecificityType
<1>3. /\ Grade(r)[1] = IF IsExact(r.pattern) THEN 0 ELSE 1
      /\ Grade(r)[2] = IF r.method = AnyMethod THEN 1 ELSE 0
      /\ Grade(r)[3] = IF IsExact(r.pattern) THEN 0 ELSE 0 - Specificity(SegmentsOf(r))
  BY DEF Grade
<1>4. 0 - Specificity(SegmentsOf(r)) \in Int
  BY <1>2
<1>. QED  BY <1>2, <1>3, <1>4

(* A request for method and path can reach r.                              *)
Serves(r, method, path) ==
    r.method \in {method, AnyMethod} /\ Describes(SegmentsOf(r), path)

(* The route kept at p comes before the one kept at q.                     *)
Ahead(kept, p, q) == Before(Placed(Grade(kept[p]), p), Placed(Grade(kept[q]), q))

(* Among dynamic routes of one method the order of Dynamic is that of the  *)
(* ranks.                                                                  *)
LEMMA AheadOfSameKind ==
    ASSUME NEW R, Parsed(R), NEW kept \in Seq(R), NEW m,
           NEW p \in DynamicAt(kept, m), NEW q \in DynamicAt(kept, m),
           Precedes(SpecificityOf(kept), p, q)
    PROVE  Ahead(kept, p, q)
<1>1. /\ p \in 1..Len(kept) /\ kept[p].method = m /\ ~IsExact(kept[p].pattern)
      /\ q \in 1..Len(kept) /\ kept[q].method = m /\ ~IsExact(kept[q].pattern)
      /\ DOMAIN kept = 1..Len(kept) /\ Len(kept) \in Nat
  BY LenProperties DEF DynamicAt
<1>2. kept[p] \in R /\ kept[q] \in R
  BY <1>1, ElementOfSeq
<1> DEFINE g == Grade(kept[p])
           h == Grade(kept[q])
           a == Specificity(SegmentsOf(kept[p]))
           b == Specificity(SegmentsOf(kept[q]))
<1>3. a \in Nat /\ g[1] = 1 /\ g[3] = 0 - a /\ g[2] = IF m = AnyMethod THEN 1 ELSE 0
  BY <1>1, <1>2, GradeType
<1>4. b \in Nat /\ h[1] = 1 /\ h[3] = 0 - b /\ h[2] = IF m = AnyMethod THEN 1 ELSE 0
  BY <1>1, <1>2, GradeType
<1>5. a > b \/ (a = b /\ p < q)
  BY <1>1 DEF Precedes, SpecificityOf
<1> HIDE DEF g, h, a, b
<1>6. g[1] = h[1] /\ g[2] = h[2] /\ (g[3] < h[3] \/ (g[3] = h[3] /\ p < q))
  BY <1>3, <1>4, <1>5
<1>. QED  BY <1>6, BeforeIs DEF Ahead, Placed, g, h

(* match finds the dynamic route that comes before the others which serve  *)
(* the request.                                                            *)
LEMMA MatchDynamicFinds ==
    ASSUME NEW R, Parsed(R), NEW kept \in Seq(R), NEW s, Filled(s, kept), NEW m,
           NEW path \in Seq(Word) \ {<<>>}, NEW params \in Seq(Binding)
    PROVE  LET found == MatchDynamic(s, params, m, path)
               at == found.route
           IN  \/ /\ at = 0 /\ found.params = params
                  /\ \A q \in 1..Len(kept) :
                        Serves(kept[q], m, path) => IsExact(kept[q].pattern)
               \/ /\ at \in 1..Len(kept)
                  /\ Serves(kept[at], m, path) /\ ~IsExact(kept[at].pattern)
                  /\ found.params = MatchRoute(SegmentsOf(kept[at]), path, params).params
                  /\ \A q \in 1..Len(kept) :
                        /\ m # AnyMethod /\ q # at
                        /\ Serves(kept[q], m, path) /\ ~IsExact(kept[q].pattern)
                        => Ahead(kept, at, q)
<1> DEFINE d == DynamicOf(s, m)
           e == DynamicOf(s, AnyMethod)
           S == DynamicAt(kept, m)
           T == DynamicAt(kept, AnyMethod)
           list == d \o e
           found == MatchDynamic(s, params, m, path)
           D(q) == Describes(SegmentsOf(kept[q]), path)
<1>1. /\ d \in Seq(S)
      /\ \A x \in S : \E i \in 1..Len(d) : d[i] = x
      /\ \A i, j \in 1..Len(d) : i < j => Precedes(SpecificityOf(kept), d[i], d[j])
  BY DynamicOfIs
<1>2. /\ e \in Seq(T)
      /\ \A x \in T : \E i \in 1..Len(e) : e[i] = x
      /\ \A i, j \in 1..Len(e) : i < j => Precedes(SpecificityOf(kept), e[i], e[j])
  BY DynamicOfIs
<1>3. DOMAIN kept = 1..Len(kept) /\ Len(kept) \in Nat
  BY LenProperties
<1>4. /\ \A x \in S : x \in 1..Len(kept) /\ kept[x].method = m /\ ~IsExact(kept[x].pattern)
      /\ \A x \in T : x \in 1..Len(kept) /\ kept[x].method = AnyMethod /\ ~IsExact(kept[x].pattern)
  BY <1>3 DEF DynamicAt
<1>5. \A q \in 1..Len(kept) : q \in S \cup T <=>
         kept[q].method \in {m, AnyMethod} /\ ~IsExact(kept[q].pattern)
  BY <1>3 DEF DynamicAt
<1>6. found = Tries(s, params, list, path)[Len(list)]
  BY DEF MatchDynamic
<1> HIDE DEF d, e, S, T, found
<1>7. /\ list \in Seq(S \cup T) /\ Len(list) = Len(d) + Len(e)
      /\ Len(d) \in Nat /\ Len(e) \in Nat
      /\ \A i \in 1..Len(d) : list[i] = d[i] /\ d[i] \in S
      /\ \A i \in 1..Len(e) : list[Len(d) + i] = e[i] /\ e[i] \in T
      /\ \A j \in 1..Len(list) :
            j \in 1..Len(d) \/ (j - Len(d) \in 1..Len(e) /\ Len(d) + (j - Len(d)) = j)
  BY <1>1, <1>2, ConcatIs
<1> HIDE DEF list
<1>8. list \in Seq(1..Len(kept)) /\ \A j \in 1..Len(list) : list[j] \in S \cup T
  <2>1. \A j \in 1..Len(list) : list[j] \in S \cup T
    BY <1>7, ElementOfSeq
  <2>2. S \cup T \subseteq 1..Len(kept)
    BY <1>4
  <2>3. \A j \in 1..Len(list) : list[j] \in 1..Len(kept)
    BY <2>1, <2>2
  <2>4. list = [j \in 1..Len(list) |-> list[j]] /\ Len(list) \in Nat
    BY <1>7, LenProperties
  <2>. QED  BY <2>1, <2>3, <2>4, SeqDef
<1>9. FirstOf(kept, list, path, params, found)
  BY <1>6, <1>8, TriesFindFirst
<1>10. ASSUME NEW q \in S \cup T
       PROVE  \E j \in 1..Len(list) : list[j] = q
  <2>1. CASE q \in S
    <3>1. PICK i \in 1..Len(d) : d[i] = q
      BY <1>1, <2>1
    <3>2. i \in 1..Len(list)
      BY <1>7
    <3>. QED  BY <1>7, <3>1, <3>2
  <2>2. CASE q \in T
    <3>1. PICK i \in 1..Len(e) : e[i] = q
      BY <1>2, <2>2
    <3>2. Len(d) + i \in 1..Len(list)
      BY <1>7
    <3>. QED  BY <1>7, <3>1, <3>2
  <2>. QED  BY <2>1, <2>2
<1>11. CASE /\ found.route = 0 /\ found.params = params
            /\ \A j \in 1..Len(list) : ~D(list[j])
  <2>1. ASSUME NEW q \in 1..Len(kept), Serves(kept[q], m, path), ~IsExact(kept[q].pattern)
        PROVE  FALSE
    <3>1. q \in S \cup T /\ D(q)
      BY <1>5, <2>1 DEF Serves
    <3>. QED  BY <1>10, <1>11, <3>1
  <2>. QED  BY <1>11, <2>1 DEF found
<1>12. ASSUME NEW j \in 1..Len(list), found.route = list[j],
              found.params = MatchRoute(SegmentsOf(kept[list[j]]), path, params).params,
              D(list[j]), \A i \in 1..(j - 1) : ~D(list[i])
       PROVE  LET at == found.route
              IN  /\ at \in 1..Len(kept)
                  /\ Serves(kept[at], m, path) /\ ~IsExact(kept[at].pattern)
                  /\ found.params = MatchRoute(SegmentsOf(kept[at]), path, params).params
                  /\ \A q \in 1..Len(kept) :
                        /\ m # AnyMethod /\ q # at
                        /\ Serves(kept[q], m, path) /\ ~IsExact(kept[q].pattern)
                        => Ahead(kept, at, q)
  <2> DEFINE at == list[j]
  <2>1. at \in S \cup T
    BY <1>8
  <2>2. at \in 1..Len(kept)
    BY <1>4, <2>1
  <2>3. kept[at].method \in {m, AnyMethod} /\ ~IsExact(kept[at].pattern) /\ D(at)
    BY <1>5, <1>12, <2>1, <2>2
  <2>4. ASSUME NEW q \in 1..Len(kept), m # AnyMethod, q # at,
               Serves(kept[q], m, path), ~IsExact(kept[q].pattern)
        PROVE  Ahead(kept, at, q)
    <3>1. q \in S \cup T /\ D(q)
      BY <1>5, <2>4 DEF Serves
    <3>2. PICK k \in 1..Len(list) : list[k] = q
      BY <1>10, <3>1
    <3>3. j < k
      <4>1. k \notin 1..(j - 1)
        BY <1>12, <3>1, <3>2
      <4>2. k # j
        BY <2>4, <3>2
      <4>. QED  BY <4>1, <4>2, <1>7
    <3>4. CASE j \in 1..Len(d) /\ k \in 1..Len(d)
      <4>1. at = d[j] /\ q = d[k] /\ at \in S /\ q \in S
        BY <1>7, <3>2, <3>4
      <4>2. Precedes(SpecificityOf(kept), at, q)
        BY <1>1, <3>3, <3>4, <4>1
      <4> HIDE DEF at
      <4>. QED  BY <4>1, <4>2, AheadOfSameKind DEF S
    <3>5. CASE j \in 1..Len(d) /\ k \notin 1..Len(d)
      <4>1. at \in S /\ q \in T
        BY <1>7, <3>2, <3>5
      <4>2. kept[at].method = m /\ kept[q].method = AnyMethod
        BY <1>4, <4>1
      <4>3. kept[at] \in R /\ kept[q] \in R
        BY <2>2, <2>4, ElementOfSeq
      <4> HIDE DEF at
      <4>4. Grade(kept[at])[1] = 1 /\ Grade(kept[at])[2] = 0
        BY <2>3, <2>4, <4>2, <4>3, GradeType
      <4>5. Grade(kept[q])[1] = 1 /\ Grade(kept[q])[2] = 1
        BY <2>4, <4>2, <4>3, GradeType
      <4>. QED  BY <4>4, <4>5, BeforeIs DEF Ahead, Placed
    <3>6. CASE j \notin 1..Len(d) /\ k \notin 1..Len(d)
      <4> DEFINE jj == j - Len(d)
                 kk == k - Len(d)
      <4>1. /\ jj \in 1..Len(e) /\ Len(d) + jj = j
            /\ kk \in 1..Len(e) /\ Len(d) + kk = k
        BY <1>7, <3>6
      <4>2. jj < kk
        BY <1>7, <3>3
      <4> HIDE DEF jj, kk
      <4>3. at = e[jj] /\ q = e[kk] /\ at \in T /\ q \in T
        BY <1>7, <3>2, <4>1
      <4>4. Precedes(SpecificityOf(kept), at, q)
        BY <1>2, <4>1, <4>2, <4>3
      <4> HIDE DEF at
      <4>. QED  BY <4>3, <4>4, AheadOfSameKind DEF T
    <3>7. ~(j \notin 1..Len(d) /\ k \in 1..Len(d))
      BY <1>7, <3>3
    <3>. QED  BY <3>4, <3>5, <3>6, <3>7
  <2>. QED  BY <1>12, <2>2, <2>3, <2>4 DEF Serves
<1>. QED  BY <1>9, <1>11, <1>12 DEF FirstOf, found

-----------------------------------------------------------------------------

(* No method and pattern occurs twice.                                     *)
Distinct(kept) == \A p, q \in 1..Len(kept) : Key(kept[p]) = Key(kept[q]) => p = q

(* The exact table at a path: its literal pattern, which occurs once.      *)
LEMMA ExactAtIs ==
    ASSUME NEW R, Parsed(R), NEW kept \in Seq(R), NEW s, Filled(s, kept), NEW m,
           NEW path \in Seq(Word) \ {<<>>}
    PROVE  /\ \A p : p \in ExactAt(s, m, path) <=>
                 /\ p \in 1..Len(kept) /\ kept[p].method = m
                 /\ IsExact(kept[p].pattern) /\ Describes(SegmentsOf(kept[p]), path)
           /\ Distinct(kept) => \A p, q \in ExactAt(s, m, path) : p = q
<1>1. DOMAIN kept = 1..Len(kept) /\ s.routes = kept
  BY LenProperties DEF Filled
<1>2. \A p \in 1..Len(kept) : IsText(kept[p].pattern) /\ Parses(kept[p].pattern)
  BY KeptWellFormed
<1>3. \A p : p \in ExactAt(s, m, path) <=>
         /\ p \in 1..Len(kept) /\ kept[p].method = m
         /\ IsExact(kept[p].pattern) /\ PathOf(kept[p].pattern) = path
  BY <1>1 DEF ExactAt
<1>4. \A p \in 1..Len(kept) : IsExact(kept[p].pattern) =>
         (PathOf(kept[p].pattern) = path <=> Describes(SegmentsOf(kept[p]), path))
  BY <1>2, ExactDescribes DEF SegmentsOf
<1>5. ASSUME Distinct(kept), NEW p \in ExactAt(s, m, path), NEW q \in ExactAt(s, m, path)
      PROVE  p = q
  <2>1. kept[p].pattern = kept[q].pattern
    BY <1>2, <1>3, PatternOfPath
  <2>. QED  BY <1>3, <1>5, <2>1 DEF Distinct, Key
<1>. QED  BY <1>3, <1>4, <1>5

(* found is the kept route that comes before all others which serve the    *)
(* request, with the parameters its pattern binds.                         *)
Finds(kept, method, path, params, found) ==
    \/ /\ found.route = 0 /\ found.params = params
       /\ \A q \in 1..Len(kept) : ~Serves(kept[q], method, path)
    \/ /\ found.route \in 1..Len(kept)
       /\ Serves(kept[found.route], method, path)
       /\ found.params = IF IsExact(kept[found.route].pattern) THEN params
                         ELSE MatchRoute(SegmentsOf(kept[found.route]), path, params).params
       /\ \A q \in 1..Len(kept) :
             q # found.route /\ Serves(kept[q], method, path) => Ahead(kept, found.route, q)

(* The three lookups of serveHTTP together find it.                        *)
LEMMA LookupFinds ==
    ASSUME NEW R, Parsed(R), NEW kept \in Seq(R), Distinct(kept), NEW s, Filled(s, kept),
           NEW method, method # AnyMethod,
           NEW path \in Seq(Word) \ {<<>>}, NEW params \in Seq(Binding)
    PROVE  Finds(kept, method, path, params, Lookup(s, params, method, path))
<1> DEFINE found == Lookup(s, params, method, path)
           at == found.route
           S == ExactAt(s, method, path)
           T == ExactAt(s, AnyMethod, path)
<1>1. \A p : p \in S <=> /\ p \in 1..Len(kept) /\ kept[p].method = method
                         /\ IsExact(kept[p].pattern) /\ Describes(SegmentsOf(kept[p]), path)
  BY ExactAtIs
<1>2. \A p : p \in T <=> /\ p \in 1..Len(kept) /\ kept[p].method = AnyMethod
                         /\ IsExact(kept[p].pattern) /\ Describes(SegmentsOf(kept[p]), path)
  BY ExactAtIs
<1>3. (\A p, q \in S : p = q) /\ \A p, q \in T : p = q
  BY ExactAtIs
<1>4. \A p \in 1..Len(kept) : kept[p] \in R
  BY ElementOfSeq
<1>5. found = CASE S # {} -> [route |-> CHOOSE i \in S : TRUE, params |-> params]
                [] S = {} /\ T # {} -> [route |-> CHOOSE i \in T : TRUE, params |-> params]
                [] OTHER -> MatchDynamic(s, params, method, path)
  BY DEF Lookup
<1> HIDE DEF found, S, T
<1>6. \A p \in 1..Len(kept) :
         /\ Grade(kept[p])[1] = IF IsExact(kept[p].pattern) THEN 0 ELSE 1
         /\ Grade(kept[p])[2] = IF kept[p].method = AnyMethod THEN 1 ELSE 0
  BY <1>4, GradeType
<1>7. ASSUME NEW p \in 1..Len(kept), NEW q \in 1..Len(kept),
             IsExact(kept[p].pattern), ~IsExact(kept[q].pattern)
      PROVE  Ahead(kept, p, q)
  <2>1. Grade(kept[p])[1] = 0 /\ Grade(kept[q])[1] = 1
    BY <1>6, <1>7
  <2>. QED  BY <2>1, BeforeIs DEF Ahead, Placed
<1>8. CASE S # {}
  <2>1. found = [route |-> CHOOSE i \in S : TRUE, params |-> params]
    BY <1>5, <1>8
  <2>2. at \in S /\ found.params = params
    BY <1>8, <2>1
  <2>3. at \in 1..Len(kept) /\ Serves(kept[at], method, path) /\ IsExact(kept[at].pattern)
    BY <1>1, <2>2 DEF Serves
  <2>4. ASSUME NEW q \in 1..Len(kept), q # at, Serves(kept[q], method, path)
        PROVE  Ahead(kept, at, q)
    <3>1. CASE ~IsExact(kept[q].pattern)
      BY <1>7, <2>3, <3>1
    <3>2. CASE IsExact(kept[q].pattern)
      <4>1. q \notin S
        BY <1>3, <2>2, <2>4
      <4>2. kept[q].method = AnyMethod /\ kept[at].method = method
        BY <1>1, <2>2, <2>4, <3>2, <4>1 DEF Serves
      <4>3. Grade(kept[at])[1] = 0 /\ Grade(kept[q])[1] = 0
        BY <1>6, <2>3, <3>2
      <4>4. Grade(kept[at])[2] = 0 /\ Grade(kept[q])[2] = 1
        BY <1>6, <2>3, <4>2
      <4>. QED  BY <4>3, <4>4, BeforeIs DEF Ahead, Placed
    <3>. QED  BY <3>1, <3>2
  <2>. QED  BY <2>2, <2>3, <2>4 DEF Finds, found
<1>9. CASE S = {} /\ T # {}
  <2>1. found = [route |-> CHOOSE i \in T : TRUE, params |-> params]
    BY <1>5, <1>9
  <2>2. at \in T /\ found.params = params
    BY <1>9, <2>1
  <2>3. at \in 1..Len(kept) /\ Serves(kept[at], method, path) /\ IsExact(kept[at].pattern)
    BY <1>2, <2>2 DEF Serves
  <2>4. ASSUME NEW q \in 1..Len(kept), q # at, Serves(kept[q], method, path)
        PROVE  Ahead(kept, at, q)
    <3>1. q \notin S /\ q \notin T
      BY <1>3, <1>9, <2>2, <2>4
    <3>2. ~IsExact(kept[q].pattern)
      BY <1>1, <1>2, <2>4, <3>1 DEF Serves
    <3>. QED  BY <1>7, <2>3, <3>2
  <2>. QED  BY <2>2, <2>3, <2>4 DEF Finds, found
<1>10. CASE S = {} /\ T = {}
  <2>1. found = MatchDynamic(s, params, method, path)
    BY <1>5, <1>10
  <2>2. \A q \in 1..Len(kept) : Serves(kept[q], method, path) => ~IsExact(kept[q].pattern)
    BY <1>1, <1>2, <1>10 DEF Serves
  <2>3. \/ /\ at = 0 /\ found.params = params
           /\ \A q \in 1..Len(kept) :
                 Serves(kept[q], method, path) => IsExact(kept[q].pattern)
        \/ /\ at \in 1..Len(kept)
           /\ Serves(kept[at], method, path) /\ ~IsExact(kept[at].pattern)
           /\ found.params = MatchRoute(SegmentsOf(kept[at]), path, params).params
           /\ \A q \in 1..Len(kept) :
                 /\ method # AnyMethod /\ q # at
                 /\ Serves(kept[q], method, path) /\ ~IsExact(kept[q].pattern)
                 => Ahead(kept, at, q)
    BY <2>1, MatchDynamicFinds
  <2>. QED  BY <2>2, <2>3 DEF Finds, found
<1>. QED  BY <1>8, <1>9, <1>10

(* A method is allowed when some route of it, or of any method, serves the *)
(* path.                                                                   *)
LEMMA ProbeFinds ==
    ASSUME NEW R, Parsed(R), NEW kept \in Seq(R), NEW s, Filled(s, kept), NEW m,
           NEW path \in Seq(Word) \ {<<>>},
           \A q \in 1..Len(kept) : ~Serves(kept[q], AnyMethod, path)
    PROVE  (ExactAt(s, m, path) # {} \/ MatchDynamic(s, <<>>, m, path).route # 0)
              <=> \E q \in 1..Len(kept) : Serves(kept[q], m, path)
<1> DEFINE found == MatchDynamic(s, <<>>, m, path)
           at == found.route
<1>1. <<>> \in Seq(Binding)
  BY EmptySeq
<1>2. \/ /\ at = 0
         /\ \A q \in 1..Len(kept) : Serves(kept[q], m, path) => IsExact(kept[q].pattern)
      \/ at \in 1..Len(kept) /\ Serves(kept[at], m, path)
  BY <1>1, MatchDynamicFinds
<1>3. \A p : p \in ExactAt(s, m, path) <=>
         /\ p \in 1..Len(kept) /\ kept[p].method = m
         /\ IsExact(kept[p].pattern) /\ Describes(SegmentsOf(kept[p]), path)
  BY ExactAtIs
<1>4. Len(kept) \in Nat
  BY LenProperties
<1> HIDE DEF found
<1>5. ASSUME NEW q \in 1..Len(kept), Serves(kept[q], m, path), at = 0
      PROVE  q \in ExactAt(s, m, path)
  <2>1. kept[q].method = m
    BY <1>5 DEF Serves
  <2>. QED  BY <1>2, <1>3, <1>4, <1>5, <2>1 DEF Serves
<1>6. ASSUME NEW q \in ExactAt(s, m, path) PROVE q \in 1..Len(kept) /\ Serves(kept[q], m, path)
  BY <1>3, <1>6 DEF Serves
<1>7. at # 0 => at \in 1..Len(kept) /\ Serves(kept[at], m, path)
  BY <1>2
<1>. QED  BY <1>5, <1>6, <1>7 DEF found

(* What is kept is distinct, and comes from the registrations.             *)
LEMMA KeptTable ==
    ASSUME NEW R, Parsed(R), NEW routes \in Seq(R)
    PROVE  /\ Kept(routes) \in Seq(R) /\ Distinct(Kept(routes))
           /\ \E first, last : KeptFrom(routes, Len(routes), Kept(routes), first, last)
<1> DEFINE kept == Kept(routes)
<1>1. kept \in Seq(R)
  BY KeptIs
<1>2. PICK first, last : KeptFrom(routes, Len(routes), kept, first, last)
  BY KeptIs
<1>3. Len(routes) \in 0..Len(routes)
  BY LenProperties
<1> HIDE DEF kept
<1>4. \A p, q \in 1..Len(kept) : CompatibilityKey(kept[p]) = CompatibilityKey(kept[q]) => p = q
  BY <1>1, <1>2, <1>3, KeptApart
<1>5. \A p, q \in 1..Len(kept) :
         Key(kept[p]) = Key(kept[q]) => CompatibilityKey(kept[p]) = CompatibilityKey(kept[q])
  BY DEF Key, CompatibilityKey, SegmentsOf
<1>6. Distinct(kept)
  BY <1>4, <1>5 DEF Distinct
<1>. QED  BY <1>1, <1>2, <1>6 DEF kept

(* The candidates are the latest of each kept key that serve the request.  *)
LEMMA CandidatesAreKept ==
    ASSUME NEW R, Parsed(R), NEW routes \in Seq(R), NEW kept \in Seq(R), NEW first, NEW last,
           KeptFrom(routes, Len(routes), kept, first, last), NEW method, NEW path
    PROVE  \A i : i \in Candidates(routes, method, path) <=>
              \E p \in 1..Len(kept) : i = last[p] /\ Serves(kept[p], method, path)
<1> DEFINE n == Len(routes)
<1>1. DOMAIN routes = 1..n /\ n \in Nat
  BY LenProperties
<1>2. /\ first \in [1..Len(kept) -> 1..n] /\ last \in [1..Len(kept) -> 1..n]
      /\ \A p \in 1..Len(kept) :
            /\ kept[p] = routes[last[p]]
            /\ SameKey(routes, first[p], last[p])
            /\ \A j \in 1..n : SameKey(routes, first[p], j) => first[p] <= j /\ j <= last[p]
      /\ \A i \in 1..n : \E p \in 1..Len(kept) : SameKey(routes, first[p], i)
  BY DEF KeptFrom
<1>3. \A i, j \in 1..n : j \in Alike(routes, i) <=> SameKey(routes, i, j)
  BY <1>1 DEF Alike, SameKey
<1>4. \A i, j : j \in Alike(routes, i) => j \in 1..n
  BY <1>1 DEF Alike
<1> HIDE DEF n
<1>5. ASSUME NEW i \in Candidates(routes, method, path)
      PROVE  \E p \in 1..Len(kept) : i = last[p] /\ Serves(kept[p], method, path)
  <2>1. /\ i \in 1..n /\ \A j \in Alike(routes, i) : j <= i
        /\ Serves(routes[i], method, path)
    BY <1>1, <1>5 DEF Candidates, Serves
  <2>2. PICK p \in 1..Len(kept) : SameKey(routes, first[p], i)
    BY <1>2, <2>1
  <2>3. last[p] \in 1..n /\ i <= last[p] /\ SameKey(routes, first[p], last[p])
    BY <1>2, <2>1, <2>2
  <2>4. SameKey(routes, i, last[p])
    BY <2>2, <2>3 DEF SameKey
  <2>5. last[p] <= i
    BY <1>3, <2>1, <2>3, <2>4
  <2>6. i = last[p]
    BY <1>1, <2>1, <2>3, <2>5
  <2>. QED  BY <1>2, <2>1, <2>2, <2>6
<1>6. ASSUME NEW p \in 1..Len(kept), Serves(kept[p], method, path)
      PROVE  last[p] \in Candidates(routes, method, path)
  <2>1. last[p] \in 1..n /\ kept[p] = routes[last[p]]
    BY <1>2
  <2>2. ASSUME NEW j \in Alike(routes, last[p]) PROVE j <= last[p]
    <3>1. j \in 1..n /\ SameKey(routes, last[p], j)
      BY <1>3, <1>4, <2>1, <2>2
    <3>2. SameKey(routes, first[p], j)
      BY <1>2, <3>1 DEF SameKey
    <3>. QED  BY <1>2, <3>1, <3>2
  <2>. QED  BY <1>1, <1>6, <2>1, <2>2 DEF Candidates, Serves
<1>. QED  BY <1>5, <1>6

(* The rank of a candidate is that of the route kept for it.               *)
LEMMA RankIs ==
    ASSUME NEW R, NEW routes \in Seq(R), NEW kept \in Seq(R), NEW first, NEW last,
           KeptFrom(routes, Len(routes), kept, first, last), NEW p \in 1..Len(kept)
    PROVE  Rank(routes, last[p]) = Placed(Grade(kept[p]), first[p])
<1> DEFINE n == Len(routes)
           A == Alike(routes, last[p])
<1>1. DOMAIN routes = 1..n /\ n \in Nat
  BY LenProperties
<1>2. /\ first[p] \in 1..n /\ last[p] \in 1..n
      /\ kept[p] = routes[last[p]]
      /\ SameKey(routes, first[p], last[p])
      /\ \A j \in 1..n : SameKey(routes, first[p], j) => first[p] <= j
  BY DEF KeptFrom
<1>3. first[p] \in A
  BY <1>1, <1>2 DEF Alike, SameKey
<1>4. \A j \in A : j \in 1..n /\ first[p] <= j
  BY <1>1, <1>2 DEF Alike, SameKey
<1>5. Place(routes, last[p]) = CHOOSE j \in A : \A k \in A : j <= k
  BY DEF Place
<1> HIDE DEF A, n
<1>6. Place(routes, last[p]) = first[p]
  <2>1. \A j \in A : (\A k \in A : j <= k) => j = first[p]
    BY <1>2, <1>3, <1>4
  <2>. QED  BY <1>3, <1>4, <1>5, <2>1
<1> DEFINE r == kept[p]
           e == IF IsExact(r.pattern) THEN 0 ELSE 1
           a == IF r.method = AnyMethod THEN 1 ELSE 0
           c == IF IsExact(r.pattern) THEN 0 ELSE 0 - Specificity(SegmentsOf(r))
<1>7. Rank(routes, last[p]) = <<e, a, c, first[p]>>
  BY <1>2, <1>6 DEF Rank
<1>8. Grade(r) = <<e, a, c>>
  BY DEF Grade
<1> HIDE DEF e, a, c, r
<1>9. Grade(r)[1] = e /\ Grade(r)[2] = a /\ Grade(r)[3] = c
  BY <1>8
<1>. QED  BY <1>7, <1>9 DEF Placed, r

(* The candidate kept ahead of the others is the winner.                   *)
LEMMA WinnerIs ==
    ASSUME NEW R, Parsed(R), NEW routes \in Seq(R), NEW kept \in Seq(R), NEW first, NEW last,
           KeptFrom(routes, Len(routes), kept, first, last), NEW method, NEW path,
           NEW at \in 1..Len(kept), Serves(kept[at], method, path),
           \A q \in 1..Len(kept) :
              q # at /\ Serves(kept[q], method, path) => Ahead(kept, at, q)
    PROVE  /\ last[at] \in Candidates(routes, method, path)
           /\ Winner(routes, method, path) = last[at]
<1> DEFINE C == Candidates(routes, method, path)
           w == last[at]
           Wins(i) == \A j \in C \ {i} : Before(Rank(routes, i), Rank(routes, j))
<1>1. \A i : i \in C <=> \E p \in 1..Len(kept) : i = last[p] /\ Serves(kept[p], method, path)
  BY CandidatesAreKept
<1>2. \A p \in 1..Len(kept) : Rank(routes, last[p]) = Placed(Grade(kept[p]), first[p])
  BY RankIs
<1>3. /\ first \in [1..Len(kept) -> 1..Len(routes)]
      /\ \A p, q \in 1..Len(kept) : p < q => first[p] < first[q]
  BY DEF KeptFrom
<1>4. \A p \in 1..Len(kept) : /\ Grade(kept[p])[1] \in Int /\ Grade(kept[p])[2] \in Int
                              /\ Grade(kept[p])[3] \in Int
  BY ElementOfSeq, GradeType
<1>5. w \in C
  BY <1>1
<1>6. ASSUME NEW q \in 1..Len(kept), q # at, Serves(kept[q], method, path)
      PROVE  /\ Before(Rank(routes, w), Rank(routes, last[q]))
             /\ ~Before(Rank(routes, last[q]), Rank(routes, w))
  <2> DEFINE g == Grade(kept[at])
             h == Grade(kept[q])
  <2>1. \/ g[1] < h[1]
        \/ g[1] = h[1] /\ g[2] < h[2]
        \/ g[1] = h[1] /\ g[2] = h[2] /\ g[3] < h[3]
        \/ g[1] = h[1] /\ g[2] = h[2] /\ g[3] = h[3] /\ at < q
    <3>1. Before(Placed(g, at), Placed(h, q))
      BY <1>6 DEF Ahead
    <3> HIDE DEF g, h
    <3>. QED  BY <3>1, BeforeIs DEF Placed
  <2>2. /\ g[1] \in Int /\ g[2] \in Int /\ g[3] \in Int
        /\ h[1] \in Int /\ h[2] \in Int /\ h[3] \in Int
    BY <1>4
  <2> DEFINE x == first[at]
             y == first[q]
  <2>3. (at < q => x < y) /\ x \in Int /\ y \in Int
    BY <1>3
  <2>4. Rank(routes, w) = Placed(g, x) /\ Rank(routes, last[q]) = Placed(h, y)
    BY <1>2
  <2> HIDE DEF g, h, x, y
  <2>5. Before(Placed(g, x), Placed(h, y))
    <3>1. \/ g[1] < h[1]
          \/ g[1] = h[1] /\ g[2] < h[2]
          \/ g[1] = h[1] /\ g[2] = h[2] /\ g[3] < h[3]
          \/ g[1] = h[1] /\ g[2] = h[2] /\ g[3] = h[3] /\ x < y
      BY <2>1, <2>3
    <3>. QED  BY <3>1, BeforeIs DEF Placed
  <2>6. ~Before(Placed(h, y), Placed(g, x))
    <3>1. ~ \/ h[1] < g[1]
            \/ h[1] = g[1] /\ h[2] < g[2]
            \/ h[1] = g[1] /\ h[2] = g[2] /\ h[3] < g[3]
            \/ h[1] = g[1] /\ h[2] = g[2] /\ h[3] = g[3] /\ y < x
      BY <2>1, <2>2, <2>3
    <3>. QED  BY <3>1, BeforeIs DEF Placed
  <2>. QED  BY <2>4, <2>5, <2>6
<1>7. Wins(w)
  <2>1. ASSUME NEW j \in C, j # w PROVE Before(Rank(routes, w), Rank(routes, j))
    <3>1. PICK q \in 1..Len(kept) : j = last[q] /\ Serves(kept[q], method, path)
      BY <1>1, <2>1
    <3>. QED  BY <1>6, <2>1, <3>1
  <2>. QED  BY <2>1
<1>8. ASSUME NEW i \in C, Wins(i) PROVE i = w
  <2> SUFFICES ASSUME i # w PROVE FALSE
    OBVIOUS
  <2>1. PICK q \in 1..Len(kept) : i = last[q] /\ Serves(kept[q], method, path)
    BY <1>1
  <2>2. ~Before(Rank(routes, i), Rank(routes, w))
    BY <1>6, <2>1
  <2>. QED  BY <1>5, <1>8, <2>2
<1>9. Winner(routes, method, path) = CHOOSE i \in C : Wins(i)
  BY DEF Winner
<1> HIDE DEF C, Wins
<1>. QED  BY <1>5, <1>7, <1>8, <1>9 DEF C

(* No more is kept than was registered.                                    *)
LEMMA KeptNoLonger ==
    ASSUME NEW R, NEW routes \in Seq(R)
    PROVE  Len(Kept(routes)) <= Len(routes)
<1> DEFINE kept == Kept(routes)
           c == Len(kept)
           n == Len(routes)
<1>1. PICK first, last : KeptFrom(routes, n, kept, first, last)
  BY KeptIs
<1>2. c \in Nat /\ n \in Nat
  BY KeptIs, LenProperties
<1>3. first \in [1..c -> 1..n] /\ \A p, q \in 1..c : p < q => first[p] < first[q]
  BY <1>1 DEF KeptFrom
<1> HIDE DEF c, n, kept
<1> DEFINE Good == {k \in 0..c : k = 0 \/ k <= first[k]}
<1>4. 0 \in Good
  BY <1>2
<1>5. ASSUME NEW k \in 0..(c - 1), k \in Good PROVE k + 1 \in Good
  <2>1. k + 1 \in 1..c /\ k + 1 \in 0..c /\ k \in Nat
    BY <1>2
  <2> DEFINE x == first[k + 1]
  <2>2. x \in 1..n
    BY <1>3, <2>1
  <2>3. CASE k = 0
    <3> HIDE DEF x
    <3>1. k + 1 <= x
      BY <2>2, <2>3
    <3>. QED  BY <2>1, <3>1 DEF x
  <2>4. CASE k # 0
    <3>1. k \in 1..c /\ k < k + 1
      BY <2>1, <2>4, <1>2
    <3> DEFINE y == first[k]
    <3>2. y < x /\ y \in 1..n /\ k <= y
      BY <1>3, <1>5, <2>1, <2>4, <3>1
    <3> HIDE DEF x, y
    <3>3. k + 1 <= x
      BY <2>1, <2>2, <3>2
    <3>. QED  BY <2>1, <3>3 DEF x
  <2>. QED  BY <2>3, <2>4
<1>6. c \in Good
  <2>1. 0..c \subseteq Good
    <3> HIDE DEF Good
    <3>. QED  BY <1>2, <1>4, <1>5, Induction
  <2>. QED  BY <1>2, <2>1
<1>7. c <= n
  <2>1. CASE c = 0
    BY <1>2, <2>1
  <2>2. CASE c # 0
    <3>1. c \in 1..c /\ c <= first[c]
      BY <1>2, <1>6, <2>2
    <3> DEFINE x == first[c]
    <3>2. x \in 1..n
      BY <1>3, <3>1
    <3> HIDE DEF x
    <3>. QED  BY <1>2, <3>1, <3>2 DEF x
  <2>. QED  BY <2>1, <2>2
<1>. QED  BY <1>7 DEF c, n, kept

(* What a lookup finds, told from the registrations.                       *)
FindsWinner(routes, s, method, path, params, found) ==
    LET w == Winner(routes, method, path)
    IN  \/ /\ found.route = 0 /\ found.params = params
           /\ Candidates(routes, method, path) = {}
        \/ /\ found.route \in Nat \ {0}
           /\ w \in Candidates(routes, method, path)
           /\ w \in 1..Len(routes)
           /\ s.routes[found.route] = routes[w]
           /\ Serves(routes[w], method, path)
           /\ found.params = IF IsExact(routes[w].pattern) THEN params
                             ELSE MatchRoute(SegmentsOf(routes[w]), path, params).params

(* A lookup in the snapshot finds what Precedence says of the              *)
(* registrations it was built from.                                        *)
LEMMA LookupIsWinner ==
    ASSUME NEW R, Parsed(R), NEW routes \in Seq(R), NEW s, Filled(s, Kept(routes)),
           NEW method, method # AnyMethod,
           NEW path \in Seq(Word) \ {<<>>}, NEW params \in Seq(Binding)
    PROVE  FindsWinner(routes, s, method, path, params, Lookup(s, params, method, path))
<1> DEFINE kept == Kept(routes)
           found == Lookup(s, params, method, path)
           w == Winner(routes, method, path)
           at == found.route
<1>1. PICK first, last : KeptFrom(routes, Len(routes), kept, first, last)
  BY KeptTable
<1>2. kept \in Seq(R) /\ Distinct(kept) /\ s.routes = kept /\ Filled(s, kept)
  BY KeptTable DEF Filled
<1> HIDE DEF kept
<1>3. Finds(kept, method, path, params, found)
  BY <1>2, LookupFinds
<1>4. Len(kept) \in Nat
  BY <1>2, LenProperties
<1>5. \A p \in 1..Len(kept) : kept[p] = routes[last[p]] /\ last[p] \in 1..Len(routes)
  BY <1>1 DEF KeptFrom
<1> HIDE DEF found
<1>6. CASE at = 0
  <2>1. found.params = params /\ \A q \in 1..Len(kept) : ~Serves(kept[q], method, path)
    BY <1>3, <1>4, <1>6 DEF Finds
  <2>2. Candidates(routes, method, path) = {}
    BY <1>1, <1>2, <2>1, CandidatesAreKept
  <2>. QED  BY <1>6, <2>1, <2>2 DEF found, FindsWinner
<1>7. CASE at # 0
  <2>1. /\ at \in 1..Len(kept) /\ Serves(kept[at], method, path)
        /\ found.params = IF IsExact(kept[at].pattern) THEN params
                          ELSE MatchRoute(SegmentsOf(kept[at]), path, params).params
        /\ \A q \in 1..Len(kept) :
              q # at /\ Serves(kept[q], method, path) => Ahead(kept, at, q)
    BY <1>3, <1>7 DEF Finds
  <2>2. w = last[at] /\ w \in Candidates(routes, method, path)
    <3> HIDE DEF at
    <3>1. Winner(routes, method, path) = last[at] /\ last[at] \in Candidates(routes, method, path)
      BY <1>1, <1>2, <2>1, WinnerIs
    <3>. QED  BY <3>1
  <2>3. kept[at] = routes[w] /\ w \in 1..Len(routes)
    BY <1>5, <2>1, <2>2
  <2>4. at \in Nat \ {0}
    BY <1>4, <2>1
  <2>. QED  BY <1>2, <2>1, <2>2, <2>3, <2>4 DEF found, FindsWinner
<1>. QED  BY <1>6, <1>7

(* The methods a path without a route of its own is probed for.            *)
LEMMA ProbesFindTheServed ==
    ASSUME NEW R, Parsed(R), NEW routes \in Seq(R), NEW s, Filled(s, Kept(routes)),
           NEW Methods, AnyMethod \notin Methods,
           \A i \in 1..Len(routes) : routes[i].method \in Methods \cup {AnyMethod},
           NEW method, NEW path \in Seq(Word) \ {<<>>},
           Candidates(routes, method, path) = {}
    PROVE  /\ AllowedMethods(s, path) = {m \in Methods : Candidates(routes, m, path) # {}}
           /\ OtherMethods(s, method, path) = AllowedMethods(s, path)
<1> DEFINE kept == Kept(routes)
           Probe(m) == ExactAt(s, m, path) # {} \/ MatchDynamic(s, <<>>, m, path).route # 0
           M == DOMAIN s.dynamic
<1>1. PICK first, last : KeptFrom(routes, Len(routes), kept, first, last)
  BY KeptTable
<1>2. kept \in Seq(R) /\ Filled(s, kept)
  BY KeptTable
<1>3. DOMAIN kept = 1..Len(kept) /\ Len(kept) \in Nat
  BY <1>2, LenProperties
<1> HIDE DEF kept
<1>4. \A m : \A i : i \in Candidates(routes, m, path) <=>
                       \E p \in 1..Len(kept) : i = last[p] /\ Serves(kept[p], m, path)
  BY <1>1, <1>2, CandidatesAreKept
<1>5. \A m : Candidates(routes, m, path) # {} <=>
                \E p \in 1..Len(kept) : Serves(kept[p], m, path)
  BY <1>4
<1>6. \A p \in 1..Len(kept) : ~Serves(kept[p], method, path)
  BY <1>5
<1>7. \A p \in 1..Len(kept) : ~Serves(kept[p], AnyMethod, path)
  BY <1>6 DEF Serves
<1>8. \A m : Probe(m) <=> \E p \in 1..Len(kept) : Serves(kept[p], m, path)
  BY <1>2, <1>7, ProbeFinds
<1>9. M = {kept[p].method : p \in 1..Len(kept)}
  <2>1. M = {r.method : r \in Range(kept)}
    BY <1>2 DEF Filled
  <2>2. Range(kept) = {kept[p] : p \in 1..Len(kept)}
    BY <1>3 DEF Range
  <2>. QED  BY <2>1, <2>2
<1>10. \A p \in 1..Len(kept) : kept[p].method \in Methods \cup {AnyMethod}
  BY <1>1 DEF KeptFrom
<1> HIDE DEF Probe, M
<1>11. ASSUME NEW m, Probe(m) PROVE m \in M /\ m \in Methods /\ m # method
  <2>1. PICK p \in 1..Len(kept) : Serves(kept[p], m, path)
    BY <1>8, <1>11
  <2>2. kept[p].method # AnyMethod
    BY <1>7, <2>1 DEF Serves
  <2>3. kept[p].method = m
    BY <2>1, <2>2 DEF Serves
  <2>4. m # method
    BY <1>6, <2>1
  <2>. QED  BY <1>9, <1>10, <2>2, <2>3, <2>4
<1>12. AllowedMethods(s, path) = {m \in M : Probe(m)}
  BY DEF AllowedMethods, Probe, M
<1>13. OtherMethods(s, method, path) = {m \in M \ {method, AnyMethod} : Probe(m)}
  BY DEF OtherMethods, Probe, M
<1>14. AllowedMethods(s, path) = {m \in Methods : Candidates(routes, m, path) # {}}
  BY <1>5, <1>8, <1>11, <1>12
<1>15. OtherMethods(s, method, path) = AllowedMethods(s, path)
  BY <1>11, <1>12, <1>13
<1>. QED  BY <1>14, <1>15

(* A list of routes has a first one.                                       *)
LEMMA FirstListedIs ==
    ASSUME NEW list, list \subseteq Nat, list # {}
    PROVE  FirstListed(list) \in list
<1>1. \E i \in list : \A j \in list : i <= j
  BY LeastNatural
<1>. QED  BY <1>1 DEF FirstListed

(* An exact pattern is the text of the path it is indexed under.           *)
LEMMA ExactIsItsPath ==
    ASSUME NEW text, IsText(text), IsExact(text)
    PROVE  AsText(PathOf(text)) = text
<1>1. DOMAIN text = 1..Len(text) /\ text \in Seq(Range(text))
  BY LenProperties DEF IsText
<1>2. DOMAIN PathOf(text) = DOMAIN text /\ \A k \in DOMAIN text : PathOf(text)[k] = text[k].literal
  BY DEF PathOf
<1>3. \A k \in DOMAIN text : text[k] = Static(text[k].literal)
  <2>1. \A k \in DOMAIN text : IsSegment(text[k]) /\ text[k].kind = "static"
    BY DEF IsText, IsExact
  <2>. QED  BY <2>1, SegmentForms
<1>4. AsText(PathOf(text)) = [k \in DOMAIN text |-> text[k]]
  BY <1>2, <1>3 DEF AsText
<1>5. text = [k \in DOMAIN text |-> text[k]]
  BY <1>1
<1>. QED  BY <1>4, <1>5

(* Whatever the exact table has is listed under the same text.             *)
LEMMA ReportedExact ==
    ASSUME NEW R, Parsed(R), NEW kept \in Seq(R), NEW s, Filled(s, kept), NEW m,
           NEW path \in Seq(Word) \ {<<>>}
    PROVE  LET i == CHOOSE j \in ExactAt(s, m, path) : TRUE
           IN  /\ ReportsExact(s, m, path) <=> ExactAt(s, m, path) # {}
               /\ ExactAt(s, m, path) # {} =>
                     /\ i \in 1..Len(kept)
                     /\ ReportExact(s, m, path) =
                           [kind |-> "MatchedRoute", pattern |-> s.routes[i].pattern,
                            handler |-> s.routes[i].handler, params |-> ParamsMap(<<>>)]
<1> DEFINE E == ExactAt(s, m, path)
           L == Listed(s, {m}, AsText(path))
           i == CHOOSE j \in E : TRUE
<1>1. DOMAIN kept = 1..Len(kept) /\ Len(kept) \in Nat /\ s.routes = kept
  BY KeptWellFormed DEF Filled
<1>2. \A j \in E : /\ j \in 1..Len(kept) /\ kept[j].method = m
                    /\ IsExact(kept[j].pattern) /\ PathOf(kept[j].pattern) = path
  BY <1>1 DEF ExactAt
<1>3. \A j \in E : kept[j].pattern = AsText(path)
  <2>1. \A j \in E : IsText(kept[j].pattern)
    BY <1>2, KeptWellFormed
  <2>. QED  BY <1>2, <2>1, ExactIsItsPath
<1>4. L = {j \in 1..Len(kept) : kept[j].method = m /\ kept[j].pattern = AsText(path)}
  BY <1>1 DEF Listed
<1>5. E \subseteq L
  BY <1>2, <1>3, <1>4
<1>6. ReportsExact(s, m, path) <=> E # {} /\ L # {}
  BY DEF ReportsExact
<1>7. ReportExact(s, m, path) = Reported(s, L, s.routes[i].handler, <<>>)
  BY DEF ReportExact
<1> HIDE DEF E, L
<1>8. E # {} => i \in E
  OBVIOUS
<1>9. ASSUME E # {}
      PROVE  s.routes[FirstListed(L)].pattern = s.routes[i].pattern
  <2>1. L # {}
    BY <1>5, <1>9
  <2>2. L \subseteq 1..Len(kept)
    BY <1>4
  <2>3. L \subseteq Nat
    BY <1>1, <2>2
  <2>4. FirstListed(L) \in L
    BY <2>1, <2>3, FirstListedIs
  <2>5. kept[FirstListed(L)].pattern = AsText(path)
    BY <1>4, <2>4
  <2>6. i \in E
    BY <1>8, <1>9
  <2> HIDE DEF i
  <2>. QED  BY <1>1, <1>3, <2>5, <2>6
<1>10. ASSUME E # {}
       PROVE  ReportExact(s, m, path) =
                [kind |-> "MatchedRoute", pattern |-> s.routes[i].pattern,
                 handler |-> s.routes[i].handler, params |-> ParamsMap(<<>>)]
  <2> HIDE DEF i
  <2>. QED  BY <1>7, <1>9, <1>10 DEF Reported
<1>11. E # {} => i \in 1..Len(kept)
  BY <1>2, <1>8
<1>12. ReportsExact(s, m, path) <=> E # {}
  BY <1>5, <1>6
<1>. QED  BY <1>10, <1>11, <1>12 DEF E

(* Whatever the dynamic lists have is listed.                              *)
LEMMA ReportedDynamic ==
    ASSUME NEW R, Parsed(R), NEW kept \in Seq(R), NEW s, Filled(s, kept), NEW method,
           NEW path \in Seq(Word) \ {<<>>}
    PROVE  LET found == MatchDynamic(s, <<>>, method, path)
               route == s.routes[found.route]
           IN  /\ ReportsDynamic(s, method, path) <=> found.route # 0
               /\ found.route # 0 =>
                     ReportDynamic(s, method, path) =
                        [kind |-> "MatchedRoute", pattern |-> route.pattern,
                         handler |-> route.handler, params |-> ParamsMap(found.params)]
<1> DEFINE found == MatchDynamic(s, <<>>, method, path)
           at == found.route
           route == s.routes[at]
           L == Listed(s, {method, AnyMethod}, route.pattern)
<1>1. DOMAIN kept = 1..Len(kept) /\ Len(kept) \in Nat /\ s.routes = kept
  BY KeptWellFormed DEF Filled
<1>2. at # 0 => at \in 1..Len(kept) /\ Serves(kept[at], method, path)
  <2>1. <<>> \in Seq(Binding)
    BY EmptySeq
  <2>. QED  BY <2>1, MatchDynamicFinds
<1>3. ReportsDynamic(s, method, path) <=> at # 0 /\ L # {}
  BY DEF ReportsDynamic
<1>4. ReportDynamic(s, method, path) = Reported(s, L, route.handler, found.params)
  BY DEF ReportDynamic
<1> HIDE DEF found
<1>5. L = {j \in 1..Len(kept) : /\ kept[j].method \in {method, AnyMethod}
                               /\ kept[j].pattern = route.pattern}
  BY <1>1 DEF Listed
<1> HIDE DEF L
<1>6. at # 0 => at \in L
  BY <1>1, <1>2, <1>5 DEF Serves
<1>7. ASSUME at # 0 PROVE s.routes[FirstListed(L)].pattern = route.pattern
  <2>1. L # {} /\ L \subseteq Nat
    BY <1>5, <1>6, <1>7
  <2>2. FirstListed(L) \in L
    BY <2>1, FirstListedIs
  <2>. QED  BY <1>1, <1>5, <2>2
<1>8. ASSUME at # 0
      PROVE  ReportDynamic(s, method, path) =
                [kind |-> "MatchedRoute", pattern |-> route.pattern,
                 handler |-> route.handler, params |-> ParamsMap(found.params)]
  <2> HIDE DEF route
  <2>. QED  BY <1>4, <1>7, <1>8 DEF Reported
<1>9. ReportsDynamic(s, method, path) <=> at # 0
  BY <1>3, <1>6
<1>. QED  BY <1>8, <1>9 DEF found

(* The lookup that Resolve writes out reports what the one of serveHTTP    *)
(* finds: the same handler, its pattern, and a map of its parameters.      *)
LEMMA ResolveIs ==
    ASSUME NEW R, Parsed(R), NEW kept \in Seq(R), NEW s, Filled(s, kept), NEW method,
           NEW path \in Seq(Word) \ {<<>>}
    PROVE  LET found == Lookup(s, <<>>, method, path)
               route == s.routes[found.route]
           IN  Resolve(s, method, path) =
                 IF found.route # 0
                 THEN [kind |-> "MatchedRoute", pattern |-> route.pattern,
                       handler |-> route.handler, params |-> ParamsMap(found.params)]
                 ELSE ReportMismatch(s, method, path)
<1> DEFINE S == ExactAt(s, method, path)
           T == ExactAt(s, AnyMethod, path)
           i == CHOOSE j \in S : TRUE
           k == CHOOSE j \in T : TRUE
           d == MatchDynamic(s, <<>>, method, path)
           found == Lookup(s, <<>>, method, path)
           Report(at, params) ==
               [kind |-> "MatchedRoute", pattern |-> s.routes[at].pattern,
                handler |-> s.routes[at].handler, params |-> ParamsMap(params)]
           answer == Resolve(s, method, path)
           missed == ReportMismatch(s, method, path)
<1>1. found = CASE S # {} -> [route |-> i, params |-> <<>>]
                [] S = {} /\ T # {} -> [route |-> k, params |-> <<>>]
                [] OTHER -> d
  BY DEF Lookup
<1>2. /\ ReportsExact(s, method, path) <=> S # {}
      /\ S # {} => i \in 1..Len(kept) /\ ReportExact(s, method, path) = Report(i, <<>>)
  BY ReportedExact
<1>3. /\ ReportsExact(s, AnyMethod, path) <=> T # {}
      /\ T # {} => k \in 1..Len(kept) /\ ReportExact(s, AnyMethod, path) = Report(k, <<>>)
  BY ReportedExact
<1>4. /\ ReportsDynamic(s, method, path) <=> d.route # 0
      /\ d.route # 0 => ReportDynamic(s, method, path) = Report(d.route, d.params)
  BY ReportedDynamic
<1>5. Len(kept) \in Nat
  BY KeptWellFormed
<1> DEFINE A == ReportsExact(s, method, path)
           B == ReportsExact(s, AnyMethod, path)
           D == ReportsDynamic(s, method, path)
<1>6. answer = CASE A -> ReportExact(s, method, path)
                 [] ~A /\ B -> ReportExact(s, AnyMethod, path)
                 [] ~A /\ ~B /\ D -> ReportDynamic(s, method, path)
                 [] OTHER -> missed
  BY DEF Resolve
<1> HIDE DEF S, T, i, k, d, found, answer, missed, A, B, D, Report
<1>7. answer = IF found.route # 0 THEN Report(found.route, found.params) ELSE missed
  <2>1. CASE S # {}
    <3>1. found = [route |-> i, params |-> <<>>]
      BY <1>1, <2>1
    <3>2. found.route = i /\ found.params = <<>> /\ i # 0
      BY <1>2, <1>5, <2>1, <3>1
    <3>3. answer = Report(i, <<>>)
      BY <1>2, <1>6, <2>1 DEF A
    <3>. QED  BY <3>2, <3>3
  <2>2. CASE S = {} /\ T # {}
    <3>1. found = [route |-> k, params |-> <<>>]
      BY <1>1, <2>2
    <3>2. found.route = k /\ found.params = <<>> /\ k # 0
      BY <1>3, <1>5, <2>2, <3>1
    <3>3. answer = Report(k, <<>>)
      BY <1>2, <1>3, <1>6, <2>2 DEF A, B
    <3>. QED  BY <3>2, <3>3
  <2>3. CASE S = {} /\ T = {}
    <3>1. found = d
      BY <1>1, <2>3
    <3>. QED  BY <1>2, <1>3, <1>4, <1>6, <2>3, <3>1 DEF A, B, D
  <2>. QED  BY <2>1, <2>2, <2>3
<1>. QED  BY <1>7 DEF answer, found, missed, Report

(* The map of bindings with different names has each of them.              *)
LEMMA ParamsMapIs ==
    ASSUME NEW params \in Seq(Binding), IsInjective([k \in DOMAIN params |-> params[k].name])
    PROVE  /\ DOMAIN ParamsMap(params) = {params[k].name : k \in DOMAIN params}
           /\ \A k \in DOMAIN params : ParamsMap(params)[params[k].name] = params[k].value
<1> DEFINE names == {params[k].name : k \in DOMAIN params}
           Own(name) == {k \in DOMAIN params : params[k].name = name}
           Latest(name) == CHOOSE k \in Own(name) : \A j \in Own(name) : j <= k
<1>1. ParamsMap(params) = [name \in names |-> params[Latest(name)].value]
  BY DEF ParamsMap
<1>2. ASSUME NEW k \in DOMAIN params
      PROVE  ParamsMap(params)[params[k].name] = params[k].value
  <2>1. DOMAIN params \subseteq Nat
    BY LenProperties
  <2>2. \A j \in DOMAIN params : params[j].name = params[k].name => j = k
    BY DEF IsInjective
  <2>3. Own(params[k].name) = {k}
    BY <2>2
  <2>4. \A j \in Own(params[k].name) : j <= k
    BY <2>1, <2>3
  <2>5. Latest(params[k].name) = k
    <3> HIDE DEF Own
    <3>. QED  BY <2>3, <2>4
  <2> HIDE DEF Latest, Own
  <2>. QED  BY <1>1, <2>5
<1> HIDE DEF Latest, Own
<1>. QED  BY <1>1, <1>2

-----------------------------------------------------------------------------

(* A covering prefix, part by part.                                        *)
LEMMA CoversIs ==
    ASSUME NEW prefix, IsText(prefix), NEW path \in Seq(Word)
    PROVE  Covers(prefix, path) <=>
              /\ Len(prefix) <= Len(path)
              /\ \A k \in DOMAIN prefix : prefix[k] = Static(path[k])
<1> DEFINE n == Len(prefix)
           a == PathOf(prefix)
<1>1. n \in Nat /\ DOMAIN prefix = 1..n /\ Len(path) \in Nat
  BY LenProperties DEF IsText
<1>2. a = [k \in 1..n |-> prefix[k].literal]
  BY <1>1 DEF PathOf
<1>3. \A k \in 1..n : prefix[k].kind = "static" =>
                         prefix[k] = Static(prefix[k].literal) /\ prefix[k].literal \in Word
  <2>1. \A k \in 1..n : IsSegment(prefix[k])
    BY <1>1 DEF IsText
  <2>. QED  BY <2>1, SegmentForms
<1>4. \A w : Static(w).kind = "static" /\ Static(w).literal = w
  BY DEF Static
<1>5. IsExact(prefix) <=> \A k \in 1..n : prefix[k].kind = "static"
  BY <1>1 DEF IsExact
<1> HIDE DEF n, a
<1>6. ASSUME \A k \in 1..n : prefix[k].kind = "static"
      PROVE  IsPrefix(a, path) <=> n <= Len(path) /\ \A k \in 1..n : a[k] = path[k]
  <2>1. a \in Seq(Word)
    <3>1. \A k \in 1..n : prefix[k].literal \in Word
      BY <1>3, <1>6
    <3>. QED  BY <1>1, <1>2, <3>1, SeqDef
  <2>2. Len(a) = n
    BY <1>1, <1>2, <2>1, LenProperties
  <2>3. SubSeq(a, 1, n) = a
    BY <2>1, <2>2, SubSeqFull
  <2>4. IsPrefix(a, path) <=> n <= Len(path) /\ a = SubSeq(path, 1, n)
    BY <2>2, <2>3 DEF IsPrefix
  <2>5. ASSUME n <= Len(path)
        PROVE  a = SubSeq(path, 1, n) <=> \A k \in 1..n : a[k] = path[k]
    <3> DEFINE b == SubSeq(path, 1, n)
    <3>1. \A k \in 1..n : k \in 1..Len(path) /\ 1 + k - 1 = k
      BY <1>1, <2>5
    <3>2. b \in Seq(Word) /\ Len(b) = n /\ \A k \in 1..n : b[k] = path[k]
      <4>1. \A k \in 1..n : path[k] \in Word
        BY <3>1, ElementOfSeq
      <4>2. 1 \in Int /\ n \in Int /\ n - 1 + 1 = n
        BY <1>1
      <4>3. /\ b \in Seq(Word)
            /\ Len(b) = IF 1 <= n THEN n - 1 + 1 ELSE 0
            /\ \A k \in 1..(n - 1 + 1) : b[k] = path[1 + k - 1]
        BY <4>1, <4>2, SubSeqProperties
      <4> HIDE DEF b
      <4>4. Len(b) = n
        BY <1>1, <4>3
      <4>5. \A k \in 1..n : b[k] = path[k]
        BY <3>1, <4>2, <4>3
      <4>. QED  BY <4>3, <4>4, <4>5
    <3> HIDE DEF b
    <3>3. (\A k \in 1..n : a[k] = path[k]) => a = b
      BY <2>1, <2>2, <3>2, SeqEqual
    <3>4. a = b => \A k \in 1..n : a[k] = path[k]
      BY <3>2
    <3>. QED  BY <3>3, <3>4 DEF b
  <2>. QED  BY <2>4, <2>5
<1>7. \A k \in 1..n : prefix[k] = Static(path[k]) <=>
                         prefix[k].kind = "static" /\ prefix[k].literal = path[k]
  BY <1>3, <1>4
<1>8. CASE \A k \in 1..n : prefix[k].kind = "static"
  <2>1. Covers(prefix, path) <=> n <= Len(path) /\ \A k \in 1..n : a[k] = path[k]
    BY <1>5, <1>6, <1>8 DEF Covers, a
  <2>. QED  BY <1>1, <1>2, <1>7, <1>8, <2>1 DEF n
<1>9. CASE ~ \A k \in 1..n : prefix[k].kind = "static"
  <2>1. ~Covers(prefix, path)
    BY <1>5, <1>9 DEF Covers
  <2>. QED  BY <1>1, <1>7, <1>9, <2>1
<1>. QED  BY <1>8, <1>9

(* scopedFallback's longest covering prefix.                               *)
LEMMA ScopedFallbackIs ==
    ASSUME NEW C, NEW scoped \in Seq(C), \A c \in C : Len(c.prefix) \in Nat, NEW path
    PROVE  LET covering == {k \in 1..Len(scoped) : Covers(scoped[k].prefix, path)}
           IN  IF covering = {} THEN ScopedFallback(scoped, path) = NoHandler
               ELSE \E k \in covering :
                       /\ ScopedFallback(scoped, path) = scoped[k].handler
                       /\ \A j \in covering : Len(scoped[j].prefix) <= Len(scoped[k].prefix)
<1> DEFINE covering == {k \in 1..Len(scoped) : Covers(scoped[k].prefix, path)}
           size(k) == Len(scoped[k].prefix)
           longest == {k \in covering : \A j \in covering : size(j) <= size(k)}
<1>1. DOMAIN scoped = 1..Len(scoped) /\ Len(scoped) \in Nat /\ \A k \in 1..Len(scoped) : scoped[k] \in C
  BY LenProperties, ElementOfSeq
<1>2. ScopedFallback(scoped, path) =
        IF covering = {} THEN NoHandler ELSE scoped[CHOOSE k \in longest : TRUE].handler
  BY <1>1 DEF ScopedFallback
<1>3. \A k \in covering : k \in 1..Len(scoped) /\ size(k) \in Nat
  BY <1>1
<1> HIDE DEF size
<1>4. ASSUME covering # {} PROVE longest # {}
  <2> DEFINE n == Len(scoped)
             B == {b \in Nat : \A k \in covering : size(k) <= b}
             Good == {k \in 0..n : \E b \in Nat : \A j \in covering : j <= k => size(j) <= b}
  <2>1. 0 \in Good
    BY <1>1, <1>3
  <2>2. ASSUME NEW k \in 0..(n - 1), k \in Good PROVE k + 1 \in Good
    <3>1. PICK b \in Nat : \A j \in covering : j <= k => size(j) <= b
      BY <2>2
    <3>2. k + 1 \in 0..n /\ k \in Nat
      BY <1>1
    <3>3. CASE k + 1 \in covering
      <4> DEFINE d == b + size(k + 1)
      <4>1. d \in Nat /\ b <= d /\ size(k + 1) <= d
        BY <1>3, <3>3
      <4> HIDE DEF d, covering
      <4>2. ASSUME NEW j \in covering, j <= k + 1 PROVE size(j) <= d
        <5>1. j \in Nat /\ size(j) \in Nat
          BY <1>1, <1>3
        <5>2. CASE j = k + 1
          BY <4>1, <5>2
        <5>3. CASE j <= k
          BY <3>1, <4>1, <5>1, <5>3
        <5>. QED  BY <3>2, <4>2, <5>1, <5>2, <5>3
      <4>. QED  BY <3>2, <4>1, <4>2
    <3>4. CASE k + 1 \notin covering
      <4>1. \A j \in covering : j <= k + 1 => j <= k
        <5>1. \A j \in covering : j \in Nat /\ j # k + 1
          BY <1>1, <1>3, <3>4
        <5> HIDE DEF covering
        <5>. QED  BY <3>2, <5>1
      <4>. QED  BY <3>1, <3>2, <4>1
    <3>. QED  BY <3>3, <3>4
  <2>3. n \in Good
    <3>1. 0..n \subseteq Good
      <4> HIDE DEF Good
      <4>. QED  BY <1>1, <2>1, <2>2, Induction
    <3> HIDE DEF Good
    <3>. QED  BY <1>1, <3>1
  <2>4. B # {} /\ B \subseteq Nat
    <3>1. \A j \in covering : j <= n
      BY <1>1
    <3>. QED  BY <2>3, <3>1
  <2>5. PICK b \in B : \A x \in B : b <= x
    <3> HIDE DEF B
    <3>. QED  BY <2>4, LeastNatural
  <2>6. \E k \in covering : size(k) = b
    <3> SUFFICES ASSUME \A k \in covering : size(k) # b PROVE FALSE
      OBVIOUS
    <3>1. \A k \in covering : size(k) <= b /\ size(k) \in Nat
      BY <1>3
    <3>2. b # 0
      BY <1>4, <3>1
    <3> HIDE DEF covering
    <3>3. b - 1 \in Nat /\ \A k \in covering : size(k) <= b - 1
      BY <3>1, <3>2
    <3>. QED  BY <2>5, <3>3
  <2>7. PICK k \in covering : size(k) = b
    BY <2>6
  <2>8. k \in longest
    BY <2>7
  <2>. QED  BY <2>8
<1>5. ASSUME covering # {}
      PROVE  \E k \in covering : /\ ScopedFallback(scoped, path) = scoped[k].handler
                                 /\ \A j \in covering : size(j) <= size(k)
  <2>1. PICK k : k = CHOOSE x \in longest : TRUE
    OBVIOUS
  <2>2. k \in longest
    BY <1>4, <1>5, <2>1
  <2>3. ScopedFallback(scoped, path) = scoped[k].handler
    BY <1>2, <1>5, <2>1
  <2>. QED  BY <2>2, <2>3
<1>. QED  BY <1>2, <1>5 DEF size

(* Of the four sources the first that is set.                              *)
LEMMA FallbackIs ==
    ASSUME NEW scoped, NEW own, NEW default, NEW path
    PROVE  Fallback(scoped, own, NoHandler, default, path) =
              IF ScopedFallback(scoped, path) # NoHandler THEN ScopedFallback(scoped, path)
              ELSE IF own # NoHandler THEN own ELSE default
<1> DEFINE x == ScopedFallback(scoped, path)
           sources == <<x, own, NoHandler, default>>
           Good(k) == /\ sources[k] # NoHandler \/ k = 4
                      /\ \A j \in 1..(k - 1) : sources[j] = NoHandler
<1>1. sources[1] = x /\ sources[2] = own /\ sources[3] = NoHandler /\ sources[4] = default
  OBVIOUS
<1>2. Fallback(scoped, own, NoHandler, default, path) = sources[CHOOSE k \in 1..4 : Good(k)]
  BY DEF Fallback
<1> HIDE DEF sources, x
<1>3. \A k \in 1..4 : \A j \in 1..4 : Good(k) /\ Good(j) => j = k
  <2>1. \A k, j \in 1..4 : j < k => j \in 1..(k - 1) /\ j # 4
    OBVIOUS
  <2>2. \A k, j \in 1..4 : j < k => ~(Good(k) /\ Good(j))
    BY <2>1
  <2>3. \A k, j \in 1..4 : j = k \/ j < k \/ k < j
    OBVIOUS
  <2> HIDE DEF Good
  <2>. QED  BY <2>2, <2>3
<1>4. CASE x # NoHandler
  <2>1. 1 \in 1..4 /\ Good(1)
    BY <1>1, <1>4
  <2>2. (CHOOSE k \in 1..4 : Good(k)) = 1
    <3> HIDE DEF Good
    <3>. QED  BY <1>3, <2>1
  <2>. QED  BY <1>1, <1>2, <1>4, <2>2 DEF x
<1>5. CASE x = NoHandler /\ own # NoHandler
  <2>1. 2 \in 1..4 /\ Good(2)
    <3>1. \A j \in 1..(2 - 1) : j = 1
      OBVIOUS
    <3>. QED  BY <1>1, <1>5, <3>1
  <2>2. (CHOOSE k \in 1..4 : Good(k)) = 2
    <3> HIDE DEF Good
    <3>. QED  BY <1>3, <2>1
  <2>. QED  BY <1>1, <1>2, <1>5, <2>2 DEF x
<1>6. CASE x = NoHandler /\ own = NoHandler
  <2>1. 4 \in 1..4 /\ Good(4)
    <3>1. \A j \in 1..(4 - 1) : j = 1 \/ j = 2 \/ j = 3
      OBVIOUS
    <3>. QED  BY <1>1, <1>6, <3>1
  <2>2. (CHOOSE k \in 1..4 : Good(k)) = 4
    <3> HIDE DEF Good
    <3>. QED  BY <1>3, <2>1
  <2>. QED  BY <1>1, <1>2, <1>6, <2>2 DEF x
<1>. QED  BY <1>4, <1>5, <1>6

-----------------------------------------------------------------------------
(* What a mount registers, and what its handler leaves of the path.        *)

(* The paths of requests: Go's parsed URL path, of at least one part.      *)
RequestPaths == Seq(Word) \ {<<>>}

(* A request path is a non-empty sequence of words.                        *)
LEMMA PathProperties ==
    ASSUME NEW path \in RequestPaths
    PROVE  /\ Len(path) \in Nat \ {0} /\ DOMAIN path = 1..Len(path)
           /\ path \in Seq(Word)
           /\ \A k \in 1..Len(path) : path[k] \in Word
           /\ Len(path) \in 1..Len(path) /\ Last(path) = path[Len(path)]
<1>1. path \in Seq(Word) /\ path # <<>>
  BY DEF RequestPaths
<1>2. Len(path) \in Nat /\ DOMAIN path = 1..Len(path)
  BY <1>1, LenProperties
<1>3. \A k \in 1..Len(path) : path[k] \in Word
  BY <1>1, ElementOfSeq
<1>4. Len(path) # 0
  BY <1>1, EmptySeq
<1>. QED  BY <1>1, <1>2, <1>3, <1>4 DEF Last

(* A part of a path is a path.                                             *)
LEMMA PieceOfPath ==
    ASSUME NEW path \in RequestPaths, NEW a \in 1..Len(path), NEW b \in a..Len(path)
    PROVE  /\ SubSeq(path, a, b) \in RequestPaths
           /\ Len(SubSeq(path, a, b)) = b - a + 1
           /\ \A k \in 1..(b - a + 1) : SubSeq(path, a, b)[k] = path[a + k - 1]
<1> DEFINE piece == SubSeq(path, a, b)
<1>1. Len(path) \in Nat /\ a \in Int /\ b \in Int /\ a <= b
  BY PathProperties
<1>2. \A i \in a..b : path[i] \in Word
  <2>1. \A i \in a..b : i \in 1..Len(path)
    BY <1>1
  <2>. QED  BY <2>1, PathProperties
<1>3. /\ piece \in Seq(Word) /\ Len(piece) = b - a + 1
      /\ \A k \in 1..(b - a + 1) : piece[k] = path[a + k - 1]
  BY <1>1, <1>2, SubSeqProperties
<1> HIDE DEF piece
<1>4. piece # <<>>
  BY <1>1, <1>3, EmptySeq
<1>. QED  BY <1>3, <1>4 DEF RequestPaths, piece

(* What a mount's handler makes the route path.                            *)
Remaining(path, prefix) ==
    IF TrimPrefix(path, prefix) = <<>> THEN <<Blank>> ELSE TrimPrefix(path, prefix)

(* The segment that a mount appends                                        *)
Rest == Wildcard(Unnamed)

(* The wildcard of a mount has one name.                                   *)
LEMMA RestIs == \E n \in Word : Rest = Wildcard(n) /\ Rest.kind = "wildcard" /\ Rest.names = <<n>>
<1>1. Unnamed \in Word
  BY DEF Word
<1>2. \A n : Wildcard(n).kind = "wildcard" /\ Wildcard(n).names = <<n>>
  BY DEF Wildcard
<1>. QED  BY <1>1, <1>2 DEF Rest

(* The wildcard of a mount is a segment.                                   *)
LEMMA RestIsSegment == IsSegment(Rest) /\ Rest.kind = "wildcard" /\ Len(Rest.names) = 1 /\ IsText(<<Rest>>)
<1>1. PICK n \in Word : Rest = Wildcard(n) /\ Rest.kind = "wildcard" /\ Rest.names = <<n>>
  BY RestIs
<1>2. Len(Rest.names) = 1 /\ Rest.names[1] = n
  BY <1>1, Singleton
<1>3. IsSegment(Rest)
  BY <1>1, <1>2 DEF IsSegment
<1>4. /\ <<Rest>> \in Seq({Rest}) /\ Len(<<Rest>>) = 1 /\ <<Rest>>[1] = Rest
      /\ Range(<<Rest>>) = {Rest}
  <2>1. <<Rest>> \in Seq({Rest}) /\ Len(<<Rest>>) = 1 /\ <<Rest>>[1] = Rest
    BY Singleton
  <2>2. DOMAIN <<Rest>> = {1}
    BY <2>1, LenProperties
  <2>. QED  BY <2>1, <2>2 DEF Range
<1>5. DOMAIN <<Rest>> = {1}
  BY <1>4, LenProperties
<1>. QED  BY <1>1, <1>2, <1>3, <1>4, <1>5 DEF IsText

(* A literal binds no name.                                                *)
LEMMA StaticNames ==
    ASSUME NEW s, IsSegment(s), s.kind = "static"
    PROVE  s.names = <<>>
<1>1. Malformed.kind # "static"
  BY DEF Malformed
<1>2. s = Static(s.literal)
  BY <1>1 DEF IsSegment
<1>3. \A l : Static(l).names = <<>>
  BY DEF Static
<1>. QED  BY <1>2, <1>3

(* The pattern of a mount: a literal text and the wildcard.                *)
LEMMA MountPattern ==
    ASSUME NEW text, IsText(text), IsExact(text)
    PROVE  LET w == text \o <<Rest>>
           IN  /\ IsText(w) /\ Len(w) = Len(text) + 1 /\ Len(text) \in Nat
               /\ \A k \in 1..Len(text) : w[k] = text[k]
               /\ w[Len(text) + 1] = Rest /\ w # RootText /\ w # <<>>
               /\ Parses(w) /\ ~IsExact(w) /\ WellFormed(w) /\ Segments(w) = w /\ IsWild(w)
<1> DEFINE w == text \o <<Rest>>
           n == Len(text)
<1>1. text \in Seq(Range(text)) /\ \A k \in 1..n : text[k].kind = "static" /\ IsSegment(text[k])
  BY LenProperties DEF IsText, IsExact
<1>2. /\ <<Rest>> \in Seq({Rest}) /\ Len(<<Rest>>) = 1 /\ <<Rest>>[1] = Rest
  BY Singleton
<1>3. IsText(w)
  BY RestIsSegment, ConcatIsText
<1>4. /\ Len(w) = n + 1 /\ n \in Nat /\ DOMAIN w = 1..(n + 1)
      /\ \A k \in 1..n : w[k] = text[k]
      /\ w[n + 1] = Rest
  <2>1. /\ w \in Seq(Range(text) \cup {Rest}) /\ Len(w) = n + Len(<<Rest>>)
        /\ n \in Nat
        /\ \A k \in 1..n : w[k] = text[k]
        /\ \A k \in 1..Len(<<Rest>>) : w[n + k] = <<Rest>>[k]
    BY <1>1, <1>2, ConcatIs
  <2> HIDE DEF w
  <2>2. 1 \in 1..Len(<<Rest>>)
    BY <1>2
  <2>3. Len(w) = n + 1 /\ w[n + 1] = Rest
    BY <1>2, <2>1, <2>2
  <2>. QED  BY <2>1, <2>3, LenProperties
<1> HIDE DEF w
<1>5. w # <<>> /\ w # RootText
  <2>1. n + 1 \in 1..(n + 1) /\ n + 1 # 0
    BY <1>4
  <2>2. w # <<>>
    BY <1>4, <2>1, EmptySeq
  <2>3. RootText[1].kind = "static" /\ Len(RootText) = 1
    BY DEF RootText, Static
  <2>4. n + 1 = 1 => w[1].kind = "wildcard"
    BY <1>4, RestIsSegment
  <2>. QED  BY <1>4, <2>2, <2>3, <2>4
<1>6. WellFormed(w)
  <2>1. \A k \in 1..(n + 1) : k = n + 1 \/ (k \in 1..n /\ k # n + 1)
    BY <1>4
  <2>2. \A k \in 1..(n + 1) : w[k].kind # "malformed" /\ (w[k].kind = "wildcard" => k = n + 1)
    BY <1>1, <1>4, <2>1, RestIsSegment
  <2>. QED  BY <1>3, <1>4, <2>2 DEF WellFormed, IsText
<1>7. Parses(w)
  <2> DEFINE names == NamesUpTo(w)
             Good == {k \in 0..n : names[k] = <<>>}
  <2>1. /\ names \in [0..(n + 1) -> Seq(Word)] /\ names[0] = <<>>
        /\ \A k \in 1..(n + 1) : names[k] = names[k - 1] \o w[k].names
    BY <1>4, <1>6, NamesUpToDef
  <2> HIDE DEF names
  <2>2. \A k \in 1..n : text[k].names = <<>>
    BY <1>1, StaticNames
  <2>3. <<>> \o <<>> = <<>> /\ 0 \in Good
    BY <1>4, <2>1
  <2>4. ASSUME NEW k \in 0..(n - 1), k \in Good PROVE k + 1 \in Good
    <3>1. k + 1 \in 1..n /\ k + 1 \in 1..(n + 1) /\ k + 1 \in 0..n /\ (k + 1) - 1 = k
      BY <1>4
    <3>. QED  BY <1>4, <2>1, <2>2, <2>3, <2>4, <3>1
  <2>5. 0..n \subseteq Good
    <3> HIDE DEF Good
    <3>. QED  BY <1>4, <2>3, <2>4, Induction
  <2>6. names[n] = <<>>
    BY <1>4, <2>5
  <2>7. PICK x \in Word : Rest.names = <<x>>
    BY RestIs
  <2>8. ParamNames(w) = <<>> \o <<x>>
    <3>1. n + 1 \in 1..(n + 1) /\ (n + 1) - 1 = n
      BY <1>4
    <3>. QED  BY <1>4, <2>1, <2>6, <2>7, <3>1 DEF ParamNames, names
  <2>9. ParamNames(w) = <<x>>
    BY <2>8
  <2>10. IsInjective(<<x>>)
    <3>1. DOMAIN <<x>> = {1}
      BY Singleton, LenProperties
    <3>. QED  BY <3>1 DEF IsInjective
  <2>. QED  BY <1>4, <1>5, <1>6, <2>9, <2>10 DEF Parses, WellFormed
<1>8. n + 1 \in DOMAIN w /\ w[n + 1].kind = "wildcard"
  BY <1>4, RestIsSegment
<1>9. ~IsExact(w) /\ Segments(w) = w /\ IsWild(w)
  BY <1>4, <1>5, <1>8 DEF IsExact, Segments, IsWild, Last
<1>. QED  BY <1>3, <1>4, <1>5, <1>6, <1>7, <1>9 DEF w

(* A path that the pattern of a mount describes starts with what its       *)
(* literal text spells.                                                    *)
LEMMA MountDescribes ==
    ASSUME NEW b, IsText(b), IsExact(b), NEW path \in RequestPaths,
           Describes(b \o <<Rest>>, path)
    PROVE  /\ Len(b) \in Nat /\ Len(path) \in Nat /\ Len(b) <= Len(path)
           /\ \A k \in 1..Len(b) : path[k] = b[k].literal
           /\ Len(b) = Len(path) => path # <<Blank>>
           /\ TrimPrefix(path, b) = SubSeq(path, Len(b) + 1, Len(path))
<1> DEFINE text == b \o <<Rest>>
           n == Len(b)
           p == Len(path)
<1>1. /\ n \in Nat /\ Len(text) = n + 1 /\ text[n + 1] = Rest
      /\ \A k \in 1..n : text[k] = b[k]
      /\ text # <<>> /\ WellFormed(text) /\ IsWild(text)
  BY MountPattern
<1>2. p \in Nat \ {0} /\ path \in Seq(Word)
  BY PathProperties
<1>3. DOMAIN b = 1..n
  BY LiteralIs
<1> HIDE DEF text, n, p
<1>4. FixedLen(text) = n
  BY <1>1 DEF FixedLen
<1>5. n <= p /\ \A k \in 1..n : Stands(text, path, k)
  <2>1. Describes(text, path)
    BY DEF text
  <2>. QED  BY <1>1, <1>4, <2>1, DescribesStands DEF p
<1>6. \A k \in 1..n : path[k] = b[k].literal /\ b[k].kind = "static" /\ IsSegment(b[k])
  <2> TAKE k \in 1..n
  <2>1. IsSegment(b[k]) /\ b[k].kind = "static"
    BY <1>3 DEF IsText, IsExact
  <2>2. Accepts(b[k], path[k])
    BY <1>1, <1>5 DEF Stands
  <2>. QED  BY <2>1, <2>2 DEF Accepts
<1>7. ASSUME n = p PROVE path # <<Blank>>
  <2> SUFFICES ASSUME path = <<Blank>> PROVE FALSE
    OBVIOUS
  <2>1. p = 1 /\ path[1] = Blank
    BY DEF p
  <2>2. Stands(text, path, 1)
    BY <1>5, <1>7, <2>1
  <2>. QED  BY <2>1, <2>2 DEF Stands, p
<1>8. Covers(b, path)
  <2>1. \A k \in 1..n : b[k] = Static(path[k])
    BY <1>6, SegmentForms
  <2>. QED  BY <1>2, <1>3, <1>5, <2>1, CoversIs DEF n, p
<1>9. TrimPrefix(path, b) = SubSeq(path, n + 1, p)
  BY <1>8 DEF TrimPrefix, n, p
<1>. QED  BY <1>1, <1>2, <1>5, <1>6, <1>7, <1>9 DEF n, p

(* What is spelled by the text and left of the path is the path, but that  *)
(* "/" is left of a path that the text spells itself.                      *)
LEMMA MountLeaves ==
    ASSUME NEW b, IsText(b), IsExact(b), NEW path \in RequestPaths,
           Describes(b \o <<Rest>>, path)
    PROVE  \/ /\ PathOf(b) \o Remaining(path, b) = path
              /\ path = <<Blank>> => Remaining(path, b) = <<Blank>>
           \/ PathOf(b) = path /\ path # <<Blank>> /\ Remaining(path, b) = <<Blank>>
<1> DEFINE n == Len(b)
           p == Len(path)
           c == PathOf(b)
           rest == SubSeq(path, n + 1, p)
<1>1. /\ n \in Nat /\ n <= p /\ \A k \in 1..n : path[k] = b[k].literal
      /\ n = p => path # <<Blank>>
      /\ TrimPrefix(path, b) = rest
  BY MountDescribes
<1>2. p \in Nat \ {0} /\ path \in Seq(Word)
  BY PathProperties
<1>3. c \in Seq(Word) /\ Len(c) = n /\ \A k \in 1..n : c[k] = b[k].literal
  BY LiteralIs
<1> HIDE DEF c
<1>4. CASE n = p
  <2>1. rest = <<>>
    BY <1>1, <1>2, <1>4, SubSeqEmpty
  <2>2. Remaining(path, b) = <<Blank>>
    BY <1>1, <2>1 DEF Remaining
  <2>3. c = path
    <3>1. \A k \in 1..Len(c) : c[k] = path[k]
      BY <1>1, <1>3
    <3>. QED  BY <1>2, <1>3, <1>4, <3>1, SeqEqual
  <2>. QED  BY <1>1, <1>4, <2>2, <2>3 DEF c
<1>5. CASE n # p
  <2>1. n + 1 \in 1..p /\ p \in (n + 1)..p /\ p - (n + 1) + 1 = p - n
    BY <1>1, <1>2, <1>5
  <2>2. /\ rest \in RequestPaths /\ Len(rest) = p - n
        /\ \A k \in 1..(p - n) : rest[k] = path[(n + 1) + k - 1]
    <3>1. /\ rest \in RequestPaths /\ Len(rest) = p - (n + 1) + 1
          /\ \A k \in 1..(p - (n + 1) + 1) : rest[k] = path[(n + 1) + k - 1]
      <4> HIDE DEF n
      <4>. QED  BY <2>1, PieceOfPath
    <3>. QED  BY <2>1, <3>1
  <2>3. rest # <<>> /\ rest \in Seq(Word)
    BY <2>2 DEF RequestPaths
  <2>4. Remaining(path, b) = rest
    BY <1>1, <2>3 DEF Remaining
  <2> HIDE DEF rest, n, p
  <2>5. /\ c \o rest \in Seq(Word) /\ Len(c \o rest) = n + (p - n)
        /\ \A k \in 1..n : (c \o rest)[k] = c[k]
        /\ \A k \in 1..(p - n) : (c \o rest)[n + k] = rest[k]
    <3>1. Word \cup Word = Word
      OBVIOUS
    <3>2. c \in Seq(Word) /\ rest \in Seq(Word)
      BY <1>3, <2>3
    <3>3. /\ c \o rest \in Seq(Word \cup Word) /\ Len(c \o rest) = Len(c) + Len(rest)
          /\ \A k \in 1..Len(c) : (c \o rest)[k] = c[k]
          /\ \A k \in 1..Len(rest) : (c \o rest)[Len(c) + k] = rest[k]
      BY <3>2, ConcatIs
    <3>. QED  BY <1>3, <2>2, <3>1, <3>3
  <2>6. ASSUME NEW k \in 1..p PROVE (c \o rest)[k] = path[k]
    <3>1. CASE k \in 1..n
      BY <1>1, <1>3, <2>5, <3>1
    <3>2. CASE k \notin 1..n
      <4> DEFINE j == k - n
      <4>1. j \in 1..(p - n) /\ n + j = k /\ (n + 1) + j - 1 = k
        BY <1>1, <1>2, <3>2
      <4> HIDE DEF j
      <4>2. (c \o rest)[k] = rest[j] /\ rest[j] = path[k]
        BY <2>2, <2>5, <4>1
      <4>. QED  BY <4>2
    <3>. QED  BY <3>1, <3>2
  <2>7. c \o rest = path
    <3> DEFINE x == c \o rest
    <3>1. x \in Seq(Word) /\ Len(x) = p /\ \A k \in 1..p : x[k] = path[k]
      BY <1>1, <1>2, <2>5, <2>6
    <3> HIDE DEF x
    <3>2. x = path
      BY <1>2, <3>1, SeqEqual DEF p
    <3>. QED  BY <3>2 DEF x
  <2>8. ASSUME path = <<Blank>> PROVE rest = <<Blank>>
    <3>1. p = 1 /\ path[1] = Blank
      BY <2>8 DEF p
    <3>2. n = 0
      BY <1>1, <1>5, <3>1
    <3>3. rest = SubSeq(path, 1, 1)
      BY <3>1, <3>2 DEF rest
    <3>4. Len(rest) = 1 /\ rest[1] = Blank
      BY <2>2, <3>1, <3>2
    <3>. QED  BY <2>3, <3>4, IsSingleton
  <2>. QED  BY <2>4, <2>7, <2>8 DEF c
<1>. QED  BY <1>4, <1>5

(* The path "/" has one, empty, part.                                      *)
LEMMA BlankIsPath == <<Blank>> \in RequestPaths
<1>1. <<Blank>> \in Seq(Word) /\ Len(<<Blank>>) = 1
  BY Singleton DEF Word
<1>2. <<Blank>> # <<>>
  BY <1>1, EmptySeq
<1>. QED  BY <1>1, <1>2 DEF RequestPaths

(* What a mount's handler leaves of a path is a path.                      *)
LEMMA RemainingIsPath ==
    ASSUME NEW path \in RequestPaths, NEW prefix, Len(prefix) \in Nat
    PROVE  Remaining(path, prefix) \in RequestPaths
<1> DEFINE n == Len(path)
           a == Len(prefix) + 1
<1>1. n \in Nat /\ a \in Nat /\ a >= 1
  BY PathProperties
<1>2. path # <<>>
  BY DEF RequestPaths
<1>3. CASE ~Covers(prefix, path)
  BY <1>2, <1>3 DEF TrimPrefix, Remaining
<1>4. CASE Covers(prefix, path)
  <2>1. TrimPrefix(path, prefix) = SubSeq(path, a, n)
    BY <1>4 DEF TrimPrefix
  <2> HIDE DEF a, n
  <2>2. CASE a > n
    <3>1. SubSeq(path, a, n) = <<>>
      BY <1>1, <2>2, SubSeqEmpty
    <3>2. Remaining(path, prefix) = <<Blank>>
      BY <2>1, <3>1 DEF Remaining
    <3>. QED  BY <3>2, BlankIsPath
  <2>3. CASE a <= n
    <3>1. a \in 1..n /\ n \in a..n
      BY <1>1, <2>3
    <3>2. SubSeq(path, a, n) \in RequestPaths
      BY <3>1, PieceOfPath DEF n
    <3>3. SubSeq(path, a, n) # <<>>
      BY <3>2 DEF RequestPaths
    <3>. QED  BY <2>1, <3>2, <3>3 DEF Remaining
  <2>. QED  BY <1>1, <2>2, <2>3
<1>. QED  BY <1>3, <1>4
=============================================================================
