---------------------------- MODULE RoutePattern ----------------------------
(***************************************************************************)
(* Route patterns of gpchi: when a pattern is accepted, the two shapes     *)
(* that decide which patterns collide, its precedence, and how it matches  *)
(* one request path.                                                       *)
(*                                                                         *)
(* A request path is the nonempty sequence of its "/"-separated parts:     *)
(*   "/" is <<"">>, "/a/b" is <<"a","b">> and "/a/" is <<"a","">>.         *)
(* A pattern is the sequence of its parts, each one a segment record, so   *)
(* textual concatenation (m.prefix + pattern) is concatenation of          *)
(* sequences, and the empty text is <<>>.                                  *)
(* A regular expression is the function from the parts it accepts to the   *)
(* values it captures.                                                     *)
(***************************************************************************)
EXTENDS Naturals, Sequences, SequencesExt, FiniteSets

Static(literal) == [kind |-> "static", names |-> <<>>, literal |-> literal]
Parameter(name) == [kind |-> "parameter", names |-> <<name>>]
Wildcard(name)  == [kind |-> "wildcard", names |-> <<name>>]

(* Captures[p] is the sequence of values captured from part p.  shapeText  *)
(* is "" for "{name:expr}", which fills the whole part, and the text with  *)
(* every placeholder cut down to "{}" for a composite such as "{id}.json". *)
Regex(names, expression, captures, shapeText) ==
    [kind |-> "regex", names |-> names, expression |-> expression,
     captures |-> captures, shapeText |-> shapeText]

(* Unbalanced braces, an empty parameter name, an expression that does not *)
(* compile, or a wildcard inside a composite part.                         *)
Malformed == [kind |-> "malformed", names |-> <<>>]

Blank == ""     \* the empty text
Hole  == "{}"   \* a placeholder in a shape
Unnamed == "*"  \* the name of the wildcard "*"

RootText == <<Static(Blank)>>     \* the pattern "/"

(* Literals, names and captured values: the strings.  The provers do not   *)
(* know that "" and "*" are two.                                           *)
Word == STRING \cup {Blank, Unnamed}

IsSegment(s) ==
    \/ s.kind = "static" /\ s = Static(s.literal) /\ s.literal \in Word
    \/ s.kind = "parameter" /\ s = Parameter(s.names[1]) /\ s.names[1] \in Word
    \/ s.kind = "wildcard" /\ s = Wildcard(s.names[1]) /\ s.names[1] \in Word
    \/ /\ s.kind = "regex"
       /\ s = Regex(s.names, s.expression, s.captures, s.shapeText)
       /\ s.names \in Seq(Word)
       /\ \A part \in DOMAIN s.captures :
             s.captures[part] \in Seq(Word) /\ Len(s.captures[part]) = Len(s.names)
    \/ s = Malformed

IsText(text) == text \in Seq(Range(text)) /\ \A k \in DOMAIN text : IsSegment(text[k])

-----------------------------------------------------------------------------
(* The names of the first k segments, for every k.                         *)
NamesUpTo(segments) ==
    LET names[k \in 0..Len(segments)] ==
          IF k = 0 THEN <<>> ELSE names[k - 1] \o segments[k].names
    IN  names

ParamNames(segments) == NamesUpTo(segments)[Len(segments)]

Parses(text) ==
    /\ text # <<>>
    /\ \A k \in DOMAIN text :
          /\ text[k].kind # "malformed"
          /\ text[k].kind = "wildcard" => k = Len(text)
    /\ IsInjective(ParamNames(text))

Segments(text) == IF text = RootText THEN <<>> ELSE text

IsExact(text) == \A k \in DOMAIN text : text[k].kind = "static"

(* The path an exact pattern is indexed under: its own text.               *)
PathOf(text) == [k \in DOMAIN text |-> text[k].literal]

(* compile's shape: two patterns of one method with the same shape are an  *)
(* AmbiguousRoute conflict.                                                *)
Shape(segments) ==
    LET shapeOf(s) ==
          CASE s.kind = "static"    -> s.literal
            [] s.kind = "parameter" -> Hole
            [] s.kind = "regex"     -> IF s.shapeText # Blank THEN s.shapeText ELSE Hole
            [] s.kind = "wildcard"  -> "*"
    IN  [k \in DOMAIN segments |-> shapeOf(segments[k])]

(* Mutant of CompatibilityShape: every regular expression looks alike.     *)
CompatibilityShapeWithoutExpression(segments) ==
    [k \in DOMAIN segments |-> <<Shape(segments)[k]>>]

(* compatibilityShape: the later of two patterns of one method with the    *)
(* same compatibility shape replaces the earlier.  Only a regular          *)
(* expression that fills its part contributes its expression.              *)
CompatibilityShape(segments) ==
    [k \in DOMAIN segments |->
        IF segments[k].kind = "regex" /\ segments[k].shapeText = Blank
        THEN <<"{", segments[k].expression, "}">>
        ELSE <<Shape(segments)[k]>>]

Specificity(segments) ==
    LET count(kind) == Cardinality({k \in DOMAIN segments : segments[k].kind = kind})
    IN  4 * count("static") + 3 * count("regex") + 2 * count("parameter") + count("wildcard")

-----------------------------------------------------------------------------
(* matchRoute.  rest is the remaining text: <<>> and <<"">> are both the    *)
(* empty text.                                                             *)

NoText == {<<>>, <<Blank>>}

Accepts(s, part) ==
    CASE s.kind = "static" -> part = s.literal
      [] s.kind = "regex"  -> part \in DOMAIN s.captures
      [] OTHER             -> TRUE

Captured(s, part) ==
    CASE s.kind = "static"    -> <<>>
      [] s.kind = "parameter" -> << <<part>> >>
      [] s.kind = "regex"     -> [k \in DOMAIN s.captures[part] |-> <<s.captures[part][k]>>]

(* A parameter is a name with its value; a value is a sequence of parts,   *)
(* because a wildcard captures the whole remaining text.                   *)
Bind(names, values) == [k \in DOMAIN names |-> [name |-> names[k], value |-> values[k]]]

Start(path, params) ==
    [ok |-> TRUE, params |-> params, rest |-> path,
     terminalEmpty |-> path # <<Blank>> /\ Last(path) = Blank]

(* One iteration of the loop.                                              *)
MatchSegment(m, s) ==
    LET empty == m.rest \in NoText
        part  == IF empty THEN Blank ELSE Head(m.rest)
        fits  == ~empty \/ (m.terminalEmpty /\ s = Static(Blank))
    IN  CASE m.ok /\ s.kind = "wildcard" ->
               [ok |-> TRUE, rest |-> <<>>, terminalEmpty |-> FALSE,
                params |-> m.params \o Bind(s.names, << IF empty THEN <<Blank>> ELSE m.rest >>)]
          [] m.ok /\ s.kind # "wildcard" /\ fits /\ Accepts(s, part) ->
               [ok |-> TRUE, rest |-> IF empty THEN <<>> ELSE Tail(m.rest),
                terminalEmpty |-> m.terminalEmpty /\ ~empty,
                params |-> m.params \o Bind(s.names, Captured(s, part))]
          [] OTHER -> [m EXCEPT !.ok = FALSE]

(* The loop after k iterations, for every k.                               *)
Scan(segments, path, params) ==
    LET scan[k \in 0..Len(segments)] ==
          IF k = 0 THEN Start(path, params) ELSE MatchSegment(scan[k - 1], segments[k])
    IN  scan

Matched(end) == end.ok /\ end.rest \in NoText /\ ~end.terminalEmpty

(* Mutant of MatchRoute: a failed match leaves what it captured behind.    *)
MatchRouteLeaving(segments, path, params) ==
    LET end == Scan(segments, path, params)[Len(segments)]
    IN  [ok |-> Matched(end), params |-> end.params]

(* The outcome of matching path against segments in a context that already *)
(* holds params; a failed match leaves the context as it found it.         *)
MatchRoute(segments, path, params) ==
    LET end == Scan(segments, path, params)[Len(segments)]
    IN  [ok |-> Matched(end), params |-> IF Matched(end) THEN end.params ELSE params]

-----------------------------------------------------------------------------
(* The reference meaning of a pattern, stated without the scan: segment k  *)
(* stands for part k, a wildcard for all that is left, and the empty part  *)
(* after a trailing slash can only be named literally.                     *)
IsWild(segments) == segments # <<>> /\ Last(segments).kind = "wildcard"

Describes(segments, path) ==
    LET fixed == IF IsWild(segments) THEN Front(segments) ELSE segments
    IN  /\ IF IsWild(segments) THEN Len(fixed) <= Len(path)
           ELSE Len(fixed) = Len(path) \/ (segments = <<>> /\ path = <<Blank>>)
        /\ \A k \in DOMAIN fixed :
              /\ Accepts(fixed[k], path[k])
              /\ k = Len(path) /\ path[k] = Blank => fixed[k] = Static(Blank) /\ k > 1

(* Substituting params in a pattern: the paths it could have come from.    *)
Rebuilds(segments, params, path) ==
    LET fixed  == IF IsWild(segments) THEN Front(segments) ELSE segments
        first(k) == Len(NamesUpTo(segments)[k - 1])
        piece(k) == SubSeq(params, first(k) + 1, first(k) + Len(segments[k].names))
    IN  /\ [k \in DOMAIN params |-> params[k].name] = ParamNames(segments)
        /\ \A k \in DOMAIN fixed :
              /\ k \in DOMAIN path
              /\ piece(k) = Bind(fixed[k].names, Captured(fixed[k], path[k]))
              /\ fixed[k].kind = "static" => fixed[k].literal = path[k]
        /\ IsWild(segments) =>
              Last(params).value =
                 IF Len(path) = Len(fixed) THEN <<Blank>> ELSE SubSeq(path, Len(fixed) + 1, Len(path))
=============================================================================
