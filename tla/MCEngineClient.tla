--------------------------- MODULE MCEngineClient ---------------------------
(* Answers for EngineClient: bodies of up to four bytes. *)
EXTENDS EngineClient

Reply(status, loc, kind, len, w, data, says) ==
  [status |-> status, location |-> loc, kind |-> kind, length |-> len,
   wire |-> w, lines |-> <<>>, sound |-> TRUE, data |-> data, says |-> says]

\* A chunked body: its chunks, extension and trailers, its size lines and its data.
Line(s) == Append(s, NL)
Encode(chunks, ext, trail) ==
  FlattenSeq([k \in DOMAIN chunks |-> Line(<<Len(chunks[k])>> \o ext) \o Line(chunks[k])])
    \o Line(<<0>>) \o trail \o <<NL>>
LinesAt(chunks, ext) ==
  LET n == Len(chunks)
      from[k \in 1..(n + 1)] ==
        IF k = 1 THEN 1 ELSE from[k - 1] + Len(chunks[k - 1]) + Len(ext) + 3
  IN [k \in 1..(n + 1) |->
        [first |-> from[k], last |-> from[k],
         nl |-> from[k] + (IF k = n + 1 THEN 1 ELSE Len(ext) + 1),
         size |-> IF k = n + 1 THEN 0 ELSE Len(chunks[k])]]
Chunked(chunks, ext, trail, says) ==
  LET lines == LinesAt(chunks, ext)
      data == FlattenSeq([k \in DOMAIN chunks |->
                [i \in DOMAIN chunks[k] |-> lines[k].nl + i]])
  IN [Reply("200", FALSE, "chunked", 0, Encode(chunks, ext, trail), data, says)
        EXCEPT !.lines = lines]

\* One that stops being one, at once or after a chunk of one byte.
Broken(w, data) ==
  [Reply("200", FALSE, "chunked", 0, w, data, {}) EXCEPT !.sound = FALSE, !.lines =
     [k \in DOMAIN data |-> [first |-> 1, last |-> 1, nl |-> 2, size |-> 1]]]

Sized(n, w, says) ==
  Reply("200", FALSE, "length", n, w, [k \in (1..n) \cap DOMAIN w |-> k], says)
Plain(w, says) == Reply("200", FALSE, "toclose", 0, w, [k \in DOMAIN w |-> k], says)

\* Redirects, two of them so that the engine may send the client to and fro.
Moved == {Reply("3xx", l, k, 0, <<>>, <<>>, {}) : l \in BOOLEAN, k \in {"length", "toclose"}}

\* A control request's answers: what they say, however they are framed.
Texts == {<<1, NL>>, <<NL, 1, 1>>}
Said == {{"playback_url"}, {"playback_url", "error"}, {"error"}, {"response"}, {}}
ControlAnswers ==
  {Chunked(<<SubSeq(t, 1, 1), SubSeq(t, 2, Len(t))>>, <<>>, <<>>, s) : t \in Texts, s \in Said}
  \cup {Sized(n, t, s) : n \in {2, 3}, t \in Texts, s \in Said}
  \cup {Plain(t, s) : t \in Texts \cup {<<1, 1, 1, 1>>}, s \in Said}
  \cup Moved
  \cup {Reply("404", FALSE, "length", 1, <<1>>, <<1>>, {"error"})}

\* The stream's: every way to frame a few bytes that look like framing.
Symbols == {1, NL}
SeqsOf(S, n) == UNION {[1..m -> S] : m \in 0..n}
Bodies == {<<>>} \cup {<<x>> : x \in [1..3 -> Symbols]}
          \cup {<<x, y>> : x \in SeqsOf(Symbols, 2) \ {<<>>}, y \in [1..1 -> Symbols]}
StreamAnswers ==
  {Chunked(c, e, t, {}) : c \in Bodies, e \in {<<>>, <<SEMI, 1>>}, t \in {<<>>, <<1, NL>>}}
  \cup {Sized(n, x, {}) : n \in 0..4, x \in [1..3 -> Symbols]}
  \cup {Plain(x, {}) : x \in [1..4 -> Symbols]}
  \cup Moved
  \cup {Broken(<<SEMI, 1, NL>>, <<>>), Broken(<<1, NL, 1, SEMI, NL>>, <<3>>),
        Broken(<<1, NL, 1, 1>>, <<3>>)}

MCAnswers ==
  [p \in Purposes |-> IF p = "stream" THEN StreamAnswers ELSE ControlAnswers]
=============================================================================
