--------------------------- MODULE MCRequestHead ---------------------------
(* Requests for RequestHead: every way to get a few lines wrong, heads that meet *)
(* the limits exactly or are one byte or line beyond, and every route.           *)
EXTENDS RequestHead

LineOf(len, crlf, ctl, says) == [len |-> len, crlf |-> crlf, ctl |-> ctl, says |-> says]

GoodLine == LineOf(4, TRUE, FALSE, "sound")
FirstLines ==
  {GoodLine, LineOf(4, TRUE, FALSE, "bad"), LineOf(4, FALSE, FALSE, "sound"),
   LineOf(4, TRUE, TRUE, "sound"), LineOf(15, FALSE, FALSE, "sound"),
   LineOf(16, TRUE, FALSE, "sound")}
Headers ==
  {LineOf(n, TRUE, FALSE, "other") : n \in {3, 6, 7}}
  \cup {LineOf(3, FALSE, FALSE, "other"), LineOf(3, TRUE, TRUE, "other")}
  \cup {LineOf(3, TRUE, FALSE, s) : s \in {"te", "body", "bad"}}
Three == {<<a, a, a>> : a \in Headers}
Closings == {<<>>, <<LineOf(2, TRUE, FALSE, "blank")>>}

HeadLines ==
  {<<GoodLine>> \o hs \o e :
     hs \in {<<>>} \cup {<<a>> : a \in Headers} \cup {<<a, b>> : a \in Headers, b \in Headers}
           \cup Three,
     e \in Closings}
  \cup {<<f>> \o e : f \in FirstLines, e \in Closings}
  \cup {<<LineOf(2, TRUE, FALSE, "blank")>>}

Asked(lines, method, path, valid) ==
  [lines |-> lines, method |-> method, path |-> path, valid |-> valid]

MCHeads ==
  {Asked(ls, "GET", "/audio", TRUE) : ls \in HeadLines}
  \cup {Asked(<<GoodLine, LineOf(2, TRUE, FALSE, "blank")>>, m, p, v) :
          m \in {"GET", "HEAD", "OPTIONS", "other"},
          p \in {"/audio", "/video", "/status", "/healthz", "/", "unknown"},
          v \in BOOLEAN}
=============================================================================
