---------------------------- MODULE EngineClient ----------------------------
(***************************************************************************)
(* src/src/engine.rs: the HTTP client of the engine.  A GET follows one    *)
(* redirect; its body is decoded as it is read, in pieces of any size; the *)
(* text of a control request decides how a session is opened.              *)
(*                                                                         *)
(* The engine is external: it answers as Answers allow for what the client *)
(* is at, cut short anywhere, or fails, or falls silent.  An answer is     *)
(*   status    of the response, 3xx standing for the five redirects        *)
(*   location  whether it has that header                                  *)
(*   kind      of the body, as its headers say                             *)
(*   length    the Content-Length, if kind is "length"                     *)
(*   wire      the body as it is sent, a sequence of symbols               *)
(*   lines     its size lines, if kind is "chunked": where the digits and  *)
(*             the line end, and the size they give                        *)
(*   sound     whether it has the last of them, that of size 0             *)
(*   data      the positions in wire of the body's own bytes, in order      *)
(*   says      what the text has of playback_url, response and error       *)
(* A symbol is a number: a hex digit, NL for the end of a line, SEMI, or   *)
(* another byte.  Data may be any of them.                                 *)
(***************************************************************************)
EXTENDS Integers, Sequences, FiniteSets, SequencesExt

CONSTANTS Answers, NL, SEMI,
          Buffers,      \* the lengths of the buffers read is called with
          TextLimit     \* get_text's cap, 1 << 20

Purposes == {"open", "stats", "stop", "stream"}

ASSUME ClientAssumption ==
  /\ Buffers \subseteq Nat \ {0} /\ TextLimit \in Nat
  /\ NL # SEMI /\ {NL, SEMI} \cap (0..15) = {} /\ {NL, SEMI} \subseteq Nat
  /\ Answers \in [Purposes -> SUBSET UNION Range(Answers)]
  /\ \A a \in UNION Range(Answers) :
       /\ a.kind \in {"chunked", "length", "toclose"} /\ a.length \in Nat
       /\ a.wire \in Seq(Nat) /\ a.data \in Seq(DOMAIN a.wire)
       /\ a.says # {} => a.data # <<>>

\* The number that hex digits give.
Hex(digits) == FoldLeft(LAMBDA n, d : 16 * n + d, 0, digits)

\* l is a size line of wire w where one may begin after position p.
IsSizeLine(w, p, l) ==
  /\ l.first = IF p < Len(w) /\ w[p + 1] = NL THEN p + 2 ELSE p + 1
  /\ l.first <= l.last /\ l.last < l.nl /\ l.nl \in DOMAIN w
  /\ \A i \in l.first..l.last : w[i] \in 0..15
  /\ w[l.last + 1] \in {NL, SEMI} /\ w[l.nl] = NL
  /\ \A i \in (l.last + 1)..(l.nl - 1) : w[i] # NL

\* Where chunk k of an answer ends.
ChunkEnd(a, k) == IF k = 0 THEN 0 ELSE a.lines[k].nl + a.lines[k].size

\* The lines of a chunked answer are its size lines, all of them; only the last may
\* be of size 0.  A size is written without leading zeros: one of which the
\* connection's end leaves nothing but zeros would be taken for the last.
Framed(a) ==
  LET n == Len(a.lines)
  IN /\ \A k \in 1..n : LET l == a.lines[k] IN
          /\ IsSizeLine(a.wire, ChunkEnd(a, k - 1), l)
          /\ l.size = Hex(SubSeq(a.wire, l.first, l.last))
          /\ IF l.size = 0 THEN k = n ELSE a.wire[l.first] # 0
     /\ a.sound = (n > 0 /\ a.lines[n].size = 0)
     /\ a.sound \/ \A l \in [first : DOMAIN a.wire, last : DOMAIN a.wire, nl : DOMAIN a.wire] :
          ~IsSizeLine(a.wire, ChunkEnd(a, n), l)

\* Whether position p of an answer's wire is one of its body's own bytes.
IsData(a, p) ==
  \/ a.kind = "toclose"
  \/ a.kind = "length" /\ p <= a.length
  \/ a.kind = "chunked" /\ \E k \in DOMAIN a.lines :
                             a.lines[k].nl < p /\ p <= ChunkEnd(a, k)

ASSUME FramingAssumption ==
  \A a \in UNION Range(Answers) :
    /\ a.lines \in Seq([first : Nat, last : Nat, nl : Nat, size : Nat])
    /\ a.kind = "chunked" => Framed(a)
    /\ \A i, j \in DOMAIN a.data : i < j => a.data[i] < a.data[j]
    /\ Range(a.data) = {p \in DOMAIN a.wire : IsData(a, p)}

VARIABLES
  purpose,    \* what the client is at
  hop,        \* how many redirects the current GET has followed
  asking,     \* whether it has yet to be answered
  answer,     \* what the engine will answer, or has
  cut,        \* history: how much of the answer's wire will come
  taken,      \* how much of that has been read
  left, done, \* of the Body
  got,        \* the bytes that read has returned
  ending,     \* how reading ended
  verdict     \* what was made of it: open_session's or fetch_stats' result

answered == <<answer, cut>>
body == <<taken, left, done, got>>
clientVars == <<purpose, hop, asking, answered, body, ending, verdict>>

\* One GET each: open_session's handshake, fetch_stats, send_stop and the stream.
ClientInit ==
  /\ purpose \in Purposes
  /\ answer \in Answers[purpose]
  /\ asking = TRUE /\ hop = 0 /\ cut = 0 /\ taken = 0
  /\ left = 0 /\ done = FALSE /\ got = <<>>
  /\ ending = "none" /\ verdict = "none"

-----------------------------------------------------------------------------
(* get. *)

\* A bug: a redirect is followed wherever it comes from.
RedirectsAlways == answer.status = "3xx" /\ answer.location

Redirects == answer.status = "3xx" /\ answer.location /\ hop = 0

Redirected ==
  /\ asking /\ Redirects
  /\ hop' = 1
  /\ answer' \in Answers[purpose]
  /\ UNCHANGED <<purpose, asking, cut, body, ending, verdict>>

\* get returns the Response; its body will be cut after n symbols.
Responds(n) ==
  /\ asking /\ ~Redirects
  /\ asking' = FALSE
  /\ cut' = n
  /\ left' = IF answer.kind = "length" THEN answer.length ELSE 0
  /\ ending' = IF answer.status = "200" THEN "none" ELSE "refused"
  /\ UNCHANGED <<purpose, hop, answer, taken, done, got, verdict>>

\* No connection, no answer in time, or a head that is cut short, malformed or
\* too long.
GetFails ==
  /\ asking
  /\ asking' = FALSE
  /\ ending' = "refused"
  /\ UNCHANGED <<purpose, hop, answered, body, verdict>>

-----------------------------------------------------------------------------
(* Body::read. *)

Smallest(S) == CHOOSE n \in S : \A m \in S : n <= m

\* Where the line after position p ends: at its NL, or where the wire is cut.
LineEnd(p) == Smallest({q \in (p + 1)..cut : answer.wire[q] = NL} \cup {cut + 1})
Below(p) == Smallest({LineEnd(p), cut})

\* A bug: chunk data is not followed by a line end of its own.
SizeLineNext == taken

\* Where the size line begins: after the line end that follows the chunk before.
SizeLine == IF taken < cut /\ LineEnd(taken) = taken + 1 THEN taken + 1 ELSE taken

SizeDigits ==
  LET end_of == {q \in (SizeLine + 1)..(LineEnd(SizeLine) - 1) : answer.wire[q] = SEMI}
  IN SubSeq(answer.wire, SizeLine + 1, Smallest(end_of \cup {LineEnd(SizeLine)}) - 1)
Malformed == SizeDigits = <<>> \/ ~(Range(SizeDigits) \subseteq 0..15)
Size == Hex(SizeDigits)

\* A bug: the text is not capped.
WantedAll(b) == b

\* get_text's take: how much of a buffer of b bytes it still asks for.
Wanted(b) == IF purpose = "stream" THEN b ELSE Smallest({b, TextLimit - Len(got)})

Reading == ~asking /\ ending = "none" /\ Wanted(1) > 0

Ends(how) == ending' = how /\ UNCHANGED <<taken, left, got>>

\* The connection closes inside a body of known length.
Short == done' = TRUE /\ Ends("short")

\* inner.read: some of what has come from position p on, up to limit bytes.
Some(p, b, limit) ==
  \E n \in 1..Smallest({Wanted(b), limit, cut - p}) :
    /\ got' = got \o SubSeq(answer.wire, p + 1, p + n)
    /\ taken' = p + n
    /\ left' = limit - n
    /\ UNCHANGED <<done, ending>>

ReadToClose(b) ==
  /\ answer.kind = "toclose"
  /\ \/ taken = cut /\ Ends("clean") /\ UNCHANGED done
     \/ taken < cut /\ Some(taken, b, cut - taken)

ReadLength(b) ==
  /\ answer.kind = "length"
  /\ \/ left = 0 /\ done' = TRUE /\ Ends("clean")
     \/ left > 0 /\ taken = cut /\ Short
     \/ left > 0 /\ taken < cut /\ Some(taken, b, left)

\* Inside a chunk.
ReadChunk(b) ==
  /\ answer.kind = "chunked" /\ left > 0
  /\ \/ taken = cut /\ Short
     \/ taken < cut /\ Some(taken, b, left)

\* Between chunks.  Nothing is read after the trailers, however they end.
ReadSize(b) ==
  /\ answer.kind = "chunked" /\ left = 0
  /\ \/ SizeLine = cut /\ Ends("short") /\ UNCHANGED done
     \/ SizeLine < cut /\ Malformed /\ Ends("malformed") /\ UNCHANGED done
     \/ /\ SizeLine < cut /\ ~Malformed
        /\ \/ Size = 0 /\ done' = TRUE /\ Ends("clean")
           \/ Size > 0 /\ Below(SizeLine) = cut /\ Short
           \/ Size > 0 /\ Below(SizeLine) < cut /\ Some(Below(SizeLine), b, Size)

Read(b) ==
  /\ Reading
  /\ ReadToClose(b) \/ ReadLength(b) \/ ReadChunk(b) \/ ReadSize(b)
  /\ UNCHANGED <<purpose, hop, asking, answered, verdict>>

\* The take of get_text is used up: the text is what there is.
LimitReached ==
  /\ ~asking /\ ending = "none" /\ Wanted(1) = 0
  /\ ending' = "limit"
  /\ UNCHANGED <<purpose, hop, asking, answered, body, verdict>>

\* The engine is silent for the read timeout.
Silence ==
  /\ Reading
  /\ ending' = "stalled"
  /\ UNCHANGED <<purpose, hop, asking, answered, body, verdict>>

-----------------------------------------------------------------------------
(* What is made of the text. *)

\* get_text, an error being no text.
Text == IF ending \in {"clean", "limit"} THEN got ELSE <<>>

\* The bytes of the answer's body that are among the first n symbols of its wire.
DataIn(n) ==
  [k \in 1..Cardinality({k \in DOMAIN answer.data : answer.data[k] <= n}) |->
     answer.wire[answer.data[k]]]
Data == DataIn(Len(answer.wire))

\* A text of which the end is missing is no JSON.
Json == IF Text # <<>> /\ Text = Data THEN answer.says ELSE {}

\* A bug: what cannot be parsed fails the session.
SessionStrictly ==
  IF "playback_url" \in Json THEN "session" ELSE "error"

\* open_session's result.
Session ==
  IF "playback_url" \in Json THEN "session"
  ELSE IF "error" \in Json THEN "error" ELSE "direct"

\* open_session returns.
Opened ==
  /\ purpose = "open" /\ ending # "none" /\ verdict = "none"
  /\ verdict' = Session
  /\ UNCHANGED <<purpose, hop, asking, answered, body, ending>>

\* fetch_stats and send_stop return.
Polled ==
  /\ purpose = "stats" /\ ending # "none" /\ verdict = "none"
  /\ verdict' = IF Json \cap {"playback_url", "response"} # {} THEN "stats" ELSE "error"
  /\ UNCHANGED <<purpose, hop, asking, answered, body, ending>>

Stopped ==
  /\ purpose = "stop" /\ ending # "none" /\ verdict = "none"
  /\ verdict' = "stopped"
  /\ UNCHANGED <<purpose, hop, asking, answered, body, ending>>

ClientStep ==
  \/ Redirected \/ \E n \in 0..Len(answer.wire) : Responds(n)
  \/ \E b \in Buffers : Read(b)
  \/ GetFails \/ LimitReached \/ Silence
  \/ Opened \/ Polled \/ Stopped

\* Every socket operation has a timeout, so the client always gets on.
ClientSpec == ClientInit /\ [][ClientStep]_clientVars /\ WF_clientVars(ClientStep)

-----------------------------------------------------------------------------
ClientTypeOK ==
  /\ purpose \in Purposes /\ hop \in 0..1 /\ asking \in BOOLEAN
  /\ cut \in 0..Len(answer.wire)
  /\ taken \in 0..cut /\ left \in Nat /\ done \in BOOLEAN /\ got \in Seq(Nat)
  /\ ending \in {"none", "clean", "short", "malformed", "stalled", "limit", "refused"}
  /\ verdict \in {"none", "session", "direct", "error", "stats", "stopped"}
  /\ purpose # "stream" => Len(got) <= TextLimit

\* What has been read is the body's own bytes, none lost, doubled or taken from
\* the framing, wherever reads and chunks end.  A clean end is the end of the
\* body; one that comes too early is an error, reported after every byte that
\* did come ("chunk shorter than declared").
Decoded ==
  /\ IsPrefix(got, DataIn(cut))
  /\ ending = "clean" /\ answer.kind # "toclose" =>
       got = Data
  /\ ending \in {"clean", "short"} => got = DataIn(cut)
  /\ ending = "malformed" => ~answer.sound

\* A session with statistics is opened, and statistics are shown, only from an
\* answer that has been read whole; only the engine's own error refuses a session,
\* and it does (open_session: "must surface, unlike an unsupported handshake").
Truthful ==
  LET whole == answer.status = "200" /\ got = Data
               /\ ending \in {"clean", "limit"}
  IN purpose \in {"open", "stats"} /\ verdict # "none" =>
       /\ verdict \in {"session", "stats"} => whole /\ answer.says # {}
       /\ verdict = "error" /\ purpose = "open" => whole /\ "error" \in answer.says
       /\ purpose = "open" /\ whole /\ answer.says = {"error"} => verdict = "error"

\* The handshake, a poll, a stop and the stream's request come to an end, though
\* the engine redirect for ever or fall silent at any point (get: "following at
\* most one redirect").
ClientSettles == <>(ending # "none" /\ (purpose = "stream" \/ verdict # "none"))
=============================================================================
