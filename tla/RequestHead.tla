---------------------------- MODULE RequestHead ----------------------------
(***************************************************************************)
(* One connection of a player, from its accept to its answer: the head is  *)
(* read line by line against two limits and what would frame a body is     *)
(* refused (src/src/http.rs), then it is routed (src/src/main.rs).         *)
(*                                                                         *)
(* The player is external: it sends the first `arrives` bytes of a request *)
(* and then falls silent, closes or resets the connection.  A line is      *)
(*   len   its length, line end included                                   *)
(*   crlf  whether that is CR LF, or a bare LF                             *)
(*   ctl   whether there is a CR or NUL within                             *)
(*   says  what it reads as: a request line that is "sound" or "bad", the  *)
(*         "blank" line, or a header: "te" for any Transfer-Encoding,      *)
(*         "body" for a Content-Length above zero, "bad" for one that is   *)
(*         not well-formed, "other"                                        *)
(***************************************************************************)
EXTENDS Integers, Sequences, SequencesExt

CONSTANTS Heads,     \* the requests that players make
          MAX_HEAD_BYTES, MAX_HEADER_LINES

\* The bytes of the first n lines.
SizeOf(lines, n) ==
  LET size[k \in 0..Len(lines)] == IF k = 0 THEN 0 ELSE size[k - 1] + lines[k].len
  IN size[n]

Lines == [len : Nat \ {0}, crlf : BOOLEAN, ctl : BOOLEAN,
          says : {"sound", "blank", "te", "body", "bad", "other"}]

ASSUME HeadAssumption ==
  /\ MAX_HEAD_BYTES \in Nat \ {0} /\ MAX_HEADER_LINES \in Nat
  /\ \A h \in Heads :
       /\ h.lines \in Seq(Lines)
       /\ \A k \in DOMAIN h.lines :
            LET l == h.lines[k]
            IN /\ l.crlf => l.len > 1
               /\ l.says = "blank" <=> l.crlf /\ l.len = 2
               /\ l.says = "sound" => k = 1

VARIABLES
  request,    \* [lines, method, path, valid]: valid says of id and fmt
  arrives,    \* how much of it will come
  after,      \* what the player does then
  budget,     \* bytes the head may still have
  line,       \* the line that is read
  headers,    \* read_head's count of them
  phase,      \* of the connection
  status      \* of the answer, 0 if there is none

headVars == <<request, arrives, after, budget, line, headers, phase, status>>

HeadInit ==
  /\ request \in Heads
  /\ arrives \in 0..SizeOf(request.lines, Len(request.lines))
  /\ after \in {"silent", "closed", "reset"}
  /\ budget = MAX_HEAD_BYTES /\ line = 1 /\ headers = 0
  /\ phase = "head" /\ status = 0

-----------------------------------------------------------------------------
(* read_head. *)

\* What has come and has not been read.
Available == arrives - (MAX_HEAD_BYTES - budget)

\* The next line has come, and within the budget.
LineComes ==
  /\ line <= Len(request.lines)
  /\ LET n == request.lines[line].len IN n <= Available /\ n <= budget

\* A bug: one header line too many is let through.
TooManyLoosely == headers > MAX_HEADER_LINES

\* A header line, which has not been counted yet, is one too many.
TooMany == headers + 1 > MAX_HEADER_LINES

\* The connection is refused, or goes on as `to`.
Refuse(code) == phase' = "refused" /\ status' = code
GoesTo(to) == phase' = to /\ UNCHANGED status

\* parse_request_line, the blank line or check_no_body.
Understand(says) ==
  \/ /\ line = 1 /\ UNCHANGED headers
     /\ IF says = "sound" THEN GoesTo("head") ELSE Refuse(400)
  \/ line > 1 /\ says = "blank" /\ GoesTo("route") /\ UNCHANGED headers
  \/ /\ line > 1 /\ says # "blank" /\ headers' = headers + 1
     /\ IF TooMany THEN Refuse(431)
        ELSE CASE says = "te" -> Refuse(501)
               [] says \in {"body", "bad"} -> Refuse(400)
               [] OTHER -> GoesTo("head")

\* A bug: every line has the whole budget.
LeftPerLine == MAX_HEAD_BYTES - request.lines[line].len

\* The budget after the line.
Left == budget - request.lines[line].len

\* A line is read.  A bare LF that takes the last of the budget counts as too much.
ReadLine ==
  /\ phase = "head" /\ LineComes
  /\ budget' = Left
  /\ line' = line + 1
  /\ LET l == request.lines[line]
     IN \/ ~l.crlf /\ Refuse(IF Left = 0 THEN 431 ELSE 400) /\ UNCHANGED headers
        \/ l.crlf /\ l.ctl /\ Refuse(400) /\ UNCHANGED headers
        \/ l.crlf /\ ~l.ctl /\ Understand(l.says)
  /\ UNCHANGED <<request, arrives, after>>

\* The budget runs out in a line, or before it.
Exceeds ==
  /\ phase = "head" /\ ~LineComes /\ budget <= Available
  /\ budget' = 0
  /\ Refuse(431)
  /\ UNCHANGED <<request, arrives, after, line, headers>>

\* A bug: the read timeout is not set.
StopsIfClosed ==
  /\ phase = "head" /\ ~LineComes /\ budget > Available /\ after # "silent"
  /\ budget' = budget - (IF after = "closed" THEN Available ELSE 0)
  /\ Refuse(400)
  /\ UNCHANGED <<request, arrives, after, line, headers>>

\* The player has stopped within the head: HEAD_TIMEOUT passes in a read, a read
\* returns nothing, or an error.
Stops ==
  /\ phase = "head" /\ ~LineComes /\ budget > Available
  /\ budget' = budget - (IF after = "closed" THEN Available ELSE 0)
  /\ Refuse(IF after = "silent" THEN 408 ELSE 400)
  /\ UNCHANGED <<request, arrives, after, line, headers>>

-----------------------------------------------------------------------------
(* handle and serve_stream. *)

Answer ==
  CASE request.method = "OPTIONS" -> 204
    [] request.method = "other" -> 405
    [] OTHER ->
         CASE request.path \in {"/audio", "/video"} -> IF request.valid THEN 200 ELSE 400
           [] request.path = "unknown" -> 404
           [] OTHER -> 200

\* A bug: a HEAD request is served as a GET.
ServesAny ==
  request.path \in {"/audio", "/video"} /\ request.method \in {"GET", "HEAD"} /\ request.valid

\* Only a GET starts anything.
Serves ==
  request.path \in {"/audio", "/video"} /\ request.method = "GET" /\ request.valid

Route ==
  /\ phase = "route"
  /\ IF Serves THEN GoesTo("subscribe") ELSE phase' = "answered" /\ status' = Answer
  /\ UNCHANGED <<request, arrives, after, budget, line, headers>>

\* Registry::subscribe returns a Subscription, or an error.
Subscribed ==
  /\ phase = "subscribe"
  /\ \/ phase' = "stream" /\ status' = 200
     \/ phase' = "answered" /\ status' = 502
  /\ UNCHANGED <<request, arrives, after, budget, line, headers>>

HeadStep == ReadLine \/ Exceeds \/ Stops \/ Route \/ Subscribed

\* A read times out, and subscribe waits for START_TIMEOUT and INIT_TIMEOUT only.
HeadSpec == HeadInit /\ [][HeadStep]_headVars /\ WF_headVars(HeadStep)

-----------------------------------------------------------------------------
HeadTypeOK ==
  /\ budget \in 0..MAX_HEAD_BYTES
  /\ line \in 1..(Len(request.lines) + 1) /\ headers \in 0..(MAX_HEADER_LINES + 1)
  /\ phase \in {"head", "route", "subscribe", "stream", "answered", "refused"}
  /\ status \in {0, 200, 204, 400, 404, 405, 408, 431, 501, 502}
  /\ (status = 0) = (phase \in {"head", "route", "subscribe"})

\* What a whole head would have to be, said of all of it at once.
Blank == SelectInSeq(request.lines, LAMBDA l : l.says = "blank")
Sound ==
  LET b == Blank
  IN /\ b > 1 /\ request.lines[1].says = "sound"
     /\ \A k \in 1..b : request.lines[k].crlf /\ ~request.lines[k].ctl
     /\ \A k \in 2..(b - 1) : request.lines[k].says = "other"
Small == SizeOf(request.lines, Blank) <= MAX_HEAD_BYTES /\ Blank - 2 <= MAX_HEADER_LINES
Arrived == SizeOf(request.lines, Blank) <= arrives

\* A request gets through exactly if its head has come, declares no body, is
\* well-formed to the last line and keeps to both limits, those met exactly
\* included; and what refuses it has that reason (Error::status).  Nothing but a
\* valid GET subscribes (serve_stream: "Players commonly probe with a HEAD").
Judged ==
  LET served == Sound /\ Small /\ Arrived
  IN /\ phase \notin {"head", "refused"} => served
     /\ served => phase # "refused"
     /\ status = 431 =>
          arrives >= MAX_HEAD_BYTES \/ Len(request.lines) - 1 > MAX_HEADER_LINES
     /\ status = 408 => after = "silent" /\ (Blank = 0 \/ ~Arrived)
     /\ status = 501 => \E k \in DOMAIN request.lines : request.lines[k].says = "te"
     /\ phase \in {"subscribe", "stream"} => request.method = "GET" /\ request.valid

\* Every connection is answered or served, whatever its player does in the middle
\* of the head (HEAD_TIMEOUT: "a client that connects and then says nothing parks a
\* thread forever").
HeadSettles == <>(phase \in {"stream", "answered", "refused"})
=============================================================================
