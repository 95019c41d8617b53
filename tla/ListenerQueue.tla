---------------------------- MODULE ListenerQueue ----------------------------
(***************************************************************************)
(* The queue between an encoder's drainer and one listener's request       *)
(* thread: Encoder::fan_out as one listener sees it, Subscription::recv    *)
(* (src/src/registry.rs) and stream_body with its batches and vectored     *)
(* writes (src/src/main.rs).                                               *)
(*                                                                         *)
(* The two threads share a channel, the atomic counters queued and         *)
(* consumed_at, which are relaxed, and the socket that eviction shuts.     *)
(* Each access to one of them is an action.  The player may stop reading   *)
(* at any time and for any time: only a write waits for it.                *)
(*                                                                         *)
(* A byte is its number in the response body.                              *)
(***************************************************************************)
EXTENDS Integers, Sequences, SequencesExt

CONSTANTS Lengths,       \* the lengths of a piece, and of the init segment
          SUB_MAX_LAG, SUB_MAX_BYTES, MAX_BATCH,
          MaxBody,       \* bound on the bytes sent
          MaxClock       \* bound on the clock

ASSUME QueueAssumption ==
  /\ Lengths \subseteq 1..MaxBody
  /\ {SUB_MAX_LAG, SUB_MAX_BYTES, MaxBody, MaxClock} \subseteq Nat
  /\ MAX_BATCH \in Nat \ {0}

VARIABLES
  clock,          \* Encoder::now
  chan,           \* what is in the channel
  queued, consumed_at, oldest_unread,
  awaiting,       \* awaiting_fragment
  listing,        \* whether the Listener is listed, and its sender exists
  shut,           \* whether the socket has been shut
  fan,            \* where fan_out is
  piece,          \* what it delivers: its length, now, and queued as loaded
  sent,           \* how many bytes have been sent
  reader,         \* where the request thread is
  hand, todo,     \* the chunk it has taken, and what took has still to do
  batch,          \* stream_body's batch
  out,            \* the bytes written to the socket
  waited          \* history: the longest a chunk has waited to be taken

queue == <<chan, queued, consumed_at, oldest_unread>>
drain == <<awaiting, listing, shut, fan, piece, sent>>
read == <<reader, hand, todo, batch, out, waited>>
queueVars == <<clock, queue, drain, read>>

Span(i, n) == [k \in 1..n |-> i + k]
Chunk(at, data) == [at |-> at, data |-> data]
NoChunk == Chunk(0, <<>>)
BodyOf(chunks) == FlattenSeq([k \in DOMAIN chunks |-> chunks[k].data])

\* The end of subscribe: for fMP4 the init segment is queued first.
QueueInit ==
  /\ clock = 0
  /\ \E n \in Lengths \cup {0} :
       /\ awaiting = (n > 0)
       /\ chan = IF n = 0 THEN <<>> ELSE <<Chunk(0, Span(0, n))>>
       /\ queued = n /\ sent = n
  /\ consumed_at = 0 /\ oldest_unread = 0
  /\ listing = "listed" /\ shut = FALSE
  /\ fan = "idle" /\ piece = [len |-> 0, now |-> 0, seen |-> 0]
  /\ reader = "head" /\ hand = NoChunk /\ todo = {} /\ batch = <<>>
  /\ out = <<>> /\ waited = 0

-----------------------------------------------------------------------------
(* fan_out. *)

\* A bug: the arrival of the oldest unread chunk is never noted again.
FanOutLoadsOnly(n) ==
  /\ fan = "idle" /\ listing = "listed"
  /\ sent + n <= MaxBody
  /\ awaiting' = FALSE
  /\ piece' = [len |-> n, now |-> clock, seen |-> queued]
  /\ fan' = "loaded"
  /\ UNCHANGED <<clock, queue, listing, shut, sent, read>>

\* A bug: it is taken to be the newest one.
FanOutNotesNewest(n) ==
  /\ fan = "idle" /\ listing = "listed"
  /\ sent + n <= MaxBody
  /\ awaiting' = FALSE
  /\ piece' = [len |-> n, now |-> clock, seen |-> queued]
  /\ oldest_unread' = clock
  /\ fan' = "loaded"
  /\ UNCHANGED <<clock, chan, queued, consumed_at, listing, shut, sent, read>>

\* A piece comes; one that an awaiting listener cannot attach at is passed over
\* and changes nothing.  queued is loaded; an empty queue makes the piece the
\* oldest unread.
FanOut(n) ==
  /\ fan = "idle" /\ listing = "listed"
  /\ sent + n <= MaxBody
  /\ awaiting' = FALSE
  /\ piece' = [len |-> n, now |-> clock, seen |-> queued]
  /\ oldest_unread' = IF queued = 0 THEN clock ELSE oldest_unread
  /\ fan' = "loaded"
  /\ UNCHANGED <<clock, chan, queued, consumed_at, listing, shut, sent, read>>

\* How far behind the reader is taken to be; never below zero.
Behind ==
  LET since == IF oldest_unread > consumed_at THEN oldest_unread ELSE consumed_at
  IN IF piece.now > since THEN piece.now - since ELSE 0

TooMuch == piece.seen + piece.len > SUB_MAX_BYTES

\* A bug: the socket is left open.
EvictQuietly ==
  /\ fan = "loaded"
  /\ Behind > SUB_MAX_LAG \/ TooMuch
  /\ listing' = "evicted"
  /\ fan' = "idle"
  /\ UNCHANGED <<clock, queue, awaiting, shut, piece, sent, read>>

\* The listener is dropped from the list, and its request thread kicked.
Evict ==
  /\ fan = "loaded"
  /\ Behind > SUB_MAX_LAG \/ TooMuch
  /\ listing' = "evicted" /\ shut' = TRUE
  /\ fan' = "idle"
  /\ UNCHANGED <<clock, queue, awaiting, piece, sent, read>>

\* fetch_add ...
Account ==
  /\ fan = "loaded"
  /\ Behind <= SUB_MAX_LAG /\ ~TooMuch
  /\ queued' = queued + piece.len
  /\ fan' = "counted"
  /\ UNCHANGED <<clock, chan, consumed_at, oldest_unread, awaiting, listing, shut,
                 piece, sent, read>>

\* ... and send, which fails if the Subscription has gone.
Send ==
  /\ fan = "counted"
  /\ IF reader = "gone"
       THEN listing' = "left" /\ UNCHANGED <<chan, sent>>
       ELSE /\ chan' = Append(chan, Chunk(piece.now, Span(sent, piece.len)))
            /\ sent' = sent + piece.len
            /\ UNCHANGED listing
  /\ fan' = "idle"
  /\ UNCHANGED <<clock, queued, consumed_at, oldest_unread, awaiting, shut, piece,
                 read>>

\* Encoder::finish lets every listener go.
Finish ==
  /\ fan = "idle" /\ listing = "listed"
  /\ listing' = "left"
  /\ UNCHANGED <<clock, queue, awaiting, shut, fan, piece, sent, read>>

-----------------------------------------------------------------------------
(* The request thread. *)

\* The Subscription is dropped: the channel with it, and the listing.
Depart ==
  /\ reader' = "gone"
  /\ chan' = <<>> /\ hand' = NoChunk /\ todo' = {} /\ batch' = <<>>
  /\ IF fan = "idle" THEN listing' = "left" ELSE UNCHANGED listing
  /\ UNCHANGED <<clock, queued, consumed_at, oldest_unread, awaiting, shut, fan,
                 piece, sent, out, waited>>

\* The head of the response is written.
WriteHead ==
  /\ reader = "head"
  /\ reader' = "recv"
  /\ UNCHANGED <<clock, queue, drain, hand, todo, batch, out, waited>>

\* A bug: the batch is gathered for as long as there is something.
TakeAlways ==
  /\ reader \in {"recv", "gather"} /\ todo = {}
  /\ chan # <<>>
  /\ hand' = Head(chan) /\ chan' = Tail(chan)
  /\ todo' = {"queued", "consumed_at"}
  /\ waited' = IF clock - Head(chan).at > waited THEN clock - Head(chan).at ELSE waited
  /\ reader' = "gather"
  /\ UNCHANGED <<clock, queued, consumed_at, oldest_unread, drain, batch, out>>

\* recv or try_recv takes a chunk off the channel.
TakeChunk ==
  /\ reader \in {"recv", "gather"} /\ todo = {}
  /\ chan # <<>> /\ Len(batch) < MAX_BATCH
  /\ hand' = Head(chan) /\ chan' = Tail(chan)
  /\ todo' = {"queued", "consumed_at"}
  /\ waited' = IF clock - Head(chan).at > waited THEN clock - Head(chan).at ELSE waited
  /\ reader' = "gather"
  /\ UNCHANGED <<clock, queued, consumed_at, oldest_unread, drain, batch, out>>

\* A bug: one is taken off for every chunk.
TookOne ==
  /\ "queued" \in todo
  /\ queued' = queued - 1
  /\ todo' = todo \ {"queued"}
  /\ batch' = IF todo' = {} THEN Append(batch, hand) ELSE batch
  /\ UNCHANGED <<clock, chan, consumed_at, oldest_unread, drain, reader, hand, out,
                 waited>>

\* took's fetch_sub and its store, in either order: the chunk is in the batch
\* after both.
TookQueued ==
  /\ "queued" \in todo
  /\ queued' = queued - Len(hand.data)
  /\ todo' = todo \ {"queued"}
  /\ batch' = IF todo' = {} THEN Append(batch, hand) ELSE batch
  /\ UNCHANGED <<clock, chan, consumed_at, oldest_unread, drain, reader, hand, out,
                 waited>>

TookConsumed ==
  /\ "consumed_at" \in todo
  /\ consumed_at' = hand.at
  /\ todo' = todo \ {"consumed_at"}
  /\ batch' = IF todo' = {} THEN Append(batch, hand) ELSE batch
  /\ UNCHANGED <<clock, chan, queued, oldest_unread, drain, reader, hand, out,
                 waited>>

\* try_recv finds nothing, or the batch is full.
Gathered ==
  /\ reader = "gather" /\ todo = {}
  /\ chan = <<>> \/ Len(batch) = MAX_BATCH
  /\ reader' = "write"
  /\ UNCHANGED <<clock, queue, drain, hand, todo, batch, out, waited>>

\* A bug: a piece that is written in part is not advanced past.
WriteByPieces(n) ==
  /\ reader = "write"
  /\ n \in 1..Len(BodyOf(batch))
  /\ out' = out \o SubSeq(BodyOf(batch), 1, n)
  /\ batch' = Tail(batch)
  /\ reader' = IF batch' = <<>> THEN "recv" ELSE "write"
  /\ UNCHANGED <<clock, queue, drain, hand, todo, waited>>

\* write_vectored accepts n bytes: IoSlice::advance_slices.
WriteSome(n) ==
  /\ reader = "write" /\ ~shut
  /\ n \in 1..Len(BodyOf(batch))
  /\ out' = out \o SubSeq(BodyOf(batch), 1, n)
  /\ batch' = IF n = Len(BodyOf(batch)) THEN <<>>
              ELSE <<Chunk(0, SubSeq(BodyOf(batch), n + 1, Len(BodyOf(batch))))>>
  /\ reader' = IF batch' = <<>> THEN "recv" ELSE "write"
  /\ UNCHANGED <<clock, queue, drain, hand, todo, waited>>

\* A write fails: the player has gone, or the socket has been shut.
WriteFails == reader \in {"head", "write"} /\ Depart

\* recv returns None: the sender has gone and the channel is empty.
RecvEnds == reader = "recv" /\ chan = <<>> /\ listing # "listed" /\ Depart

-----------------------------------------------------------------------------
\* Time passes while a thread waits or is about to; the few instructions of
\* fan_out and of took take none.
QueueTick ==
  /\ clock < MaxClock
  /\ fan = "idle" /\ todo = {}
  /\ clock' = clock + 1
  /\ UNCHANGED <<queue, drain, read>>

FanOutStep == Evict \/ Account \/ Send
ReaderStep == TakeChunk \/ TookQueued \/ TookConsumed \/ Gathered \/ RecvEnds

QueueNext ==
  \/ FanOutStep \/ Finish
  \/ \E n \in Lengths : FanOut(n)
  \/ \E n \in 1..MaxBody : WriteSome(n)
  \/ ReaderStep \/ WriteHead \/ WriteFails \/ QueueTick

\* The drainer and the request thread run, and a write to a socket that has been
\* shut fails.  A player need not read.
QueueFair ==
  /\ WF_queueVars(FanOutStep) /\ WF_queueVars(ReaderStep)
  /\ WF_queueVars(shut /\ WriteFails)

QueueSpec == QueueInit /\ [][QueueNext]_queueVars /\ QueueFair

-----------------------------------------------------------------------------
QueueTypeOK ==
  /\ clock \in 0..MaxClock /\ sent \in 0..MaxBody
  /\ queued \in Nat /\ Len(batch) <= MAX_BATCH
  /\ {consumed_at, oldest_unread} \subseteq 0..clock
  /\ listing \in {"listed", "evicted", "left"}
  /\ fan \in {"idle", "loaded", "counted"}
  /\ reader \in {"head", "recv", "gather", "write", "gone"}
  /\ todo # {} => reader = "gather"

\* queued is at every moment exactly the bytes in the channel, those that are
\* about to be sent and those just taken: it cannot wrap below zero, nor drift
\* over any number of pieces (Listener::queued).
Counted ==
  reader # "gone" =>
    queued = Len(BodyOf(chan)) + (IF "queued" \in todo THEN Len(hand.data) ELSE 0)
               + (IF fan = "counted" THEN piece.len ELSE 0)

\* A listener that has taken every chunk within half of SUB_MAX_LAG, and has none
\* unread for longer, is not disconnected for lag, whatever pauses the source
\* makes: consumed_at may make it look behind by one gap between chunks more than
\* it is, but not by more (fan_out: "bounded below by the chunk it most recently
\* took").
KeepsUp ==
  [][Evict /\ ~TooMuch /\ reader # "gone" =>
       \/ 2 * waited > SUB_MAX_LAG
       \/ \E k \in DOMAIN chan : 2 * (clock - chan[k].at) > SUB_MAX_LAG]_queueVars

\* No piece is queued behind one that has been unread for more than SUB_MAX_LAG,
\* nor one that makes the backlog more than SUB_MAX_BYTES (fan_out: "a viewer
\* several seconds behind is better served by a reconnect").  Only an init segment,
\* which subscribe queues, may be larger.
Backlog ==
  [][Len(chan') > Len(chan) =>
       /\ \A k \in DOMAIN chan' : chan'[k].at + SUB_MAX_LAG >= clock
       /\ Len(BodyOf(chan')) <= SUB_MAX_BYTES]_queueVars

\* The player is sent the body without a gap, a repetition or a change of order,
\* whatever part of a batch a write accepts (write_all_vectored).
InOrder ==
  LET taken == IF todo = {} THEN <<>> ELSE hand.data
  IN /\ out = Span(0, Len(out))
     /\ reader # "gone" =>
          out \o BodyOf(batch) \o taken \o BodyOf(chan) = Span(0, sent)

\* Eviction frees the request thread even if its player does not read any more
\* (Listener::kick: "so eviction can unblock a request thread stuck in a write").
EvictedReturns == (listing = "evicted") ~> (reader = "gone")
=============================================================================
