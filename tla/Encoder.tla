------------------------------ MODULE Encoder ------------------------------
(***************************************************************************)
(* One encoder of src/src/registry.rs from its start to its drop: the      *)
(* drainer that reads ffmpeg's output, scans it into pieces and fans them  *)
(* out (drain_ffmpeg, Encoder::fan_out, finish), the joiners that wait for *)
(* the init segment and register (Encoder::subscribe), the listeners that  *)
(* read their channel and leave (Subscription), and the linger that        *)
(* outlives the last of them.                                              *)
(*                                                                         *)
(* A piece is its number; 0 stands for the init segment, which a joiner    *)
(* is sent first.  A joiner, a listener, the linger thread and, while it   *)
(* works on a chunk, the drainer hold an Arc<Encoder>; when nobody does,   *)
(* Encoder::drop kills ffmpeg.  Lag and bytes are left out: fan_out may    *)
(* evict any listener that has something unread.                           *)
(***************************************************************************)
EXTENDS Integers, Sequences, FiniteSets

CONSTANTS Clients,    \* requests, each made once
          NeedsInit,  \* OutputFormat::needs_init_segment: fMP4 or audio
          Linger,     \* whether config.encoder_linger is above zero
          MaxPieces   \* bound: ffmpeg's output is at most this many pieces

ASSUME NeedsInitAssumption == NeedsInit \in BOOLEAN
ASSUME LingerAssumption == Linger \in BOOLEAN
ASSUME BoundAssumption == MaxPieces \in Nat

VARIABLES
  kinds,      \* the kind of each piece so far
  broken,     \* mp4::Scanner::failed
  drainer,    \* where the drainer thread is
  output,     \* Encoder::output
  listeners,  \* Encoder::listeners
  awaiting,   \* those with awaiting_fragment
  got,        \* history: what was sent into a client's channel
  taken,      \* how much of it the client has received
  client,     \* where a client is
  parked      \* Arcs that linger_encoder has parked

scan == <<kinds, broken>>
fans == <<listeners, awaiting, got>>
vars == <<scan, drainer, output, fans, taken, client, parked>>

\* A fragment that opens on a keyframe (for audio: any chunk), one that does
\* not, and bytes inside a fragment or after the scanner gave up.
Kinds == {"key", "frag", "rest"}

\* The encoder has just been started for one client.
Init ==
  /\ kinds = <<>> /\ broken = FALSE
  /\ drainer = "read"
  /\ output = "starting"
  /\ listeners = {} /\ awaiting = {}
  /\ got = [c \in Clients |-> <<>>]
  /\ taken = [c \in Clients |-> 0]
  /\ \E first \in Clients :
       client = [c \in Clients |-> IF c = first THEN "joining" ELSE "out"]
  /\ parked = 0

\* Some client waits for the encoder or listens to it.
Wanted == \E c \in Clients : client[c] \in {"joining", "admitted", "streaming"}

\* A bug: the drainer upgrades once and keeps its Arc.
AliveWhileDrained == Wanted \/ parked > 0 \/ drainer # "done"

Alive ==
  \/ Wanted
  \/ parked > 0
  \/ drainer \in {"chunk", "fan", "clearing"}

-----------------------------------------------------------------------------
(* The drainer. *)

\* A read returns data and the Weak upgrades.
ReadChunk ==
  /\ drainer = "read"
  /\ Alive
  /\ Len(kinds) < MaxPieces
  /\ drainer' = "chunk"
  /\ UNCHANGED <<scan, output, fans, taken, client, parked>>

\* The scanner loses the box structure within this chunk.
Break ==
  /\ drainer = "chunk"
  /\ NeedsInit /\ ~broken
  /\ broken' = TRUE
  /\ UNCHANGED <<kinds, drainer, output, fans, taken, client, parked>>

\* What the next piece may be.  Media begins with a fragment.
NextKinds ==
  IF ~NeedsInit THEN {"key"}
  ELSE IF broken THEN {"rest"}
  ELSE IF kinds = <<>> THEN {"key", "frag"}
  ELSE Kinds

\* The next piece of the chunk.
NextPiece ==
  /\ drainer = "chunk"
  /\ Len(kinds) < MaxPieces
  /\ \E k \in NextKinds : kinds' = Append(kinds, k)
  /\ drainer' = "fan"
  /\ UNCHANGED <<broken, output, fans, taken, client, parked>>

\* Listeners the newest piece is sent to, if a waiting one attaches at `at`.
Receivers(at) ==
  {c \in listeners : c \in awaiting => kinds[Len(kinds)] \in at}

Lagging(who) == {c \in who : taken[c] < Len(got[c])}

\* A bug: who is evicted misses the piece but stays in the list.
DeliverKeepsEvicted(to, gone) ==
  /\ awaiting' = awaiting \ (to \cup gone)
  /\ got' = [c \in Clients |-> IF c \in to THEN Append(got[c], Len(kinds)) ELSE got[c]]
  /\ drainer' = "chunk"
  /\ UNCHANGED <<scan, output, listeners, taken, client, parked>>

\* The piece goes to `to`, the others in `gone` are evicted: their sender drops.
Deliver(to, gone) ==
  /\ listeners' = listeners \ gone
  /\ awaiting' = awaiting \ (to \cup gone)
  /\ got' = [c \in Clients |-> IF c \in to THEN Append(got[c], Len(kinds)) ELSE got[c]]
  /\ drainer' = "chunk"
  /\ UNCHANGED <<scan, output, taken, client, parked>>

\* A bug: a listener that lags misses the piece and stays.
FanOutSkips ==
  /\ drainer = "fan"
  /\ \E late \in SUBSET Lagging(Receivers({"key"})) :
       Deliver(Receivers({"key"}) \ late, {})

\* Encoder::fan_out, under the listeners' lock.
FanOut ==
  /\ drainer = "fan"
  /\ \E gone \in SUBSET Lagging(Receivers({"key"})) :
       Deliver(Receivers({"key"}) \ gone, gone)

\* What the output may become after a chunk: for fMP4 the init segment is there
\* once the first moof has been reached, whose header is enough.
Marks ==
  IF ~NeedsInit THEN {output}
  ELSE IF broken THEN {"unjoinable"}
  ELSE IF output # "starting" THEN {output}
  ELSE IF kinds = <<>> THEN {"starting", "ready"}
  ELSE {"ready"}

\* The chunk is done: say so in the output.  The Arc goes.
Mark ==
  /\ drainer = "chunk"
  /\ output' \in Marks
  /\ drainer' = "read"
  /\ UNCHANGED <<scan, fans, taken, client, parked>>

\* The end of ffmpeg's output: it exited, crashed or was killed, or what it had
\* still written finds no encoder.
Eof ==
  /\ drainer = "read"
  /\ drainer' = "eof"
  /\ UNCHANGED <<scan, output, fans, taken, client, parked>>

\* Encoder::finish, if there still is an encoder: first the output ...
Finish ==
  /\ drainer = "eof"
  /\ \/ Alive /\ output' = "finished" /\ drainer' = "clearing"
     \/ ~Alive /\ UNCHANGED output /\ drainer' = "done"
  /\ UNCHANGED <<scan, fans, taken, client, parked>>

\* A bug: finish leaves the listeners their senders.
ClearNothing ==
  /\ drainer = "clearing"
  /\ drainer' = "done"
  /\ UNCHANGED <<scan, output, fans, taken, client, parked>>

\* A bug: a cleared listener still counts as waiting for a fragment.
ClearListenersOnly ==
  /\ drainer = "clearing"
  /\ listeners' = {}
  /\ drainer' = "done"
  /\ UNCHANGED <<scan, output, awaiting, got, taken, client, parked>>

\* ... then, under the other lock, the listeners.
Clear ==
  /\ drainer = "clearing"
  /\ listeners' = {} /\ awaiting' = {}
  /\ drainer' = "done"
  /\ UNCHANGED <<scan, output, got, taken, client, parked>>

-----------------------------------------------------------------------------
(* A client. *)

Step(c, to) == client' = [client EXCEPT ![c] = to]

\* get_or_start_encoder: the running encoder is joined, unless it has finished.
Come(c) ==
  /\ client[c] = "out"
  /\ Alive /\ output # "finished"
  /\ Step(c, "joining")
  /\ UNCHANGED <<scan, drainer, output, fans, taken, parked>>

\* await_init_segment returns the init segment; audio does not wait for it.
Admit(c) ==
  /\ client[c] = "joining"
  /\ NeedsInit => output = "ready"
  /\ Step(c, "admitted")
  /\ UNCHANGED <<scan, drainer, output, fans, taken, parked>>

\* await_init_segment returns an error: there is no joining any more.
TurnAway(c) ==
  /\ client[c] = "joining"
  /\ NeedsInit /\ output \in {"unjoinable", "finished"}
  /\ Step(c, "refused")
  /\ UNCHANGED <<scan, drainer, output, fans, taken, parked>>

\* INIT_TIMEOUT.
InitTimeout(c) ==
  /\ client[c] = "joining"
  /\ NeedsInit /\ output = "starting"
  /\ Step(c, "refused")
  /\ UNCHANGED <<scan, drainer, output, fans, taken, parked>>

\* The rest of subscribe: the init segment is queued, then c is listed.
Register(c) ==
  /\ client[c] = "admitted"
  /\ listeners' = listeners \cup {c}
  /\ awaiting' = IF NeedsInit THEN awaiting \cup {c} ELSE awaiting
  /\ got' = IF NeedsInit THEN [got EXCEPT ![c] = <<0>>] ELSE got
  /\ Step(c, "streaming")
  /\ UNCHANGED <<scan, drainer, output, taken, parked>>

\* Subscription::recv returns a piece.
Take(c) ==
  /\ client[c] = "streaming"
  /\ taken[c] < Len(got[c])
  /\ taken' = [taken EXCEPT ![c] = @ + 1]
  /\ UNCHANGED <<scan, drainer, output, fans, client, parked>>

\* c's Subscription drops; the encoder lingers if `last`.
Depart(c, last) ==
  /\ client[c] = "streaming"
  /\ listeners' = listeners \ {c}
  /\ awaiting' = awaiting \ {c}
  /\ parked' = IF last /\ output # "finished" /\ Linger THEN parked + 1 ELSE parked
  /\ Step(c, "left")
  /\ UNCHANGED <<scan, drainer, output, got, taken>>

\* The player goes away, or its socket is shut by an eviction:
\* remove_listener, then linger_encoder if c was listed and the last one.
Leave(c) == Depart(c, listeners = {c})

\* recv returns None: the sender is gone and the queue is empty.
SeeEnd(c) ==
  /\ c \notin listeners
  /\ taken[c] = Len(got[c])
  /\ Leave(c)

\* The linger thread drops an Arc.
Lapse ==
  /\ parked > 0
  /\ parked' = parked - 1
  /\ UNCHANGED <<scan, drainer, output, fans, taken, client>>

-----------------------------------------------------------------------------
Drain == \/ ReadChunk \/ Break \/ NextPiece \/ FanOut \/ Mark \/ Eof
         \/ Finish \/ Clear

ClientStep(c) == \/ Come(c) \/ Admit(c) \/ TurnAway(c) \/ InitTimeout(c)
                 \/ Register(c) \/ Take(c) \/ Leave(c) \/ SeeEnd(c)

Next == Drain \/ Lapse \/ \E c \in Clients : ClientStep(c)

Spec == Init /\ [][Next]_vars

\* The drainer's, the linger's and the request threads run, and an encoder that is
\* dropped kills its ffmpeg, whose output then ends.  Nothing makes a running ffmpeg
\* go on or end, a player leave or INIT_TIMEOUT pass.
Fairness ==
  /\ WF_vars(NextPiece \/ FanOut \/ Mark) /\ WF_vars(Finish \/ Clear)
  /\ WF_vars(~Alive /\ Eof) /\ WF_vars(Lapse)
  /\ \A c \in Clients : /\ WF_vars(Admit(c) \/ TurnAway(c) \/ Register(c))
                        /\ WF_vars(Take(c)) /\ WF_vars(SeeEnd(c))

FairSpec == Spec /\ Fairness

-----------------------------------------------------------------------------
TypeOK ==
  /\ kinds \in Seq(Kinds) /\ Len(kinds) <= MaxPieces
  /\ broken \in BOOLEAN
  /\ drainer \in {"read", "chunk", "fan", "eof", "clearing", "done"}
  /\ output \in {"starting", "ready", "unjoinable", "finished"}
  /\ listeners \subseteq Clients /\ awaiting \subseteq listeners
  /\ got \in [Clients -> Seq(Nat)]
  /\ taken \in [Clients -> Nat] /\ \A c \in Clients : taken[c] <= Len(got[c])
  /\ client \in [Clients -> {"out", "joining", "admitted", "streaming", "left",
                             "refused"}]
  /\ parked \in Nat

\* What a client has been sent, the init segment apart.
Media(c) == IF NeedsInit /\ got[c] # <<>> THEN Tail(got[c]) ELSE got[c]

\* An fMP4 client is sent the init segment and then media that begins with a
\* fragment opening on a keyframe, however its joining interleaves with the
\* drainer and with the scanner failing (Encoder::subscribe, fan_out).
AlignedJoin ==
  NeedsInit =>
    \A c \in Clients :
      /\ got[c] # <<>> => Head(got[c]) = 0
      /\ Media(c) # <<>> => kinds[Head(Media(c))] = "key"

\* From the piece it attaches at, a client is sent every piece once and in
\* order; while it is listed it is not behind the drainer (fan_out: "a dropped
\* chunk would be unrecoverable").
NoHole ==
  \A c \in Clients :
    /\ \A i \in 1..(Len(Media(c)) - 1) : Media(c)[i + 1] = Media(c)[i] + 1
    /\ c \in listeners /\ Media(c) # <<>> /\ drainer # "fan"
         => Media(c)[Len(Media(c))] = Len(kinds)

\* What an fMP4 client is sent can be played: it begins where a decoder can, and
\* nothing is missing from there.
Playable == AlignedJoin /\ NoHole

\* An encoder that nobody wants any more stops, unless somebody comes back to it
\* while it lingers: its ffmpeg is killed and its drainer ends, whoever was evicted,
\* turned away or last to leave, and although the drainer holds the encoder itself
\* time and again (drain_ffmpeg: "Upgrade per chunk so the last holder leaving ends
\* this thread").
Retires == ~Wanted ~> (drainer = "done" \/ Wanted)

\* When ffmpeg's output ends, a listed client takes what it has been sent and sees
\* the end of its response, and one that waits for the init segment is released
\* without INIT_TIMEOUT having to pass (Encoder::finish).
EndReaches ==
  \A c \in Clients :
    /\ (drainer = "eof" /\ c \in listeners) ~> (client[c] = "left")
    /\ (drainer = "eof" /\ client[c] = "joining") ~> (client[c] # "joining")

\* What the README and linger_encoder say of an evicted listener: the encoder
\* lingers for it too ("a listener evicted for falling behind ... So an encoder
\* lingers").
EvictedLingers ==
  [][\A c \in Clients :
       client[c] = "streaming" /\ client'[c] = "left"
       /\ output # "finished" /\ Linger
       => Alive']_vars

\* What Encoder::finish says: it will "end every listener's response", since
\* "without this they would wait forever".
FinishEndsAll ==
  \A c \in Clients :
    (output = "finished" /\ client[c] = "streaming") ~> (client[c] = "left")

-----------------------------------------------------------------------------
\* How much of the pieces has been fanned out.
Published == IF drainer = "fan" THEN Len(kinds) - 1 ELSE Len(kinds)

B == INSTANCE Broadcast WITH
       Points <- {"key"},
       log <- SubSeq(kinds, 1, Published),
       members <- listeners,
       sent <- [c \in Clients |-> Media(c)]

\* The drainer, its joiners and listeners and their interleavings are a Broadcast:
\* every client follows one sequence of pieces from a safe point on.
Broadcasts == B!Spec

=============================================================================
