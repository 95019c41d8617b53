----------------------------- MODULE Mp4Scanner -----------------------------
(***************************************************************************)
(* mp4::Scanner: splits ffmpeg's fragmented MP4, which arrives in chunks   *)
(* cut anywhere, into the init segment and pieces that begin at a fragment *)
(* (src/src/mp4.rs).                                                       *)
(*                                                                         *)
(* A byte is its position in the stream; what a box header says is looked  *)
(* up at the position the header begins at.  An action is one turn of the  *)
(* loop in push.                                                           *)
(***************************************************************************)
EXTENDS Integers, Sequences, SequencesExt

CONSTANTS Inputs,   \* the streams ffmpeg may write
          None,     \* Option::None
          Short,    \* SHORT_HEADER
          Long,     \* LONG_HEADER
          MaxMoof   \* MAX_MOOF

ASSUME SizeAssumption ==
  {Short, Long, MaxMoof} \subseteq Nat \ {0} /\ Short < Long

VARIABLES
  input,      \* the stream that is written
  end,        \* how much of it has been pushed
  at,         \* how much of that has been consumed
  given,      \* history: how much of it earlier calls returned
  pc,         \* whether push is running
  out,        \* the pieces this call returns, or the last one returned
  header, body_left, in_init, init, failed, started, pending, moof, tracks

vars == <<input, end, at, given, pc, out, header, body_left, in_init, init,
          failed, started, pending, moof, tracks>>

-----------------------------------------------------------------------------
(* Boxes. *)

\* A box: its type, whether its size is the 64-bit one (size32 = 1), that size,
\* and for a moov its tracks, for a moof its track fragments.
HeaderLen(b) == IF b.long THEN Long ELSE Short

\* "Extends to end of file", or smaller than its own header.
BadSize(b) == b.size < HeaderLen(b)
BadMoof(b) == b.kind = "moof" /\ b.size > MaxMoof
Opens(b) == b.kind \in {"ftyp", "moof", "styp"}

\* The bytes after the first i, up to the j-th.
Bytes(i, j) == [n \in 1..(j - i) |-> i + n]

\* What h reads as, if it does not begin with a box: any bytes; size 0 stands
\* for them.
Garbage == [kind |-> "mdat", long |-> FALSE, size |-> 0]
Box(h) ==
  IF h[1] \in DOMAIN input.boxes THEN input.boxes[h[1]] ELSE Garbage

-----------------------------------------------------------------------------
(* What init segment and moof say about keyframes. *)

NoTracks == [video |-> {}, trex |-> <<>>]

\* Tracks::parse: those of the moov that lies in the init segment.
Parse(bytes) ==
  LET moovs == {p \in DOMAIN input.boxes \cap ToSet(bytes) :
                  /\ input.boxes[p].kind = "moov"
                  /\ p..(p + input.boxes[p].size - 1) \subseteq ToSet(bytes)}
  IN IF moovs = {} THEN NoTracks
     ELSE input.boxes[CHOOSE p \in moovs : TRUE].tracks

\* Tracks::first_sample: the flags of the first sample, from where the muxer
\* put them; unknown means non-sync.
FirstSync(t, traf) ==
  LET flags == IF traf.trun # None THEN traf.trun
               ELSE IF traf.tfhd # None THEN traf.tfhd
               ELSE IF traf.track \in DOMAIN t.trex THEN t.trex[traf.track]
               ELSE None
  IN flags = "sync"

\* Tracks::keyframe_fragment.
KeyframeFragment(t, b) ==
  LET video == {traf \in b.trafs : traf.track \in t.video}
  IN t.video = {} \/ (video # {} /\ \A traf \in video : FirstSync(t, traf))

-----------------------------------------------------------------------------
(* Pieces. *)

InitPiece(d) == [kind |-> "init", data |-> d, starts |-> FALSE, key |-> FALSE]
Media(d, s, k) == [kind |-> "media", data |-> d, starts |-> s, key |-> k]
Plain(d) == IF d = <<>> THEN <<>> ELSE <<Media(d, FALSE, FALSE)>>

Nothing == [data |-> <<>>, starts |-> FALSE, key |-> FALSE]

\* Pending::take.
Taken == IF pending.data = <<>> THEN <<>>
         ELSE <<Media(pending.data, pending.starts, pending.key)>>

Emit(d) ==
  /\ init' = IF in_init THEN init \o d ELSE init
  /\ out' = IF in_init THEN Append(out, InitPiece(d)) ELSE out
  /\ pending' = IF in_init THEN pending
                ELSE [pending EXCEPT !.data = @ \o d]

\* What finish_moof makes of the run p and the complete moof m.
Started(p, t, m) ==
  [data |-> p.data \o m, starts |-> TRUE,
   key |-> t = None \/ KeyframeFragment(t, Box(m))]

-----------------------------------------------------------------------------
Init ==
  /\ input \in Inputs
  /\ end = 0 /\ at = 0 /\ given = 0 /\ pc = "idle" /\ out = <<>>
  /\ header = <<>> /\ body_left = 0 /\ in_init = TRUE /\ init = <<>>
  /\ failed = FALSE /\ started = FALSE /\ pending = Nothing
  /\ moof = None /\ tracks = None

DataOf(pieces) == FlattenSeq([n \in DOMAIN pieces |-> pieces[n].data])

\* push is called with the next n bytes.  A scanner that has failed passes
\* them through.
Push(n) ==
  /\ pc = "idle" /\ end + n <= input.len
  /\ end' = end + n
  /\ given' = given + Len(DataOf(out))
  /\ IF failed
       THEN /\ out' = <<Media(Bytes(end, end + n), FALSE, FALSE)>>
            /\ at' = end + n /\ UNCHANGED pc
       ELSE out' = <<>> /\ pc' = "scanning" /\ UNCHANGED at
  /\ UNCHANGED <<input, header, body_left, in_init, init, failed, started,
                 pending, moof, tracks>>

\* A bug: a body takes the whole chunk.
TakeRest == end - at

\* How much of the box body this chunk has.
Take == IF body_left < end - at THEN body_left ELSE end - at

\* Inside a box: bytes pass straight through, or a moof is held.
Body ==
  LET slice == Bytes(at, at + Take)
  IN /\ pc = "scanning" /\ at < end /\ body_left > 0
     /\ IF moof = None THEN Emit(slice) /\ UNCHANGED moof
        ELSE IF Take < body_left
        THEN moof' = moof \o slice /\ UNCHANGED <<init, out, pending>>
        ELSE /\ moof' = None /\ pending' = Started(pending, tracks, moof \o slice)
             /\ UNCHANGED <<init, out>>
     /\ body_left' = body_left - Take
     /\ at' = at + Take
     /\ UNCHANGED <<input, end, given, pc, header, in_init, failed, started,
                    tracks>>

\* h and the bytes from the i-th on, up to n of them.
Fill(h, i, n) ==
  IF Len(h) >= n THEN h
  ELSE h \o Bytes(i, IF end < i + n - Len(h) THEN end ELSE i + n - Len(h))

\* The header as far as this chunk completes it.
Head1 == Fill(header, at, Short)
HeadNow ==
  IF Len(Head1) >= Short /\ Box(Head1).long
    THEN Fill(Head1, at + Len(Head1) - Len(header), Long)
    ELSE Head1
AtNow == at + Len(HeadNow) - Len(header)
Complete == Len(HeadNow) >= Short /\ Len(HeadNow) >= HeaderLen(Box(HeadNow))

AtHeader == pc = "scanning" /\ at < end /\ body_left = 0

\* The chunk ends in the header.
HoldHeader ==
  /\ AtHeader /\ ~Complete
  /\ header' = HeadNow /\ at' = AtNow
  /\ UNCHANGED <<input, end, given, pc, out, body_left, in_init, init, failed,
                 started, pending, moof, tracks>>

\* A bug: what there is of the init segment is kept.
KeepInit == in_init' = FALSE /\ UNCHANGED init

\* The init segment is discarded: part of one is worse than none.
DropInit == in_init' = FALSE /\ init' = <<>>

\* A bug: the held header is lost.
HandBackRest == Plain(Bytes(AtNow, end))

\* All that is held and the rest of the chunk.
HandBack == (IF moof = None THEN <<>> ELSE Plain(moof))
              \o Plain(HeadNow) \o Plain(Bytes(AtNow, end))

\* The boxes no longer make sense.
GiveUp ==
  LET b == Box(HeadNow)
  IN /\ AtHeader /\ Complete
     /\ BadSize(b) \/ (~started /\ ~Opens(b)) \/ BadMoof(b)
     /\ failed' = TRUE /\ DropInit
     /\ out' = out \o Taken \o HandBack
     /\ pending' = Nothing /\ moof' = None /\ header' = <<>>
     /\ started' = (started \/ ~BadSize(b))
     /\ body_left' = IF ~BadSize(b) /\ (started \/ Opens(b))
                       THEN b.size - HeaderLen(b) ELSE body_left
     /\ at' = end /\ pc' = "idle"
     /\ UNCHANGED <<input, end, given, tracks>>

\* A bug: the 64-bit size is not part of the header.
EnterShort(b) ==
  /\ AtHeader /\ Complete
  /\ ~BadSize(b) /\ (started \/ Opens(b)) /\ ~BadMoof(b)
  /\ started' = TRUE
  /\ header' = <<>>
  /\ body_left' = b.size - Short
  /\ at' = AtNow

\* A box that makes sense is entered.
Enter(b) ==
  /\ AtHeader /\ Complete
  /\ ~BadSize(b) /\ (started \/ Opens(b)) /\ ~BadMoof(b)
  /\ started' = TRUE
  /\ header' = <<>>
  /\ body_left' = b.size - HeaderLen(b)
  /\ at' = AtNow

\* A fragment begins; emitted are the pieces, run what the moof goes on.
Fragment(emitted, run) ==
  LET b == Box(HeadNow)
      t == IF tracks = None THEN Parse(init) ELSE tracks
  IN /\ Enter(b) /\ b.kind = "moof"
     /\ in_init' = FALSE
     /\ tracks' = t
     /\ out' = emitted
     /\ IF b.size > HeaderLen(b)
          THEN moof' = HeadNow /\ pending' = run
          ELSE UNCHANGED moof /\ pending' = Started(run, t, HeadNow)
     /\ UNCHANGED <<input, end, given, pc, init, failed>>

\* A bug: the fragment goes on in the run in progress.
OpenMoofInRun == Fragment(out, pending)

\* The run in progress is closed, so that the fragment starts its own piece.
OpenMoof == Fragment(out \o Taken, Nothing)

\* Any other box begins.
OpenBox ==
  LET b == Box(HeadNow)
  IN /\ Enter(b) /\ b.kind # "moof"
     /\ Emit(HeadNow)
     /\ UNCHANGED <<input, end, given, pc, in_init, failed, moof, tracks>>

\* The chunk is consumed and push returns.
Return ==
  /\ pc = "scanning" /\ at = end
  /\ out' = out \o Taken /\ pending' = Nothing /\ pc' = "idle"
  /\ UNCHANGED <<input, end, at, given, header, body_left, in_init, init,
                 failed, started, moof, tracks>>

Next ==
  \/ \E n \in 1..input.len : Push(n)
  \/ Body \/ HoldHeader \/ GiveUp \/ OpenMoof \/ OpenBox \/ Return

Spec == Init /\ [][Next]_vars

-----------------------------------------------------------------------------
\* Boxes follow one another from the first byte, and at most one is a moov; one
\* that does not make sense is the last.
InputAssumption ==
  \A s \in Inputs :
    /\ s.len \in Nat
    /\ \A p \in DOMAIN s.boxes : p \in 1..s.len /\ s.boxes[p].size \in Nat
    /\ \A n \in 1..s.len :
         \E p \in DOMAIN s.boxes :
           p <= n /\ (BadSize(s.boxes[p]) \/ n < p + s.boxes[p].size)
    /\ \A p, q \in DOMAIN s.boxes :
         /\ p < q => ~BadSize(s.boxes[p]) /\ p + s.boxes[p].size <= q
         /\ s.boxes[p].kind = "moov" /\ s.boxes[q].kind = "moov" => p = q
ASSUME InputAssumption

\* None is neither bytes nor tracks.
ASSUME NoneAssumption ==
  /\ None \notin Seq(Nat) /\ None # NoTracks
  /\ \A s \in Inputs : \A p \in DOMAIN s.boxes :
       s.boxes[p].kind = "moov" => s.boxes[p].tracks # None

-----------------------------------------------------------------------------
TypeOK ==
  /\ 0 <= at /\ at <= end /\ end <= input.len /\ given \in 0..at
  /\ pc \in {"idle", "scanning"}
  /\ body_left \in Nat
  /\ {in_init, failed, started} \subseteq BOOLEAN
  /\ Len(header) < Long

-----------------------------------------------------------------------------
(* What the whole stream says, however it is cut. *)

HeaderEnd(p) == p - 1 + HeaderLen(input.boxes[p])

Wrong(p) ==
  LET b == input.boxes[p]
  IN BadSize(b) \/ BadMoof(b) \/ (p = 1 /\ ~Opens(b))

\* The fragments that can be told, and the bytes before the first.
Moofs == {p \in DOMAIN input.boxes :
            /\ input.boxes[p].kind = "moof"
            /\ \A q \in DOMAIN input.boxes : q <= p => ~Wrong(q)}
BeforeMoofs == {n \in 1..input.len : \A p \in Moofs : n < p}
TrueTracks ==
  LET moovs == {p \in BeforeMoofs \cap DOMAIN input.boxes :
                  input.boxes[p].kind = "moov"}
  IN IF moovs = {} THEN NoTracks ELSE input.boxes[CHOOSE p \in moovs : TRUE].tracks

\* After n bytes, the box that has begun and is not complete.
Open(n) ==
  {p \in DOMAIN input.boxes :
     /\ p - 1 < n
     /\ n < HeaderEnd(p) \/ n < p - 1 + input.boxes[p].size}

-----------------------------------------------------------------------------
(* Properties. *)

Held == (IF moof = None THEN <<>> ELSE moof) \o header

\* push never loses, repeats or reorders a byte: what it has returned and what it
\* holds is what it was given, in the middle of a call, between calls and after
\* it has given up ("The concatenation of the returned pieces always equals
\* chunk, minus at most a box header held back ... and a moof held back").
PassThrough == DataOf(out) \o pending.data \o Held = Bytes(given, at)

\* Where the stream is cut into chunks makes no difference: between calls the
\* scanner is where the bytes it has seen put it, holds no more than a header or
\* a moof that is not complete, and has given up exactly if they contain the
\* header of a box that makes no sense.
CutFree ==
  pc = "idle" =>
    /\ failed = \E p \in DOMAIN input.boxes : Wrong(p) /\ HeaderEnd(p) <= end
    /\ IF failed \/ Open(end) = {}
         THEN /\ Held = <<>>
              /\ ~failed => body_left = 0
         ELSE \A p \in Open(end) :
                IF end < HeaderEnd(p)
                  THEN header = Bytes(p - 1, end) /\ moof = None /\ body_left = 0
                  ELSE /\ header = <<>>
                       /\ moof = IF input.boxes[p].kind = "moof"
                                   THEN Bytes(p - 1, end) ELSE None
                       /\ body_left = p - 1 + input.boxes[p].size - end

\* init_segment.
InitSegment == IF in_init \/ init = <<>> THEN None ELSE init

\* A late joiner is given all that precedes the first moof or nothing, and nothing
\* once the scanner has given up; the pieces say what belongs to it.
InitWhole ==
  pc = "idle" =>
    /\ InitSegment =
         IF failed \/ BeforeMoofs = {} \/ \A p \in Moofs : end < HeaderEnd(p)
           THEN None ELSE [n \in BeforeMoofs |-> n]
    /\ \A k \in DOMAIN out :
         IF out[k].kind = "init" THEN ToSet(out[k].data) \subseteq BeforeMoofs
         ELSE failed \/ ToSet(out[k].data) \cap BeforeMoofs = {}

\* Every moof begins a piece of its own that holds all of it and is marked as a
\* fragment, with the keyframe flag its samples have by the stream's own moov;
\* nothing else is marked.
Aligned ==
  pc = "idle" =>
    \A k \in DOMAIN out :
      LET d == out[k].data
      IN IF ToSet(d) \cap Moofs = {} THEN ~out[k].starts /\ ~out[k].key
         ELSE /\ ToSet(d) \cap Moofs = {d[1]}
              /\ out[k].starts
              /\ LET b == input.boxes[d[1]]
                 IN /\ Len(d) >= b.size
                    /\ out[k].key = KeyframeFragment(TrueTracks, b)

\* What a late joiner is given can be put together: the init segment whole, and
\* media from the start of a fragment that says truly whether it opens on a
\* keyframe.
Joinable == InitWhole /\ Aligned
=============================================================================
