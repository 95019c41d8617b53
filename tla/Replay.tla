------------------------------- MODULE Replay -------------------------------
(***************************************************************************)
(* The replay window of one pull (src/src/replay.rs): the last chunks from *)
(* the engine, the keyframes the TS scanner has found in them, what a new  *)
(* encoder is primed with and how far behind the live edge that is.        *)
(*                                                                         *)
(* push runs under the window's lock and is one action.  snapshot and the  *)
(* reports change nothing: they are operators, which the properties call   *)
(* in every state.                                                         *)
(***************************************************************************)
EXTENDS TsScanner

CONSTANTS Inputs,     \* the streams an engine may send
          Sizes,      \* the lengths of the chunks it is read in
          MaxAge,     \* max_age of the window
          MaxBytes,   \* its max_bytes
          TailAge,    \* the Duration of Policy::Tail
          Period,     \* the period of the PTS clock, 2^33 ticks
          MaxSaneGap, \* MAX_SANE_GAP
          MaxTime     \* bound on the clock

ASSUME WindowAssumption ==
  /\ Sizes \subseteq Nat \ {0}
  /\ {MaxAge, MaxBytes, TailAge, MaxTime} \subseteq Nat
ASSUME ClockAssumption == Period \in Nat /\ MaxSaneGap \in 0..(Period - 1) /\ None \notin Nat
\* A packet begins with a sync byte and does not overlap another.
ASSUME InputAssumption ==
  \A i \in Inputs :
    /\ i.len \in Nat /\ DOMAIN i.packets \subseteq (Nat \ {0}) \cap i.syncs
    /\ \A p, q \in DOMAIN i.packets : p < q => p + PACKET <= q

\* A packet's timestamp is what the clock shows at the time of its frame.
ASSUME TimeAssumption ==
  \A i \in Inputs : \A p \in DOMAIN i.packets :
    LET k == i.packets[p]
    IN /\ k.pid \in Nat /\ k.time \in Nat \cup {None}
       /\ k.pes.pts = IF k.time = None THEN None ELSE k.time % Period

VARIABLES
  now,            \* the clock of Instant::now
  chunks,         \* Replay::chunks
  bytes,          \* Replay::bytes
  head,           \* Replay::head
  keyframes,      \* Replay::keyframes
  scanner,        \* Replay::scanner
  latest_pts_at,  \* Replay::latest_pts_at
  found           \* history: every keyframe the scanner has returned

vars == <<input, now, chunks, bytes, head, keyframes, scanner, latest_pts_at,
          found>>

Init ==
  /\ input \in Inputs
  /\ now = 0
  /\ chunks = <<>> /\ bytes = 0 /\ head = 0
  /\ keyframes = <<>> /\ scanner = NewScanner /\ latest_pts_at = None
  /\ found = <<>>

-----------------------------------------------------------------------------
(* The window. *)

DataOf(cs) == FlattenSeq([k \in DOMAIN cs |-> cs[k].data])

Floor(cs, end) == IF cs = <<>> THEN end ELSE cs[1].start

\* Whether trim stops before it drops the oldest of cs, which hold n bytes.
Fits(cs, n) ==
  Len(cs) <= 1 \/ (n <= MaxBytes /\ now - cs[1].at <= MaxAge)

\* A bug: only the byte cap is heeded.
TrimmedByBytes(cs, n) ==
  LET k == CHOOSE k \in 0..(Len(cs) - 1) :
             LET rest == SubSeq(cs, k + 1, Len(cs))
             IN /\ Len(rest) <= 1 \/ Len(DataOf(rest)) <= MaxBytes
                /\ \A j \in 0..(k - 1) :
                     Len(DataOf(SubSeq(cs, j + 1, Len(cs)))) > MaxBytes
  IN SubSeq(cs, k + 1, Len(cs))

\* trim: the chunks that remain of cs, which hold n bytes.
Trimmed(cs, n) ==
  LET Left(k) == n - Len(DataOf(SubSeq(cs, 1, k)))
      Stops(k) == Fits(SubSeq(cs, k + 1, Len(cs)), Left(k))
      dropped == CHOOSE k \in 0..(Len(cs) - 1) :
                   Stops(k) /\ \A j \in 0..(k - 1) : ~Stops(j)
  IN SubSeq(cs, dropped + 1, Len(cs))

\* A bug: a keyframe is kept while any of its packet is.
KeptLoosely(kfs, floor) == SelectSeq(kfs, LAMBDA k : k.at + PACKET > floor)

\* The keyframes left once those before the floor are popped off the front.
Kept(kfs, floor) ==
  LET k == SelectInSeq(kfs, LAMBDA f : f.at >= floor)
  IN IF k = 0 THEN <<>> ELSE SubSeq(kfs, k, Len(kfs))

\* What trim leaves of the window: left of the chunks cs, which held n bytes.
Store(cs, n, left, fed) ==
  /\ chunks' = left
  /\ bytes' = n - (Len(DataOf(cs)) - Len(DataOf(left)))
  /\ keyframes' = Kept(keyframes \o fed.found, Floor(left, head'))

\* push: the next n bytes arrive.
Push(n) ==
  /\ head + n <= input.len
  /\ head' = head + n
  /\ \E fed \in {Feed(scanner, Bytes(head, head + n))},
        grown \in {Append(chunks, [at |-> now, start |-> head, data |-> Bytes(head, head + n)])} :
       /\ scanner' = fed.s
       /\ found' = found \o fed.found
       /\ latest_pts_at' = IF fed.s.latest_video_pts # scanner.latest_video_pts
                             THEN now ELSE latest_pts_at
       /\ Store(grown, bytes + n, Trimmed(grown, bytes + n), fed)
  /\ UNCHANGED <<input, now>>

Tick ==
  /\ now < MaxTime
  /\ now' = now + 1
  /\ UNCHANGED <<input, chunks, bytes, head, keyframes, scanner, latest_pts_at,
                 found>>

Next == Tick \/ \E n \in Sizes : Push(n)

Spec == Init /\ [][Next]_vars

-----------------------------------------------------------------------------
(* What a new encoder is primed with. *)

\* bytes_from: everything from the absolute offset off on.
BytesFrom(off) ==
  LET cut == [k \in DOMAIN chunks |->
                LET c == chunks[k]
                IN [data |-> SubSeq(c.data, 1 + (IF off > c.start THEN off - c.start ELSE 0),
                                    Len(c.data))]]
  IN DataOf(cut)

\* A bug: the window is taken as it is.
SyncTrimNot(data) == data

\* sync_trim: from the first byte that is convincing as a packet's.
SyncTrim(data) ==
  LET head_len == IF Len(data) < 2 * PACKET THEN Len(data) ELSE 2 * PACKET
      starts == {i \in 0..(PACKET - 1) :
                   i < head_len /\ Synced(SubSeq(data, 1, head_len), i)}
  IN IF starts = {} THEN data
     ELSE SubSeq(data, 1 + CHOOSE i \in starts : \A j \in starts : i <= j, Len(data))

\* snapshot(Policy::FromKeyframe).
FromKeyframe ==
  IF keyframes = <<>> THEN SyncTrim(BytesFrom(Floor(chunks, head)))
  ELSE BytesFrom(keyframes[Len(keyframes)].at)

\* Where snapshot(Policy::Tail) starts looking.
TailStart ==
  LET k == SelectInSeq(chunks, LAMBDA c : chunks[Len(chunks)].at - c.at <= TailAge)
  IN IF k = 0 THEN Floor(chunks, head) ELSE chunks[k].start

\* snapshot(Policy::Tail).
TailPrimed == SyncTrim(BytesFrom(TailStart))

-----------------------------------------------------------------------------
(* Reports. *)

\* A bug: the clock is taken not to wrap.
PtsGapUnwrapped(from, to) ==
  IF to >= from /\ to - from <= MaxSaneGap THEN to - from ELSE None

\* pts_gap.
PtsGap(from, to) ==
  LET d == (to - from) % Period
  IN IF d <= MaxSaneGap THEN d ELSE None

\* newest_keyframe_lag.
NewestKeyframeLag ==
  LET latest == scanner.latest_video_pts
      kf == keyframes[Len(keyframes)].pts
  IN IF latest = None \/ keyframes = <<>> THEN None
     ELSE IF kf = None THEN None
     ELSE PtsGap(kf, latest)

-----------------------------------------------------------------------------
TypeOK ==
  /\ now \in 0..MaxTime /\ head \in 0..input.len
  /\ \A k \in DOMAIN chunks : chunks[k].data # <<>> /\ chunks[k].at \in 0..now
  /\ latest_pts_at \in 0..now \cup {None}
  /\ (latest_pts_at = None) = (scanner.latest_video_pts = None)
  /\ Len(scanner.carry) < PACKET

\* Where the real packets begin, as offsets; a clean stream has nothing after
\* a torn first packet but them and no sync byte anywhere else.
Starts == {p - 1 : p \in DOMAIN input.packets}
Clean ==
  /\ input.syncs = DOMAIN input.packets
  /\ \A o \in Starts : o + PACKET >= input.len \/ o + PACKET \in Starts

\* However a clean stream is cut into chunks, the scanner is where one call
\* with all of it would have put it: the same keyframes, clock, tables, program
\* and carry (the test chunking_never_changes_what_is_found).
CutFree ==
  Clean =>
    [s |-> scanner, found |-> found] = Feed(NewScanner, Bytes(0, head))

\* Whatever came before, and wherever a stray sync byte was trusted because the
\* chunk ended behind it, the scanner is in step again at the first packet that
\* another one follows and no stray sync byte precedes by less than a packet, and it
\* stays in step from packet to packet (Scanner::feed "resynchronises").
Recovers ==
  \A o \in Starts :
    /\ o + PACKET \in Starts /\ o + PACKET < head
    /\ \/ o - PACKET + 1 \in scanner.handled
       \/ \A x \in (o - PACKET + 1)..(o - 1) : ~IsSync(x + 1)
    => o + 1 \in scanner.handled

\* The scanner keeps in step with the stream: chunks do not throw it out, and what
\* does is left behind.
InStep == CutFree /\ Recovers

\* What identify waits for does not change under its reader once it is settled,
\* and neither does the program of an encoder started later (Scanner::program:
\* "A PMT repeats several times a second; the first one settles it").
Settled == [][Program(scanner) # None => Program(scanner)' = Program(scanner)]_vars

\* The window is the stream's newest bytes without a gap, one chunk at least and
\* no more than both bounds allow, and the byte count is true after any number of
\* pushes and trims (Replay::new).
Bounded ==
  /\ DataOf(chunks) = Bytes(Floor(chunks, head), head)
  /\ bytes = Len(DataOf(chunks))
  /\ Len(chunks) > 1 =>
       bytes <= MaxBytes /\ chunks[Len(chunks)].at - chunks[1].at <= MaxAge

\* An encoder primed from a keyframe is given the newest one found, whole from
\* the first byte of its packet although chunks are cut anywhere and trimmed, and
\* all that followed; a keyframe of which any byte has left is not used.
FromKeyframeWhole ==
  LET inside == {k \in DOMAIN found : found[k].at >= Floor(chunks, head)}
  IN IF inside = {} THEN keyframes = <<>>
     ELSE LET newest == found[Len(found)].at
          IN FromKeyframe = Bytes(newest, head) /\ (Clean => newest \in Starts)

\* The first packet boundary of a clean stream at or after o, if the trim may
\* look that far.
Boundary(o) == {b \in Starts : o <= b /\ b < o + PACKET /\ b < head}

\* What is primed without a keyframe begins with a packet and ends at the live
\* edge, missing no whole packet of what it was taken from; the tail of it has
\* arrived within TailAge of the newest chunk (Policy::Tail).
TrimmedToPacket ==
  Clean =>
    /\ \A b \in Boundary(TailStart) : TailPrimed = Bytes(b, head)
    /\ keyframes = <<>> =>
         \A b \in Boundary(Floor(chunks, head)) : FromKeyframe = Bytes(b, head)
    /\ \A k \in DOMAIN chunks :
         (chunks[k].start >= TailStart)
           = (chunks[Len(chunks)].at - chunks[k].at <= TailAge)

\* What a new encoder is primed with, by either policy, starts where a packet does
\* and is the live window from there.
Primed == FromKeyframeWhole /\ TrimmedToPacket

\* The frames whose timestamps have been noted, and the times behind those.
TimeOf(o) == input.packets[o + 1].time
LatestVideo ==
  {o \in Starts :
     LET p == input.packets[o + 1]
     IN /\ o + 1 \in scanner.handled
        /\ scanner.video # None /\ p.pid = scanner.video.pid
        /\ p.pusi /\ p.payload # None /\ p.pes.pts # None}

\* What a clock that wraps can tell from a gap it may report.
Tellable == (MaxSaneGap - Period + 1)..(Period - 1)

\* The lag reported for a new encoder is the content between its keyframe and the
\* live edge, across a wrap of the PTS clock too, and nothing is reported where
\* the newest frame precedes the keyframe or the gap is beyond MAX_SANE_GAP.
LagTrue ==
  Clean /\ keyframes # <<>> /\ scanner.latest_video_pts # None =>
    LET kf == keyframes[Len(keyframes)]
        edge == CHOOSE o \in LatestVideo : \A p \in LatestVideo : p <= o
        gap == TimeOf(edge) - TimeOf(kf.at)
    IN IF kf.pts = None THEN NewestKeyframeLag = None
       ELSE gap \in Tellable =>
              NewestKeyframeLag = IF gap \in 0..MaxSaneGap THEN gap ELSE None
=============================================================================
