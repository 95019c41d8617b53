---------------------------- MODULE MCMp4Scanner ----------------------------
(***************************************************************************)
(* Streams for Mp4Scanner: every sequence of up to MaxTail boxes of a      *)
(* pool after each of a few beginnings, and one box that makes no sense.   *)
(***************************************************************************)
EXTENDS Mp4Scanner

CONSTANTS MaxTail

Plainly(kind, size) == [kind |-> kind, long |-> FALSE, size |-> size]

\* Track 1 is video, track 2 audio.
Moov(video, trex) ==
  [kind |-> "moov", long |-> FALSE, size |-> 4,
   tracks |-> [video |-> video, trex |-> trex]]
MCMoov == Moov({1}, [t \in {1, 2} |-> IF t = 1 THEN "nonsync" ELSE "sync"])
AudioMoov == Moov({}, [t \in {2} |-> "sync"])

Moof(long, size, trafs) ==
  [kind |-> "moof", long |-> long, size |-> size, trafs |-> trafs]
Traf(track, tfhd, trun) == [track |-> track, tfhd |-> tfhd, trun |-> trun]

Audio == Traf(2, None, None)
Key == Moof(FALSE, 5, {Audio, Traf(1, "nonsync", "sync")})
NoKey == Moof(TRUE, 6, {Audio, Traf(1, None, None)})
Bare == Moof(FALSE, 3, {Traf(1, "sync", None)})
AudioOnly == Moof(FALSE, 4, {Audio})

Good == {Key, NoKey, Bare, AudioOnly,
         Plainly("mdat", 5), [kind |-> "mdat", long |-> TRUE, size |-> 5]}
Bad == {Plainly("mdat", 0), Plainly("free", 2),
        [kind |-> "mdat", long |-> TRUE, size |-> 4], Moof(FALSE, 8, {Audio})}

Heads == {<<Plainly("ftyp", 4), MCMoov>>, <<Plainly("styp", 3), AudioMoov>>,
          <<Key>>, <<Plainly("junk", 4)>>}

Sequences(S, n) == UNION {[1..m -> S] : m \in 0..n}

\* A box whose size denies its own header is followed by a byte of anything.
Span(b) == IF BadSize(b) THEN HeaderLen(b) + 1 ELSE b.size

\* The boxes one after another.
Layout(bs) ==
  LET from[k \in 1..(Len(bs) + 1)] ==
        IF k = 1 THEN 1 ELSE from[k - 1] + Span(bs[k - 1])
  IN [boxes |-> [p \in {from[k] : k \in DOMAIN bs} |->
                   bs[CHOOSE k \in DOMAIN bs : from[k] = p]],
      len |-> from[Len(bs) + 1] - 1]

MCInputs ==
  {Layout(h \o t \o b) : h \in Heads, t \in Sequences(Good, MaxTail),
                         b \in Sequences(Bad, 1)}
=============================================================================
