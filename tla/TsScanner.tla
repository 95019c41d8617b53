------------------------------ MODULE TsScanner ------------------------------
(***************************************************************************)
(* ts::Scanner: finds the packets of an MPEG transport stream that arrives *)
(* in chunks cut anywhere, reads from PAT and PMT what the program carries *)
(* and tells which packets begin a video keyframe (src/src/ts.rs).         *)
(*                                                                         *)
(* A byte is its position in the stream; what a packet says is looked up   *)
(* at the position it begins at: its payload as part of a section, and     *)
(* what a PES says that begins there.  A scanner is a record and feed a         *)
(* function of it, since every call of feed is made under one lock.        *)
(*                                                                         *)
(* Of a section's bytes the table id and the length are a cell each, and   *)
(* so are every entry and the CRC.                                         *)
(***************************************************************************)
EXTENDS Integers, Sequences, SequencesExt

CONSTANTS PACKET,   \* the length of a packet
          None      \* Option::None

ASSUME PacketAssumption == PACKET \in Nat \ {0}

VARIABLE input      \* the stream that arrives: [len, syncs, packets]

\* The bytes after the first i, up to the j-th.
Bytes(i, j) == [n \in 1..(j - i) |-> i + n]

IsSync(b) == b \in input.syncs

\* What these bytes read as: a packet of the stream, or one without a payload; that
\* torn packets or junk read as a table or a PES is left out.
Garbage == [pid |-> None, pusi |-> FALSE, rai |-> FALSE, payload |-> None]
Packet(p) ==
  IF p = Bytes(p[1] - 1, p[1] - 1 + PACKET) /\ p[1] \in DOMAIN input.packets
    THEN input.packets[p[1]] ELSE Garbage

-----------------------------------------------------------------------------
(* Sections. *)

SectionHeader == 2
NoSection == [buf |-> <<>>, want |-> None]

\* The section bytes held once this payload has been looked at.
Gather(s, pusi, payload) ==
  IF ~pusi THEN [s EXCEPT !.buf = IF @ = <<>> THEN <<>> ELSE @ \o payload]
  ELSE IF 1 + payload[1] > Len(payload) THEN [s EXCEPT !.buf = <<>>]
  ELSE [buf |-> SubSeq(payload, 2 + payload[1], Len(payload)), want |-> None]

Measure(s) ==
  IF s.want = None /\ Len(s.buf) >= SectionHeader
    THEN [s EXCEPT !.want = SectionHeader + s.buf[2]] ELSE s

\* What is held then, and the section if it is complete.
Taken(held) ==
  IF held.want = None \/ Len(held.buf) < held.want
    THEN [held |-> held, done |-> None]
    ELSE [held |-> NoSection, done |-> SubSeq(held.buf, 1, held.want)]

\* Section::feed.
SectionFeed(s, pusi, payload) == Taken(Measure(Gather(s, pusi, payload)))

\* The entries, between header and CRC.
Entries(section) == SubSeq(section, SectionHeader + 1, Len(section) - 1)

-----------------------------------------------------------------------------
(* What PAT and PMT say. *)

Video(codec, name) == [kind |-> "video", codec |-> codec, name |-> name]
Audio(name) == [kind |-> "audio", name |-> name]
Neither == [kind |-> "other"]

\* Audio whose name a frame header has to tell, or nothing does.
Unnamed == {"layer", "unknown"}

\* What a descriptor settles that private data is: by its tag or, for a
\* registration descriptor (5), by the format it names.
Means(d) ==
  CASE d.tag = 106 \/ (d.tag = 5 /\ d.id = "AC-3") -> Audio("ac3")
    [] d.tag = 122 \/ (d.tag = 5 /\ d.id = "EAC3") -> Audio("eac3")
    [] d.tag = 123 \/ (d.tag = 5 /\ d.id = "DTS") -> Audio("dts")
    [] d.tag = 5 /\ d.id = "Opus" -> Audio("opus")
    [] d.tag = 5 /\ d.id = "HEVC" -> Video("hevc", "hevc")
    [] d.tag \in {86, 89} -> Neither
    [] OTHER -> None

Private(es_info) ==
  LET k == SelectInSeq(es_info, LAMBDA d : Means(d) # None)
  IN IF k = 0 THEN Audio("unknown") ELSE Means(es_info[k])

Classify(e) ==
  CASE e.type = 1 -> Video("mpeg2", "mpeg1video")
    [] e.type = 2 -> Video("mpeg2", "mpeg2video")
    [] e.type = 16 -> Video("other", "mpeg4")
    [] e.type = 27 -> Video("h264", "h264")
    [] e.type = 36 -> Video("hevc", "hevc")
    [] e.type = 234 -> Video("other", "vc1")
    [] e.type \in {3, 4} -> Audio("layer")
    [] e.type \in {15, 28} -> Audio("aac")
    [] e.type = 17 -> Audio("aac_latm")
    [] e.type = 129 -> Audio("ac3")
    [] e.type = 135 -> Audio("eac3")
    [] e.type \in {130, 133, 138} -> Audio("dts")
    [] e.type = 6 -> Private(e.es_info)
    [] OTHER -> Neither

\* parse_pat: the first program that is not the network's; later PATs are not
\* looked at.
ParsePat(s, section) ==
  LET entries == Entries(section)
      k == SelectInSeq(entries, LAMBDA e : e.program # 0)
  IN IF section[1] # 0 \/ s.pmt_pid # None \/ k = 0 THEN s
     ELSE [s EXCEPT !.pmt_pid = entries[k].pid]

\* The first entry of a kind, with its pid, or what there was.
FirstOf(kind, entries, was) ==
  LET k == SelectInSeq(entries, LAMBDA e : Classify(e).kind = kind)
  IN IF was # None \/ k = 0 THEN was
     ELSE [pid |-> entries[k].pid, is |-> Classify(entries[k])]

\* A bug: a later PMT is read too.
ParseEveryPmt(s, section) ==
  IF section[1] # 2 \/ Len(section) <= SectionHeader THEN s
  ELSE [s EXCEPT !.video = FirstOf("video", Entries(section), None),
                 !.audio = FirstOf("audio", Entries(section), None),
                 !.pmt_seen = TRUE]

\* parse_pmt: first video and first audio of the first PMT.
ParsePmt(s, section) ==
  IF section[1] # 2 \/ Len(section) <= SectionHeader \/ s.pmt_seen THEN s
  ELSE [s EXCEPT !.video = FirstOf("video", Entries(section), @),
                 !.audio = FirstOf("audio", Entries(section), @),
                 !.pmt_seen = TRUE]

\* Scanner::program.
Program(s) ==
  IF ~s.pmt_seen \/ (s.audio # None /\ s.audio.is.name \in Unnamed) THEN None
  ELSE [video |-> IF s.video = None THEN None ELSE s.video.is.name,
        audio |-> IF s.audio = None THEN None ELSE s.audio.is.name]

-----------------------------------------------------------------------------
(* What the first packet of a PES says. *)

\* mpeg_audio_layer: the first valid frame header.
ValidFrame(h) ==
  /\ h.version # 1 /\ h.bitrate # 15 /\ h.rate # 3
  /\ h.layer \in 1..3
MpegAudioLayer(pes) ==
  LET k == IF pes.es = None THEN 0 ELSE SelectInSeq(pes.es, ValidFrame)
  IN IF k = 0 THEN "layer" ELSE <<"mp3", "mp2", "mp1">>[pes.es[k].layer]

\* What a NAL unit or a start code says of the access unit.
Verdict(codec, n) ==
  CASE codec = "h264" /\ n.type \in {5, 7} -> "key"
    [] codec = "h264" /\ n.type \in 1..4 -> "not"
    [] codec = "hevc" /\ n.type \in (16..21) \cup {32, 33} -> "key"
    [] codec = "hevc" /\ n.type \in 0..9 -> "not"
    [] codec = "mpeg2" /\ n.type \in {179, 184} -> "key"
    [] codec = "mpeg2" /\ n.type = 0 -> IF n.coding = 1 THEN "key" ELSE "not"
    [] OTHER -> "open"

\* keyframe: the first unit that settles it; the flag if none does.
IsKeyframe(codec, pes, rai) ==
  LET k == IF pes.es = None THEN 0
           ELSE SelectInSeq(pes.es, LAMBDA n : Verdict(codec, n) # "open")
  IN IF k = 0 THEN rai ELSE Verdict(codec, pes.es[k]) = "key"

-----------------------------------------------------------------------------
(* packet: the scanner after one packet, and whether it begins a keyframe. *)

Only(s) == [s |-> s, key |-> FALSE]

AfterPat(s, fed) ==
  IF fed.done = None THEN [s EXCEPT !.pat = fed.held]
  ELSE ParsePat([s EXCEPT !.pat = fed.held], fed.done)
PatPacket(s, p) == Only(AfterPat(s, SectionFeed(s.pat, p.pusi, p.payload)))

AfterPmt(s, fed) ==
  IF fed.done = None THEN [s EXCEPT !.pmt = fed.held]
  ELSE ParsePmt([s EXCEPT !.pmt = fed.held], fed.done)
PmtPacket(s, p) == Only(AfterPmt(s, SectionFeed(s.pmt, p.pusi, p.payload)))

AudioPacket(s, p) ==
  Only([s EXCEPT !.audio.is.name = MpegAudioLayer(p.pes)])

VideoPacket(s, p) ==
  [s |-> IF p.pes.pts = None THEN s
         ELSE [s EXCEPT !.latest_video_pts = p.pes.pts],
   key |-> IsKeyframe(s.video.is.codec, p.pes, p.rai)]

OnPacket(s, p) ==
  CASE p.payload = None -> Only(s)
    [] p.payload # None /\ p.pid = 0 -> PatPacket(s, p)
    [] p.payload # None /\ p.pid # 0 /\ p.pid = s.pmt_pid -> PmtPacket(s, p)
    [] OTHER ->
         IF ~p.pusi THEN Only(s)
         ELSE IF s.audio # None /\ s.audio.pid = p.pid /\ s.audio.is.name = "layer"
         THEN AudioPacket(s, p)
         ELSE IF s.video # None /\ s.video.pid = p.pid
         THEN VideoPacket(s, p)
         ELSE Only(s)

-----------------------------------------------------------------------------
(* feed. *)

\* Scanner::new.  handled is a history: the packets taken for one.
NewScanner ==
  [carry |-> <<>>, pos |-> 0, pat |-> NoSection, pmt |-> NoSection,
   pmt_pid |-> None, pmt_seen |-> FALSE, video |-> None, audio |-> None,
   latest_video_pts |-> None, handled |-> {}]

\* A packet may begin after the first i bytes of buf: a sync byte, and another
\* one packet later unless that is past the end.
Synced(buf, i) ==
  /\ IsSync(buf[i + 1])
  /\ i + PACKET < Len(buf) => IsSync(buf[i + PACKET + 1])

\* A bug: the search for a packet goes on a packet later.
WalkByPackets(buf, from, stop) ==
  LET walk[i \in 0..(Len(buf) + PACKET)] ==
        IF i >= stop \/ i + PACKET > Len(buf) THEN <<i>>
        ELSE IF Synced(buf, i) THEN <<i>> \o walk[i + PACKET]
        ELSE walk[i + PACKET]
  IN walk[from]

\* A bug: the last packet of a buffer is left for the next call.
WalkShort(buf, from, stop) ==
  LET walk[i \in 0..(Len(buf) + PACKET)] ==
        IF i >= stop \/ i + PACKET >= Len(buf) THEN <<i>>
        ELSE IF Synced(buf, i) THEN <<i>> \o walk[i + PACKET]
        ELSE walk[i + 1]
  IN walk[from]

\* scan's loop: where the packets begin, and last where it ended.
Walk(buf, from, stop) ==
  LET walk[i \in 0..(Len(buf) + PACKET)] ==
        IF i >= stop \/ i + PACKET > Len(buf) THEN <<i>>
        ELSE IF Synced(buf, i) THEN <<i>> \o walk[i + PACKET]
        ELSE walk[i + 1]
  IN walk[from]

\* What is known after a packet p that begins at the byte b, off bytes in.
Noted(acc, b, off, p, r) ==
  [acc EXCEPT !.s = [r.s EXCEPT !.handled = @ \cup {b}],
              !.found = IF r.key
                          THEN Append(@, [at |-> off, pts |-> p.pes.pts])
                          ELSE @]
WithPacket(acc, b, off, p) == Noted(acc, b, off, p, OnPacket(acc.s, p))

\* scan.
ScanAt(s, buf, base, walk) ==
  FoldLeft(LAMBDA acc, i :
             WithPacket(acc, buf[i + 1], base + i, Packet(SubSeq(buf, i + 1, i + PACKET))),
           [s |-> s, found |-> <<>>, at |-> Last(walk)], Front(walk))
Scan(s, buf, from, stop, base) == ScanAt(s, buf, base, Walk(buf, from, stop))

\* The rest of buf is carried over.
Carried(buf, base, found, r) ==
  [s |-> [r.s EXCEPT !.carry = SubSeq(buf, r.at + 1, Len(buf)), !.pos = base + r.at],
   found |-> found \o r.found]

\* What is not in the carry is scanned in place.
ScanData(s, data, from, base, found) ==
  Carried(data, base, found, Scan(s, data, from, Len(data), base))

\* A bug: what the joint covered of data is scanned again.
AcrossTwice(s, data, joint, j) ==
  ScanData(j.s, data, 0, s.pos + Len(s.carry), j.found)

\* After the packets that begin in the carry: the rest of data, or all of it is
\* carried if it is too short for the last of them.
Across(s, data, joint, j) ==
  IF j.at < Len(s.carry) THEN Carried(joint, s.pos, <<>>, j)
  ELSE ScanData(j.s, data, j.at - Len(s.carry), s.pos + Len(s.carry), j.found)

Joined(s, data, joint) ==
  Across(s, data, joint, Scan(s, joint, 0, Len(s.carry), s.pos))

\* Scanner::feed: what it becomes, and the keyframes it returns.
Feed(s, data) ==
  IF s.carry = <<>> THEN ScanData(s, data, 0, s.pos, <<>>)
  ELSE Joined(s, data,
         s.carry \o SubSeq(data, 1, IF Len(data) < PACKET THEN Len(data) ELSE PACKET))
=============================================================================
