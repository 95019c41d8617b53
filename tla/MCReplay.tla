------------------------------ MODULE MCReplay ------------------------------
(***************************************************************************)
(* Streams for Replay: torn beginnings, tables in one packet or two,       *)
(* repeated and misleading ones, video and audio of several codecs, a PTS  *)
(* clock that wraps and frames out of order, and stray sync bytes.         *)
(***************************************************************************)
EXTENDS Replay

\* One packet; a PES says nothing of a section, and the other way round.
Of(pid, pusi, rai, payload, pes, time) ==
  [pid |-> pid, pusi |-> pusi, rai |-> rai, payload |-> payload, pes |-> pes, time |-> time]
NoPes == [pts |-> None, es |-> None]
NoSections == <<0>>

Section(table, entries) == <<table, Len(entries) + 1>> \o entries \o <<0>>
Begin(pid, part) == Of(pid, TRUE, FALSE, <<0>> \o part, NoPes, None)
Continue(pid, part) == Of(pid, FALSE, FALSE, part, NoPes, None)

Es(type, pid) == [type |-> type, pid |-> pid, es_info |-> <<>>]
Private6(pid, es_info) == [type |-> 6, pid |-> pid, es_info |-> es_info]

Pat(pid) == Begin(0, Section(0, <<[program |-> 0, pid |-> 8], [program |-> 1, pid |-> pid]>>))
Pmt(es) == Begin(1, Section(2, es))
\* A section in two packets, cut after n cells.
Halves(es, n) ==
  LET s == Section(2, es)
  IN <<Begin(1, SubSeq(s, 1, n)), Continue(1, SubSeq(s, n + 1, Len(s)))>>

\* The first packet of a video PES; time is what its PTS was wrapped from.
Pes(rai, time, es) ==
  Of(2, TRUE, rai, NoSections,
     [pts |-> IF time = None THEN None ELSE time % Period, es |-> es], time)
Nal(type) == [type |-> type, coding |-> 0]
H264Key(time) == Pes(FALSE, time, <<Nal(9), Nal(7), Nal(5)>>)
H264Slice(time) == Pes(TRUE, time, <<Nal(9), Nal(1)>>)
More == Of(2, FALSE, FALSE, NoSections, NoPes, None)
Frame(version, layer) ==
  [version |-> version, bitrate |-> 5, rate |-> 0, layer |-> layer]
AudioPes(es) == Of(3, TRUE, FALSE, NoSections, [pts |-> None, es |-> es], None)
Stuffing == Of(2, FALSE, TRUE, None, NoPes, None)

H264 == <<Es(15, 3), Es(27, 2)>>

Junk == [sync |-> FALSE]
Stray == [sync |-> TRUE]

\* The items one after another: a packet, or a byte that is a stray sync or not.
Layout(items) ==
  LET IsByte(e) == "sync" \in DOMAIN e
      Size(e) == IF IsByte(e) THEN 1 ELSE PACKET
      from[k \in 1..(Len(items) + 1)] ==
        IF k = 1 THEN 1 ELSE from[k - 1] + Size(items[k - 1])
      packets == {k \in DOMAIN items : ~IsByte(items[k])}
  IN [len |-> from[Len(items) + 1] - 1,
      syncs |-> {from[k] : k \in packets \cup {j \in DOMAIN items : items[j] = Stray}},
      packets |-> [p \in {from[k] : k \in packets} |->
                     items[CHOOSE k \in packets : from[k] = p]]]

Torn == <<Junk, Junk>>

MCInputs == {Layout(items) : items \in {
  \* A torn packet, a PMT in two, a keyframe before the tables, a second PMT.
  Torn \o <<H264Key(0), Pat(1)>> \o Halves(H264, 3)
    \o <<H264Key(2), More, H264Slice(3), Pmt(<<Es(3, 3)>>), H264Key(5)>>,
  \* The clock wraps; the newest frame is displayed before the keyframe; a stall.
  <<Pat(1), Pmt(H264), H264Key(Period - 1), H264Slice(Period + 1), H264Key(Period + 3),
    H264Slice(Period + 2), H264Slice(Period + 9)>>,
  \* MPEG audio that a frame header names, MPEG-2 video, a keyframe without PTS.
  <<Pat(1)>> \o Halves(<<Es(2, 2), Es(4, 3), Es(27, 4)>>, 1)
    \o <<AudioPes(<<Frame(1, 2), Frame(3, 2)>>), Pes(FALSE, None, <<Nal(179)>>), Pat(5),
         Pes(FALSE, 1, <<[type |-> 0, coding |-> 2]>>)>>,
  \* HEVC by registration, private audio, units that settle nothing.
  <<Continue(0, <<1>>), Pat(1),
    Pmt(<<Private6(5, <<[tag |-> 86, id |-> None]>>),
          Private6(2, <<[tag |-> 9, id |-> None], [tag |-> 5, id |-> "HEVC"]>>),
          Private6(3, <<[tag |-> 122, id |-> None]>>)>>),
    Pes(TRUE, 4, <<Nal(35)>>), Stuffing, Pes(TRUE, 5, <<Nal(1)>>), Pes(FALSE, 6, None)>>,
  \* Stray sync bytes before, between and after runs of packets.
  <<Junk, Stray, Junk, Pat(1), Pmt(H264), H264Key(1), More, Stray,
    H264Key(2), Junk, Stray, H264Key(3), H264Key(4), More>>}}
=============================================================================
