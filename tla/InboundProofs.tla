---------------------------- MODULE InboundProofs ----------------------------
(***************************************************************************)
(* Proofs about what else comes in over sockets and pipes.                 *)
(*                                                                         *)
(* RequestHead, for any requests and limits: who gets through is who       *)
(* deserves to.                                                            *)
(*                                                                         *)
(* EngineClient, for any answers: a session and statistics come from whole *)
(* answers only, and what is read of an answer is its body's own bytes.    *)
(*                                                                         *)
(* Probe, for any preroll, pipes and outputs: its types.                   *)
(*                                                                         *)
(* These and Replay are together in MCInbound, the specification that TLC  *)
(* runs.                                                                   *)
(***************************************************************************)
EXTENDS MCInbound, ReplayProofs, FiniteSetTheorems

-----------------------------------------------------------------------------
(* RequestHead: how much some lines are. *)

\* f gives the size of the first k lines, for every k up to n.
Measures(f, lines, n) ==
  f = [k \in 0..n |-> IF k = 0 THEN 0 ELSE f[k - 1] + lines[k].len]

LEMMA MeasuresExists ==
  ASSUME NEW lines
  PROVE  \A n \in Nat : \E f : Measures(f, lines, n)
<1> DEFINE T == {n \in Nat : \E f : Measures(f, lines, n)}
<1>1. 0 \in T
  <2> DEFINE f == [k \in 0..0 |-> 0]
  <2>1. Measures(f, lines, 0)
    BY DEF Measures
  <2> QED  BY <2>1
<1>2. ASSUME NEW n \in Nat, n \in T
      PROVE  n + 1 \in T
  <2>1. PICK f : Measures(f, lines, n)
    BY <1>2
  <2>2. f = [k \in 0..n |-> IF k = 0 THEN 0 ELSE f[k - 1] + lines[k].len]
    BY <2>1 DEF Measures
  <2> DEFINE g == [k \in 0..(n + 1) |-> IF k = n + 1 THEN f[n] + lines[n + 1].len ELSE f[k]]
             h == [k \in 0..(n + 1) |-> IF k = 0 THEN 0 ELSE g[k - 1] + lines[k].len]
  <2>3. ASSUME NEW k \in 0..(n + 1)
        PROVE  g[k] = h[k]
    <3>1. CASE k = n + 1
      BY <3>1
    <3>2. CASE k # n + 1
      <4>1. k \in 0..n /\ (k # 0 => k - 1 \in 0..n /\ k - 1 # n + 1)
        BY <3>2
      <4>2. f[k] = IF k = 0 THEN 0 ELSE f[k - 1] + lines[k].len
        BY <2>2, <4>1
      <4> QED  BY <3>2, <4>1, <4>2
    <3> QED  BY <3>1, <3>2
  <2>4. g = h
    BY <2>3
  <2>5. Measures(g, lines, n + 1)
    BY <2>4 DEF Measures
  <2> QED  BY <2>5
<1> HIDE DEF T
<1>3. \A n \in Nat : n \in T
  BY <1>1, <1>2, SetInduction
<1> QED  BY <1>3 DEF T

LEMMA SizeSteps ==
  ASSUME NEW lines \in Seq(Lines)
  PROVE  /\ Len(lines) \in Nat /\ SizeOf(lines, 0) = 0
         /\ \A k \in 1..Len(lines) :
              lines[k] \in Lines /\ SizeOf(lines, k) = SizeOf(lines, k - 1) + lines[k].len
<1> DEFINE f == CHOOSE g : Measures(g, lines, Len(lines))
<1>1. Len(lines) \in Nat /\ \A k \in 1..Len(lines) : lines[k] \in Lines
  BY LenProperties, ElementOfSeq
<1>2. Measures(f, lines, Len(lines))
  BY <1>1, MeasuresExists
<1>3. \A n : SizeOf(lines, n) = f[n]
  BY DEF SizeOf, Measures
<1> HIDE DEF f
<1>4. f = [k \in 0..Len(lines) |-> IF k = 0 THEN 0 ELSE f[k - 1] + lines[k].len]
  BY <1>2 DEF Measures
<1>5. f[0] = 0 /\ \A k \in 1..Len(lines) : f[k] = f[k - 1] + lines[k].len
  <2>1. 0 \in 0..Len(lines) /\ \A k \in 1..Len(lines) : k \in 0..Len(lines) /\ k # 0
    BY <1>1
  <2> QED  BY <1>4, <2>1
<1> QED  BY <1>1, <1>3, <1>5

LEMMA SizeTyped ==
  ASSUME NEW lines \in Seq(Lines)
  PROVE  \A k \in 0..Len(lines) : SizeOf(lines, k) \in Nat
<1> DEFINE T == {k \in Nat : k <= Len(lines) => SizeOf(lines, k) \in Nat}
<1>1. 0 \in T
  BY SizeSteps
<1>2. ASSUME NEW k \in Nat, k \in T
      PROVE  k + 1 \in T
  <2>1. CASE k + 1 <= Len(lines)
    <3>1. k <= Len(lines) /\ k + 1 \in 1..Len(lines) /\ (k + 1) - 1 = k
      BY <2>1, SizeSteps
    <3>2. SizeOf(lines, k + 1) = SizeOf(lines, k) + lines[k + 1].len
      BY <3>1, SizeSteps
    <3>3. lines[k + 1].len \in Nat
      BY <3>1, SizeSteps DEF Lines
    <3> QED  BY <1>2, <3>1, <3>2, <3>3
  <2>2. CASE ~(k + 1 <= Len(lines))
    BY <2>2
  <2> QED  BY <2>1, <2>2
<1> HIDE DEF T
<1>3. \A k \in Nat : k \in T
  BY <1>1, <1>2, SetInduction
<1> QED  BY <1>3, SizeSteps DEF T

\* More lines are no fewer bytes.
LEMMA SizeGrows ==
  ASSUME NEW lines \in Seq(Lines), NEW j \in 0..Len(lines)
  PROVE  \A k \in j..Len(lines) : SizeOf(lines, j) <= SizeOf(lines, k)
<1> DEFINE T == {k \in Nat : j <= k /\ k <= Len(lines) => SizeOf(lines, j) <= SizeOf(lines, k)}
<1>1. \A k \in 0..Len(lines) : SizeOf(lines, k) \in Nat
  BY SizeTyped
<1>2. 0 \in T
  <2>1. Len(lines) \in Nat /\ 0 \in 0..Len(lines)
    BY SizeSteps
  <2> QED  BY <1>1, <2>1
<1>3. ASSUME NEW k \in Nat, k \in T
      PROVE  k + 1 \in T
  <2>1. CASE j <= k /\ k + 1 <= Len(lines)
    <3>1. /\ k <= Len(lines) /\ k + 1 \in 1..Len(lines) /\ (k + 1) - 1 = k
          /\ k \in 0..Len(lines) /\ k + 1 \in 0..Len(lines)
      BY <2>1, SizeSteps
    <3>2. SizeOf(lines, k + 1) = SizeOf(lines, k) + lines[k + 1].len
      BY <3>1, SizeSteps
    <3>3. lines[k + 1].len \in Nat
      BY <3>1, SizeSteps DEF Lines
    <3>4. SizeOf(lines, j) <= SizeOf(lines, k)
      BY <1>3, <2>1, <3>1
    <3>5. SizeOf(lines, j) <= SizeOf(lines, k + 1)
      BY <1>1, <3>1, <3>2, <3>3, <3>4
    <3> QED  BY <3>5
  <2>2. CASE j = k + 1
    BY <1>1, <2>2
  <2>3. CASE ~(j <= k /\ k + 1 <= Len(lines)) /\ j # k + 1
    <3>1. ~(j <= k + 1 /\ k + 1 <= Len(lines))
      BY <2>3, SizeSteps
    <3> QED  BY <3>1
  <2> QED  BY <2>1, <2>2, <2>3
<1> HIDE DEF T
<1>4. \A k \in Nat : k \in T
  BY <1>2, <1>3, SetInduction
<1> QED  BY <1>4, SizeSteps DEF T

\* The first blank line, if there is one.
LEMMA BlankFacts ==
  ASSUME request.lines \in Seq(Lines)
  PROVE  /\ Blank \in 0..Len(request.lines)
         /\ Blank # 0 => request.lines[Blank].says = "blank"
         /\ \A k \in 1..Len(request.lines) :
              request.lines[k].says = "blank" => Blank # 0 /\ Blank <= k
<1> DEFINE L == Len(request.lines)
           I == {k \in 1..L : request.lines[k].says = "blank"}
<1>1. L \in Nat
  BY LenProperties
<1>2. Blank = IF I # {} THEN Min(I) ELSE 0
  BY DEF Blank, SelectInSeq
<1> HIDE DEF L
<1>3. CASE I = {}
  BY <1>1, <1>2, <1>3 DEF L
<1>4. CASE I # {}
  <2>1. I \in SUBSET Nat
    BY <1>1
  <2>2. \E n \in I : \A m \in I : n <= m
    <3> HIDE DEF I
    <3> QED  BY <1>4, <2>1, Least
  <2>3. Min(I) \in I /\ \A m \in I : Min(I) <= m
    <3> HIDE DEF I
    <3> QED  BY <2>2 DEF Min
  <2>4. Blank = Min(I)
    BY <1>2, <1>4
  <2>5. Blank \in I /\ \A m \in I : Blank <= m
    BY <2>3, <2>4
  <2>6. Blank \in 1..L /\ request.lines[Blank].says = "blank"
    BY <2>5
  <2>7. ASSUME NEW k \in 1..L, request.lines[k].says = "blank"
        PROVE  Blank <= k
    BY <2>5, <2>7
  <2>8. Blank # 0 /\ Blank \in 0..L
    BY <1>1, <2>6
  <2> QED  BY <2>6, <2>7, <2>8 DEF L
<1> QED  BY <1>3, <1>4

-----------------------------------------------------------------------------
(* RequestHead: who gets through. *)

Deserves == Sound /\ Small /\ Arrived

\* While the head is read: every line so far is one that a head may have there,
\* and headers and budget say how much of the limits they have taken.
ReadSoFar ==
  phase = "head" =>
    /\ \A k \in 1..(line - 1) :
         /\ request.lines[k].crlf /\ ~request.lines[k].ctl
         /\ request.lines[k].says = IF k = 1 THEN "sound" ELSE "other"
    /\ headers = (IF line <= 2 THEN 0 ELSE line - 2) /\ headers <= MAX_HEADER_LINES
    /\ MAX_HEAD_BYTES - budget = SizeOf(request.lines, line - 1)
    /\ SizeOf(request.lines, line - 1) <= arrives

HeadInv ==
  /\ request \in Heads /\ arrives \in Nat
  /\ HeadTypeOK /\ ReadSoFar /\ Judged

LEMMA HeadsTyped ==
  ASSUME request \in Heads
  PROVE  /\ request.lines \in Seq(Lines) /\ Len(request.lines) \in Nat
         /\ \A k \in 1..Len(request.lines) :
              /\ request.lines[k] \in Lines
              /\ request.lines[k].len \in Nat \ {0}
              /\ request.lines[k].crlf => request.lines[k].len > 1
              /\ request.lines[k].says = "sound" => k = 1
<1>1. request.lines \in Seq(Lines)
  BY HeadAssumption
<1>2. /\ Len(request.lines) \in Nat /\ DOMAIN request.lines = 1..Len(request.lines)
      /\ \A k \in 1..Len(request.lines) : request.lines[k] \in Lines
  BY <1>1, LenProperties, ElementOfSeq
<1>3. \A k \in 1..Len(request.lines) :
        /\ request.lines[k].crlf => request.lines[k].len > 1
        /\ request.lines[k].says = "sound" => k = 1
  BY <1>2, HeadAssumption
<1> QED  BY <1>1, <1>2, <1>3 DEF Lines

\* The line that is read is not behind the blank line.
LEMMA NotBehind ==
  ASSUME HeadInv, phase = "head"
  PROVE  /\ line \in Nat \ {0} /\ budget \in Nat /\ headers \in Nat
         /\ SizeOf(request.lines, line - 1) \in Nat
         /\ budget = MAX_HEAD_BYTES - SizeOf(request.lines, line - 1)
         /\ line <= Len(request.lines) =>
              /\ SizeOf(request.lines, line) \in Nat
              /\ SizeOf(request.lines, line)
                   = SizeOf(request.lines, line - 1) + request.lines[line].len
         /\ Blank # 0 =>
              /\ line <= Blank /\ line <= Len(request.lines)
              /\ SizeOf(request.lines, Blank) \in Nat
              /\ SizeOf(request.lines, line) <= SizeOf(request.lines, Blank)
<1> DEFINE L == Len(request.lines)
<1>1. /\ request.lines \in Seq(Lines) /\ L \in Nat
      /\ line \in 1..(L + 1) /\ budget \in 0..MAX_HEAD_BYTES
      /\ headers \in 0..(MAX_HEADER_LINES + 1)
  BY HeadsTyped DEF HeadInv, HeadTypeOK
<1>2. /\ budget \in Nat /\ MAX_HEAD_BYTES \in Nat /\ headers \in Nat /\ line \in Nat \ {0}
  BY <1>1, HeadAssumption
<1>3. line - 1 \in 0..L /\ SizeOf(request.lines, line - 1) \in Nat
  BY <1>1, SizeTyped
<1>4. budget = MAX_HEAD_BYTES - SizeOf(request.lines, line - 1)
  BY <1>2, <1>3 DEF HeadInv, ReadSoFar
<1>5. line <= L =>
        /\ SizeOf(request.lines, line) \in Nat
        /\ SizeOf(request.lines, line)
             = SizeOf(request.lines, line - 1) + request.lines[line].len
  <2>1. line <= L => line \in 1..L /\ line \in 0..L
    BY <1>1
  <2> QED  BY <1>1, <2>1, SizeTyped, SizeSteps
<1>6. ASSUME Blank # 0
      PROVE  /\ line <= Blank /\ line <= L
             /\ SizeOf(request.lines, Blank) \in Nat
             /\ SizeOf(request.lines, line) <= SizeOf(request.lines, Blank)
  <2>1. Blank \in 1..L /\ request.lines[Blank].says = "blank"
    BY <1>1, <1>6, BlankFacts
  <2>2. line <= Blank
    <3> SUFFICES ASSUME ~(line <= Blank) PROVE FALSE
      OBVIOUS
    <3>1. Blank \in 1..(line - 1)
      BY <1>1, <2>1
    <3>2. request.lines[Blank].says = IF Blank = 1 THEN "sound" ELSE "other"
      BY <3>1 DEF HeadInv, ReadSoFar
    <3> QED  BY <2>1, <3>2
  <2>3. line \in 0..L /\ Blank \in line..L /\ Blank \in 0..L /\ line <= L
    BY <1>1, <2>1, <2>2
  <2>4. SizeOf(request.lines, line) <= SizeOf(request.lines, Blank)
    BY <1>1, <2>3, SizeGrows
  <2>5. SizeOf(request.lines, Blank) \in Nat
    BY <1>1, <2>3, SizeTyped
  <2> QED  BY <2>2, <2>3, <2>4, <2>5
<1> QED  BY <1>2, <1>3, <1>4, <1>5, <1>6

\* What is said of a request does not change.
LEMMA SaidOnce ==
  ASSUME UNCHANGED <<request, arrives, after>>
  PROVE  /\ Blank' = Blank /\ Sound' = Sound /\ Small' = Small /\ Arrived' = Arrived
         /\ Deserves' = Deserves
<1>1. Blank' = Blank
  BY DEF Blank, SelectInSeq, Min
<1>2. Sound' = Sound
  BY <1>1 DEF Sound
<1>3. Small' = Small
  BY <1>1 DEF Small, SizeOf
<1>4. Arrived' = Arrived
  BY <1>1 DEF Arrived, SizeOf
<1> QED  BY <1>1, <1>2, <1>3, <1>4 DEF Deserves

\* Why a connection may be refused.
Refusable ==
  /\ status' \in {400, 408, 431, 501}
  /\ ~Deserves
  /\ status' = 431 => arrives >= MAX_HEAD_BYTES \/ Len(request.lines) - 1 > MAX_HEADER_LINES
  /\ status' = 408 => after = "silent" /\ (Blank = 0 \/ ~Arrived)
  /\ status' = 501 => \E k \in DOMAIN request.lines : request.lines[k].says = "te"

LEMMA RefusedJudged ==
  ASSUME UNCHANGED <<request, arrives, after>>, phase' = "refused", Refusable
  PROVE  Judged'
BY SaidOnce DEF Refusable, Judged, Deserves

\* In a request that deserves to get through, the line that is read is a good one.
LEMMA NextIsGood ==
  ASSUME HeadInv, phase = "head", Deserves
  PROVE  /\ line <= Blank /\ line <= Len(request.lines) /\ Blank - 2 <= MAX_HEADER_LINES
         /\ request.lines[line].crlf /\ ~request.lines[line].ctl
         /\ line = 1 => request.lines[line].says = "sound"
         /\ line > 1 /\ line # Blank => request.lines[line].says = "other"
         /\ SizeOf(request.lines, line) <= MAX_HEAD_BYTES
         /\ SizeOf(request.lines, line) <= arrives
<1>1. Blank > 1 /\ Blank \in 0..Len(request.lines) /\ Len(request.lines) \in Nat
  BY HeadsTyped, BlankFacts DEF HeadInv, Deserves, Sound
<1>2. /\ line \in Nat \ {0} /\ line <= Blank /\ line <= Len(request.lines)
      /\ SizeOf(request.lines, Blank) \in Nat /\ SizeOf(request.lines, line) \in Nat
      /\ SizeOf(request.lines, line) <= SizeOf(request.lines, Blank)
  <2>1. Blank # 0
    BY <1>1
  <2> QED  BY <2>1, NotBehind
<1>3. /\ SizeOf(request.lines, Blank) <= MAX_HEAD_BYTES
      /\ SizeOf(request.lines, Blank) <= arrives /\ Blank - 2 <= MAX_HEADER_LINES
  BY DEF Deserves, Small, Arrived
<1>4. /\ SizeOf(request.lines, line) <= MAX_HEAD_BYTES
      /\ SizeOf(request.lines, line) <= arrives
  <2>1. MAX_HEAD_BYTES \in Nat /\ arrives \in Nat
    BY HeadAssumption DEF HeadInv
  <2> QED  BY <1>2, <1>3, <2>1
<1>5. /\ line \in 1..Blank
      /\ line > 1 /\ line # Blank => line \in 2..(Blank - 1)
  BY <1>1, <1>2
<1> QED  BY <1>2, <1>3, <1>4, <1>5 DEF Deserves, Sound

\* A line that comes keeps to the budget and has arrived.
LEMMA LineFits ==
  ASSUME HeadInv, phase = "head", LineComes
  PROVE  /\ line \in 1..Len(request.lines)
         /\ Left \in 0..MAX_HEAD_BYTES
         /\ SizeOf(request.lines, line) \in Nat
         /\ Left = MAX_HEAD_BYTES - SizeOf(request.lines, line)
         /\ SizeOf(request.lines, line) <= MAX_HEAD_BYTES
         /\ SizeOf(request.lines, line) <= arrives
<1>1. /\ line \in Nat \ {0} /\ budget \in Nat /\ Len(request.lines) \in Nat
      /\ SizeOf(request.lines, line - 1) \in Nat
      /\ budget = MAX_HEAD_BYTES - SizeOf(request.lines, line - 1)
      /\ MAX_HEAD_BYTES \in Nat /\ arrives \in Nat
  BY NotBehind, HeadsTyped, HeadAssumption DEF HeadInv
<1>2. line \in 1..Len(request.lines)
  BY <1>1 DEF LineComes
<1>3. request.lines[line].len \in Nat
  BY <1>2, HeadsTyped DEF HeadInv
<1>4. /\ request.lines[line].len <= arrives - (MAX_HEAD_BYTES - budget)
      /\ request.lines[line].len <= budget
  BY DEF LineComes, Available
<1>5. /\ SizeOf(request.lines, line) \in Nat
      /\ SizeOf(request.lines, line)
           = SizeOf(request.lines, line - 1) + request.lines[line].len
  <2>1. line <= Len(request.lines)
    BY <1>1, <1>2
  <2> QED  BY <2>1, NotBehind
<1>6. Left = budget - request.lines[line].len
  BY DEF Left
<1> DEFINE n == request.lines[line].len
           before == SizeOf(request.lines, line - 1)
           size == SizeOf(request.lines, line)
<1>7. /\ n \in Nat /\ before \in Nat /\ size \in Nat /\ size = before + n
      /\ budget \in Nat /\ MAX_HEAD_BYTES \in Nat /\ arrives \in Nat
      /\ budget = MAX_HEAD_BYTES - before /\ Left = budget - n
      /\ n <= arrives - (MAX_HEAD_BYTES - budget) /\ n <= budget
  BY <1>1, <1>3, <1>4, <1>5, <1>6
<1> HIDE DEF n, before, size
<1>8. Left \in 0..MAX_HEAD_BYTES /\ Left = MAX_HEAD_BYTES - size
  BY <1>7
<1>9. size <= MAX_HEAD_BYTES /\ size <= arrives
  BY <1>7
<1> QED  BY <1>2, <1>5, <1>8, <1>9 DEF size

LEMMA RefusedKeeps ==
  ASSUME HeadInv, UNCHANGED <<request, arrives, after>>, phase' = "refused", Refusable,
         budget' \in 0..MAX_HEAD_BYTES, line' \in 1..(Len(request.lines) + 1),
         headers' \in 0..(MAX_HEADER_LINES + 1)
  PROVE  HeadInv'
<1>1. Judged'
  BY RefusedJudged
<1>2. HeadTypeOK'
  BY DEF HeadTypeOK, Refusable
<1>3. ReadSoFar'
  BY DEF ReadSoFar
<1> QED  BY <1>1, <1>2, <1>3 DEF HeadInv

LEMMA GoesOnKeeps ==
  ASSUME HeadInv, phase = "head", LineComes, UNCHANGED <<request, arrives, after, status>>,
         budget' = Left, line' = line + 1, phase' = "head",
         headers' = (IF line = 1 THEN 0 ELSE headers + 1), headers' <= MAX_HEADER_LINES,
         request.lines[line].crlf, ~request.lines[line].ctl,
         request.lines[line].says = IF line = 1 THEN "sound" ELSE "other"
  PROVE  HeadInv'
<1>1. /\ line \in 1..Len(request.lines) /\ Left \in 0..MAX_HEAD_BYTES
      /\ SizeOf(request.lines, line) \in Nat
      /\ Left = MAX_HEAD_BYTES - SizeOf(request.lines, line)
      /\ SizeOf(request.lines, line) <= arrives
  BY LineFits
<1>2. /\ headers \in Nat /\ Len(request.lines) \in Nat /\ MAX_HEADER_LINES \in Nat
      /\ MAX_HEAD_BYTES \in Nat /\ status = 0
      /\ headers = (IF line <= 2 THEN 0 ELSE line - 2)
  BY NotBehind, HeadsTyped, HeadAssumption DEF HeadInv, HeadTypeOK, ReadSoFar
<1>3. HeadTypeOK'
  <2>1. headers' \in 0..(MAX_HEADER_LINES + 1) /\ line' \in 1..(Len(request.lines) + 1)
    BY <1>1, <1>2
  <2> QED  BY <1>1, <1>2, <2>1 DEF HeadTypeOK
<1>4. ReadSoFar'
  <2>1. line' - 1 = line
    BY <1>1
  <2>2. headers' = IF line' <= 2 THEN 0 ELSE line' - 2
    BY <1>1, <1>2
  <2>3. ASSUME NEW k \in 1..line
        PROVE  /\ request.lines[k].crlf /\ ~request.lines[k].ctl
               /\ request.lines[k].says = IF k = 1 THEN "sound" ELSE "other"
    <3>1. CASE k = line
      BY <3>1
    <3>2. CASE k # line
      <4>1. k \in 1..(line - 1)
        BY <1>1, <3>2
      <4> QED  BY <4>1 DEF HeadInv, ReadSoFar
    <3> QED  BY <3>1, <3>2
  <2>4. MAX_HEAD_BYTES - budget' = SizeOf(request.lines, line)
    BY <1>1, <1>2
  <2> QED  BY <1>1, <2>1, <2>2, <2>3, <2>4 DEF ReadSoFar, SizeOf
<1>5. Judged'
  BY <1>2, SaidOnce DEF Judged
<1> QED  BY <1>3, <1>4, <1>5 DEF HeadInv

\* The blank line is read: the head was all that it has to be.
LEMMA BlankKeeps ==
  ASSUME HeadInv, phase = "head", LineComes, UNCHANGED <<request, arrives, after, status, headers>>,
         budget' = Left, line' = line + 1, phase' = "route", line > 1,
         request.lines[line].crlf, ~request.lines[line].ctl, request.lines[line].says = "blank"
  PROVE  HeadInv'
<1>1. /\ line \in 1..Len(request.lines) /\ Left \in 0..MAX_HEAD_BYTES
      /\ SizeOf(request.lines, line) <= MAX_HEAD_BYTES
      /\ SizeOf(request.lines, line) <= arrives
  BY LineFits
<1>2. /\ headers \in Nat /\ Len(request.lines) \in Nat /\ MAX_HEADER_LINES \in Nat
      /\ MAX_HEAD_BYTES \in Nat /\ status = 0 /\ headers <= MAX_HEADER_LINES
      /\ headers = (IF line <= 2 THEN 0 ELSE line - 2)
  BY NotBehind, HeadsTyped, HeadAssumption DEF HeadInv, HeadTypeOK, ReadSoFar
<1>3. Blank = line
  <2>1. Blank # 0 /\ Blank <= line /\ Blank \in 0..Len(request.lines)
    BY <1>1, HeadsTyped, BlankFacts DEF HeadInv
  <2>2. line <= Blank
    BY <2>1, NotBehind
  <2> QED  BY <1>1, <2>1, <2>2
<1>4. \A k \in 1..(line - 1) :
        /\ request.lines[k].crlf /\ ~request.lines[k].ctl
        /\ request.lines[k].says = IF k = 1 THEN "sound" ELSE "other"
  BY DEF HeadInv, ReadSoFar
<1>5. Sound
  <2>1. request.lines[1].says = "sound"
    <3>1. 1 \in 1..(line - 1)
      BY <1>1
    <3> QED  BY <1>4, <3>1
  <2>2. ASSUME NEW k \in 1..line
        PROVE  request.lines[k].crlf /\ ~request.lines[k].ctl
    <3>1. k = line \/ k \in 1..(line - 1)
      BY <1>1
    <3> QED  BY <1>4, <3>1
  <2>3. ASSUME NEW k \in 2..(line - 1)
        PROVE  request.lines[k].says = "other"
    <3>1. k \in 1..(line - 1) /\ k # 1
      BY <1>1
    <3> QED  BY <1>4, <3>1
  <2> QED  BY <1>3, <2>1, <2>2, <2>3 DEF Sound
<1>6. Small /\ Arrived
  <2>1. line - 2 <= MAX_HEADER_LINES
    BY <1>1, <1>2
  <2> QED  BY <1>1, <1>3, <2>1 DEF Small, Arrived
<1>7. Judged'
  BY <1>2, <1>5, <1>6, SaidOnce DEF Judged
<1>8. HeadTypeOK'
  <2>1. headers' \in 0..(MAX_HEADER_LINES + 1) /\ line' \in 1..(Len(request.lines) + 1)
    BY <1>1, <1>2
  <2> QED  BY <1>1, <1>2, <2>1 DEF HeadTypeOK
<1>9. ReadSoFar'
  BY DEF ReadSoFar
<1> QED  BY <1>7, <1>8, <1>9 DEF HeadInv

LEMMA ReadLineKeeps ==
  ASSUME HeadInv, ReadLine
  PROVE  HeadInv'
<1> DEFINE l == request.lines[line]
<1>1. /\ phase = "head" /\ LineComes /\ budget' = Left /\ line' = line + 1
      /\ UNCHANGED <<request, arrives, after>>
  BY DEF ReadLine
<1>2. /\ line \in 1..Len(request.lines) /\ Left \in 0..MAX_HEAD_BYTES
      /\ SizeOf(request.lines, line) \in Nat
      /\ Left = MAX_HEAD_BYTES - SizeOf(request.lines, line)
      /\ SizeOf(request.lines, line) <= arrives
  BY <1>1, LineFits
<1>3. /\ headers \in Nat /\ Len(request.lines) \in Nat /\ MAX_HEADER_LINES \in Nat
      /\ MAX_HEAD_BYTES \in Nat /\ arrives \in Nat /\ headers <= MAX_HEADER_LINES
      /\ headers = (IF line <= 2 THEN 0 ELSE line - 2)
      /\ DOMAIN request.lines = 1..Len(request.lines)
  BY <1>1, NotBehind, HeadsTyped, HeadAssumption, LenProperties DEF HeadInv, ReadSoFar
<1>4. /\ budget' \in 0..MAX_HEAD_BYTES /\ line' \in 1..(Len(request.lines) + 1)
      /\ headers \in 0..(MAX_HEADER_LINES + 1) /\ headers + 1 \in 0..(MAX_HEADER_LINES + 1)
  BY <1>1, <1>2, <1>3
<1>5. Deserves => /\ line <= Blank /\ Blank - 2 <= MAX_HEADER_LINES
                  /\ l.crlf /\ ~l.ctl
                  /\ line = 1 => l.says = "sound"
                  /\ line > 1 /\ line # Blank => l.says = "other"
  BY <1>1, NextIsGood
<1>6. Blank # 0 => request.lines[Blank].says = "blank"
  BY HeadsTyped, BlankFacts DEF HeadInv
<1>7. CASE ~l.crlf /\ Refuse(IF Left = 0 THEN 431 ELSE 400) /\ UNCHANGED headers
  <2>1. phase' = "refused" /\ status' \in {400, 431} /\ headers' = headers
        /\ (status' = 431 => Left = 0)
    BY <1>7 DEF Refuse
  <2>2. Left = 0 => arrives >= MAX_HEAD_BYTES
    BY <1>2, <1>3
  <2>3. Refusable
    BY <1>5, <1>7, <2>1, <2>2 DEF Refusable
  <2> QED  BY <1>1, <1>4, <2>1, <2>3, RefusedKeeps
<1>8. CASE l.crlf /\ l.ctl /\ Refuse(400) /\ UNCHANGED headers
  <2>1. phase' = "refused" /\ status' = 400 /\ headers' = headers
    BY <1>8 DEF Refuse
  <2>2. Refusable
    BY <1>5, <1>8, <2>1 DEF Refusable
  <2> QED  BY <1>1, <1>4, <2>1, <2>2, RefusedKeeps
<1>9. CASE l.crlf /\ ~l.ctl /\ Understand(l.says)
  <2>1. CASE line = 1 /\ UNCHANGED headers /\ l.says = "sound" /\ GoesTo("head")
    <3>1. headers' = (IF line = 1 THEN 0 ELSE headers + 1) /\ headers' <= MAX_HEADER_LINES
      BY <1>3, <2>1
    <3>2. phase' = "head" /\ UNCHANGED status
      BY <2>1 DEF GoesTo
    <3>3. l.says = IF line = 1 THEN "sound" ELSE "other"
      BY <2>1
    <3> QED  BY <1>1, <1>9, <3>1, <3>2, <3>3, GoesOnKeeps
  <2>2. CASE line = 1 /\ UNCHANGED headers /\ l.says # "sound" /\ Refuse(400)
    <3>1. phase' = "refused" /\ status' = 400 /\ headers' = headers
      BY <2>2 DEF Refuse
    <3>2. Refusable
      BY <1>5, <2>2, <3>1 DEF Refusable
    <3> QED  BY <1>1, <1>4, <3>1, <3>2, RefusedKeeps
  <2>3. CASE line > 1 /\ l.says = "blank" /\ GoesTo("route") /\ UNCHANGED headers
    BY <1>1, <1>9, <2>3, BlankKeeps DEF GoesTo
  <2>4. CASE line > 1 /\ l.says # "blank" /\ headers' = headers + 1 /\ TooMany /\ Refuse(431)
    <3>1. phase' = "refused" /\ status' = 431
      BY <2>4 DEF Refuse
    <3>2. headers + 1 = line - 1 /\ line - 1 > MAX_HEADER_LINES
      BY <1>2, <1>3, <2>4 DEF TooMany
    <3>3. Len(request.lines) - 1 > MAX_HEADER_LINES
      <4>1. line \in Nat /\ line <= Len(request.lines)
        BY <1>2, <1>3
      <4> DEFINE n == Len(request.lines)
      <4>2. n \in Nat /\ MAX_HEADER_LINES \in Nat /\ line <= n
        BY <1>3, <4>1
      <4> HIDE DEF n
      <4>3. n - 1 > MAX_HEADER_LINES
        BY <3>2, <4>1, <4>2
      <4> QED  BY <4>3 DEF n
    <3>4. ~Deserves
      <4> SUFFICES ASSUME Deserves PROVE FALSE
        OBVIOUS
      <4>1. line <= Blank /\ Blank - 2 <= MAX_HEADER_LINES
        BY <1>5
      <4>2. Blank \in Nat /\ line # Blank
        BY <1>2, <1>3, <1>6, <2>4, HeadsTyped, BlankFacts DEF HeadInv
      <4> QED  BY <1>2, <1>3, <3>2, <4>1, <4>2
    <3>5. Refusable
      BY <3>1, <3>3, <3>4 DEF Refusable
    <3> QED  BY <1>1, <1>4, <2>4, <3>1, <3>5, RefusedKeeps
  <2>5. ASSUME line > 1, l.says # "blank", headers' = headers + 1,
               l.says \in {"te", "body", "bad"},
               Refuse(IF l.says = "te" THEN 501 ELSE 400)
        PROVE  HeadInv'
    <3>1. phase' = "refused" /\ status' = IF l.says = "te" THEN 501 ELSE 400
      BY <2>5 DEF Refuse
    <3>2. ~Deserves
      <4>1. Blank # 0 => line # Blank
        BY <1>6, <2>5
      <4> QED  BY <1>2, <1>5, <2>5, <4>1, HeadsTyped, BlankFacts DEF HeadInv
    <3>3. status' = 501 => \E k \in DOMAIN request.lines : request.lines[k].says = "te"
      BY <1>2, <1>3, <3>1
    <3>4. Refusable
      BY <3>1, <3>2, <3>3 DEF Refusable
    <3> QED  BY <1>1, <1>4, <2>5, <3>1, <3>4, RefusedKeeps
  <2>6. ASSUME line > 1, l.says # "blank", headers' = headers + 1, ~TooMany,
               l.says \notin {"te", "body", "bad"}, GoesTo("head")
        PROVE  HeadInv'
    <3>1. phase' = "head" /\ UNCHANGED status
      BY <2>6 DEF GoesTo
    <3>2. l.says = "other"
      <4>1. l.says \in {"sound", "blank", "te", "body", "bad", "other"}
        BY <1>2, HeadsTyped DEF HeadInv, Lines
      <4>2. l.says = "sound" => line = 1
        BY <1>2, HeadsTyped DEF HeadInv
      <4> QED  BY <2>6, <4>1, <4>2
    <3>3. headers' <= MAX_HEADER_LINES /\ headers' = IF line = 1 THEN 0 ELSE headers + 1
      BY <1>3, <2>6 DEF TooMany
    <3>4. l.says = IF line = 1 THEN "sound" ELSE "other"
      BY <2>6, <3>2
    <3> QED  BY <1>1, <1>9, <3>1, <3>3, <3>4, GoesOnKeeps
  <2> HIDE DEF l
  <2>7. \/ line = 1 /\ UNCHANGED headers /\ l.says = "sound" /\ GoesTo("head")
        \/ line = 1 /\ UNCHANGED headers /\ l.says # "sound" /\ Refuse(400)
        \/ line > 1 /\ l.says = "blank" /\ GoesTo("route") /\ UNCHANGED headers
        \/ line > 1 /\ l.says # "blank" /\ headers' = headers + 1 /\ TooMany /\ Refuse(431)
        \/ /\ line > 1 /\ l.says # "blank" /\ headers' = headers + 1 /\ ~TooMany
           /\ l.says \in {"te", "body", "bad"} /\ Refuse(IF l.says = "te" THEN 501 ELSE 400)
        \/ /\ line > 1 /\ l.says # "blank" /\ headers' = headers + 1 /\ ~TooMany
           /\ l.says \notin {"te", "body", "bad"} /\ GoesTo("head")
    BY <1>9 DEF Understand
  <2> QED  BY <2>1, <2>2, <2>3, <2>4, <2>5, <2>6, <2>7
<1> QED  BY <1>7, <1>8, <1>9 DEF ReadLine

\* No line comes: with a head that deserves to get through, one would.
LEMMA NoneComes ==
  ASSUME HeadInv, phase = "head", ~LineComes
  PROVE  /\ ~Deserves
         /\ budget <= Available => arrives >= MAX_HEAD_BYTES
         /\ budget > Available => Blank = 0 \/ ~Arrived
         /\ Available \in Nat
<1> DEFINE n == request.lines[line].len
           before == SizeOf(request.lines, line - 1)
           size == SizeOf(request.lines, line)
           whole == SizeOf(request.lines, Blank)
<1>1. /\ line \in Nat \ {0} /\ budget \in Nat /\ before \in Nat
      /\ budget = MAX_HEAD_BYTES - before /\ before <= arrives
      /\ MAX_HEAD_BYTES \in Nat /\ arrives \in Nat
  BY NotBehind, HeadAssumption DEF HeadInv, ReadSoFar
<1>2. Blank # 0 => /\ line <= Len(request.lines) /\ n \in Nat
                   /\ size = before + n /\ whole \in Nat /\ size <= whole
  <2> SUFFICES ASSUME Blank # 0
               PROVE  /\ line <= Len(request.lines) /\ n \in Nat
                      /\ size = before + n /\ whole \in Nat /\ size <= whole
    OBVIOUS
  <2>1. /\ line <= Len(request.lines) /\ whole \in Nat /\ size <= whole /\ size = before + n
    BY NotBehind
  <2>2. line \in 1..Len(request.lines) /\ n \in Nat
    BY <1>1, <2>1, HeadsTyped DEF HeadInv
  <2> QED  BY <2>1, <2>2
<1>3. Available = arrives - (MAX_HEAD_BYTES - budget)
  BY DEF Available
<1>4. Blank # 0 => ~(n <= arrives - (MAX_HEAD_BYTES - budget) /\ n <= budget)
  BY <1>2 DEF LineComes, Available
<1>5. /\ Deserves => Blank # 0 /\ whole <= MAX_HEAD_BYTES /\ whole <= arrives
      /\ Arrived => whole <= arrives
  <2>1. Deserves => Blank > 1 /\ whole <= MAX_HEAD_BYTES /\ whole <= arrives
    BY DEF Deserves, Sound, Small, Arrived
  <2>2. Blank \in Nat
    BY HeadsTyped, BlankFacts DEF HeadInv
  <2> QED  BY <2>1, <2>2 DEF Arrived
<1> HIDE DEF n, before, size, whole
<1>6. ~Deserves
  BY <1>1, <1>2, <1>4, <1>5
<1>7. budget <= Available => arrives >= MAX_HEAD_BYTES
  BY <1>1, <1>3
<1>8. budget > Available => Blank = 0 \/ ~Arrived
  BY <1>1, <1>2, <1>3, <1>4, <1>5
<1>9. Available \in Nat
  BY <1>1, <1>3
<1> QED  BY <1>6, <1>7, <1>8, <1>9

LEMMA SilenceKeeps ==
  ASSUME HeadInv, Exceeds \/ Stops
  PROVE  HeadInv'
<1>1. /\ phase = "head" /\ ~LineComes /\ phase' = "refused"
      /\ UNCHANGED <<request, arrives, after, line, headers>>
  BY DEF Exceeds, Stops, Refuse
<1>2. /\ ~Deserves
      /\ budget <= Available => arrives >= MAX_HEAD_BYTES
      /\ budget > Available => Blank = 0 \/ ~Arrived
      /\ Available \in Nat
  BY <1>1, NoneComes
<1>3. /\ budget \in 0..MAX_HEAD_BYTES /\ MAX_HEAD_BYTES \in Nat
      /\ line \in 1..(Len(request.lines) + 1) /\ headers \in 0..(MAX_HEADER_LINES + 1)
  BY HeadAssumption DEF HeadInv, HeadTypeOK
<1> HIDE DEF Available
<1>4. CASE Exceeds
  <2>1. budget' = 0 /\ status' = 431 /\ budget <= Available
    BY <1>4 DEF Exceeds, Refuse
  <2>2. Refusable
    BY <1>2, <2>1 DEF Refusable
  <2>3. budget' \in 0..MAX_HEAD_BYTES
    BY <1>3, <2>1
  <2> QED  BY <1>1, <1>3, <2>2, <2>3, RefusedKeeps
<1>5. CASE Stops
  <2>1. /\ status' = (IF after = "silent" THEN 408 ELSE 400) /\ budget > Available
        /\ budget' = budget - (IF after = "closed" THEN Available ELSE 0)
    BY <1>5 DEF Stops, Refuse
  <2>2. Refusable
    BY <1>2, <2>1 DEF Refusable
  <2>3. budget' \in 0..MAX_HEAD_BYTES
    BY <1>2, <1>3, <2>1
  <2> QED  BY <1>1, <1>3, <2>2, <2>3, RefusedKeeps
<1> QED  BY <1>4, <1>5

\* What comes after the head.
LEMMA AnsweredKeeps ==
  ASSUME HeadInv, Route \/ Subscribed
  PROVE  HeadInv'
<1>1. /\ UNCHANGED <<request, arrives, after, budget, line, headers>>
      /\ phase \in {"route", "subscribe"} /\ phase' \in {"subscribe", "stream", "answered"}
  BY DEF Route, Subscribed, GoesTo
<1>2. Deserves /\ status = 0
  BY <1>1 DEF HeadInv, HeadTypeOK, Judged, Deserves
<1>3. /\ status' \in {0, 200, 204, 400, 404, 405, 502}
      /\ (status' = 0) = (phase' = "subscribe")
      /\ phase' \in {"subscribe", "stream"} => request.method = "GET" /\ request.valid
  <2>1. CASE Route /\ Serves
    <3>1. phase' = "subscribe" /\ status' = status
      BY <2>1 DEF Route, GoesTo
    <3> QED  BY <1>2, <2>1, <3>1 DEF Serves
  <2>2. CASE Route /\ ~Serves
    <3>1. phase' = "answered" /\ status' = Answer
      BY <2>2 DEF Route
    <3>2. Answer \in {200, 204, 400, 404, 405}
      BY DEF Answer
    <3> QED  BY <3>1, <3>2
  <2>3. CASE Subscribed
    <3>1. request.method = "GET" /\ request.valid
      BY <2>3 DEF Subscribed, HeadInv, Judged
    <3> QED  BY <2>3, <3>1 DEF Subscribed
  <2> QED  BY <2>1, <2>2, <2>3
<1>4. HeadTypeOK'
  BY <1>1, <1>3 DEF HeadInv, HeadTypeOK
<1>5. ReadSoFar'
  BY <1>1 DEF ReadSoFar
<1>6. Judged'
  BY <1>1, <1>2, <1>3, SaidOnce DEF Judged, Deserves
<1> QED  BY <1>1, <1>4, <1>5, <1>6 DEF HeadInv

LEMMA HeadBegins == HeadInit => HeadInv
<1> SUFFICES ASSUME HeadInit PROVE HeadInv
  OBVIOUS
<1>1. /\ request \in Heads /\ request.lines \in Seq(Lines) /\ Len(request.lines) \in Nat
      /\ MAX_HEAD_BYTES \in Nat /\ MAX_HEADER_LINES \in Nat
  BY HeadsTyped, HeadAssumption DEF HeadInit
<1>2. SizeOf(request.lines, Len(request.lines)) \in Nat /\ SizeOf(request.lines, 0) = 0
  <2>1. Len(request.lines) \in 0..Len(request.lines)
    BY <1>1
  <2> QED  BY <1>1, <2>1, SizeTyped, SizeSteps
<1>3. arrives \in Nat
  BY <1>2 DEF HeadInit
<1>4. /\ budget = MAX_HEAD_BYTES /\ line = 1 /\ headers = 0 /\ phase = "head" /\ status = 0
  BY DEF HeadInit
<1>5. HeadTypeOK
  BY <1>1, <1>4 DEF HeadTypeOK
<1>6. ReadSoFar
  <2>1. line - 1 = 0 /\ MAX_HEAD_BYTES - budget = 0
    BY <1>1, <1>4
  <2> QED  BY <1>1, <1>2, <1>3, <1>4, <2>1 DEF ReadSoFar
<1>7. Judged
  BY <1>4 DEF Judged
<1> QED  BY <1>1, <1>3, <1>5, <1>6, <1>7 DEF HeadInv

LEMMA HeadStepKeeps == HeadInv /\ [HeadStep]_headVars => HeadInv'
<1> SUFFICES ASSUME HeadInv, [HeadStep]_headVars PROVE HeadInv'
  OBVIOUS
<1>1. CASE ReadLine
  BY <1>1, ReadLineKeeps
<1>2. CASE Exceeds \/ Stops
  BY <1>2, SilenceKeeps
<1>3. CASE Route \/ Subscribed
  BY <1>3, AnsweredKeeps
<1>4. CASE UNCHANGED headVars
  <2>1. UNCHANGED <<request, arrives, after, budget, line, headers, phase, status>>
    BY <1>4 DEF headVars
  <2>2. HeadTypeOK' /\ ReadSoFar'
    BY <2>1 DEF HeadInv, HeadTypeOK, ReadSoFar, SizeOf
  <2>3. Judged'
    BY <2>1, SaidOnce DEF HeadInv, Judged
  <2> QED  BY <2>1, <2>2, <2>3 DEF HeadInv
<1> QED  BY <1>1, <1>2, <1>3, <1>4 DEF HeadStep

\* Read line by line, by whatever limits: nothing but a whole head, well-formed,
\* without a body and within both limits gets through, every such head does, and a
\* refusal has the reason that its status names (read_head, Error::status).
THEOREM HeadJudged == HeadSpec => []Judged
<1>1. HeadInit => HeadInv
  BY HeadBegins
<1>2. HeadInv /\ [HeadStep]_headVars => HeadInv'
  BY HeadStepKeeps
<1>3. HeadInv => Judged
  BY DEF HeadInv
<1> QED  BY <1>1, <1>2, <1>3, PTL DEF HeadSpec

\* The budget is never overdrawn and an answer has a status (read_line).
THEOREM HeadTypeCorrect == HeadSpec => []HeadTypeOK
<1>1. HeadInit => HeadInv
  BY HeadBegins
<1>2. HeadInv /\ [HeadStep]_headVars => HeadInv'
  BY HeadStepKeeps
<1>3. HeadInv => HeadTypeOK
  BY DEF HeadInv
<1> QED  BY <1>1, <1>2, <1>3, PTL DEF HeadSpec

-----------------------------------------------------------------------------
(* EngineClient: what a session and statistics are made from. *)

\* Nothing is made of an answer before it has ended, none ends before the client
\* has it, and only the reading of a 200 ends as that of a text may.
ClientInv ==
  /\ purpose \in Purposes /\ answer \in Answers[purpose]
  /\ asking => ending = "none"
  /\ verdict # "none" => ending # "none"
  /\ ~asking /\ ending \in {"none", "clean", "limit"} => answer.status = "200"
  /\ Truthful

\* An answer that says something has data to say it with.
LEMMA SayingTakesData ==
  ASSUME ClientInv, answer.says # {}
  PROVE  Data # <<>>
<1> DEFINE data == answer.data
           wire == answer.wire
           I == {k \in DOMAIN data : data[k] <= Len(wire)}
<1>1. answer \in UNION Range(Answers)
  BY ClientAssumption DEF ClientInv
<1>2. wire \in Seq(Nat) /\ data \in Seq(DOMAIN wire) /\ data # <<>>
  BY <1>1, ClientAssumption
<1> HIDE DEF data, wire
<1>3. /\ DOMAIN wire = 1..Len(wire) /\ DOMAIN data = 1..Len(data) /\ Len(data) \in Nat
      /\ Len(wire) \in Nat /\ Len(data) # 0 /\ \A k \in 1..Len(data) : data[k] \in DOMAIN wire
  BY <1>2, LenProperties, ElementOfSeq, EmptySeq
<1>4. I = 1..Len(data)
  BY <1>3
<1>5. Cardinality(1..Len(data)) = Len(data)
  <2>1. 1 \in Int /\ Len(data) \in Int
    BY <1>3
  <2>2. Cardinality(1..Len(data)) = IF 1 > Len(data) THEN 0 ELSE Len(data) - 1 + 1
    BY <2>1, FS_Interval
  <2> QED  BY <1>3, <2>2
<1>6. Data = [k \in 1..Cardinality(I) |-> wire[data[k]]]
  BY DEF Data, DataIn, data, wire
<1>7. Data = [k \in 1..Len(data) |-> wire[data[k]]]
  BY <1>4, <1>5, <1>6
<1>8. 1 \in DOMAIN Data
  BY <1>3, <1>7
<1> QED  BY <1>8

LEMMA ClientBegins == ClientInit => ClientInv
<1> SUFFICES ASSUME ClientInit PROVE ClientInv
  OBVIOUS
<1>1. Truthful
  BY DEF ClientInit, Truthful
<1> QED  BY <1>1 DEF ClientInit, ClientInv

\* Until there is a verdict there is nothing to be untruthful about.
LEMMA UndecidedKeeps ==
  ASSUME ClientInv, verdict = "none", UNCHANGED <<purpose, verdict>>,
         answer' \in Answers[purpose],
         asking' => ending' = "none",
         ~asking' /\ ending' \in {"none", "clean", "limit"} => answer'.status = "200"
  PROVE  ClientInv'
<1>1. Truthful'
  BY DEF Truthful
<1> QED  BY <1>1 DEF ClientInv

\* The verdict on an answer that has ended.
LEMMA DecidedKeeps ==
  ASSUME ClientInv, ending # "none", UNCHANGED <<purpose, hop, asking, answered, body, ending>>,
         \/ purpose = "open" /\ verdict' = Session
         \/ /\ purpose = "stats"
            /\ verdict' = IF Json \cap {"playback_url", "response"} # {} THEN "stats" ELSE "error"
         \/ purpose = "stop" /\ verdict' = "stopped"
  PROVE  ClientInv'
<1>1. UNCHANGED <<purpose, asking, answer, got, ending>>
  BY DEF answered, body
<1>2. ~asking
  BY DEF ClientInv
<1> DEFINE whole == answer.status = "200" /\ got = Data /\ ending \in {"clean", "limit"}
<1>3. Json # {} => whole /\ Json = answer.says
  BY <1>2 DEF Json, Text, ClientInv
<1>4. whole /\ answer.says # {} => Json = answer.says
  <2> SUFFICES ASSUME whole, answer.says # {} PROVE Json = answer.says
    OBVIOUS
  <2>1. Data # <<>>
    BY SayingTakesData
  <2>2. Text = got /\ got = Data
    BY DEF Text
  <2> QED  BY <2>1, <2>2 DEF Json
<1>5. whole' = whole /\ answer'.says = answer.says
  BY <1>1 DEF Data, DataIn
<1> HIDE DEF whole
<1>6. purpose \in {"open", "stats"} =>
        /\ verdict' \in {"session", "stats"} => whole /\ answer.says # {}
        /\ verdict' = "error" /\ purpose = "open" => whole /\ "error" \in answer.says
        /\ purpose = "open" /\ whole /\ answer.says = {"error"} => verdict' = "error"
  <2>1. CASE purpose = "open" /\ verdict' = Session
    <3>1. verdict' \in {"session", "stats"} => whole /\ answer.says # {}
      <4>1. Session \in {"session", "stats"} => "playback_url" \in Json
        BY DEF Session
      <4> QED  BY <1>3, <2>1, <4>1
    <3>2. verdict' = "error" => whole /\ "error" \in answer.says
      <4>1. Session = "error" => "error" \in Json
        BY DEF Session
      <4> QED  BY <1>3, <2>1, <4>1
    <3>3. whole /\ answer.says = {"error"} => verdict' = "error"
      <4>1. Json = {"error"} => Session = "error"
        BY DEF Session
      <4>2. whole /\ answer.says = {"error"} => Json = {"error"}
        BY <1>4
      <4> QED  BY <2>1, <4>1, <4>2
    <3> QED  BY <3>1, <3>2, <3>3
  <2>2. CASE purpose = "stats" /\ verdict' = IF Json \cap {"playback_url", "response"} # {}
                                               THEN "stats" ELSE "error"
    <3>1. verdict' \in {"session", "stats"} => Json # {}
      BY <2>2
    <3> QED  BY <1>3, <2>2, <3>1
  <2>3. CASE purpose = "stop"
    BY <2>3
  <2> QED  BY <2>1, <2>2, <2>3
<1>7. Truthful'
  BY <1>1, <1>5, <1>6 DEF Truthful, whole
<1>8. /\ purpose' \in Purposes /\ answer' \in Answers'[purpose'] /\ ~asking'
      /\ verdict' # "none" => ending' # "none"
      /\ ending' \in {"none", "clean", "limit"} => answer'.status = "200"
  BY <1>1, <1>2 DEF ClientInv
<1> QED  BY <1>7, <1>8 DEF ClientInv

LEMMA ClientStepKeeps == ClientInv /\ [ClientStep]_clientVars => ClientInv'
<1> SUFFICES ASSUME ClientInv, [ClientStep]_clientVars PROVE ClientInv'
  OBVIOUS
<1>1. CASE Redirected
  BY <1>1, UndecidedKeeps DEF Redirected, ClientInv
<1>2. ASSUME NEW n \in 0..Len(answer.wire), Responds(n)
      PROVE  ClientInv'
  BY <1>2, UndecidedKeeps DEF Responds, ClientInv
<1>3. CASE GetFails
  BY <1>3, UndecidedKeeps DEF GetFails, answered, ClientInv
<1>4. ASSUME NEW b \in Buffers, Read(b)
      PROVE  ClientInv'
  BY <1>4, UndecidedKeeps DEF Read, Reading, answered, ClientInv
<1>5. CASE LimitReached
  BY <1>5, UndecidedKeeps DEF LimitReached, answered, ClientInv
<1>6. CASE Silence
  BY <1>6, UndecidedKeeps DEF Silence, Reading, answered, ClientInv
<1>7. CASE Opened
  BY <1>7, DecidedKeeps DEF Opened
<1>8. CASE Polled
  BY <1>8, DecidedKeeps DEF Polled
<1>9. CASE Stopped
  BY <1>9, DecidedKeeps DEF Stopped
<1>10. CASE UNCHANGED clientVars
  <2>1. UNCHANGED <<purpose, asking, answer, got, ending, verdict>>
    BY <1>10 DEF clientVars, answered, body
  <2>2. Truthful'
    BY <2>1 DEF ClientInv, Truthful, Data, DataIn
  <2> QED  BY <2>1, <2>2 DEF ClientInv
<1> QED  BY <1>1, <1>2, <1>3, <1>4, <1>5, <1>6, <1>7, <1>8, <1>9, <1>10 DEF ClientStep

\* Whatever the engine answers and wherever it stops: a session with statistics is
\* opened, and statistics are shown, only from a whole answer, and a session is
\* refused only by the engine's own error (open_session, fetch_stats).
THEOREM SessionTruthful == ClientSpec => []Truthful
<1>1. ClientInit => ClientInv
  BY ClientBegins
<1>2. ClientInv /\ [ClientStep]_clientVars => ClientInv'
  BY ClientStepKeeps
<1>3. ClientInv => Truthful
  BY DEF ClientInv
<1> QED  BY <1>1, <1>2, <1>3, PTL DEF ClientSpec

-----------------------------------------------------------------------------
(* EngineClient: what hex digits give. *)

\* f gives for every set of places in s what the digits there give.
Hexes(f, s, n) ==
  f = [t \in SUBSET (1..n) |->
         IF t = {} THEN 0 ELSE 16 * f[t \ {Max(t)}] + s[Max(t)]]

LEMMA HexesNth ==
  ASSUME NEW f, NEW s, NEW n \in Nat, Hexes(f, s, n), NEW t \in SUBSET (1..n)
  PROVE  f[t] = IF t = {} THEN 0 ELSE 16 * f[t \ {Max(t)}] + s[Max(t)]
<1>1. f = [u \in SUBSET (1..n) |->
             IF u = {} THEN 0 ELSE 16 * f[u \ {Max(u)}] + s[Max(u)]]
  BY DEF Hexes
<1> QED  BY <1>1

LEMMA HexesExists ==
  ASSUME NEW s
  PROVE  \A n \in Nat : \E f : Hexes(f, s, n)
<1> DEFINE T == {n \in Nat : \E f : Hexes(f, s, n)}
<1>1. 0 \in T
  <2> DEFINE f == [t \in SUBSET (1..0) |-> 0]
  <2>1. \A t \in SUBSET (1..0) : t = {}
    OBVIOUS
  <2>2. f = [t \in SUBSET (1..0) |->
               IF t = {} THEN 0 ELSE 16 * f[t \ {Max(t)}] + s[Max(t)]]
    BY <2>1
  <2>3. Hexes(f, s, 0)
    BY <2>2 DEF Hexes
  <2> QED  BY <2>3
<1>2. ASSUME NEW n \in Nat, n \in T
      PROVE  n + 1 \in T
  <2>1. PICK f : Hexes(f, s, n)
    BY <1>2
  <2> DEFINE g == [t \in SUBSET (1..(n + 1)) |->
                     IF n + 1 \in t THEN 16 * f[t \ {n + 1}] + s[n + 1] ELSE f[t]]
             h == [t \in SUBSET (1..(n + 1)) |->
                     IF t = {} THEN 0 ELSE 16 * g[t \ {Max(t)}] + s[Max(t)]]
  <2>2. ASSUME NEW t \in SUBSET (1..(n + 1))
        PROVE  g[t] = h[t]
    <3>1. CASE n + 1 \in t
      <4>1. Max(t) = n + 1
        <5>1. t \in SUBSET Int /\ \A k \in t : k <= n + 1
          BY <1>2
        <5> QED  BY <3>1, <5>1, MaxIs
      <4>2. t \ {n + 1} \in SUBSET (1..(n + 1)) /\ n + 1 \notin t \ {n + 1}
        OBVIOUS
      <4>3. g[t \ {n + 1}] = f[t \ {n + 1}]
        BY <4>2
      <4> QED  BY <3>1, <4>1, <4>3
    <3>2. CASE n + 1 \notin t
      <4>1. t \in SUBSET (1..n)
        BY <1>2, <3>2
      <4>2. f[t] = IF t = {} THEN 0 ELSE 16 * f[t \ {Max(t)}] + s[Max(t)]
        BY <1>2, <2>1, <4>1, HexesNth
      <4>3. t \ {Max(t)} \in SUBSET (1..(n + 1)) /\ n + 1 \notin t \ {Max(t)}
        BY <3>2
      <4>4. g[t \ {Max(t)}] = f[t \ {Max(t)}]
        BY <4>3
      <4> QED  BY <3>2, <4>2, <4>4
    <3> QED  BY <3>1, <3>2
  <2>3. g = h
    BY <2>2
  <2>4. Hexes(g, s, n + 1)
    BY <2>3 DEF Hexes
  <2> QED  BY <2>4
<1> HIDE DEF T
<1>3. \A n \in Nat : n \in T
  BY <1>1, <1>2, SetInduction
<1> QED  BY <1>3 DEF T

LEMMA HexIs ==
  ASSUME NEW s, NEW n \in Nat, DOMAIN s = 1..n
  PROVE  \E f : Hexes(f, s, n) /\ Hex(s) = f[1..n]
<1> DEFINE g == CHOOSE f : Hexes(f, s, n)
<1>1. Hexes(g, s, n)
  BY HexesExists
<1>2. Hex(s) = g[1..n]
  BY DEF Hex, FoldLeft, MapThenFoldSet, Hexes
<1> QED  BY <1>1, <1>2

\* A number is none that is negative, and none that is 0 if its first digit is not.
LEMMA HexPositive ==
  ASSUME NEW s \in Seq(Nat), s # <<>>
  PROVE  Hex(s) \in Nat /\ (s[1] # 0 => Hex(s) # 0)
<1> DEFINE n == Len(s)
<1>1. n \in Nat /\ n # 0 /\ DOMAIN s = 1..n /\ \A k \in 1..n : s[k] \in Nat
  BY LenProperties, ElementOfSeq, EmptySeq
<1> HIDE DEF n
<1>2. PICK f : Hexes(f, s, n) /\ Hex(s) = f[1..n]
  BY <1>1, HexIs
<1>3. f[1..0] = 0
  <2>1. 1..0 = {} /\ 1..0 \in SUBSET (1..n)
    OBVIOUS
  <2> QED  BY <1>1, <1>2, <2>1, HexesNth
<1>8. ASSUME NEW t \in SUBSET (1..n), t # {}
      PROVE  f[t] = 16 * f[t \ {Max(t)}] + s[Max(t)]
  <2>1. n \in Nat /\ Hexes(f, s, n) /\ t \in SUBSET (1..n)
    BY <1>1, <1>2
  <2>2. f[t] = IF t = {} THEN 0 ELSE 16 * f[t \ {Max(t)}] + s[Max(t)]
    BY <2>1, HexesNth, Zenon
  <2> QED  BY <1>8, <2>2
<1>4. ASSUME NEW k \in 1..n
      PROVE  f[1..k] = 16 * f[1..(k - 1)] + s[k]
  <2>1. 1..k \in SUBSET (1..n) /\ 1..k # {}
    <3>1. k \in 1..k
      BY <1>1
    <3>2. \A i \in 1..k : i \in 1..n
      BY <1>1
    <3> QED  BY <3>1, <3>2
  <2>2. (1..k) \ {k} = 1..(k - 1)
    <3>1. \A i \in (1..k) \ {k} : i \in 1..(k - 1)
      BY <1>1
    <3>2. \A i \in 1..(k - 1) : i \in (1..k) \ {k}
      BY <1>1
    <3> QED  BY <3>1, <3>2
  <2>3. Max(1..k) = k
    <3>1. 1..k \in SUBSET Int /\ k \in 1..k /\ \A i \in 1..k : i <= k
      BY <1>1
    <3> QED  BY <3>1, MaxIs
  <2>4. f[1..k] = 16 * f[(1..k) \ {Max(1..k)}] + s[Max(1..k)]
    BY <1>8, <2>1
  <2> QED  BY <2>2, <2>3, <2>4
<1> DEFINE T == {k \in Nat : k <= n => f[1..k] \in Nat /\ (k # 0 /\ s[1] # 0 => f[1..k] # 0)}
<1>5. 0 \in T
  BY <1>3
<1>6. ASSUME NEW k \in Nat, k \in T
      PROVE  k + 1 \in T
  <2>1. CASE k + 1 <= n
    <3>1. k + 1 \in 1..n /\ (k + 1) - 1 = k /\ s[k + 1] \in Nat
      BY <1>1, <2>1
    <3>2. f[1..(k + 1)] = 16 * f[1..k] + s[k + 1]
      BY <1>4, <3>1
    <3>3. f[1..k] \in Nat /\ (k # 0 /\ s[1] # 0 => f[1..k] # 0) /\ (k = 0 => f[1..k] = 0)
      BY <1>1, <1>3, <1>6, <2>1
    <3> HIDE DEF T
    <3>4. f[1..(k + 1)] \in Nat
      BY <3>1, <3>2, <3>3
    <3>5. s[1] # 0 => f[1..(k + 1)] # 0
      BY <3>1, <3>2, <3>3
    <3> QED  BY <3>4, <3>5 DEF T
  <2>2. CASE ~(k + 1 <= n)
    BY <2>2
  <2> QED  BY <2>1, <2>2
<1> HIDE DEF T
<1>7. n \in T
  <2>1. \A k \in Nat : k \in T
    BY <1>5, <1>6, SetInduction
  <2> QED  BY <1>1, <2>1
<1> QED  BY <1>1, <1>2, <1>7 DEF T

-----------------------------------------------------------------------------
(* EngineClient: the data among the first symbols of an answer. *)

\* What is known of an answer.
GoodAnswer(a) ==
  /\ a.kind \in {"chunked", "length", "toclose"} /\ a.length \in Nat
  /\ a.wire \in Seq(Nat) /\ a.data \in Seq(DOMAIN a.wire)
  /\ a.lines \in Seq([first : Nat, last : Nat, nl : Nat, size : Nat])
  /\ a.kind = "chunked" => Framed(a)
  /\ \A i, j \in DOMAIN a.data : i < j => a.data[i] < a.data[j]
  /\ Range(a.data) = {p \in DOMAIN a.wire : IsData(a, p)}

LEMMA AnswersAreGood ==
  ASSUME purpose \in Purposes, answer \in Answers[purpose]
  PROVE  GoodAnswer(answer)
<1>1. answer \in UNION Range(Answers)
  BY ClientAssumption
<1> QED  BY <1>1, ClientAssumption, FramingAssumption DEF GoodAnswer

\* DataIn of an answer that is named.
DataUpTo(a, n) ==
  [k \in 1..Cardinality({k \in DOMAIN a.data : a.data[k] <= n}) |-> a.wire[a.data[k]]]

\* Of the increasing numbers in d those up to n are the first m.
Upto(d, n, m) ==
  /\ m \in 0..Len(d)
  /\ \A k \in 1..m : d[k] <= n
  /\ \A k \in (m + 1)..Len(d) : d[k] > n

LEMMA UptoExists ==
  ASSUME NEW d \in Seq(Nat), \A i, j \in DOMAIN d : i < j => d[i] < d[j], NEW n \in Nat
  PROVE  \E m : Upto(d, n, m)
<1> DEFINE S == {k \in 1..Len(d) : d[k] > n}
<1>1. Len(d) \in Nat /\ DOMAIN d = 1..Len(d) /\ \A k \in 1..Len(d) : d[k] \in Nat
  BY LenProperties, ElementOfSeq
<1>2. CASE S = {}
  <2>1. Upto(d, n, Len(d))
    BY <1>1, <1>2 DEF Upto
  <2> QED  BY <2>1
<1>3. CASE S # {}
  <2>1. PICK k \in S : \A j \in S : k <= j
    <3>1. S \in SUBSET Nat
      BY <1>1
    <3> HIDE DEF S
    <3> QED  BY <1>3, <3>1, Least
  <2>2. k - 1 \in 0..Len(d) /\ (k - 1) + 1 = k
    BY <1>1
  <2>3. ASSUME NEW j \in 1..(k - 1)
        PROVE  d[j] <= n
    <3>1. j \in 1..Len(d) /\ j \notin S
      BY <1>1, <2>1
    <3> QED  BY <1>1, <3>1
  <2>4. ASSUME NEW j \in k..Len(d)
        PROVE  d[j] > n
    <3>1. j \in 1..Len(d) /\ k \in 1..Len(d) /\ d[k] > n /\ (j = k \/ k < j)
      BY <1>1
    <3>2. k < j => d[k] < d[j]
      BY <1>1, <3>1
    <3>3. d[k] \in Nat /\ d[j] \in Nat
      BY <1>1, <3>1
    <3> QED  BY <3>1, <3>2, <3>3
  <2>5. Upto(d, n, k - 1)
    BY <2>2, <2>3, <2>4 DEF Upto
  <2> QED  BY <2>5
<1> QED  BY <1>2, <1>3

\* What the first m places of the data hold.
FirstData(a, m) == [k \in 1..m |-> a.wire[a.data[k]]]

LEMMA UptoData ==
  ASSUME NEW a, a.data \in Seq(Nat), NEW n \in Nat, NEW m, Upto(a.data, n, m)
  PROVE  DataUpTo(a, n) = FirstData(a, m)
<1> DEFINE d == a.data
           S == {k \in DOMAIN d : d[k] <= n}
<1>1. Len(d) \in Nat /\ DOMAIN d = 1..Len(d) /\ \A k \in 1..Len(d) : d[k] \in Nat
  BY LenProperties, ElementOfSeq
<1>2. m \in Nat /\ S = 1..m
  <2>1. m \in Nat /\ m <= Len(d)
    BY <1>1 DEF Upto
  <2>2. ASSUME NEW k \in S
        PROVE  k \in 1..m
    BY <1>1, <2>1 DEF Upto
  <2>3. ASSUME NEW k \in 1..m
        PROVE  k \in S
    BY <1>1, <2>1 DEF Upto
  <2> QED  BY <2>1, <2>2, <2>3
<1>3. Cardinality(1..m) = m
  <2>1. 1 \in Int /\ m \in Int
    BY <1>2
  <2>2. Cardinality(1..m) = IF 1 > m THEN 0 ELSE m - 1 + 1
    BY <2>1, FS_Interval
  <2> QED  BY <1>2, <2>2
<1>4. DataUpTo(a, n) = FirstData(a, Cardinality(S))
  BY DEF DataUpTo, FirstData
<1> QED  BY <1>2, <1>3, <1>4

LEMMA AnswerFacts ==
  ASSUME NEW a, GoodAnswer(a)
  PROVE  /\ a.data \in Seq(Nat) /\ Len(a.data) \in Nat /\ DOMAIN a.data = 1..Len(a.data)
         /\ Len(a.wire) \in Nat /\ DOMAIN a.wire = 1..Len(a.wire)
         /\ \A k \in 1..Len(a.data) : a.data[k] \in 1..Len(a.wire)
         /\ \A k \in 1..Len(a.wire) : a.wire[k] \in Nat
<1>1. a.wire \in Seq(Nat) /\ a.data \in Seq(DOMAIN a.wire)
  BY DEF GoodAnswer
<1>2. Len(a.wire) \in Nat /\ DOMAIN a.wire = 1..Len(a.wire)
  BY <1>1, LenProperties
<1>3. Len(a.data) \in Nat /\ DOMAIN a.data = 1..Len(a.data)
  BY <1>1, LenProperties
<1>4. \A k \in 1..Len(a.data) : a.data[k] \in 1..Len(a.wire)
  BY <1>1, <1>2, ElementOfSeq
<1>5. \A k \in 1..Len(a.wire) : a.wire[k] \in Nat
  BY <1>1, ElementOfSeq
<1>6. a.data \in Seq(Nat)
  <2>1. \A k \in 1..Len(a.wire) : k \in Nat
    OBVIOUS
  <2>2. DOMAIN a.wire \subseteq Nat
    BY <1>2, <2>1
  <2> QED  BY <1>1, <2>2
<1> QED  BY <1>2, <1>3, <1>4, <1>5, <1>6

LEMMA UptoOf ==
  ASSUME NEW a, GoodAnswer(a), NEW n \in Nat
  PROVE  \E m : Upto(a.data, n, m)
<1>1. a.data \in Seq(Nat)
  BY AnswerFacts
<1>2. \A i, j \in DOMAIN a.data : i < j => a.data[i] < a.data[j]
  BY DEF GoodAnswer
<1> QED  BY <1>1, <1>2, UptoExists

\* The positions of the data are those that have data.
LEMMA DataIsData ==
  ASSUME NEW a, GoodAnswer(a)
  PROVE  /\ \A k \in 1..Len(a.data) : IsData(a, a.data[k])
         /\ \A p \in 1..Len(a.wire) : IsData(a, p) => \E k \in 1..Len(a.data) : a.data[k] = p
<1>1. Range(a.data) = {p \in DOMAIN a.wire : IsData(a, p)}
  BY DEF GoodAnswer
<1>2. Range(a.data) = {a.data[k] : k \in 1..Len(a.data)}
  BY AnswerFacts DEF Range
<1>3. DOMAIN a.wire = 1..Len(a.wire)
  BY AnswerFacts
<1>4. \A k \in 1..Len(a.data) : a.data[k] \in Range(a.data)
  BY <1>2
<1>5. \A k \in 1..Len(a.data) : IsData(a, a.data[k])
  BY <1>1, <1>4
<1>6. \A p \in 1..Len(a.wire) : IsData(a, p) => p \in Range(a.data)
  BY <1>1, <1>3
<1> QED  BY <1>2, <1>5, <1>6

\* Symbols of the framing add nothing.
LEMMA FramingSkips ==
  ASSUME NEW a, GoodAnswer(a), NEW p \in Nat, NEW q \in Nat, p <= q,
         \A i \in (p + 1)..q : i \in 1..Len(a.wire) => ~IsData(a, i)
  PROVE  DataUpTo(a, p) = DataUpTo(a, q)
<1>1. PICK m : Upto(a.data, p, m)
  BY UptoOf
<1>2. /\ a.data \in Seq(Nat) /\ Len(a.data) \in Nat /\ Len(a.wire) \in Nat
      /\ \A k \in 1..Len(a.data) : a.data[k] \in 1..Len(a.wire)
  BY AnswerFacts
<1>3. ASSUME NEW k \in (m + 1)..Len(a.data)
      PROVE  a.data[k] > q
  <2>1. k \in 1..Len(a.data) /\ a.data[k] > p
    BY <1>1, <1>2 DEF Upto
  <2>2. IsData(a, a.data[k]) /\ a.data[k] \in 1..Len(a.wire)
    BY <1>2, <2>1, DataIsData
  <2>3. a.data[k] \notin (p + 1)..q
    BY <2>2
  <2> QED  BY <2>1, <2>2, <2>3
<1>4. Upto(a.data, q, m)
  <2>1. m \in 0..Len(a.data) /\ \A k \in 1..m : a.data[k] <= p
    BY <1>1 DEF Upto
  <2>2. ASSUME NEW k \in 1..m
        PROVE  a.data[k] <= q
    <3>1. k \in 1..Len(a.data) /\ a.data[k] <= p
      BY <1>2, <2>1
    <3> QED  BY <1>2, <3>1
  <2> QED  BY <1>3, <2>1, <2>2 DEF Upto
<1>7. a.data \in Seq(Nat)
  BY <1>2
<1>5. DataUpTo(a, p) = FirstData(a, m)
  BY <1>1, <1>7, UptoData
<1>6. DataUpTo(a, q) = FirstData(a, m)
  BY <1>4, <1>7, UptoData
<1> QED  BY <1>5, <1>6

\* The first n symbols after p are data.
DataFrom(a, p, n) == \A i \in 1..n : p + i <= Len(a.wire) /\ IsData(a, p + i)

\* Of those the first i are the i data after the m up to p.
Follow(a, p, m, i) ==
  Upto(a.data, p + i, m + i) /\ \A j \in 1..i : a.data[m + j] = p + j

LEMMA DataFollows ==
  ASSUME NEW a, GoodAnswer(a), NEW p \in Nat, NEW m \in Nat, Upto(a.data, p, m),
         p + 1 <= Len(a.wire), IsData(a, p + 1)
  PROVE  Upto(a.data, p + 1, m + 1) /\ a.data[m + 1] = p + 1
<1> DEFINE d == a.data
<1>1. /\ Len(d) \in Nat /\ Len(a.wire) \in Nat /\ DOMAIN d = 1..Len(d)
      /\ \A k \in 1..Len(d) : d[k] \in Nat
  BY AnswerFacts
<1>2. \A i, j \in 1..Len(d) : i < j => d[i] < d[j]
  BY <1>1 DEF GoodAnswer
<1>3. PICK k \in 1..Len(d) : d[k] = p + 1
  <2>1. p + 1 \in 1..Len(a.wire)
    BY <1>1
  <2> QED  BY <2>1, DataIsData
<1>4. m <= Len(d) /\ (\A j \in 1..m : d[j] <= p) /\ \A j \in (m + 1)..Len(d) : d[j] > p
  BY DEF Upto
<1> HIDE DEF d
<1>5. k = m + 1
  <2>1. ~(k <= m)
    BY <1>1, <1>3, <1>4
  <2>2. ~(k > m + 1)
    <3> SUFFICES ASSUME k > m + 1 PROVE FALSE
      OBVIOUS
    <3>1. m + 1 \in 1..Len(d) /\ m + 1 \in (m + 1)..Len(d)
      BY <1>1, <1>3
    <3>2. d[m + 1] < p + 1 /\ d[m + 1] > p /\ d[m + 1] \in Nat
      BY <1>1, <1>2, <1>3, <1>4, <3>1
    <3> QED  BY <3>2
  <2> QED  BY <1>1, <1>3, <2>1, <2>2
<1>6. ASSUME NEW j \in 1..(m + 1)
      PROVE  d[j] <= p + 1
  <2>1. CASE j \in 1..m
    BY <1>1, <1>4, <2>1
  <2>2. CASE j = m + 1
    BY <1>3, <1>5, <2>2
  <2> QED  BY <2>1, <2>2
<1>7. ASSUME NEW j \in ((m + 1) + 1)..Len(d)
      PROVE  d[j] > p + 1
  <2>1. j \in 1..Len(d) /\ k < j
    BY <1>1, <1>5
  <2>2. d[k] < d[j]
    BY <1>2, <2>1
  <2> QED  BY <1>3, <2>2
<1>8. m + 1 \in 0..Len(d)
  BY <1>1, <1>3, <1>5
<1>9. Upto(d, p + 1, m + 1)
  BY <1>6, <1>7, <1>8 DEF Upto
<1> QED  BY <1>3, <1>5, <1>9 DEF d

LEMMA DataRuns ==
  ASSUME NEW a, GoodAnswer(a), NEW p \in Nat, NEW m \in Nat, Upto(a.data, p, m),
         NEW n \in Nat, DataFrom(a, p, n)
  PROVE  Follow(a, p, m, n)
<1> DEFINE T == {i \in Nat : i <= n => Follow(a, p, m, i)}
<1>1. 0 \in T
  <2>1. p + 0 = p /\ m + 0 = m
    OBVIOUS
  <2> QED  BY <2>1 DEF Follow
<1>2. ASSUME NEW i \in Nat, i \in T, i + 1 <= n
      PROVE  Follow(a, p, m, i + 1)
  <2>1. Follow(a, p, m, i)
    BY <1>2
  <2>2. /\ p + i \in Nat /\ m + i \in Nat /\ i + 1 \in 1..n
        /\ (p + i) + 1 = p + (i + 1) /\ (m + i) + 1 = m + (i + 1)
    BY <1>2
  <2>3. (p + i) + 1 <= Len(a.wire) /\ IsData(a, (p + i) + 1)
    BY <2>2 DEF DataFrom
  <2>4. Upto(a.data, (p + i) + 1, (m + i) + 1) /\ a.data[(m + i) + 1] = (p + i) + 1
    <3>1. Upto(a.data, p + i, m + i)
      BY <2>1 DEF Follow
    <3> QED  BY <2>2, <2>3, <3>1, DataFollows
  <2>5. ASSUME NEW j \in 1..(i + 1)
        PROVE  a.data[m + j] = p + j
    <3>1. CASE j \in 1..i
      BY <2>1, <3>1 DEF Follow
    <3>2. CASE j = i + 1
      BY <2>2, <2>4, <3>2
    <3> QED  BY <1>2, <3>1, <3>2
  <2> QED  BY <2>2, <2>4, <2>5 DEF Follow
<1>3. \A i \in Nat : i \in T => i + 1 \in T
  BY <1>2
<1> HIDE DEF T
<1>4. n \in T
  BY <1>1, <1>3, SetInduction
<1> QED  BY <1>4 DEF T

\* The symbols that are data are added as they are.
LEMMA DataTakes ==
  ASSUME NEW a, GoodAnswer(a), NEW p \in Nat, NEW n \in Nat, p + n <= Len(a.wire),
         DataFrom(a, p, n)
  PROVE  Cat(DataUpTo(a, p), SubSeq(a.wire, p + 1, p + n)) = DataUpTo(a, p + n)
<1>1. PICK m : Upto(a.data, p, m)
  BY UptoOf
<1>2. /\ a.data \in Seq(Nat) /\ Len(a.data) \in Nat /\ Len(a.wire) \in Nat
      /\ \A k \in 1..Len(a.data) : a.data[k] \in 1..Len(a.wire)
      /\ \A k \in 1..Len(a.wire) : a.wire[k] \in Nat
  BY AnswerFacts
<1>3. m \in Nat /\ m <= Len(a.data)
  BY <1>1, <1>2 DEF Upto
<1>4. Follow(a, p, m, n)
  BY <1>1, <1>3, DataRuns
<1>5. m + n <= Len(a.data) /\ p + n \in Nat /\ m + n \in Nat
  BY <1>2, <1>3, <1>4 DEF Follow, Upto
<1> DEFINE s == DataUpTo(a, p)
           t == SubSeq(a.wire, p + 1, p + n)
           u == DataUpTo(a, p + n)
<1>6. s = [k \in 1..m |-> a.wire[a.data[k]]]
  <2>1. DataUpTo(a, p) = FirstData(a, m)
    BY <1>1, <1>2, UptoData
  <2> QED  BY <2>1 DEF FirstData
<1>7. u = [k \in 1..(m + n) |-> a.wire[a.data[k]]]
  <2>1. Upto(a.data, p + n, m + n)
    BY <1>4 DEF Follow
  <2>2. DataUpTo(a, p + n) = FirstData(a, m + n)
    BY <1>2, <1>5, <2>1, UptoData
  <2> QED  BY <2>2 DEF FirstData
<1>8. \A k \in 1..(m + n) : a.wire[a.data[k]] \in Nat
  <2> SUFFICES ASSUME NEW k \in 1..(m + n) PROVE a.wire[a.data[k]] \in Nat
    OBVIOUS
  <2>1. k \in 1..Len(a.data)
    BY <1>2, <1>5
  <2>2. a.data[k] \in 1..Len(a.wire)
    BY <1>2, <2>1
  <2> QED  BY <1>2, <2>2
<1> HIDE DEF s, u
<1>9. s \in Seq(Nat) /\ Len(s) = m /\ u \in Seq(Nat) /\ Len(u) = m + n
  BY <1>3, <1>5, <1>6, <1>7, <1>8
<1>10. t \in Seq(Nat) /\ Len(t) = n /\ \A k \in 1..n : t[k] = a.wire[p + k]
  <2>1. p + 1 \in Int /\ p + n \in Int /\ \A i \in (p + 1)..(p + n) : a.wire[i] \in Nat
    BY <1>2
  <2>2. /\ t \in Seq(Nat)
        /\ Len(t) = IF p + 1 <= p + n THEN (p + n) - (p + 1) + 1 ELSE 0
        /\ \A i \in 1..((p + n) - (p + 1) + 1) : t[i] = a.wire[(p + 1) + i - 1]
    BY <2>1, SubSeqProperties
  <2> HIDE DEF t
  <2>3. Len(t) = n /\ (p + n) - (p + 1) + 1 = n /\ \A k \in 1..n : (p + 1) + k - 1 = p + k
    BY <2>2
  <2> QED  BY <2>2, <2>3
<1> HIDE DEF t
<1>11. ASSUME NEW k \in 1..Len(t)
       PROVE  u[Len(s) + k] = t[k]
  <2>1. m + k \in 1..(m + n) /\ a.data[m + k] = p + k
    BY <1>3, <1>4, <1>10 DEF Follow
  <2> QED  BY <1>7, <1>9, <1>10, <2>1
<1>12. ASSUME NEW k \in 1..Len(s)
       PROVE  u[k] = s[k]
  <2>1. k \in 1..m /\ k \in 1..(m + n)
    BY <1>3, <1>9
  <2> QED  BY <1>6, <1>7, <2>1
<1>13. Cat(s, t) = u
  BY <1>9, <1>10, <1>11, <1>12, CatIs
<1> QED  BY <1>13 DEF s, t, u

\* The data of a part are where those of the whole begin.
LEMMA DataBegins ==
  ASSUME NEW a, GoodAnswer(a), NEW p \in Nat, NEW q \in Nat, p <= q
  PROVE  /\ DataUpTo(a, p) \in Seq(Nat) /\ IsPrefix(DataUpTo(a, p), DataUpTo(a, q))
         /\ DataUpTo(a, 0) = <<>>
<1>1. /\ a.data \in Seq(Nat) /\ Len(a.data) \in Nat /\ Len(a.wire) \in Nat
      /\ \A k \in 1..Len(a.data) : a.data[k] \in 1..Len(a.wire)
      /\ \A k \in 1..Len(a.wire) : a.wire[k] \in Nat
  BY AnswerFacts
<1>2. PICK m : Upto(a.data, p, m)
  BY UptoOf
<1>3. PICK r : Upto(a.data, q, r)
  BY UptoOf
<1> DEFINE s == DataUpTo(a, p)
           t == DataUpTo(a, q)
<1>4. s = [k \in 1..m |-> a.wire[a.data[k]]] /\ t = [k \in 1..r |-> a.wire[a.data[k]]]
  <2>1. a.data \in Seq(Nat)
    BY <1>1
  <2>2. DataUpTo(a, p) = FirstData(a, m)
    BY <1>2, <2>1, UptoData
  <2>3. DataUpTo(a, q) = FirstData(a, r)
    BY <1>3, <2>1, UptoData
  <2> QED  BY <2>2, <2>3 DEF FirstData
<1>5. m \in Nat /\ r \in Nat /\ m <= r /\ r <= Len(a.data)
  <2>1. m \in 0..Len(a.data) /\ r \in 0..Len(a.data)
    BY <1>2, <1>3 DEF Upto
  <2>2. ~(r < m)
    <3> SUFFICES ASSUME r < m PROVE FALSE
      OBVIOUS
    <3>1. m \in 1..m /\ m \in (r + 1)..Len(a.data) /\ m \in 1..Len(a.data)
      BY <1>1, <2>1
    <3>2. a.data[m] <= p /\ a.data[m] > q
      BY <1>2, <1>3, <3>1 DEF Upto
    <3> QED  BY <1>1, <3>1, <3>2
  <2> QED  BY <1>1, <2>1, <2>2
<1>6. \A k \in 1..r : a.wire[a.data[k]] \in Nat
  <2> SUFFICES ASSUME NEW k \in 1..r PROVE a.wire[a.data[k]] \in Nat
    OBVIOUS
  <2>1. k \in 1..Len(a.data)
    BY <1>1, <1>5
  <2>2. a.data[k] \in 1..Len(a.wire)
    BY <1>1, <2>1
  <2> QED  BY <1>1, <2>2
<1> HIDE DEF s, t
<1>7. /\ s \in Seq(Nat) /\ Len(s) = m /\ t \in Seq(Nat) /\ Len(t) = r
      /\ \A k \in 1..m : s[k] = t[k]
  <2>1. \A k \in 1..m : k \in 1..r
    BY <1>5
  <2>2. s \in Seq(Nat) /\ Len(s) = m
    BY <1>4, <1>5, <1>6, <2>1
  <2>3. t \in Seq(Nat) /\ Len(t) = r
    BY <1>4, <1>5, <1>6
  <2>4. \A k \in 1..m : s[k] = t[k]
    BY <1>4, <2>1
  <2> QED  BY <2>2, <2>3, <2>4
<1>8. IsPrefix(s, t)
  <2>1. SubSeq(s, 1, m) = s
    BY <1>7, SubSeqFull
  <2> DEFINE u == SubSeq(t, 1, m)
  <2>2. u \in Seq(Nat) /\ Len(u) = m /\ \A k \in 1..m : u[k] = t[k]
    <3>1. 1 \in Int /\ m \in Int /\ \A i \in 1..m : t[i] \in Nat
      BY <1>5, <1>7, ElementOfSeq
    <3>2. /\ u \in Seq(Nat) /\ Len(u) = IF 1 <= m THEN m - 1 + 1 ELSE 0
          /\ \A i \in 1..(m - 1 + 1) : u[i] = t[1 + i - 1]
      BY <3>1, SubSeqProperties
    <3> HIDE DEF u
    <3> QED  BY <1>5, <3>2
  <2> HIDE DEF u
  <2>3. u = s
    BY <1>7, <2>2, SeqEqual
  <2> QED  BY <1>5, <1>7, <2>1, <2>3 DEF IsPrefix, u
<1>9. DataUpTo(a, 0) = <<>>
  <2>1. Upto(a.data, 0, 0)
    BY <1>1 DEF Upto
  <2>2. DataUpTo(a, 0) = FirstData(a, 0)
    BY <1>1, <2>1, UptoData
  <2> QED  BY <2>2 DEF FirstData
<1> QED  BY <1>7, <1>8, <1>9 DEF s, t

-----------------------------------------------------------------------------
(* EngineClient: where the chunks of an answer are. *)

Chunky(a) == GoodAnswer(a) /\ a.kind = "chunked"

\* Line k of an answer, in its place and as it is written.
LineAt(a, k) ==
  LET l == a.lines[k]
  IN /\ {l.first, l.last, l.nl, l.size} \subseteq Nat
     /\ IsSizeLine(a.wire, ChunkEnd(a, k - 1), l)
     /\ l.size = Hex(SubSeq(a.wire, l.first, l.last))
     /\ IF l.size = 0 THEN k = Len(a.lines) ELSE a.wire[l.first] # 0
     /\ ChunkEnd(a, k) = l.nl + l.size

LEMMA LinesAreThere ==
  ASSUME NEW a, Chunky(a)
  PROVE  /\ Len(a.lines) \in Nat /\ DOMAIN a.lines = 1..Len(a.lines)
         /\ \A k \in 1..Len(a.lines) : LineAt(a, k)
         /\ \A k \in 0..Len(a.lines) : ChunkEnd(a, k) \in Nat
<1> DEFINE n == Len(a.lines)
<1>1. a.lines \in Seq([first : Nat, last : Nat, nl : Nat, size : Nat]) /\ Framed(a)
  BY DEF Chunky, GoodAnswer
<1>2. n \in Nat /\ DOMAIN a.lines = 1..n
  BY <1>1, LenProperties
<1>3. \A k \in 1..n : a.lines[k] \in [first : Nat, last : Nat, nl : Nat, size : Nat]
  BY <1>1, ElementOfSeq
<1>4. ASSUME NEW k \in 1..n
      PROVE  LineAt(a, k)
  <2>1. k # 0
    BY <1>2
  <2>2. ChunkEnd(a, k) = a.lines[k].nl + a.lines[k].size
    BY <2>1 DEF ChunkEnd
  <2>3. {a.lines[k].first, a.lines[k].last, a.lines[k].nl, a.lines[k].size} \subseteq Nat
    BY <1>3
  <2>4. /\ IsSizeLine(a.wire, ChunkEnd(a, k - 1), a.lines[k])
        /\ a.lines[k].size = Hex(SubSeq(a.wire, a.lines[k].first, a.lines[k].last))
        /\ IF a.lines[k].size = 0 THEN k = n ELSE a.wire[a.lines[k].first] # 0
    BY <1>1 DEF Framed
  <2> QED  BY <2>2, <2>3, <2>4 DEF LineAt
<1>5. ASSUME NEW k \in 0..n
      PROVE  ChunkEnd(a, k) \in Nat
  <2>1. CASE k = 0
    BY <2>1 DEF ChunkEnd
  <2>2. CASE k # 0
    <3>1. k \in 1..n
      BY <1>2, <2>2
    <3>2. LineAt(a, k)
      BY <1>4, <3>1
    <3>3. \E x, y \in Nat : ChunkEnd(a, k) = x + y
      BY <3>2 DEF LineAt
    <3> QED  BY <3>3
  <2> QED  BY <2>1, <2>2
<1> QED  BY <1>2, <1>4, <1>5

LEMMA LineIsAfter ==
  ASSUME NEW a, Chunky(a), NEW k \in 1..Len(a.lines)
  PROVE  /\ ChunkEnd(a, k - 1) \in Nat /\ a.lines[k].nl \in 1..Len(a.wire)
         /\ ChunkEnd(a, k - 1) < a.lines[k].nl /\ a.lines[k].nl <= ChunkEnd(a, k)
         /\ a.lines[k].nl \in Nat
<1>1. k - 1 \in 0..Len(a.lines) /\ LineAt(a, k)
  BY LinesAreThere
<1>2. ChunkEnd(a, k - 1) \in Nat
  BY <1>1, LinesAreThere
<1>3. DOMAIN a.wire = 1..Len(a.wire)
  BY AnswerFacts DEF Chunky
<1> DEFINE l == a.lines[k]
           e == ChunkEnd(a, k - 1)
<1>4. /\ {l.first, l.last, l.nl, l.size} \subseteq Nat
      /\ IsSizeLine(a.wire, e, l) /\ ChunkEnd(a, k) = l.nl + l.size
  BY <1>1 DEF LineAt
<1> HIDE DEF l, e
<1>5. l.first >= e + 1 /\ l.first <= l.last /\ l.last < l.nl /\ l.nl \in DOMAIN a.wire
  BY <1>2, <1>4 DEF IsSizeLine, e
<1>6. l.nl \in 1..Len(a.wire)
  BY <1>3, <1>5
<1>7. e < l.nl /\ l.nl <= ChunkEnd(a, k)
  BY <1>2, <1>4, <1>5 DEF e
<1>8. l.nl \in Nat
  BY <1>4
<1> QED  BY <1>2, <1>6, <1>7, <1>8 DEF l, e

LEMMA ChunksAreInOrder ==
  ASSUME NEW a, Chunky(a), NEW j \in 0..Len(a.lines)
  PROVE  \A k \in j..Len(a.lines) : ChunkEnd(a, j) <= ChunkEnd(a, k)
<1> DEFINE n == Len(a.lines)
           T == {k \in Nat : j <= k /\ k <= n => ChunkEnd(a, j) <= ChunkEnd(a, k)}
<1>1. n \in Nat /\ \A k \in 0..n : ChunkEnd(a, k) \in Nat
  BY LinesAreThere
<1>2. 0 \in T
  <2>1. 0 \in 0..n /\ ChunkEnd(a, 0) \in Nat
    BY <1>1
  <2>2. j <= 0 => j = 0
    BY <1>1
  <2> QED  BY <2>1, <2>2
<1>3. ASSUME NEW k \in Nat, k \in T
      PROVE  k + 1 \in T
  <2>1. CASE j <= k /\ k + 1 <= n
    <3>1. k + 1 \in 1..n /\ (k + 1) - 1 = k /\ k \in 0..n /\ k + 1 \in 0..n
      BY <1>1, <2>1
    <3>2. /\ ChunkEnd(a, (k + 1) - 1) < a.lines[k + 1].nl
          /\ a.lines[k + 1].nl <= ChunkEnd(a, k + 1) /\ a.lines[k + 1].nl \in Nat
      BY <3>1, LineIsAfter
    <3>3. ChunkEnd(a, j) <= ChunkEnd(a, k)
      BY <1>1, <1>3, <2>1
    <3>4. ChunkEnd(a, k) < a.lines[k + 1].nl
      BY <3>1, <3>2
    <3>5. /\ ChunkEnd(a, j) \in Nat /\ ChunkEnd(a, k) \in Nat /\ ChunkEnd(a, k + 1) \in Nat
      BY <1>1, <3>1
    <3>6. ChunkEnd(a, j) <= ChunkEnd(a, k + 1)
      BY <3>2, <3>3, <3>4, <3>5
    <3> QED  BY <3>6
  <2>2. CASE j = k + 1
    BY <1>1, <2>2
  <2>3. CASE ~(j <= k /\ k + 1 <= n) /\ j # k + 1
    <3>1. ~(j <= k + 1 /\ k + 1 <= n)
      BY <1>1, <2>3
    <3> QED  BY <3>1
  <2> QED  BY <2>1, <2>2, <2>3
<1> HIDE DEF T
<1>4. \A k \in Nat : k \in T
  BY <1>2, <1>3, SetInduction
<1>5. ASSUME NEW k \in j..n
      PROVE  ChunkEnd(a, j) <= ChunkEnd(a, k)
  <2>1. k \in Nat /\ j <= k /\ k <= n
    BY <1>1
  <2>2. k \in T
    BY <1>4, <2>1
  <2> QED  BY <2>1, <2>2 DEF T
<1> QED  BY <1>5

\* Between two chunks there is no data.
LEMMA NoDataBetween ==
  ASSUME NEW a, Chunky(a), NEW k \in 1..Len(a.lines), NEW p \in Nat,
         ChunkEnd(a, k - 1) < p, p <= a.lines[k].nl
  PROVE  ~IsData(a, p)
<1> DEFINE n == Len(a.lines)
<1>1. n \in Nat /\ DOMAIN a.lines = 1..n /\ \A j \in 0..n : ChunkEnd(a, j) \in Nat
  BY LinesAreThere
<1>2. ASSUME NEW j \in 1..n, a.lines[j].nl < p, p <= ChunkEnd(a, j)
      PROVE  FALSE
  <2>1. CASE j < k
    <3>1. j \in 0..n /\ k - 1 \in j..n
      BY <1>1, <2>1
    <3>2. ChunkEnd(a, j) <= ChunkEnd(a, k - 1)
      BY <3>1, ChunksAreInOrder
    <3>3. ChunkEnd(a, j) \in Nat /\ ChunkEnd(a, k - 1) \in Nat
      BY <1>1, <3>1
    <3> QED  BY <1>2, <3>2, <3>3
  <2>2. CASE j = k
    <3>1. a.lines[k].nl \in Nat
      BY LineIsAfter
    <3> QED  BY <1>2, <2>2, <3>1
  <2>3. CASE j > k
    <3>1. k \in 0..n /\ j - 1 \in k..n /\ j - 1 \in 0..n
      BY <1>1, <2>3
    <3>2. ChunkEnd(a, k) <= ChunkEnd(a, j - 1)
      BY <3>1, ChunksAreInOrder
    <3>3. a.lines[k].nl <= ChunkEnd(a, k) /\ a.lines[k].nl \in Nat
      BY LineIsAfter
    <3>4. ChunkEnd(a, j - 1) < a.lines[j].nl /\ a.lines[j].nl \in Nat
      BY LineIsAfter
    <3>5. ChunkEnd(a, k) \in Nat /\ ChunkEnd(a, j - 1) \in Nat
      BY <1>1, <3>1
    <3> QED  BY <1>2, <3>2, <3>3, <3>4, <3>5
  <2> QED  BY <1>1, <2>1, <2>2, <2>3
<1> QED  BY <1>1, <1>2 DEF IsData, Chunky

\* Nor is there any after the last.
LEMMA NoDataAfter ==
  ASSUME NEW a, Chunky(a), NEW p \in Nat, ChunkEnd(a, Len(a.lines)) < p
  PROVE  ~IsData(a, p)
<1> DEFINE n == Len(a.lines)
<1>1. n \in Nat /\ DOMAIN a.lines = 1..n /\ \A j \in 0..n : ChunkEnd(a, j) \in Nat
  BY LinesAreThere
<1>2. ASSUME NEW j \in 1..n, p <= ChunkEnd(a, j)
      PROVE  FALSE
  <2>1. j \in 0..n /\ n \in j..n /\ n \in 0..n
    BY <1>1
  <2>2. ChunkEnd(a, j) <= ChunkEnd(a, n)
    BY <2>1, ChunksAreInOrder
  <2>3. ChunkEnd(a, j) \in Nat /\ ChunkEnd(a, n) \in Nat
    BY <1>1, <2>1
  <2> QED  BY <1>2, <2>2, <2>3
<1> QED  BY <1>1, <1>2 DEF IsData, Chunky

LEMMA ChunksAreData ==
  ASSUME NEW a, Chunky(a), NEW k \in 1..Len(a.lines), NEW p \in Nat,
         a.lines[k].nl < p, p <= ChunkEnd(a, k)
  PROVE  IsData(a, p)
<1>1. k \in DOMAIN a.lines
  BY LinesAreThere
<1> QED  BY <1>1 DEF IsData, Chunky

-----------------------------------------------------------------------------
(* EngineClient: what is read for a size line. *)

LEMMA SmallestIs ==
  ASSUME NEW S \in SUBSET Nat, NEW m \in S, \A n \in S : m <= n
  PROVE  Smallest(S) = m
<1>1. \A x \in S : (\A n \in S : x <= n) <=> x = m
  OBVIOUS
<1> QED  BY <1>1 DEF Smallest

LEMMA SmallestFacts ==
  ASSUME NEW S \in SUBSET Nat, S # {}
  PROVE  Smallest(S) \in S /\ \A n \in S : Smallest(S) <= n
<1>1. PICK m \in S : \A n \in S : m <= n
  BY Least
<1>2. Smallest(S) = m
  BY <1>1, SmallestIs
<1> QED  BY <1>1, <1>2

\* e is where the line after p ends, of what has come.
EndsLine(p, e) ==
  /\ e \in (p + 1)..(cut + 1)
  /\ e <= cut => answer.wire[e] = NL
  /\ \A q \in (p + 1)..(e - 1) : answer.wire[q] # NL

LEMMA LineEndIs ==
  ASSUME cut \in Nat, NEW p \in Nat, p <= cut
  PROVE  EndsLine(p, LineEnd(p)) /\ \A e : EndsLine(p, e) => LineEnd(p) = e
<1> DEFINE S == {q \in (p + 1)..cut : answer.wire[q] = NL} \cup {cut + 1}
<1>1. LineEnd(p) = Smallest(S)
  BY DEF LineEnd
<1>2. S \in SUBSET Nat /\ S # {}
  OBVIOUS
<1>3. LineEnd(p) \in S /\ \A n \in S : LineEnd(p) <= n
  <2> HIDE DEF S
  <2> QED  BY <1>1, <1>2, SmallestFacts
<1>4. EndsLine(p, LineEnd(p))
  <2> DEFINE e == LineEnd(p)
  <2>1. e \in S /\ \A n \in S : e <= n
    BY <1>3
  <2> HIDE DEF e
  <2>2. e \in (p + 1)..(cut + 1) /\ (e <= cut => answer.wire[e] = NL)
    BY <2>1
  <2>3. ASSUME NEW q \in (p + 1)..(e - 1)
        PROVE  answer.wire[q] # NL
    <3>1. q \in (p + 1)..cut /\ ~(e <= q)
      BY <2>2
    <3>2. q \notin S
      BY <2>1, <3>1
    <3> QED  BY <3>1, <3>2
  <2>4. EndsLine(p, e)
    BY <2>2, <2>3 DEF EndsLine
  <2> QED  BY <2>4 DEF e
<1>5. ASSUME NEW e, EndsLine(p, e)
      PROVE  LineEnd(p) = e
  <2>1. e \in (p + 1)..(cut + 1) /\ (e <= cut => answer.wire[e] = NL)
    BY <1>5 DEF EndsLine
  <2>2. e \in S
    BY <2>1
  <2>3. ASSUME NEW n \in S
        PROVE  e <= n
    <3> SUFFICES ASSUME ~(e <= n) PROVE FALSE
      OBVIOUS
    <3>1. n \in (p + 1)..cut /\ answer.wire[n] = NL
      BY <2>1
    <3>2. n \in (p + 1)..(e - 1)
      BY <2>1, <3>1
    <3> QED  BY <1>5, <3>1, <3>2 DEF EndsLine
  <2> HIDE DEF S
  <2> QED  BY <1>1, <1>2, <2>2, <2>3, SmallestIs
<1> QED  BY <1>4, <1>5

LEMMA SizeLineIs ==
  ASSUME cut \in Nat, taken \in 0..cut
  PROVE  SizeLine = IF taken < cut /\ answer.wire[taken + 1] = NL THEN taken + 1 ELSE taken
<1> SUFFICES ASSUME taken < cut
             PROVE  (LineEnd(taken) = taken + 1) <=> answer.wire[taken + 1] = NL
  BY DEF SizeLine
<1>1. taken \in Nat /\ taken <= cut
  OBVIOUS
<1>2. EndsLine(taken, LineEnd(taken)) /\ \A e : EndsLine(taken, e) => LineEnd(taken) = e
  BY <1>1, LineEndIs
<1>3. CASE answer.wire[taken + 1] = NL
  <2>1. EndsLine(taken, taken + 1)
    BY <1>3 DEF EndsLine
  <2> QED  BY <1>2, <1>3, <2>1
<1>4. CASE answer.wire[taken + 1] # NL
  <2>1. ~EndsLine(taken, taken + 1)
    BY <1>4 DEF EndsLine
  <2> QED  BY <1>2, <1>4, <2>1
<1> QED  BY <1>3, <1>4

\* The digits of the size line that begins after p and ends at e stop before s.
StopsDigits(p, e, s) ==
  /\ s \in (p + 1)..e
  /\ s < e => answer.wire[s] = SEMI
  /\ \A q \in (p + 1)..(s - 1) : answer.wire[q] # SEMI

LEMMA DigitsAre ==
  ASSUME NEW p \in Nat, SizeLine = p, NEW e \in Nat, LineEnd(p) = e, p < e
  PROVE  /\ \E s : StopsDigits(p, e, s)
         /\ \A s : StopsDigits(p, e, s) => SizeDigits = SubSeq(answer.wire, p + 1, s - 1)
<1> DEFINE S == {q \in (p + 1)..(e - 1) : answer.wire[q] = SEMI} \cup {e}
<1>1. SizeDigits = SubSeq(answer.wire, p + 1, Smallest(S) - 1)
  BY DEF SizeDigits
<1>2. S \in SUBSET Nat /\ S # {}
  OBVIOUS
<1>3. \E s : StopsDigits(p, e, s)
  <2>1. PICK s \in S : \A n \in S : s <= n
    <3> HIDE DEF S
    <3> QED  BY <1>2, Least
  <2>2. s \in (p + 1)..e /\ (s < e => answer.wire[s] = SEMI)
    BY <2>1
  <2>3. ASSUME NEW q \in (p + 1)..(s - 1)
        PROVE  answer.wire[q] # SEMI
    <3>1. q \in (p + 1)..(e - 1) /\ ~(s <= q)
      BY <2>2
    <3>2. q \notin S
      BY <2>1, <3>1
    <3> QED  BY <3>1, <3>2
  <2>4. StopsDigits(p, e, s)
    BY <2>2, <2>3 DEF StopsDigits
  <2> QED  BY <2>4
<1>4. ASSUME NEW s, StopsDigits(p, e, s)
      PROVE  Smallest(S) = s
  <2>1. s \in (p + 1)..e /\ (s < e => answer.wire[s] = SEMI)
    BY <1>4 DEF StopsDigits
  <2>2. s \in S
    BY <2>1
  <2>3. ASSUME NEW n \in S
        PROVE  s <= n
    <3> SUFFICES ASSUME ~(s <= n) PROVE FALSE
      OBVIOUS
    <3>1. n \in (p + 1)..(e - 1) /\ answer.wire[n] = SEMI
      BY <2>1
    <3>2. n \in (p + 1)..(s - 1)
      BY <2>1, <3>1
    <3> QED  BY <1>4, <3>1, <3>2 DEF StopsDigits
  <2> HIDE DEF S
  <2> QED  BY <1>2, <2>2, <2>3, SmallestIs
<1> QED  BY <1>1, <1>3, <1>4

\* All of chunk k has been read, and nothing after it.
AtChunkEnd(k) ==
  /\ Chunky(answer) /\ k \in 0..Len(answer.lines) /\ taken = ChunkEnd(answer, k)
  /\ cut \in 0..Len(answer.wire) /\ taken \in 0..cut

\* What is made of a size line, as much of it as has come.
SizeHeard(l) ==
  LET e == LineEnd(SizeLine)
  IN /\ ~Malformed /\ Size \in Nat /\ (Size = 0 => l.size = 0)
     /\ IF e <= cut THEN e = l.nl /\ Size = l.size ELSE e = cut + 1 /\ cut < l.nl

\* A size line, as much of it as has come.
LEMMA SizeIsHeard ==
  ASSUME NEW k, AtChunkEnd(k), k < Len(answer.lines), SizeLine < cut
  PROVE  SizeHeard(answer.lines[k + 1])
<1> DEFINE w == answer.wire
           l == answer.lines[k + 1]
           p == SizeLine
           e == LineEnd(p)
<1>1. /\ Len(w) \in Nat /\ DOMAIN w = 1..Len(w) /\ \A i \in 1..Len(w) : w[i] \in Nat
      /\ w \in Seq(Nat) /\ cut \in Nat /\ cut <= Len(w)
  <2>1. /\ Len(w) \in Nat /\ DOMAIN w = 1..Len(w) /\ \A i \in 1..Len(w) : w[i] \in Nat
    BY AnswerFacts DEF AtChunkEnd, Chunky
  <2> QED  BY <2>1 DEF AtChunkEnd, Chunky, GoodAnswer
<1>2. k + 1 \in 1..Len(answer.lines) /\ (k + 1) - 1 = k
  <2>1. Len(answer.lines) \in Nat
    BY LinesAreThere DEF AtChunkEnd
  <2> QED  BY <2>1 DEF AtChunkEnd
<1>3. LineAt(answer, k + 1)
  BY <1>2, LinesAreThere DEF AtChunkEnd
<1>4. taken \in Nat /\ taken = ChunkEnd(answer, k) /\ taken <= cut
  BY <1>1 DEF AtChunkEnd
<1>5. /\ {l.first, l.last, l.nl, l.size} \subseteq Nat /\ IsSizeLine(w, taken, l)
      /\ l.size = Hex(SubSeq(w, l.first, l.last)) /\ (l.size # 0 => w[l.first] # 0)
  BY <1>2, <1>3, <1>4 DEF LineAt
<1> HIDE DEF w, l
<1>6. p = IF taken < cut /\ w[taken + 1] = NL THEN taken + 1 ELSE taken
  BY <1>1, <1>4, SizeLineIs DEF w
<1>7. taken < cut /\ taken < Len(w) /\ p \in Nat /\ p + 1 = l.first /\ p < cut
  <2>1. taken < cut
    BY <1>1, <1>4, <1>6
  <2>2. l.first = IF taken < Len(w) /\ w[taken + 1] = NL THEN taken + 2 ELSE taken + 1
    BY <1>5 DEF IsSizeLine
  <2>3. taken < Len(w)
    BY <1>1, <1>4, <2>1
  <2>4. CASE w[taken + 1] = NL
    <3>1. p = taken + 1 /\ l.first = taken + 2
      BY <1>6, <2>1, <2>2, <2>3, <2>4
    <3>2. p < cut
      OBVIOUS
    <3> QED  BY <1>4, <2>1, <2>3, <3>1, <3>2
  <2>5. CASE w[taken + 1] # NL
    <3>1. p = taken /\ l.first = taken + 1
      BY <1>6, <2>1, <2>2, <2>3, <2>5
    <3> QED  BY <1>4, <2>1, <2>3, <3>1
  <2> QED  BY <2>4, <2>5
<1>8. /\ l.first <= l.last /\ l.last < l.nl /\ l.nl \in 1..Len(w)
      /\ (\A i \in l.first..l.last : w[i] \in 0..15)
      /\ w[l.last + 1] \in {NL, SEMI} /\ w[l.nl] = NL
      /\ \A i \in (l.last + 1)..(l.nl - 1) : w[i] # NL
  BY <1>1, <1>5 DEF IsSizeLine
<1>9. NL \notin 0..15 /\ SEMI \notin 0..15 /\ NL # SEMI
  BY ClientAssumption
<1>20. l.first \in Nat /\ l.last \in Nat /\ l.nl \in Nat
  BY <1>5
<1> HIDE DEF p
<1>10. e = IF l.nl <= cut THEN l.nl ELSE cut + 1
  <2> DEFINE f == IF l.nl <= cut THEN l.nl ELSE cut + 1
  <2>1. f \in (p + 1)..(cut + 1) /\ (f <= cut => f = l.nl) /\ f <= l.nl
    <3>1. l.first <= l.nl
      BY <1>8, <1>20
    <3>2. CASE l.nl <= cut
      BY <1>1, <1>7, <1>20, <3>1, <3>2
    <3>3. CASE ~(l.nl <= cut)
      BY <1>1, <1>7, <1>20, <3>1, <3>3
    <3> QED  BY <3>2, <3>3
  <2>2. ASSUME NEW q \in (p + 1)..(f - 1)
        PROVE  w[q] # NL
    <3> HIDE DEF f
    <3>2. q \in Nat /\ l.first <= q /\ q < l.nl
      BY <1>1, <1>7, <1>20, <2>1
    <3>1. q \in l.first..l.last \/ q \in (l.last + 1)..(l.nl - 1)
      BY <1>20, <3>2
    <3> QED  BY <1>8, <1>9, <3>1
  <2>3. EndsLine(p, f)
    BY <1>8, <2>1, <2>2 DEF EndsLine, w
  <2> HIDE DEF f
  <2>4. p <= cut
    BY <1>1, <1>7
  <2>5. LineEnd(p) = f
    BY <1>1, <1>7, <2>3, <2>4, LineEndIs
  <2> QED  BY <2>5 DEF f
<1> DEFINE s == IF l.last < e THEN l.last + 1 ELSE e
           d == SubSeq(w, p + 1, s - 1)
<1>11. e \in Nat /\ p < e /\ p + 1 <= s - 1 /\ s \in Nat /\ s <= e /\ s - 1 <= Len(w)
       /\ s - 1 <= l.last
  <2> HIDE DEF e
  <2>1. e \in Nat /\ p < e /\ p + 1 < e /\ e <= Len(w) + 1
    <3>1. /\ p \in Nat /\ cut \in Nat /\ Len(w) \in Nat /\ l.last \in Nat /\ l.nl \in Nat
          /\ p < cut /\ cut <= Len(w) /\ p + 1 <= l.last /\ l.last < l.nl /\ l.nl <= Len(w)
      BY <1>1, <1>7, <1>8, <1>20
    <3>2. CASE l.nl <= cut
      <4>1. e = l.nl
        BY <1>10, <3>2
      <4> QED  BY <3>1, <4>1
    <3>3. CASE ~(l.nl <= cut)
      <4>1. e = cut + 1
        BY <1>10, <3>3
      <4> QED  BY <3>1, <4>1
    <3> QED  BY <3>2, <3>3
  <2>2. CASE l.last < e
    <3>1. s = l.last + 1
      BY <2>2
    <3>2. l.last <= Len(w) /\ p + 1 <= l.last
      BY <1>1, <1>7, <1>8, <1>20
    <3> HIDE DEF s
    <3>3. s \in Nat /\ s - 1 = l.last
      BY <1>20, <3>1
    <3>4. s <= e
      BY <1>20, <2>1, <2>2, <3>1
    <3>5. s - 1 <= Len(w) /\ s - 1 <= l.last /\ p + 1 <= s - 1
      BY <1>20, <3>2, <3>3
    <3> QED  BY <2>1, <3>3, <3>4, <3>5
  <2>3. CASE ~(l.last < e)
    <3>1. s = e
      BY <2>3
    <3> HIDE DEF s
    <3> QED  BY <1>1, <1>7, <1>20, <2>1, <2>3, <3>1
  <2> QED  BY <2>2, <2>3
<1>12. StopsDigits(p, e, s)
  <2>1. s \in (p + 1)..e
    BY <1>7, <1>11
  <2>2. s < e => w[s] = SEMI
    <3> SUFFICES ASSUME s < e PROVE w[s] = SEMI
      OBVIOUS
    <3>1. s = l.last + 1 /\ l.last + 1 < l.nl
      BY <1>1, <1>5, <1>8, <1>10
    <3>2. s \in (l.last + 1)..(l.nl - 1)
      BY <1>5, <3>1
    <3> QED  BY <1>8, <3>1, <3>2
  <2>3. ASSUME NEW q \in (p + 1)..(s - 1)
        PROVE  w[q] # SEMI
    <3>1. q \in l.first..l.last
      BY <1>5, <1>7, <1>11
    <3> QED  BY <1>8, <1>9, <3>1
  <2> HIDE DEF s, e
  <2> QED  BY <2>1, <2>2, <2>3 DEF StopsDigits, w
<1>13. SizeDigits = d
  <2> HIDE DEF s
  <2>1. SizeLine = p /\ LineEnd(p) = e
    BY DEF p
  <2> HIDE DEF e
  <2>2. \A r : StopsDigits(p, e, r) => SizeDigits = SubSeq(answer.wire, p + 1, r - 1)
    BY <1>7, <1>11, <2>1, DigitsAre
  <2> QED  BY <1>12, <2>2 DEF w
<1> HIDE DEF s, e
<1>14. /\ d \in Seq(Nat) /\ Len(d) = s - 1 - p /\ Len(d) \in Nat \ {0}
       /\ \A i \in 1..Len(d) : d[i] = w[p + i] /\ d[i] \in 0..15
  <2>1. p + 1 \in Int /\ s - 1 \in Int /\ \A i \in (p + 1)..(s - 1) : w[i] \in Nat
    BY <1>1, <1>7, <1>11
  <2>2. /\ d \in Seq(Nat)
        /\ Len(d) = IF p + 1 <= s - 1 THEN (s - 1) - (p + 1) + 1 ELSE 0
        /\ \A i \in 1..((s - 1) - (p + 1) + 1) : d[i] = w[(p + 1) + i - 1]
    BY <2>1, SubSeqProperties
  <2> HIDE DEF d
  <2>3. Len(d) = s - 1 - p /\ Len(d) \in Nat \ {0}
    BY <1>7, <1>11, <2>2
  <2>4. ASSUME NEW i \in 1..Len(d)
        PROVE  d[i] = w[p + i] /\ d[i] \in 0..15
    <3>1. i \in 1..((s - 1) - (p + 1) + 1) /\ (p + 1) + i - 1 = p + i
      BY <1>7, <1>11, <2>3
    <3>2. p + i \in l.first..l.last
      BY <1>5, <1>7, <1>11, <2>3
    <3> QED  BY <1>8, <2>2, <3>1, <3>2
  <2> QED  BY <2>2, <2>3, <2>4
<1>15. d # <<>> /\ Range(d) \subseteq 0..15 /\ d[1] = w[l.first]
  <2>1. DOMAIN d = 1..Len(d) /\ d # <<>>
    BY <1>14, LenProperties, EmptySeq
  <2>2. 1 \in 1..Len(d)
    BY <1>14
  <2> HIDE DEF d
  <2>3. d[1] = w[p + 1]
    BY <1>14, <2>2
  <2>4. Range(d) \subseteq 0..15
    BY <1>14, <2>1 DEF Range
  <2>5. d[1] = w[l.first]
    BY <1>7, <2>3
  <2> QED  BY <2>1, <2>4, <2>5
<1>16. ~Malformed
  BY <1>13, <1>15 DEF Malformed
<1>17. Size \in Nat /\ (Size = 0 => l.size = 0)
  <2> HIDE DEF d
  <2>1. Hex(d) \in Nat /\ (d[1] # 0 => Hex(d) # 0)
    BY <1>14, <1>15, HexPositive
  <2>2. Size = Hex(d)
    BY <1>13 DEF Size
  <2> QED  BY <1>5, <1>15, <2>1, <2>2
<1>18. CASE e <= cut
  <2>1. e = l.nl /\ s - 1 = l.last
    BY <1>1, <1>5, <1>8, <1>10, <1>18 DEF s
  <2>2. Size = l.size
    BY <1>5, <1>7, <1>13, <2>1 DEF Size
  <2> QED  BY <1>16, <1>17, <1>18, <2>1, <2>2 DEF SizeHeard, e, l, p
<1>19. CASE ~(e <= cut)
  <2>1. e = cut + 1 /\ cut < l.nl
    BY <1>1, <1>5, <1>10, <1>19
  <2> QED  BY <1>16, <1>17, <1>19, <2>1 DEF SizeHeard, e, l, p
<1> QED  BY <1>18, <1>19

\* After the last size line of an answer that is not sound nothing is taken for one.
LEMMA NothingIsHeard ==
  ASSUME AtChunkEnd(Len(answer.lines)), ~answer.sound, SizeLine < cut, ~Malformed
  PROVE  LineEnd(SizeLine) = cut + 1
<1> DEFINE w == answer.wire
           n == Len(answer.lines)
           p == SizeLine
           e == LineEnd(p)
<1>1. /\ Len(w) \in Nat /\ DOMAIN w = 1..Len(w) /\ \A i \in 1..Len(w) : w[i] \in Nat
      /\ w \in Seq(Nat) /\ cut \in Nat /\ cut <= Len(w)
  <2>1. /\ Len(w) \in Nat /\ DOMAIN w = 1..Len(w) /\ \A i \in 1..Len(w) : w[i] \in Nat
    BY AnswerFacts DEF AtChunkEnd, Chunky
  <2> QED  BY <2>1 DEF AtChunkEnd, Chunky, GoodAnswer
<1>2. taken \in Nat /\ taken = ChunkEnd(answer, n) /\ taken <= cut
  BY <1>1 DEF AtChunkEnd
<1>3. \A l \in [first : DOMAIN w, last : DOMAIN w, nl : DOMAIN w] : ~IsSizeLine(w, taken, l)
  <2>1. Framed(answer)
    BY DEF AtChunkEnd, Chunky, GoodAnswer
  <2> QED  BY <1>2, <2>1 DEF Framed
<1>4. p = IF taken < cut /\ w[taken + 1] = NL THEN taken + 1 ELSE taken
  BY <1>1, <1>2, SizeLineIs DEF w
<1>5. taken < cut /\ taken < Len(w) /\ p \in Nat /\ p < cut
  BY <1>1, <1>2, <1>4
<1>6. EndsLine(p, e)
  <2>1. p <= cut
    BY <1>1, <1>5
  <2> QED  BY <1>1, <1>5, <2>1, LineEndIs
<1>7. e \in (p + 1)..(cut + 1) /\ (e <= cut => w[e] = NL)
  BY <1>6 DEF EndsLine, w
<1>22. e = cut + 1 \/ e <= cut
  <2> HIDE DEF e, p
  <2>1. p \in Nat /\ cut \in Nat
    BY <1>1, <1>5
  <2>2. e \in (p + 1)..(cut + 1)
    BY <1>7
  <2> QED  BY <2>1, <2>2
<1> SUFFICES ASSUME e <= cut PROVE FALSE
  BY <1>22
<1>8. w[e] = NL /\ e \in Nat /\ p < e /\ e <= Len(w)
  BY <1>1, <1>5, <1>7
<1>9. PICK s : StopsDigits(p, e, s) /\ SizeDigits = SubSeq(answer.wire, p + 1, s - 1)
  <2>1. SizeLine = p /\ LineEnd(p) = e
    OBVIOUS
  <2> HIDE DEF e, p
  <2> QED  BY <1>5, <1>8, <2>1, DigitsAre
<1> DEFINE d == SubSeq(w, p + 1, s - 1)
<1>10. SizeDigits = d
  BY <1>9 DEF w
<1> HIDE DEF w, p, e
<1>11. s \in Nat /\ p + 1 <= s /\ s <= e /\ (s < e => w[s] = SEMI)
  BY <1>5, <1>8, <1>9 DEF StopsDigits, w
<1>12. /\ d \in Seq(Nat) /\ Len(d) = s - 1 - p /\ Len(d) \in Nat
       /\ \A i \in 1..Len(d) : d[i] = w[p + i]
  <2>1. p + 1 \in Int /\ s - 1 \in Int /\ \A i \in (p + 1)..(s - 1) : w[i] \in Nat
    <3>1. \A i \in (p + 1)..(s - 1) : i \in 1..Len(w)
      BY <1>1, <1>5, <1>8, <1>11
    <3> QED  BY <1>1, <1>5, <1>11, <3>1
  <2>2. /\ d \in Seq(Nat)
        /\ Len(d) = IF p + 1 <= s - 1 THEN (s - 1) - (p + 1) + 1 ELSE 0
        /\ \A i \in 1..((s - 1) - (p + 1) + 1) : d[i] = w[(p + 1) + i - 1]
    BY <2>1, SubSeqProperties
  <2> HIDE DEF d
  <2>3. Len(d) = s - 1 - p /\ Len(d) \in Nat
    BY <1>5, <1>11, <2>2
  <2>4. ASSUME NEW i \in 1..Len(d)
        PROVE  d[i] = w[p + i]
    <3>1. i \in 1..((s - 1) - (p + 1) + 1) /\ (p + 1) + i - 1 = p + i
      BY <1>5, <1>11, <2>3
    <3> QED  BY <2>2, <3>1
  <2> QED  BY <2>2, <2>3, <2>4
<1>13. d # <<>> /\ Range(d) \subseteq 0..15
  BY <1>10 DEF Malformed
<1>14. Len(d) # 0 /\ \A i \in 1..Len(d) : d[i] \in 0..15
  <2> HIDE DEF d
  <2>1. Len(d) # 0 /\ DOMAIN d = 1..Len(d)
    BY <1>12, <1>13, LenProperties, EmptySeq
  <2> QED  BY <1>13, <2>1 DEF Range
<1> HIDE DEF d
<1> DEFINE l == [first |-> p + 1, last |-> s - 1, nl |-> e]
<1>15. p + 1 <= s - 1 /\ s - 1 < e /\ s - 1 \in Nat /\ (s - 1) + 1 = s
  BY <1>5, <1>8, <1>11, <1>12, <1>14
<1>16. l \in [first : DOMAIN w, last : DOMAIN w, nl : DOMAIN w]
  <2>1. p + 1 \in 1..Len(w) /\ s - 1 \in 1..Len(w) /\ e \in 1..Len(w)
    BY <1>1, <1>5, <1>8, <1>15
  <2> QED  BY <1>1, <2>1
<1>17. p + 1 = IF taken < Len(w) /\ w[taken + 1] = NL THEN taken + 2 ELSE taken + 1
  BY <1>2, <1>4, <1>5
<1>18. ASSUME NEW i \in (p + 1)..(s - 1)
       PROVE  w[i] \in 0..15
  <2>1. i - p \in 1..Len(d) /\ p + (i - p) = i
    BY <1>5, <1>11, <1>12, <1>15
  <2>2. d[i - p] = w[p + (i - p)]
    BY <1>12, <2>1
  <2> QED  BY <1>14, <2>1, <2>2
<1>19. ASSUME NEW i \in s..(e - 1)
       PROVE  w[i] # NL
  <2>1. i \in (p + 1)..(e - 1)
    BY <1>5, <1>8, <1>11
  <2> QED  BY <1>6, <2>1 DEF EndsLine, w
<1>20. w[s] \in {NL, SEMI}
  <2>1. CASE s = e
    BY <1>8, <2>1
  <2>2. CASE s < e
    BY <1>11, <2>2
  <2> QED  BY <1>8, <1>11, <2>1, <2>2
<1>21. IsSizeLine(w, taken, l)
  <2>1. e \in DOMAIN w
    BY <1>1, <1>5, <1>8
  <2>2. l.first = p + 1 /\ l.last = s - 1 /\ l.nl = e
    OBVIOUS
  <2> HIDE DEF l
  <2> QED  BY <1>8, <1>15, <1>17, <1>18, <1>19, <1>20, <2>1, <2>2 DEF IsSizeLine
<1> QED  BY <1>3, <1>16, <1>21

-----------------------------------------------------------------------------
(* EngineClient: what has been read is the body's own bytes. *)

\* How much of an answer's data there must be in g, which ended as how says when c
\* symbols had come.
EndedAs(a, c, g, how) ==
  /\ how = "clean" /\ a.kind # "toclose" => g = DataUpTo(a, Len(a.wire))
  /\ how \in {"clean", "short"} => g = DataUpTo(a, c)
  /\ how = "malformed" => ~a.sound

\* t symbols into answer a, with l left, reading is in its chunk k or at the end of
\* it, or where it begins if k is 0; of a known length so much is left.
InChunk(a, t, l, k) ==
  /\ t + l = ChunkEnd(a, k)
  /\ k # 0 => a.lines[k].nl <= t /\ a.lines[k].size # 0

Located(a, t, l) ==
  /\ a.kind = "chunked" => \E k \in 0..Len(a.lines) : InChunk(a, t, l, k)
  /\ a.kind = "length" => t + l = a.length

\* An inductive invariant: what has been read is the data up to where reading is, and
\* while it goes on that is a place that the answer's framing knows.
DecodeInv ==
  /\ ClientTypeOK
  /\ answer \in Answers[purpose]
  /\ got = DataUpTo(answer, taken)
  /\ asking => taken = 0 /\ left = 0 /\ cut = 0 /\ ending = "none"
  /\ ~asking /\ ending = "none" => Located(answer, taken, left)
  /\ EndedAs(answer, cut, got, ending)

LEMMA DataInIs == \A n : DataIn(n) = DataUpTo(answer, n)
BY DEF DataIn, DataUpTo

LEMMA DecodeInvDecodes == DecodeInv => Decoded
<1> SUFFICES ASSUME DecodeInv PROVE Decoded
  OBVIOUS
<1>1. GoodAnswer(answer)
  BY AnswersAreGood DEF DecodeInv, ClientTypeOK
<1>2. taken \in Nat /\ cut \in Nat /\ taken <= cut
  <2>1. Len(answer.wire) \in Nat
    BY <1>1, AnswerFacts
  <2> QED  BY <2>1 DEF DecodeInv, ClientTypeOK
<1>3. IsPrefix(got, DataIn(cut))
  BY <1>1, <1>2, DataBegins, DataInIs DEF DecodeInv
<1>4. EndedAs(answer, cut, got, ending)
  BY DEF DecodeInv
<1> QED  BY <1>3, <1>4, DataInIs DEF EndedAs, Decoded, Data

LEMMA DecodeBegins == ClientInit => DecodeInv
<1> SUFFICES ASSUME ClientInit PROVE DecodeInv
  OBVIOUS
<1>1. GoodAnswer(answer)
  BY AnswersAreGood DEF ClientInit
<1>2. Len(answer.wire) \in Nat
  BY <1>1, AnswerFacts
<1>3. DataUpTo(answer, 0) = <<>>
  BY <1>1, DataBegins
<1>4. got = <<>> /\ Len(got) = 0 /\ got \in Seq(Nat)
  BY DEF ClientInit
<1>5. ClientTypeOK
  <2>1. asking \in BOOLEAN /\ done \in BOOLEAN
    BY Zenon DEF ClientInit
  <2>2. cut \in 0..Len(answer.wire) /\ taken \in 0..cut /\ left \in Nat /\ hop \in 0..1
    BY <1>2 DEF ClientInit
  <2>3. Len(got) <= TextLimit
    BY <1>4, ClientAssumption
  <2>4. purpose \in Purposes /\ ending = "none" /\ verdict = "none"
    BY DEF ClientInit
  <2> QED  BY <1>4, <2>1, <2>2, <2>3, <2>4 DEF ClientTypeOK
<1>6. EndedAs(answer, cut, got, ending)
  BY DEF ClientInit, EndedAs
<1> QED  BY <1>3, <1>4, <1>5, <1>6 DEF ClientInit, DecodeInv

Endings == {"none", "clean", "short", "malformed", "stalled", "limit", "refused"}
Verdicts == {"none", "session", "direct", "error", "stats", "stopped"}

\* The end of reading, and what follows.
LEMMA EndKeeps ==
  ASSUME DecodeInv, UNCHANGED <<purpose, hop, answer, cut, taken, left, got>>,
         asking' = FALSE, done' \in BOOLEAN, ending' \in Endings \ {"none"},
         verdict' \in Verdicts, EndedAs(answer, cut, got, ending')
  PROVE  DecodeInv'
<1>1. ClientTypeOK'
  BY DEF DecodeInv, ClientTypeOK, Endings, Verdicts
<1>2. EndedAs(answer, cut, got, ending)'
  BY DEF EndedAs
<1>3. (answer \in Answers[purpose])' /\ (got = DataUpTo(answer, taken))'
  BY DEF DecodeInv
<1> QED  BY <1>1, <1>2, <1>3 DEF DecodeInv, Endings

LEMMA SmallestOfTwo ==
  ASSUME NEW x \in Nat, NEW y \in Nat
  PROVE  Smallest({x, y}) \in Nat /\ Smallest({x, y}) <= x /\ Smallest({x, y}) <= y
<1>1. {x, y} \in SUBSET Nat /\ {x, y} # {}
  OBVIOUS
<1>2. Smallest({x, y}) \in {x, y} /\ \A n \in {x, y} : Smallest({x, y}) <= n
  BY <1>1, SmallestFacts
<1> QED  BY <1>2

LEMMA SmallestOfThree ==
  ASSUME NEW x \in Nat, NEW y \in Nat, NEW z \in Nat
  PROVE  /\ Smallest({x, y, z}) \in Nat /\ Smallest({x, y, z}) <= x
         /\ Smallest({x, y, z}) <= y /\ Smallest({x, y, z}) <= z
<1>1. {x, y, z} \in SUBSET Nat /\ {x, y, z} # {}
  OBVIOUS
<1>2. Smallest({x, y, z}) \in {x, y, z} /\ \A n \in {x, y, z} : Smallest({x, y, z}) <= n
  BY <1>1, SmallestFacts
<1> QED  BY <1>2

\* The client asks for no more than the text may have.
LEMMA WantedIsAllowed ==
  ASSUME DecodeInv, NEW b \in Buffers
  PROVE  Wanted(b) \in Nat /\ (purpose # "stream" => Wanted(b) <= TextLimit - Len(got))
<1>1. b \in Nat /\ TextLimit \in Nat /\ Len(got) \in Nat
  BY ClientAssumption, LenProperties DEF DecodeInv, ClientTypeOK
<1>2. CASE purpose = "stream"
  BY <1>1, <1>2 DEF Wanted
<1>3. CASE purpose # "stream"
  <2>1. TextLimit - Len(got) \in Nat
    BY <1>1, <1>3 DEF DecodeInv, ClientTypeOK
  <2>2. Wanted(b) = Smallest({b, TextLimit - Len(got)})
    BY <1>3 DEF Wanted
  <2> QED  BY <1>1, <2>1, <2>2, SmallestOfTwo
<1> QED  BY <1>2, <1>3

\* Some bytes of a run of data that begins after p: what is left is known.
LEMMA SomeKeeps ==
  ASSUME DecodeInv, Reading, NEW b \in Buffers, NEW p \in Nat, p < cut,
         NEW limit \in Nat \ {0}, Some(p, b, limit),
         UNCHANGED <<purpose, hop, asking, answered, verdict>>,
         got = DataUpTo(answer, p),
         \A i \in 1..limit : p + i <= Len(answer.wire) => IsData(answer, p + i),
         \A t \in Nat, l \in Nat : p < t /\ t + l = p + limit => Located(answer, t, l)
  PROVE  DecodeInv'
<1>1. GoodAnswer(answer)
  BY AnswersAreGood DEF DecodeInv, ClientTypeOK
<1>2. Len(answer.wire) \in Nat /\ cut \in Nat /\ cut <= Len(answer.wire)
  <2>1. Len(answer.wire) \in Nat
    BY <1>1, AnswerFacts
  <2> QED  BY <2>1 DEF DecodeInv, ClientTypeOK
<1>3. PICK n \in 1..Smallest({Wanted(b), limit, cut - p}) :
        /\ got' = got \o SubSeq(answer.wire, p + 1, p + n)
        /\ taken' = p + n
        /\ left' = limit - n
        /\ UNCHANGED <<done, ending>>
  BY DEF Some
<1>4. n \in Nat /\ n > 0 /\ n <= Wanted(b) /\ n <= limit /\ n <= cut - p /\ Wanted(b) \in Nat
  <2>1. Wanted(b) \in Nat /\ limit \in Nat /\ cut - p \in Nat
    BY <1>2, WantedIsAllowed
  <2> DEFINE m == Smallest({Wanted(b), limit, cut - p})
  <2>2. m \in Nat /\ m <= Wanted(b) /\ m <= limit /\ m <= cut - p
    BY <2>1, SmallestOfThree
  <2>3. n \in 1..m
    BY <1>3
  <2> HIDE DEF m
  <2> QED  BY <1>2, <2>1, <2>2, <2>3
<1>5. p + n <= Len(answer.wire) /\ p + n \in Nat
  BY <1>2, <1>4
<1>6. DataFrom(answer, p, n)
  <2> SUFFICES ASSUME NEW i \in 1..n PROVE p + i <= Len(answer.wire) /\ IsData(answer, p + i)
    BY DEF DataFrom
  <2>1. i \in 1..limit /\ p + i <= Len(answer.wire)
    BY <1>2, <1>4, <1>5
  <2> QED  BY <2>1
<1>7. got' = DataUpTo(answer, p + n)
  <2>1. Cat(DataUpTo(answer, p), SubSeq(answer.wire, p + 1, p + n)) = DataUpTo(answer, p + n)
    BY <1>1, <1>4, <1>5, <1>6, DataTakes
  <2> QED  BY <1>3, <2>1 DEF Cat
<1>8. got' \in Seq(Nat) /\ Len(got') = Len(got) + n
  <2>1. got \in Seq(Nat)
    BY DEF DecodeInv, ClientTypeOK
  <2> DEFINE s == SubSeq(answer.wire, p + 1, p + n)
  <2>2. s \in Seq(Nat) /\ Len(s) = n
    <3>1. p + 1 \in Int /\ p + n \in Int /\ \A i \in (p + 1)..(p + n) : answer.wire[i] \in Nat
      <4>1. \A i \in 1..Len(answer.wire) : answer.wire[i] \in Nat
        BY <1>1, AnswerFacts
      <4>2. \A i \in (p + 1)..(p + n) : i \in 1..Len(answer.wire)
        BY <1>2, <1>4, <1>5
      <4> QED  BY <1>4, <4>1, <4>2
    <3>2. s \in Seq(Nat) /\ Len(s) = IF p + 1 <= p + n THEN (p + n) - (p + 1) + 1 ELSE 0
      BY <3>1, SubSeqProperties
    <3> HIDE DEF s
    <3> QED  BY <1>4, <3>2
  <2>3. got' = Cat(got, s)
    BY <1>3 DEF Cat
  <2> HIDE DEF s
  <2> QED  BY <2>1, <2>2, <2>3, CatFacts
<1>9. /\ taken' \in 0..cut /\ left' \in Nat
      /\ purpose # "stream" => Len(got') <= TextLimit
  <2>1. taken' \in 0..cut /\ left' \in Nat
    BY <1>2, <1>3, <1>4
  <2>2. ASSUME purpose # "stream"
        PROVE  Len(got') <= TextLimit
    <3>1. Wanted(b) <= TextLimit - Len(got) /\ TextLimit \in Nat /\ Len(got) \in Nat
      BY <2>2, WantedIsAllowed, ClientAssumption, LenProperties DEF DecodeInv, ClientTypeOK
    <3> QED  BY <1>4, <1>8, <3>1
  <2> QED  BY <2>1, <2>2
<1>10. UNCHANGED <<purpose, hop, asking, answer, cut, done, ending, verdict>>
  BY <1>3 DEF answered
<1>11. ClientTypeOK'
  BY <1>8, <1>9, <1>10 DEF DecodeInv, ClientTypeOK
<1>12. Located(answer, taken', left')
  <2>1. taken' \in Nat /\ left' \in Nat /\ p < taken' /\ taken' + left' = p + limit
    BY <1>3, <1>4, <1>5
  <2> QED  BY <2>1
<1>13. ending = "none" /\ ~asking
  BY DEF Reading
<1>14. EndedAs(answer, cut, got, ending)'
  BY <1>10, <1>13 DEF EndedAs
<1>15. (answer \in Answers[purpose])' /\ (got = DataUpTo(answer, taken))'
  BY <1>3, <1>7, <1>10 DEF DecodeInv
<1>16. Located(answer, taken, left)'
  BY <1>10, <1>12
<1> QED  BY <1>10, <1>11, <1>13, <1>14, <1>15, <1>16 DEF DecodeInv

\* What every read begins with.
LEMMA ReadingFacts ==
  ASSUME DecodeInv, Reading
  PROVE  /\ GoodAnswer(answer) /\ Len(answer.wire) \in Nat
         /\ cut \in Nat /\ cut <= Len(answer.wire) /\ taken \in Nat /\ taken <= cut
         /\ left \in Nat /\ ~asking /\ ending = "none" /\ done \in BOOLEAN
         /\ got = DataUpTo(answer, taken) /\ Located(answer, taken, left)
<1>1. GoodAnswer(answer)
  BY AnswersAreGood DEF DecodeInv, ClientTypeOK
<1>2. Len(answer.wire) \in Nat
  BY <1>1, AnswerFacts
<1>3. cut \in 0..Len(answer.wire) /\ taken \in 0..cut
  BY DEF DecodeInv, ClientTypeOK
<1> QED  BY <1>1, <1>2, <1>3 DEF DecodeInv, ClientTypeOK, Reading

\* Reading ends, and rightly so.
LEMMA EndsKeep ==
  ASSUME DecodeInv, Reading, NEW how \in Endings \ {"none"}, Ends(how), done' \in BOOLEAN,
         UNCHANGED <<purpose, hop, asking, answered, verdict>>,
         EndedAs(answer, cut, got, how)
  PROVE  DecodeInv'
<1>1. /\ UNCHANGED <<purpose, hop, answer, cut, taken, left, got>> /\ ending' = how
      /\ asking' = FALSE /\ verdict' \in Verdicts
  BY DEF Ends, answered, Reading, DecodeInv, ClientTypeOK, Verdicts
<1> QED  BY <1>1, EndKeeps

\* It ends where all that came has been read but symbols of the framing.
LEMMA ShortKeeps ==
  ASSUME DecodeInv, Reading, Ends("short"), done' \in BOOLEAN,
         UNCHANGED <<purpose, hop, asking, answered, verdict>>,
         \A i \in (taken + 1)..cut : ~IsData(answer, i)
  PROVE  DecodeInv'
<1>1. DataUpTo(answer, taken) = DataUpTo(answer, cut)
  BY ReadingFacts, FramingSkips
<1>2. EndedAs(answer, cut, got, "short")
  BY <1>1, ReadingFacts DEF EndedAs
<1> QED  BY <1>2, EndsKeep DEF Endings

\* It ends where the body does.
LEMMA CleanKeeps ==
  ASSUME DecodeInv, Reading, Ends("clean"), done' \in BOOLEAN,
         UNCHANGED <<purpose, hop, asking, answered, verdict>>,
         \A i \in (taken + 1)..Len(answer.wire) : ~IsData(answer, i)
  PROVE  DecodeInv'
<1>1. DataUpTo(answer, taken) = DataUpTo(answer, Len(answer.wire))
  <2>1. taken <= Len(answer.wire)
    BY ReadingFacts
  <2> QED  BY <2>1, ReadingFacts, FramingSkips
<1>2. DataUpTo(answer, taken) = DataUpTo(answer, cut)
  <2>1. \A i \in (taken + 1)..cut : i \in (taken + 1)..Len(answer.wire)
    BY ReadingFacts
  <2> QED  BY <2>1, ReadingFacts, FramingSkips
<1>3. EndedAs(answer, cut, got, "clean")
  BY <1>1, <1>2, ReadingFacts DEF EndedAs
<1> QED  BY <1>3, EndsKeep DEF Endings

LEMMA ReadToCloseKeeps ==
  ASSUME DecodeInv, Reading, NEW b \in Buffers, ReadToClose(b),
         UNCHANGED <<purpose, hop, asking, answered, verdict>>
  PROVE  DecodeInv'
<1>1. answer.kind = "toclose"
  BY DEF ReadToClose
<1>2. CASE taken = cut /\ Ends("clean") /\ UNCHANGED done
  <2>1. EndedAs(answer, cut, got, "clean")
    BY <1>1, <1>2, ReadingFacts DEF EndedAs
  <2>2. done' \in BOOLEAN
    BY <1>2, ReadingFacts
  <2> QED  BY <1>2, <2>1, <2>2, EndsKeep DEF Endings
<1>3. CASE taken < cut /\ Some(taken, b, cut - taken)
  <2>1. cut - taken \in Nat \ {0}
    BY <1>3, ReadingFacts
  <2>2. \A i \in 1..(cut - taken) : IsData(answer, taken + i)
    BY <1>1 DEF IsData
  <2>3. \A t \in Nat, l \in Nat : Located(answer, t, l)
    BY <1>1 DEF Located
  <2> QED  BY <1>3, <2>1, <2>2, <2>3, ReadingFacts, SomeKeeps
<1> QED  BY <1>2, <1>3 DEF ReadToClose

LEMMA ReadLengthKeeps ==
  ASSUME DecodeInv, Reading, NEW b \in Buffers, ReadLength(b),
         UNCHANGED <<purpose, hop, asking, answered, verdict>>
  PROVE  DecodeInv'
<1>1. answer.kind = "length" /\ answer.length \in Nat /\ taken + left = answer.length
  BY ReadingFacts DEF ReadLength, GoodAnswer, Located
<1>2. \A i : IsData(answer, i) <=> i <= answer.length
  BY <1>1 DEF IsData
<1>3. CASE left = 0 /\ done' = TRUE /\ Ends("clean")
  <2>1. \A i \in (taken + 1)..Len(answer.wire) : ~IsData(answer, i)
    BY <1>1, <1>2, <1>3, ReadingFacts
  <2> QED  BY <1>3, <2>1, CleanKeeps
<1>4. CASE left > 0 /\ taken = cut /\ Short
  <2>1. \A i \in (taken + 1)..cut : ~IsData(answer, i)
    BY <1>4, ReadingFacts
  <2> QED  BY <1>4, <2>1, ShortKeeps DEF Short
<1>5. CASE left > 0 /\ taken < cut /\ Some(taken, b, left)
  <2>1. left \in Nat \ {0}
    BY <1>5, ReadingFacts
  <2>2. \A i \in 1..left : IsData(answer, taken + i)
    BY <1>1, <1>2, ReadingFacts
  <2>3. \A t \in Nat, l \in Nat : t + l = taken + left => Located(answer, t, l)
    BY <1>1 DEF Located
  <2> QED  BY <1>5, <2>1, <2>2, <2>3, ReadingFacts, SomeKeeps
<1> QED  BY <1>3, <1>4, <1>5 DEF ReadLength

\* In chunk k: what is read is of it, and there is as much less left of it.
LEMMA ChunkKeeps ==
  ASSUME DecodeInv, Reading, NEW b \in Buffers, answer.kind = "chunked",
         NEW k \in 1..Len(answer.lines), NEW p \in Nat, NEW limit \in Nat \ {0},
         answer.lines[k].nl <= p, answer.lines[k].size # 0, p + limit = ChunkEnd(answer, k),
         p < cut, Some(p, b, limit), got = DataUpTo(answer, p),
         UNCHANGED <<purpose, hop, asking, answered, verdict>>
  PROVE  DecodeInv'
<1>1. Chunky(answer)
  BY ReadingFacts DEF Chunky
<1>2. answer.lines[k].nl \in Nat /\ ChunkEnd(answer, k) \in Nat /\ k \in 0..Len(answer.lines)
  <2>1. answer.lines[k].nl \in Nat /\ k \in 0..Len(answer.lines)
    BY <1>1, LineIsAfter, LinesAreThere
  <2> QED  BY <1>1, <2>1, LinesAreThere
<1>3. ASSUME NEW i \in 1..limit
      PROVE  IsData(answer, p + i)
  <2>1. i \in Nat /\ 1 <= i /\ i <= limit
    OBVIOUS
  <2>2. p + i \in Nat /\ p + i <= p + limit
    BY <2>1
  <2>3. answer.lines[k].nl < p + i
    BY <1>2, <2>1
  <2> QED  BY <1>1, <2>2, <2>3, ChunksAreData
<1>4. ASSUME NEW t \in Nat, NEW l \in Nat, p < t, t + l = p + limit
      PROVE  Located(answer, t, l)
  <2>1. answer.lines[k].nl <= t
    BY <1>2, <1>4
  <2>2. InChunk(answer, t, l, k)
    BY <1>4, <2>1 DEF InChunk
  <2> QED  BY <1>2, <2>2 DEF Located
<1> QED  BY <1>3, <1>4, SomeKeeps

LEMMA ReadChunkKeeps ==
  ASSUME DecodeInv, Reading, NEW b \in Buffers, ReadChunk(b),
         UNCHANGED <<purpose, hop, asking, answered, verdict>>
  PROVE  DecodeInv'
<1>1. answer.kind = "chunked" /\ left > 0
  BY DEF ReadChunk
<1>2. Chunky(answer) /\ Len(answer.lines) \in Nat
  <2>1. Chunky(answer)
    BY <1>1, ReadingFacts DEF Chunky
  <2> QED  BY <2>1, LinesAreThere
<1>3. PICK k \in 0..Len(answer.lines) : InChunk(answer, taken, left, k)
  BY <1>1, ReadingFacts DEF Located
<1>4. k # 0
  <2> SUFFICES ASSUME k = 0 PROVE FALSE
    OBVIOUS
  <2>1. taken + left = 0
    BY <1>3 DEF InChunk, ChunkEnd
  <2> QED  BY <1>1, <2>1, ReadingFacts
<1>5. CASE taken = cut /\ Short
  <2>1. \A i \in (taken + 1)..cut : ~IsData(answer, i)
    BY <1>5, ReadingFacts
  <2> QED  BY <1>5, <2>1, ShortKeeps DEF Short
<1>6. CASE taken < cut /\ Some(taken, b, left)
  <2>1. k \in 1..Len(answer.lines) /\ left \in Nat \ {0}
    BY <1>1, <1>2, <1>4, ReadingFacts
  <2>2. /\ answer.lines[k].nl <= taken /\ answer.lines[k].size # 0
        /\ taken + left = ChunkEnd(answer, k)
    BY <1>3, <1>4 DEF InChunk
  <2> QED  BY <1>1, <1>6, <2>1, <2>2, ReadingFacts, ChunkKeeps
<1> QED  BY <1>5, <1>6 DEF ReadChunk

\* Where a size line is due, the chunk it is after, and what there is then.
LEMMA BetweenChunks ==
  ASSUME DecodeInv, Reading, answer.kind = "chunked", left = 0
  PROVE  \E k \in 0..Len(answer.lines) :
           /\ AtChunkEnd(k)
           /\ k = Len(answer.lines) => ~answer.sound /\ \A i \in Nat : taken < i => ~IsData(answer, i)
           /\ k < Len(answer.lines) =>
                /\ LineAt(answer, k + 1) /\ taken < answer.lines[k + 1].nl
                /\ \A i \in (taken + 1)..answer.lines[k + 1].nl : ~IsData(answer, i)
<1>1. Chunky(answer) /\ Len(answer.lines) \in Nat
  <2>1. Chunky(answer)
    BY ReadingFacts DEF Chunky
  <2> QED  BY <2>1, LinesAreThere
<1>2. PICK k \in 0..Len(answer.lines) : InChunk(answer, taken, left, k)
  BY ReadingFacts DEF Located
<1>3. taken = ChunkEnd(answer, k) /\ (k # 0 => answer.lines[k].size # 0)
  BY <1>2, ReadingFacts DEF InChunk
<1>4. AtChunkEnd(k)
  BY <1>1, <1>3, ReadingFacts DEF AtChunkEnd
<1>5. ASSUME k = Len(answer.lines)
      PROVE  ~answer.sound /\ \A i \in Nat : taken < i => ~IsData(answer, i)
  <2>1. Framed(answer)
    BY <1>1 DEF Chunky, GoodAnswer
  <2>2. answer.sound = (Len(answer.lines) > 0 /\ answer.lines[Len(answer.lines)].size = 0)
    BY <2>1 DEF Framed
  <2>3. ~(k > 0 /\ answer.lines[k].size = 0)
    BY <1>3, <1>1
  <2>4. ~answer.sound
    BY <1>5, <2>2, <2>3, Zenon
  <2> QED  BY <1>1, <1>3, <1>5, <2>4, NoDataAfter
<1>6. ASSUME k < Len(answer.lines)
      PROVE  /\ LineAt(answer, k + 1) /\ taken < answer.lines[k + 1].nl
             /\ \A i \in (taken + 1)..answer.lines[k + 1].nl : ~IsData(answer, i)
  <2>1. k + 1 \in 1..Len(answer.lines) /\ (k + 1) - 1 = k
    BY <1>1, <1>6
  <2>2. LineAt(answer, k + 1)
    BY <1>1, <2>1, LinesAreThere
  <2>3. ChunkEnd(answer, (k + 1) - 1) < answer.lines[k + 1].nl /\ answer.lines[k + 1].nl \in Nat
    BY <1>1, <2>1, LineIsAfter
  <2>4. ASSUME NEW i \in (taken + 1)..answer.lines[k + 1].nl
        PROVE  ~IsData(answer, i)
    <3>1. i \in Nat /\ ChunkEnd(answer, (k + 1) - 1) < i /\ i <= answer.lines[k + 1].nl
      BY <1>3, <2>1, <2>3, ReadingFacts
    <3> QED  BY <1>1, <2>1, <3>1, NoDataBetween
  <2> QED  BY <1>3, <2>1, <2>2, <2>3, <2>4
<1> QED  BY <1>4, <1>5, <1>6

LEMMA ReadSizeKeeps ==
  ASSUME DecodeInv, Reading, NEW b \in Buffers, ReadSize(b),
         UNCHANGED <<purpose, hop, asking, answered, verdict>>
  PROVE  DecodeInv'
<1>1. answer.kind = "chunked" /\ left = 0
  BY DEF ReadSize
<1> DEFINE n == Len(answer.lines)
           e == LineEnd(SizeLine)
<1>2. PICK k \in 0..n :
        /\ AtChunkEnd(k)
        /\ k = n => ~answer.sound /\ \A i \in Nat : taken < i => ~IsData(answer, i)
        /\ k < n =>
             /\ LineAt(answer, k + 1) /\ taken < answer.lines[k + 1].nl
             /\ \A i \in (taken + 1)..answer.lines[k + 1].nl : ~IsData(answer, i)
  BY <1>1, BetweenChunks
<1>3. Chunky(answer) /\ n \in Nat /\ (k < n \/ k = n)
  <2>1. Chunky(answer)
    BY <1>2 DEF AtChunkEnd
  <2>2. n \in Nat
    BY <2>1, LinesAreThere
  <2> QED  BY <2>1, <2>2
<1> DEFINE l == answer.lines[k + 1]
<1>4. SizeLine \in {taken, taken + 1} /\ SizeLine \in Nat /\ taken <= SizeLine
  BY SizeLineIs, ReadingFacts
<1>5. k < n => l.nl \in Nat /\ l.size \in Nat /\ (l.size = 0 => k + 1 = n)
                 /\ ChunkEnd(answer, k + 1) = l.nl + l.size
  BY <1>2 DEF LineAt
<1> HIDE DEF l
<1>6. ASSUME NEW c \in Nat, k < n => c <= l.nl
      PROVE  \A i \in (taken + 1)..c : ~IsData(answer, i)
  <2> SUFFICES ASSUME NEW i \in (taken + 1)..c PROVE ~IsData(answer, i)
    OBVIOUS
  <2>1. i \in Nat /\ taken < i /\ i <= c
    BY ReadingFacts
  <2>2. CASE k = n
    BY <1>2, <2>1, <2>2
  <2>3. CASE k < n
    <3>1. i \in (taken + 1)..l.nl
      BY <1>5, <1>6, <2>1, <2>3, ReadingFacts
    <3> QED  BY <1>2, <2>3, <3>1 DEF l
  <2> QED  BY <1>3, <2>2, <2>3
<1>7. ASSUME SizeLine < cut, ~Malformed
      PROVE  /\ k < n => SizeHeard(l)
             /\ k = n => e = cut + 1
  <2>1. k < n => SizeHeard(l)
    BY <1>2, <1>7, SizeIsHeard DEF l
  <2>2. k = n => e = cut + 1
    BY <1>2, <1>7, NothingIsHeard
  <2> QED  BY <2>1, <2>2
<1>8. CASE SizeLine = cut /\ Ends("short") /\ UNCHANGED done
  <2>1. k < n => cut <= l.nl
    BY <1>2, <1>4, <1>5, <1>8, ReadingFacts DEF l
  <2>2. \A i \in (taken + 1)..cut : ~IsData(answer, i)
    BY <1>6, <2>1, ReadingFacts
  <2>3. done' \in BOOLEAN
    BY <1>8, ReadingFacts
  <2> QED  BY <1>8, <2>2, <2>3, ShortKeeps
<1>9. CASE SizeLine < cut /\ Malformed /\ Ends("malformed") /\ UNCHANGED done
  <2>1. ~(k < n)
    <3> SUFFICES ASSUME k < n PROVE FALSE
      OBVIOUS
    <3>1. SizeHeard(l)
      BY <1>2, <1>9, SizeIsHeard DEF l
    <3> QED  BY <1>9, <3>1 DEF SizeHeard
  <2>2. EndedAs(answer, cut, got, "malformed")
    BY <1>2, <1>3, <2>1 DEF EndedAs
  <2>3. done' \in BOOLEAN
    BY <1>9, ReadingFacts
  <2> QED  BY <1>9, <2>2, <2>3, EndsKeep DEF Endings
<1>10. CASE SizeLine < cut /\ ~Malformed /\ Size = 0 /\ done' = TRUE /\ Ends("clean")
  <2>1. k < n => k + 1 = n /\ l.nl = ChunkEnd(answer, n)
    <3> SUFFICES ASSUME k < n PROVE k + 1 = n /\ l.nl = ChunkEnd(answer, n)
      OBVIOUS
    <3>1. l.size = 0
      BY <1>7, <1>10 DEF SizeHeard
    <3> QED  BY <1>5, <3>1
  <2>2. ASSUME NEW i \in (taken + 1)..Len(answer.wire)
        PROVE  ~IsData(answer, i)
    <3>1. i \in Nat /\ taken < i
      BY ReadingFacts
    <3>2. CASE k = n
      BY <1>2, <3>1, <3>2
    <3>3. CASE k < n /\ i <= l.nl
      <4>1. i \in (taken + 1)..l.nl
        BY <1>5, <3>1, <3>3, ReadingFacts
      <4> QED  BY <1>6, <1>5, <3>3, <4>1
    <3>4. CASE k < n /\ ~(i <= l.nl)
      <4>1. ChunkEnd(answer, n) < i
        BY <1>5, <2>1, <3>1, <3>4
      <4> QED  BY <1>3, <3>1, <4>1, NoDataAfter
    <3> QED  BY <1>3, <3>2, <3>3, <3>4
  <2>3. done' \in BOOLEAN
    BY <1>10
  <2> QED  BY <1>10, <2>2, <2>3, CleanKeeps
<1>11. ASSUME SizeLine < cut
       PROVE  e \in Nat /\ Below(SizeLine) \in {e, cut} /\ Below(SizeLine) <= e
  <2>1. EndsLine(SizeLine, e)
    BY <1>4, <1>11, ReadingFacts, LineEndIs
  <2>2. e \in (SizeLine + 1)..(cut + 1)
    BY <2>1 DEF EndsLine
  <2> HIDE DEF e
  <2>3. e \in Nat
    BY <1>4, <2>2, ReadingFacts
  <2>4. {e, cut} \in SUBSET Nat /\ {e, cut} # {}
    BY <2>3, ReadingFacts
  <2>5. Smallest({e, cut}) \in {e, cut} /\ \A m \in {e, cut} : Smallest({e, cut}) <= m
    BY <2>4, SmallestFacts
  <2>6. Below(SizeLine) = Smallest({e, cut})
    BY DEF Below, e
  <2> QED  BY <2>3, <2>5, <2>6
<1>12. CASE SizeLine < cut /\ ~Malformed /\ Size > 0 /\ Below(SizeLine) = cut /\ Short
  <2>1. k < n => cut <= l.nl
    <3> SUFFICES ASSUME k < n PROVE cut <= l.nl
      OBVIOUS
    <3>1. IF e <= cut THEN e = l.nl ELSE cut < l.nl
      BY <1>7, <1>12 DEF SizeHeard
    <3>2. cut <= e /\ e \in Nat
      BY <1>11, <1>12
    <3> HIDE DEF e
    <3> QED  BY <1>5, <3>1, <3>2, ReadingFacts
  <2>2. \A i \in (taken + 1)..cut : ~IsData(answer, i)
    BY <1>6, <2>1, ReadingFacts
  <2>3. done' \in BOOLEAN /\ Ends("short")
    BY <1>12 DEF Short
  <2> QED  BY <2>2, <2>3, ShortKeeps
<1>13. CASE /\ SizeLine < cut /\ ~Malformed /\ Size > 0
            /\ Below(SizeLine) < cut /\ Some(Below(SizeLine), b, Size)
  <2>1. e < cut /\ Below(SizeLine) = e /\ e \in Nat
    <3>1. Below(SizeLine) \in {e, cut} /\ Below(SizeLine) < cut /\ e \in Nat
      BY <1>11, <1>13
    <3> QED  BY <3>1, ReadingFacts
  <2>2. k < n
    <3>1. k = n => e = cut + 1
      BY <1>7, <1>13
    <3> HIDE DEF e
    <3> QED  BY <1>3, <2>1, <3>1, ReadingFacts
  <2>3. e = l.nl /\ Size = l.size /\ Size \in Nat \ {0}
    <3>1. SizeHeard(l)
      BY <1>7, <1>13, <2>2
    <3>2. Size \in Nat /\ IF e <= cut THEN e = l.nl /\ Size = l.size ELSE e = cut + 1
      BY <3>1 DEF SizeHeard
    <3> HIDE DEF e
    <3> QED  BY <1>13, <2>1, <3>2, ReadingFacts
  <2>4. \A i \in (taken + 1)..e : ~IsData(answer, i)
    <3>1. k < n => e <= l.nl
      BY <2>1, <2>3
    <3> HIDE DEF e
    <3> QED  BY <1>6, <2>1, <3>1
  <2>5. taken <= e
    <3>1. taken < l.nl
      BY <1>2, <2>2 DEF l
    <3> QED  BY <2>1, <2>3, <3>1, ReadingFacts
  <2>6. got = DataUpTo(answer, e)
    <3> HIDE DEF e
    <3>1. DataUpTo(answer, taken) = DataUpTo(answer, e)
      BY <2>1, <2>4, <2>5, ReadingFacts, FramingSkips
    <3> QED  BY <3>1, ReadingFacts
  <2>7. k + 1 \in 1..n /\ e + Size = ChunkEnd(answer, k + 1) /\ l.nl <= e /\ l.size # 0
    BY <1>3, <1>5, <2>1, <2>2, <2>3
  <2>8. Some(e, b, Size) /\ e < cut
    BY <1>13, <2>1
  <2> HIDE DEF e
  <2> QED  BY <1>1, <2>1, <2>3, <2>6, <2>7, <2>8, ChunkKeeps DEF l
<1> QED  BY <1>8, <1>9, <1>10, <1>12, <1>13 DEF ReadSize

-----------------------------------------------------------------------------
(* EngineClient: the steps. *)

LEMMA DecodeStepKeeps == DecodeInv /\ [ClientStep]_clientVars => DecodeInv'
<1> SUFFICES ASSUME DecodeInv, [ClientStep]_clientVars PROVE DecodeInv'
  OBVIOUS
<1>1. GoodAnswer(answer) /\ Len(answer.wire) \in Nat /\ Buffers \subseteq Nat \ {0}
  <2>1. GoodAnswer(answer)
    BY AnswersAreGood DEF DecodeInv, ClientTypeOK
  <2> QED  BY <2>1, AnswerFacts, ClientAssumption
<1>2. CASE Redirected
  <2>1. /\ asking /\ answer' \in Answers[purpose] /\ hop' = 1
        /\ UNCHANGED <<purpose, asking, cut, taken, left, done, got, ending, verdict>>
    BY <1>2 DEF Redirected, body
  <2>2. taken = 0 /\ left = 0 /\ cut = 0 /\ ending = "none"
    BY <2>1 DEF DecodeInv
  <2>3. GoodAnswer(answer')
    <3>1. ASSUME NEW a, a \in Answers[purpose]
          PROVE  GoodAnswer(a)
      <4>1. a \in UNION Range(Answers)
        BY <3>1, ClientAssumption DEF DecodeInv, ClientTypeOK
      <4> QED  BY <4>1, ClientAssumption, FramingAssumption DEF GoodAnswer
    <3> QED  BY <2>1, <3>1
  <2>4. Len((answer').wire) \in Nat /\ DataUpTo(answer', 0) = <<>>
    BY <2>3, AnswerFacts, DataBegins
  <2>5. DataUpTo(answer, 0) = <<>>
    BY <1>1, DataBegins
  <2>6. got' = DataUpTo(answer', taken')
    BY <2>1, <2>2, <2>4, <2>5 DEF DecodeInv
  <2>7. ClientTypeOK'
    BY <2>1, <2>2, <2>4 DEF DecodeInv, ClientTypeOK
  <2>8. EndedAs(answer', cut', got', ending')
    BY <2>1, <2>2 DEF EndedAs
  <2> QED  BY <2>1, <2>2, <2>6, <2>7, <2>8 DEF DecodeInv
<1>3. ASSUME NEW n \in 0..Len(answer.wire), Responds(n)
      PROVE  DecodeInv'
  <2>1. /\ asking /\ asking' = FALSE /\ cut' = n
        /\ left' = IF answer.kind = "length" THEN answer.length ELSE 0
        /\ ending' = IF answer.status = "200" THEN "none" ELSE "refused"
        /\ UNCHANGED <<purpose, hop, answer, taken, done, got, verdict>>
    BY <1>3 DEF Responds
  <2>2. taken = 0 /\ ending = "none"
    BY <2>1 DEF DecodeInv
  <2>3. left' \in Nat
    BY <1>1, <2>1 DEF GoodAnswer
  <2>4. ClientTypeOK'
    <3>1. done \in BOOLEAN
      BY DEF DecodeInv, ClientTypeOK
    <3>2. (asking \in BOOLEAN /\ done \in BOOLEAN)'
      BY <2>1, <3>1
    <3>3. Len(answer.wire) \in Nat
      BY <1>1, AnswerFacts
    <3>4. (cut \in 0..Len(answer.wire) /\ taken \in 0..cut)'
      BY <2>1, <2>2, <3>3
    <3>5. ending' \in {"none", "clean", "short", "malformed", "stalled", "limit", "refused"}
      BY <2>1
    <3>6. /\ purpose' \in Purposes /\ hop' \in 0..1 /\ got' \in Seq(Nat)
          /\ verdict' \in {"none", "session", "direct", "error", "stats", "stopped"}
          /\ (purpose # "stream" => Len(got) <= TextLimit)'
      BY <2>1 DEF DecodeInv, ClientTypeOK
    <3> QED  BY <2>3, <3>2, <3>4, <3>5, <3>6 DEF ClientTypeOK
  <2>5. Located(answer, 0, left')
    <3>1. answer.kind = "chunked" => \E k \in 0..Len(answer.lines) : InChunk(answer, 0, left', k)
      <4> SUFFICES ASSUME answer.kind = "chunked"
                   PROVE  0 \in 0..Len(answer.lines) /\ InChunk(answer, 0, left', 0)
        OBVIOUS
      <4>1. Len(answer.lines) \in Nat
        BY <1>1, LinesAreThere DEF Chunky
      <4>2. left' = 0
        BY <2>1
      <4> QED  BY <4>1, <4>2 DEF InChunk, ChunkEnd
    <3>2. answer.kind = "length" => 0 + left' = answer.length
      BY <2>1, <2>3
    <3> QED  BY <3>1, <3>2 DEF Located
  <2>6. EndedAs(answer', cut', got', ending')
    BY <2>1 DEF EndedAs
  <2>7. (answer \in Answers[purpose])' /\ (got = DataUpTo(answer, taken))'
    BY <2>1 DEF DecodeInv
  <2>8. Located(answer, taken, left)'
    BY <2>1, <2>2, <2>5
  <2> QED  BY <2>1, <2>4, <2>6, <2>7, <2>8 DEF DecodeInv
<1>4. CASE GetFails
  <2>1. /\ UNCHANGED <<purpose, hop, answer, cut, taken, left, got>> /\ asking' = FALSE
        /\ ending' = "refused" /\ done' \in BOOLEAN /\ verdict' \in Verdicts
    BY <1>4 DEF GetFails, answered, body, DecodeInv, ClientTypeOK, Verdicts
  <2>2. EndedAs(answer, cut, got, "refused")
    BY DEF EndedAs
  <2> QED  BY <2>1, <2>2, EndKeeps DEF Endings
<1>5. ASSUME NEW b \in Buffers, Read(b)
      PROVE  DecodeInv'
  <2>1. Reading /\ UNCHANGED <<purpose, hop, asking, answered, verdict>>
    BY <1>5 DEF Read
  <2>2. CASE ReadToClose(b)
    BY <2>1, <2>2, ReadToCloseKeeps
  <2>3. CASE ReadLength(b)
    BY <2>1, <2>3, ReadLengthKeeps
  <2>4. CASE ReadChunk(b)
    BY <2>1, <2>4, ReadChunkKeeps
  <2>5. CASE ReadSize(b)
    BY <2>1, <2>5, ReadSizeKeeps
  <2> QED  BY <1>5, <2>2, <2>3, <2>4, <2>5 DEF Read
<1>6. ASSUME LimitReached \/ Silence
      PROVE  DecodeInv'
  <2>1. /\ UNCHANGED <<purpose, hop, answer, cut, taken, left, got>> /\ asking' = FALSE
        /\ ending' \in {"limit", "stalled"} /\ done' \in BOOLEAN /\ verdict' \in Verdicts
    BY <1>6 DEF LimitReached, Silence, Reading, answered, body, DecodeInv, ClientTypeOK, Verdicts
  <2>2. EndedAs(answer, cut, got, ending')
    BY <2>1 DEF EndedAs
  <2> QED  BY <2>1, <2>2, EndKeeps DEF Endings
<1>7. ASSUME Opened \/ Polled \/ Stopped
      PROVE  DecodeInv'
  <2>1. /\ UNCHANGED <<purpose, hop, asking, answer, cut, taken, left, done, got, ending>>
        /\ ending # "none"
    BY <1>7 DEF Opened, Polled, Stopped, answered, body
  <2>2. verdict' \in Verdicts
    BY <1>7 DEF Opened, Polled, Stopped, Session, Verdicts
  <2>3. asking' = FALSE /\ done' \in BOOLEAN /\ ending' \in Endings \ {"none"}
        /\ EndedAs(answer, cut, got, ending')
    BY <2>1 DEF DecodeInv, ClientTypeOK, Endings
  <2> QED  BY <2>1, <2>2, <2>3, EndKeeps
<1>8. CASE UNCHANGED clientVars
  <2>1. UNCHANGED <<purpose, hop, asking, answer, cut, taken, left, done, got, ending, verdict>>
    BY <1>8 DEF clientVars, answered, body
  <2>2. ClientTypeOK' /\ EndedAs(answer, cut, got, ending)' /\ Located(answer, taken, left)' = Located(answer, taken, left)
    BY <2>1 DEF DecodeInv, ClientTypeOK
  <2> QED  BY <2>1, <2>2 DEF DecodeInv
<1> QED  BY <1>2, <1>3, <1>4, <1>5, <1>6, <1>7, <1>8 DEF ClientStep

\* The client's state has its types; a text is no longer than its cap.
THEOREM ClientTypeCorrect == ClientSpec => []ClientTypeOK
<1>1. ClientInit => DecodeInv
  BY DecodeBegins
<1>2. DecodeInv /\ [ClientStep]_clientVars => DecodeInv'
  BY DecodeStepKeeps
<1>3. DecodeInv => ClientTypeOK
  BY DEF DecodeInv
<1> QED  BY <1>1, <1>2, <1>3, PTL DEF ClientSpec

\* Wherever reads, chunks and the connection end: what has been read is the body's
\* own bytes, all of them at a clean end (Body::read).
THEOREM BodyDecoded == ClientSpec => []Decoded
<1>1. ClientInit => DecodeInv
  BY DecodeBegins
<1>2. DecodeInv /\ [ClientStep]_clientVars => DecodeInv'
  BY DecodeStepKeeps
<1>3. DecodeInv => Decoded
  BY DecodeInvDecodes
<1> QED  BY <1>1, <1>2, <1>3, PTL DEF ClientSpec

-----------------------------------------------------------------------------
(* Probe. *)

LEMMA ProbeBegins == ProbeInit => ProbeTypeOK
<1> SUFFICES ASSUME ProbeInit PROVE ProbeTypeOK
  OBVIOUS
<1>1. Preroll \in Nat /\ MaxOutput \in Nat /\ Pipe \in Nat
  BY ProbeAssumption
<1>2. fed \in 0..Preroll /\ eaten \in 0..fed /\ fed - eaten <= Pipe
  BY <1>1 DEF ProbeInit
<1>3. owed \in [Outputs -> 0..MaxOutput] /\ inpipe \in [Outputs -> 0..Pipe]
  BY <1>1 DEF ProbeInit
<1>4. (caller = "returned") = (result \in {"probe", "error"})
  BY DEF ProbeInit
<1> QED  BY <1>2, <1>3, <1>4 DEF ProbeInit, ProbeTypeOK

\* A number more or less in a pipe's field.
LEMMA FieldKeeps ==
  ASSUME NEW n \in Nat, NEW f \in [Outputs -> 0..n], NEW p \in Outputs
  PROVE  /\ f[p] > 0 => [f EXCEPT ![p] = @ - 1] \in [Outputs -> 0..n]
         /\ f[p] < n => [f EXCEPT ![p] = @ + 1] \in [Outputs -> 0..n]
OBVIOUS

LEMMA ProbeStepKeeps == ProbeTypeOK /\ [ProbeStep]_probeVars => ProbeTypeOK'
<1> SUFFICES ASSUME ProbeTypeOK, [ProbeStep]_probeVars PROVE ProbeTypeOK'
  OBVIOUS
<1>1. Preroll \in Nat /\ MaxOutput \in Nat /\ Pipe \in Nat
  BY ProbeAssumption
<1>2. fed \in Nat /\ eaten \in Nat /\ eaten <= fed /\ fed <= Preroll /\ fed - eaten <= Pipe
  BY <1>1 DEF ProbeTypeOK
<1> DEFINE Fed == fed \in 0..Preroll /\ eaten \in 0..fed /\ fed - eaten <= Pipe
           Printed == owed \in [Outputs -> 0..MaxOutput] /\ inpipe \in [Outputs -> 0..Pipe]
           Threads == /\ caller \in {"starting", "gathering", "joining", "returned"}
                      /\ writer \in {"none", "writing", "done"}
                      /\ child \in {"none", "reading", "printing", "succeeded", "failed"}
           Resulting == (caller = "returned") = (result \in {"probe", "error"})
<1>3. Fed /\ Printed /\ Threads /\ Resulting
  BY DEF ProbeTypeOK
<1>4. Fed' /\ Printed' /\ Threads' /\ Resulting' => ProbeTypeOK'
  BY DEF ProbeTypeOK
<1>5. UNCHANGED <<fed, eaten>> => Fed'
  BY <1>3
<1>6. UNCHANGED <<owed, inpipe>> => Printed'
  BY <1>3
<1>7. UNCHANGED <<caller, result>> => Resulting'
  BY <1>3
<1> HIDE DEF Fed, Printed, Resulting
<1>8. ASSUME NEW p \in Outputs, inpipe[p] > 0, UNCHANGED owed,
             inpipe' = [inpipe EXCEPT ![p] = @ - 1]
      PROVE  Printed'
  <2>1. inpipe \in [Outputs -> 0..Pipe] /\ owed \in [Outputs -> 0..MaxOutput]
    BY <1>3 DEF Printed
  <2> QED  BY <1>1, <1>8, <2>1, FieldKeeps DEF Printed
<1>9. CASE Eat
  <2>1. Fed'
    BY <1>1, <1>2, <1>9 DEF Eat, Fed
  <2> QED  BY <1>3, <1>4, <1>6, <1>7, <1>9, <2>1 DEF Eat
<1>10. ASSUME Prints, UNCHANGED <<caller, writer, fed, eaten, inpipe, result>>
       PROVE  ProbeTypeOK'
  <2>1. Printed'
    BY <1>3, <1>10 DEF Prints, Printed
  <2> QED  BY <1>3, <1>4, <1>5, <1>7, <1>10, <2>1 DEF Prints
<1>11. CASE SeesEnd \/ StopsReading
  BY <1>10, <1>11 DEF SeesEnd, StopsReading
<1>12. ASSUME NEW p \in Outputs, PrintOn(p)
       PROVE  ProbeTypeOK'
  <2>1. inpipe \in [Outputs -> 0..Pipe] /\ owed \in [Outputs -> 0..MaxOutput]
    BY <1>3 DEF Printed
  <2>2. Printed'
    BY <1>1, <1>12, <2>1, FieldKeeps DEF PrintOn, Printed
  <2> QED  BY <1>3, <1>4, <1>5, <1>7, <1>12, <2>2 DEF PrintOn
<1>13. CASE Exits \/ Crashes
  BY <1>3, <1>4, <1>5, <1>6, <1>7, <1>13 DEF Exits, Crashes
<1>14. CASE WriteByte
  <2>1. Fed'
    BY <1>1, <1>2, <1>14 DEF WriteByte, Fed
  <2> QED  BY <1>3, <1>4, <1>6, <1>7, <1>14, <2>1 DEF WriteByte
<1>15. CASE WriterEnds
  BY <1>3, <1>4, <1>5, <1>6, <1>7, <1>15 DEF WriterEnds
<1>16. CASE Start
  <2>1. Resulting'
    BY <1>3, <1>16 DEF Start, Resulting
  <2> QED  BY <1>3, <1>4, <1>5, <1>6, <1>16, <2>1 DEF Start
<1>17. ASSUME NEW p \in Outputs, ReadOutput(p)
       PROVE  ProbeTypeOK'
  <2>1. Printed'
    BY <1>8, <1>17 DEF ReadOutput
  <2> QED  BY <1>3, <1>4, <1>5, <1>7, <1>17, <2>1 DEF ReadOutput
<1>18. CASE Reaped
  <2>1. Resulting'
    BY <1>3, <1>18 DEF Reaped, Resulting
  <2> QED  BY <1>3, <1>4, <1>5, <1>6, <1>18, <2>1 DEF Reaped
<1>19. CASE Joins
  <2>1. caller' = "returned" /\ result' \in {"probe", "error"}
    BY <1>19 DEF Joins
  <2>2. Resulting'
    BY <2>1 DEF Resulting
  <2> QED  BY <1>3, <1>4, <1>5, <1>6, <1>19, <2>1, <2>2 DEF Joins
<1>20. CASE UNCHANGED probeVars
  BY <1>3, <1>4, <1>5, <1>6, <1>7, <1>20 DEF probeVars
<1> QED  BY <1>9, <1>11, <1>12, <1>13, <1>14, <1>15, <1>16, <1>17, <1>18, <1>19, <1>20
         DEF ProbeStep, ChildStep, WriterStep, CallerStep

\* run's counters stay within the preroll and the pipes, and it has a result exactly
\* when it has returned, whatever ffprobe reads and prints (probe.rs, run).
THEOREM ProbeTypeCorrect == ProbeSpec => []ProbeTypeOK
BY ProbeBegins, ProbeStepKeeps, PTL DEF ProbeSpec

-----------------------------------------------------------------------------
(* MCInbound: one of the four, the others at rest. *)

InboundInv ==
  /\ ReplayInv /\ ProbeTypeOK /\ ClientTypeOK /\ HeadTypeOK
  /\ side = "client" => DecodeInv
  /\ side = "head" => HeadInv

LEMMA AtRest ==
  /\ ClientIdle => ClientTypeOK
  /\ HeadIdle => HeadTypeOK
  /\ ProbeIdle => ProbeTypeOK
<1>1. ASSUME ClientIdle PROVE ClientTypeOK
  <2>1. answer \in UNION Range(Answers)
    BY <1>1, ClientAssumption DEF ClientIdle, Purposes
  <2>2. answer.wire \in Seq(Nat)
    BY <2>1, ClientAssumption
  <2>3. cut \in 0..Len(answer.wire) /\ taken \in 0..cut
    BY <1>1, <2>2, LenProperties DEF ClientIdle
  <2>4. left \in Nat /\ got \in Seq(Nat) /\ Len(got) <= TextLimit /\ hop \in 0..1
    BY <1>1, ClientAssumption DEF ClientIdle
  <2>5. asking \in BOOLEAN /\ done \in BOOLEAN /\ purpose \in Purposes
    BY <1>1 DEF ClientIdle, Purposes
  <2> QED  BY <1>1, <2>3, <2>4, <2>5 DEF ClientIdle, ClientTypeOK
<1>2. ASSUME HeadIdle PROVE HeadTypeOK
  <2>1. Len(request.lines) \in Nat /\ MAX_HEAD_BYTES \in Nat /\ MAX_HEADER_LINES \in Nat
    BY <1>2, HeadsTyped, HeadAssumption DEF HeadIdle
  <2>2. budget \in 0..MAX_HEAD_BYTES
    BY <1>2, <2>1 DEF HeadIdle
  <2>3. line \in 1..(Len(request.lines) + 1) /\ headers \in 0..(MAX_HEADER_LINES + 1)
    BY <1>2, <2>1 DEF HeadIdle
  <2>4. (status = 0) = (phase \in {"head", "route", "subscribe"})
    BY <1>2 DEF HeadIdle
  <2> QED  BY <1>2, <2>2, <2>3, <2>4 DEF HeadIdle, HeadTypeOK
<1>3. ASSUME ProbeIdle PROVE ProbeTypeOK
  <2>1. Preroll \in Nat /\ MaxOutput \in Nat /\ Pipe \in Nat
    BY ProbeAssumption
  <2>2. fed \in 0..Preroll /\ eaten \in 0..fed /\ fed - eaten <= Pipe
    BY <1>3, <2>1 DEF ProbeIdle
  <2>3. owed \in [Outputs -> 0..MaxOutput] /\ inpipe \in [Outputs -> 0..Pipe]
    BY <1>3, <2>1 DEF ProbeIdle
  <2>4. (caller = "returned") = (result \in {"probe", "error"})
    BY <1>3 DEF ProbeIdle
  <2> QED  BY <1>3, <2>2, <2>3, <2>4 DEF ProbeIdle, ProbeTypeOK
<1> QED  BY <1>1, <1>2, <1>3

LEMMA InboundBegins == MCInit => InboundInv
<1>1. Init => ReplayInv
  BY ReplayBegins
<1>2. ClientInit => DecodeInv /\ ClientTypeOK
  BY DecodeBegins DEF DecodeInv
<1>3. HeadInit => HeadInv /\ HeadTypeOK
  BY HeadBegins DEF HeadInv
<1> QED  BY <1>1, <1>2, <1>3, ProbeBegins, AtRest DEF MCInit, WindowIdle, InboundInv

\* A component that does not move keeps its invariant.
LEMMA UnmovedKeep ==
  /\ ReplayInv /\ UNCHANGED vars => ReplayInv'
  /\ DecodeInv /\ UNCHANGED clientVars => DecodeInv'
  /\ HeadInv /\ UNCHANGED headVars => HeadInv'
  /\ ClientTypeOK /\ UNCHANGED clientVars => ClientTypeOK'
  /\ HeadTypeOK /\ UNCHANGED headVars => HeadTypeOK'
  /\ ProbeTypeOK /\ UNCHANGED probeVars => ProbeTypeOK'
<1>1. ReplayInv /\ UNCHANGED vars => ReplayInv'
  BY ReplayStep
<1>2. DecodeInv /\ UNCHANGED clientVars => DecodeInv'
  BY DecodeStepKeeps
<1>3. HeadInv /\ UNCHANGED headVars => HeadInv'
  BY HeadStepKeeps
<1>4. ClientTypeOK /\ UNCHANGED clientVars => ClientTypeOK'
  BY DEF ClientTypeOK, clientVars, answered, body
<1>5. HeadTypeOK /\ UNCHANGED headVars => HeadTypeOK'
  BY DEF HeadTypeOK, headVars
<1>6. ProbeTypeOK /\ UNCHANGED probeVars => ProbeTypeOK'
  BY ProbeStepKeeps
<1> QED  BY <1>1, <1>2, <1>3, <1>4, <1>5, <1>6

LEMMA InboundStep ==
  InboundInv /\ [MCNext]_<<side, vars, clientVars, headVars, probeVars>> => InboundInv'
<1> SUFFICES ASSUME InboundInv,
                    [MCNext]_<<side, vars, clientVars, headVars, probeVars>>
             PROVE  InboundInv'
  OBVIOUS
<1>1. UNCHANGED side
  BY DEF MCNext
<1>2. [Next]_vars /\ [ProbeStep]_probeVars
  BY DEF MCNext
<1>3. ReplayInv' /\ ProbeTypeOK'
  BY <1>2, ReplayStep, ProbeStepKeeps DEF InboundInv
<1>4. (side = "client" /\ [ClientStep]_clientVars) \/ UNCHANGED clientVars
  BY DEF MCNext
<1>5. ClientTypeOK' /\ (side = "client" => DecodeInv')
  <2>1. CASE side = "client" /\ [ClientStep]_clientVars
    BY <2>1, DecodeStepKeeps DEF InboundInv, DecodeInv
  <2>2. CASE UNCHANGED clientVars
    BY <2>2, UnmovedKeep DEF InboundInv
  <2> QED  BY <1>4, <2>1, <2>2
<1>6. (side = "head" /\ [HeadStep]_headVars) \/ UNCHANGED headVars
  BY DEF MCNext
<1>7. HeadTypeOK' /\ (side = "head" => HeadInv')
  <2>1. CASE side = "head" /\ [HeadStep]_headVars
    BY <2>1, HeadStepKeeps DEF InboundInv, HeadInv
  <2>2. CASE UNCHANGED headVars
    BY <2>2, UnmovedKeep DEF InboundInv
  <2> QED  BY <1>6, <2>1, <2>2
<1> QED  BY <1>1, <1>3, <1>5, <1>7 DEF InboundInv

\* The window, the client, a request's head and a probe keep their types together, as
\* TLC runs them, for any streams, answers, requests and limits.
THEOREM InboundTyped == MCSpec => []Types
<1>1. MCInit => InboundInv
  BY InboundBegins
<1>2. InboundInv /\ [MCNext]_<<side, vars, clientVars, headVars, probeVars>> => InboundInv'
  BY InboundStep
<1>3. InboundInv => Types
  BY ReplayTyping DEF InboundInv, Types
<1> QED  BY <1>1, <1>2, <1>3, PTL DEF MCSpec
=============================================================================
