--------------------------- MODULE Mp4ScannerProofs ---------------------------
(***************************************************************************)
(* Proofs about Mp4Scanner, for any streams, header lengths and limits and *)
(* every way to cut a stream into chunks: no byte is lost, and where it is *)
(* cut makes no difference to where the scanner is.                        *)
(***************************************************************************)
EXTENDS Mp4Scanner, SequenceLemmas

-----------------------------------------------------------------------------
(* The invariant. *)

Pieces == [kind : {"init", "media"}, data : Seq(Nat), starts : BOOLEAN, key : BOOLEAN]
Runs == [data : Seq(Nat), starts : BOOLEAN, key : BOOLEAN]

Typed ==
  /\ input \in Inputs /\ {at, end, given, body_left} \subseteq Nat
  /\ at <= end /\ end <= input.len /\ given <= at
  /\ pc \in {"idle", "scanning"} /\ {in_init, failed, started} \subseteq BOOLEAN
  /\ out \in Seq(Pieces) /\ pending \in Runs
  /\ header \in Seq(Nat) /\ moof \in Seq(Nat) \cup {None}

\* What is held when: nothing of a run or a moof before the first fragment, nothing
\* of a run between calls, and nothing at all once the scanner has failed.
Tidy ==
  /\ in_init \/ pc = "idle" \/ failed => pending.data = <<>>
  /\ pc = "idle" => at = end
  /\ failed => pc = "idle" /\ ~in_init /\ moof = None /\ header = <<>>
  /\ moof # None => ~in_init

\* Every box that begins within the first n bytes ends within them and makes sense.
Sound(n) ==
  \A q \in DOMAIN input.boxes : q <= n => q - 1 + input.boxes[q].size <= n /\ ~Wrong(q)

\* Between two boxes, after n bytes, or in the header of the one that begins there.
Between(n) ==
  /\ n <= at /\ Sound(n) /\ moof = None /\ header = Bytes(n, at)
  /\ header # <<>> => at < HeaderEnd(n + 1)
  /\ started <=> n # 0

\* In the body of the box at p.
InBody(p) ==
  /\ Sound(p - 1) /\ ~Wrong(p) /\ HeaderEnd(p) <= at
  /\ p - 1 + input.boxes[p].size = at + body_left
  /\ moof = IF input.boxes[p].kind = "moof" THEN Bytes(p - 1, at) ELSE None

\* Where the bytes consumed so far put the scanner.
Placed ==
  /\ failed => \E p \in DOMAIN input.boxes : Wrong(p) /\ HeaderEnd(p) <= end
  /\ ~failed =>
       IF body_left = 0 THEN \E n \in Nat : Between(n)
       ELSE header = <<>> /\ started /\ \E p \in DOMAIN input.boxes : InBody(p)

ScanInv == Typed /\ Tidy /\ Placed /\ PassThrough

-----------------------------------------------------------------------------
(* Sizes, boxes and runs of bytes. *)

LEMMA Sizes ==
  /\ Short \in Nat /\ Long \in Nat /\ 0 < Short /\ Short < Long
  /\ \A b : HeaderLen(b) \in Nat /\ Short <= HeaderLen(b) /\ HeaderLen(b) <= Long
<1>1. Short \in Nat /\ Long \in Nat /\ 0 < Short /\ Short < Long
  BY SizeAssumption
<1> QED  BY <1>1 DEF HeaderLen

LEMMA Boxes ==
  ASSUME input \in Inputs
  PROVE  /\ input.len \in Nat
         /\ \A p \in DOMAIN input.boxes :
              p \in Nat /\ 1 <= p /\ p <= input.len /\ input.boxes[p].size \in Nat
         /\ \A n \in 1..input.len : \E p \in DOMAIN input.boxes :
              p <= n /\ (BadSize(input.boxes[p]) \/ n < p + input.boxes[p].size)
         /\ \A p, q \in DOMAIN input.boxes :
              p < q => ~BadSize(input.boxes[p]) /\ p + input.boxes[p].size <= q
BY InputAssumption DEF InputAssumption

\* A box that makes sense is at least as long as its header.
LEMMA Sensible ==
  ASSUME input \in Inputs, NEW p \in DOMAIN input.boxes, ~BadSize(input.boxes[p])
  PROVE  /\ p \in Nat /\ input.boxes[p].size \in Nat
         /\ HeaderEnd(p) \in Nat /\ p <= HeaderEnd(p)
         /\ HeaderEnd(p) <= p - 1 + input.boxes[p].size
<1>1. p \in Nat /\ 1 <= p /\ input.boxes[p].size \in Nat
  BY Boxes
<1>2. /\ HeaderLen(input.boxes[p]) \in Nat /\ 1 <= HeaderLen(input.boxes[p])
      /\ HeaderLen(input.boxes[p]) <= input.boxes[p].size
  <2>1. ~(input.boxes[p].size < HeaderLen(input.boxes[p]))
    BY DEF BadSize
  <2> HIDE DEF HeaderLen
  <2> QED  BY <1>1, <2>1, Sizes
<1> HIDE DEF HeaderLen
<1> QED  BY <1>1, <1>2 DEF HeaderEnd

\* The boxes up to n are whole, so another one begins where they end.
LEMMA NextBox ==
  ASSUME input \in Inputs, NEW n \in Nat, Sound(n), n < input.len
  PROVE  n + 1 \in DOMAIN input.boxes
<1>1. PICK p \in DOMAIN input.boxes :
        p <= n + 1 /\ (BadSize(input.boxes[p]) \/ n + 1 < p + input.boxes[p].size)
  <2>1. input.len \in Nat /\ n + 1 \in 1..input.len
    BY Boxes
  <2> QED  BY <2>1, Boxes
<1>2. p \in Nat /\ input.boxes[p].size \in Nat
  BY Boxes
<1>3. CASE p <= n
  <2>1. p - 1 + input.boxes[p].size <= n /\ ~BadSize(input.boxes[p])
    BY <1>3 DEF Sound, Wrong
  <2> QED  BY <1>1, <1>2, <2>1
<1>4. CASE p = n + 1
  BY <1>4
<1> QED  BY <1>1, <1>2, <1>3, <1>4

\* And one more box that makes sense is whole when it ends.
LEMMA SoundAfter ==
  ASSUME input \in Inputs, NEW p \in DOMAIN input.boxes, Sound(p - 1), ~Wrong(p)
  PROVE  Sound(p - 1 + input.boxes[p].size)
<1> DEFINE n == p - 1 + input.boxes[p].size
<1>1. p \in Nat /\ n \in Nat /\ p <= n
  <2>1. ~BadSize(input.boxes[p])
    BY DEF Wrong
  <2> QED  BY <2>1, Sensible
<1>2. ASSUME NEW q \in DOMAIN input.boxes, q <= n
      PROVE  q - 1 + input.boxes[q].size <= n /\ ~Wrong(q)
  <2>1. q \in Nat /\ input.boxes[q].size \in Nat /\ input.boxes[p].size \in Nat
    BY Boxes
  <2>2. CASE q < p
    <3>1. q - 1 + input.boxes[q].size <= p - 1 /\ ~Wrong(q)
      <4>1. q <= p - 1
        BY <1>1, <2>1, <2>2
      <4> QED  BY <4>1 DEF Sound
    <3> QED  BY <1>1, <2>1, <3>1
  <2>3. CASE q = p
    BY <2>1, <2>3
  <2>4. CASE p < q
    <3>1. p + input.boxes[p].size <= q
      BY <2>4, Boxes
    <3> QED  BY <1>1, <1>2, <2>1, <3>1
  <2> QED  BY <1>1, <2>1, <2>2, <2>3, <2>4
<1> QED  BY <1>2 DEF Sound

LEMMA BytesFacts ==
  ASSUME NEW i \in Nat, NEW j \in Nat, i <= j
  PROVE  /\ j - i \in Nat /\ Bytes(i, j) = Run(i, j - i)
         /\ Bytes(i, j) \in Seq(Nat) /\ Len(Bytes(i, j)) = j - i
         /\ i < j => Bytes(i, j)[1] = i + 1 /\ Bytes(i, j) # <<>>
         /\ i = j => Bytes(i, j) = <<>>
<1>1. j - i \in Nat
  OBVIOUS
<1>2. Bytes(i, j) = Run(i, j - i)
  BY DEF Bytes, Run
<1>3. /\ Run(i, j - i) \in Seq(Nat) /\ Len(Run(i, j - i)) = j - i
      /\ \A k \in 1..(j - i) : Run(i, j - i)[k] = i + k
  BY <1>1, RunFacts
<1>4. i < j => Bytes(i, j)[1] = i + 1 /\ Bytes(i, j) # <<>>
  <2>1. i < j => 1 \in 1..(j - i) /\ j - i # 0
    BY <1>1
  <2> HIDE DEF Run
  <2>2. i < j => Run(i, j - i)[1] = i + 1
    BY <1>3, <2>1
  <2> QED  BY <1>2, <1>3, <2>1, <2>2, EmptySeq
<1>5. i = j => Bytes(i, j) = <<>>
  <2>1. i = j => j - i = 0
    OBVIOUS
  <2> QED  BY <1>2, <1>3, <2>1, EmptySeq
<1> QED  BY <1>1, <1>2, <1>3, <1>4, <1>5

LEMMA BytesJoin ==
  ASSUME NEW i \in Nat, NEW j \in Nat, NEW k \in Nat, i <= j, j <= k
  PROVE  Cat(Bytes(i, j), Bytes(j, k)) = Bytes(i, k)
<1> DEFINE a == j - i
           b == k - j
<1>1. a \in Nat /\ b \in Nat /\ i + a = j /\ a + b = k - i /\ i <= k
  OBVIOUS
<1>2. Bytes(i, j) = Run(i, a) /\ Bytes(j, k) = Run(j, b) /\ Bytes(i, k) = Run(i, k - i)
  BY <1>1, BytesFacts
<1> HIDE DEF a, b
<1>3. Cat(Run(i, a), Run(i + a, b)) = Run(i, a + b)
  BY <1>1, RunsJoin
<1> QED  BY <1>1, <1>2, <1>3

\* What ends a run of bytes is one.
LEMMA BytesCut ==
  ASSUME NEW s \in Seq(Nat), NEW t \in Seq(Nat), NEW i \in Nat, NEW j \in Nat, i <= j,
         Cat(s, t) = Bytes(i, j)
  PROVE  i + Len(s) \in Nat /\ i + Len(s) <= j /\ t = Bytes(i + Len(s), j)
<1> DEFINE l == Len(s)
           m == Len(t)
           u == Bytes(i + l, j)
<1>1. /\ l \in Nat /\ m \in Nat
      /\ \A k \in 1..m : Cat(s, t)[l + k] = t[k]
  BY CatNth
<1>2. Len(Cat(s, t)) = l + m
  BY CatFacts
<1>3. /\ j - i \in Nat /\ Len(Bytes(i, j)) = j - i
      /\ \A k \in 1..(j - i) : Bytes(i, j)[k] = i + k
  <2>1. j - i \in Nat /\ Bytes(i, j) = Run(i, j - i) /\ Len(Bytes(i, j)) = j - i
    BY BytesFacts
  <2>2. \A k \in 1..(j - i) : Run(i, j - i)[k] = i + k
    BY <2>1, RunFacts
  <2> HIDE DEF Run, Bytes
  <2> QED  BY <2>1, <2>2
<1> HIDE DEF l, m
<1>4. l + m = j - i /\ i + l \in Nat /\ i + l <= j /\ j - (i + l) = m
  BY <1>1, <1>2, <1>3
<1>5. u \in Seq(Nat) /\ Len(u) = m /\ \A k \in 1..m : u[k] = (i + l) + k
  <2>1. /\ Bytes(i + l, j) = Run(i + l, j - (i + l))
        /\ Bytes(i + l, j) \in Seq(Nat) /\ Len(Bytes(i + l, j)) = j - (i + l)
    BY <1>4, BytesFacts
  <2>2. \A k \in 1..m : Run(i + l, m)[k] = (i + l) + k
    BY <1>1, <1>4, RunFacts
  <2> HIDE DEF Run, Bytes
  <2> QED  BY <1>4, <2>1, <2>2
<1>6. ASSUME NEW k \in 1..m
      PROVE  t[k] = u[k]
  <2>1. l + k \in 1..(j - i) /\ i + (l + k) = (i + l) + k
    BY <1>1, <1>4
  <2>2. Bytes(i, j)[l + k] = i + (l + k) /\ Cat(s, t)[l + k] = t[k]
    BY <1>1, <1>3, <2>1
  <2> HIDE DEF Bytes, Cat
  <2> QED  BY <1>5, <2>1, <2>2
<1> HIDE DEF u
<1>7. t = u
  BY <1>5, <1>6, SeqEqual DEF m
<1> QED  BY <1>4, <1>7 DEF l, u

LEMMA DataIs == Holds(Pieces, Nat) /\ \A c : DataOf(c) = AllData(c)
BY DEF Holds, Pieces, DataOf, AllData

LEMMA DataOfTyped ==
  ASSUME NEW c \in Seq(Pieces)
  PROVE  DataOf(c) \in Seq(Nat)
BY DataIs, DataTyped

LEMMA PieceOf ==
  ASSUME NEW d \in Seq(Nat), NEW s \in BOOLEAN, NEW k \in BOOLEAN
  PROVE  /\ Media(d, s, k) \in Pieces /\ Media(d, s, k).data = d
         /\ InitPiece(d) \in Pieces /\ InitPiece(d).data = d
BY DEF Media, InitPiece, Pieces

\* A list goes on with a piece.
LEMMA PieceAdds ==
  ASSUME NEW c \in Seq(Pieces), NEW x \in Pieces
  PROVE  Append(c, x) \in Seq(Pieces) /\ DataOf(Append(c, x)) = Cat(DataOf(c), x.data)
<1>1. AllData(Append(c, x)) = Cat(AllData(c), x.data)
  BY DataIs, DataAppend
<1> QED  BY <1>1, DataIs, AppendProperties

\* A list goes on with a piece of this data, unless there is none.
LEMMA PlainIs ==
  ASSUME NEW d \in Seq(Nat)
  PROVE  Plain(d) \in Seq(Pieces) /\ DataOf(Plain(d)) = d
<1>1. CASE d = <<>>
  <2>1. Plain(d) = <<>>
    BY <1>1 DEF Plain
  <2>2. <<>> \in Seq(Pieces) /\ DataOf(<<>>) = <<>>
    BY DataIs, DataEmpty, EmptySeq
  <2> QED  BY <1>1, <2>1, <2>2
<1>2. CASE d # <<>>
  <2>1. Media(d, FALSE, FALSE) \in Pieces /\ Media(d, FALSE, FALSE).data = d
    BY PieceOf
  <2> DEFINE x == Media(d, FALSE, FALSE)
  <2>2. Plain(d) = <<x>>
    BY <1>2 DEF Plain
  <2> HIDE DEF x
  <2>3. x \in Pieces /\ x.data = d
    BY <2>1 DEF x
  <2>4. AllData(<<x>>) = x.data
    BY <2>3, DataIs, DataSingle
  <2> QED  BY <2>2, <2>3, <2>4, DataIs
<1> QED  BY <1>1, <1>2

LEMMA TakenIs ==
  ASSUME pending \in Runs
  PROVE  Taken \in Seq(Pieces) /\ DataOf(Taken) = pending.data
<1>1. pending.data \in Seq(Nat) /\ pending.starts \in BOOLEAN /\ pending.key \in BOOLEAN
  BY DEF Runs
<1>2. CASE pending.data = <<>>
  BY <1>2, DataIs, DataEmpty, EmptySeq DEF Taken
<1>3. CASE pending.data # <<>>
  <2> DEFINE x == Media(pending.data, pending.starts, pending.key)
  <2>1. x \in Pieces /\ x.data = pending.data
    BY <1>1, PieceOf
  <2>2. Taken = <<x>>
    BY <1>3 DEF Taken
  <2> HIDE DEF x
  <2> QED  BY <2>1, <2>2, DataIs, DataSingle
<1> QED  BY <1>2, <1>3

LEMMA ListsJoin ==
  ASSUME NEW c \in Seq(Pieces), NEW d \in Seq(Pieces)
  PROVE  c \o d \in Seq(Pieces) /\ DataOf(c \o d) = Cat(DataOf(c), DataOf(d))
<1>1. Cat(c, d) \in Seq(Pieces) /\ AllData(Cat(c, d)) = Cat(AllData(c), AllData(d))
  BY DataIs, DataJoins
<1> QED  BY <1>1, DataIs DEF Cat

-----------------------------------------------------------------------------
(* The header of the next box. *)

\* Where Fill stops, if what is held begins after the first n bytes and ends at i.
Upto(n, i, m) == IF i - n >= m THEN i ELSE IF end < n + m THEN end ELSE n + m

LEMMA FillIs ==
  ASSUME end \in Nat, NEW n \in Nat, NEW i \in Nat, NEW m \in Nat, n <= i, i <= end
  PROVE  /\ Upto(n, i, m) \in Nat /\ i <= Upto(n, i, m) /\ Upto(n, i, m) <= end
         /\ Fill(Bytes(n, i), i, m) = Bytes(n, Upto(n, i, m))
<1>1. Upto(n, i, m) \in Nat /\ i <= Upto(n, i, m) /\ Upto(n, i, m) <= end
  BY DEF Upto
<1>2. Len(Bytes(n, i)) = i - n /\ i + m - (i - n) = n + m
  BY BytesFacts
<1>3. CASE i - n >= m
  BY <1>2, <1>3 DEF Fill, Upto
<1>4. CASE ~(i - n >= m)
  <2> DEFINE j == IF end < n + m THEN end ELSE n + m
  <2>1. Upto(n, i, m) = j
    BY <1>4 DEF Upto
  <2>2. Fill(Bytes(n, i), i, m) = Bytes(n, i) \o Bytes(i, j)
    <3> HIDE DEF Bytes
    <3> QED  BY <1>2, <1>4 DEF Fill
  <2>3. Cat(Bytes(n, i), Bytes(i, j)) = Bytes(n, j)
    <3> HIDE DEF j
    <3> QED  BY <1>1, <2>1, BytesJoin
  <2>4. Fill(Bytes(n, i), i, m) = Cat(Bytes(n, i), Bytes(i, j))
    BY <2>2 DEF Cat
  <2> HIDE DEF j
  <2> QED  BY <1>1, <2>1, <2>3, <2>4
<1> QED  BY <1>1, <1>3, <1>4

LEMMA BoxAt ==
  ASSUME NEW n \in Nat, NEW j \in Nat, n < j, n + 1 \in DOMAIN input.boxes
  PROVE  Box(Bytes(n, j)) = input.boxes[n + 1]
<1>1. Bytes(n, j)[1] = n + 1
  BY BytesFacts
<1> HIDE DEF Bytes
<1> QED  BY <1>1 DEF Box

\* The box whose header is read begins where the one before it ended; the header
\* is held as long as the chunk ends in it, and complete where it ends.
LEMMA HeadIs ==
  ASSUME ScanInv, AtHeader, NEW n \in Nat, Between(n)
  PROVE  /\ n + 1 \in DOMAIN input.boxes
         /\ AtNow \in Nat /\ at <= AtNow /\ AtNow <= end /\ n < AtNow
         /\ HeadNow = Bytes(n, AtNow) /\ Box(HeadNow) = input.boxes[n + 1]
         /\ HeaderEnd(n + 1) \in Nat
         /\ HeaderEnd(n + 1) = n + HeaderLen(input.boxes[n + 1])
         /\ Complete => AtNow = HeaderEnd(n + 1)
         /\ ~Complete => AtNow = end /\ AtNow < HeaderEnd(n + 1)
<1>1. /\ at \in Nat /\ end \in Nat /\ at < end /\ end <= input.len /\ input \in Inputs
      /\ body_left = 0 /\ pc = "scanning"
  BY DEF ScanInv, Typed, AtHeader
<1>3. /\ n \in Nat /\ n <= at /\ Sound(n) /\ header = Bytes(n, at)
      /\ header # <<>> => at < HeaderEnd(n + 1)
  BY DEF Between
<1>4. n <= at /\ Len(header) = at - n
  BY <1>1, <1>3, BytesFacts
<1>5. n + 1 \in DOMAIN input.boxes
  <2>1. n < input.len
    <3>1. input.len \in Nat
      BY <1>1, Boxes
    <3> QED  BY <1>1, <1>3, <1>4, <3>1
  <2> QED  BY <1>1, <1>3, <2>1, NextBox
<1> DEFINE b == input.boxes[n + 1]
           h == HeaderLen(b)
           j == Upto(n, at, Short)
           k == IF j - n >= Short /\ b.long THEN Upto(n, j, Long) ELSE j
<1>6. /\ h = (IF b.long THEN Long ELSE Short) /\ HeaderEnd(n + 1) = n + h
      /\ Short \in Nat /\ Long \in Nat /\ 0 < Short /\ Short < Long
  BY <1>3, Sizes DEF HeaderLen, HeaderEnd
<1> HIDE DEF h, b
<1>0. at \in Nat /\ n \in Nat /\ end \in Nat /\ n <= at /\ at < end
  BY <1>1, <1>3, <1>4
<1>7. at < n + h
  <2>1. CASE header = <<>>
    <3>1. Len(header) = 0
      BY <2>1, EmptySeq
    <3>2. at = n
      BY <1>0, <1>4, <3>1
    <3> QED  BY <1>0, <1>6, <3>2
  <2>2. CASE header # <<>>
    BY <1>3, <1>6, <2>2
  <2> QED  BY <2>1, <2>2
<1>8. j \in Nat /\ at <= j /\ j <= end /\ n < j /\ Head1 = Bytes(n, j)
  <2>1. j \in Nat /\ at <= j /\ j <= end /\ Fill(Bytes(n, at), at, Short) = Bytes(n, j)
    <3>1. at <= end
      BY <1>1
    <3> QED  BY <1>1, <1>3, <1>4, <1>6, <3>1, FillIs
  <2>2. n < j
    BY <1>1, <1>3, <1>4, <1>6 DEF Upto
  <2> QED  BY <1>3, <2>1, <2>2 DEF Head1
<1>9. Box(Head1) = b /\ Len(Head1) = j - n /\ at + Len(Head1) - Len(header) = j
  <2>1. Box(Bytes(n, j)) = b /\ Len(Bytes(n, j)) = j - n
    <3>1. n <= j
      BY <1>3, <1>8
    <3> HIDE DEF j
    <3> QED  BY <1>3, <1>5, <1>8, <3>1, BoxAt, BytesFacts DEF b
  <2>2. at + (j - n) - (at - n) = j
    BY <1>1, <1>3, <1>8
  <2> HIDE DEF Bytes, j, b
  <2> QED  BY <1>4, <1>8, <2>1, <2>2
<1>10. k \in Nat /\ j <= k /\ k <= end /\ HeadNow = Bytes(n, k)
  <2>1. CASE j - n >= Short /\ b.long
    <3>1. k = Upto(n, j, Long)
      BY <2>1
    <3>2. n <= j
      BY <1>3, <1>8
    <3> HIDE DEF j, k, b
    <3>3. /\ Upto(n, j, Long) \in Nat /\ j <= Upto(n, j, Long) /\ Upto(n, j, Long) <= end
          /\ Fill(Bytes(n, j), j, Long) = Bytes(n, Upto(n, j, Long))
      BY <1>1, <1>3, <1>6, <1>8, <3>2, FillIs
    <3>4. HeadNow = Fill(Head1, j, Long)
      BY <1>9, <2>1 DEF HeadNow
    <3> QED  BY <1>8, <3>1, <3>3, <3>4
  <2>2. CASE ~(j - n >= Short /\ b.long)
    <3>1. k = j
      BY <2>2
    <3> HIDE DEF j, k, b
    <3>2. HeadNow = Head1
      BY <1>9, <2>2 DEF HeadNow
    <3> QED  BY <1>8, <3>1, <3>2
  <2> QED  BY <2>1, <2>2
<1>11. IF k - n >= h THEN k = n + h ELSE k = end /\ k < n + h
  <2>1. CASE b.long
    <3>1. h = Long
      BY <1>6, <2>1
    <3>2. k = IF j - n >= Short THEN Upto(n, j, Long) ELSE j
      BY <2>1
    <3>3. j - n < Long /\ (j - n < Short => j = end)
      BY <1>0, <1>6, <1>7, <3>1 DEF Upto
    <3> HIDE DEF j, k
    <3>4. Upto(n, j, Long) = IF end < n + Long THEN end ELSE n + Long
      BY <1>3, <1>6, <1>8, <3>3 DEF Upto
    <3>5. CASE j - n >= Short
      <4>1. k = IF end < n + Long THEN end ELSE n + Long
        BY <3>2, <3>4, <3>5
      <4> QED  BY <1>0, <1>6, <3>1, <4>1
    <3>6. CASE ~(j - n >= Short)
      <4>1. k = j /\ j = end
        <5>1. j - n < Short
          BY <1>0, <1>6, <1>8, <3>6
        <5> QED  BY <3>2, <3>3, <3>6, <5>1
      <4> QED  BY <1>0, <1>6, <3>1, <3>6, <4>1
    <3> QED  BY <3>5, <3>6
  <2>2. CASE ~b.long
    <3>1. h = Short /\ k = j
      BY <1>6, <2>2
    <3>2. j = IF end < n + Short THEN end ELSE n + Short
      BY <1>0, <1>6, <1>7, <3>1 DEF Upto
    <3> HIDE DEF j, k
    <3> QED  BY <1>0, <1>6, <3>1, <3>2
  <2> QED  BY <2>1, <2>2
<1> HIDE DEF j, k
<1>12. Len(HeadNow) = k - n /\ Box(HeadNow) = b /\ n < k
  <2>1. n < k
    BY <1>3, <1>8, <1>10
  <2>2. n <= k
    BY <1>3, <1>10, <2>1
  <2> QED  BY <1>3, <1>5, <1>10, <2>1, <2>2, BoxAt, BytesFacts DEF b
<1>13. AtNow = k
  <2>1. AtNow = at + (k - n) - (at - n)
    BY <1>4, <1>12 DEF AtNow
  <2> QED  BY <1>1, <1>3, <1>10, <2>1
<1>14. Complete <=> k - n >= h
  <2>1. Short <= h /\ h \in Nat
    BY Sizes DEF h
  <2>2. Complete <=> (k - n >= Short /\ k - n >= h)
    BY <1>12 DEF Complete, h
  <2> QED  BY <1>3, <1>6, <1>10, <2>1, <2>2
<1>15. n + h \in Nat /\ HeaderEnd(n + 1) = n + h
  <2>1. h \in Nat
    BY Sizes DEF h
  <2> QED  BY <1>3, <1>6, <2>1
<1>16. at <= k
  BY <1>1, <1>8, <1>10
<1> QED  BY <1>3, <1>4, <1>5, <1>10, <1>11, <1>12, <1>13, <1>14, <1>15, <1>16 DEF h, b

-----------------------------------------------------------------------------
(* What is returned and held. *)

\* PassThrough and Held, with \o by its name.
HeldOf(m, h) == Cat(IF m = None THEN <<>> ELSE m, h)
Total(o, p, m, h) == Cat(Cat(DataOf(o), p.data), HeldOf(m, h))

LEMMA PassedIs ==
  /\ PassThrough <=> Total(out, pending, moof, header) = Bytes(given, at)
  /\ PassThrough' <=> Total(out', pending', moof', header') = Bytes(given', at')
BY DEF PassThrough, Total, HeldOf, Held, Cat

LEMMA HeldIs ==
  ASSUME NEW m \in Seq(Nat) \cup {None}, NEW h \in Seq(Nat)
  PROVE  /\ HeldOf(m, h) \in Seq(Nat)
         /\ m = None => HeldOf(m, h) = h
         /\ m # None /\ h = <<>> => HeldOf(m, h) = m
<1>1. <<>> \in Seq(Nat) /\ Cat(<<>>, h) = h
  BY CatFacts, EmptySeq
<1>2. m # None => m \in Seq(Nat) /\ Cat(m, <<>>) = m /\ Cat(m, h) \in Seq(Nat)
  BY CatFacts
<1> QED  BY <1>1, <1>2 DEF HeldOf

LEMMA NothingIs == Nothing \in Runs /\ Nothing.data = <<>>
BY EmptySeq DEF Nothing, Runs

LEMMA StartedIs ==
  ASSUME NEW r \in Runs, NEW t, NEW m \in Seq(Nat)
  PROVE  Started(r, t, m) \in Runs /\ Started(r, t, m).data = Cat(r.data, m)
<1>1. r.data \in Seq(Nat)
  BY DEF Runs
<1>2. Cat(r.data, m) \in Seq(Nat)
  BY <1>1, CatFacts
<1>3. Started(r, t, m) = [data |-> Cat(r.data, m), starts |-> TRUE,
                          key |-> t = None \/ KeyframeFragment(t, Box(m))]
  BY DEF Started, Cat
<1>4. (t = None \/ KeyframeFragment(t, Box(m))) \in BOOLEAN
  OBVIOUS
<1> QED  BY <1>2, <1>3, <1>4 DEF Runs

\* Regroupings: o is what was returned, p the run, h what is held, s what comes.
LEMMA Regroup ==
  ASSUME NEW o \in Seq(Nat), NEW p \in Seq(Nat), NEW h \in Seq(Nat), NEW s \in Seq(Nat)
  PROVE  /\ Cat(Cat(o, Cat(p, s)), <<>>) = Cat(Cat(Cat(o, p), <<>>), s)
         /\ Cat(Cat(Cat(o, s), <<>>), <<>>) = Cat(Cat(Cat(o, <<>>), <<>>), s)
         /\ Cat(Cat(o, p), Cat(h, s)) = Cat(Cat(Cat(o, p), h), s)
         /\ Cat(Cat(o, Cat(p, Cat(h, s))), <<>>) = Cat(Cat(Cat(o, p), h), s)
         /\ Cat(Cat(Cat(o, p), <<>>), h) = Cat(Cat(o, p), h)
         /\ Cat(Cat(o, p), h) \in Seq(Nat) /\ Cat(p, h) \in Seq(Nat)
<1>0. <<>> \in Seq(Nat)
  BY EmptySeq
<1>1. /\ Cat(o, p) \in Seq(Nat) /\ Cat(p, s) \in Seq(Nat) /\ Cat(h, s) \in Seq(Nat)
      /\ Cat(o, s) \in Seq(Nat) /\ Cat(p, h) \in Seq(Nat)
  BY CatFacts
<1>2. Cat(Cat(o, p), h) \in Seq(Nat) /\ Cat(p, Cat(h, s)) \in Seq(Nat)
  BY <1>1, CatFacts
<1>3. Cat(o, <<>>) = o /\ Cat(Cat(o, p), <<>>) = Cat(o, p) /\ Cat(Cat(o, s), <<>>) = Cat(o, s)
  BY <1>1, CatFacts
<1>4. /\ Cat(o, Cat(p, s)) \in Seq(Nat) /\ Cat(o, Cat(p, Cat(h, s))) \in Seq(Nat)
  BY <1>1, <1>2, CatFacts
<1>5. /\ Cat(Cat(o, Cat(p, s)), <<>>) = Cat(o, Cat(p, s))
      /\ Cat(Cat(o, Cat(p, Cat(h, s))), <<>>) = Cat(o, Cat(p, Cat(h, s)))
  BY <1>4, CatFacts
<1>6. Cat(o, Cat(p, s)) = Cat(Cat(o, p), s)
  BY CatAssociative
<1>7. Cat(Cat(o, p), Cat(h, s)) = Cat(Cat(Cat(o, p), h), s)
  BY <1>1, CatAssociative
<1>8. Cat(o, Cat(p, Cat(h, s))) = Cat(Cat(o, p), Cat(h, s))
  BY <1>1, CatAssociative
<1> QED  BY <1>1, <1>2, <1>3, <1>5, <1>6, <1>7, <1>8

\* What the step has consumed comes after what was returned and held.
LEMMA Advance ==
  ASSUME ScanInv, given' = given, at' \in Nat, at <= at',
         Total(out', pending', moof', header')
           = Cat(Total(out, pending, moof, header), Bytes(at, at'))
  PROVE  PassThrough' /\ given' <= at'
<1>1. given \in Nat /\ at \in Nat /\ given <= at
  BY DEF ScanInv, Typed
<1>2. Total(out, pending, moof, header) = Bytes(given, at)
  BY PassedIs DEF ScanInv
<1>3. Cat(Bytes(given, at), Bytes(at, at')) = Bytes(given, at')
  BY <1>1, BytesJoin
<1>4. given' <= at'
  BY <1>1
<1> QED  BY <1>2, <1>3, <1>4, PassedIs

\* What is said of the stream's boxes does not change.
LEMMA Fixed ==
  ASSUME input' = input
  PROVE  /\ DOMAIN input'.boxes = DOMAIN input.boxes
         /\ \A n \in Nat : (Sound(n)' <=> Sound(n)) /\ HeaderEnd(n)' = HeaderEnd(n)
         /\ \A p \in DOMAIN input.boxes : Wrong(p)' <=> Wrong(p)
BY DEF Sound, Wrong, HeaderEnd

\* The bytes that are known of a state.
LEMMA Known ==
  ASSUME ScanInv
  PROVE  /\ DataOf(out) \in Seq(Nat) /\ pending.data \in Seq(Nat) /\ header \in Seq(Nat)
         /\ pending \in Runs /\ out \in Seq(Pieces) /\ moof \in Seq(Nat) \cup {None}
         /\ {at, end, given, body_left} \subseteq Nat /\ given <= at /\ at <= end
         /\ input \in Inputs /\ input.len \in Nat /\ end <= input.len
<1>1. Typed
  BY DEF ScanInv
<1>2. DataOf(out) \in Seq(Nat) /\ pending.data \in Seq(Nat)
  BY <1>1, DataOfTyped DEF Typed, Runs
<1> QED  BY <1>1, <1>2, Boxes DEF Typed

-----------------------------------------------------------------------------
(* The steps. *)

LEMMA InitKeeps == Init => ScanInv
<1> SUFFICES ASSUME Init PROVE ScanInv
  OBVIOUS
<1>1. Typed
  <2>1. input.len \in Nat
    BY Boxes DEF Init
  <2>2. <<>> \in Seq(Pieces) /\ <<>> \in Seq(Nat)
    BY EmptySeq
  <2>3. /\ input \in Inputs /\ {at, end, given, body_left} \subseteq Nat
        /\ at <= end /\ end <= input.len /\ given <= at
    BY <2>1 DEF Init
  <2>4. pc \in {"idle", "scanning"} /\ {in_init, failed, started} \subseteq BOOLEAN
    BY DEF Init
  <2>5. /\ out \in Seq(Pieces) /\ pending \in Runs
        /\ header \in Seq(Nat) /\ moof \in Seq(Nat) \cup {None}
    BY <2>2, NothingIs DEF Init
  <2> QED  BY <2>3, <2>4, <2>5 DEF Typed
<1>2. Tidy
  BY NothingIs DEF Init, Tidy
<1>3. Between(0)
  <2>1. Bytes(0, 0) = <<>>
    BY BytesFacts
  <2>2. Sound(0)
    BY <1>1, Boxes DEF Sound, Typed
  <2> QED  BY <2>1, <2>2 DEF Init, Between
<1>4. Placed
  BY <1>3 DEF Init, Placed
<1>5. PassThrough
  <2>1. Bytes(0, 0) = <<>> /\ DataOf(<<>>) = <<>> /\ HeldOf(None, <<>>) = <<>>
    <3>1. Bytes(0, 0) = <<>>
      BY BytesFacts
    <3>2. DataOf(<<>>) = <<>>
      BY DataIs, DataEmpty
    <3>3. HeldOf(None, <<>>) = <<>>
      BY HeldIs, EmptySeq
    <3> QED  BY <3>1, <3>2, <3>3
  <2>2. Cat(Cat(<<>>, <<>>), <<>>) = <<>>
    <3>1. Cat(<<>>, <<>>) = <<>>
      BY CatFacts, EmptySeq
    <3> QED  BY <3>1
  <2> QED  BY <2>1, <2>2, NothingIs, PassedIs DEF Init, Total
<1> QED  BY <1>1, <1>2, <1>4, <1>5 DEF ScanInv

\* What is emitted comes after what was returned, if nothing is held any more.
LEMMA EmitAdds ==
  ASSUME ScanInv, NEW d \in Seq(Nat), Emit(d), UNCHANGED in_init
  PROVE  /\ out' \in Seq(Pieces) /\ pending' \in Runs
         /\ in_init => pending'.data = <<>>
         /\ Cat(Cat(DataOf(out'), pending'.data), <<>>)
              = Cat(Cat(Cat(DataOf(out), pending.data), <<>>), d)
<1> DEFINE o == DataOf(out)
           p == pending.data
<1>1. o \in Seq(Nat) /\ p \in Seq(Nat) /\ out \in Seq(Pieces) /\ pending \in Runs
  BY Known
<1>2. CASE in_init
  <2>1. p = <<>> /\ out' = Append(out, InitPiece(d)) /\ pending' = pending
    BY <1>2 DEF ScanInv, Tidy, Emit
  <2>2. out' \in Seq(Pieces) /\ DataOf(out') = Cat(o, d)
    <3> DEFINE x == InitPiece(d)
    <3>1. x \in Pieces /\ x.data = d
      BY PieceOf
    <3>2. out' = Append(out, x)
      BY <2>1
    <3> HIDE DEF x
    <3> QED  BY <1>1, <3>1, <3>2, PieceAdds
  <2> HIDE DEF o
  <2>3. Cat(Cat(Cat(o, d), <<>>), <<>>) = Cat(Cat(Cat(o, <<>>), <<>>), d)
    BY <1>1, EmptySeq, Regroup
  <2> QED  BY <1>1, <1>2, <2>1, <2>2, <2>3 DEF o
<1>3. CASE ~in_init
  <2>1. out' = out /\ pending' = [pending EXCEPT !.data = Cat(@, d)]
    BY <1>3 DEF Emit, Cat
  <2>2. Cat(p, d) \in Seq(Nat)
    BY <1>1, CatFacts
  <2>3. pending' \in Runs /\ pending'.data = Cat(p, d)
    BY <1>1, <2>1, <2>2 DEF Runs
  <2> HIDE DEF o, p
  <2>4. Cat(Cat(o, Cat(p, d)), <<>>) = Cat(Cat(Cat(o, p), <<>>), d)
    BY <1>1, EmptySeq, Regroup
  <2> QED  BY <1>1, <1>3, <2>1, <2>3, <2>4 DEF o, p
<1> QED  BY <1>2, <1>3

LEMMA PushKeeps ==
  ASSUME ScanInv, NEW n \in 1..input.len, Push(n)
  PROVE  ScanInv'
<1> DEFINE o == DataOf(out)
           e == end + n
<1>1. /\ pc = "idle" /\ e <= input.len /\ end' = e /\ given' = given + Len(o)
      /\ at = end /\ pending.data = <<>>
      /\ UNCHANGED <<input, header, body_left, in_init, failed, started, pending, moof>>
  BY DEF ScanInv, Tidy, Push
<1>2. /\ o \in Seq(Nat) /\ header \in Seq(Nat) /\ moof \in Seq(Nat) \cup {None}
      /\ pending \in Runs /\ input \in Inputs /\ input.len \in Nat
      /\ at \in Nat /\ given \in Nat /\ given <= at /\ body_left \in Nat
  BY Known
<1>3. e \in Nat /\ end \in Nat /\ end <= e /\ n \in Nat
  BY <1>1, <1>2
<1>4. /\ given' \in Nat /\ given' <= at
      /\ HeldOf(moof, header) = Bytes(given', at)
  <2> DEFINE h == HeldOf(moof, header)
  <2>1. h \in Seq(Nat)
    BY <1>2, HeldIs
  <2>2. Cat(Cat(o, <<>>), h) = Bytes(given, at)
    BY <1>1, PassedIs DEF ScanInv, Total
  <2>3. Cat(o, <<>>) = o
    BY <1>2, CatFacts
  <2> HIDE DEF o, h
  <2>4. given + Len(o) \in Nat /\ given + Len(o) <= at /\ h = Bytes(given + Len(o), at)
    BY <1>2, <2>1, <2>2, <2>3, BytesCut
  <2> QED  BY <1>1, <2>4 DEF h
<1>5. Placed'
  <2>1. failed' => \E p \in DOMAIN input'.boxes : Wrong(p)' /\ HeaderEnd(p)' <= end'
    <3> SUFFICES ASSUME failed
                 PROVE  \E p \in DOMAIN input'.boxes : Wrong(p)' /\ HeaderEnd(p)' <= end'
      BY <1>1
    <3>1. PICK p \in DOMAIN input.boxes : Wrong(p) /\ HeaderEnd(p) <= end
      BY DEF ScanInv, Placed
    <3>2. p \in Nat /\ HeaderEnd(p) \in Nat
      <4>1. p \in Nat /\ 1 <= p
        BY <1>2, Boxes
      <4> QED  BY <4>1, Sizes DEF HeaderEnd
    <3>3. p \in DOMAIN input'.boxes /\ Wrong(p)' /\ HeaderEnd(p)' <= end'
      BY <1>1, <1>3, <3>1, <3>2, Fixed
    <3> QED  BY <3>3
  <2>2. ~failed => at' = at
    BY DEF Push
  <2>3. ~failed' =>
          IF body_left' = 0 THEN \E i \in Nat : Between(i)'
          ELSE header' = <<>> /\ started' /\ \E p \in DOMAIN input'.boxes : InBody(p)'
    BY <1>1, <2>2 DEF ScanInv, Placed, Between, InBody, Sound, Wrong, HeaderEnd
  <2> QED  BY <2>1, <2>3 DEF Placed
<1>6. CASE failed
  <2>1. /\ out' = <<Media(Bytes(end, e), FALSE, FALSE)>> /\ at' = e /\ pc' = "idle"
        /\ moof = None /\ header = <<>> /\ ~in_init
    BY <1>1, <1>6 DEF Push, ScanInv, Tidy
  <2> DEFINE x == Media(Bytes(end, e), FALSE, FALSE)
  <2>2. Bytes(end, e) \in Seq(Nat)
    BY <1>3, BytesFacts
  <2>3. x \in Pieces /\ x.data = Bytes(end, e)
    BY <2>2, PieceOf
  <2>4. out' = <<x>>
    BY <2>1
  <2> HIDE DEF x
  <2>5. out' \in Seq(Pieces) /\ DataOf(out') = Bytes(end, e)
    <3>1. AllData(<<x>>) = x.data
      BY <2>3, DataIs, DataSingle
    <3> QED  BY <2>3, <2>4, <3>1, DataIs
  <2>6. given' = at
    <3>1. Bytes(given', at) = <<>> /\ Len(Bytes(given', at)) = at - given'
      <4>1. HeldOf(moof, header) = <<>>
        BY <1>2, <2>1, HeldIs
      <4> QED  BY <1>2, <1>4, <4>1, BytesFacts
    <3>2. at - given' = 0
      BY <3>1, EmptySeq
    <3> DEFINE g == given'
    <3>3. at \in Nat /\ g \in Nat /\ at - g = 0
      BY <1>2, <1>4, <3>2
    <3> HIDE DEF g
    <3>4. g = at
      BY <3>3
    <3> QED  BY <3>4 DEF g
  <2>7. Typed'
    <3>1. /\ input' \in Inputs /\ {at', end', given', body_left'} \subseteq Nat
          /\ at' <= end' /\ end' <= input'.len /\ given' <= at'
      BY <1>1, <1>2, <1>3, <1>4, <2>1, <2>6
    <3>2. /\ pc' \in {"idle", "scanning"} /\ {in_init', failed', started'} \subseteq BOOLEAN
          /\ pending' \in Runs /\ header' \in Seq(Nat) /\ moof' \in Seq(Nat) \cup {None}
      BY <1>1, <1>2, <2>1 DEF ScanInv, Typed
    <3> QED  BY <2>5, <3>1, <3>2 DEF Typed
  <2>8. Tidy'
    BY <1>1, <2>1 DEF ScanInv, Tidy
  <2>9. PassThrough'
    <3>1. HeldOf(moof', header') = <<>>
      BY <1>1, <1>2, <2>1, HeldIs
    <3>2. Cat(Bytes(end, e), <<>>) = Bytes(end, e)
      BY <2>2, CatFacts
    <3> HIDE DEF e
    <3> QED  BY <1>1, <2>1, <2>5, <2>6, <3>1, <3>2, PassedIs DEF Total
  <2> QED  BY <1>5, <2>7, <2>8, <2>9 DEF ScanInv
<1>7. CASE ~failed
  <2>1. out' = <<>> /\ pc' = "scanning" /\ at' = at
    BY <1>1, <1>7 DEF Push
  <2>2. <<>> \in Seq(Pieces) /\ DataOf(<<>>) = <<>>
    BY DataIs, DataEmpty, EmptySeq
  <2>3. Typed'
    BY <1>1, <1>2, <1>3, <1>4, <2>1, <2>2 DEF ScanInv, Typed
  <2>4. Tidy'
    BY <1>1, <1>7, <2>1 DEF ScanInv, Tidy
  <2>5. PassThrough'
    <3>1. HeldOf(moof', header') = Bytes(given', at')
      BY <1>1, <1>4, <2>1
    <3>2. Bytes(given', at') \in Seq(Nat)
      BY <1>2, <1>4, <2>1, BytesFacts
    <3>3. Cat(Cat(<<>>, <<>>), Bytes(given', at')) = Bytes(given', at')
      <4>1. Cat(<<>>, <<>>) = <<>>
        BY CatFacts, EmptySeq
      <4> QED  BY <3>2, <4>1, CatFacts
    <3> QED  BY <1>1, <2>1, <2>2, <3>1, <3>3, PassedIs DEF Total
  <2> QED  BY <1>5, <2>3, <2>4, <2>5 DEF ScanInv
<1> QED  BY <1>6, <1>7

\* What the header that is read says of the state.
LEMMA HeaderRead ==
  ASSUME ScanInv, AtHeader
  PROVE  /\ ~failed /\ moof = None /\ body_left = 0 /\ pc = "scanning"
         /\ AtNow \in Nat /\ at <= AtNow /\ AtNow <= end
         /\ HeadNow \in Seq(Nat) /\ HeadNow = Cat(header, Bytes(at, AtNow))
         /\ \E n \in Nat : Between(n)
<1>1. ~failed /\ body_left = 0 /\ pc = "scanning"
  BY DEF ScanInv, Tidy, AtHeader
<1>2. PICK n \in Nat : Between(n)
  BY <1>1 DEF ScanInv, Placed
<1>3. /\ AtNow \in Nat /\ at <= AtNow /\ AtNow <= end /\ n < AtNow
      /\ HeadNow = Bytes(n, AtNow)
  BY <1>2, HeadIs
<1>4. moof = None /\ header = Bytes(n, at) /\ n <= at /\ at \in Nat
  BY <1>2, Known DEF Between
<1>5. Cat(Bytes(n, at), Bytes(at, AtNow)) = Bytes(n, AtNow)
  <2> HIDE DEF AtNow
  <2> QED  BY <1>3, <1>4, BytesJoin
<1>6. Bytes(n, AtNow) \in Seq(Nat)
  <2> HIDE DEF AtNow
  <2>1. n <= AtNow
    BY <1>3
  <2> QED  BY <1>3, <2>1, BytesFacts
<1> QED  BY <1>1, <1>2, <1>3, <1>4, <1>5, <1>6

\* A step that consumes bytes up to at' keeps the types.
LEMMA TypesKept ==
  ASSUME ScanInv, at' \in Nat, at <= at', at' <= end, UNCHANGED <<input, end, given>>,
         body_left' \in Nat, pc' \in {"idle", "scanning"},
         {in_init', failed', started'} \subseteq BOOLEAN,
         out' \in Seq(Pieces), pending' \in Runs, header' \in Seq(Nat),
         moof' \in Seq(Nat) \cup {None}
  PROVE  Typed'
<1>1. /\ input' \in Inputs /\ {at', end', given', body_left'} \subseteq Nat
      /\ at' <= end' /\ end' <= input'.len /\ given' <= at'
  BY Known
<1> QED  BY <1>1 DEF Typed

\* A box that makes sense is entered, and left at once if it is empty.
LEMMA Entered ==
  ASSUME ScanInv, Enter(Box(HeadNow)), UNCHANGED <<input, failed>>,
         moof' = IF Box(HeadNow).kind = "moof" /\ body_left' # 0 THEN HeadNow ELSE None
  PROVE  /\ Placed' /\ at' = AtNow /\ body_left' \in Nat /\ header' = <<>> /\ started'
         /\ AtHeader
         /\ body_left' # 0 <=> Box(HeadNow).size > HeaderLen(Box(HeadNow))
<1>1. /\ AtHeader /\ Complete /\ at' = AtNow /\ header' = <<>> /\ started' = TRUE
  BY DEF Enter
<1>2. PICK n \in Nat : Between(n)
  BY <1>1, HeaderRead
<1> DEFINE p == n + 1
           b == input.boxes[p]
<1>3. /\ p \in DOMAIN input.boxes /\ Box(HeadNow) = b /\ HeadNow = Bytes(n, AtNow)
      /\ AtNow = HeaderEnd(p) /\ HeaderEnd(p) \in Nat
      /\ HeaderEnd(p) = n + HeaderLen(b)
  BY <1>1, <1>2, HeadIs
<1>4. Sound(n) /\ (started <=> n # 0) /\ input \in Inputs
  BY <1>2, Known DEF Between
<1>5. ~Wrong(p)
  <2>1. ~BadSize(b) /\ ~BadMoof(b) /\ (started \/ Opens(b))
    BY <1>3 DEF Enter
  <2>2. p = 1 => Opens(b)
    BY <1>4, <2>1
  <2> HIDE DEF b
  <2> QED  BY <2>1, <2>2 DEF Wrong, b
<1>6. body_left' = b.size - HeaderLen(b)
  BY <1>3 DEF Enter
<1>7. b.size \in Nat /\ HeaderLen(b) \in Nat /\ HeaderLen(b) <= b.size /\ 0 < HeaderLen(b)
  <2>1. b.size \in Nat /\ HeaderLen(b) \in Nat /\ 0 < HeaderLen(b)
    <3>1. b.size \in Nat
      BY <1>3, <1>4, Boxes
    <3> QED  BY <3>1, Sizes
  <2>2. ~(b.size < HeaderLen(b))
    BY <1>5 DEF Wrong, BadSize
  <2> HIDE DEF b, HeaderLen
  <2> QED  BY <2>1, <2>2
<1> DEFINE s == b.size
           l == HeaderLen(b)
<1>8. /\ body_left' \in Nat /\ body_left' = s - l /\ at' = n + l
      /\ s \in Nat /\ l \in Nat /\ l <= s /\ 0 < l
  BY <1>1, <1>3, <1>6, <1>7
<1>9. p - 1 = n /\ p - 1 + s = n + s /\ p \in Nat
  BY <1>7
<1> HIDE DEF p, b, s, l
<1>10. /\ Sound(n)' /\ ~Wrong(p)' /\ HeaderEnd(p)' = HeaderEnd(p)
       /\ p \in DOMAIN input'.boxes /\ input'.boxes = input.boxes
  BY <1>3, <1>4, <1>5, <1>9, Fixed
<1>11. CASE body_left' = 0
  <2>0. n + s \in Nat /\ n + s # 0 /\ at' = n + s
    BY <1>8, <1>11
  <2>1. PICK m \in Nat : m = n + s /\ m # 0 /\ at' = m
    BY <2>0
  <2>2. Sound(m)
    <3>1. Sound(p - 1 + s)
      <4>1. Sound(p - 1)
        BY <1>4, <1>9
      <4> QED  BY <1>3, <1>4, <1>5, <4>1, SoundAfter DEF s, b
    <3> QED  BY <1>9, <2>1, <3>1
  <2>3. Sound(m)'
    BY <2>1, <2>2, Fixed
  <2>4. moof' = None /\ header' = <<>> /\ Bytes(m, m) = <<>>
    BY <1>1, <1>11, <2>1, BytesFacts
  <2>5. Between(m)'
    BY <1>1, <2>1, <2>3, <2>4 DEF Between
  <2>6. ~failed'
    BY <1>1, HeaderRead
  <2>7. Placed'
    BY <1>11, <2>1, <2>5, <2>6 DEF Placed
  <2> QED  BY <1>1, <1>3, <1>8, <1>11, <2>7 DEF s, l
<1>12. CASE body_left' # 0
  <2>1. p - 1 + s = at' + body_left'
    BY <1>8, <1>9
  <2>2. moof' = IF b.kind = "moof" THEN Bytes(p - 1, at') ELSE None
    BY <1>1, <1>3, <1>9, <1>12 DEF b
  <2>3. InBody(p)'
    <3>1. Sound(p - 1)'
      BY <1>9, <1>10
    <3>2. HeaderEnd(p)' <= at'
      BY <1>1, <1>3, <1>10
    <3>3. (p - 1 + input.boxes[p].size)' = at' + body_left'
      BY <1>10, <2>1 DEF s, b
    <3>4. moof' = (IF input.boxes[p].kind = "moof" THEN Bytes(p - 1, at) ELSE None)'
      BY <1>10, <2>2 DEF b
    <3> QED  BY <1>10, <3>1, <3>2, <3>3, <3>4 DEF InBody
  <2>4. ~failed'
    BY <1>1, HeaderRead
  <2>5. Placed'
    BY <1>1, <1>10, <1>12, <2>3, <2>4 DEF Placed
  <2>6. s > l
    BY <1>8, <1>12
  <2> QED  BY <1>1, <1>3, <1>8, <1>12, <2>5, <2>6 DEF s, l
<1> QED  BY <1>11, <1>12

LEMMA HoldKeeps ==
  ASSUME ScanInv, HoldHeader
  PROVE  ScanInv'
<1>1. /\ AtHeader /\ ~Complete /\ header' = HeadNow /\ at' = AtNow
      /\ UNCHANGED <<input, end, given, pc, out, body_left, in_init, failed, started,
                     pending, moof>>
  BY DEF HoldHeader
<1>2. /\ ~failed /\ moof = None /\ body_left = 0 /\ pc = "scanning"
      /\ at' \in Nat /\ at <= at' /\ at' <= end
      /\ header' \in Seq(Nat) /\ header' = Cat(header, Bytes(at, at'))
  BY <1>1, HeaderRead
<1>3. Typed'
  BY <1>1, <1>2, Known, TypesKept DEF ScanInv, Typed
<1>4. Tidy'
  BY <1>1, <1>2 DEF ScanInv, Tidy
<1>5. Placed'
  <2>1. PICK n \in Nat : Between(n)
    BY <1>1, HeaderRead
  <2>2. /\ header' = Bytes(n, at') /\ n < at' /\ at' < HeaderEnd(n + 1)
        /\ n + 1 \in Nat
    BY <1>1, <2>1, HeadIs
  <2>3. Between(n)'
    <3>1. Sound(n)' /\ HeaderEnd(n + 1)' = HeaderEnd(n + 1)
      BY <1>1, <2>1, <2>2, Fixed DEF Between
    <3>2. n <= at'
      BY <1>2, <2>2
    <3> QED  BY <1>1, <1>2, <2>1, <2>2, <3>1, <3>2 DEF Between
  <2> QED  BY <1>1, <1>2, <2>3 DEF Placed
<1>6. PassThrough'
  <2> DEFINE o == DataOf(out)
             p == pending.data
             s == Bytes(at, at')
  <2>1. o \in Seq(Nat) /\ p \in Seq(Nat) /\ header \in Seq(Nat) /\ s \in Seq(Nat)
    <3>1. s \in Seq(Nat)
      BY <1>2, Known, BytesFacts
    <3> QED  BY <3>1, Known
  <2>2. HeldOf(moof, header) = header /\ HeldOf(moof', header') = Cat(header, s)
    BY <1>1, <1>2, <2>1, HeldIs
  <2>3. Total(out, pending, moof, header) = Cat(Cat(o, p), header)
    BY <2>2 DEF Total
  <2>4. Total(out', pending', moof', header') = Cat(Cat(o, p), Cat(header, s))
    BY <1>1, <2>2 DEF Total
  <2> HIDE DEF o, p, s
  <2>5. Cat(Cat(o, p), Cat(header, s)) = Cat(Cat(Cat(o, p), header), s)
    BY <2>1, Regroup
  <2>6. Total(out', pending', moof', header')
          = Cat(Total(out, pending, moof, header), Bytes(at, at'))
    BY <2>3, <2>4, <2>5 DEF s
  <2> QED  BY <1>1, <1>2, <2>6, Advance
<1> QED  BY <1>3, <1>4, <1>5, <1>6 DEF ScanInv

LEMMA GiveUpKeeps ==
  ASSUME ScanInv, GiveUp
  PROVE  ScanInv'
<1> DEFINE b == Box(HeadNow)
           rest == Bytes(AtNow, end)
<1>1. /\ AtHeader /\ Complete
      /\ BadSize(b) \/ (~started /\ ~Opens(b)) \/ BadMoof(b)
      /\ failed' = TRUE /\ in_init' = FALSE /\ started' = (started \/ ~BadSize(b))
      /\ pending' = Nothing /\ moof' = None /\ header' = <<>> /\ at' = end
      /\ pc' = "idle" /\ UNCHANGED <<input, end, given>>
  BY DEF GiveUp, DropInit
<1>2. body_left' = IF ~BadSize(b) /\ (started \/ Opens(b))
                     THEN b.size - HeaderLen(b) ELSE body_left
  BY DEF GiveUp
<1>3. /\ ~failed /\ moof = None /\ AtNow \in Nat /\ at <= AtNow /\ AtNow <= end
      /\ HeadNow \in Seq(Nat) /\ HeadNow = Cat(header, Bytes(at, AtNow))
  BY <1>1, HeaderRead
<1>4. PICK n \in Nat : Between(n)
  BY <1>1, HeaderRead
<1>5. /\ n + 1 \in DOMAIN input.boxes /\ b = input.boxes[n + 1]
      /\ AtNow = HeaderEnd(n + 1)
  BY <1>1, <1>4, HeadIs
<1>6. /\ DataOf(out) \in Seq(Nat) /\ pending.data \in Seq(Nat) /\ header \in Seq(Nat)
      /\ pending \in Runs /\ out \in Seq(Pieces) /\ input \in Inputs
      /\ at \in Nat /\ end \in Nat /\ at <= end /\ body_left \in Nat
  BY Known
<1>7. rest \in Seq(Nat)
  <2> HIDE DEF AtNow
  <2> QED  BY <1>3, <1>6, BytesFacts
<1>8. /\ out' \in Seq(Pieces)
      /\ DataOf(out') = Cat(Cat(DataOf(out), pending.data), Cat(HeadNow, rest))
  <2> DEFINE x == Plain(HeadNow)
             y == Plain(rest)
             z == Taken
  <2>1. /\ x \in Seq(Pieces) /\ DataOf(x) = HeadNow
        /\ y \in Seq(Pieces) /\ DataOf(y) = rest
        /\ z \in Seq(Pieces) /\ DataOf(z) = pending.data
    BY <1>3, <1>6, <1>7, PlainIs, TakenIs
  <2>2. HandBack = Cat(<<>>, x) \o y /\ out' = (out \o z) \o HandBack
    BY <1>3 DEF HandBack, GiveUp, Cat
  <2> HIDE DEF x, y, z, rest
  <2>3. Cat(<<>>, x) = x
    BY <2>1, CatFacts
  <2>4. /\ x \o y \in Seq(Pieces) /\ DataOf(x \o y) = Cat(HeadNow, rest)
        /\ out \o z \in Seq(Pieces) /\ DataOf(out \o z) = Cat(DataOf(out), pending.data)
    BY <1>6, <2>1, ListsJoin
  <2>5. out' = (out \o z) \o (x \o y)
    BY <2>2, <2>3
  <2> QED  BY <2>4, <2>5, ListsJoin
<1>9. body_left' \in Nat
  <2>1. b.size \in Nat /\ HeaderLen(b) \in Nat
    <3>1. b.size \in Nat
      BY <1>5, <1>6, Boxes
    <3> QED  BY <3>1, Sizes
  <2>2. ~BadSize(b) => HeaderLen(b) <= b.size
    <3> HIDE DEF b, HeaderLen
    <3> QED  BY <2>1 DEF BadSize
  <2> HIDE DEF b
  <2> QED  BY <1>2, <1>6, <2>1, <2>2
<1>10. Typed'
  <2>1. {in_init', failed', started'} \subseteq BOOLEAN
    BY <1>1, <1>6 DEF ScanInv, Typed, BadSize
  <2>2. pending' \in Runs /\ header' \in Seq(Nat)
    BY <1>1, NothingIs, EmptySeq
  <2> QED  BY <1>1, <1>6, <1>8, <1>9, <2>1, <2>2, TypesKept
<1>11. Tidy'
  BY <1>1, NothingIs DEF Tidy
<1>12. Placed'
  <2> DEFINE p == n + 1
  <2>1. Wrong(p)
    <3>1. started <=> n # 0
      BY <1>4 DEF Between
    <3>2. ~started => p = 1
      BY <3>1
    <3> QED  BY <1>1, <1>5, <3>2 DEF Wrong
  <2>2. HeaderEnd(p) <= end /\ p \in DOMAIN input.boxes
    BY <1>3, <1>5
  <2>3. p \in Nat
    OBVIOUS
  <2> HIDE DEF p
  <2>4. p \in DOMAIN input'.boxes /\ Wrong(p)' /\ HeaderEnd(p)' <= end'
    BY <1>1, <2>1, <2>2, <2>3, Fixed
  <2> QED  BY <1>1, <2>4 DEF Placed
<1>13. PassThrough'
  <2> DEFINE o == DataOf(out)
             p == pending.data
             r == Bytes(at, AtNow)
             u == Cat(o, p)
             v == Cat(u, header)
  <2>1. r \in Seq(Nat) /\ Cat(r, rest) = Bytes(at, end)
    <3> HIDE DEF AtNow
    <3> QED  BY <1>3, <1>6, BytesFacts, BytesJoin
  <2>2. HeldOf(moof, header) = header /\ HeldOf(moof', header') = <<>>
    BY <1>1, <1>3, <1>6, HeldIs, EmptySeq
  <2>3. Total(out, pending, moof, header) = v
    BY <2>2 DEF Total
  <2>4. HeadNow = Cat(header, r)
    BY <1>3
  <2>5. Total(out', pending', moof', header')
          = Cat(Cat(Cat(u, Cat(Cat(header, r), rest)), <<>>), <<>>)
    BY <1>1, <1>8, <2>2, <2>4, NothingIs DEF Total
  <2>6. u \in Seq(Nat) /\ o \in Seq(Nat) /\ p \in Seq(Nat)
    BY <1>6, CatFacts
  <2> HIDE DEF rest, r, o, p
  <2>7. /\ Cat(Cat(header, r), rest) = Cat(header, Cat(r, rest))
        /\ Cat(u, Cat(header, Cat(r, rest))) = Cat(v, Cat(r, rest))
        /\ Cat(r, rest) \in Seq(Nat) /\ v \in Seq(Nat)
    <3> HIDE DEF u
    <3>1. Cat(r, rest) \in Seq(Nat) /\ v \in Seq(Nat)
      BY <1>6, <1>7, <2>1, <2>6, CatFacts
    <3> QED  BY <1>6, <1>7, <2>1, <2>6, <3>1, CatAssociative
  <2> HIDE DEF u, v
  <2>8. /\ Cat(v, Cat(r, rest)) \in Seq(Nat)
        /\ Cat(Cat(v, Cat(r, rest)), <<>>) = Cat(v, Cat(r, rest))
    BY <2>7, CatFacts
  <2>9. Total(out', pending', moof', header') = Cat(v, Bytes(at, end))
    BY <2>1, <2>5, <2>7, <2>8
  <2> QED  BY <1>1, <1>6, <2>3, <2>9, Advance
<1> QED  BY <1>10, <1>11, <1>12, <1>13 DEF ScanInv

\* What both steps that enter a box have in common: with nothing of the header
\* held any more, the box's header comes after what was returned and held.
LEMMA HeaderPassed ==
  ASSUME ScanInv, Enter(Box(HeadNow)), UNCHANGED given, at' = AtNow,
         Total(out', pending', moof', header')
           = Cat(Cat(DataOf(out), pending.data), HeadNow)
  PROVE  PassThrough'
<1> DEFINE o == DataOf(out)
           p == pending.data
           s == Bytes(at, at')
<1>1. /\ moof = None /\ at' \in Nat /\ at <= at' /\ at \in Nat
      /\ HeadNow = Cat(header, s)
  BY HeaderRead, Known DEF Enter
<1>2. o \in Seq(Nat) /\ p \in Seq(Nat) /\ header \in Seq(Nat) /\ s \in Seq(Nat)
  <2>1. s \in Seq(Nat)
    BY <1>1, BytesFacts
  <2> QED  BY <2>1, Known
<1>3. HeldOf(moof, header) = header
  BY <1>1, <1>2, HeldIs
<1>4. Total(out, pending, moof, header) = Cat(Cat(o, p), header)
  BY <1>3 DEF Total
<1>5. Total(out', pending', moof', header') = Cat(Cat(o, p), Cat(header, s))
  BY <1>1
<1> HIDE DEF o, p, s
<1>6. Cat(Cat(o, p), Cat(header, s)) = Cat(Cat(Cat(o, p), header), s)
  BY <1>2, Regroup
<1>7. Total(out', pending', moof', header')
        = Cat(Total(out, pending, moof, header), Bytes(at, at'))
  BY <1>4, <1>5, <1>6 DEF s
<1> QED  BY <1>1, <1>7, Advance

LEMMA OpenBoxKeeps ==
  ASSUME ScanInv, OpenBox
  PROVE  ScanInv'
<1>0. /\ input' = input /\ end' = end /\ given' = given /\ pc' = pc
      /\ in_init' = in_init /\ failed' = failed /\ moof' = moof
  BY DEF OpenBox
<1>1. /\ Enter(Box(HeadNow)) /\ Box(HeadNow).kind # "moof" /\ Emit(HeadNow)
      /\ UNCHANGED <<input, end, given, pc, in_init, failed, moof>>
  BY DEF OpenBox
<1>2. /\ AtHeader /\ ~failed /\ moof = None /\ AtNow \in Nat /\ at <= AtNow /\ AtNow <= end
      /\ HeadNow \in Seq(Nat) /\ pc = "scanning"
  BY <1>1, HeaderRead DEF Enter
<1>3. /\ Placed' /\ at' = AtNow /\ body_left' \in Nat /\ header' = <<>> /\ started' = TRUE
  BY <1>1, <1>2, Entered DEF Enter
<1>4. /\ out' \in Seq(Pieces) /\ pending' \in Runs
      /\ in_init => pending'.data = <<>>
      /\ Cat(Cat(DataOf(out'), pending'.data), <<>>)
           = Cat(Cat(Cat(DataOf(out), pending.data), <<>>), HeadNow)
  BY <1>1, <1>2, EmitAdds
<1>5. Typed'
  <2>1. in_init' \in BOOLEAN /\ failed' \in BOOLEAN
    BY <1>0 DEF ScanInv, Typed
  <2>2. {in_init', failed', started'} \subseteq BOOLEAN
    BY <1>3, <2>1
  <2>3. /\ pc' \in {"idle", "scanning"} /\ moof' \in Seq(Nat) \cup {None}
        /\ header' \in Seq(Nat)
    BY <1>0, <1>2, <1>3, EmptySeq
  <2>4. at' \in Nat /\ at <= at' /\ at' <= end
    BY <1>2, <1>3
  <2> QED  BY <1>0, <1>2, <1>3, <1>4, <2>2, <2>3, <2>4, TypesKept
<1>6. Tidy'
  <2>1. (in_init' <=> in_init) /\ (failed' <=> failed) /\ pc' = "scanning" /\ moof' = None
    BY <1>0, <1>2
  <2>2. in_init => pending'.data = <<>>
    BY <1>4
  <2> QED  BY <1>2, <2>1, <2>2 DEF Tidy
<1>7. PassThrough'
  <2> DEFINE o == DataOf(out)
             p == pending.data
  <2>1. HeldOf(moof', header') = <<>>
    BY <1>1, <1>2, <1>3, HeldIs, EmptySeq
  <2>2. Cat(Cat(o, p), <<>>) = Cat(o, p)
    BY Known, CatFacts
  <2> HIDE DEF o, p
  <2>3. Total(out', pending', moof', header') = Cat(Cat(o, p), HeadNow)
    BY <1>4, <2>1, <2>2 DEF Total, o, p
  <2> QED  BY <1>1, <1>3, <2>3, HeaderPassed DEF o, p
<1> QED  BY <1>3, <1>5, <1>6, <1>7 DEF ScanInv

LEMMA OpenMoofKeeps ==
  ASSUME ScanInv, OpenMoof
  PROVE  ScanInv'
<1> DEFINE b == Box(HeadNow)
           o == DataOf(out)
           p == pending.data
<1>1. /\ Enter(b) /\ b.kind = "moof" /\ in_init' = FALSE /\ out' = out \o Taken
      /\ IF b.size > HeaderLen(b)
           THEN moof' = HeadNow /\ pending' = Nothing
           ELSE moof' = moof /\ pending' = Started(Nothing, tracks', HeadNow)
      /\ UNCHANGED <<input, end, given, pc, failed>>
  BY DEF OpenMoof, Fragment
<1>2. /\ AtHeader /\ ~failed /\ moof = None /\ AtNow \in Nat /\ at <= AtNow /\ AtNow <= end
      /\ HeadNow \in Seq(Nat) /\ pc = "scanning"
  BY <1>1, HeaderRead DEF Enter
<1>3. body_left' # 0 <=> b.size > HeaderLen(b)
  <2>1. body_left' = b.size - HeaderLen(b) /\ ~(b.size < HeaderLen(b))
    BY <1>1 DEF Enter, BadSize
  <2>2. b.size \in Nat /\ HeaderLen(b) \in Nat
    <3>1. PICK n \in Nat : Between(n)
      BY <1>2, HeaderRead
    <3>2. n + 1 \in DOMAIN input.boxes /\ b = input.boxes[n + 1]
      BY <1>2, <3>1, HeadIs
    <3>3. b.size \in Nat
      BY <3>2, Known, Boxes
    <3> QED  BY <3>3, Sizes
  <2> HIDE DEF b, HeaderLen
  <2> QED  BY <2>1, <2>2
<1>4. moof' = IF b.kind = "moof" /\ body_left' # 0 THEN HeadNow ELSE None
  BY <1>1, <1>2, <1>3
<1>5. /\ Placed' /\ at' = AtNow /\ body_left' \in Nat /\ header' = <<>> /\ started' = TRUE
  BY <1>1, <1>4, Entered DEF Enter
<1>6. /\ o \in Seq(Nat) /\ p \in Seq(Nat) /\ Cat(o, p) \in Seq(Nat)
      /\ out' \in Seq(Pieces) /\ DataOf(out') = Cat(o, p)
  <2>1. o \in Seq(Nat) /\ p \in Seq(Nat) /\ pending \in Runs /\ out \in Seq(Pieces)
    BY Known
  <2>2. Taken \in Seq(Pieces) /\ DataOf(Taken) = p
    BY <2>1, TakenIs
  <2> HIDE DEF o, p
  <2> QED  BY <1>1, <2>1, <2>2, ListsJoin, CatFacts DEF o
<1>7. /\ pending' \in Runs /\ moof' \in Seq(Nat) \cup {None}
      /\ Cat(pending'.data, HeldOf(moof', header')) = HeadNow
  <2>1. Cat(<<>>, HeadNow) = HeadNow /\ Cat(HeadNow, <<>>) = HeadNow /\ <<>> \in Seq(Nat)
    BY <1>2, CatFacts, EmptySeq
  <2>2. CASE b.size > HeaderLen(b)
    <3>1. moof' = HeadNow /\ pending' = Nothing
      BY <1>1, <2>2
    <3>2. HeadNow # None
      BY <1>2, NoneAssumption
    <3>3. HeldOf(moof', header') = HeadNow
      BY <1>2, <1>5, <2>1, <3>1, <3>2, HeldIs
    <3> QED  BY <1>2, <2>1, <3>1, <3>3, NothingIs
  <2>3. CASE ~(b.size > HeaderLen(b))
    <3>1. moof' = None /\ pending' = Started(Nothing, tracks', HeadNow)
      BY <1>1, <1>2, <2>3
    <3>2. HeldOf(moof', header') = <<>>
      BY <1>5, <2>1, <3>1, HeldIs
    <3>3. pending' \in Runs /\ pending'.data = HeadNow
      BY <1>2, <2>1, <3>1, NothingIs, StartedIs
    <3> QED  BY <2>1, <3>1, <3>2, <3>3
  <2> QED  BY <2>2, <2>3
<1>8. Typed'
  BY <1>1, <1>2, <1>5, <1>6, <1>7, Known, TypesKept, EmptySeq DEF ScanInv, Typed
<1>9. Tidy'
  BY <1>1, <1>2 DEF Tidy
<1>10. PassThrough'
  <2> DEFINE q == pending'.data
             h == HeldOf(moof', header')
  <2>1. q \in Seq(Nat) /\ h \in Seq(Nat) /\ Cat(q, h) = HeadNow
    BY <1>5, <1>7, HeldIs, EmptySeq DEF Runs
  <2>2. Total(out', pending', moof', header') = Cat(Cat(Cat(o, p), q), h)
    BY <1>6 DEF Total
  <2> HIDE DEF o, p, q, h
  <2>3. Cat(Cat(Cat(o, p), q), h) = Cat(Cat(o, p), Cat(q, h))
    BY <1>6, <2>1, CatAssociative
  <2> QED  BY <1>1, <1>5, <2>1, <2>2, <2>3, HeaderPassed DEF o, p
<1> QED  BY <1>5, <1>8, <1>9, <1>10 DEF ScanInv

LEMMA ReturnKeeps ==
  ASSUME ScanInv, Return
  PROVE  ScanInv'
<1>1. /\ pc = "scanning" /\ at = end /\ out' = out \o Taken /\ pending' = Nothing
      /\ pc' = "idle"
      /\ UNCHANGED <<input, end, at, given, header, body_left, in_init, failed, started, moof>>
  BY DEF Return
<1> DEFINE o == DataOf(out)
           p == pending.data
           h == HeldOf(moof, header)
<1>2. ~failed
  BY <1>1 DEF ScanInv, Tidy
<1>3. /\ o \in Seq(Nat) /\ p \in Seq(Nat) /\ Cat(o, p) \in Seq(Nat)
      /\ out' \in Seq(Pieces) /\ DataOf(out') = Cat(o, p)
  <2>1. o \in Seq(Nat) /\ p \in Seq(Nat) /\ pending \in Runs /\ out \in Seq(Pieces)
    BY Known
  <2>2. Taken \in Seq(Pieces) /\ DataOf(Taken) = p
    BY <2>1, TakenIs
  <2> HIDE DEF o, p
  <2> QED  BY <1>1, <2>1, <2>2, ListsJoin, CatFacts DEF o
<1>4. Typed'
  BY <1>1, <1>3, NothingIs DEF ScanInv, Typed
<1>5. Tidy'
  BY <1>1, <1>2, NothingIs DEF ScanInv, Tidy
<1>6. Placed'
  BY <1>1, <1>2 DEF ScanInv, Placed, Between, InBody, Sound, Wrong, HeaderEnd
<1>7. PassThrough'
  <2>1. Total(out, pending, moof, header) = Cat(Cat(o, p), h)
    BY DEF Total
  <2>2. Total(out', pending', moof', header') = Cat(Cat(Cat(o, p), <<>>), h)
    BY <1>1, <1>3, NothingIs DEF Total
  <2> HIDE DEF o, p, h
  <2>3. Cat(Cat(o, p), <<>>) = Cat(o, p)
    BY <1>3, CatFacts
  <2>4. Total(out', pending', moof', header') = Bytes(given', at')
    BY <1>1, <2>1, <2>2, <2>3, PassedIs DEF ScanInv
  <2> QED  BY <2>4, PassedIs
<1> QED  BY <1>4, <1>5, <1>6, <1>7 DEF ScanInv

LEMMA BodyKeeps ==
  ASSUME ScanInv, Body
  PROVE  ScanInv'
<1> DEFINE T == Take
           s == Bytes(at, at + T)
           o == DataOf(out)
           p == pending.data
<1>1. /\ pc = "scanning" /\ at < end /\ body_left > 0
      /\ body_left' = body_left - T /\ at' = at + T
      /\ UNCHANGED <<input, end, given, pc, header, in_init, failed, started>>
  BY DEF Body
<1>2. IF moof = None THEN Emit(s) /\ moof' = moof
      ELSE IF T < body_left
      THEN moof' = moof \o s /\ UNCHANGED <<init, out, pending>>
      ELSE /\ moof' = None /\ pending' = Started(pending, tracks, moof \o s)
           /\ UNCHANGED <<init, out>>
  BY DEF Body
<1>3. /\ o \in Seq(Nat) /\ p \in Seq(Nat) /\ pending \in Runs /\ out \in Seq(Pieces)
      /\ moof \in Seq(Nat) \cup {None} /\ input \in Inputs
      /\ at \in Nat /\ end \in Nat /\ body_left \in Nat
  BY Known
<1>4. /\ T \in Nat /\ 0 < T /\ T <= body_left /\ at + T \in Nat /\ at + T <= end
      /\ body_left - T \in Nat /\ (body_left - T = 0 <=> ~(T < body_left))
  BY <1>1, <1>3 DEF Take
<1> HIDE DEF T
<1>5. ~failed
  BY <1>1 DEF ScanInv, Tidy
<1>6. header = <<>> /\ started /\ \E q \in DOMAIN input.boxes : InBody(q)
  BY <1>1, <1>3, <1>5 DEF ScanInv, Placed
<1>7. PICK q \in DOMAIN input.boxes : InBody(q)
  BY <1>6
<1>8. s \in Seq(Nat) /\ s = Bytes(at, at')
  BY <1>1, <1>3, <1>4, BytesFacts
<1> HIDE DEF s
<1>9. moof' = IF moof = None \/ ~(T < body_left) THEN None ELSE Cat(moof, s)
  BY <1>2 DEF Cat
<1>10. /\ out' \in Seq(Pieces) /\ pending' \in Runs /\ moof' \in Seq(Nat) \cup {None}
       /\ in_init' => pending'.data = <<>>
       /\ moof' # None => ~in_init'
       /\ Total(out', pending', moof', header')
            = Cat(Total(out, pending, moof, header), s)
  <2>1. CASE moof = None
    <3>1. /\ out' \in Seq(Pieces) /\ pending' \in Runs
          /\ in_init => pending'.data = <<>>
          /\ Cat(Cat(DataOf(out'), pending'.data), <<>>) = Cat(Cat(Cat(o, p), <<>>), s)
      BY <1>1, <1>2, <1>8, <2>1, EmitAdds
    <3>2. /\ moof' = None /\ in_init' = in_init /\ HeldOf(moof, header) = <<>>
          /\ HeldOf(moof', header') = <<>>
      BY <1>1, <1>2, <1>6, <2>1, HeldIs, EmptySeq
    <3>3. Total(out', pending', moof', header') = Cat(Total(out, pending, moof, header), s)
      BY <3>1, <3>2 DEF Total
    <3>4. in_init' => pending'.data = <<>>
      <4>1. in_init' <=> in_init
        BY <3>2
      <4>2. in_init => pending'.data = <<>>
        BY <3>1
      <4> QED  BY <4>1, <4>2
    <3> QED  BY <3>1, <3>2, <3>3, <3>4
  <2>2. CASE moof # None
    <3>1. /\ moof \in Seq(Nat) /\ Cat(moof, s) \in Seq(Nat) /\ ~in_init
          /\ HeldOf(moof, header) = moof
      BY <1>3, <1>6, <1>8, <2>2, CatFacts, HeldIs, EmptySeq DEF ScanInv, Tidy
    <3>2. CASE T < body_left
      <4>1. moof' = Cat(moof, s) /\ out' = out /\ pending' = pending
        BY <1>2, <2>2, <3>2 DEF Cat
      <4>2. moof' # None
        BY <3>1, <4>1, NoneAssumption
      <4>3. HeldOf(moof', header') = Cat(moof, s)
        BY <1>1, <1>6, <3>1, <4>1, <4>2, HeldIs, EmptySeq
      <4>4. Cat(Cat(o, p), Cat(moof, s)) = Cat(Cat(Cat(o, p), moof), s)
        <5> HIDE DEF o, p
        <5> QED  BY <1>3, <1>8, <3>1, Regroup
      <4>5. Total(out', pending', moof', header') = Cat(Cat(o, p), Cat(moof, s))
        BY <4>1, <4>3 DEF Total
      <4>6. Total(out, pending, moof, header) = Cat(Cat(o, p), moof)
        BY <3>1 DEF Total
      <4> HIDE DEF o, p
      <4> QED  BY <1>1, <1>3, <3>1, <4>1, <4>4, <4>5, <4>6
    <3>3. CASE ~(T < body_left)
      <4> DEFINE m == Cat(moof, s)
      <4>1. moof' = None /\ out' = out /\ pending' = Started(pending, tracks, m)
        BY <1>2, <2>2, <3>3 DEF Cat
      <4>2. pending' \in Runs /\ pending'.data = Cat(p, m)
        BY <1>3, <3>1, <4>1, StartedIs
      <4>3. HeldOf(moof', header') = <<>>
        BY <1>1, <1>6, <4>1, HeldIs, EmptySeq
      <4>4. Cat(Cat(o, Cat(p, Cat(moof, s))), <<>>) = Cat(Cat(Cat(o, p), moof), s)
        <5> HIDE DEF o, p
        <5> QED  BY <1>3, <1>8, <3>1, Regroup
      <4>5. Total(out', pending', moof', header') = Cat(Cat(o, Cat(p, m)), <<>>)
        BY <4>1, <4>2, <4>3 DEF Total
      <4>6. Total(out, pending, moof, header) = Cat(Cat(o, p), moof)
        BY <3>1 DEF Total
      <4> HIDE DEF o, p
      <4> QED  BY <1>1, <1>3, <3>1, <4>1, <4>2, <4>4, <4>5, <4>6
    <3> QED  BY <3>2, <3>3
  <2> QED  BY <2>1, <2>2
<1>11. /\ at' \in Nat /\ at <= at' /\ at' <= end /\ body_left' \in Nat
       /\ (body_left' = 0 <=> ~(T < body_left)) /\ at' + body_left' = at + body_left
  BY <1>1, <1>3, <1>4
<1>12. Typed'
  <2>1. /\ pc' \in {"idle", "scanning"} /\ header' \in Seq(Nat)
        /\ {in_init', failed', started'} \subseteq BOOLEAN
    BY <1>1 DEF ScanInv, Typed
  <2> QED  BY <1>1, <1>10, <1>11, <2>1, TypesKept
<1>13. Tidy'
  <2>1. pc' = "scanning" /\ ~failed'
    BY <1>1, <1>5
  <2> QED  BY <1>10, <2>1 DEF Tidy
<1>14. PassThrough'
  BY <1>1, <1>8, <1>10, <1>11, Advance
<1>15. Placed'
  <2> DEFINE b == input.boxes[q]
  <2>1. /\ Sound(q - 1) /\ ~Wrong(q) /\ HeaderEnd(q) <= at
        /\ q - 1 + b.size = at + body_left
        /\ moof = IF b.kind = "moof" THEN Bytes(q - 1, at) ELSE None
    BY <1>7 DEF InBody
  <2>2. q \in Nat /\ 1 <= q /\ q - 1 \in Nat /\ b.size \in Nat /\ HeaderEnd(q) \in Nat
    <3>1. ~BadSize(b)
      BY <2>1 DEF Wrong
    <3>2. q \in Nat /\ b.size \in Nat /\ HeaderEnd(q) \in Nat /\ q <= HeaderEnd(q)
      BY <1>3, <3>1, Sensible
    <3>3. 1 <= q
      BY <1>3, Boxes
    <3> QED  BY <3>2, <3>3
  <2>3. q - 1 <= at
    <3>1. q <= HeaderEnd(q)
      <4>1. HeaderLen(b) \in Nat /\ 1 <= HeaderLen(b)
        BY Sizes
      <4> QED  BY <2>2, <4>1 DEF HeaderEnd
    <3> QED  BY <1>3, <2>1, <2>2, <3>1
  <2>4. ~failed' /\ header' = <<>> /\ started'
    BY <1>1, <1>5, <1>6
  <2>5. CASE ~(T < body_left)
    <3>1. PICK m \in Nat : m = q - 1 + b.size /\ at' = m
      <4>1. q - 1 + b.size \in Nat /\ at' = q - 1 + b.size
        <5>1. at' + 0 = at + body_left
          BY <1>11, <2>5
        <5> HIDE DEF b
        <5> QED  BY <1>11, <2>1, <2>2, <5>1
      <4> QED  BY <4>1
    <3>2. Sound(m)'
      <4>1. Sound(m)
        BY <1>3, <2>1, <3>1, SoundAfter
      <4> QED  BY <1>1, <4>1, Fixed
    <3>3. moof' = None /\ Bytes(m, m) = <<>> /\ m # 0
      <4>1. m # 0
        BY <1>1, <1>3, <1>4, <3>1
      <4> QED  BY <1>9, <2>5, <3>1, <4>1, BytesFacts
    <3>4. Between(m)'
      BY <2>4, <3>1, <3>2, <3>3 DEF Between
    <3> QED  BY <1>11, <2>4, <2>5, <3>4 DEF Placed
  <2>6. CASE T < body_left
    <3>1. moof' = IF b.kind = "moof" THEN Bytes(q - 1, at') ELSE None
      <4>1. CASE b.kind = "moof"
        <5>1. moof = Bytes(q - 1, at)
          BY <2>1, <4>1
        <5>2. moof # None
          <6>1. Bytes(q - 1, at) \in Seq(Nat)
            BY <1>3, <2>2, <2>3, BytesFacts
          <6> QED  BY <5>1, <6>1, NoneAssumption
        <5>3. Cat(Bytes(q - 1, at), Bytes(at, at')) = Bytes(q - 1, at')
          BY <1>3, <1>11, <2>2, <2>3, BytesJoin
        <5> QED  BY <1>8, <1>9, <2>6, <4>1, <5>1, <5>2, <5>3
      <4>2. CASE b.kind # "moof"
        BY <1>9, <2>1, <4>2
      <4> QED  BY <4>1, <4>2
    <3>2. InBody(q)'
      <4>1. Sound(q - 1)' /\ ~Wrong(q)' /\ HeaderEnd(q)' = HeaderEnd(q)
        BY <1>1, <2>1, <2>2, Fixed
      <4>2. HeaderEnd(q)' <= at'
        <5>1. HeaderEnd(q) <= at'
          BY <1>3, <1>11, <2>1, <2>2
        <5> QED  BY <4>1, <5>1
      <4>3. input'.boxes[q] = b
        BY <1>1
      <4>4. q - 1 + input'.boxes[q].size = at' + body_left'
        BY <1>11, <2>1, <4>3
      <4> QED  BY <3>1, <4>1, <4>2, <4>3, <4>4 DEF InBody
    <3>3. q \in DOMAIN input'.boxes
      BY <1>1
    <3> QED  BY <1>11, <2>4, <2>6, <3>2, <3>3 DEF Placed
  <2> QED  BY <2>5, <2>6
<1> QED  BY <1>12, <1>13, <1>14, <1>15 DEF ScanInv

LEMMA StutterKeeps ==
  ASSUME ScanInv, UNCHANGED vars
  PROVE  ScanInv'
BY DEF ScanInv, vars, Typed, Tidy, Placed, Between, InBody, Sound, Wrong, HeaderEnd,
       PassThrough, Held

LEMMA Inductive == ScanInv /\ [Next]_vars => ScanInv'
<1> SUFFICES ASSUME ScanInv, [Next]_vars PROVE ScanInv'
  OBVIOUS
<1>1. CASE \E n \in 1..input.len : Push(n)
  BY <1>1, PushKeeps
<1>2. CASE Body
  BY <1>2, BodyKeeps
<1>3. CASE HoldHeader
  BY <1>3, HoldKeeps
<1>4. CASE GiveUp
  BY <1>4, GiveUpKeeps
<1>5. CASE OpenMoof
  BY <1>5, OpenMoofKeeps
<1>6. CASE OpenBox
  BY <1>6, OpenBoxKeeps
<1>7. CASE Return
  BY <1>7, ReturnKeeps
<1>8. CASE UNCHANGED vars
  BY <1>8, StutterKeeps
<1> QED  BY <1>1, <1>2, <1>3, <1>4, <1>5, <1>6, <1>7, <1>8 DEF Next

LEMMA Invariant == Spec => []ScanInv
<1>1. Init => ScanInv
  BY InitKeeps
<1>2. ScanInv /\ [Next]_vars => ScanInv'
  BY Inductive
<1> QED  BY <1>1, <1>2, PTL DEF Spec

-----------------------------------------------------------------------------
(* What follows. *)

LEMMA Typing == ScanInv => TypeOK
<1> SUFFICES ASSUME ScanInv PROVE TypeOK
  OBVIOUS
<1>1. Len(<<>>) = 0 /\ 0 < Long
  BY Sizes, EmptySeq
<1>2. Len(header) < Long
  <2>1. CASE failed \/ body_left # 0
    <3>1. header = <<>>
      BY <2>1 DEF ScanInv, Tidy, Placed
    <3> QED  BY <1>1, <3>1
  <2>2. CASE ~failed /\ body_left = 0
    <3>1. PICK n \in Nat : Between(n)
      BY <2>2 DEF ScanInv, Placed
    <3>2. CASE header = <<>>
      BY <1>1, <3>2
    <3>3. CASE header # <<>>
      <4> DEFINE l == HeaderLen(input.boxes[n + 1])
      <4>1. n <= at /\ header = Bytes(n, at) /\ at < HeaderEnd(n + 1)
        BY <3>1, <3>3 DEF Between
      <4>2. at \in Nat /\ Len(Bytes(n, at)) = at - n
        BY <4>1, Known, BytesFacts
      <4>3. l \in Nat /\ l <= Long /\ Long \in Nat
        BY Sizes
      <4>4. HeaderEnd(n + 1) = n + 1 - 1 + l
        BY DEF HeaderEnd
      <4> HIDE DEF l
      <4>5. at - n < Long
        BY <4>1, <4>2, <4>3, <4>4
      <4> QED  BY <4>1, <4>2, <4>5
    <3> QED  BY <3>2, <3>3
  <2> QED  BY <2>1, <2>2
<1>3. /\ 0 <= at /\ at <= end /\ end <= input.len /\ given \in 0..at /\ body_left \in Nat
  BY Known
<1>4. pc \in {"idle", "scanning"} /\ {in_init, failed, started} \subseteq BOOLEAN
  BY DEF ScanInv, Typed
<1> QED  BY <1>2, <1>3, <1>4 DEF TypeOK

\* Push's integers are in range, its flags are flags, and no more than a header is
\* ever held in header.
THEOREM TypeCorrect == Spec => []TypeOK
BY Invariant, Typing, PTL

\* push never loses, repeats or reorders a byte (mp4.rs, Scanner::push).
THEOREM Lossless == Spec => []PassThrough
<1>1. ScanInv => PassThrough
  BY DEF ScanInv
<1> QED  BY <1>1, Invariant, PTL

\* What CutFree says of a scanner that has not failed.
NoneWrong == \A p \in DOMAIN input.boxes : ~(Wrong(p) /\ HeaderEnd(p) <= end)
Told ==
  IF Open(end) = {} THEN Held = <<>> /\ body_left = 0
  ELSE \A p \in Open(end) :
         IF end < HeaderEnd(p)
           THEN header = Bytes(p - 1, end) /\ moof = None /\ body_left = 0
           ELSE /\ header = <<>>
                /\ moof = IF input.boxes[p].kind = "moof" THEN Bytes(p - 1, end) ELSE None
                /\ body_left = p - 1 + input.boxes[p].size - end

LEMMA HeldNone ==
  ASSUME moof = None, header = <<>>
  PROVE  Held = <<>>
<1>1. Cat(<<>>, <<>>) = <<>>
  BY CatFacts, EmptySeq
<1> QED  BY <1>1 DEF Held, Cat

\* Every box begins before its header ends.
LEMMA Begins ==
  ASSUME input \in Inputs, NEW p \in DOMAIN input.boxes
  PROVE  /\ p \in Nat /\ 1 <= p /\ p <= input.len /\ input.boxes[p].size \in Nat
         /\ HeaderEnd(p) \in Nat /\ p <= HeaderEnd(p)
<1>1. p \in Nat /\ 1 <= p /\ p <= input.len /\ input.boxes[p].size \in Nat
  BY Boxes
<1> DEFINE l == HeaderLen(input.boxes[p])
<1>2. l \in Nat /\ 1 <= l
  BY Sizes
<1>3. HeaderEnd(p) = p - 1 + l
  BY DEF HeaderEnd
<1> HIDE DEF l
<1> QED  BY <1>1, <1>2, <1>3

\* Of the boxes that begin within the first n bytes, if they are whole and make
\* sense, none is open.
LEMMA NotOpen ==
  ASSUME input \in Inputs, NEW n \in Nat, Sound(n), NEW m \in Nat, n <= m,
         NEW p \in DOMAIN input.boxes, p <= n
  PROVE  ~Wrong(p) /\ p \notin Open(m)
<1>1. p - 1 + input.boxes[p].size <= n /\ ~Wrong(p)
  BY DEF Sound
<1>2. /\ p \in Nat /\ input.boxes[p].size \in Nat /\ HeaderEnd(p) \in Nat
      /\ HeaderEnd(p) <= p - 1 + input.boxes[p].size
  BY <1>1, Sensible DEF Wrong
<1>3. ~(m < HeaderEnd(p)) /\ ~(m < p - 1 + input.boxes[p].size)
  BY <1>1, <1>2
<1> QED  BY <1>1, <1>3 DEF Open

LEMMA ToldBetween ==
  ASSUME ScanInv, pc = "idle", body_left = 0, NEW n \in Nat, Between(n)
  PROVE  NoneWrong /\ Told
<1>1. /\ n <= end /\ Sound(n) /\ moof = None /\ header = Bytes(n, end) /\ at = end
      /\ header # <<>> => end < HeaderEnd(n + 1)
  BY DEF Between, ScanInv, Tidy
<1>2. end \in Nat /\ input \in Inputs /\ input.len \in Nat /\ end <= input.len
  BY Known
<1>3. (header # <<>> <=> n < end) /\ (header = <<>> <=> n = end)
  <2>1. n < end => header # <<>>
    BY <1>1, <1>2, BytesFacts
  <2>2. n = end => header = <<>>
    BY <1>1, <1>2, BytesFacts
  <2> QED  BY <1>1, <1>2, <2>1, <2>2
<1>4. ASSUME NEW p \in DOMAIN input.boxes, n + 1 < p
      PROVE  end <= p - 1
  <2>1. p \in Nat /\ p <= input.len
    BY <1>2, Begins
  <2>2. n + 1 \in DOMAIN input.boxes
    <3>1. n < input.len
      BY <1>2, <1>4, <2>1
    <3> QED  BY <1>1, <1>2, <3>1, NextBox
  <2>3. ~BadSize(input.boxes[n + 1]) /\ n + 1 + input.boxes[n + 1].size <= p
    BY <1>2, <1>4, <2>2, Boxes
  <2>4. /\ input.boxes[n + 1].size \in Nat /\ HeaderEnd(n + 1) \in Nat
        /\ HeaderEnd(n + 1) <= n + 1 - 1 + input.boxes[n + 1].size
    BY <1>2, <2>2, <2>3, Sensible
  <2>5. CASE n = end
    BY <1>2, <1>4, <2>1, <2>5
  <2>6. CASE n < end
    <3>1. end < HeaderEnd(n + 1)
      BY <1>1, <1>3, <2>6
    <3> QED  BY <1>2, <2>1, <2>3, <2>4, <3>1
  <2> QED  BY <1>1, <1>2, <2>5, <2>6
<1>5. NoneWrong
  <2> SUFFICES ASSUME NEW p \in DOMAIN input.boxes, Wrong(p), HeaderEnd(p) <= end
               PROVE  FALSE
    BY DEF NoneWrong
  <2>1. p \in Nat /\ HeaderEnd(p) \in Nat /\ p <= HeaderEnd(p)
    BY <1>2, Begins
  <2>2. CASE p <= n
    BY <1>1, <1>2, <2>2, NotOpen
  <2>3. CASE p = n + 1
    <3>1. n < end
      BY <1>2, <2>1, <2>3
    <3> QED  BY <1>1, <1>2, <1>3, <2>1, <2>3, <3>1
  <2>4. CASE n + 1 < p
    BY <1>2, <1>4, <2>1, <2>4
  <2> QED  BY <2>1, <2>2, <2>3, <2>4
<1>6. ASSUME NEW p \in Open(end)
      PROVE  p = n + 1 /\ n < end
  <2>1. p \in DOMAIN input.boxes /\ p - 1 < end
    BY DEF Open
  <2>2. p \in Nat
    BY <1>2, <2>1, Begins
  <2>3. ~(p <= n)
    BY <1>1, <1>2, <2>1, NotOpen
  <2>4. ~(n + 1 < p)
    BY <1>2, <1>4, <2>1, <2>2
  <2> QED  BY <1>2, <2>1, <2>2, <2>3, <2>4
<1>7. n < end => n + 1 \in Open(end)
  <2> SUFFICES ASSUME n < end PROVE n + 1 \in Open(end)
    OBVIOUS
  <2>1. n + 1 \in DOMAIN input.boxes
    <3>1. n < input.len
      BY <1>2
    <3> QED  BY <1>1, <1>2, <3>1, NextBox
  <2>2. end < HeaderEnd(n + 1) /\ n + 1 - 1 < end
    BY <1>1, <1>3
  <2> QED  BY <2>1, <2>2 DEF Open
<1>8. Told
  <2>1. CASE n < end
    <3>1. n + 1 - 1 = n
      OBVIOUS
    <3>2. Open(end) # {} /\ \A p \in Open(end) : p - 1 = n /\ end < HeaderEnd(p)
      BY <1>1, <1>3, <1>6, <1>7, <2>1, <3>1
    <3> QED  BY <1>1, <3>2 DEF Told
  <2>2. CASE ~(n < end)
    <3>1. Open(end) = {} /\ header = <<>>
      BY <1>1, <1>2, <1>3, <1>6, <2>2
    <3> QED  BY <1>1, <3>1, HeldNone DEF Told
  <2> QED  BY <2>1, <2>2
<1> QED  BY <1>5, <1>8

LEMMA ToldInBody ==
  ASSUME ScanInv, pc = "idle", body_left # 0, header = <<>>,
         NEW q \in DOMAIN input.boxes, InBody(q)
  PROVE  NoneWrong /\ Told
<1> DEFINE s == input.boxes[q].size
<1>1. /\ Sound(q - 1) /\ ~Wrong(q) /\ HeaderEnd(q) <= end
      /\ q - 1 + s = end + body_left
      /\ moof = IF input.boxes[q].kind = "moof" THEN Bytes(q - 1, end) ELSE None
  BY DEF InBody, ScanInv, Tidy
<1>2. /\ end \in Nat /\ input \in Inputs /\ body_left \in Nat
  BY Known
<1>3. /\ q \in Nat /\ q - 1 \in Nat /\ s \in Nat /\ HeaderEnd(q) \in Nat /\ q <= HeaderEnd(q)
  BY <1>2, Begins
<1> HIDE DEF s
<1>4. end < q - 1 + s /\ q - 1 < end /\ q - 1 <= end /\ body_left = q - 1 + s - end
  BY <1>1, <1>2, <1>3
<1>5. ASSUME NEW p \in DOMAIN input.boxes
      PROVE  /\ p < q => ~Wrong(p) /\ p \notin Open(end)
             /\ q < p => end < p - 1 /\ end < HeaderEnd(p)
             /\ p \in Nat
  <2>1. p \in Nat /\ HeaderEnd(p) \in Nat /\ p <= HeaderEnd(p)
    BY <1>2, Begins
  <2>2. p < q => ~Wrong(p) /\ p \notin Open(end)
    <3>1. p < q => p <= q - 1
      BY <1>3, <2>1
    <3> QED  BY <1>1, <1>2, <1>3, <1>4, <3>1, NotOpen
  <2>3. q < p => q + s <= p
    BY <1>2, Boxes DEF s
  <2>4. q < p => end < p - 1 /\ end < HeaderEnd(p)
    <3> DEFINE e == HeaderEnd(p)
    <3>1. e \in Nat /\ p \in Nat /\ p <= e
      BY <2>1
    <3> HIDE DEF e
    <3>2. q < p => end < p - 1
      <4>1. q < p => q - 1 + s <= p - 1
        BY <1>3, <2>3, <3>1
      <4> QED  BY <1>2, <1>3, <1>4, <3>1, <4>1
    <3>3. end < p - 1 => end < e
      BY <1>2, <3>1
    <3> QED  BY <3>2, <3>3 DEF e
  <2> QED  BY <2>1, <2>2, <2>4
<1>6. NoneWrong
  <2> SUFFICES ASSUME NEW p \in DOMAIN input.boxes, Wrong(p), HeaderEnd(p) <= end
               PROVE  FALSE
    BY DEF NoneWrong
  <2>1. HeaderEnd(p) \in Nat
    BY <1>2, Begins
  <2> QED  BY <1>1, <1>2, <1>3, <1>5, <2>1
<1>7. Open(end) = {q}
  <2>1. q \in Open(end)
    BY <1>4 DEF Open, s
  <2>2. ASSUME NEW p \in Open(end)
        PROVE  p = q
    <3>1. p \in DOMAIN input.boxes /\ p - 1 < end
      BY DEF Open
    <3>2. p \in Nat /\ ~(p < q) /\ ~(q < p)
      BY <1>2, <1>5, <3>1
    <3> QED  BY <1>3, <3>2
  <2> QED  BY <2>1, <2>2
<1>8. Told
  <2>1. ~(end < HeaderEnd(q))
    BY <1>1, <1>2, <1>3
  <2> QED  BY <1>1, <1>4, <1>7, <2>1 DEF Told, s
<1> QED  BY <1>6, <1>8

LEMMA Cuts == ScanInv => CutFree
<1> SUFFICES ASSUME ScanInv, pc = "idle"
             PROVE  /\ failed = \E p \in DOMAIN input.boxes : Wrong(p) /\ HeaderEnd(p) <= end
                    /\ IF failed \/ Open(end) = {}
                         THEN /\ Held = <<>>
                              /\ ~failed => body_left = 0
                         ELSE \A p \in Open(end) :
                                IF end < HeaderEnd(p)
                                  THEN header = Bytes(p - 1, end) /\ moof = None /\ body_left = 0
                                  ELSE /\ header = <<>>
                                       /\ moof = IF input.boxes[p].kind = "moof"
                                                   THEN Bytes(p - 1, end) ELSE None
                                       /\ body_left = p - 1 + input.boxes[p].size - end
  BY DEF CutFree
<1>1. failed \in BOOLEAN
  BY DEF ScanInv, Typed
<1>2. CASE failed
  <2>1. \E p \in DOMAIN input.boxes : Wrong(p) /\ HeaderEnd(p) <= end
    BY <1>2 DEF ScanInv, Placed
  <2>2. Held = <<>>
    BY <1>2, HeldNone DEF ScanInv, Tidy
  <2> QED  BY <1>1, <1>2, <2>1, <2>2
<1>3. CASE ~failed
  <2>1. NoneWrong /\ Told
    <3>1. CASE body_left = 0
      <4>1. PICK n \in Nat : Between(n)
        BY <1>3, <3>1 DEF ScanInv, Placed
      <4> QED  BY <3>1, <4>1, ToldBetween
    <3>2. CASE body_left # 0
      <4>1. header = <<>> /\ \E p \in DOMAIN input.boxes : InBody(p)
        BY <1>3, <3>2 DEF ScanInv, Placed
      <4>2. PICK p \in DOMAIN input.boxes : InBody(p)
        BY <4>1
      <4> QED  BY <3>2, <4>1, <4>2, ToldInBody
    <3> QED  BY <3>1, <3>2
  <2>2. failed = \E p \in DOMAIN input.boxes : Wrong(p) /\ HeaderEnd(p) <= end
    BY <1>1, <1>3, <2>1 DEF NoneWrong
  <2> QED  BY <1>3, <2>1, <2>2 DEF Told
<1> QED  BY <1>1, <1>2, <1>3

\* Where the stream is cut into chunks makes no difference to where the scanner
\* is between calls, what it holds, and whether it has given up (mp4.rs, Scanner).
THEOREM Uncut == Spec => []CutFree
BY Invariant, Cuts, PTL

-----------------------------------------------------------------------------
(* What can be joined. *)

\* The end of the last box whose header has been read.
Reached == at + body_left - Len(header)

\* A run of bytes that begins with a moof, has all of it and no other, and is marked
\* for what the moof is; or that has none and is not marked.
Good(x) ==
  IF ToSet(x.data) \cap Moofs = {} THEN ~x.starts /\ ~x.key
  ELSE /\ ToSet(x.data) \cap Moofs = {x.data[1]}
       /\ x.starts
       /\ Len(x.data) >= input.boxes[x.data[1]].size
       /\ x.key = KeyframeFragment(TrueTracks, input.boxes[x.data[1]])

\* The same of a piece, which says on which side of the first moof it is; f is
\* whether the scanner has failed.
Proper(x, f) ==
  /\ Good(x)
  /\ IF x.kind = "init" THEN ToSet(x.data) \subseteq BeforeMoofs
     ELSE f \/ ToSet(x.data) \cap BeforeMoofs = {}
Properly(f) == {x \in Pieces : Proper(x, f)}

\* Up to the first moof everything belongs to the init segment, which then has its
\* final form and tells the tracks.
Opening ==
  /\ in_init =>
       /\ tracks = None /\ init = Bytes(0, at - Len(header))
       /\ \A p \in Moofs : Reached < p
  /\ ~in_init /\ ~failed =>
       /\ tracks = TrueTracks
       /\ \E f \in Moofs :
            /\ \A p \in Moofs : f <= p
            /\ f <= Reached /\ init = Bytes(0, f - 1)
  /\ failed => init = <<>>

\* The run in progress; there is none while a moof is held.
Running ==
  /\ moof # None => pending.data = <<>>
  /\ Good(pending) /\ ToSet(pending.data) \cap BeforeMoofs = {}

JoinInv == Opening /\ Running /\ out \in Seq(Properly(failed))

\* What is said of the stream's moofs does not change.
LEMMA FixedMoofs ==
  ASSUME input' = input
  PROVE  /\ Moofs' = Moofs /\ BeforeMoofs' = BeforeMoofs /\ TrueTracks' = TrueTracks
         /\ Good(pending)' <=> Good(pending')
         /\ \A f \in BOOLEAN : Properly(f)' = Properly(f)
<1>1. Moofs' = Moofs
  BY DEF Moofs, Wrong
<1>2. BeforeMoofs' = BeforeMoofs
  BY <1>1 DEF BeforeMoofs
<1>3. TrueTracks' = TrueTracks
  BY <1>2 DEF TrueTracks
<1>4. \A x : Good(x)' <=> Good(x)
  BY <1>1, <1>3 DEF Good
<1>5. Good(pending)' <=> Good(pending')
  BY <1>1, <1>3 DEF Good
<1>6. \A f \in BOOLEAN : Properly(f)' = Properly(f)
  BY <1>1, <1>2, <1>3 DEF Properly, Proper, Good
<1> QED  BY <1>1, <1>2, <1>3, <1>5, <1>6

LEMMA RunSet ==
  ASSUME NEW i \in Nat, NEW j \in Nat, i <= j
  PROVE  ToSet(Bytes(i, j)) = (i + 1)..j
<1>1. DOMAIN Bytes(i, j) = 1..(j - i) /\ \A k \in 1..(j - i) : Bytes(i, j)[k] = i + k
  BY DEF Bytes
<1>2. ToSet(Bytes(i, j)) = {i + k : k \in 1..(j - i)}
  <2> HIDE DEF Bytes
  <2> QED  BY <1>1 DEF ToSet
<1>3. ASSUME NEW n \in (i + 1)..j
      PROVE  n \in {i + k : k \in 1..(j - i)}
  <2>1. n - i \in 1..(j - i) /\ n = i + (n - i)
    OBVIOUS
  <2> QED  BY <2>1
<1>4. ASSUME NEW k \in 1..(j - i)
      PROVE  i + k \in (i + 1)..j
  OBVIOUS
<1> QED  BY <1>2, <1>3, <1>4

LEMMA CatSet ==
  ASSUME NEW s \in Seq(Nat), NEW t \in Seq(Nat)
  PROVE  /\ ToSet(Cat(s, t)) = ToSet(s) \cup ToSet(t)
         /\ s # <<>> => Cat(s, t)[1] = s[1] /\ Len(s) <= Len(Cat(s, t))
         /\ ToSet(<<>>) = {}
<1> DEFINE l == Len(s)
           m == Len(t)
           c == Cat(s, t)
<1>1. /\ l \in Nat /\ m \in Nat
      /\ \A k \in 1..l : c[k] = s[k]
      /\ \A k \in 1..m : c[l + k] = t[k]
  BY CatNth
<1>2. c \in Seq(Nat) /\ Len(c) = l + m
  BY CatFacts
<1>3. DOMAIN s = 1..l /\ DOMAIN t = 1..m /\ DOMAIN c = 1..(l + m)
  BY <1>2, LenProperties
<1>4. s # <<>> => l > 0
  BY <1>1, EmptySeq
<1> HIDE DEF c, l, m
<1>5. ASSUME NEW k \in 1..(l + m)
      PROVE  c[k] \in ToSet(s) \cup ToSet(t)
  <2>1. CASE k <= l
    <3>1. k \in 1..l
      BY <1>1, <2>1
    <3> QED  BY <1>1, <1>3, <3>1 DEF ToSet
  <2>2. CASE ~(k <= l)
    <3>1. k - l \in 1..m /\ k = l + (k - l)
      BY <1>1, <2>2
    <3>2. c[k] = t[k - l]
      BY <1>1, <3>1
    <3> QED  BY <1>3, <3>1, <3>2 DEF ToSet
  <2> QED  BY <2>1, <2>2
<1>6. ASSUME NEW k \in 1..l
      PROVE  s[k] \in ToSet(c)
  <2>1. k \in 1..(l + m) /\ c[k] = s[k]
    BY <1>1
  <2> QED  BY <1>3, <2>1 DEF ToSet
<1>7. ASSUME NEW k \in 1..m
      PROVE  t[k] \in ToSet(c)
  <2>1. l + k \in 1..(l + m) /\ c[l + k] = t[k]
    BY <1>1
  <2> QED  BY <1>3, <2>1 DEF ToSet
<1>8. ToSet(c) = ToSet(s) \cup ToSet(t)
  <2>1. ToSet(c) \subseteq ToSet(s) \cup ToSet(t)
    BY <1>3, <1>5 DEF ToSet
  <2>2. ToSet(s) \subseteq ToSet(c) /\ ToSet(t) \subseteq ToSet(c)
    BY <1>3, <1>6, <1>7 DEF ToSet
  <2> QED  BY <2>1, <2>2
<1>9. ToSet(<<>>) = {}
  BY EmptySeq DEF ToSet
<1>10. s # <<>> => c[1] = s[1] /\ l <= l + m
  BY <1>1, <1>4
<1> QED  BY <1>2, <1>8, <1>9, <1>10 DEF c, l

\* A moof begins where no box that makes sense is in the way.
LEMMA MoofFacts ==
  ASSUME input \in Inputs, NEW m \in Moofs
  PROVE  /\ m \in DOMAIN input.boxes /\ m \in Nat /\ 1 <= m /\ m <= input.len
         /\ input.boxes[m].kind = "moof"
         /\ \A q \in DOMAIN input.boxes : q <= m => ~Wrong(q)
         /\ \A q \in DOMAIN input.boxes : q < m => q + input.boxes[q].size <= m
<1>1. /\ m \in DOMAIN input.boxes /\ input.boxes[m].kind = "moof"
      /\ \A q \in DOMAIN input.boxes : q <= m => ~Wrong(q)
  BY DEF Moofs
<1> QED  BY <1>1, Boxes

\* The bytes of a box that is no moof.
LEMMA InsideBox ==
  ASSUME input \in Inputs, NEW q \in DOMAIN input.boxes, input.boxes[q].kind # "moof",
         NEW i \in Nat, NEW j \in Nat, q - 1 <= i, i <= j, j <= q - 1 + input.boxes[q].size,
         j <= input.len
  PROVE  /\ ToSet(Bytes(i, j)) \cap Moofs = {}
         /\ (\A m \in Moofs : q - 1 + input.boxes[q].size < m) =>
              ToSet(Bytes(i, j)) \subseteq BeforeMoofs
         /\ (\E m \in Moofs : m <= q - 1 + input.boxes[q].size) =>
              ToSet(Bytes(i, j)) \cap BeforeMoofs = {}
<1> DEFINE s == input.boxes[q].size
<1>1. q \in Nat /\ 1 <= q /\ s \in Nat /\ input.len \in Nat
  BY Boxes
<1>2. ToSet(Bytes(i, j)) = (i + 1)..j
  BY RunSet
<1>3. \A m \in Moofs : m \in Nat /\ m # q /\ (q < m => q + s <= m)
  BY MoofFacts
<1> HIDE DEF s
<1>4. \A m \in Moofs : m < q \/ q - 1 + s < m
  BY <1>1, <1>3
<1>5. ToSet(Bytes(i, j)) \cap Moofs = {}
  <2> SUFFICES ASSUME NEW m \in Moofs, m \in (i + 1)..j PROVE FALSE
    BY <1>2
  <2>1. m \in Nat /\ (m < q \/ q - 1 + s < m)
    BY <1>3, <1>4
  <2> QED  BY <1>1, <2>1 DEF s
<1>6. ASSUME \A m \in Moofs : q - 1 + s < m
      PROVE  ToSet(Bytes(i, j)) \subseteq BeforeMoofs
  <2> SUFFICES ASSUME NEW n \in (i + 1)..j PROVE n \in BeforeMoofs
    BY <1>2
  <2>1. n \in 1..input.len
    BY <1>1
  <2>2. ASSUME NEW m \in Moofs
        PROVE  n < m
    <3>1. m \in Nat /\ q - 1 + s < m
      BY <1>3, <1>6
    <3> QED  BY <1>1, <3>1 DEF s
  <2> QED  BY <2>1, <2>2 DEF BeforeMoofs
<1>7. ASSUME NEW m \in Moofs, m <= q - 1 + s
      PROVE  ToSet(Bytes(i, j)) \cap BeforeMoofs = {}
  <2> SUFFICES ASSUME NEW n \in (i + 1)..j, n \in BeforeMoofs PROVE FALSE
    BY <1>2
  <2>1. m \in Nat /\ m < q
    BY <1>1, <1>3, <1>4, <1>7
  <2>2. n < m
    BY DEF BeforeMoofs
  <2> QED  BY <1>1, <2>1, <2>2
<1> QED  BY <1>5, <1>6, <1>7 DEF s

LEMMA TracksKnown ==
  ASSUME input \in Inputs
  PROVE  TrueTracks # None
<1> DEFINE moovs == {p \in BeforeMoofs \cap DOMAIN input.boxes :
                       input.boxes[p].kind = "moov"}
           p == CHOOSE p \in moovs : TRUE
<1>1. TrueTracks = IF moovs = {} THEN NoTracks ELSE input.boxes[p].tracks
  BY DEF TrueTracks
<1>2. moovs # {} => p \in moovs
  OBVIOUS
<1>3. moovs # {} => p \in DOMAIN input.boxes /\ input.boxes[p].kind = "moov"
  BY <1>2
<1> HIDE DEF moovs, p
<1> QED  BY <1>1, <1>3, NoneAssumption

\* The init segment tells the tracks once it is whole.
LEMMA ParseIs ==
  ASSUME input \in Inputs, NEW n \in Nat, Sound(n), n + 1 \in Moofs,
         \A p \in Moofs : n < p
  PROVE  Parse(Bytes(0, n)) = TrueTracks
<1>1. ToSet(Bytes(0, n)) = 1..n
  <2>1. ToSet(Bytes(0, n)) = (0 + 1)..n
    BY RunSet
  <2> QED  BY <2>1
<1>2. n + 1 <= input.len /\ input.len \in Nat
  BY MoofFacts, Boxes
<1>3. BeforeMoofs = 1..n
  <2>1. ASSUME NEW k \in 1..n
        PROVE  k \in BeforeMoofs
    <3>1. \A p \in Moofs : p \in Nat /\ k < p
      BY MoofFacts
    <3>2. k \in 1..input.len
      BY <1>2
    <3> QED  BY <3>1, <3>2 DEF BeforeMoofs
  <2>2. ASSUME NEW k \in BeforeMoofs
        PROVE  k \in 1..n
    <3>1. k \in 1..input.len /\ k < n + 1
      BY DEF BeforeMoofs
    <3> QED  BY <3>1
  <2> QED  BY <2>1, <2>2
<1> DEFINE inside == {p \in DOMAIN input.boxes \cap ToSet(Bytes(0, n)) :
                        /\ input.boxes[p].kind = "moov"
                        /\ p..(p + input.boxes[p].size - 1) \subseteq ToSet(Bytes(0, n))}
           before == {p \in BeforeMoofs \cap DOMAIN input.boxes :
                        input.boxes[p].kind = "moov"}
<1>4. ASSUME NEW p \in DOMAIN input.boxes, p \in 1..n
      PROVE  p..(p + input.boxes[p].size - 1) \subseteq 1..n
  <2>1. p - 1 + input.boxes[p].size <= n
    BY <1>4 DEF Sound
  <2> DEFINE s == input.boxes[p].size
  <2>2. s \in Nat /\ p - 1 + s <= n
    BY <2>1, Boxes
  <2> HIDE DEF s
  <2>3. ASSUME NEW k \in p..(p + s - 1)
        PROVE  k \in 1..n
    BY <1>4, <2>2
  <2> QED  BY <2>3 DEF s
<1>5. inside = before
  <2> HIDE DEF Bytes
  <2> QED  BY <1>1, <1>3, <1>4
<1>6. Parse(Bytes(0, n)) = IF inside = {} THEN NoTracks
                           ELSE input.boxes[CHOOSE p \in inside : TRUE].tracks
  BY DEF Parse
<1>7. TrueTracks = IF before = {} THEN NoTracks
                   ELSE input.boxes[CHOOSE p \in before : TRUE].tracks
  BY DEF TrueTracks
<1> HIDE DEF inside, before
<1> QED  BY <1>5, <1>6, <1>7

\* Bytes without a moof are a good run, unmarked, and go on with any.
LEMMA GoodPlain ==
  ASSUME NEW d, ToSet(d) \cap Moofs = {}
  PROVE  /\ Good(Media(d, FALSE, FALSE)) /\ Good(InitPiece(d))
         /\ Media(d, FALSE, FALSE).data = d /\ Media(d, FALSE, FALSE).kind = "media"
         /\ InitPiece(d).data = d /\ InitPiece(d).kind = "init"
BY DEF Good, Media, InitPiece

LEMMA GoodNothing == Good(Nothing) /\ ToSet(Nothing.data) = {}
<1>1. ToSet(<<>>) = {}
  BY EmptySeq DEF ToSet
<1> QED  BY <1>1 DEF Nothing, Good

LEMMA GoodGrows ==
  ASSUME input \in Inputs, NEW r \in Runs, Good(r), NEW d \in Seq(Nat),
         ToSet(d) \cap Moofs = {}, NEW u \in Runs, u = [r EXCEPT !.data = Cat(@, d)]
  PROVE  Good(u) /\ ToSet(u.data) = ToSet(r.data) \cup ToSet(d)
<1>1. r.data \in Seq(Nat)
  BY DEF Runs
<1>2. u.data = Cat(r.data, d) /\ u.starts = r.starts /\ u.key = r.key
  BY DEF Runs
<1>3. /\ ToSet(u.data) = ToSet(r.data) \cup ToSet(d)
      /\ r.data # <<>> => u.data[1] = r.data[1] /\ Len(r.data) <= Len(u.data)
      /\ ToSet(<<>>) = {}
  BY <1>1, <1>2, CatSet
<1>4. ToSet(u.data) \cap Moofs = ToSet(r.data) \cap Moofs
  BY <1>3
<1>5. CASE ToSet(r.data) \cap Moofs = {}
  BY <1>2, <1>3, <1>4, <1>5 DEF Good
<1>6. CASE ToSet(r.data) \cap Moofs # {}
  <2> DEFINE m == r.data[1]
  <2>1. r.data # <<>>
    BY <1>3, <1>6
  <2>2. /\ ToSet(r.data) \cap Moofs = {m} /\ r.starts
        /\ Len(r.data) >= input.boxes[m].size
        /\ r.key = KeyframeFragment(TrueTracks, input.boxes[m])
    BY <1>6 DEF Good
  <2>3. input.boxes[m].size \in Nat /\ Len(r.data) \in Nat /\ Len(u.data) \in Nat
    <3>1. m \in Moofs
      BY <2>2
    <3>2. m \in DOMAIN input.boxes
      BY <3>1, MoofFacts
    <3>3. u.data \in Seq(Nat)
      BY DEF Runs
    <3> QED  BY <1>1, <3>2, <3>3, Boxes, LenProperties
  <2>4. u.data[1] = m /\ Len(u.data) >= input.boxes[m].size
    BY <1>3, <2>1, <2>2, <2>3
  <2> HIDE DEF m
  <2> QED  BY <1>2, <1>3, <1>4, <1>6, <2>2, <2>4 DEF Good
<1> QED  BY <1>3, <1>5, <1>6

\* A whole moof begins a good run, marked for what it is.
LEMMA GoodMoof ==
  ASSUME input \in Inputs, NEW q \in Moofs, NEW j \in Nat, j = q - 1 + input.boxes[q].size,
         NEW r \in Runs, r.data = <<>>
  PROVE  /\ Good(Started(r, TrueTracks, Bytes(q - 1, j)))
         /\ ToSet(Started(r, TrueTracks, Bytes(q - 1, j)).data) \cap BeforeMoofs = {}
<1> DEFINE d == Bytes(q - 1, j)
           u == Started(r, TrueTracks, d)
           s == input.boxes[q].size
<1>1. /\ q \in DOMAIN input.boxes /\ q \in Nat /\ 1 <= q /\ q <= input.len
      /\ s \in Nat /\ ~BadSize(input.boxes[q]) /\ q - 1 \in Nat
  BY MoofFacts, Boxes DEF Wrong
<1>2. 1 <= s /\ q - 1 < j /\ q - 1 <= j /\ j - (q - 1) = s /\ (q - 1) + 1 = q
  <2>1. 1 <= s
    <3>1. HeaderLen(input.boxes[q]) \in Nat /\ 1 <= HeaderLen(input.boxes[q])
      BY Sizes
    <3>2. ~(s < HeaderLen(input.boxes[q]))
      BY <1>1 DEF BadSize
    <3> HIDE DEF HeaderLen, s
    <3> QED  BY <1>1, <3>1, <3>2
  <2> HIDE DEF s
  <2>2. j = q - 1 + s
    BY DEF s
  <2> QED  BY <1>1, <2>1, <2>2
<1>3. d \in Seq(Nat) /\ d # <<>> /\ d[1] = q /\ Len(d) = s /\ ToSet(d) = q..j
  <2>1. /\ d \in Seq(Nat) /\ Len(d) = j - (q - 1) /\ d[1] = (q - 1) + 1 /\ d # <<>>
        /\ ToSet(d) = ((q - 1) + 1)..j
    <3> HIDE DEF s
    <3> QED  BY <1>1, <1>2, BytesFacts, RunSet
  <2> QED  BY <1>2, <2>1
<1>4. /\ u.data = d /\ u.starts = TRUE
      /\ u.key = (TrueTracks = None \/ KeyframeFragment(TrueTracks, Box(d)))
  <2>1. Cat(<<>>, d) = d
    BY <1>3, CatFacts
  <2>2. u = [data |-> Cat(<<>>, d), starts |-> TRUE,
             key |-> TrueTracks = None \/ KeyframeFragment(TrueTracks, Box(d))]
    BY DEF Started, Cat
  <2> HIDE DEF d
  <2> QED  BY <2>1, <2>2
<1>5. Box(d) = input.boxes[q]
  BY <1>1, <1>3 DEF Box
<1> HIDE DEF d, u
<1>6. u.key = KeyframeFragment(TrueTracks, input.boxes[q])
  <2>1. KeyframeFragment(TrueTracks, input.boxes[q]) \in BOOLEAN
    BY DEF KeyframeFragment
  <2> QED  BY <1>4, <1>5, <2>1, TracksKnown
<1>7. ToSet(d) \cap Moofs = {q}
  <2>1. q \in q..j
    <3>1. q \in Nat /\ q - 1 < j
      BY <1>1, <1>2
    <3> QED  BY <3>1
  <2>2. ASSUME NEW m \in Moofs, m \in q..j
        PROVE  m = q
    <3>1. m \in Nat /\ (q < m => q + s <= m)
      BY <1>1, MoofFacts
    <3> HIDE DEF s
    <3>2. j = q - 1 + s
      BY DEF s
    <3> QED  BY <1>1, <2>2, <3>1, <3>2
  <2> QED  BY <1>3, <2>1, <2>2
<1>8. ToSet(d) \cap BeforeMoofs = {}
  <2> SUFFICES ASSUME NEW n \in q..j, n \in BeforeMoofs PROVE FALSE
    BY <1>3
  <2>1. n < q
    BY DEF BeforeMoofs
  <2> QED  BY <1>1, <2>1
<1>9. Len(u.data) >= input.boxes[u.data[1]].size
  BY <1>1, <1>3, <1>4 DEF s
<1>10. Good(u)
  <2>1. ToSet(u.data) \cap Moofs = {u.data[1]} /\ ToSet(u.data) \cap Moofs # {}
    BY <1>3, <1>4, <1>7
  <2>2. u.key = KeyframeFragment(TrueTracks, input.boxes[u.data[1]])
    BY <1>3, <1>4, <1>6
  <2> QED  BY <1>4, <1>9, <2>1, <2>2 DEF Good
<1> QED  BY <1>4, <1>8, <1>10 DEF u, d

-----------------------------------------------------------------------------
(* Lists of proper pieces. *)

LEMMA ProperSeq ==
  /\ \A f : Properly(f) \subseteq Pieces
  /\ \A f : \A c \in Seq(Properly(f)) : c \in Seq(Pieces) /\ c \in Seq(Properly(TRUE))
  /\ \A f : <<>> \in Seq(Properly(f))
  /\ \A f : \A c, d \in Seq(Properly(f)) : c \o d \in Seq(Properly(f))
  /\ \A f : \A c \in Seq(Properly(f)), x \in Properly(f) : Append(c, x) \in Seq(Properly(f))
<1>1. \A f : Properly(f) \subseteq Pieces /\ Properly(f) \subseteq Properly(TRUE)
  BY DEF Properly, Proper
<1>2. ASSUME NEW f, NEW c \in Seq(Properly(f))
      PROVE  c \in Seq(Pieces) /\ c \in Seq(Properly(TRUE))
  <2> DEFINE S == Properly(f)
             T == Properly(TRUE)
  <2>1. S \subseteq Pieces /\ S \subseteq T
    BY <1>1
  <2>2. c \in Seq(S)
    OBVIOUS
  <2> HIDE DEF S, T, Pieces
  <2>3. c \in Seq(Pieces)
    BY <2>1, <2>2
  <2>4. c \in Seq(T)
    BY <2>1, <2>2
  <2> QED  BY <2>3, <2>4 DEF T
<1>3. \A f : \A c, d \in Seq(Properly(f)) : c \o d \in Seq(Properly(f))
  BY ConcatProperties
<1>4. \A f : \A c \in Seq(Properly(f)), x \in Properly(f) : Append(c, x) \in Seq(Properly(f))
  BY AppendProperties
<1>5. \A f : <<>> \in Seq(Properly(f))
  BY EmptySeq
<1> QED  BY <1>1, <1>2, <1>3, <1>4, <1>5

LEMMA PlainProper ==
  ASSUME NEW d \in Seq(Nat), ToSet(d) \cap Moofs = {}
  PROVE  Plain(d) \in Seq(Properly(TRUE))
<1> DEFINE x == Media(d, FALSE, FALSE)
<1>1. x \in Properly(TRUE)
  <2>1. x \in Pieces
    BY PieceOf
  <2>2. Good(x) /\ x.kind = "media"
    BY GoodPlain
  <2> HIDE DEF x
  <2> QED  BY <2>1, <2>2 DEF Properly, Proper
<1>2. Plain(d) = <<>> \/ Plain(d) = <<x>>
  BY DEF Plain
<1>3. <<x>> \in Seq(Properly(TRUE))
  <2> DEFINE T == Properly(TRUE)
  <2>1. x \in T
    BY <1>1
  <2> HIDE DEF x, T
  <2>2. <<x>> \in Seq(T)
    BY <2>1
  <2> QED  BY <2>2 DEF T
<1> HIDE DEF x
<1> QED  BY <1>2, <1>3, ProperSeq

LEMMA TakenProper ==
  ASSUME pending \in Runs, Running, NEW f
  PROVE  Taken \in Seq(Properly(f))
<1> DEFINE x == Media(pending.data, pending.starts, pending.key)
<1>1. x \in Properly(f)
  <2>1. x \in Pieces
    BY PieceOf DEF Runs
  <2>2. /\ x.data = pending.data /\ x.starts = pending.starts /\ x.key = pending.key
        /\ x.kind = "media"
    BY DEF Media
  <2> HIDE DEF x
  <2>3. Good(x)
    BY <2>2 DEF Good, Running
  <2> QED  BY <2>1, <2>2, <2>3 DEF Properly, Proper, Running
<1>2. Taken = <<>> \/ Taken = <<x>>
  BY DEF Taken
<1> HIDE DEF x
<1>3. <<x>> \in Seq(Properly(f))
  BY <1>1
<1> QED  BY <1>2, <1>3, ProperSeq

-----------------------------------------------------------------------------
(* The steps, and what can be joined. *)

\* Where the boxes end whose headers have been read.
LEMMA ReachedBetween ==
  ASSUME ScanInv, body_left = 0, NEW n \in Nat, Between(n)
  PROVE  Reached = n /\ at - Len(header) = n
<1>1. n <= at /\ header = Bytes(n, at) /\ at \in Nat
  BY Known DEF Between
<1>2. Len(Bytes(n, at)) = at - n
  BY <1>1, BytesFacts
<1> HIDE DEF Bytes
<1> QED  BY <1>1, <1>2 DEF Reached

LEMMA ReachedInBody ==
  ASSUME ScanInv, header = <<>>, NEW q \in DOMAIN input.boxes, InBody(q)
  PROVE  Reached = q - 1 + input.boxes[q].size /\ at - Len(header) = at
<1>1. at \in Nat /\ body_left \in Nat /\ Len(header) = 0
  BY Known, EmptySeq
<1>2. q - 1 + input.boxes[q].size = at + body_left
  BY DEF InBody
<1> QED  BY <1>1, <1>2 DEF Reached

\* A step that reads no header leaves what is known of the init segment as it is.
LEMMA OpeningSame ==
  ASSUME Opening, input' = input, failed => ~in_init,
         UNCHANGED <<in_init, failed, init, tracks>>,
         ~failed => Reached' = Reached,
         in_init => at' - Len(header') = at - Len(header)
  PROVE  Opening'
<1>1. Moofs' = Moofs /\ TrueTracks' = TrueTracks
  BY FixedMoofs
<1>2. in_init' =>
        /\ tracks' = None /\ init' = Bytes(0, at' - Len(header'))
        /\ \A p \in Moofs' : Reached' < p
  BY <1>1 DEF Opening
<1>3. ~in_init' /\ ~failed' =>
        /\ tracks' = TrueTracks'
        /\ \E f \in Moofs' :
             /\ \A p \in Moofs' : f <= p
             /\ f <= Reached' /\ init' = Bytes(0, f - 1)
  BY <1>1 DEF Opening
<1>4. failed' => init' = <<>>
  BY DEF Opening
<1>5. Bytes(0, at - Len(header))' = Bytes(0, at' - Len(header'))
  BY DEF Bytes
<1> QED  BY <1>2, <1>3, <1>4, <1>5 DEF Opening

LEMMA Assembled ==
  ASSUME input' = input, failed' \in BOOLEAN, Opening', moof' # None => pending'.data = <<>>,
         Good(pending'), ToSet(pending'.data) \cap BeforeMoofs = {},
         out' \in Seq(Properly(failed'))
  PROVE  JoinInv'
<1>1. /\ BeforeMoofs' = BeforeMoofs /\ Good(pending)'
      /\ \A f \in BOOLEAN : Properly(f)' = Properly(f)
  BY FixedMoofs
<1>2. Running'
  BY <1>1 DEF Running
<1>3. Properly(failed)' = Properly(failed')
  <2>1. CASE failed' = TRUE
    BY <1>1, <2>1
  <2>2. CASE failed' = FALSE
    BY <1>1, <2>2
  <2> QED  BY <2>1, <2>2
<1> QED  BY <1>2, <1>3 DEF JoinInv

LEMMA EmitProper ==
  ASSUME ScanInv, JoinInv, NEW d \in Seq(Nat), Emit(d), ToSet(d) \cap Moofs = {},
         in_init => ToSet(d) \subseteq BeforeMoofs,
         ~in_init => ToSet(d) \cap BeforeMoofs = {}
  PROVE  /\ out' \in Seq(Properly(failed))
         /\ Good(pending') /\ ToSet(pending'.data) \cap BeforeMoofs = {}
         /\ init' = IF in_init THEN Cat(init, d) ELSE init
<1>1. /\ out \in Seq(Properly(failed)) /\ Good(pending)
      /\ ToSet(pending.data) \cap BeforeMoofs = {}
      /\ pending \in Runs /\ pending.data \in Seq(Nat) /\ input \in Inputs
  BY Known DEF JoinInv, Running
<1>2. init' = IF in_init THEN Cat(init, d) ELSE init
  BY DEF Emit, Cat
<1>3. CASE in_init
  <2> DEFINE x == InitPiece(d)
  <2>1. out' = Append(out, x) /\ pending' = pending
    BY <1>3 DEF Emit
  <2>2. x \in Pieces /\ Good(x) /\ x.data = d /\ x.kind = "init"
    BY PieceOf, GoodPlain
  <2> HIDE DEF x
  <2>3. x \in Properly(failed)
    BY <1>3, <2>2 DEF Properly, Proper
  <2> QED  BY <1>1, <1>2, <2>1, <2>3, ProperSeq
<1>4. CASE ~in_init
  <2>1. out' = out /\ pending' = [pending EXCEPT !.data = Cat(@, d)]
    BY <1>4 DEF Emit, Cat
  <2>2. Cat(pending.data, d) \in Seq(Nat)
    BY <1>1, CatFacts
  <2>3. pending' \in Runs
    BY <1>1, <2>1, <2>2 DEF Runs
  <2>4. PICK u \in Runs : u = pending' /\ u = [pending EXCEPT !.data = Cat(@, d)]
    BY <2>1, <2>3
  <2>5. Good(u) /\ ToSet(u.data) = ToSet(pending.data) \cup ToSet(d)
    BY <1>1, <2>4, GoodGrows
  <2>6. Good(pending') /\ ToSet(pending'.data) = ToSet(pending.data) \cup ToSet(d)
    BY <2>4, <2>5
  <2> QED  BY <1>1, <1>2, <1>4, <2>1, <2>6
<1> QED  BY <1>3, <1>4

LEMMA InitJoins == Init => JoinInv
<1> SUFFICES ASSUME Init PROVE JoinInv
  OBVIOUS
<1>1. input \in Inputs /\ Len(header) = 0 /\ Reached = 0 /\ at - Len(header) = 0
  <2>1. Len(<<>>) = 0
    BY EmptySeq
  <2>2. Len(header) = 0 /\ at = 0 /\ body_left = 0 /\ input \in Inputs
    BY <2>1 DEF Init
  <2> QED  BY <2>2 DEF Reached
<1>2. Bytes(0, 0) = <<>>
  BY BytesFacts
<1>3. \A p \in Moofs : Reached < p
  BY <1>1, MoofFacts
<1>4. Opening
  BY <1>1, <1>2, <1>3 DEF Init, Opening
<1>5. Running
  BY GoodNothing DEF Init, Running
<1>6. out \in Seq(Properly(failed))
  BY ProperSeq DEF Init
<1> QED  BY <1>4, <1>5, <1>6 DEF JoinInv

\* A box that makes no sense is beyond every moof.
LEMMA BeyondMoofs ==
  ASSUME input \in Inputs, NEW p \in DOMAIN input.boxes, Wrong(p),
         NEW i \in Nat, NEW j \in Nat, p - 1 <= i, i <= j
  PROVE  ToSet(Bytes(i, j)) \cap Moofs = {}
<1>1. ToSet(Bytes(i, j)) = (i + 1)..j
  BY RunSet
<1>2. p \in Nat
  BY Boxes
<1> SUFFICES ASSUME NEW m \in Moofs, m \in (i + 1)..j PROVE FALSE
  BY <1>1
<1>3. m \in Nat /\ ~(p <= m)
  BY MoofFacts
<1> QED  BY <1>2, <1>3

LEMMA PushJoins ==
  ASSUME ScanInv, JoinInv, NEW n \in 1..input.len, Push(n)
  PROVE  JoinInv'
<1>1. /\ input' = input /\ header' = header /\ body_left' = body_left /\ in_init' = in_init
      /\ init' = init /\ failed' = failed /\ pending' = pending /\ moof' = moof
      /\ tracks' = tracks /\ (~failed => at' = at /\ out' = <<>>)
      /\ (failed => out' = <<Media(Bytes(end, end + n), FALSE, FALSE)>>)
  BY DEF Push
<1>2. /\ failed \in BOOLEAN /\ (failed => ~in_init)
  BY DEF ScanInv, Typed, Tidy
<1>3. Opening'
  <2>1. ~failed => Reached' = Reached
    BY <1>1 DEF Reached
  <2>2. in_init => at' - Len(header') = at - Len(header)
    BY <1>1, <1>2
  <2> QED  BY <1>1, <1>2, <2>1, <2>2, OpeningSame DEF JoinInv
<1>4. out' \in Seq(Properly(failed'))
  <2>1. CASE ~failed
    BY <1>1, <2>1, ProperSeq
  <2>2. CASE failed
    <3> DEFINE e == end + n
               d == Bytes(end, e)
    <3>1. PICK p \in DOMAIN input.boxes : Wrong(p) /\ HeaderEnd(p) <= end
      BY <2>2 DEF ScanInv, Placed
    <3>2. input \in Inputs /\ end \in Nat /\ input.len \in Nat
      BY Known
    <3>3. p \in Nat /\ HeaderEnd(p) \in Nat /\ p <= HeaderEnd(p)
      BY <3>2, Begins
    <3>4. e \in Nat /\ end < e /\ end <= e /\ p - 1 <= end
      BY <3>1, <3>2, <3>3
    <3> HIDE DEF e
    <3>5. d \in Seq(Nat) /\ d # <<>>
      BY <3>2, <3>4, BytesFacts
    <3>6. ToSet(d) \cap Moofs = {}
      BY <3>1, <3>2, <3>4, BeyondMoofs
    <3> HIDE DEF d
    <3>7. Plain(d) \in Seq(Properly(TRUE)) /\ Plain(d) = <<Media(d, FALSE, FALSE)>>
      BY <3>5, <3>6, PlainProper DEF Plain
    <3>8. out' = Plain(d) /\ failed' = TRUE
      BY <1>1, <1>2, <2>2, <3>7 DEF d, e
    <3> QED  BY <3>7, <3>8
  <2> QED  BY <2>1, <2>2
<1>5. Good(pending') /\ ToSet(pending'.data) \cap BeforeMoofs = {}
  BY <1>1 DEF JoinInv, Running
<1>6. moof' # None => pending'.data = <<>>
  BY <1>1 DEF JoinInv, Running
<1> QED  BY <1>1, <1>2, <1>3, <1>4, <1>5, <1>6, Assembled

LEMMA ReturnJoins ==
  ASSUME ScanInv, JoinInv, Return
  PROVE  JoinInv'
<1>1. /\ input' = input /\ header' = header /\ body_left' = body_left /\ in_init' = in_init
      /\ init' = init /\ failed' = failed /\ pending' = Nothing
      /\ tracks' = tracks /\ at' = at /\ out' = out \o Taken
  BY DEF Return
<1>2. /\ failed \in BOOLEAN /\ (failed => ~in_init) /\ pending \in Runs
  BY DEF ScanInv, Typed, Tidy
<1>3. Opening'
  <2>1. Reached' = Reached
    BY <1>1 DEF Reached
  <2> QED  BY <1>1, <1>2, <2>1, OpeningSame DEF JoinInv
<1>4. out' \in Seq(Properly(failed'))
  <2>1. Taken \in Seq(Properly(failed)) /\ out \in Seq(Properly(failed))
    BY <1>2, TakenProper DEF JoinInv
  <2> QED  BY <1>1, <2>1, ProperSeq
<1>5. /\ Good(pending') /\ ToSet(pending'.data) \cap BeforeMoofs = {}
      /\ pending'.data = <<>>
  BY <1>1, GoodNothing, NothingIs
<1> QED  BY <1>1, <1>2, <1>3, <1>4, <1>5, Assembled

LEMMA HoldJoins ==
  ASSUME ScanInv, JoinInv, HoldHeader
  PROVE  JoinInv'
<1>1. /\ AtHeader /\ ~Complete /\ header' = HeadNow /\ at' = AtNow
      /\ input' = input /\ body_left' = body_left /\ in_init' = in_init
      /\ init' = init /\ failed' = failed /\ pending' = pending
      /\ tracks' = tracks /\ moof' = moof /\ out' = out
  BY DEF HoldHeader
<1>2. failed \in BOOLEAN /\ (failed => ~in_init)
  BY DEF ScanInv, Typed, Tidy
<1>3. Opening'
  <2>1. PICK n \in Nat : Between(n)
    BY <1>1, HeaderRead
  <2>2. body_left = 0 /\ Reached = n /\ at - Len(header) = n
    BY <1>1, <2>1, HeaderRead, ReachedBetween
  <2>3. AtNow \in Nat /\ n < AtNow /\ HeadNow = Bytes(n, AtNow)
    BY <1>1, <2>1, HeadIs
  <2>4. Len(HeadNow) = AtNow - n
    <3> HIDE DEF AtNow
    <3>1. n <= AtNow
      BY <2>3
    <3> QED  BY <2>3, <3>1, BytesFacts
  <2>5. at' - Len(header') = n /\ Reached' = n
    <3> DEFINE a == AtNow
    <3>1. a \in Nat /\ at' = a /\ Len(header') = a - n /\ body_left' = 0
      BY <1>1, <2>2, <2>3, <2>4
    <3> HIDE DEF a
    <3> QED  BY <3>1 DEF Reached
  <2> QED  BY <1>1, <1>2, <2>2, <2>5, OpeningSame DEF JoinInv
<1>4. out' \in Seq(Properly(failed'))
  BY <1>1 DEF JoinInv
<1>5. Good(pending') /\ ToSet(pending'.data) \cap BeforeMoofs = {}
  BY <1>1 DEF JoinInv, Running
<1>6. moof' # None => pending'.data = <<>>
  BY <1>1 DEF JoinInv, Running
<1> QED  BY <1>1, <1>2, <1>3, <1>4, <1>5, <1>6, Assembled

LEMMA GiveUpJoins ==
  ASSUME ScanInv, JoinInv, GiveUp
  PROVE  JoinInv'
<1> DEFINE b == Box(HeadNow)
           rest == Bytes(AtNow, end)
<1>1. /\ AtHeader /\ Complete
      /\ BadSize(b) \/ (~started /\ ~Opens(b)) \/ BadMoof(b)
      /\ failed' = TRUE /\ in_init' = FALSE /\ init' = <<>>
      /\ pending' = Nothing /\ moof' = None /\ input' = input
      /\ out' = out \o Taken \o HandBack
  BY DEF GiveUp, DropInit
<1>2. moof = None /\ AtNow \in Nat /\ AtNow <= end /\ HeadNow \in Seq(Nat)
  BY <1>1, HeaderRead
<1>3. PICK n \in Nat : Between(n)
  BY <1>1, HeaderRead
<1>4. /\ n + 1 \in DOMAIN input.boxes /\ b = input.boxes[n + 1] /\ n < AtNow
      /\ HeadNow = Bytes(n, AtNow)
  BY <1>1, <1>3, HeadIs
<1>5. Wrong(n + 1)
  <2>1. ~started => n + 1 = 1
    BY <1>3 DEF Between
  <2> QED  BY <1>1, <1>4, <2>1 DEF Wrong
<1>6. input \in Inputs /\ end \in Nat /\ pending \in Runs
  BY Known
<1>7. /\ HeadNow \in Seq(Nat) /\ ToSet(HeadNow) \cap Moofs = {}
      /\ rest \in Seq(Nat) /\ ToSet(rest) \cap Moofs = {}
  <2> DEFINE a == AtNow
  <2>1. a \in Nat /\ n <= a /\ a <= end /\ n + 1 - 1 <= n /\ n + 1 - 1 <= a
    BY <1>2, <1>4
  <2> HIDE DEF a
  <2>2. ToSet(Bytes(n, a)) \cap Moofs = {}
    BY <1>4, <1>5, <1>6, <2>1, BeyondMoofs
  <2>3. Bytes(a, end) \in Seq(Nat)
    BY <1>6, <2>1, BytesFacts
  <2>4. ToSet(Bytes(a, end)) \cap Moofs = {}
    BY <1>4, <1>5, <1>6, <2>1, BeyondMoofs
  <2> QED  BY <1>2, <1>4, <2>2, <2>3, <2>4 DEF a
<1>8. out' \in Seq(Properly(TRUE))
  <2> DEFINE S == Properly(TRUE)
             x == Plain(HeadNow)
             y == Plain(rest)
             z == Taken
  <2> HIDE DEF rest
  <2>1. x \in Seq(S) /\ y \in Seq(S)
    BY <1>7, PlainProper
  <2>2. z \in Seq(S) /\ out \in Seq(S)
    BY <1>6, TakenProper, ProperSeq DEF JoinInv
  <2>3. out' = (out \o z) \o ((<<>> \o x) \o y)
    BY <1>1, <1>2 DEF HandBack, rest
  <2>4. <<>> \in Seq(S) /\ \A c, d \in Seq(S) : c \o d \in Seq(S)
    BY ProperSeq
  <2> HIDE DEF S, x, y, z
  <2>5. out' \in Seq(S)
    BY <2>1, <2>2, <2>3, <2>4
  <2> QED  BY <2>5 DEF S
<1>9. Opening'
  BY <1>1 DEF Opening
<1>10. /\ Good(pending') /\ ToSet(pending'.data) \cap BeforeMoofs = {}
       /\ pending'.data = <<>>
  BY <1>1, GoodNothing, NothingIs
<1>11. out' \in Seq(Properly(failed')) /\ failed' \in BOOLEAN
  BY <1>1, <1>8
<1> QED  BY <1>1, <1>9, <1>10, <1>11, Assembled

\* The box that is entered.
LEMMA EnteredBox ==
  ASSUME ScanInv, Enter(Box(HeadNow)), input' = input
  PROVE  \E n \in Nat :
           /\ Between(n) /\ n + 1 \in DOMAIN input.boxes /\ ~Wrong(n + 1)
           /\ Box(HeadNow) = input.boxes[n + 1] /\ HeadNow = Bytes(n, at')
           /\ at' \in Nat /\ n < at' /\ at' = HeaderEnd(n + 1) /\ at' <= input.len
           /\ at' <= n + input.boxes[n + 1].size
           /\ Reached = n /\ at - Len(header) = n
           /\ header' = <<>> /\ at' - Len(header') = at'
           /\ Reached' = n + input.boxes[n + 1].size
<1> DEFINE b == Box(HeadNow)
<1>1. /\ AtHeader /\ Complete /\ ~BadSize(b) /\ (started \/ Opens(b)) /\ ~BadMoof(b)
      /\ header' = <<>> /\ body_left' = b.size - HeaderLen(b) /\ at' = AtNow
  BY DEF Enter
<1>2. PICK n \in Nat : Between(n)
  BY <1>1, HeaderRead
<1>3. /\ n + 1 \in DOMAIN input.boxes /\ b = input.boxes[n + 1]
      /\ HeadNow = Bytes(n, at') /\ at' \in Nat /\ n < at' /\ at' <= end
      /\ at' = HeaderEnd(n + 1) /\ HeaderEnd(n + 1) = n + HeaderLen(b)
  BY <1>1, <1>2, HeadIs
<1>4. ~Wrong(n + 1)
  <2>1. started <=> n # 0
    BY <1>2 DEF Between
  <2>2. n + 1 = 1 => Opens(b)
    BY <1>1, <2>1
  <2> HIDE DEF b
  <2> QED  BY <1>1, <1>3, <2>2 DEF Wrong, b
<1>5. Reached = n /\ at - Len(header) = n
  <2>1. body_left = 0
    BY <1>1, HeaderRead
  <2> QED  BY <1>2, <2>1, ReachedBetween
<1>6. /\ input.len \in Nat /\ end \in Nat /\ end <= input.len /\ b.size \in Nat
      /\ HeaderLen(b) \in Nat /\ at' <= n + b.size
  <2>1. /\ input.len \in Nat /\ end \in Nat /\ end <= input.len /\ input \in Inputs
    BY Known
  <2>2. b.size \in Nat /\ HeaderLen(b) \in Nat
    <3>1. b.size \in Nat
      BY <1>3, <2>1, Boxes
    <3> QED  BY <3>1, Sizes
  <2>3. ~(b.size < HeaderLen(b))
    BY <1>1 DEF BadSize
  <2> HIDE DEF b, HeaderLen
  <2> QED  BY <1>3, <2>1, <2>2, <2>3
<1>7. at' <= input.len
  BY <1>3, <1>6
<1>8. Len(header') = 0
  BY <1>1, EmptySeq
<1>9. at' - Len(header') = at' /\ Reached' = n + b.size
  <2> DEFINE l == HeaderLen(b)
             s == b.size
             a == at'
  <2>1. l \in Nat /\ s \in Nat /\ a \in Nat /\ a = n + l /\ body_left' = s - l
    BY <1>1, <1>3, <1>6
  <2>2. Reached' = a + body_left' - Len(header')
    BY DEF Reached
  <2> HIDE DEF l, s, a
  <2>3. a - Len(header') = a /\ Reached' = n + s
    BY <1>8, <2>1, <2>2
  <2> QED  BY <2>3 DEF a, s
<1> HIDE DEF b
<1>10. /\ Box(HeadNow) = input.boxes[n + 1] /\ at' <= n + input.boxes[n + 1].size
       /\ Reached' = n + input.boxes[n + 1].size
  BY <1>3, <1>6, <1>9 DEF b
<1> QED  BY <1>1, <1>2, <1>3, <1>4, <1>5, <1>7, <1>9, <1>10

LEMMA OpenBoxJoins ==
  ASSUME ScanInv, JoinInv, OpenBox
  PROVE  JoinInv'
<1>1. /\ Enter(Box(HeadNow)) /\ Box(HeadNow).kind # "moof" /\ Emit(HeadNow)
      /\ input' = input /\ in_init' = in_init /\ failed' = failed /\ moof' = moof
      /\ tracks' = tracks
  BY DEF OpenBox
<1>2. ~failed /\ moof = None /\ HeadNow \in Seq(Nat)
  BY <1>1, HeaderRead DEF Enter
<1>3. PICK n \in Nat :
        /\ Between(n) /\ n + 1 \in DOMAIN input.boxes /\ ~Wrong(n + 1)
        /\ Box(HeadNow) = input.boxes[n + 1] /\ HeadNow = Bytes(n, at')
        /\ at' \in Nat /\ n < at' /\ at' = HeaderEnd(n + 1) /\ at' <= input.len
        /\ at' <= n + input.boxes[n + 1].size
        /\ Reached = n /\ at - Len(header) = n
        /\ header' = <<>> /\ at' - Len(header') = at'
        /\ Reached' = n + input.boxes[n + 1].size
  BY <1>1, EnteredBox
<1> DEFINE q == n + 1
           s == input.boxes[q].size
<1>4. /\ q \in DOMAIN input.boxes /\ input.boxes[q].kind # "moof" /\ q - 1 = n
      /\ input \in Inputs /\ s \in Nat /\ input.len \in Nat /\ q \in Nat
  <2>1. input \in Inputs /\ input.len \in Nat
    BY Known
  <2> QED  BY <1>1, <1>3, <2>1, Boxes
<1>5. PICK j \in Nat : j = at' /\ n <= j /\ j <= q - 1 + s /\ j <= input.len /\ q - 1 <= n
  BY <1>3, <1>4
<1>6. HeadNow = Bytes(n, j)
  BY <1>3, <1>5
<1> HIDE DEF q, s
<1>7. /\ ToSet(HeadNow) \cap Moofs = {}
      /\ (\A m \in Moofs : n + s < m) => ToSet(HeadNow) \subseteq BeforeMoofs
      /\ (\E m \in Moofs : m <= n + s) => ToSet(HeadNow) \cap BeforeMoofs = {}
  <2>1. q - 1 + s = n + s
    BY <1>4
  <2> QED  BY <1>4, <1>5, <1>6, <2>1, InsideBox DEF s
<1>8. in_init =>
        /\ tracks = None /\ init = Bytes(0, n) /\ \A m \in Moofs : n + s < m
  <2> SUFFICES ASSUME in_init
               PROVE  tracks = None /\ init = Bytes(0, n) /\ \A m \in Moofs : n + s < m
    OBVIOUS
  <2>1. tracks = None /\ init = Bytes(0, n) /\ \A m \in Moofs : n < m
    BY <1>3 DEF JoinInv, Opening
  <2>2. ASSUME NEW m \in Moofs
        PROVE  n + s < m
    <3>1. m \in Nat /\ m # q /\ (q < m => q + s <= m)
      BY <1>4, MoofFacts DEF s
    <3>2. n < m
      BY <2>1
    <3>3. q < m
      BY <1>4, <3>1, <3>2
    <3> QED  BY <1>4, <3>1, <3>3
  <2> QED  BY <2>1, <2>2
<1>9. ~in_init =>
        /\ tracks = TrueTracks
        /\ \E f \in Moofs : (\A p \in Moofs : f <= p) /\ f <= n /\ init = Bytes(0, f - 1)
  BY <1>2, <1>3 DEF JoinInv, Opening
<1>10. \A f \in Moofs : f <= n => f <= n + s
  <2> SUFFICES ASSUME NEW f \in Moofs, f <= n PROVE f <= n + s
    OBVIOUS
  <2>1. f \in Nat
    BY <1>4, MoofFacts
  <2> QED  BY <1>4, <2>1
<1>11. /\ out' \in Seq(Properly(failed))
       /\ Good(pending') /\ ToSet(pending'.data) \cap BeforeMoofs = {}
       /\ init' = IF in_init THEN Cat(init, HeadNow) ELSE init
  <2>1. in_init => ToSet(HeadNow) \subseteq BeforeMoofs
    BY <1>7, <1>8
  <2>2. ~in_init => ToSet(HeadNow) \cap BeforeMoofs = {}
    BY <1>7, <1>9, <1>10
  <2> QED  BY <1>1, <1>2, <1>7, <2>1, <2>2, EmitProper
<1>12. Opening'
  <2>1. Moofs' = Moofs /\ TrueTracks' = TrueTracks
    BY <1>1, FixedMoofs
  <2>2. Reached' = n + s /\ Bytes(0, at - Len(header))' = Bytes(0, j)
    <3>1. Bytes(0, at - Len(header))' = Bytes(0, at' - Len(header'))
      BY DEF Bytes
    <3> QED  BY <1>3, <1>5, <3>1 DEF s, q
  <2>3. in_init => init' = Bytes(0, j)
    <3>1. in_init => init' = Cat(Bytes(0, n), Bytes(n, j))
      BY <1>6, <1>8, <1>11
    <3>2. Cat(Bytes(0, n), Bytes(n, j)) = Bytes(0, j)
      BY <1>5, BytesJoin
    <3> QED  BY <3>1, <3>2
  <2>4. in_init' =>
          tracks' = None /\ init' = Bytes(0, at - Len(header))' /\ \A p \in Moofs' : Reached' < p
    BY <1>1, <1>8, <2>1, <2>2, <2>3
  <2>5. ~in_init' =>
          /\ tracks' = TrueTracks'
          /\ \E f \in Moofs' :
               /\ \A p \in Moofs' : f <= p
               /\ f <= Reached' /\ init' = Bytes(0, f - 1)
    BY <1>1, <1>9, <1>10, <1>11, <2>1, <2>2
  <2> QED  BY <1>1, <1>2, <2>4, <2>5 DEF Opening
<1>13. out' \in Seq(Properly(failed')) /\ failed' \in BOOLEAN /\ moof' = None
  BY <1>1, <1>2, <1>11 DEF ScanInv, Typed
<1> QED  BY <1>1, <1>11, <1>12, <1>13, Assembled

LEMMA OpenMoofJoins ==
  ASSUME ScanInv, JoinInv, OpenMoof
  PROVE  JoinInv'
<1> DEFINE b == Box(HeadNow)
<1>1. /\ Enter(b) /\ b.kind = "moof" /\ in_init' = FALSE /\ out' = out \o Taken
      /\ IF b.size > HeaderLen(b)
           THEN moof' = HeadNow /\ pending' = Nothing
           ELSE moof' = moof /\ pending' = Started(Nothing, tracks', HeadNow)
      /\ tracks' = (IF tracks = None THEN Parse(init) ELSE tracks)
      /\ input' = input /\ failed' = failed /\ init' = init
  BY DEF OpenMoof, Fragment
<1>2. ~failed /\ moof = None /\ pending \in Runs /\ input \in Inputs
  BY <1>1, HeaderRead, Known DEF Enter
<1>3. PICK n \in Nat :
        /\ Between(n) /\ n + 1 \in DOMAIN input.boxes /\ ~Wrong(n + 1)
        /\ b = input.boxes[n + 1] /\ HeadNow = Bytes(n, at')
        /\ at' \in Nat /\ n < at' /\ at' = HeaderEnd(n + 1) /\ at' <= input.len
        /\ at' <= n + input.boxes[n + 1].size
        /\ Reached = n /\ at - Len(header) = n
        /\ header' = <<>> /\ at' - Len(header') = at'
        /\ Reached' = n + input.boxes[n + 1].size
  BY <1>1, EnteredBox
<1> DEFINE q == n + 1
           s == input.boxes[q].size
<1>4. q \in Moofs
  <2>1. ASSUME NEW p \in DOMAIN input.boxes, p <= q
        PROVE  ~Wrong(p)
    <3>1. CASE p = q
      BY <1>3, <3>1
    <3>2. CASE p # q
      <4>1. p \in Nat
        BY <1>2, Boxes
      <4>2. p <= n
        BY <2>1, <3>2, <4>1
      <4> QED  BY <1>3, <4>2 DEF Between, Sound
    <3> QED  BY <3>1, <3>2
  <2>2. q \in DOMAIN input.boxes /\ input.boxes[q].kind = "moof"
    BY <1>1, <1>3
  <2> HIDE DEF q
  <2> QED  BY <2>1, <2>2 DEF Moofs
<1>5. q \in Nat /\ q - 1 = n /\ s \in Nat /\ 1 <= s
  <2>1. s \in Nat
    BY <1>2, <1>3, Boxes
  <2> HIDE DEF s
  <2>2. n < at' /\ at' <= n + s
    BY <1>3 DEF s
  <2> QED  BY <1>3, <2>1, <2>2
<1>6. /\ tracks' = TrueTracks
      /\ \E f \in Moofs : (\A p \in Moofs : f <= p) /\ f <= q /\ init = Bytes(0, f - 1)
  <2>1. CASE in_init
    <3>1. tracks = None /\ init = Bytes(0, n) /\ \A p \in Moofs : n < p
      BY <1>3, <2>1 DEF JoinInv, Opening
    <3>2. Parse(Bytes(0, n)) = TrueTracks
      BY <1>2, <1>3, <1>4, <3>1, ParseIs DEF Between
    <3>3. \A p \in Moofs : q <= p
      <4> TAKE p \in Moofs
      <4>1. p \in Nat /\ n < p
        BY <1>2, <3>1, MoofFacts
      <4> QED  BY <4>1
    <3>4. q <= q /\ init = Bytes(0, q - 1)
      BY <1>5, <3>1
    <3> QED  BY <1>1, <1>4, <3>1, <3>2, <3>3, <3>4
  <2>2. CASE ~in_init
    <3>1. tracks = TrueTracks
      BY <1>2, <2>2 DEF JoinInv, Opening
    <3>2. PICK f \in Moofs : (\A p \in Moofs : f <= p) /\ f <= n /\ init = Bytes(0, f - 1)
      BY <1>2, <1>3, <2>2 DEF JoinInv, Opening
    <3>3. f \in Nat
      BY <1>2, MoofFacts
    <3>4. f <= q
      BY <3>2, <3>3
    <3>5. tracks # None
      BY <1>2, <3>1, TracksKnown
    <3> QED  BY <1>1, <3>1, <3>2, <3>4, <3>5
  <2> QED  BY <2>1, <2>2
<1>7. Opening'
  <2>1. Moofs' = Moofs /\ TrueTracks' = TrueTracks
    BY <1>1, FixedMoofs
  <2>2. Reached' = n + s
    BY <1>3
  <2>3. PICK f \in Moofs : (\A p \in Moofs : f <= p) /\ f <= q /\ init = Bytes(0, f - 1)
    BY <1>6
  <2>4. f <= n + s
    <3>1. f \in Nat
      BY <1>2, MoofFacts
    <3> HIDE DEF s
    <3> QED  BY <1>5, <2>3, <3>1
  <2>5. /\ tracks' = TrueTracks' /\ f \in Moofs' /\ \A p \in Moofs' : f <= p
        /\ f <= Reached' /\ init' = Bytes(0, f - 1)
    BY <1>1, <1>6, <2>1, <2>2, <2>3, <2>4
  <2>6. ~in_init' /\ ~failed'
    BY <1>1, <1>2
  <2> QED  BY <2>5, <2>6 DEF Opening
<1>8. out' \in Seq(Properly(failed'))
  <2>1. Taken \in Seq(Properly(failed)) /\ out \in Seq(Properly(failed))
    BY <1>2, TakenProper DEF JoinInv
  <2> QED  BY <1>1, <2>1, ProperSeq
<1>9. /\ Good(pending') /\ ToSet(pending'.data) \cap BeforeMoofs = {}
      /\ moof' # None => pending'.data = <<>>
  <2>1. CASE b.size > HeaderLen(b)
    BY <1>1, <2>1, GoodNothing, NothingIs
  <2>2. CASE ~(b.size > HeaderLen(b))
    <3>1. moof' = None /\ pending' = Started(Nothing, TrueTracks, HeadNow)
      BY <1>1, <1>2, <1>6, <2>2
    <3>2. at' = q - 1 + s
      <4> DEFINE l == HeaderLen(input.boxes[q])
                 a == at'
      <4>1. l \in Nat
        BY Sizes
      <4>2. a = q - 1 + l
        BY <1>3 DEF HeaderEnd
      <4>3. a <= n + s /\ ~(s > l)
        BY <1>3, <2>2
      <4> HIDE DEF s, l, a
      <4>4. a = q - 1 + s
        BY <1>5, <4>1, <4>2, <4>3
      <4> QED  BY <4>4 DEF a
    <3>3. PICK j \in Nat : j = at' /\ j = q - 1 + s
      BY <1>3, <3>2
    <3>4. HeadNow = Bytes(q - 1, j)
      BY <1>3, <1>5, <3>3
    <3> HIDE DEF q
    <3>5. /\ Good(Started(Nothing, TrueTracks, Bytes(q - 1, j)))
          /\ ToSet(Started(Nothing, TrueTracks, Bytes(q - 1, j)).data) \cap BeforeMoofs = {}
      BY <1>2, <1>4, <3>3, NothingIs, GoodMoof
    <3> QED  BY <3>1, <3>4, <3>5
  <2> QED  BY <2>1, <2>2
<1>10. failed' \in BOOLEAN
  BY <1>1 DEF ScanInv, Typed
<1> QED  BY <1>1, <1>7, <1>8, <1>9, <1>10, Assembled

LEMMA BodyJoins ==
  ASSUME ScanInv, JoinInv, Body
  PROVE  JoinInv'
<1> DEFINE T == Take
           s == Bytes(at, at + T)
<1>1. /\ pc = "scanning" /\ at < end /\ body_left > 0
      /\ body_left' = body_left - T /\ at' = at + T
      /\ input' = input /\ header' = header /\ in_init' = in_init /\ failed' = failed
      /\ tracks' = tracks
  BY DEF Body
<1>2. IF moof = None THEN Emit(s) /\ moof' = moof
      ELSE IF T < body_left
      THEN moof' = moof \o s /\ UNCHANGED <<init, out, pending>>
      ELSE /\ moof' = None /\ pending' = Started(pending, tracks, moof \o s)
           /\ UNCHANGED <<init, out>>
  BY DEF Body
<1>3. /\ pending \in Runs /\ moof \in Seq(Nat) \cup {None} /\ input \in Inputs
      /\ at \in Nat /\ end \in Nat /\ body_left \in Nat /\ input.len \in Nat
      /\ end <= input.len
  BY Known
<1>4. /\ T \in Nat /\ T <= body_left /\ at + T \in Nat /\ at + T <= end
      /\ body_left - T \in Nat
  BY <1>1, <1>3 DEF Take
<1> HIDE DEF T
<1>5. ~failed /\ (moof # None => ~in_init)
  BY <1>1 DEF ScanInv, Tidy
<1>6. header = <<>> /\ \E q \in DOMAIN input.boxes : InBody(q)
  BY <1>1, <1>3, <1>5 DEF ScanInv, Placed
<1>7. PICK q \in DOMAIN input.boxes : InBody(q)
  BY <1>6
<1> DEFINE b == input.boxes[q]
<1>8. /\ Sound(q - 1) /\ ~Wrong(q) /\ HeaderEnd(q) <= at
      /\ q - 1 + b.size = at + body_left
      /\ moof = IF b.kind = "moof" THEN Bytes(q - 1, at) ELSE None
      /\ Reached = q - 1 + b.size /\ at - Len(header) = at
  BY <1>6, <1>7, ReachedInBody DEF InBody
<1>9. /\ q \in Nat /\ 1 <= q /\ q - 1 \in Nat /\ b.size \in Nat /\ q - 1 <= at
  <2>1. /\ q \in Nat /\ 1 <= q /\ b.size \in Nat /\ HeaderEnd(q) \in Nat /\ q <= HeaderEnd(q)
    BY <1>3, Begins
  <2>2. q - 1 \in Nat
    BY <2>1
  <2> DEFINE e == HeaderEnd(q)
  <2>3. e \in Nat /\ q <= e /\ e <= at
    BY <1>8, <2>1
  <2> HIDE DEF e, b
  <2>4. q - 1 <= at
    BY <1>3, <2>1, <2>3
  <2> QED  BY <2>1, <2>2, <2>4
<1>10. Reached' = Reached /\ Len(header) = 0
  <2>1. Len(header) = 0
    BY <1>6, EmptySeq
  <2> QED  BY <1>1, <1>3, <1>4, <2>1 DEF Reached
<1>11. /\ Opening /\ Running /\ out \in Seq(Properly(failed)) /\ failed' \in BOOLEAN
  BY <1>1 DEF JoinInv, ScanInv, Typed
<1>12. PICK j \in Nat : j = at' /\ j = at + T /\ at <= j /\ j <= q - 1 + b.size /\ j <= input.len
  <2>1. at + T <= at + body_left
    BY <1>3, <1>4
  <2>2. at + T <= input.len /\ at <= at + T
    BY <1>3, <1>4
  <2> QED  BY <1>1, <1>4, <1>8, <2>1, <2>2
<1>13. s = Bytes(at, j) /\ s \in Seq(Nat)
  BY <1>3, <1>12, BytesFacts
<1> HIDE DEF s
<1>14. CASE moof = None
  <2>1. Emit(s) /\ moof' = None /\ b.kind # "moof"
    <3>1. Bytes(q - 1, at) # None
      BY <1>3, <1>9, BytesFacts, NoneAssumption
    <3> QED  BY <1>2, <1>8, <1>14, <3>1
  <2>2. /\ ToSet(s) \cap Moofs = {}
        /\ (\A m \in Moofs : Reached < m) => ToSet(s) \subseteq BeforeMoofs
        /\ (\E m \in Moofs : m <= Reached) => ToSet(s) \cap BeforeMoofs = {}
    BY <1>3, <1>8, <1>9, <1>12, <1>13, <2>1, InsideBox
  <2>3. /\ out' \in Seq(Properly(failed))
        /\ Good(pending') /\ ToSet(pending'.data) \cap BeforeMoofs = {}
        /\ init' = IF in_init THEN Cat(init, s) ELSE init
    <3>1. in_init => ToSet(s) \subseteq BeforeMoofs
      BY <1>11, <2>2 DEF Opening
    <3>2. ~in_init => ToSet(s) \cap BeforeMoofs = {}
      BY <1>5, <1>11, <2>2 DEF Opening
    <3> QED  BY <1>13, <2>1, <2>2, <3>1, <3>2, EmitProper
  <2>4. Opening'
    <3>1. CASE ~in_init
      <4>1. init' = init /\ ~in_init
        BY <2>3, <3>1
      <4> QED  BY <1>1, <1>10, <1>11, <4>1, OpeningSame
    <3>2. CASE in_init
      <4>1. /\ tracks = None /\ init = Bytes(0, at) /\ \A p \in Moofs : Reached < p
        BY <1>8, <1>11, <3>2 DEF Opening
      <4>2. init' = Bytes(0, j)
        <5>1. Cat(Bytes(0, at), Bytes(at, j)) = Bytes(0, j)
          BY <1>3, <1>12, BytesJoin
        <5> QED  BY <1>13, <2>3, <3>2, <4>1, <5>1
      <4>3. Moofs' = Moofs
        BY <1>1, FixedMoofs
      <4>4. Bytes(0, at - Len(header))' = Bytes(0, j)
        <5>1. at' - Len(header') = j
          BY <1>1, <1>10, <1>12
        <5>2. Bytes(0, at - Len(header))' = Bytes(0, at' - Len(header'))
          BY DEF Bytes
        <5> QED  BY <5>1, <5>2
      <4>5. /\ tracks' = None /\ init' = Bytes(0, at - Len(header))'
            /\ \A p \in Moofs' : Reached' < p
        BY <1>1, <1>10, <4>1, <4>2, <4>3, <4>4
      <4>6. in_init' /\ ~failed'
        BY <1>1, <1>5, <3>2
      <4> QED  BY <4>5, <4>6 DEF Opening
    <3> QED  BY <3>1, <3>2
  <2>5. moof' # None => pending'.data = <<>>
    BY <2>1
  <2>6. out' \in Seq(Properly(failed'))
    BY <1>1, <2>3
  <2> QED  BY <1>1, <1>11, <2>3, <2>4, <2>5, <2>6, Assembled
<1>15. CASE moof # None
  <2>1. b.kind = "moof" /\ moof = Bytes(q - 1, at) /\ ~in_init /\ pending.data = <<>>
    BY <1>5, <1>8, <1>11, <1>15 DEF Running
  <2>2. init' = init /\ out' = out
    BY <1>2, <1>15
  <2>3. Opening'
    BY <1>1, <1>10, <1>11, <2>1, <2>2, OpeningSame
  <2>4. out' \in Seq(Properly(failed'))
    BY <1>1, <1>11, <2>2
  <2>5. CASE T < body_left
    <3>1. pending' = pending
      BY <1>2, <1>15, <2>5
    <3>2. /\ Good(pending') /\ ToSet(pending'.data) \cap BeforeMoofs = {}
          /\ pending'.data = <<>>
      BY <1>11, <2>1, <3>1 DEF Running
    <3> QED  BY <1>1, <1>11, <2>3, <2>4, <3>2, Assembled
  <2>6. CASE ~(T < body_left)
    <3>1. moof' = None /\ pending' = Started(pending, tracks, Cat(moof, s))
      BY <1>2, <1>15, <2>6 DEF Cat
    <3>2. tracks = TrueTracks
      BY <1>5, <1>11, <2>1 DEF Opening
    <3>3. Cat(moof, s) = Bytes(q - 1, j)
      <4>1. Cat(Bytes(q - 1, at), Bytes(at, j)) = Bytes(q - 1, j)
        BY <1>3, <1>9, <1>12, BytesJoin
      <4> QED  BY <1>13, <2>1, <4>1
    <3>4. q \in Moofs
      <4>1. ASSUME NEW p \in DOMAIN input.boxes, p <= q
            PROVE  ~Wrong(p)
        <5>1. p \in Nat
          BY <1>3, Boxes
        <5>2. p = q \/ p <= q - 1
          BY <1>9, <4>1, <5>1
        <5> QED  BY <1>8, <5>2 DEF Sound
      <4> QED  BY <2>1, <4>1 DEF Moofs
    <3>5. j = q - 1 + b.size
      <4>1. T = body_left
        BY <1>3, <1>4, <2>6
      <4> QED  BY <1>8, <1>12, <4>1
    <3>6. /\ Good(Started(pending, TrueTracks, Bytes(q - 1, j)))
          /\ ToSet(Started(pending, TrueTracks, Bytes(q - 1, j)).data) \cap BeforeMoofs = {}
      BY <1>3, <2>1, <3>4, <3>5, GoodMoof
    <3>7. Good(pending') /\ ToSet(pending'.data) \cap BeforeMoofs = {}
      BY <3>1, <3>2, <3>3, <3>6
    <3> QED  BY <1>1, <1>11, <2>3, <2>4, <3>1, <3>7, Assembled
  <2> QED  BY <2>5, <2>6
<1> QED  BY <1>14, <1>15

LEMMA RestJoins ==
  ASSUME JoinInv, UNCHANGED vars
  PROVE  JoinInv'
<1>1. /\ input' = input /\ in_init' = in_init /\ failed' = failed /\ tracks' = tracks
      /\ init' = init /\ header' = header /\ at' = at /\ body_left' = body_left
      /\ moof' = moof /\ pending' = pending /\ out' = out
  BY DEF vars
<1>2. Moofs' = Moofs /\ BeforeMoofs' = BeforeMoofs /\ TrueTracks' = TrueTracks
  BY <1>1, FixedMoofs
<1>3. Reached' = Reached
  BY <1>1 DEF Reached
<1>4. Opening'
  BY <1>1, <1>2, <1>3 DEF JoinInv, Opening, Bytes
<1>5. Running'
  BY <1>1, <1>2 DEF JoinInv, Running, Good
<1>6. Properly(failed)' = Properly(failed)
  BY <1>1, <1>2 DEF Properly, Proper, Good
<1> QED  BY <1>1, <1>4, <1>5, <1>6 DEF JoinInv

LEMMA JoinInductive == ScanInv /\ JoinInv /\ [Next]_vars => JoinInv'
<1> SUFFICES ASSUME ScanInv, JoinInv, [Next]_vars PROVE JoinInv'
  OBVIOUS
<1>1. CASE \E n \in 1..input.len : Push(n)
  BY <1>1, PushJoins
<1>2. CASE Body
  BY <1>2, BodyJoins
<1>3. CASE HoldHeader
  BY <1>3, HoldJoins
<1>4. CASE GiveUp
  BY <1>4, GiveUpJoins
<1>5. CASE OpenMoof
  BY <1>5, OpenMoofJoins
<1>6. CASE OpenBox
  BY <1>6, OpenBoxJoins
<1>7. CASE Return
  BY <1>7, ReturnJoins
<1>8. CASE UNCHANGED vars
  BY <1>8, RestJoins
<1> QED  BY <1>1, <1>2, <1>3, <1>4, <1>5, <1>6, <1>7, <1>8 DEF Next

\* While no moof's header has been reached none is complete, and one that has been
\* reached is.
LEMMA HeadersRead ==
  ASSUME ScanInv, ~failed, NEW p \in Moofs
  PROVE  (Reached < p => at < HeaderEnd(p)) /\ (p <= Reached => HeaderEnd(p) <= at)
<1>1. /\ input \in Inputs /\ at \in Nat /\ body_left \in Nat /\ input.len \in Nat
      /\ at <= input.len
  <2>1. /\ input \in Inputs /\ at \in Nat /\ body_left \in Nat /\ input.len \in Nat
        /\ at <= end /\ end <= input.len /\ end \in Nat
    BY Known
  <2> QED  BY <2>1
<1>2. /\ p \in DOMAIN input.boxes /\ p \in Nat /\ 1 <= p /\ p <= input.len
      /\ HeaderEnd(p) \in Nat /\ p <= HeaderEnd(p) /\ ~BadSize(input.boxes[p])
      /\ input.boxes[p].size \in Nat /\ HeaderEnd(p) <= p - 1 + input.boxes[p].size
  BY <1>1, MoofFacts, Begins, Sensible DEF Wrong
<1>3. CASE body_left = 0
  <2>1. PICK n \in Nat : Between(n)
    BY <1>3 DEF ScanInv, Placed
  <2>2. /\ Reached = n /\ n <= at /\ Sound(n) /\ header = Bytes(n, at)
        /\ header # <<>> => at < HeaderEnd(n + 1)
    BY <1>3, <2>1, ReachedBetween DEF Between
  <2>3. ASSUME n < p
        PROVE  at < HeaderEnd(p)
    <3>1. CASE n = at
      BY <1>1, <1>2, <2>3, <3>1
    <3>2. CASE n # at
      <4>1. at < HeaderEnd(n + 1)
        <5>1. n < at
          BY <1>1, <2>2, <3>2
        <5> QED  BY <1>1, <2>2, <5>1, BytesFacts
      <4>2. CASE p = n + 1
        BY <4>1, <4>2
      <4>3. CASE p # n + 1
        <5>1. n + 1 < p /\ n < input.len
          BY <1>1, <1>2, <2>3, <4>3
        <5>2. n + 1 \in DOMAIN input.boxes
          BY <1>1, <2>2, <5>1, NextBox
        <5>3. ~BadSize(input.boxes[n + 1]) /\ n + 1 + input.boxes[n + 1].size <= p
          BY <1>1, <1>2, <5>1, <5>2, Boxes
        <5>4. /\ input.boxes[n + 1].size \in Nat /\ HeaderEnd(n + 1) \in Nat
              /\ HeaderEnd(n + 1) <= n + 1 - 1 + input.boxes[n + 1].size
          BY <1>1, <5>2, <5>3, Sensible
        <5> DEFINE e == HeaderEnd(n + 1)
                   s == input.boxes[n + 1].size
                   h == HeaderEnd(p)
        <5>5. /\ e \in Nat /\ s \in Nat /\ e <= n + 1 - 1 + s /\ n + 1 + s <= p
              /\ at < e /\ h \in Nat /\ p <= h
          BY <1>2, <4>1, <5>3, <5>4
        <5> HIDE DEF e, s, h
        <5>6. at < h
          BY <1>1, <1>2, <5>5
        <5> QED  BY <5>6 DEF h
      <4> QED  BY <4>2, <4>3
    <3> QED  BY <3>1, <3>2
  <2>4. ASSUME p <= n
        PROVE  HeaderEnd(p) <= at
    <3>1. p - 1 + input.boxes[p].size <= n
      BY <1>2, <2>2, <2>4 DEF Sound
    <3> QED  BY <1>1, <1>2, <2>2, <3>1
  <2> QED  BY <2>2, <2>3, <2>4
<1>4. CASE body_left # 0
  <2>1. header = <<>> /\ \E q \in DOMAIN input.boxes : InBody(q)
    BY <1>4 DEF ScanInv, Placed
  <2>2. PICK q \in DOMAIN input.boxes : InBody(q)
    BY <2>1
  <2> DEFINE s == input.boxes[q].size
  <2>3. /\ Reached = q - 1 + s /\ q - 1 + s = at + body_left
        /\ Sound(q - 1) /\ ~Wrong(q) /\ HeaderEnd(q) <= at
    BY <2>1, <2>2, ReachedInBody DEF InBody
  <2>4. /\ q \in Nat /\ 1 <= q /\ s \in Nat /\ HeaderEnd(q) \in Nat /\ q <= HeaderEnd(q)
    BY <1>1, Begins
  <2>5. q < p => q + s <= p
    BY <1>1, MoofFacts
  <2> HIDE DEF s
  <2>6. ASSUME Reached < p
        PROVE  at < HeaderEnd(p)
    BY <1>1, <1>2, <2>3, <2>4, <2>6
  <2>7. ASSUME p <= Reached
        PROVE  HeaderEnd(p) <= at
    <3>1. ~(q < p)
      BY <1>2, <2>3, <2>4, <2>5, <2>7
    <3>2. CASE p = q
      BY <2>3, <3>2
    <3>3. CASE p < q
      <4>1. p <= q - 1
        BY <1>2, <2>4, <3>3
      <4>2. p - 1 + input.boxes[p].size <= q - 1
        BY <1>2, <2>3, <4>1 DEF Sound
      <4> QED  BY <1>1, <1>2, <2>3, <2>4, <4>2
    <3> QED  BY <1>2, <2>4, <3>1, <3>2, <3>3
  <2> QED  BY <2>6, <2>7
<1> QED  BY <1>3, <1>4

LEMMA Joins == ScanInv /\ JoinInv => Joinable
<1> SUFFICES ASSUME ScanInv, JoinInv, pc = "idle"
             PROVE  /\ InitSegment =
                         IF failed \/ BeforeMoofs = {} \/ \A p \in Moofs : end < HeaderEnd(p)
                           THEN None ELSE [n \in BeforeMoofs |-> n]
                    /\ \A k \in DOMAIN out :
                         Proper(out[k], failed)
  BY DEF Joinable, InitWhole, Aligned, Proper, Good
<1>1. /\ at = end /\ input \in Inputs /\ input.len \in Nat /\ failed \in BOOLEAN
      /\ in_init \in BOOLEAN /\ (failed => ~in_init)
  BY Known DEF ScanInv, Tidy, Typed
<1>2. \A k \in DOMAIN out : Proper(out[k], failed)
  <2> DEFINE S == Properly(failed)
  <2>1. out \in Seq(S)
    BY DEF JoinInv
  <2> HIDE DEF S
  <2>2. \A k \in DOMAIN out : out[k] \in S
    BY <2>1
  <2> QED  BY <2>2 DEF S, Properly
<1>3. CASE failed
  <2>1. init = <<>>
    BY <1>3 DEF JoinInv, Opening
  <2> QED  BY <1>2, <1>3, <2>1 DEF InitSegment
<1>4. CASE ~failed /\ in_init
  <2>1. \A p \in Moofs : end < HeaderEnd(p)
    BY <1>1, <1>4, HeadersRead DEF JoinInv, Opening
  <2> QED  BY <1>2, <1>4, <2>1 DEF InitSegment
<1>5. CASE ~failed /\ ~in_init
  <2>1. PICK f \in Moofs :
          /\ \A p \in Moofs : f <= p
          /\ f <= Reached /\ init = Bytes(0, f - 1)
    BY <1>5 DEF JoinInv, Opening
  <2>2. f \in Nat /\ 1 <= f /\ f <= input.len /\ f - 1 \in Nat /\ HeaderEnd(f) \in Nat
    <3>1. f \in DOMAIN input.boxes
      BY DEF Moofs
    <3> QED  BY <1>1, <3>1, Begins
  <2>3. ~(\A p \in Moofs : end < HeaderEnd(p))
    <3>1. HeaderEnd(f) <= end /\ end \in Nat
      BY <1>1, <1>5, <2>1, HeadersRead, Known
    <3>2. ~(end < HeaderEnd(f))
      BY <2>2, <3>1
    <3> QED  BY <3>2
  <2>4. BeforeMoofs = 1..(f - 1)
    <3>1. ASSUME NEW n \in BeforeMoofs
          PROVE  n \in 1..(f - 1)
      <4>1. n \in 1..input.len /\ n < f
        BY DEF BeforeMoofs
      <4> QED  BY <1>1, <2>2, <4>1
    <3>2. ASSUME NEW n \in 1..(f - 1)
          PROVE  n \in BeforeMoofs
      <4>1. n \in 1..input.len
        BY <1>1, <2>2
      <4>2. ASSUME NEW p \in Moofs
            PROVE  n < p
        <5>1. p \in Nat /\ f <= p
          BY <1>1, <2>1, MoofFacts
        <5> QED  BY <2>2, <5>1
      <4> QED  BY <4>1, <4>2 DEF BeforeMoofs
    <3> QED  BY <3>1, <3>2
  <2>5. Bytes(0, f - 1) = [n \in 1..(f - 1) |-> n]
    <3>1. Bytes(0, f - 1) = [n \in 1..((f - 1) - 0) |-> 0 + n]
      BY DEF Bytes
    <3>2. (f - 1) - 0 = f - 1 /\ \A n \in 1..(f - 1) : 0 + n = n
      BY <2>2
    <3> QED  BY <3>1, <3>2
  <2>6. init = <<>> <=> BeforeMoofs = {}
    <3>1. CASE f = 1
      <4>1. f - 1 = 0 /\ Bytes(0, 0) = <<>>
        BY <3>1, BytesFacts
      <4> QED  BY <2>1, <2>4, <4>1
    <3>2. CASE f # 1
      <4>1. 0 < f - 1
        BY <2>2, <3>2
      <4>2. Bytes(0, f - 1) # <<>>
        BY <2>2, <4>1, BytesFacts
      <4>3. 1 \in 1..(f - 1)
        BY <2>2, <4>1
      <4> QED  BY <2>1, <2>4, <4>2, <4>3
    <3> QED  BY <3>1, <3>2
  <2>7. InitSegment = IF BeforeMoofs = {} THEN None ELSE [n \in BeforeMoofs |-> n]
    <3>1. init = [n \in BeforeMoofs |-> n]
      BY <2>1, <2>4, <2>5
    <3>2. InitSegment = IF BeforeMoofs = {} THEN None ELSE init
      BY <1>5, <2>6 DEF InitSegment
    <3> QED  BY <3>1, <3>2
  <2> QED  BY <1>2, <1>5, <2>3, <2>7
<1> QED  BY <1>1, <1>3, <1>4, <1>5

\* A late joiner is given all that precedes the first fragment or nothing, and media
\* whose pieces begin at the fragments and say truly whether they open on a keyframe
\* (mp4.rs, Scanner::init_segment and Scanner::finish_moof).
THEOREM JoinsWhole == Spec => []Joinable
<1>1. Init => ScanInv /\ JoinInv
  BY InitKeeps, InitJoins
<1>2. ScanInv /\ JoinInv /\ [Next]_vars => (ScanInv /\ JoinInv)'
  BY Inductive, JoinInductive
<1>3. ScanInv /\ JoinInv => Joinable
  BY Joins
<1> QED  BY <1>1, <1>2, <1>3, PTL DEF Spec
=============================================================================
