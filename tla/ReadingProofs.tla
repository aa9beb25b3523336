--------------------------- MODULE ReadingProofs ---------------------------
(***************************************************************************)
(* Proofs about the reading of a file, for any NASDAQ file of whole or cut *)
(* frames, any CSV file in any line endings and any Databento records.     *)
(***************************************************************************)
EXTENDS FileReading, TLAPS, SequenceTheorems, FiniteSetTheorems

INSTANCE FoldProofs WITH op <- BehindFrame

-----------------------------------------------------------------------------
(* Sequences that list a set of numbers.                                   *)

\* The next number in order continues the list.
LEMMA ListsAppend ==
    ASSUME NEW V, NEW q \in Seq(V), NEW f, NEW n \in Nat, f[n] \in V,
           NEW S \in SUBSET (1 .. n), n \notin S, Lists(q, S, f)
    PROVE  Lists(Append(q, f[n]), S \cup {n}, f)
  <1> DEFINE T == S \cup {n}
             r == Append(q, f[n])
             upto(i) == {j \in T : j <= i}
  <1>1. IsFiniteSet(S) /\ Cardinality(S) \in Nat /\ \A i \in S : i \in Nat /\ i < n
    <2>1. IsFiniteSet(1 .. n)
      BY FS_Interval
    <2>2. IsFiniteSet(S)
      BY <2>1, FS_Subset
    <2>3. \A i \in S : i \in 1 .. n /\ i # n
      OBVIOUS
    <2>4. \A i \in S : i \in Nat /\ i < n
      BY <2>3
    <2> QED
      BY <2>2, <2>4, FS_CardinalityType
  <1>2. IsFiniteSet(T) /\ Cardinality(T) = Cardinality(S) + 1
    BY <1>1, FS_AddElement
  <1>3. /\ Len(q) = Cardinality(S)
        /\ \A i \in S : q[Cardinality({j \in S : j <= i})] = f[i]
    BY DEF Lists
  <1>4. /\ Len(r) = Cardinality(T) /\ r[Cardinality(T)] = f[n]
        /\ \A k \in 1 .. Cardinality(S) : r[k] = q[k]
    BY <1>1, <1>2, <1>3
  <1>5. ASSUME NEW i \in S PROVE r[Cardinality(upto(i))] = f[i]
    <2> DEFINE L == {j \in S : j <= i}
    <2>1. upto(i) = L
      BY <1>1
    <2>2. L \in SUBSET S /\ i \in L
      BY <1>1
    <2> HIDE DEF L
    <2>3. Cardinality(L) \in Nat /\ Cardinality(L) <= Cardinality(S) /\ L # {} /\ IsFiniteSet(L)
      BY <1>1, <2>2, FS_Subset, FS_CardinalityType
    <2>4. Cardinality(L) # 0
      BY <2>3, FS_EmptySet
    <2>5. r[Cardinality(L)] = q[Cardinality(L)]
      <3>1. Cardinality(L) \in 1 .. Cardinality(S)
        BY <1>1, <2>3, <2>4
      <3> HIDE DEF r
      <3> QED
        BY <1>4, <3>1
    <2>6. q[Cardinality(L)] = f[i]
      BY <1>3 DEF L
    <2> QED
      BY <2>1, <2>5, <2>6
  <1>6. upto(n) = T
    <2>1. \A i \in T : i <= n
      BY <1>1
    <2> QED
      BY <2>1
  <1>7. \A i \in T : r[Cardinality(upto(i))] = f[i]
    <2> SUFFICES ASSUME NEW i \in T PROVE r[Cardinality(upto(i))] = f[i]
      OBVIOUS
    <2>1. CASE i = n
      BY <1>4, <1>6, <2>1
    <2>2. CASE i \in S
      BY <1>5, <2>2
    <2> QED
      BY <2>1, <2>2
  <1> QED
    BY <1>4, <1>7 DEF Lists

\* Nothing is listed by the empty sequence.
LEMMA ListsNothing == ASSUME NEW f PROVE Lists(<<>>, {}, f)
  BY FS_EmptySet DEF Lists

-----------------------------------------------------------------------------
(* Frames.                                                                 *)

\* What a frame can be.
LEMMA FrameIs ==
    ASSUME NEW f \in Frames
    PROVE  /\ f.len \in Nat
           /\ f.type \in Types \cup {"?"}
           /\ f.side \in {"none", "B", "S", "other"}
  <1>1. "?" \notin Types
    BY DEF Types, MinLen
  <1>2. \A t \in Types : MinLen[t] \in Nat /\ MinLen[t] > 0
    BY DEF Types, MinLen
  <1>3. CASE f \in [type : {"?"}, len : {0, 1}, side : {"none"}]
    BY <1>3
  <1>4. CASE f \notin [type : {"?"}, len : {0, 1}, side : {"none"}]
    <2>1. PICK t \in Types :
            f \in [type : {t}, len : {0, MinLen[t] - 1, MinLen[t], MinLen[t] + 1},
                   side : IF t \in Sided THEN {"B", "S", "other"} ELSE {"none"}]
      BY <1>4 DEF Frames
    <2>2. f.type = t /\ f.len \in {0, MinLen[t] - 1, MinLen[t], MinLen[t] + 1}
      BY <2>1
    <2>3. f.side \in {"none", "B", "S", "other"}
      BY <2>1
    <2> QED
      BY <1>2, <2>2, <2>3
  <1> QED
    BY <1>3, <1>4

\* A package that its handler accepts is read within its bounds.
LEMMA HandlersReadInside ==
    ASSUME NEW f \in Frames, Accepts(f)
    PROVE  ReadUpTo(f) \in Nat /\ ReadUpTo(f) <= f.len
  <1>1. f.len \in Nat /\ f.type \in DOMAIN MinLen /\ f.len >= MinLen[f.type]
    BY FrameIs DEF Accepts, Types
  <1>2. f.type \in {"R", "L", "A", "F", "E", "C", "X", "D", "U", "P"}
    BY <1>1 DEF MinLen
  <1>3. ReadUpTo(f) = MinLen[f.type]
    BY <1>2 DEF ReadUpTo, MinLen
  <1>4. MinLen[f.type] \in Nat
    BY <1>2 DEF MinLen
  <1> QED
    BY <1>1, <1>3, <1>4

\* Where frames end.
LEMMA FrameEnds ==
    ASSUME NEW frames \in Seq(Frames)
    PROVE  /\ FrameEnd(frames, 0) = 0
           /\ \A k \in 0 .. Len(frames) : FrameEnd(frames, k) \in Nat
           /\ \A k \in 0 .. Len(frames) - 1 :
                FrameEnd(frames, k + 1) = FrameEnd(frames, k) + 2 + frames[k + 1].len
  <1> DEFINE n == Len(frames)
             upto(k) == SubSeq(frames, 1, k)
  <1>1. n \in Nat /\ \A i \in 1 .. n : frames[i] \in Frames
    OBVIOUS
  <1>2. ASSUME NEW k \in 0 .. n
        PROVE  upto(k) \in Seq(Frames) /\ Len(upto(k)) = k /\ \A i \in 1 .. k : upto(k)[i] = frames[i]
    BY SubSeqProperties
  <1>3. \A k \in 0 .. n : FrameEnd(frames, k) = Fold(0, upto(k))
    BY DEF FrameEnd, Fold
  <1>4. FrameEnd(frames, 0) = 0
    <2>1. upto(0) = <<>>
      BY <1>1, <1>2
    <2>2. FrameEnd(frames, 0) = Fold(0, upto(0))
      <3>1. 0 \in 0 .. n
        BY <1>1
      <3> HIDE DEF n, upto
      <3> QED
        BY <1>3, <3>1
    <2> QED
      BY <2>1, <2>2, FoldEmpty
  <1>5. ASSUME NEW k \in 0 .. n - 1
        PROVE  FrameEnd(frames, k + 1) = FrameEnd(frames, k) + 2 + frames[k + 1].len
    <2>1. k \in 0 .. n /\ k + 1 \in 0 .. n /\ k + 1 \in 1 .. n
      BY <1>1
    <2>2. upto(k + 1) = Append(upto(k), frames[k + 1])
      BY <1>2, <2>1
    <2> DEFINE u == upto(k)
               x == frames[k + 1]
    <2>3. u \in Seq(Frames) /\ x \in Frames
      BY <1>1, <1>2, <2>1
    <2>4. FrameEnd(frames, k + 1) = Fold(0, Append(u, x)) /\ FrameEnd(frames, k) = Fold(0, u)
      BY <1>3, <2>1, <2>2
    <2> HIDE DEF u, x
    <2>5. Fold(0, Append(u, x)) = BehindFrame(Fold(0, u), x)
      BY <2>3, FoldAppend
    <2> QED
      BY <2>4, <2>5 DEF BehindFrame, x
  <1>6. ASSUME NEW k \in 0 .. n PROVE FrameEnd(frames, k) \in Nat
    <2> DEFINE u == upto(k)
    <2>1. u \in Seq(Frames) /\ FrameEnd(frames, k) = Fold(0, u)
      BY <1>2, <1>3
    <2> HIDE DEF u
    <2>2. \A x \in Nat, i \in 1 .. Len(u) : BehindFrame(x, u[i]) \in Nat
      BY <2>1, FrameIs DEF BehindFrame
    <2>3. Fold(0, u) \in Nat
      BY <2>1, <2>2, FoldKeeps
    <2> QED
      BY <2>1, <2>3
  <1> QED
    BY <1>4, <1>5, <1>6

\* Later frames end later.
LEMMA FrameEndsAscend ==
    ASSUME NEW frames \in Seq(Frames), NEW j \in 0 .. Len(frames), NEW i \in 0 .. j, i # j
    PROVE  FrameEnd(frames, i) + 2 <= FrameEnd(frames, j)
  <1> DEFINE n == Len(frames)
             e == [k \in 0 .. n |-> FrameEnd(frames, k)]
             S == {d \in Nat : i + d + 1 <= n => e[i] + 2 <= e[i + d + 1]}
  <1>0. n \in Nat /\ i \in 0 .. n /\ j \in 0 .. n
    OBVIOUS
  <1>1. /\ \A k \in 0 .. n : e[k] \in Nat
        /\ \A k \in 0 .. n - 1 : e[k] + 2 <= e[k + 1]
    <2>1. \A k \in 0 .. n : e[k] \in Nat
      BY FrameEnds
    <2>2. ASSUME NEW k \in 0 .. n - 1 PROVE e[k] + 2 <= e[k + 1]
      <3>1. k \in 0 .. n /\ k + 1 \in 0 .. n /\ k + 1 \in 1 .. n
        BY <1>0
      <3>2. frames[k + 1].len \in Nat
        BY <3>1, FrameIs
      <3>3. e[k + 1] = e[k] + 2 + frames[k + 1].len
        BY <3>1, FrameEnds
      <3>4. e[k] \in Nat
        BY <2>1, <3>1
      <3> QED
        BY <3>2, <3>3, <3>4
    <2> QED
      BY <2>1, <2>2
  <1>2. FrameEnd(frames, i) = e[i] /\ FrameEnd(frames, j) = e[j]
    OBVIOUS
  <1> HIDE DEF e, n
  <1>3. 0 \in S
    BY <1>0, <1>1
  <1>4. ASSUME NEW d \in S PROVE d + 1 \in S
    <2> SUFFICES ASSUME i + (d + 1) + 1 <= n PROVE e[i] + 2 <= e[i + (d + 1) + 1]
      OBVIOUS
    <2> DEFINE k == i + d + 1
    <2>1. /\ k \in 0 .. n - 1 /\ k \in 0 .. n /\ k + 1 \in 0 .. n /\ i \in 0 .. n
          /\ i + (d + 1) + 1 = k + 1 /\ e[i] + 2 <= e[k]
      BY <1>0
    <2> HIDE DEF k
    <2>2. e[k] + 2 <= e[k + 1] /\ e[k] \in Nat /\ e[k + 1] \in Nat /\ e[i] \in Nat
      BY <1>1, <2>1
    <2> QED
      BY <2>1, <2>2
  <1>5. S = Nat
    <2> HIDE DEF S
    <2>1. S \in SUBSET Nat
      BY DEF S
    <2> QED
      BY <1>3, <1>4, <2>1, NaturalsByInduction
  <1>6. j - i - 1 \in Nat /\ i + (j - i - 1) + 1 = j
    BY <1>0
  <1>7. j - i - 1 \in S
    BY <1>5, <1>6
  <1>8. e[i] + 2 <= e[j]
    BY <1>0, <1>6, <1>7
  <1> QED
    BY <1>2, <1>8

-----------------------------------------------------------------------------
(* The inductive invariant.                                                *)

\* What was mapped.
Mapped ==
    /\ source \in {"NASDAQ", "CSV", "Databento", "Line", "Number", "Price"}
    /\ file.size \in Nat
    /\ source = "NASDAQ" =>
        /\ file.frames \in Seq(Frames)
        /\ file.size <= FrameEnd(file.frames, Len(file.frames))
    /\ source = "CSV" =>
        /\ file.chars \in Seq({"x", "LF", "CR"})
        /\ file.size = Len(file.chars)
    /\ source \in {"Line", "Number", "Price"} => file.size = 1

\* Where the program is in it.
Placed ==
    /\ offset \in 0 .. file.size
    /\ reach \in 0 .. offset
    /\ pc \in {"reading", "done"}
    /\ pc = "done" => offset = file.size

\* The first n frames that their handlers accept, and the others.
Good(n) == {i \in 1 .. n : Accepts(file.frames[i])}
Bad(n) == (1 .. n) \ Good(n)

\* After n whole frames of a NASDAQ file.
ReadFrames(n) ==
    /\ n \in 0 .. Len(file.frames)
    /\ Lists(delivered, Good(n), file.frames)
    /\ FrameEnd(file.frames, n) <= file.size
    /\ \/ /\ offset = FrameEnd(file.frames, n)
          /\ errors = Cardinality(Bad(n))
       \/ /\ offset = file.size
          /\ n < Len(file.frames)
          /\ FrameEnd(file.frames, n) < file.size
          /\ file.size < FrameEnd(file.frames, n + 1)
          /\ errors = Cardinality(Bad(n)) + 1

\* Some frames of a NASDAQ file were read, and perhaps a cut one.
FramesRead ==
    source = "NASDAQ" => delivered \in Seq(Frames) /\ \E n \in Nat : ReadFrames(n)

\* The beginnings of lines among the first n characters.
Starts(n) == {i \in 1 .. n : Begins(i)}

\* The lines of a CSV file.
LinesOf == [i \in DOMAIN file.chars |-> LineFrom(i)]

\* Some lines of a CSV file were read, and the next begins here.
LinesRead ==
    source = "CSV" =>
        /\ delivered \in Seq(Seq({"x", "LF", "CR"}))
        /\ Lists(delivered, Starts(offset), LinesOf)
        /\ offset < file.size => Begins(offset + 1)

\* The inductive invariant.
ReadingOK == Mapped /\ Placed /\ FramesRead /\ LinesRead

-----------------------------------------------------------------------------
(* NASDAQ.                                                                 *)

\* The frame at an offset is the one after the frames that end there.
LEMMA FrameFound ==
    ASSUME NEW n \in Nat, n < Len(file.frames), file.frames \in Seq(Frames),
           offset = FrameEnd(file.frames, n)
    PROVE  Frame = file.frames[n + 1] /\ Frame \in Frames
  <1> DEFINE N == Len(file.frames)
             at(i) == FrameEnd(file.frames, i - 1) = offset
  <1>1. N \in Nat /\ DOMAIN file.frames = 1 .. N /\ n + 1 \in 1 .. N /\ (n + 1) - 1 = n
    OBVIOUS
  <1>2. at(n + 1)
    BY <1>1
  <1>3. ASSUME NEW i \in 1 .. N, at(i) PROVE i = n + 1
    <2> DEFINE k == i - 1
    <2>1. k \in 0 .. N /\ n \in 0 .. N /\ k = i - 1
      BY <1>1
    <2>2. FrameEnd(file.frames, k) = FrameEnd(file.frames, n)
      BY <1>3
    <2>3. FrameEnd(file.frames, k) \in Nat /\ FrameEnd(file.frames, n) \in Nat
      BY <2>1, FrameEnds
    <2> HIDE DEF k
    <2>4. k < n \/ n < k \/ k = n
      BY <2>1
    <2>5. CASE k < n
      <3>1. k \in 0 .. n
        BY <2>1, <2>5
      <3> QED
        BY <2>1, <2>2, <2>3, <2>5, <3>1, FrameEndsAscend
    <2>6. CASE n < k
      <3>1. n \in 0 .. k
        BY <2>1, <2>6
      <3> QED
        BY <2>1, <2>2, <2>3, <2>6, <3>1, FrameEndsAscend
    <2>7. CASE k = n
      BY <2>1, <2>7
    <2> QED
      BY <2>4, <2>5, <2>6, <2>7
  <1> DEFINE c == CHOOSE i \in DOMAIN file.frames : at(i)
  <1>4. c \in 1 .. N /\ at(c)
    BY <1>1, <1>2
  <1> HIDE DEF at
  <1>5. c = n + 1
    BY <1>3, <1>4
  <1>6. Frame = file.frames[c]
    BY DEF Frame, at
  <1>7. file.frames[n + 1] \in Frames
    BY <1>1
  <1> QED
    BY <1>5, <1>6, <1>7

\* One frame more.
LEMMA OneFrameMore ==
    ASSUME NEW n \in Nat, file.frames \in Seq(Frames), n < Len(file.frames)
    PROVE  /\ Accepts(file.frames[n + 1]) =>
                Good(n + 1) = Good(n) \cup {n + 1} /\ Bad(n + 1) = Bad(n)
           /\ ~ Accepts(file.frames[n + 1]) =>
                /\ Good(n + 1) = Good(n)
                /\ Cardinality(Bad(n + 1)) = Cardinality(Bad(n)) + 1
           /\ n + 1 \notin Good(n) /\ Good(n) \in SUBSET (1 .. n + 1)
           /\ Cardinality(Bad(n)) \in Nat
  <1>1. 1 .. n + 1 = (1 .. n) \cup {n + 1} /\ n + 1 \notin 1 .. n
    OBVIOUS
  <1>2. Accepts(file.frames[n + 1]) =>
            Good(n + 1) = Good(n) \cup {n + 1} /\ Bad(n + 1) = Bad(n)
    BY <1>1 DEF Good, Bad
  <1>3. ~ Accepts(file.frames[n + 1]) =>
            Good(n + 1) = Good(n) /\ Bad(n + 1) = Bad(n) \cup {n + 1}
    BY <1>1 DEF Good, Bad
  <1>4. IsFiniteSet(Bad(n)) /\ n + 1 \notin Bad(n)
    <2>1. IsFiniteSet(1 .. n) /\ Bad(n) \subseteq 1 .. n
      BY FS_Interval DEF Bad
    <2> QED
      BY <1>1, <2>1, FS_Subset
  <1>5. Cardinality(Bad(n)) \in Nat /\ Cardinality(Bad(n) \cup {n + 1}) = Cardinality(Bad(n)) + 1
    BY <1>4, FS_AddElement, FS_CardinalityType
  <1> QED
    BY <1>1, <1>2, <1>3, <1>5 DEF Good

\* parse_message goes on by one frame, or ends at a cut.
LEMMA ParseMessageKeeps ==
    ASSUME ReadingOK, ParseMessage
    PROVE  ReadingOK'
  <1>1. /\ source = "NASDAQ" /\ pc = "reading" /\ offset < file.size
        /\ UNCHANGED <<source, file, pc>>
    BY DEF ParseMessage
  <1>2. /\ file.size \in Nat /\ file.frames \in Seq(Frames) /\ offset \in 0 .. file.size
        /\ reach \in 0 .. offset
        /\ file.size <= FrameEnd(file.frames, Len(file.frames))
        /\ delivered \in Seq(Frames)
    BY <1>1 DEF ReadingOK, Mapped, Placed, FramesRead
  <1>3. PICK n \in Nat : ReadFrames(n)
    BY <1>1 DEF ReadingOK, FramesRead
  <1> DEFINE N == Len(file.frames)
             end(k) == FrameEnd(file.frames, k)
  <1>4. /\ n \in 0 .. N /\ N \in Nat /\ offset = end(n)
        /\ Lists(delivered, Good(n), file.frames) /\ errors = Cardinality(Bad(n))
    BY <1>1, <1>2, <1>3 DEF ReadFrames
  <1>5. n < N /\ n \in 0 .. N - 1 /\ n + 1 \in 1 .. N /\ n + 1 \in 0 .. N
    <2>1. n # N
      BY <1>1, <1>2, <1>4
    <2> QED
      BY <1>4, <2>1
  <1>6. Frame = file.frames[n + 1] /\ Frame \in Frames /\ Frame.len \in Nat
    BY <1>2, <1>4, <1>5, FrameFound, FrameIs
  <1>7. /\ end(n + 1) = end(n) + 2 + Frame.len
        /\ end(n) \in Nat /\ end(n + 1) \in Nat
    BY <1>2, <1>4, <1>5, <1>6, FrameEnds
  <1>8. FrameEndsAt = end(n + 1)
    BY <1>4, <1>7 DEF FrameEndsAt
  <1> HIDE DEF end, N
  <1>9. Mapped' /\ LinesRead'
    <2>1. Mapped'
      BY <1>1 DEF ReadingOK, Mapped
    <2> QED
      BY <1>1, <2>1 DEF LinesRead
  <1>10. ASSUME NEW k \in Nat, ReadFrames(k)', delivered' \in Seq(Frames),
                offset' \in 0 .. file.size, reach' \in 0 .. offset'
         PROVE  ReadingOK'
    BY <1>1, <1>9, <1>10 DEF ReadingOK, Placed, FramesRead
  <1>11. ASSUME offset + 2 > file.size \/ FrameEndsAt > file.size, Fail(file.size)
         PROVE  ReadingOK'
    <2>1. /\ offset' = file.size /\ errors' = errors + 1
          /\ delivered' = delivered /\ reach' = reach
      BY <1>11 DEF Fail
    <2>2. file.size < end(n + 1)
      BY <1>2, <1>4, <1>6, <1>7, <1>8, <1>11
    <2>3. ReadFrames(n)'
      BY <1>1, <1>2, <1>4, <1>5, <1>7, <2>1, <2>2 DEF ReadFrames, Good, Bad, Accepts, end, N
    <2>4. reach' \in 0 .. offset'
      BY <1>2, <2>1
    <2> QED
      BY <1>2, <1>10, <2>1, <2>3, <2>4
  <1>12. ASSUME FrameEndsAt <= file.size, Accepts(Frame),
                delivered' = Append(delivered, Frame), offset' = FrameEndsAt,
                reach' = offset + 2 + ReadUpTo(Frame), UNCHANGED errors
         PROVE  ReadingOK'
    <2>1. Good(n + 1) = Good(n) \cup {n + 1} /\ Bad(n + 1) = Bad(n)
          /\ n + 1 \notin Good(n) /\ Good(n) \in SUBSET (1 .. n + 1)
      BY <1>2, <1>5, <1>6, <1>12, OneFrameMore DEF N
    <2>2. Lists(delivered', Good(n + 1), file.frames)
      <3>1. n + 1 \in Nat /\ file.frames[n + 1] \in Frames
        BY <1>6
      <3>2. Lists(Append(delivered, file.frames[n + 1]), Good(n) \cup {n + 1}, file.frames)
        BY <1>2, <1>4, <2>1, <3>1, ListsAppend
      <3> QED
        BY <1>6, <1>12, <2>1, <3>2
    <2>3. ReadFrames(n + 1)'
      BY <1>1, <1>4, <1>5, <1>8, <1>12, <2>1, <2>2 DEF ReadFrames, Good, Bad, Accepts, end, N
    <2>4. delivered' \in Seq(Frames)
      BY <1>2, <1>6, <1>12
    <2>5. ReadUpTo(Frame) \in Nat /\ ReadUpTo(Frame) <= Frame.len
      BY <1>6, <1>12, HandlersReadInside
    <2>6. offset' \in 0 .. file.size /\ reach' \in 0 .. offset'
      BY <1>2, <1>4, <1>6, <1>7, <1>8, <1>12, <2>5
    <2>7. n + 1 \in Nat
      OBVIOUS
    <2> QED
      BY <1>10, <2>3, <2>4, <2>6, <2>7
  <1>13. ASSUME FrameEndsAt <= file.size, ~ Accepts(Frame), Fail(FrameEndsAt)
         PROVE  ReadingOK'
    <2>1. /\ offset' = end(n + 1) /\ errors' = errors + 1
          /\ delivered' = delivered /\ reach' = reach
      BY <1>8, <1>13 DEF Fail
    <2>2. Good(n + 1) = Good(n) /\ Cardinality(Bad(n + 1)) = Cardinality(Bad(n)) + 1
      BY <1>2, <1>5, <1>6, <1>13, OneFrameMore DEF N
    <2>3. ReadFrames(n + 1)'
      BY <1>1, <1>4, <1>5, <1>8, <1>13, <2>1, <2>2 DEF ReadFrames, Good, Bad, Accepts, end, N
    <2>4. offset' \in 0 .. file.size /\ reach' \in 0 .. offset'
      BY <1>2, <1>4, <1>6, <1>7, <1>8, <1>13, <2>1
    <2>5. n + 1 \in Nat
      OBVIOUS
    <2> QED
      BY <1>2, <1>10, <2>1, <2>3, <2>4, <2>5
  <1> QED
    BY <1>11, <1>12, <1>13 DEF ParseMessage

-----------------------------------------------------------------------------
(* CSV.                                                                    *)

\* The characters of a file.
Chars == {"x", "LF", "CR"}

\* A line runs to the next terminator, or to the end of the file.
LEMMA LineRuns ==
    ASSUME file.chars \in Seq(Chars), file.size = Len(file.chars),
           NEW i \in 1 .. file.size, NEW end \in i - 1 .. file.size,
           \A j \in i .. end : ~ EndsLine(j), end < file.size => EndsLine(end + 1)
    PROVE  LineFrom(i) = SubSeq(file.chars, i, end)
  <1> DEFINE N == file.size
             long == {n \in 0 .. N + 1 - i : \A j \in i .. i + n - 1 : ~ EndsLine(j)}
             length == CHOOSE n \in long : \A m \in long : m <= n
  <1>1. N \in Nat /\ i \in Nat /\ i >= 1 /\ i <= N /\ end \in Int /\ i - 1 <= end /\ end <= N
    OBVIOUS
  <1> DEFINE k == end + 1 - i
  <1>2. k \in 0 .. N + 1 - i /\ i + k - 1 = end
    BY <1>1
  <1>3. k \in long
    BY <1>2
  <1>4. ASSUME NEW m \in long PROVE m <= k
    <2> SUFFICES ASSUME m > k PROVE FALSE
      BY <1>1, <1>2
    <2>1. m \in Nat /\ m <= N + 1 - i /\ \A j \in i .. i + m - 1 : ~ EndsLine(j)
      BY <1>1
    <2>2. end < N /\ end + 1 \in i .. i + m - 1
      BY <1>1, <1>2, <2>1
    <2> QED
      BY <2>1, <2>2
  <1>5. length \in long /\ \A m \in long : m <= length
    BY <1>3, <1>4
  <1>6. length = k
    <2>1. length <= k /\ k <= length /\ length \in Int /\ k \in Int
      <3> HIDE DEF length, k
      <3>1. length <= k /\ k <= length
        BY <1>3, <1>4, <1>5
      <3> QED
        BY <1>2, <1>5, <3>1
    <2> HIDE DEF length, k
    <2> QED
      BY <2>1
  <1>7. LineFrom(i) = SubSeq(file.chars, i, i + length - 1)
    BY DEF LineFrom
  <1> QED
    BY <1>2, <1>6, <1>7

\* Where find_next goes on, a line begins, and none in between.
LEMMA NextLineBegins ==
    ASSUME file.chars \in Seq(Chars), file.size = Len(file.chars), NEW o \in Nat,
           NEW end \in o .. file.size, end < file.size => EndsLine(end + 1),
           \A j \in o + 1 .. end : ~ EndsLine(j), o < file.size
    PROVE  /\ AfterLine(end) \in o + 1 .. file.size
           /\ AfterLine(end) < file.size => Begins(AfterLine(end) + 1)
           /\ \A i \in o + 2 .. AfterLine(end) : ~ Begins(i)
  <1>1. /\ end \in Nat /\ o <= end /\ end <= file.size /\ file.size \in Nat
        /\ \A j \in 1 .. file.size : file.chars[j] \in Chars
    OBVIOUS
  <1>2. ASSUME NEW i \in o + 2 .. end + 1 PROVE ~ Begins(i)
    <2>1. i - 1 \in o + 1 .. end /\ i # 1
      BY <1>1
    <2>2. ~ EndsLine(i - 1)
      BY <2>1
    <2> QED
      BY <2>1, <2>2 DEF Begins, EndsLine
  <1>3. CASE end = file.size
    <2>1. AfterLine(end) = end
      BY <1>3 DEF AfterLine
    <2>2. end \in o + 1 .. file.size /\ ~ (end < file.size)
      BY <1>1, <1>3
    <2>3. \A i \in o + 2 .. end : i \in o + 2 .. end + 1
      BY <1>1
    <2> QED
      BY <1>2, <2>1, <2>2, <2>3
  <1> DEFINE lf == /\ file.chars[end + 1] = "CR"
                   /\ end + 1 < file.size
                   /\ file.chars[end + 2] = "LF"
  <1>4. CASE end < file.size /\ lf
    <2>1. AfterLine(end) = end + 2
      BY <1>1, <1>4 DEF AfterLine
    <2>2. end + 2 \in o + 1 .. file.size
      BY <1>1, <1>4
    <2>3. Begins(end + 2 + 1)
      <3>1. (end + 2 + 1) - 1 = end + 2
        BY <1>1
      <3> QED
        BY <1>4, <3>1 DEF Begins
    <2>4. ~ Begins(end + 2)
      <3>1. (end + 2) - 1 = end + 1 /\ end + 2 # 1
        BY <1>1
      <3> QED
        BY <1>4, <3>1 DEF Begins
    <2>5. \A i \in o + 2 .. end + 2 : i \in o + 2 .. end + 1 \/ i = end + 2
      BY <1>1
    <2> QED
      BY <1>2, <2>1, <2>2, <2>3, <2>4, <2>5
  <1>5. CASE end < file.size /\ ~ lf
    <2>1. AfterLine(end) = end + 1
      BY <1>1, <1>5 DEF AfterLine
    <2>2. end + 1 \in o + 1 .. file.size
      BY <1>1, <1>5
    <2>3. end + 1 < file.size => Begins(end + 1 + 1)
      <3>1. (end + 1 + 1) - 1 = end + 1 /\ end + 1 + 1 = end + 2
        BY <1>1
      <3>2. EndsLine(end + 1)
        BY <1>5
      <3> QED
        BY <1>5, <3>1, <3>2 DEF Begins, EndsLine
    <2> QED
      BY <1>2, <2>1, <2>2, <2>3
  <1> QED
    BY <1>1, <1>3, <1>4, <1>5

\* find_next gives the line that begins at the offset.
LEMMA FindNextKeeps ==
    ASSUME ReadingOK, FindNext
    PROVE  ReadingOK'
  <1> DEFINE ends == {i \in offset .. file.size - 1 : EndsLine(i + 1)}
             end == IF ends = {} THEN file.size
                    ELSE CHOOSE i \in ends : \A j \in ends : i <= j
  <1>1. /\ source = "CSV" /\ pc = "reading" /\ offset < file.size
        /\ delivered' = Append(delivered, SubSeq(file.chars, offset + 1, end))
        /\ offset' = AfterLine(end)
        /\ UNCHANGED <<source, file, errors, reach, pc>>
    BY DEF FindNext
  <1>2. /\ file.chars \in Seq(Chars) /\ file.size = Len(file.chars) /\ file.size \in Nat
        /\ offset \in 0 .. file.size /\ reach \in 0 .. offset /\ offset \in Nat
        /\ delivered \in Seq(Seq(Chars))
        /\ Lists(delivered, Starts(offset), LinesOf)
        /\ Begins(offset + 1)
    BY <1>1 DEF ReadingOK, Mapped, Placed, LinesRead, Chars
  <1>3. /\ end \in offset .. file.size
        /\ end < file.size => EndsLine(end + 1)
        /\ \A j \in offset + 1 .. end : ~ EndsLine(j)
    <2>1. CASE ends = {}
      <3>1. end = file.size
        BY <2>1
      <3>2. ASSUME NEW j \in offset + 1 .. file.size PROVE ~ EndsLine(j)
        <4>1. j - 1 \in offset .. file.size - 1 /\ (j - 1) + 1 = j
          BY <1>2
        <4>2. j - 1 \notin ends
          BY <2>1
        <4> QED
          BY <4>1, <4>2
      <3> QED
        BY <1>1, <1>2, <3>1, <3>2
    <2>2. CASE ends # {}
      <3>1. ends \in SUBSET Nat
        BY <1>2
      <3>2. \E i \in ends : \A j \in ends : i <= j
        <4> HIDE DEF ends
        <4> QED
          BY <2>2, <3>1, LeastNatural
      <3>3. end \in ends /\ \A j \in ends : end <= j
        BY <2>2, <3>2
      <3>4. end \in offset .. file.size - 1 /\ EndsLine(end + 1)
        BY <3>3
      <3>5. ASSUME NEW j \in offset + 1 .. end, EndsLine(j) PROVE FALSE
        <4>1. j - 1 \in offset .. file.size - 1 /\ (j - 1) + 1 = j /\ ~ (end <= j - 1)
          <5> HIDE DEF end
          <5> QED
            BY <1>2, <3>4
        <4>2. j - 1 \in ends
          BY <3>5, <4>1
        <4> QED
          BY <3>3, <4>1, <4>2
      <3>6. end \in offset .. file.size
        <4> HIDE DEF end
        <4> QED
          BY <1>2, <3>4
      <3> QED
        BY <3>4, <3>5, <3>6
    <2> QED
      BY <2>1, <2>2
  <1> HIDE DEF end, ends
  <1> DEFINE next == AfterLine(end)
             line == SubSeq(file.chars, offset + 1, end)
  <1>4. /\ next \in offset + 1 .. file.size
        /\ next < file.size => Begins(next + 1)
        /\ \A i \in offset + 2 .. next : ~ Begins(i)
    BY <1>1, <1>2, <1>3, NextLineBegins
  <1>5. LineFrom(offset + 1) = line
    <2>1. offset + 1 \in 1 .. file.size /\ (offset + 1) - 1 = offset
      BY <1>1, <1>2
    <2> QED
      BY <1>2, <1>3, <2>1, LineRuns
  <1>6. Starts(next) = Starts(offset) \cup {offset + 1}
        /\ offset + 1 \notin Starts(offset) /\ Starts(offset) \in SUBSET (1 .. offset + 1)
    <2> HIDE DEF next
    <2>1. next \in Nat /\ offset + 1 <= next
      BY <1>2, <1>4
    <2>2. \A i \in 1 .. next : i \in 1 .. offset \/ i = offset + 1 \/ i \in offset + 2 .. next
      BY <1>2, <2>1
    <2>3. \A i \in 1 .. offset : i \in 1 .. next /\ i # offset + 1 /\ i \in 1 .. offset + 1
      BY <1>2, <2>1
    <2>4. offset + 1 \in 1 .. next
      BY <1>2, <2>1
    <2> QED
      BY <1>2, <1>4, <2>2, <2>3, <2>4 DEF Starts
  <1>7. line \in Seq(Chars)
    BY <1>2, <1>3, SubSeqProperties
  <1>8. LinesOf[offset + 1] = line
    <2>1. offset + 1 \in DOMAIN file.chars
      BY <1>1, <1>2
    <2> QED
      BY <1>5, <2>1 DEF LinesOf
  <1> HIDE DEF next, line
  <1>9. Lists(Append(delivered, line), Starts(next), LinesOf)
    <2>1. offset + 1 \in Nat /\ LinesOf[offset + 1] \in Seq(Chars)
      BY <1>2, <1>7, <1>8
    <2>2. Lists(Append(delivered, LinesOf[offset + 1]), Starts(offset) \cup {offset + 1}, LinesOf)
      BY <1>2, <1>6, <2>1, ListsAppend
    <2> QED
      BY <1>6, <1>8, <2>2
  <1>10. delivered' = Append(delivered, line) /\ offset' = next
    BY <1>1 DEF line, next
  <1>11. LinesRead'
    <2>1. delivered' \in Seq(Seq(Chars))
      BY <1>2, <1>7, <1>10
    <2>2. Lists(delivered, Starts(offset), LinesOf)'
      <3>1. Starts(offset)' = Starts(next)
        BY <1>1, <1>10 DEF Starts, Begins
      <3>2. LinesOf' = LinesOf
        BY <1>1 DEF LinesOf, LineFrom, EndsLine
      <3> QED
        BY <1>9, <1>10, <3>1, <3>2
    <2>3. (offset < file.size => Begins(offset + 1))'
      BY <1>1, <1>4, <1>10 DEF Begins
    <2> QED
      BY <2>1, <2>2, <2>3 DEF LinesRead, Chars
  <1>12. Mapped' /\ Placed' /\ FramesRead'
    <2>1. Mapped'
      BY <1>1 DEF ReadingOK, Mapped
    <2>2. Placed'
      <3>1. next \in 0 .. file.size /\ reach \in 0 .. next
        BY <1>2, <1>4
      <3> QED
        BY <1>1, <1>10, <3>1 DEF Placed
    <2>3. FramesRead'
      BY <1>1 DEF FramesRead
    <2> QED
      BY <2>1, <2>2, <2>3
  <1> QED
    BY <1>11, <1>12 DEF ReadingOK

-----------------------------------------------------------------------------
(* The theorems.                                                           *)

\* Sequences of at most n are sequences.
LEMMA UptoIsSeq == ASSUME NEW S, NEW n, NEW q \in Upto(S, n) PROVE q \in Seq(S)
  <1>1. PICK k \in 0 .. n : q \in [1 .. k -> S]
    BY DEF Upto
  <1>2. k \in Nat
    OBVIOUS
  <1> QED
    BY <1>1, <1>2

\* A file of the other sources is read without a look at frames or lines.
LEMMA OthersKeep ==
    ASSUME ReadingOK, source \in {"Databento", "Line", "Number", "Price"},
           UNCHANGED <<source, file, reach, pc>>, pc = "reading",
           offset' \in offset .. file.size
    PROVE  ReadingOK'
  <1>1. Mapped' /\ FramesRead' /\ LinesRead'
    BY DEF ReadingOK, Mapped, FramesRead, LinesRead
  <1>2. Placed'
    <2>1. offset \in 0 .. file.size /\ reach \in 0 .. offset /\ file.size \in Nat
      BY DEF ReadingOK, Placed, Mapped
    <2>2. offset' \in 0 .. file.size /\ reach \in 0 .. offset'
      BY <2>1
    <2> QED
      BY <2>2 DEF Placed
  <1> QED
    BY <1>1, <1>2 DEF ReadingOK

\* The invariant holds before the first step.
LEMMA ReadingStarts == Init => ReadingOK
  <1> SUFFICES ASSUME Init PROVE ReadingOK
    OBVIOUS
  <1>1. offset = 0 /\ delivered = <<>> /\ errors = 0 /\ reach = 0 /\ pc = "reading"
    BY DEF Init
  <1>2. \/ source = "NASDAQ" \/ source = "CSV"
        \/ source \in {"Databento", "Line", "Number", "Price"}
    BY DEF Init
  <1>3. CASE source = "NASDAQ"
    <2>1. PICK frames \in Upto(Frames, MaxFrames), missing \in Missing :
            /\ missing <= FrameEnd(frames, Len(frames))
            /\ file = [frames |-> frames,
                       size |-> FrameEnd(frames, Len(frames)) - missing]
      BY <1>3 DEF Init
    <2> DEFINE all == FrameEnd(frames, Len(frames))
    <2>2. frames \in Seq(Frames)
      BY UptoIsSeq
    <2>3. all \in Nat /\ FrameEnd(frames, 0) = 0
      <3>1. Len(frames) \in 0 .. Len(frames)
        BY <2>2
      <3> QED
        BY <2>2, <3>1, FrameEnds
    <2>4. file.frames = frames /\ file.size = all - missing /\ missing \in Nat /\ missing <= all
      BY <2>1, ReadingAssumption
    <2> HIDE DEF all
    <2>5. file.size \in Nat /\ file.size <= all
      BY <2>3, <2>4
    <2>6. Mapped
      BY <1>3, <2>2, <2>4, <2>5 DEF Mapped, all
    <2>7. Good(0) = {} /\ Bad(0) = {} /\ Cardinality({}) = 0
      BY FS_EmptySet DEF Good, Bad
    <2>8. Lists(<<>>, Good(0), file.frames)
      BY <2>7, ListsNothing
    <2>9. ReadFrames(0)
      <3>1. 0 \in 0 .. Len(file.frames)
        BY <2>2, <2>4
      <3> QED
        BY <1>1, <2>3, <2>4, <2>5, <2>7, <2>8, <3>1 DEF ReadFrames
    <2>10. FramesRead
      <3>1. delivered \in Seq(Frames) /\ 0 \in Nat
        BY <1>1
      <3> QED
        BY <2>9, <3>1 DEF FramesRead
    <2> QED
      BY <1>1, <1>3, <2>5, <2>6, <2>10 DEF ReadingOK, Placed, LinesRead
  <1>4. CASE source = "CSV"
    <2>1. PICK chars \in Upto({"x", "LF", "CR"}, MaxChars) :
            file = [chars |-> chars, size |-> Len(chars)]
      BY <1>4 DEF Init
    <2>2. /\ file.chars = chars /\ chars \in Seq({"x", "LF", "CR"})
          /\ file.size = Len(chars) /\ file.size \in Nat
      BY <2>1, UptoIsSeq
    <2>3. Mapped
      BY <1>4, <2>2 DEF Mapped
    <2>4. Starts(0) = {}
      BY DEF Starts
    <2>5. LinesRead
      <3>1. Lists(<<>>, Starts(0), LinesOf)
        BY <2>4, ListsNothing
      <3>2. Begins(0 + 1)
        BY DEF Begins
      <3>3. delivered \in Seq(Seq({"x", "LF", "CR"}))
        BY <1>1
      <3> QED
        BY <1>1, <3>1, <3>2, <3>3 DEF LinesRead
    <2> QED
      BY <1>1, <1>4, <2>2, <2>3, <2>5 DEF ReadingOK, Placed, FramesRead
  <1>5. CASE source \in {"Databento", "Line", "Number", "Price"}
    <2>1. file.size \in Nat /\ (source \in {"Line", "Number", "Price"} => file.size = 1)
      <3>1. CASE source = "Databento"
        <4>1. PICK records \in Upto({"Mbo", "other"}, MaxFrames) :
                file = [records |-> records, size |-> Len(records)]
          BY <3>1 DEF Init
        <4>2. records \in Seq({"Mbo", "other"})
          BY UptoIsSeq
        <4> QED
          BY <3>1, <4>1, <4>2
      <3>2. CASE source \in {"Line", "Number", "Price"}
        BY <3>2 DEF Init
      <3> QED
        BY <1>5, <3>1, <3>2
    <2>2. Mapped
      BY <1>5, <2>1 DEF Mapped
    <2> QED
      BY <1>1, <1>5, <2>1, <2>2 DEF ReadingOK, Placed, FramesRead, LinesRead
  <1> QED
    BY <1>2, <1>3, <1>4, <1>5

\* Every step keeps the invariant.
LEMMA ReadingSteps == ReadingOK /\ [Next]_vars => ReadingOK'
  <1> SUFFICES ASSUME ReadingOK, [Next]_vars PROVE ReadingOK'
    OBVIOUS
  <1>1. CASE ParseMessage
    BY <1>1, ParseMessageKeeps
  <1>2. CASE FindNext
    BY <1>2, FindNextKeeps
  <1>3. CASE DecodeRecord
    <2>1. offset \in 0 .. file.size /\ file.size \in Nat
      BY DEF ReadingOK, Placed, Mapped
    <2>2. /\ source = "Databento" /\ UNCHANGED <<source, file, reach, pc>>
          /\ pc = "reading" /\ offset < file.size /\ offset' = offset + 1
      BY <1>3 DEF DecodeRecord
    <2>3. offset' \in offset .. file.size
      BY <2>1, <2>2
    <2> QED
      BY <2>2, <2>3, OthersKeep
  <1>4. ASSUME NEW read, Deliver(read), source \in {"Line", "Number", "Price"}
        PROVE  ReadingOK'
    <2>1. file.size = 1
      BY <1>4 DEF ReadingOK, Mapped
    <2>2. /\ UNCHANGED <<source, file, reach, pc>>
          /\ pc = "reading" /\ offset = 0 /\ offset' = 1
      BY <1>4 DEF Deliver
    <2>3. offset' \in offset .. file.size
      BY <2>1, <2>2
    <2> QED
      BY <1>4, <2>2, <2>3, OthersKeep
  <1>5. CASE ReadLine \/ ReadNumber \/ ReadPrice
    BY <1>4, <1>5 DEF ReadLine, ReadNumber, ReadPrice
  <1>6. CASE EndOfFile
    <2>1. /\ pc = "reading" /\ offset >= file.size /\ pc' = "done"
          /\ UNCHANGED <<source, file, offset, delivered, errors, reach>>
      BY <1>6 DEF EndOfFile
    <2>2. offset = file.size
      BY <2>1 DEF ReadingOK, Placed, Mapped
    <2>3. Mapped'
      BY <2>1 DEF ReadingOK, Mapped
    <2>4. Placed'
      BY <2>1, <2>2 DEF ReadingOK, Placed
    <2>5. FramesRead'
      BY <2>1 DEF ReadingOK, FramesRead, ReadFrames, Good, Bad, Accepts
    <2>6. LinesRead'
      BY <2>1 DEF ReadingOK, LinesRead, Starts, LinesOf, Begins, LineFrom, EndsLine
    <2> QED
      BY <2>3, <2>4, <2>5, <2>6 DEF ReadingOK
  <1>7. CASE UNCHANGED vars
    <2>1. UNCHANGED <<source, file, offset, delivered, errors, reach, pc>>
      BY <1>7 DEF vars
    <2>2. Mapped' /\ Placed'
      BY <2>1 DEF ReadingOK, Mapped, Placed
    <2>3. FramesRead'
      BY <2>1 DEF ReadingOK, FramesRead, ReadFrames, Good, Bad, Accepts
    <2>4. LinesRead'
      BY <2>1 DEF ReadingOK, LinesRead, Starts, LinesOf, Begins, LineFrom, EndsLine
    <2> QED
      BY <2>2, <2>3, <2>4 DEF ReadingOK
  <1>8. CASE Done
    BY <1>7, <1>8 DEF Done
  <1> QED
    BY <1>1, <1>2, <1>3, <1>5, <1>6, <1>7, <1>8 DEF Next

\* The invariant holds while a file is read, whatever its lengths claim.
THEOREM ReadingStaysOK == Spec => []ReadingOK
  BY ReadingStarts, ReadingSteps, PTL DEF Spec

\* No handler of parse_message reads behind its frame, nor any source behind
\* the end of the mapped file.
THEOREM ReadsAlwaysInFrame == Spec => []ReadsStayInFrame
  <1>1. ReadingOK => ReadsStayInFrame
    BY DEF ReadingOK, Placed, Mapped, ReadsStayInFrame
  <1> QED
    BY <1>1, ReadingStaysOK, PTL

\* A NASDAQ file of any length, cut off anywhere and with any bad messages in
\* it, gives exactly its complete and valid messages, in order.
THEOREM CompleteMessagesDelivered == Spec => []EveryCompleteMessageDelivered
  <1>1. ReadingOK => EveryCompleteMessageDelivered
    <2> SUFFICES ASSUME ReadingOK, source = "NASDAQ", pc = "done"
                 PROVE  EveryCompleteMessageDelivered
      BY DEF EveryCompleteMessageDelivered
    <2> DEFINE frames == file.frames
               N == Len(frames)
               end(k) == FrameEnd(frames, k)
               complete == {i \in DOMAIN frames : end(i) <= file.size}
               good == {i \in complete :
                            /\ frames[i].type # "?"
                            /\ frames[i].len > 0
                            /\ frames[i].len >= MinLen[frames[i].type]
                            /\ frames[i].side \in {"none", "B", "S"}}
    <2>1. /\ frames \in Seq(Frames) /\ file.size \in Nat /\ file.size <= end(N)
          /\ offset = file.size
      BY DEF ReadingOK, Mapped, Placed
    <2>2. PICK n \in Nat : ReadFrames(n)
      BY DEF ReadingOK, FramesRead
    <2>3. /\ n \in 0 .. N /\ N \in Nat /\ DOMAIN frames = 1 .. N
          /\ end(n) <= file.size /\ Lists(delivered, Good(n), frames)
          /\ \/ end(n) = file.size /\ errors = Cardinality(Bad(n))
             \/ /\ n < N /\ end(n) < file.size /\ file.size < end(n + 1)
                /\ errors = Cardinality(Bad(n)) + 1
      BY <2>1, <2>2 DEF ReadFrames
    <2>4. complete = 1 .. n
      <3>1. ASSUME NEW i \in 1 .. n PROVE i \in complete
        <4>1. i \in 0 .. n /\ n \in 0 .. N /\ i \in 0 .. N /\ i \in 1 .. N
          BY <2>3
        <4>2. end(i) \in Nat /\ end(n) \in Nat
          BY <2>1, <4>1, FrameEnds
        <4>3. end(i) <= end(n)
          <5>1. CASE i = n
            BY <4>2, <5>1
          <5>2. CASE i # n
            <6>1. end(i) + 2 <= end(n)
              BY <2>1, <4>1, <5>2, FrameEndsAscend
            <6> HIDE DEF end
            <6> QED
              BY <4>2, <6>1
          <5> QED
            BY <5>1, <5>2
        <4>4. end(i) <= file.size
          <5> HIDE DEF end
          <5> QED
            BY <2>1, <2>3, <4>2, <4>3
        <4> QED
          BY <2>3, <4>1, <4>4
      <3>2. ASSUME NEW i \in 1 .. N, i > n PROVE end(i) > file.size
        <4>1. i \in 0 .. N /\ n \in 0 .. i /\ n # i /\ n < N /\ n + 1 \in 0 .. N /\ n + 1 \in 0 .. i
          BY <2>3, <3>2
        <4>2. end(i) \in Nat /\ end(n) \in Nat /\ end(n + 1) \in Nat
          BY <2>1, <2>3, <4>1, FrameEnds
        <4>3. end(n) + 2 <= end(i)
          BY <2>1, <4>1, FrameEndsAscend
        <4>4. i = n + 1 \/ end(n + 1) + 2 <= end(i)
          BY <2>1, <4>1, FrameEndsAscend
        <4> HIDE DEF end
        <4> QED
          BY <2>1, <2>3, <4>2, <4>3, <4>4
      <3>3. ASSUME NEW i \in complete PROVE i \in 1 .. n
        <4>1. i \in 1 .. N /\ end(i) <= file.size
          BY <2>3
        <4>2. ~ (i > n)
          <5>1. i \in 0 .. N
            BY <4>1
          <5>2. end(i) \in Nat
            BY <2>1, <5>1, FrameEnds
          <5> HIDE DEF end
          <5> QED
            BY <2>1, <3>2, <4>1, <5>2
        <4> QED
          BY <2>3, <4>1, <4>2
      <3> QED
        BY <3>1, <3>3
    <2>5. good = Good(n)
      <3>1. ASSUME NEW i \in 1 .. n
            PROVE  Accepts(frames[i]) <=> /\ frames[i].type # "?"
                                          /\ frames[i].len > 0
                                          /\ frames[i].len >= MinLen[frames[i].type]
                                          /\ frames[i].side \in {"none", "B", "S"}
        <4>1. frames[i] \in Frames
          BY <2>1, <2>3
        <4> DEFINE f == frames[i]
        <4>2. f \in Frames
          BY <4>1
        <4> HIDE DEF f
        <4>3. "?" \notin Types
          BY DEF Types, MinLen
        <4>4. Accepts(f) <=> /\ f.type # "?" /\ f.len > 0 /\ f.len >= MinLen[f.type]
                             /\ f.side \in {"none", "B", "S"}
          BY <4>2, <4>3, FrameIs DEF Accepts
        <4> QED
          BY <4>4 DEF f
      <3> QED
        BY <2>4, <3>1 DEF Good
    <2>6. Cardinality(complete) = n
      <3>1. Cardinality(1 .. n) = IF 1 > n THEN 0 ELSE n - 1 + 1
        BY FS_Interval
      <3>2. Cardinality(1 .. n) = n
        BY <3>1
      <3> QED
        BY <2>4, <3>2
    <2>7. complete \ good = Bad(n)
      BY <2>4, <2>5 DEF Bad
    <2>8. Cardinality(Bad(n)) \in Nat
      <3>1. IsFiniteSet(1 .. n) /\ Bad(n) \subseteq 1 .. n
        BY FS_Interval DEF Bad
      <3> QED
        BY <3>1, FS_Subset, FS_CardinalityType
    <2>9. end(n) \in Nat
      BY <2>1, <2>3, FrameEnds
    <2>10. errors = Cardinality(complete \ good)
                     + (IF end(Cardinality(complete)) < file.size THEN 1 ELSE 0)
      <3>1. errors = Cardinality(Bad(n)) + (IF end(n) < file.size THEN 1 ELSE 0)
        <4> HIDE DEF end
        <4> QED
          BY <2>1, <2>3, <2>8, <2>9
      <3> QED
        BY <2>6, <2>7, <3>1
    <2>11. Lists(delivered, good, frames)
      BY <2>3, <2>5
    <2> QED
      BY <2>10, <2>11 DEF EveryCompleteMessageDelivered
  <1> QED
    BY <1>1, ReadingStaysOK, PTL

\* A CSV file of any length gives exactly its lines, in order, whatever
\* mixture of line endings it has.
THEOREM LinesDelivered == Spec => []EveryLineDelivered
  <1>1. ReadingOK => EveryLineDelivered
    <2> SUFFICES ASSUME ReadingOK, source = "CSV", pc = "done"
                 PROVE  EveryLineDelivered
      BY DEF EveryLineDelivered
    <2>1. /\ Lists(delivered, Starts(offset), LinesOf)
          /\ file.chars \in Seq(Chars) /\ offset = Len(file.chars)
      BY DEF ReadingOK, Mapped, Placed, LinesRead, Chars
    <2>2. Starts(offset) = {i \in DOMAIN file.chars : Begins(i)}
      BY <2>1 DEF Starts
    <2> QED
      BY <2>1, <2>2 DEF EveryLineDelivered, LinesOf
  <1> QED
    BY <1>1, ReadingStaysOK, PTL

=============================================================================
