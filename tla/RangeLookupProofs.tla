------------------------- MODULE RangeLookupProofs -------------------------
(***************************************************************************)
(* The first generation's translation is exact for every file and request. *)
(* The invariant IInv says that the ranges number the bytes of the file    *)
(* (RangeInv), that no byte asked for lies before extent i until the first *)
(* piece is found (StartInv), and that the pieces then follow one another  *)
(* up to extent i or to the end of the request (ReachInv).                 *)
(***************************************************************************)
EXTENDS RangeLookup, SequenceTheorems, TLAPS

(* The file offset at which extent i begins, or the size of the file. *)
Pos == IF i <= Len(range) THEN range[i][1] ELSE ran

Consecutive == \A j \in 1..Len(at) - 1 : at[j + 1] = at[j] + result[j].length

RangeInv ==
    /\ \A k \in 1..Len(range) : /\ range[k][2] = range[k][1] + data[k].length
                                /\ range[k][2] <= ran
    /\ \A k \in 1..Len(range) - 1 : range[k + 1][1] = range[k][2]
    /\ range # <<>> => range[1][1] = 0 /\ range[Len(range)][2] = ran
    /\ range = <<>> => ran = 0

ShapeInv ==
    /\ Len(at) = Len(result)
    /\ start <= end
    /\ i > 1 => Len(range) = Len(data)
    /\ schk <=> result # <<>>
    /\ echk => schk

StartInv ==
    /\ ~schk /\ Len(range) = Len(data) => start >= Pos
    /\ schk => at[1] = start /\ start < ran /\ Len(range) = Len(data)

ReachInv ==
    /\ schk /\ ~echk => AnswerEnd = Pos /\ Pos <= end
    /\ echk => AnswerEnd = end /\ end < ran

IInv ==
    TypeOK /\ RangeInv /\ ShapeInv /\ PiecesInExtents /\ StartInv /\ Consecutive /\ ReachInv

-----------------------------------------------------------------------------
(* Appending to a sequence. *)
LEMMA Appended ==
    ASSUME NEW S, NEW q \in Seq(S), NEW x \in S
    PROVE  /\ Append(q, x) \in Seq(S)
           /\ Len(q) \in Nat /\ Len(Append(q, x)) = Len(q) + 1
           /\ Append(q, x)[Len(q) + 1] = x
           /\ \A j \in 1..Len(q) : Append(q, x)[j] = q[j]
           /\ Append(q, x) # <<>>
OBVIOUS

LEMMA ChunkType == \A c \in Chunk : c.offset \in Nat /\ c.length \in Nat
BY ConstantsAssumption DEF Chunk

LEMMA InvInit == Init => IInv
<1> SUFFICES ASSUME Init PROVE IInv
    OBVIOUS
<1>1. data \in Seq(Chunk)
    <2>1. PICK k \in 0..MaxExtents : data \in [1..k -> Chunk]
        BY DEF Init
    <2>2. k \in Nat
        BY ConstantsAssumption
    <2> QED
        BY <2>1, <2>2
<1>2. start \in Nat /\ end \in Nat /\ start <= end
    <2>1. PICK sector \in Request, length \in Request : start = sector /\ end = sector + length
        BY DEF Init
    <2>2. sector \in Nat /\ length \in Nat
        BY ConstantsAssumption
    <2> QED
        BY <2>1, <2>2
<1>3. /\ range = <<>> /\ ran = 0 /\ i = 1 /\ result = <<>> /\ at = <<>>
      /\ schk = FALSE /\ echk = FALSE
    BY DEF Init
<1>4. Len(range) = 0 /\ Len(at) = 0 /\ Len(result) = 0 /\ Len(data) \in Nat
    BY <1>1, <1>3
<1>5. 1 \in 1..(Len(data) + 1) /\ Len(range) <= Len(data)
    BY <1>4
<1>6. range \in Seq(Nat \X Nat) /\ result \in Seq(Piece) /\ at \in Seq(Nat) /\ ran \in Nat
    BY <1>3
<1>7. TypeOK
    BY <1>1, <1>2, <1>3, <1>5, <1>6 DEF TypeOK
<1>8. RangeInv /\ PiecesInExtents /\ Consecutive
    BY <1>3, <1>4 DEF RangeInv, PiecesInExtents, Consecutive
<1>9. Pos = 0
    BY <1>3, <1>4 DEF Pos
<1>10. ShapeInv /\ ReachInv
    BY <1>2, <1>3, <1>4 DEF ShapeInv, ReachInv
<1>11. StartInv
    BY <1>2, <1>3, <1>9 DEF StartInv
<1> QED
    BY <1>7, <1>8, <1>10, <1>11 DEF IInv

-----------------------------------------------------------------------------
(* The manager's loop numbers the bytes of the file. *)
LEMMA RangeStep ==
    ASSUME IInv, SetRange
    PROVE  IInv'
<1>1. /\ data \in Seq(Chunk) /\ range \in Seq(Nat \X Nat) /\ ran \in Nat
      /\ Len(range) \in Nat /\ Len(data) \in Nat /\ Len(range) < Len(data)
    BY DEF IInv, TypeOK, SetRange
<1>2. PICK k \in 1..Len(data) : k = Len(range) + 1
    BY <1>1
<1>3. data[k] \in Chunk /\ data[k].length \in Nat
    BY <1>1, ElementOfSeq, ChunkType
<1>4. PICK last \in Nat : last = ran + data[k].length
    BY <1>1, <1>3
<1>5. /\ range' = Append(range, <<ran, last>>) /\ ran' = last
      /\ UNCHANGED <<data, start, end, i, schk, echk, result, at>>
    BY <1>2, <1>4 DEF SetRange
<1>6. <<ran, last>> \in Nat \X Nat
    BY <1>1
<1>7. /\ range' \in Seq(Nat \X Nat) /\ Len(range') = k /\ range' # <<>>
      /\ range'[k] = <<ran, last>>
      /\ \A j \in 1..Len(range) : range'[j] = range[j]
    <2>1. /\ range' \in Seq(Nat \X Nat) /\ Len(range') = Len(range) + 1
          /\ range'[Len(range) + 1] = <<ran, last>>
          /\ \A j \in 1..Len(range) : range'[j] = range[j]
        BY <1>1, <1>5, <1>6, Appended
    <2>2. range' # <<>>
        BY <1>1, <2>1
    <2> QED
        BY <1>2, <2>1, <2>2
<1>8. i = 1 /\ ~schk /\ ~echk /\ result = <<>>
    BY <1>1 DEF IInv, ShapeInv, StartInv, TypeOK
<1>9. \A j \in 1..Len(range) :
        /\ range[j] \in Nat \X Nat /\ range[j][1] \in Nat /\ range[j][2] \in Nat
    BY <1>1, ElementOfSeq
<1>10. TypeOK'
    BY <1>1, <1>2, <1>4, <1>5, <1>7 DEF IInv, TypeOK
<1>11. RangeInv'
    <2>1. ASSUME NEW j \in 1..Len(range')
          PROVE  range'[j][2] = range'[j][1] + data[j].length /\ range'[j][2] <= ran'
        <3>1. CASE j = k
            BY <1>4, <1>5, <1>7, <3>1
        <3>2. CASE j # k
            <4>1. j \in 1..Len(range)
                BY <1>1, <1>2, <1>7, <3>2
            <4>2. range'[j] = range[j] /\ range[j][2] \in Nat /\ range[j][2] <= ran
                BY <1>7, <1>9, <4>1 DEF IInv, RangeInv
            <4>3. range[j][2] = range[j][1] + data[j].length
                BY <4>1 DEF IInv, RangeInv
            <4>4. ran <= ran' /\ ran' \in Nat
                BY <1>1, <1>3, <1>4, <1>5
            <4>5. range[j][2] <= ran'
                BY <1>1, <4>2, <4>4
            <4> QED
                BY <4>2, <4>3, <4>5
        <3> QED
            BY <3>1, <3>2
    <2>2. ASSUME NEW j \in 1..Len(range') - 1
          PROVE  range'[j + 1][1] = range'[j][2]
        <3>1. CASE j = Len(range)
            <4>1. range # <<>>
                BY <2>2, <3>1
            <4>2. range[Len(range)][2] = ran
                BY <4>1 DEF IInv, RangeInv
            <4> QED
                BY <1>1, <1>2, <1>7, <3>1, <4>2
        <3>2. CASE j # Len(range)
            <4>1. j \in 1..Len(range) - 1 /\ j \in 1..Len(range) /\ j + 1 \in 1..Len(range)
                BY <1>1, <1>2, <1>7, <3>2
            <4>2. range[j + 1][1] = range[j][2]
                BY <4>1 DEF IInv, RangeInv
            <4> QED
                BY <1>7, <4>1, <4>2
        <3> QED
            BY <3>1, <3>2
    <2>3. range'[1][1] = 0
        <3>1. CASE range = <<>>
            <4>1. k = 1 /\ ran = 0
                BY <1>2, <3>1 DEF IInv, RangeInv
            <4> QED
                BY <1>7, <4>1
        <3>2. CASE range # <<>>
            <4>1. 1 \in 1..Len(range) /\ range[1][1] = 0
                BY <1>1, <3>2 DEF IInv, RangeInv
            <4> QED
                BY <1>7, <4>1
        <3> QED
            BY <3>1, <3>2
    <2>4. range'[Len(range')][2] = ran'
        BY <1>5, <1>7
    <2> QED
        BY <1>5, <1>7, <2>1, <2>2, <2>3, <2>4 DEF RangeInv
<1>12. ShapeInv' /\ PiecesInExtents' /\ Consecutive'
    BY <1>5, <1>8 DEF IInv, ShapeInv, PiecesInExtents, Consecutive
<1>13. StartInv' /\ ReachInv'
    <2>1. Pos' = 0
        <3>1. range'[1][1] = 0 /\ 1 <= Len(range')
            BY <1>2, <1>7, <1>11 DEF RangeInv
        <3> QED
            BY <1>5, <1>8, <3>1 DEF Pos
    <2>2. start' \in Nat /\ ~schk' /\ ~echk'
        BY <1>5, <1>8 DEF IInv, TypeOK
    <2> QED
        BY <2>1, <2>2 DEF StartInv, ReachInv
<1> QED
    BY <1>10, <1>11, <1>12, <1>13 DEF IInv

(* The extent the query loop is at. *)
LEMMA TurnFacts ==
    ASSUME IInv, Turn
    PROVE  /\ i \in 1..Len(data) /\ Len(range) = Len(data) /\ Len(data) \in Nat
           /\ data[i] \in Chunk /\ data[i].offset \in Nat /\ data[i].length \in Nat
           /\ s \in Nat /\ e \in Nat /\ e = s + data[i].length /\ e <= ran /\ ran \in Nat
           /\ Pos = s /\ Pos' = e
           /\ i' \in 1..(Len(data') + 1) /\ i' > 1
           /\ UNCHANGED <<data, range, ran, start, end>>
           /\ RangeInv'
<1>1. /\ i \in 1..Len(data) /\ Len(range) = Len(data) /\ Len(data) \in Nat /\ ran \in Nat
      /\ data \in Seq(Chunk) /\ range \in Seq(Nat \X Nat) /\ i' = i + 1
      /\ UNCHANGED <<data, range, ran, start, end>>
    BY DEF IInv, TypeOK, Turn
<1>2. data[i] \in Chunk /\ range[i] \in Nat \X Nat
    BY <1>1, ElementOfSeq
<1>3. data[i].offset \in Nat /\ data[i].length \in Nat
    BY <1>2, ChunkType
<1>4. s \in Nat /\ e \in Nat
    BY <1>2 DEF s, e
<1>5. e = s + data[i].length /\ e <= ran
    BY <1>1 DEF IInv, RangeInv, s, e
<1>6. Pos = s
    BY <1>1 DEF Pos, s
<1>7. Pos' = e
    <2>1. CASE i = Len(data)
        <3>1. e = ran
            BY <1>1, <2>1 DEF IInv, RangeInv, e
        <3>2. ~(i' <= Len(range'))
            BY <1>1, <2>1
        <3> QED
            BY <1>1, <3>1, <3>2 DEF Pos
    <2>2. CASE i # Len(data)
        <3>1. i \in 1..Len(range) - 1 /\ i' <= Len(range')
            BY <1>1, <2>2
        <3>2. range[i + 1][1] = e
            BY <3>1 DEF IInv, RangeInv, e
        <3> QED
            BY <1>1, <3>1, <3>2 DEF Pos
    <2> QED
        BY <2>1, <2>2
<1>8. i' \in 1..(Len(data') + 1) /\ i' > 1
    BY <1>1
<1>9. RangeInv'
    BY <1>1 DEF IInv, RangeInv
<1> QED
    BY <1>1, <1>2, <1>3, <1>4, <1>5, <1>6, <1>7, <1>8, <1>9

(* What a turn that appends the part [off, off + len) of extent i does. *)
LEMMA PieceStep ==
    ASSUME IInv, Turn, NEW d \in Nat, NEW len \in Nat, AppendPiece(data[i].offset + d, len),
           d + len <= data[i].length,
           schk => d = 0 /\ ~echk
    PROVE  /\ result' \in Seq(Piece) /\ at' \in Seq(Nat)
           /\ Len(at') = Len(result') /\ result' # <<>>
           /\ PiecesInExtents' /\ Consecutive'
           /\ AnswerEnd' = s + d + len
           /\ ~schk => at'[1] = s + d
           /\ schk => at'[1] = at[1]
<1>1. /\ i \in 1..Len(data) /\ data[i] \in Chunk /\ data' = data /\ s \in Nat /\ Pos = s
      /\ data[i].offset \in Nat /\ data[i].length \in Nat
    BY TurnFacts
<1>2. PICK off \in Nat : off = data[i].offset + d
    BY <1>1
<1>3. off - data[i].offset = d /\ off + len <= data[i].offset + data[i].length /\ data[i].offset <= off
    BY <1>1, <1>2
<1>4. PICK p \in Piece : p = [disk |-> data[i].disk, offset |-> off, length |-> len]
    BY <1>1 DEF Piece, Chunk
<1>5. PICK a \in Nat : a = s + d
    BY <1>1
<1>6. result \in Seq(Piece) /\ at \in Seq(Nat) /\ Len(at) = Len(result)
    BY DEF IInv, TypeOK, ShapeInv
<1>7. result' = Append(result, p) /\ at' = Append(at, a)
    BY <1>2, <1>3, <1>4, <1>5 DEF AppendPiece
<1>8. /\ result' \in Seq(Piece) /\ Len(result) \in Nat /\ Len(result') = Len(result) + 1
      /\ result'[Len(result) + 1] = p /\ result' # <<>>
      /\ \A j \in 1..Len(result) : result'[j] = result[j]
    BY <1>6, <1>7, Appended
<1>9. /\ at' \in Seq(Nat) /\ Len(at') = Len(at) + 1
      /\ at'[Len(at) + 1] = a /\ \A j \in 1..Len(at) : at'[j] = at[j]
    BY <1>6, <1>7, Appended
<1>10. p.disk = data[i].disk /\ p.offset = off /\ p.length = len
    BY <1>4
<1>11. PiecesInExtents'
    <2> SUFFICES ASSUME NEW j \in 1..Len(result')
                 PROVE  \E k \in 1..Len(data) :
                          /\ result'[j].disk = data[k].disk
                          /\ data[k].offset <= result'[j].offset
                          /\ result'[j].offset + result'[j].length
                               <= data[k].offset + data[k].length
        BY <1>1 DEF PiecesInExtents
    <2>1. CASE j \in 1..Len(result)
        BY <1>8, <2>1 DEF IInv, PiecesInExtents
    <2>2. CASE j = Len(result) + 1
        BY <1>1, <1>3, <1>8, <1>10, <2>2
    <2> QED
        BY <1>8, <2>1, <2>2
<1>12. Consecutive'
    <2> SUFFICES ASSUME NEW j \in 1..Len(at') - 1
                 PROVE  at'[j + 1] = at'[j] + result'[j].length
        BY DEF Consecutive
    <2>1. j \in 1..Len(result) /\ result'[j] = result[j] /\ at'[j] = at[j]
        <3>1. Len(at') - 1 = Len(result)
            BY <1>6, <1>8, <1>9
        <3>2. j \in 1..Len(result)
            BY <3>1
        <3> QED
            BY <1>6, <1>8, <1>9, <3>2
    <2>2. CASE j = Len(result)
        <3>1. schk
            BY <1>6, <2>1 DEF IInv, ShapeInv
        <3>2. a = s
            BY <1>1, <1>5, <3>1
        <3>3. at[j] + result[j].length = s
            BY <1>1, <1>6, <2>2, <3>1 DEF IInv, ReachInv, AnswerEnd
        <3> QED
            BY <1>6, <1>9, <2>1, <2>2, <3>2, <3>3
    <2>3. CASE j < Len(result)
        <3>1. j \in 1..Len(at) - 1 /\ j + 1 \in 1..Len(at)
            BY <1>6, <1>8, <2>1, <2>3
        <3>2. at[j + 1] = at[j] + result[j].length
            BY <3>1 DEF IInv, Consecutive
        <3> QED
            BY <1>9, <2>1, <3>1, <3>2
    <2> QED
        BY <1>8, <2>1, <2>2, <2>3
<1>13. AnswerEnd' = a + len
    BY <1>6, <1>8, <1>9, <1>10 DEF AnswerEnd
<1>14. result # <<>> => 1 \in 1..Len(at)
    BY <1>6
<1>15. /\ ~schk => at'[1] = a
       /\ schk => at'[1] = at[1]
    BY <1>6, <1>8, <1>9, <1>14 DEF IInv, ShapeInv
<1> QED
    BY <1>5, <1>6, <1>8, <1>9, <1>11, <1>12, <1>13, <1>15

LEMMA InvNext == IInv /\ [Next]_vars => IInv'
<1> SUFFICES ASSUME IInv, [Next]_vars PROVE IInv'
    OBVIOUS
<1>1. /\ start \in Nat /\ end \in Nat /\ start <= end
      /\ schk \in BOOLEAN /\ echk \in BOOLEAN
    BY DEF IInv, TypeOK, ShapeInv
<1>2. ASSUME Turn, result' = result, at' = at, schk' = schk, echk' = echk,
             ~schk => start >= e, schk => echk
      PROVE  IInv'
    <2>1. TypeOK' /\ ShapeInv'
        BY <1>2, TurnFacts DEF IInv, TypeOK, ShapeInv
    <2>2. PiecesInExtents' /\ Consecutive'
        BY <1>2, TurnFacts DEF IInv, PiecesInExtents, Consecutive
    <2>3. StartInv'
        BY <1>2, TurnFacts DEF IInv, StartInv
    <2>4. ReachInv'
        BY <1>2, TurnFacts DEF IInv, ReachInv, AnswerEnd
    <2> QED
        BY <1>2, <2>1, <2>2, <2>3, <2>4, TurnFacts DEF IInv
<1>3. CASE SkipExtent
    <2>1. Turn /\ ~schk /\ ~(s <= start /\ start < e)
        BY <1>3 DEF SkipExtent
    <2>2. start >= s /\ s \in Nat /\ e \in Nat
        BY <2>1, TurnFacts DEF IInv, StartInv
    <2>3. start >= e
        BY <1>1, <2>1, <2>2
    <2> QED
        BY <1>2, <1>3, <2>1, <2>3 DEF SkipExtent
<1>4. CASE PassExtent
    BY <1>2, <1>4 DEF PassExtent
<1>5. ASSUME Turn, NEW d \in Nat, NEW len \in Nat, AppendPiece(data[i].offset + d, len),
             d + len <= data[i].length, schk => d = 0, ~echk, schk' = TRUE,
             ~schk => s + d = start, echk' \in BOOLEAN,
             start < ran,
             echk' => s + d + len = end /\ end < e,
             ~echk' => s + d + len = e /\ e <= end
      PROVE  IInv'
    <2>1. /\ result' \in Seq(Piece) /\ at' \in Seq(Nat)
          /\ Len(at') = Len(result') /\ result' # <<>>
          /\ PiecesInExtents' /\ Consecutive'
          /\ AnswerEnd' = s + d + len
          /\ ~schk => at'[1] = s + d
          /\ schk => at'[1] = at[1]
        BY <1>5, PieceStep
    <2>2. /\ UNCHANGED <<data, range, ran, start, end>> /\ Len(range) = Len(data) /\ Pos' = e
          /\ e \in Nat /\ ran \in Nat /\ e <= ran /\ RangeInv'
        BY <1>5, TurnFacts
    <2>3. TypeOK'
        BY <1>5, <2>1, TurnFacts DEF IInv, TypeOK
    <2>4. ShapeInv'
        BY <1>1, <1>5, <2>1, <2>2 DEF ShapeInv
    <2>5. at'[1] = start
        BY <1>5, <2>1 DEF IInv, StartInv
    <2>6. StartInv'
        BY <1>5, <2>2, <2>5 DEF StartInv
    <2>7. echk' => end < ran
        BY <1>1, <1>5, <2>2
    <2>8. ReachInv'
        BY <1>5, <2>1, <2>2, <2>7 DEF ReachInv
    <2> QED
        BY <2>1, <2>2, <2>3, <2>4, <2>6, <2>8 DEF IInv
<1>6. CASE FirstPiece
    <2>1. Turn /\ ~schk /\ ~echk /\ schk' = TRUE /\ s <= start /\ start < e
        BY <1>6 DEF FirstPiece, IInv, ShapeInv
    <2>2. /\ s \in Nat /\ e \in Nat /\ e = s + data[i].length /\ e <= ran /\ ran \in Nat
          /\ data[i].length \in Nat
        BY <2>1, TurnFacts
    <2>3. PICK d \in Nat : d = start - s
        BY <1>1, <2>1, <2>2
    <2>4. s + d = start /\ start < ran
        BY <1>1, <2>1, <2>2, <2>3
    <2>5. CASE end < e
        <3>1. PICK len \in Nat : len = end - start
            BY <1>1
        <3>2. ~(end >= e)
            BY <1>1, <2>2, <2>5
        <3>3. AppendPiece(data[i].offset + d, len) /\ echk' = TRUE
            BY <1>6, <2>3, <3>1, <3>2 DEF FirstPiece
        <3>4. d + len <= data[i].length /\ s + d + len = end
            BY <1>1, <2>2, <2>3, <2>5, <3>1
        <3> QED
            BY <1>5, <2>1, <2>4, <2>5, <3>3, <3>4
    <2>6. CASE end >= e
        <3>1. PICK len \in Nat : len = e - start
            BY <1>1, <2>1, <2>2
        <3>2. ~(end < e)
            BY <1>1, <2>2, <2>6
        <3>3. AppendPiece(data[i].offset + d, len) /\ echk' = echk
            BY <1>6, <2>3, <3>1, <3>2 DEF FirstPiece
        <3>4. d + len <= data[i].length /\ s + d + len = e /\ e <= end
            BY <1>1, <2>1, <2>2, <2>3, <2>6, <3>1
        <3> QED
            BY <1>1, <1>5, <2>1, <2>4, <3>3, <3>4
    <2> QED
        BY <1>1, <2>2, <2>5, <2>6
<1>7. CASE NextPiece
    <2>1. Turn /\ schk /\ ~echk /\ schk' = schk
        BY <1>7 DEF NextPiece
    <2>2. /\ s \in Nat /\ e \in Nat /\ e = s + data[i].length /\ e <= ran /\ ran \in Nat
          /\ data[i].length \in Nat /\ data[i].offset \in Nat /\ Pos = s
        BY <2>1, TurnFacts
    <2>3. s <= end /\ s <= e /\ start < ran
        BY <2>1, <2>2 DEF IInv, ReachInv, StartInv
    <2>4. data[i].offset + 0 = data[i].offset /\ 0 \in Nat
        BY <2>2
    <2>5. CASE end < e
        <3>1. PICK len \in Nat : len = end - s
            BY <1>1, <2>2, <2>3
        <3>2. AppendPiece(data[i].offset + 0, len) /\ echk' = TRUE
            BY <1>7, <2>3, <2>4, <2>5, <3>1 DEF NextPiece
        <3>3. 0 + len <= data[i].length /\ s + 0 + len = end
            BY <1>1, <2>2, <2>5, <3>1
        <3> QED
            BY <1>1, <1>5, <2>1, <2>3, <2>5, <3>2, <3>3
    <2>6. CASE ~(end < e)
        <3>1. AppendPiece(data[i].offset + 0, data[i].length) /\ echk' = echk
            BY <1>7, <2>4, <2>6 DEF NextPiece
        <3>2. 0 + data[i].length <= data[i].length /\ s + 0 + data[i].length = e /\ e <= end
            BY <1>1, <2>2, <2>6
        <3> QED
            BY <1>1, <1>5, <2>1, <2>2, <2>3, <3>1, <3>2
    <2> QED
        BY <2>5, <2>6
<1>8. CASE UNCHANGED vars
    BY <1>8 DEF vars, IInv, TypeOK, RangeInv, ShapeInv, PiecesInExtents, StartInv, Consecutive,
                ReachInv, AnswerEnd, Pos
<1> QED
    BY <1>3, <1>4, <1>6, <1>7, <1>8, RangeStep DEF Next

-----------------------------------------------------------------------------
(* The invariant of the two loops holds for every file and request. *)
THEOREM InvCorrect == Spec => []IInv
BY InvInit, InvNext, PTL DEF Spec

(* The offsets and lengths LB2PBA computes by subtraction stay natural      *)
(* numbers, for every file and request.                                     *)
THEOREM TypeCorrect == Spec => []TypeOK
<1>1. IInv => TypeOK
    BY DEF IInv
<1> QED
    BY <1>1, InvCorrect, PTL

(* LB2PBA, given the ranges of the manager's getPBA, returns exactly the    *)
(* bytes asked for, for any number of extents.                              *)
THEOREM ExactCorrect == Spec => []AnswerExact
<1>1. IInv => AnswerExact
    <2> SUFFICES ASSUME IInv, Returned PROVE AnswerExact
        BY DEF AnswerExact
    <2>1. /\ Len(range) = Len(data) /\ i = Len(data) + 1 /\ Len(data) \in Nat
          /\ start \in Nat /\ end \in Nat /\ ran \in Nat
        BY DEF Returned, IInv, TypeOK
    <2>2. Pos = ran
        <3>1. ~(i <= Len(range))
            BY <2>1
        <3> QED
            BY <3>1 DEF Pos
    <2>3. CASE start >= ran
        <3>1. ~(start < ran)
            BY <2>1, <2>3
        <3>2. result = <<>>
            BY <3>1 DEF IInv, StartInv, ShapeInv
        <3> QED
            BY <2>3, <3>2 DEF AnswerExact, FileSize
    <2>4. CASE ~(start >= ran)
        <3>1. schk
            BY <2>1, <2>2, <2>4 DEF IInv, StartInv
        <3>2. result # <<>> /\ at[1] = start
            BY <3>1 DEF IInv, StartInv, ShapeInv
        <3>3. CASE echk
            <4>1. AnswerEnd = end /\ end < ran
                BY <3>3 DEF IInv, ReachInv
            <4> QED
                BY <2>4, <3>2, <4>1 DEF AnswerExact, FileSize, Min2, IInv, Consecutive
        <3>4. CASE ~echk
            <4>1. AnswerEnd = ran /\ ran <= end
                BY <2>2, <3>1, <3>4 DEF IInv, ReachInv
            <4>2. ~(end < ran)
                BY <2>1, <4>1
            <4> QED
                BY <2>4, <3>2, <4>1, <4>2 DEF AnswerExact, FileSize, Min2, IInv, Consecutive
        <3> QED
            BY <3>3, <3>4
    <2> QED
        BY <2>3, <2>4
<1> QED
    BY <1>1, InvCorrect, PTL

(* Whatever the request, no address outside the file's extents is returned. *)
THEOREM PiecesCorrect == Spec => []PiecesInExtents
<1>1. IInv => PiecesInExtents
    BY DEF IInv
<1> QED
    BY <1>1, InvCorrect, PTL

-----------------------------------------------------------------------------
(* Byte by byte.  PlaceInv says in which part of which extent a piece lies,  *)
(* OrderInv that the pieces follow one another in the file, CoverInv that   *)
(* they leave no byte out.  With extents that share no space on disk a      *)
(* piece then holds the place of a byte exactly if it holds the byte.       *)

PlacedIn(j, k) ==
    /\ result[j].disk = data[k].disk
    /\ range[k][1] <= at[j]
    /\ at[j] + result[j].length <= range[k][2]
    /\ result[j].offset = data[k].offset + (at[j] - range[k][1])

PlaceInv == \A j \in 1..Len(result) : \E k \in 1..Len(range) : PlacedIn(j, k)

OrderInv == \A j, m \in 1..Len(result) : j < m => at[j] + result[j].length <= at[m]

Has(j, b) == at[j] <= b /\ b < at[j] + result[j].length

CoverInv ==
    result # <<>> =>
      \A b \in Nat : at[1] <= b /\ b < AnswerEnd => \E j \in 1..Len(result) : Has(j, b)

BInv == Disjoint(data) /\ PlaceInv /\ OrderInv /\ CoverInv

LEMMA BytesInit == Init => BInv
BY DEF Init, BInv, PlaceInv, OrderInv, CoverInv

(* The numbers of a piece and of a range. *)
LEMMA PieceNumbers ==
    ASSUME IInv
    PROVE  /\ Len(at) = Len(result) /\ Len(result) \in Nat /\ Len(range) \in Nat
           /\ Len(data) \in Nat /\ Len(range) <= Len(data)
           /\ \A j \in 1..Len(result) : at[j] \in Nat /\ result[j].length \in Nat
           /\ \A j \in 1..Len(result) : result[j].offset \in Nat
           /\ \A k \in 1..Len(range) : /\ range[k][1] \in Nat /\ range[k][2] \in Nat
                                       /\ data[k].offset \in Nat /\ data[k].length \in Nat
                                       /\ range[k][2] = range[k][1] + data[k].length
<1>1. /\ data \in Seq(Chunk) /\ range \in Seq(Nat \X Nat) /\ Len(range) <= Len(data)
      /\ result \in Seq(Piece) /\ at \in Seq(Nat) /\ Len(at) = Len(result)
    BY DEF IInv, TypeOK, ShapeInv
<1>2. Len(result) \in Nat /\ Len(range) \in Nat /\ Len(data) \in Nat
    BY <1>1
<1>3. ASSUME NEW j \in 1..Len(result)
      PROVE  at[j] \in Nat /\ result[j].length \in Nat /\ result[j].offset \in Nat
    <2>1. at[j] \in Nat /\ result[j] \in Piece
        BY <1>1, ElementOfSeq
    <2> QED
        BY <2>1 DEF Piece
<1>4. ASSUME NEW k \in 1..Len(range)
      PROVE  /\ range[k][1] \in Nat /\ range[k][2] \in Nat
             /\ data[k].offset \in Nat /\ data[k].length \in Nat
             /\ range[k][2] = range[k][1] + data[k].length
    <2>1. k \in 1..Len(data)
        BY <1>1, <1>2
    <2>2. range[k] \in Nat \X Nat /\ data[k] \in Chunk
        BY <1>1, <2>1, ElementOfSeq
    <2>3. range[k][2] = range[k][1] + data[k].length
        BY DEF IInv, RangeInv
    <2> QED
        BY <2>2, <2>3, ChunkType
<1> QED
    BY <1>1, <1>2, <1>3, <1>4

(* A piece of n bytes that begins at byte a, in an extent of l bytes at o   *)
(* that begins at byte r: its part of the file and its place on disk.       *)
LEMMA PlaceArith ==
    ASSUME NEW o \in Nat, NEW r \in Nat, NEW l \in Nat, NEW a \in Nat, NEW n \in Nat,
           NEW b \in Nat, r <= a, a + n <= r + l
    PROVE  /\ a <= b /\ b < a + n
                => /\ r <= b /\ b < r + l
                   /\ o + (a - r) <= o + (b - r) /\ o + (b - r) < (o + (a - r)) + n
           /\ o + (a - r) <= o + (b - r) /\ o + (b - r) < (o + (a - r)) + n
                => a <= b /\ b < a + n
OBVIOUS

(* The place of a byte of another extent is not in it. *)
LEMMA ApartArith ==
    ASSUME NEW o \in Nat, NEW r \in Nat, NEW l \in Nat, NEW a \in Nat, NEW n \in Nat,
           NEW b \in Nat, r <= a, a + n <= r + l,
           NEW o2 \in Nat, NEW r2 \in Nat, NEW l2 \in Nat, r2 <= b, b < r2 + l2,
           o2 + l2 <= o \/ o + l <= o2
    PROVE  ~(o + (a - r) <= o2 + (b - r2) /\ o2 + (b - r2) < (o + (a - r)) + n)
OBVIOUS

(* A turn that appends the part [d, d + len) of extent i, from where the    *)
(* pieces before it end.                                                    *)
LEMMA BytesStep ==
    ASSUME IInv, BInv, Turn, NEW d \in Nat, NEW len \in Nat,
           AppendPiece(data[i].offset + d, len),
           d + len <= data[i].length,
           schk => d = 0 /\ ~echk
    PROVE  BInv'
<1> DEFINE n == Len(result) + 1
<1>1. /\ i \in 1..Len(data) /\ Len(range) = Len(data) /\ data' = data /\ range' = range
      /\ data[i] \in Chunk /\ data[i].offset \in Nat /\ data[i].length \in Nat
      /\ s \in Nat /\ e \in Nat /\ e = s + data[i].length /\ Pos = s
    BY TurnFacts
<1>2. PICK p \in Piece : p = [disk |-> data[i].disk, offset |-> data[i].offset + d, length |-> len]
    <2>1. PICK off \in Nat : off = data[i].offset + d
        BY <1>1
    <2>2. data[i].disk \in Disk
        BY <1>1 DEF Chunk
    <2>3. [disk |-> data[i].disk, offset |-> off, length |-> len] \in Piece
        BY <2>2 DEF Piece
    <2> QED
        BY <2>1, <2>3
<1>3. PICK a \in Nat : a = s + d
    BY <1>1
<1>4. result \in Seq(Piece) /\ at \in Seq(Nat) /\ Len(at) = Len(result) /\ Len(result) \in Nat
    BY DEF IInv, TypeOK, ShapeInv
<1>5. result' = Append(result, p) /\ at' = Append(at, a)
    <2>1. s + ((data[i].offset + d) - data[i].offset) = a
        BY <1>1, <1>3
    <2> QED
        BY <1>2, <2>1 DEF AppendPiece
<1>6. /\ Len(result') = n /\ result'[n] = p /\ result' # <<>>
      /\ \A j \in 1..Len(result) : result'[j] = result[j]
    BY <1>4, <1>5, Appended
<1>7. Len(at') = n /\ at'[n] = a /\ \A j \in 1..Len(result) : at'[j] = at[j]
    BY <1>4, <1>5, Appended
<1>8. p.disk = data[i].disk /\ p.offset = data[i].offset + d /\ p.length = len
    BY <1>2
<1>9. \A j \in 1..Len(result') : j \in 1..Len(result) \/ j = n
    BY <1>4, <1>6
<1>10. n \in 1..Len(result') /\ \A j \in 1..Len(result) : j \in 1..Len(result') /\ j < n
    BY <1>4, <1>6
<1>11. AnswerEnd' = a + len
    BY <1>6, <1>7, <1>8 DEF AnswerEnd
<1>12. result # <<>> => AnswerEnd = a /\ AnswerEnd = at[Len(result)] + result[Len(result)].length
    <2> SUFFICES ASSUME result # <<>> PROVE AnswerEnd = a /\ AnswerEnd = at[Len(result)] + result[Len(result)].length
        OBVIOUS
    <2>1. schk /\ ~echk /\ d = 0
        BY DEF IInv, ShapeInv
    <2>2. AnswerEnd = s
        BY <1>1, <2>1 DEF IInv, ReachInv
    <2> QED
        BY <1>1, <1>3, <1>4, <2>1, <2>2 DEF AnswerEnd
<1> HIDE DEF n
<1>13. PlaceInv'
    <2> SUFFICES ASSUME NEW j \in 1..Len(result')
                 PROVE  \E k \in 1..Len(range) : PlacedIn(j, k)'
        BY <1>1 DEF PlaceInv
    <2>1. CASE j \in 1..Len(result)
        <3>1. PICK k \in 1..Len(range) : PlacedIn(j, k)
            BY <2>1 DEF BInv, PlaceInv
        <3>2. result'[j] = result[j] /\ at'[j] = at[j]
            BY <1>6, <1>7, <2>1
        <3>3. PlacedIn(j, k)'
            BY <1>1, <3>1, <3>2 DEF PlacedIn
        <3> QED
            BY <3>3
    <2>2. CASE j = n
        <3>1. PICK k \in 1..Len(range) : k = i
            BY <1>1
        <3>2. range[k][1] = s /\ range[k][2] = e
            BY <3>1 DEF s, e
        <3>3. s <= a /\ a + len <= e /\ data[k].offset + d = data[k].offset + (a - s)
            <4>1. PICK L \in Nat : L = data[i].length
                BY <1>1
            <4>2. s <= s + d /\ (s + d) + len <= s + L
                BY <1>1, <4>1
            <4>3. (s + d) - s = d
                BY <1>1
            <4> QED
                BY <1>1, <1>3, <3>1, <4>1, <4>2, <4>3
        <3>4. result'[j] = p /\ at'[j] = a
            BY <1>6, <1>7, <2>2
        <3>5. PlacedIn(j, k)'
            BY <1>1, <1>8, <3>1, <3>2, <3>3, <3>4 DEF PlacedIn
        <3> QED
            BY <3>5
    <2> QED
        BY <1>9, <2>1, <2>2
<1>14. OrderInv'
    <2> SUFFICES ASSUME NEW j \in 1..Len(result'), NEW m \in 1..Len(result'), j < m
                 PROVE  at'[j] + result'[j].length <= at'[m]
        BY DEF OrderInv
    <2>1. j \in 1..Len(result)
        BY <1>4, <1>6 DEF n
    <2>2. result'[j] = result[j] /\ at'[j] = at[j]
        BY <1>6, <1>7, <2>1
    <2>3. CASE m \in 1..Len(result)
        BY <1>7, <2>1, <2>2, <2>3 DEF BInv, OrderInv
    <2>4. CASE m = n
        <3>1. result # <<>> /\ Len(result) \in 1..Len(result)
            BY <1>4, <2>1
        <3>2. a = at[Len(result)] + result[Len(result)].length
            BY <1>12, <3>1
        <3>3. /\ at[j] \in Nat /\ result[j].length \in Nat
              /\ at[Len(result)] \in Nat /\ result[Len(result)].length \in Nat
            BY <2>1, <3>1, PieceNumbers
        <3>4. at[j] + result[j].length <= a
            <4>1. CASE j = Len(result)
                BY <1>3, <3>2, <4>1
            <4>2. CASE j # Len(result)
                <5>1. j < Len(result)
                    BY <1>4, <2>1, <4>2
                <5>2. at[j] + result[j].length <= at[Len(result)]
                    BY <2>1, <3>1, <5>1 DEF BInv, OrderInv
                <5>3. PICK x \in Nat : x = at[j] + result[j].length
                    BY <3>3
                <5>4. PICK y \in Nat : y = at[Len(result)]
                    BY <3>3
                <5>5. PICK l \in Nat : l = result[Len(result)].length
                    BY <3>3
                <5>6. x <= y
                    BY <5>2, <5>3, <5>4
                <5>7. x <= y + l
                    BY <5>6
                <5> QED
                    BY <3>2, <5>3, <5>4, <5>5, <5>7
            <4> QED
                BY <4>1, <4>2
        <3> QED
            BY <1>7, <2>2, <2>4, <3>4
    <2> QED
        BY <1>9, <2>3, <2>4
<1>15. CoverInv'
    <2> SUFFICES ASSUME NEW b \in Nat, at'[1] <= b, b < a + len
                 PROVE  \E j \in 1..Len(result') : Has(j, b)'
        BY <1>11 DEF CoverInv
    <2>1. CASE result = <<>>
        <3>1. n = 1
            BY <2>1 DEF n
        <3>2. \A j : j = n => Has(j, b)'
            BY <1>6, <1>7, <1>8, <3>1 DEF Has
        <3> QED
            BY <1>10, <3>2
    <2>2. CASE result # <<>>
        <3>1. at'[1] = at[1] /\ AnswerEnd = a
            <4>1. 1 \in 1..Len(result)
                BY <1>4, <2>2
            <4> QED
                BY <1>7, <1>12, <2>2, <4>1
        <3>2. CASE b < a
            <4>1. PICK j \in 1..Len(result) : Has(j, b)
                BY <2>2, <3>1, <3>2 DEF BInv, CoverInv
            <4>2. Has(j, b)'
                BY <1>6, <1>7, <4>1 DEF Has
            <4> QED
                BY <1>10, <4>2
        <3>3. CASE ~(b < a)
            <4>1. \A j : j = n => Has(j, b)'
                BY <1>3, <1>6, <1>7, <1>8, <3>3 DEF Has
            <4> QED
                BY <1>10, <4>1
        <3> QED
            BY <3>2, <3>3
    <2> QED
        BY <2>1, <2>2
<1>16. Disjoint(data)'
    BY <1>1 DEF BInv, Disjoint
<1> QED
    BY <1>13, <1>14, <1>15, <1>16 DEF BInv

LEMMA BytesNext == IInv /\ BInv /\ [Next]_vars => BInv'
<1> SUFFICES ASSUME IInv, BInv, [Next]_vars PROVE BInv'
    OBVIOUS
<1>1. /\ start \in Nat /\ end \in Nat /\ start <= end
    BY DEF IInv, TypeOK, ShapeInv
<1>2. CASE UNCHANGED <<data, range, result, at>>
    BY <1>2 DEF BInv, Disjoint, PlaceInv, PlacedIn, OrderInv, CoverInv, Has, AnswerEnd
<1>3. CASE SetRange
    <2>1. result = <<>> /\ result' = result /\ data' = data /\ Len(range) < Len(data)
        BY <1>3 DEF SetRange, IInv, ShapeInv, StartInv, TypeOK
    <2>2. ~(\E j \in 1..Len(result) : TRUE)
        BY <2>1
    <2> QED
        BY <2>1, <2>2 DEF BInv, Disjoint, PlaceInv, OrderInv, CoverInv
<1>4. CASE SkipExtent \/ PassExtent
    BY <1>2, <1>4 DEF SkipExtent, PassExtent, Turn
<1>5. CASE FirstPiece
    <2>1. Turn /\ ~schk /\ s <= start /\ start < e
        BY <1>5 DEF FirstPiece
    <2>2. s \in Nat /\ e \in Nat /\ e = s + data[i].length /\ data[i].length \in Nat
        BY <2>1, TurnFacts
    <2>3. PICK d \in Nat : d = start - s
        BY <1>1, <2>1, <2>2
    <2>4. CASE end < e
        <3>1. PICK len \in Nat : len = end - start
            BY <1>1
        <3>2. ~(end >= e)
            BY <1>1, <2>2, <2>4
        <3>3. AppendPiece(data[i].offset + d, len)
            BY <1>5, <2>3, <3>1, <3>2 DEF FirstPiece
        <3>4. d + len <= data[i].length
            BY <1>1, <2>2, <2>3, <2>4, <3>1
        <3> QED
            BY <2>1, <3>3, <3>4, BytesStep
    <2>5. CASE ~(end < e)
        <3>1. PICK len \in Nat : len = e - start
            BY <1>1, <2>1, <2>2
        <3>2. AppendPiece(data[i].offset + d, len)
            BY <1>5, <2>3, <2>5, <3>1 DEF FirstPiece
        <3>3. d + len <= data[i].length
            BY <1>1, <2>1, <2>2, <2>3, <3>1
        <3> QED
            BY <2>1, <3>2, <3>3, BytesStep
    <2> QED
        BY <2>4, <2>5
<1>6. CASE NextPiece
    <2>1. Turn /\ schk /\ ~echk
        BY <1>6 DEF NextPiece
    <2>2. /\ s \in Nat /\ e \in Nat /\ e = s + data[i].length
          /\ data[i].length \in Nat /\ data[i].offset \in Nat /\ Pos = s
        BY <2>1, TurnFacts
    <2>3. s <= end /\ s <= e
        BY <2>1, <2>2 DEF IInv, ReachInv
    <2>4. data[i].offset + 0 = data[i].offset /\ 0 \in Nat
        BY <2>2
    <2>5. CASE end < e
        <3>1. PICK len \in Nat : len = end - s
            BY <1>1, <2>2, <2>3
        <3>2. AppendPiece(data[i].offset + 0, len)
            BY <1>6, <2>3, <2>4, <2>5, <3>1 DEF NextPiece
        <3>3. 0 + len <= data[i].length
            BY <1>1, <2>2, <2>5, <3>1
        <3> QED
            BY <2>1, <3>2, <3>3, BytesStep
    <2>6. CASE ~(end < e)
        <3>1. AppendPiece(data[i].offset + 0, data[i].length)
            BY <1>6, <2>4, <2>6 DEF NextPiece
        <3>2. 0 + data[i].length <= data[i].length
            BY <2>2
        <3> QED
            BY <2>1, <2>2, <3>1, <3>2, BytesStep
    <2> QED
        BY <2>5, <2>6
<1> QED
    BY <1>2, <1>3, <1>4, <1>5, <1>6 DEF Next, vars

(* A piece holds the place of byte b exactly if it holds the byte. *)
LEMMA HoldingIsHaving ==
    ASSUME IInv, BInv, NEW b \in Nat, NEW j \in 1..Len(result)
    PROVE  j \in Holding(b) <=> Has(j, b)
<1>1. PICK k \in 1..Len(range) : PlacedIn(j, k)
    BY DEF BInv, PlaceInv
<1>2. /\ at[j] \in Nat /\ result[j].length \in Nat /\ result[j].offset \in Nat
      /\ range[k][1] \in Nat /\ range[k][2] \in Nat /\ data[k].offset \in Nat
      /\ data[k].length \in Nat /\ range[k][2] = range[k][1] + data[k].length
    BY PieceNumbers
<1>3. PICK a \in Nat, n \in Nat, o \in Nat, r \in Nat, l \in Nat :
        /\ a = at[j] /\ n = result[j].length
        /\ o = data[k].offset /\ r = range[k][1] /\ l = data[k].length
    BY <1>2
<1>4. r <= a /\ a + n <= r + l /\ result[j].offset = o + (a - r) /\ range[k][2] = r + l
    BY <1>1, <1>2, <1>3 DEF PlacedIn
<1>5. Has(j, b) <=> a <= b /\ b < a + n
    BY <1>3 DEF Has
<1>6. ASSUME Has(j, b) PROVE j \in Holding(b)
    <2>1. /\ r <= b /\ b < r + l
          /\ o + (a - r) <= o + (b - r) /\ o + (b - r) < (o + (a - r)) + n
        BY <1>4, <1>5, <1>6, PlaceArith
    <2>2. /\ range[k][1] <= b /\ b < range[k][2]
          /\ result[j].offset <= data[k].offset + (b - range[k][1])
          /\ data[k].offset + (b - range[k][1]) < result[j].offset + result[j].length
        BY <1>3, <1>4, <2>1
    <2>3. result[j].disk = data[k].disk
        BY <1>1 DEF PlacedIn
    <2> QED
        BY <2>2, <2>3 DEF Holding
<1>7. ASSUME j \in Holding(b) PROVE Has(j, b)
    <2>1. PICK h \in 1..Len(range) :
            /\ range[h][1] <= b /\ b < range[h][2]
            /\ result[j].disk = data[h].disk
            /\ result[j].offset <= data[h].offset + (b - range[h][1])
            /\ data[h].offset + (b - range[h][1]) < result[j].offset + result[j].length
        BY <1>7 DEF Holding
    <2>2. h = k
        <3> SUFFICES ASSUME h # k PROVE FALSE
            OBVIOUS
        <3>1. h \in 1..Len(data) /\ k \in 1..Len(data)
            BY PieceNumbers
        <3>2. data[h].disk = data[k].disk
            BY <1>1, <2>1 DEF PlacedIn
        <3>3. \/ data[h].offset + data[h].length <= data[k].offset
              \/ data[k].offset + data[k].length <= data[h].offset
            BY <3>1, <3>2 DEF BInv, Disjoint
        <3>4. /\ range[h][1] \in Nat /\ range[h][2] \in Nat /\ data[h].offset \in Nat
              /\ data[h].length \in Nat /\ range[h][2] = range[h][1] + data[h].length
            BY PieceNumbers
        <3>5. PICK o2 \in Nat, r2 \in Nat, l2 \in Nat :
                o2 = data[h].offset /\ r2 = range[h][1] /\ l2 = data[h].length
            BY <3>4
        <3>6. o2 + l2 <= o \/ o + l <= o2
            BY <1>3, <3>3, <3>5
        <3>7. r2 <= b /\ b < r2 + l2
            BY <2>1, <3>4, <3>5
        <3>8. o + (a - r) <= o2 + (b - r2) /\ o2 + (b - r2) < (o + (a - r)) + n
            BY <1>3, <1>4, <2>1, <3>5
        <3> QED
            BY <1>4, <3>6, <3>7, <3>8, ApartArith
    <2>3. o + (a - r) <= o + (b - r) /\ o + (b - r) < (o + (a - r)) + n
        BY <1>3, <1>4, <2>1, <2>2
    <2> QED
        BY <1>4, <1>5, <2>3, PlaceArith
<1> QED
    BY <1>6, <1>7

(* For every file whose extents share no space on disk, and every request,  *)
(* the answer of LB2PBA holds the place of each byte asked for once, and of *)
(* no other byte of the file.                                               *)
THEOREM BytesCorrect == Spec => []BytesExact
<1>1. IInv /\ BInv /\ AnswerExact => BytesExact
    <2> SUFFICES ASSUME IInv, BInv, AnswerExact, Returned, NEW b \in 0..FileSize - 1
                 PROVE  IF start <= b /\ b < end
                        THEN \E j \in 1..Len(result) : Holding(b) = {j}
                        ELSE Holding(b) = {}
        BY DEF BytesExact
    <2>1. /\ start \in Nat /\ end \in Nat /\ ran \in Nat /\ b \in Nat /\ b < ran
          /\ FileSize = ran
        BY DEF IInv, TypeOK, FileSize
    <2>2. Holding(b) \subseteq 1..Len(result)
        BY DEF Holding
    <2>3. CASE start >= ran
        <3>1. result = <<>>
            BY <2>1, <2>3 DEF AnswerExact
        <3>2. Holding(b) = {} /\ ~(start <= b /\ b < end)
            BY <2>1, <2>2, <2>3, <3>1
        <3> QED
            BY <3>2
    <2>4. CASE ~(start >= ran)
        <3>1. result # <<>> /\ at[1] = start /\ AnswerEnd = Min2(end, ran)
            BY <2>1, <2>4 DEF AnswerExact
        <3>2. /\ Len(result) \in Nat /\ 1 \in 1..Len(result) /\ Len(result) \in 1..Len(result)
              /\ AnswerEnd = at[Len(result)] + result[Len(result)].length
              /\ \A j \in 1..Len(result) : at[j] \in Nat /\ result[j].length \in Nat
            BY <3>1, PieceNumbers DEF IInv, TypeOK, AnswerEnd
        <3>3. CASE start <= b /\ b < end
            <4>1. b < AnswerEnd
                BY <2>1, <3>1, <3>3 DEF Min2
            <4>2. PICK j \in 1..Len(result) : Has(j, b)
                BY <2>1, <3>1, <3>3, <4>1 DEF BInv, CoverInv
            <4>3. ASSUME NEW m \in Holding(b) PROVE m = j
                <5>1. m \in 1..Len(result) /\ Has(m, b)
                    BY <2>1, <2>2, HoldingIsHaving
                <5>2. ~(m < j)
                    BY <2>1, <3>2, <4>2, <5>1 DEF BInv, OrderInv, Has
                <5>3. ~(j < m)
                    BY <2>1, <3>2, <4>2, <5>1 DEF BInv, OrderInv, Has
                <5> QED
                    BY <3>2, <5>1, <5>2, <5>3
            <4>4. j \in Holding(b)
                BY <2>1, <4>2, HoldingIsHaving
            <4>5. Holding(b) = {j}
                BY <4>3, <4>4
            <4> QED
                BY <3>3, <4>5
        <3>4. CASE ~(start <= b /\ b < end)
            <4>1. ASSUME NEW j \in 1..Len(result), Has(j, b) PROVE FALSE
                <5>1. at[1] <= at[j]
                    <6>1. CASE j = 1
                        BY <3>2, <6>1
                    <6>2. CASE j # 1
                        <7>1. 1 < j
                            BY <3>2, <6>2
                        <7>2. at[1] + result[1].length <= at[j]
                            BY <3>2, <7>1 DEF BInv, OrderInv
                        <7> QED
                            BY <3>2, <7>2
                    <6> QED
                        BY <6>1, <6>2
                <5>2. at[j] + result[j].length <= AnswerEnd
                    <6>1. CASE j = Len(result)
                        BY <3>2, <6>1
                    <6>2. CASE j # Len(result)
                        <7>1. j < Len(result)
                            BY <3>2, <6>2
                        <7>2. at[j] + result[j].length <= at[Len(result)]
                            BY <3>2, <7>1 DEF BInv, OrderInv
                        <7>3. PICK x \in Nat : x = at[j] + result[j].length
                            BY <3>2
                        <7>4. PICK y \in Nat : y = at[Len(result)]
                            BY <3>2
                        <7>5. PICK l \in Nat : l = result[Len(result)].length
                            BY <3>2
                        <7>6. x <= y
                            BY <7>2, <7>3, <7>4
                        <7>7. x <= y + l
                            BY <7>6
                        <7> QED
                            BY <3>2, <7>3, <7>4, <7>5, <7>7
                    <6> QED
                        BY <6>1, <6>2
                <5>3. AnswerEnd <= end
                    BY <2>1, <3>1 DEF Min2
                <5> QED
                    BY <2>1, <3>1, <3>2, <3>4, <4>1, <5>1, <5>2, <5>3 DEF Has
            <4>2. Holding(b) = {}
                BY <2>1, <2>2, <4>1, HoldingIsHaving
            <4> QED
                BY <3>4, <4>2
        <3> QED
            BY <3>3, <3>4
    <2> QED
        BY <2>3, <2>4
<1>2. Spec => []BInv
    BY BytesInit, BytesNext, InvCorrect, PTL DEF Spec
<1> QED
    BY <1>1, <1>2, InvCorrect, ExactCorrect, PTL
=============================================================================
