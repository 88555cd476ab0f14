------------------------- MODULE AgentLookupProofs -------------------------
(***************************************************************************)
(* What the file agent's translation gives for every list of extents and   *)
(* every request.  The loop invariant IInv says what start_chk, end_chk    *)
(* and left_len stand for: while the request goes on, the last piece ends  *)
(* where extent i begins and left_len is at least what is still missing.   *)
(***************************************************************************)
EXTENDS AgentLookup, SequenceTheorems, TLAPS

ShapeInv ==
    /\ Len(at) = Len(result)
    /\ Len(begins) = i - 1
    /\ start_chk <=> result # <<>>
    /\ end_chk => start_chk
    /\ ~start_chk => left_len = length

(* A request that begins in the first extent gets its first piece there. *)
FirstInv ==
    InFirstExtent => /\ ~start_chk => i = 1 /\ base = 0
                     /\ start_chk => at[1] = start_offset

ReachInv ==
    /\ start_chk /\ ~end_chk => AnswerEnd = base
    /\ InFirstExtent /\ start_chk /\ ~end_chk => left_len + base >= start_offset + length
    /\ InFirstExtent /\ end_chk => AnswerEnd >= start_offset + length

IInv == TypeOK /\ ShapeInv /\ PiecesInExtents /\ FirstInv /\ Consecutive /\ ReachInv

-----------------------------------------------------------------------------
(* Appending to a sequence. *)
LEMMA Appended ==
    ASSUME NEW S, NEW s \in Seq(S), NEW x \in S
    PROVE  /\ Append(s, x) \in Seq(S)
           /\ Len(s) \in Nat /\ Len(Append(s, x)) = Len(s) + 1
           /\ Append(s, x)[Len(s) + 1] = x
           /\ \A j \in 1..Len(s) : Append(s, x)[j] = s[j]
           /\ Append(s, x) # <<>>
OBVIOUS

LEMMA InvInit == Init => IInv
<1> SUFFICES ASSUME Init PROVE IInv
    OBVIOUS
<1>1. pbaList \in Seq(Pba)
    <2>1. PICK k \in 0..MaxExtents : pbaList \in [1..k -> Pba]
        BY DEF Init
    <2>2. k \in Nat
        BY ConstantsAssumption
    <2> QED
        BY <2>1, <2>2
<1>2. TypeOK
    <2>1. start_offset \in Nat /\ length \in Nat
        BY ConstantsAssumption DEF Init
    <2>2. Len(pbaList) \in Nat /\ 1 \in 1..(Len(pbaList) + 1)
        BY <1>1
    <2>3. result \in Seq(Piece) /\ at \in Seq(Nat) /\ base \in Nat /\ begins \in Seq(Nat)
        BY DEF Init
    <2> QED
        BY <1>1, <2>1, <2>2, <2>3 DEF Init, TypeOK
<1>3. /\ Len(at) = 0 /\ Len(result) = 0 /\ Len(begins) = 0 /\ result = <<>> /\ base = 0 /\ i = 1
      /\ start_chk = FALSE /\ end_chk = FALSE /\ left_len = length
    BY DEF Init
<1>4. ShapeInv /\ FirstInv /\ ReachInv
    BY <1>3 DEF ShapeInv, FirstInv, ReachInv
<1>5. PiecesInExtents /\ Consecutive
    BY <1>3 DEF PiecesInExtents, Consecutive
<1> QED
    BY <1>2, <1>4, <1>5 DEF IInv

(* The extent the loop is at. *)
LEMMA PbaType ==
    ASSUME TypeOK, i \in 1..Len(pbaList)
    PROVE  pba \in Pba /\ pba.offset \in Nat /\ pba.length \in Nat
<1>1. pba \in Pba
    BY ElementOfSeq DEF TypeOK, pba
<1>2. \A x \in Pba : x.offset \in Nat /\ x.length \in Nat
    BY ConstantsAssumption DEF Pba
<1> QED
    BY <1>1, <1>2

(* What a turn that appends the part [off, off + len) of extent i does. *)
LEMMA PieceStep ==
    ASSUME IInv, Turn, NEW off \in Nat, NEW len \in Nat, AppendPiece(off, len),
           off >= pba.offset, off + len <= pba.offset + pba.length,
           start_chk => off = pba.offset /\ ~end_chk
    PROVE  /\ result' \in Seq(Piece) /\ at' \in Seq(Nat)
           /\ Len(at') = Len(result') /\ result' # <<>>
           /\ PiecesInExtents' /\ Consecutive'
           /\ AnswerEnd' = base + (off - pba.offset) + len
           /\ ~start_chk => at'[1] = base + (off - pba.offset)
           /\ start_chk => at'[1] = at[1]
<1> DEFINE p == [disk |-> pba.disk, offset |-> off, length |-> len]
           a == base + (off - pba.offset)
<1>1. /\ pba \in Pba /\ pba.offset \in Nat /\ pba.length \in Nat /\ i \in 1..Len(pbaList)
      /\ base \in Nat
    <2>1. i \in 1..Len(pbaList) /\ TypeOK
        BY DEF IInv, Turn
    <2>2. base \in Nat
        BY <2>1 DEF TypeOK
    <2> QED
        BY <2>1, <2>2, PbaType
<1>2. p \in Piece /\ a \in Nat
    BY <1>1 DEF Piece, Pba
<1>3. result \in Seq(Piece) /\ at \in Seq(Nat) /\ Len(at) = Len(result)
    BY DEF IInv, TypeOK, ShapeInv
<1>4. result' = Append(result, p) /\ at' = Append(at, a)
    BY DEF AppendPiece
<1> HIDE DEF a
<1>5. /\ result' \in Seq(Piece) /\ Len(result) \in Nat /\ Len(result') = Len(result) + 1
      /\ result'[Len(result) + 1] = p /\ result' # <<>>
      /\ \A j \in 1..Len(result) : result'[j] = result[j]
    BY <1>2, <1>3, <1>4, Appended
<1>6. /\ at' \in Seq(Nat) /\ Len(at') = Len(at) + 1
      /\ at'[Len(at) + 1] = a /\ \A j \in 1..Len(at) : at'[j] = at[j]
    BY <1>2, <1>3, <1>4, Appended
<1>7. PiecesInExtents'
    <2> SUFFICES ASSUME NEW j \in 1..Len(result')
                 PROVE  \E k \in 1..Len(pbaList) :
                          /\ result'[j].disk = pbaList[k].disk
                          /\ pbaList[k].offset <= result'[j].offset
                          /\ result'[j].offset + result'[j].length
                               <= pbaList[k].offset + pbaList[k].length
        BY DEF PiecesInExtents, Turn, input
    <2>1. CASE j \in 1..Len(result)
        BY <1>5, <2>1 DEF IInv, PiecesInExtents
    <2>2. CASE j = Len(result) + 1
        <3>1. result'[j] = p /\ pbaList[i] = pba
            BY <1>5, <2>2 DEF pba
        <3>2. p.disk = pba.disk /\ p.offset = off /\ p.length = len
            OBVIOUS
        <3> QED
            BY <1>1, <3>1, <3>2
    <2> QED
        BY <1>5, <2>1, <2>2
<1>8. result # <<>> => Len(result) >= 1 /\ Len(result) \in 1..Len(result)
    BY <1>3
<1>9. Consecutive'
    <2> SUFFICES ASSUME NEW j \in 1..Len(at') - 1
                 PROVE  at'[j + 1] = at'[j] + result'[j].length
        BY DEF Consecutive
    <2>1. j \in 1..Len(result) /\ result'[j] = result[j] /\ at'[j] = at[j]
        <3>1. Len(at') - 1 = Len(result)
            BY <1>3, <1>5, <1>6
        <3>2. j \in 1..Len(result)
            BY <3>1
        <3> QED
            BY <1>3, <1>5, <1>6, <3>2
    <2>2. CASE j = Len(result)
        <3>1. start_chk
            BY <1>3, <2>1 DEF IInv, ShapeInv
        <3>2. a = base
            BY <1>1, <3>1 DEF a
        <3>3. at[j] + result[j].length = base
            BY <1>3, <2>2, <3>1 DEF IInv, ReachInv, AnswerEnd
        <3> QED
            BY <1>3, <1>6, <2>1, <2>2, <3>2, <3>3
    <2>3. CASE j < Len(result)
        <3>1. j \in 1..Len(at) - 1 /\ j + 1 \in 1..Len(at)
            BY <1>3, <1>5, <2>1, <2>3
        <3>2. at[j + 1] = at[j] + result[j].length
            BY <3>1 DEF IInv, Consecutive
        <3> QED
            BY <1>6, <2>1, <3>1, <3>2
    <2> QED
        BY <1>5, <2>1, <2>2, <2>3
<1>10. AnswerEnd' = a + len
    BY <1>3, <1>5, <1>6 DEF AnswerEnd
<1>11. /\ ~start_chk => at'[1] = a
       /\ start_chk => at'[1] = at[1]
    BY <1>3, <1>5, <1>6, <1>8 DEF IInv, ShapeInv
<1> QED
    BY <1>3, <1>5, <1>6, <1>7, <1>9, <1>10, <1>11 DEF a

LEMMA InvNext == IInv /\ [Next]_vars => IInv'
<1> SUFFICES ASSUME IInv, [Next]_vars PROVE IInv'
    OBVIOUS
<1>1. ASSUME Turn
      PROVE  /\ pba.offset \in Nat /\ pba.length \in Nat /\ i \in 1..Len(pbaList)
             /\ i' \in 1..(Len(pbaList') + 1) /\ base' \in Nat /\ base' = base + pba.length
             /\ begins' \in Seq(Nat) /\ Len(begins') = i' - 1
             /\ pbaList' \in Seq(Pba) /\ start_offset' \in Nat /\ length' \in Nat
             /\ (InFirstExtent' <=> InFirstExtent)
             /\ (InFirstExtent /\ i = 1 => start_offset <= pba.length)
    <2>1. i \in 1..Len(pbaList) /\ TypeOK /\ pbaList \in Seq(Pba) /\ Len(pbaList) \in Nat
        BY <1>1 DEF IInv, TypeOK, Turn
    <2>2. pba.offset \in Nat /\ pba.length \in Nat
        BY <2>1, PbaType
    <2>3. /\ i' = i + 1 /\ base' = base + pba.length
          /\ pbaList' = pbaList /\ start_offset' = start_offset /\ length' = length
        BY <1>1 DEF Turn, input
    <2>4. base' \in Nat /\ i' \in 1..(Len(pbaList') + 1) /\ start_offset' \in Nat /\ length' \in Nat
        BY <2>1, <2>2, <2>3 DEF TypeOK
    <2>5. (InFirstExtent' <=> InFirstExtent)
        BY <2>3 DEF InFirstExtent
    <2>6. InFirstExtent /\ i = 1 => start_offset <= pba.length
        BY DEF InFirstExtent, pba
    <2>7. begins' \in Seq(Nat) /\ Len(begins') = i' - 1
        <3>1. begins \in Seq(Nat) /\ base \in Nat /\ Len(begins) = i - 1 /\ begins' = Append(begins, base)
            BY <1>1 DEF IInv, TypeOK, ShapeInv, Turn
        <3>2. begins' \in Seq(Nat) /\ Len(begins') = Len(begins) + 1
            BY <3>1, Appended
        <3> QED
            BY <2>1, <2>3, <3>1, <3>2
    <2> QED
        BY <2>1, <2>2, <2>3, <2>4, <2>5, <2>6, <2>7
<1>2. /\ start_offset \in Nat /\ length \in Nat /\ left_len \in Nat /\ base \in Nat
      /\ start_chk \in BOOLEAN /\ end_chk \in BOOLEAN
    BY DEF IInv, TypeOK
<1>3. CASE SkipExtent
    <2>1. ~InFirstExtent
        BY <1>1, <1>2, <1>3 DEF SkipExtent, IInv, FirstInv
    <2>2. UNCHANGED <<left_len, start_chk, end_chk, result, at, pbaList, start_offset, length>> /\ Turn /\ ~start_chk
        BY <1>3 DEF SkipExtent, Turn, input
    <2> QED
        BY <1>1, <2>1, <2>2
           DEF IInv, TypeOK, ShapeInv, PiecesInExtents, FirstInv, Consecutive, ReachInv, AnswerEnd
<1>4. CASE FirstPiece
    <2> USE <1>2
    <2>0. pba.offset \in Nat /\ pba.length \in Nat
        BY <1>1, <1>4 DEF FirstPiece
    <2>1. PICK len \in Nat :
             /\ AppendPiece(pba.offset + start_offset, len)
             /\ start_offset + len <= pba.length
             /\ left_len' \in Nat /\ end_chk' \in BOOLEAN
             /\ end_chk' => len = left_len
             /\ ~end_chk' => start_offset + len = pba.length /\ left_len' + len = left_len
        <3>1. CASE start_offset + left_len <= pba.length
            <4>1. ~(start_offset + left_len > pba.length)
                BY <2>0, <3>1
            <4>2. /\ AppendPiece(pba.offset + start_offset, left_len)
                  /\ end_chk' = TRUE /\ left_len' = left_len
                BY <1>4, <4>1 DEF FirstPiece
            <4> QED
                BY <3>1, <4>2
        <3>2. CASE start_offset + left_len > pba.length
            <4>1. PICK len \in Nat : len = pba.length - start_offset
                BY <1>4, <2>0 DEF FirstPiece
            <4>2. AppendPiece(pba.offset + start_offset, len) /\ left_len' = left_len - len
                BY <1>4, <2>0, <3>2, <4>1 DEF FirstPiece
            <4>3. ~end_chk' /\ end_chk' \in BOOLEAN
                BY <1>4, <2>0, <3>2 DEF FirstPiece, IInv, ShapeInv
            <4>4. start_offset + len = pba.length /\ left_len' + len = left_len /\ left_len' \in Nat
                BY <2>0, <3>2, <4>1, <4>2
            <4> QED
                BY <2>0, <4>2, <4>3, <4>4
        <3> QED
            BY <2>0, <3>1, <3>2
    <2>2. Turn /\ ~start_chk /\ ~end_chk /\ start_chk' = TRUE /\ left_len = length
        BY <1>4 DEF FirstPiece, IInv, ShapeInv
    <2>3. /\ result' \in Seq(Piece) /\ at' \in Seq(Nat)
          /\ Len(at') = Len(result') /\ result' # <<>>
          /\ PiecesInExtents' /\ Consecutive'
          /\ AnswerEnd' = base + start_offset + len
          /\ at'[1] = base + start_offset
        <3>1. PICK off \in Nat : off = pba.offset + start_offset
            BY <1>1, <1>2, <2>2
        <3>2. /\ off >= pba.offset /\ off + len <= pba.offset + pba.length
              /\ off - pba.offset = start_offset
            BY <2>0, <2>1, <3>1
        <3>3. AppendPiece(off, len)
            BY <2>1, <3>1
        <3> QED
            BY <2>2, <3>2, <3>3, PieceStep
    <2>4. InFirstExtent => base = 0
        BY <2>2 DEF IInv, FirstInv
    <2>5. TypeOK' /\ ShapeInv'
        BY <1>1, <2>1, <2>2, <2>3 DEF TypeOK, ShapeInv
    <2>6. length' = length /\ start_offset' = start_offset
        BY <2>2 DEF Turn, input
    <2>7. FirstInv'
        BY <1>1, <1>2, <2>2, <2>3, <2>4, <2>6 DEF FirstInv
    <2>8. ReachInv'
        <3>1. base' = base + pba.length
            BY <1>1, <2>2
        <3>2. CASE end_chk'
            BY <1>1, <2>1, <2>2, <2>3, <2>4, <2>6, <3>2 DEF ReachInv
        <3>3. CASE ~end_chk'
            <4>1. AnswerEnd' = base'
                BY <2>0, <2>1, <2>3, <3>1, <3>3
            <4>2. InFirstExtent => left_len' + base' = start_offset + length
                <5>1. /\ start_offset + len = pba.length /\ left_len' + len = left_len
                      /\ left_len' \in Nat /\ left_len = length
                    BY <2>1, <2>2, <3>3
                <5>2. SUFFICES ASSUME base = 0
                               PROVE  left_len' + base' = start_offset + length
                    BY <2>4
                <5>3. base' = start_offset + len
                    BY <2>0, <3>1, <5>1, <5>2
                <5>4. \A x, y, z \in Nat : x + (y + z) = y + (x + z)
                    OBVIOUS
                <5>5. left_len' + len = length
                    BY <5>1
                <5> QED
                    BY <5>1, <5>3, <5>4, <5>5
            <4>3. left_len' + base' \in Nat
                BY <2>0, <2>1, <3>1
            <4> QED
                BY <1>1, <2>2, <2>6, <3>3, <4>1, <4>2, <4>3 DEF ReachInv
        <3> QED
            BY <3>2, <3>3
    <2> QED
        BY <2>3, <2>5, <2>7, <2>8 DEF IInv
<1>5. CASE NextPiece
    <2>1. PICK len \in Nat :
             /\ AppendPiece(pba.offset, len)
             /\ len <= pba.length
             /\ \/ len = left_len /\ end_chk' = TRUE
                \/ len = pba.length /\ end_chk' = end_chk
        BY <1>1, <1>2, <1>5 DEF NextPiece
    <2>2. Turn /\ start_chk /\ ~end_chk /\ start_chk' = start_chk /\ left_len' = left_len
        BY <1>5 DEF NextPiece
    <2>3. /\ result' \in Seq(Piece) /\ at' \in Seq(Nat)
          /\ Len(at') = Len(result') /\ result' # <<>>
          /\ PiecesInExtents' /\ Consecutive'
          /\ AnswerEnd' = base + len
          /\ at'[1] = at[1]
        <3>1. PICK off \in Nat : off = pba.offset
            BY <1>1, <2>2
        <3>2. /\ off >= pba.offset /\ off + len <= pba.offset + pba.length
              /\ base + (off - pba.offset) = base
            <4>1. pba.offset \in Nat /\ pba.length \in Nat /\ base \in Nat /\ len <= pba.length
                BY <1>1, <1>2, <2>1, <2>2
            <4> QED
                BY <3>1, <4>1
        <3>3. AppendPiece(off, len)
            BY <2>1, <3>1
        <3> QED
            BY <2>2, <3>1, <3>2, <3>3, PieceStep
    <2>4. TypeOK' /\ ShapeInv'
        BY <1>1, <1>2, <2>1, <2>2, <2>3 DEF TypeOK, ShapeInv
    <2>5. length' = length /\ start_offset' = start_offset
        BY <2>2 DEF Turn, input
    <2>6. FirstInv'
        BY <1>1, <1>2, <2>2, <2>3, <2>5 DEF IInv, FirstInv
    <2>7. ReachInv'
        <3>1. /\ left_len \in Nat /\ base \in Nat /\ base' \in Nat /\ pba.length \in Nat
              /\ start_offset \in Nat /\ length \in Nat /\ base' = base + pba.length
              /\ InFirstExtent' => InFirstExtent
            BY <1>1, <1>2, <2>2
        <3>2. InFirstExtent => left_len + base >= start_offset + length
            BY <2>2 DEF IInv, ReachInv
        <3>3. CASE len = left_len /\ end_chk'
            <4>1. AnswerEnd' = left_len + base
                BY <2>3, <3>1, <3>3
            <4> QED
                BY <2>2, <2>5, <3>1, <3>2, <3>3, <4>1 DEF ReachInv
        <3>4. CASE len = pba.length /\ ~end_chk'
            <4>1. AnswerEnd' = base'
                BY <2>3, <3>1, <3>4
            <4>2. left_len + base' >= left_len + base
                BY <3>1
            <4>3. InFirstExtent => left_len + base' >= start_offset + length
                <5>1. \A x, y, z \in Nat : x >= y /\ y >= z => x >= z
                    OBVIOUS
                <5>2. /\ left_len + base' \in Nat /\ left_len + base \in Nat
                      /\ start_offset + length \in Nat
                    BY <3>1
                <5> QED
                    BY <3>2, <4>2, <5>1, <5>2
            <4> QED
                BY <2>2, <2>5, <3>1, <3>4, <4>1, <4>3 DEF ReachInv
        <3> QED
            BY <2>1, <2>2, <3>3, <3>4
    <2> QED
        BY <2>3, <2>4, <2>6, <2>7 DEF IInv
<1>6. CASE PassExtent
    <2>1. UNCHANGED <<left_len, start_chk, end_chk, result, at, pbaList, start_offset, length>> /\ Turn /\ start_chk /\ end_chk
        BY <1>6 DEF PassExtent, Turn, input
    <2> QED
        BY <1>1, <2>1
           DEF IInv, TypeOK, ShapeInv, PiecesInExtents, FirstInv, Consecutive, ReachInv, AnswerEnd
<1>7. CASE UNCHANGED vars
    BY <1>7 DEF vars, IInv, TypeOK, ShapeInv, PiecesInExtents, FirstInv, Consecutive, ReachInv,
                AnswerEnd, InFirstExtent
<1> QED
    BY <1>3, <1>4, <1>5, <1>6, <1>7 DEF Next

-----------------------------------------------------------------------------
(* The loop invariant of get holds for every list of extents and request. *)
THEOREM InvCorrect == Spec => []IInv
BY InvInit, InvNext, PTL DEF Spec

(* The lengths get computes stay natural numbers: left_len, reduced by the  *)
(* rest of the first extent, and the length of every piece.                 *)
THEOREM TypeCorrect == Spec => []TypeOK
<1>1. IInv => TypeOK
    BY DEF IInv
<1> QED
    BY <1>1, InvCorrect, PTL

(* Whatever the request, get returns no address outside the file's extents. *)
THEOREM PiecesCorrect == Spec => []PiecesInExtents
<1>1. IInv => PiecesInExtents
    BY DEF IInv
<1> QED
    BY <1>1, InvCorrect, PTL

(* For a request that begins in the first extent, get returns at least the  *)
(* bytes asked for, in order and without a gap, for any number of extents.  *)
THEOREM CoverCorrect == Spec => []AnswerCovers
<1>1. IInv => AnswerCovers
    <2> SUFFICES ASSUME IInv, Returned, InFirstExtent
                 PROVE  /\ result # <<>> /\ at[1] = start_offset /\ Consecutive
                        /\ AnswerEnd >= Min2(start_offset + length, FileSize)
        BY DEF AnswerCovers
    <2>1. pbaList # <<>> /\ pbaList \in Seq(Pba)
        BY DEF InFirstExtent, IInv, TypeOK
    <2>2. i # 1
        BY <2>1 DEF Returned
    <2>3. start_chk
        BY <2>2 DEF IInv, FirstInv
    <2>4. start_offset \in Nat /\ length \in Nat /\ base \in Nat
        BY DEF IInv, TypeOK
    <2>5. result # <<>> /\ at[1] = start_offset /\ Consecutive
        BY <2>3 DEF IInv, ShapeInv, FirstInv
    <2>6. CASE end_chk
        <3>1. AnswerEnd >= start_offset + length
            BY <2>6 DEF IInv, ReachInv
        <3>2. AnswerEnd \in Nat
            <4>1. /\ result \in Seq(Piece) /\ at \in Seq(Nat) /\ Len(at) = Len(result)
                BY DEF IInv, TypeOK, ShapeInv
            <4>2. Len(result) \in 1..Len(result)
                BY <2>5, <4>1
            <4>3. at[Len(at)] \in Nat /\ result[Len(result)] \in Piece
                BY <4>1, <4>2, ElementOfSeq
            <4> QED
                BY <4>3 DEF AnswerEnd, Piece
        <3> QED
            BY <2>4, <2>5, <3>1, <3>2 DEF Min2, FileSize
    <2>7. CASE ~end_chk
        <3>1. AnswerEnd = base
            BY <2>3, <2>7 DEF IInv, ReachInv
        <3> QED
            BY <2>4, <2>5, <3>1 DEF Min2, FileSize
    <2> QED
        BY <2>6, <2>7
<1> QED
    BY <1>1, InvCorrect, PTL

-----------------------------------------------------------------------------
(* Byte by byte.  PlaceInv says in which part of which extent a piece lies,  *)
(* OrderInv that the pieces follow one another in the file, CoverInv that   *)
(* they leave no byte out.  With extents that share no space on disk a      *)
(* piece then holds the place of a byte exactly if it holds the byte.       *)
(* EndInv is about the end of a request that ends in the second extent:     *)
(* there, and only there, left_len is what is still missing.                *)

PlacedIn(j, k) ==
    /\ result[j].disk = pbaList[k].disk
    /\ begins[k] <= at[j]
    /\ at[j] + result[j].length <= begins[k] + pbaList[k].length
    /\ result[j].offset = pbaList[k].offset + (at[j] - begins[k])

PlaceInv == \A j \in 1..Len(result) : \E k \in 1..Len(begins) : PlacedIn(j, k)

OrderInv == \A j, m \in 1..Len(result) : j < m => at[j] + result[j].length <= at[m]

Has(j, b) == at[j] <= b /\ b < at[j] + result[j].length

CoverInv ==
    result # <<>> =>
      \A b \in Nat : at[1] <= b /\ b < AnswerEnd => \E j \in 1..Len(result) : Has(j, b)

BInv == Disjoint(pbaList) /\ PlaceInv /\ OrderInv /\ CoverInv

EndInv ==
    InFirstExtent /\ EndsInSecond =>
      /\ end_chk => AnswerEnd = start_offset + length
      /\ start_chk /\ ~end_chk =>
           /\ base <= start_offset + length
           /\ \/ i = 2 /\ base = pbaList[1].length /\ left_len + base = start_offset + length
              \/ i = 3 /\ Len(pbaList) <= 2

LEMMA BytesInit == Init => BInv /\ EndInv
BY DEF Init, BInv, PlaceInv, OrderInv, CoverInv, EndInv

(* The numbers of a piece and of an extent passed. *)
LEMMA PieceNumbers ==
    ASSUME IInv
    PROVE  /\ Len(at) = Len(result) /\ Len(result) \in Nat /\ Len(begins) \in Nat
           /\ Len(pbaList) \in Nat /\ Len(begins) <= Len(pbaList)
           /\ \A j \in 1..Len(result) : at[j] \in Nat /\ result[j].length \in Nat
           /\ \A j \in 1..Len(result) : result[j].offset \in Nat
           /\ \A k \in 1..Len(begins) : /\ begins[k] \in Nat
                                        /\ pbaList[k].offset \in Nat /\ pbaList[k].length \in Nat
<1>1. /\ pbaList \in Seq(Pba) /\ begins \in Seq(Nat) /\ Len(begins) = i - 1
      /\ i \in 1..(Len(pbaList) + 1)
      /\ result \in Seq(Piece) /\ at \in Seq(Nat) /\ Len(at) = Len(result)
    BY DEF IInv, TypeOK, ShapeInv
<1>2. /\ Len(result) \in Nat /\ Len(begins) \in Nat /\ Len(pbaList) \in Nat
      /\ Len(begins) <= Len(pbaList)
    BY <1>1
<1>3. ASSUME NEW j \in 1..Len(result)
      PROVE  at[j] \in Nat /\ result[j].length \in Nat /\ result[j].offset \in Nat
    <2>1. at[j] \in Nat /\ result[j] \in Piece
        BY <1>1, ElementOfSeq
    <2> QED
        BY <2>1 DEF Piece
<1>4. ASSUME NEW k \in 1..Len(begins)
      PROVE  begins[k] \in Nat /\ pbaList[k].offset \in Nat /\ pbaList[k].length \in Nat
    <2>1. k \in 1..Len(pbaList)
        BY <1>2
    <2>2. begins[k] \in Nat /\ pbaList[k] \in Pba
        BY <1>1, <2>1, ElementOfSeq
    <2>3. \A x \in Pba : x.offset \in Nat /\ x.length \in Nat
        BY ConstantsAssumption DEF Pba
    <2> QED
        BY <2>2, <2>3
<1> QED
    BY <1>1, <1>2, <1>3, <1>4

(* A piece of n bytes that begins at byte a, in an extent of l bytes at o   *)
(* that begins at byte r: its part of the file and its place on disk.       *)
LEMMA PlaceArith ==
    ASSUME NEW o \in Nat, NEW r \in Nat, NEW l \in Nat, NEW a \in Nat, NEW n \in Nat,
           NEW b \in Nat, r <= a, a + n <= r + l
    PROVE  /\ a <= b /\ b < a + n
                => /\ r <= b /\ b < r + l
                   /\ o + (a - r) <= o + (b - r) /\ o + (b - r) < (o + (a - r)) + n
           /\ o + (a - r) <= o + (b - r) /\ o + (b - r) < (o + (a - r)) + n
                => a <= b /\ b < a + n
OBVIOUS

(* The place of a byte of another extent is not in it. *)
LEMMA ApartArith ==
    ASSUME NEW o \in Nat, NEW r \in Nat, NEW l \in Nat, NEW a \in Nat, NEW n \in Nat,
           NEW b \in Nat, r <= a, a + n <= r + l,
           NEW o2 \in Nat, NEW r2 \in Nat, NEW l2 \in Nat, r2 <= b, b < r2 + l2,
           o2 + l2 <= o \/ o + l <= o2
    PROVE  ~(o + (a - r) <= o2 + (b - r2) /\ o2 + (b - r2) < (o + (a - r)) + n)
OBVIOUS

(* A turn that appends the part [d, d + len) of extent i, from where the    *)
(* pieces before it end.                                                    *)
LEMMA BytesStep ==
    ASSUME IInv, BInv, Turn, NEW d \in Nat, NEW len \in Nat,
           AppendPiece(pba.offset + d, len),
           d + len <= pba.length,
           start_chk => d = 0 /\ ~end_chk
    PROVE  BInv'
<1> DEFINE n == Len(result) + 1
<1>0. /\ i \in 1..Len(pbaList) /\ pbaList' = pbaList /\ base \in Nat
      /\ pba \in Pba /\ pba.offset \in Nat /\ pba.length \in Nat
      /\ begins' = Append(begins, base) /\ begins \in Seq(Nat)
      /\ Len(begins) = i - 1 /\ i \in Nat
    <2>1. /\ i \in 1..Len(pbaList) /\ pbaList' = pbaList /\ TypeOK /\ base \in Nat
          /\ begins' = Append(begins, base) /\ begins \in Seq(Nat) /\ Len(begins) = i - 1
        BY DEF IInv, TypeOK, ShapeInv, Turn, input
    <2>2. i \in Nat
        BY <2>1
    <2> QED
        BY <2>1, <2>2, PbaType
<1>1. /\ Len(begins') = i /\ i \in 1..Len(begins') /\ begins'[i] = base
      /\ \A k \in 1..Len(begins) : k \in 1..Len(begins') /\ begins'[k] = begins[k]
    <2>1. /\ Len(begins') = Len(begins) + 1 /\ begins'[Len(begins) + 1] = base
          /\ \A k \in 1..Len(begins) : begins'[k] = begins[k]
        BY <1>0, Appended
    <2>2. Len(begins) + 1 = i
        BY <1>0
    <2>3. Len(begins') = i /\ i \in 1..Len(begins') /\ begins'[i] = base
        BY <1>0, <2>1, <2>2
    <2>4. \A k \in 1..Len(begins) : k \in 1..Len(begins')
        BY <1>0, <2>3
    <2> QED
        BY <2>1, <2>3, <2>4
<1>2. PICK p \in Piece : p = [disk |-> pba.disk, offset |-> pba.offset + d, length |-> len]
    <2>1. PICK off \in Nat : off = pba.offset + d
        BY <1>0
    <2>2. pba.disk \in Disk
        BY <1>0 DEF Pba
    <2>3. [disk |-> pba.disk, offset |-> off, length |-> len] \in Piece
        BY <2>2 DEF Piece
    <2> QED
        BY <2>1, <2>3
<1>3. PICK a \in Nat : a = base + d
    BY <1>0
<1>4. result \in Seq(Piece) /\ at \in Seq(Nat) /\ Len(at) = Len(result) /\ Len(result) \in Nat
    BY DEF IInv, TypeOK, ShapeInv
<1>5. result' = Append(result, p) /\ at' = Append(at, a)
    <2>1. base + ((pba.offset + d) - pba.offset) = a
        BY <1>0, <1>3
    <2> QED
        BY <1>2, <2>1 DEF AppendPiece
<1>6. /\ Len(result') = n /\ result'[n] = p /\ result' # <<>>
      /\ \A j \in 1..Len(result) : result'[j] = result[j]
    BY <1>4, <1>5, Appended
<1>7. Len(at') = n /\ at'[n] = a /\ \A j \in 1..Len(result) : at'[j] = at[j]
    BY <1>4, <1>5, Appended
<1>8. p.disk = pba.disk /\ p.offset = pba.offset + d /\ p.length = len
    BY <1>2
<1>9. \A j \in 1..Len(result') : j \in 1..Len(result) \/ j = n
    BY <1>4, <1>6
<1>10. n \in 1..Len(result') /\ \A j \in 1..Len(result) : j \in 1..Len(result') /\ j < n
    BY <1>4, <1>6
<1>11. AnswerEnd' = a + len
    BY <1>6, <1>7, <1>8 DEF AnswerEnd
<1>12. result # <<>> => AnswerEnd = a /\ AnswerEnd = at[Len(result)] + result[Len(result)].length
    <2> SUFFICES ASSUME result # <<>> PROVE AnswerEnd = a /\ AnswerEnd = at[Len(result)] + result[Len(result)].length
        OBVIOUS
    <2>1. start_chk /\ ~end_chk /\ d = 0
        BY DEF IInv, ShapeInv
    <2>2. AnswerEnd = base
        BY <1>0, <2>1 DEF IInv, ReachInv
    <2> QED
        BY <1>0, <1>3, <1>4, <2>1, <2>2 DEF AnswerEnd
<1> HIDE DEF n
<1>13. PlaceInv'
    <2> SUFFICES ASSUME NEW j \in 1..Len(result')
                 PROVE  \E k \in 1..Len(begins') : PlacedIn(j, k)'
        BY DEF PlaceInv
    <2>1. CASE j \in 1..Len(result)
        <3>1. PICK k \in 1..Len(begins) : PlacedIn(j, k)
            BY <2>1 DEF BInv, PlaceInv
        <3>2. /\ result'[j] = result[j] /\ at'[j] = at[j]
              /\ begins'[k] = begins[k] /\ k \in 1..Len(begins')
            BY <1>1, <1>6, <1>7, <2>1
        <3>3. PlacedIn(j, k)'
            BY <1>0, <3>1, <3>2 DEF PlacedIn
        <3> QED
            BY <3>2, <3>3
    <2>2. CASE j = n
        <3>1. PICK k \in 1..Len(begins') : k = i
            BY <1>1
        <3>2. begins'[k] = base /\ pbaList'[k] = pba
            BY <1>1, <1>0, <3>1 DEF pba
        <3>3. base <= a /\ a + len <= base + pba.length /\ pba.offset + d = pba.offset + (a - base)
            <4>1. PICK L \in Nat : L = pba.length
                BY <1>0
            <4>2. base <= base + d /\ (base + d) + len <= base + L
                BY <1>0, <4>1
            <4>3. (base + d) - base = d
                BY <1>0
            <4> QED
                BY <1>0, <1>3, <4>1, <4>2, <4>3
        <3>4. result'[j] = p /\ at'[j] = a
            BY <1>6, <1>7, <2>2
        <3>5. PlacedIn(j, k)'
            BY <1>8, <3>2, <3>3, <3>4 DEF PlacedIn
        <3> QED
            BY <3>5
    <2> QED
        BY <1>9, <2>1, <2>2
<1>14. OrderInv'
    <2> SUFFICES ASSUME NEW j \in 1..Len(result'), NEW m \in 1..Len(result'), j < m
                 PROVE  at'[j] + result'[j].length <= at'[m]
        BY DEF OrderInv
    <2>1. j \in 1..Len(result)
        BY <1>4, <1>6 DEF n
    <2>2. result'[j] = result[j] /\ at'[j] = at[j]
        BY <1>6, <1>7, <2>1
    <2>3. CASE m \in 1..Len(result)
        BY <1>7, <2>1, <2>2, <2>3 DEF BInv, OrderInv
    <2>4. CASE m = n
        <3>1. result # <<>> /\ Len(result) \in 1..Len(result)
            BY <1>4, <2>1
        <3>2. a = at[Len(result)] + result[Len(result)].length
            BY <1>12, <3>1
        <3>3. /\ at[j] \in Nat /\ result[j].length \in Nat
              /\ at[Len(result)] \in Nat /\ result[Len(result)].length \in Nat
            BY <2>1, <3>1, PieceNumbers
        <3>4. at[j] + result[j].length <= a
            <4>1. CASE j = Len(result)
                BY <1>3, <3>2, <4>1
            <4>2. CASE j # Len(result)
                <5>1. j < Len(result)
                    BY <1>4, <2>1, <4>2
                <5>2. at[j] + result[j].length <= at[Len(result)]
                    BY <2>1, <3>1, <5>1 DEF BInv, OrderInv
                <5>3. PICK x \in Nat : x = at[j] + result[j].length
                    BY <3>3
                <5>4. PICK y \in Nat : y = at[Len(result)]
                    BY <3>3
                <5>5. PICK l \in Nat : l = result[Len(result)].length
                    BY <3>3
                <5>6. x <= y
                    BY <5>2, <5>3, <5>4
                <5>7. x <= y + l
                    BY <5>6
                <5> QED
                    BY <3>2, <5>3, <5>4, <5>5, <5>7
            <4> QED
                BY <4>1, <4>2
        <3> QED
            BY <1>7, <2>2, <2>4, <3>4
    <2> QED
        BY <1>9, <2>3, <2>4
<1>15. CoverInv'
    <2> SUFFICES ASSUME NEW b \in Nat, at'[1] <= b, b < a + len
                 PROVE  \E j \in 1..Len(result') : Has(j, b)'
        BY <1>11 DEF CoverInv
    <2>1. CASE result = <<>>
        <3>1. n = 1
            BY <2>1 DEF n
        <3>2. \A j : j = n => Has(j, b)'
            BY <1>6, <1>7, <1>8, <3>1 DEF Has
        <3> QED
            BY <1>10, <3>2
    <2>2. CASE result # <<>>
        <3>1. at'[1] = at[1] /\ AnswerEnd = a
            <4>1. 1 \in 1..Len(result)
                BY <1>4, <2>2
            <4> QED
                BY <1>7, <1>12, <2>2, <4>1
        <3>2. CASE b < a
            <4>1. PICK j \in 1..Len(result) : Has(j, b)
                BY <2>2, <3>1, <3>2 DEF BInv, CoverInv
            <4>2. Has(j, b)'
                BY <1>6, <1>7, <4>1 DEF Has
            <4> QED
                BY <1>10, <4>2
        <3>3. CASE ~(b < a)
            <4>1. \A j : j = n => Has(j, b)'
                BY <1>3, <1>6, <1>7, <1>8, <3>3 DEF Has
            <4> QED
                BY <1>10, <4>1
        <3> QED
            BY <3>2, <3>3
    <2> QED
        BY <2>1, <2>2
<1>16. Disjoint(pbaList)'
    BY <1>0 DEF BInv, Disjoint
<1> QED
    BY <1>13, <1>14, <1>15, <1>16 DEF BInv

LEMMA BytesNext == IInv /\ BInv /\ [Next]_vars => BInv'
<1> SUFFICES ASSUME IInv, BInv, [Next]_vars PROVE BInv'
    OBVIOUS
<1>1. /\ start_offset \in Nat /\ left_len \in Nat
    BY DEF IInv, TypeOK
<1>2. CASE UNCHANGED vars
    BY <1>2 DEF vars, BInv, Disjoint, PlaceInv, PlacedIn, OrderInv, CoverInv, Has, AnswerEnd
<1>3. CASE SkipExtent \/ PassExtent
    <2>1. /\ result' = result /\ at' = at /\ pbaList' = pbaList /\ Turn
        BY <1>3 DEF SkipExtent, PassExtent, Turn, input
    <2>2. /\ Len(begins) \in Nat /\ Len(begins') = Len(begins) + 1
          /\ \A k \in 1..Len(begins) : begins'[k] = begins[k]
        <3>1. begins \in Seq(Nat) /\ base \in Nat /\ begins' = Append(begins, base)
            BY <2>1 DEF Turn, IInv, TypeOK
        <3> QED
            BY <3>1, Appended
    <2>3. PlaceInv'
        <3> SUFFICES ASSUME NEW j \in 1..Len(result)
                     PROVE  \E k \in 1..Len(begins') : PlacedIn(j, k)'
            BY <2>1 DEF PlaceInv
        <3>1. PICK k \in 1..Len(begins) : PlacedIn(j, k)
            BY DEF BInv, PlaceInv
        <3>2. k \in 1..Len(begins') /\ PlacedIn(j, k)'
            BY <2>1, <2>2, <3>1 DEF PlacedIn
        <3> QED
            BY <3>2
    <2> QED
        BY <2>1, <2>3 DEF BInv, Disjoint, OrderInv, CoverInv, Has, AnswerEnd
<1>4. CASE FirstPiece
    <2>1. Turn /\ ~start_chk /\ start_offset <= pba.length
        BY <1>4 DEF FirstPiece
    <2>2. pba.offset \in Nat /\ pba.length \in Nat
        BY <2>1, PbaType DEF IInv, Turn
    <2>3. CASE start_offset + left_len <= pba.length
        <3>1. AppendPiece(pba.offset + start_offset, left_len)
            BY <1>1, <1>4, <2>2, <2>3 DEF FirstPiece
        <3> QED
            BY <1>1, <2>1, <2>3, <3>1, BytesStep
    <2>4. CASE ~(start_offset + left_len <= pba.length)
        <3>1. PICK len \in Nat : len = pba.length - start_offset
            BY <1>1, <2>1, <2>2
        <3>2. AppendPiece(pba.offset + start_offset, len)
            BY <1>4, <2>4, <3>1 DEF FirstPiece
        <3>3. start_offset + len <= pba.length
            BY <1>1, <2>2, <3>1
        <3> QED
            BY <1>1, <2>1, <3>2, <3>3, BytesStep
    <2> QED
        BY <2>3, <2>4
<1>5. CASE NextPiece
    <2>1. Turn /\ start_chk /\ ~end_chk
        BY <1>5 DEF NextPiece
    <2>2. pba.offset \in Nat /\ pba.length \in Nat
        BY <2>1, PbaType DEF IInv, Turn
    <2>3. PICK len \in Nat : AppendPiece(pba.offset, len) /\ len <= pba.length
        BY <1>1, <1>5, <2>2 DEF NextPiece
    <2>4. pba.offset + 0 = pba.offset /\ 0 + len = len /\ 0 \in Nat
        BY <2>2
    <2>5. AppendPiece(pba.offset + 0, len) /\ 0 + len <= pba.length
        BY <2>3, <2>4
    <2> QED
        BY <2>1, <2>5, BytesStep
<1> QED
    BY <1>2, <1>3, <1>4, <1>5 DEF Next

(* The first extents of the file, seen from the extent the loop is at. *)
LEMMA FirstTwo ==
    ASSUME IInv, Turn
    PROVE  /\ pba.length \in Nat /\ i \in Nat /\ Len(pbaList) \in Nat /\ i <= Len(pbaList)
           /\ i = 1 => pba = pbaList[1]
           /\ i = 2 => pba = pbaList[2]
           /\ base \in Nat /\ left_len \in Nat /\ start_offset \in Nat /\ length \in Nat
           /\ i' = i + 1 /\ base' = base + pba.length /\ pbaList' = pbaList
           /\ start_offset' = start_offset /\ length' = length
           /\ (InFirstExtent' <=> InFirstExtent) /\ (EndsInSecond' <=> EndsInSecond)
<1>1. TypeOK /\ i \in 1..Len(pbaList) /\ pbaList \in Seq(Pba)
    BY DEF IInv, TypeOK, Turn
<1>2. pba.length \in Nat /\ i \in Nat /\ Len(pbaList) \in Nat /\ i <= Len(pbaList)
    BY <1>1, PbaType
<1>3. base \in Nat /\ left_len \in Nat /\ start_offset \in Nat /\ length \in Nat
    BY <1>1 DEF TypeOK
<1>4. /\ i' = i + 1 /\ base' = base + pba.length /\ pbaList' = pbaList
      /\ start_offset' = start_offset /\ length' = length
    BY DEF Turn, input
<1>5. (InFirstExtent' <=> InFirstExtent) /\ (EndsInSecond' <=> EndsInSecond)
    BY <1>4 DEF InFirstExtent, EndsInSecond
<1> QED
    BY <1>2, <1>3, <1>4, <1>5 DEF pba

LEMMA EndNext == IInv /\ EndInv /\ [Next]_vars => EndInv'
<1> SUFFICES ASSUME IInv, EndInv, [Next]_vars PROVE EndInv'
    OBVIOUS
<1>1. CASE UNCHANGED vars
    BY <1>1 DEF vars, EndInv, AnswerEnd, InFirstExtent, EndsInSecond
<1>2. CASE Next
    <2>1. Turn
        BY <1>2 DEF Next, SkipExtent, FirstPiece, NextPiece, PassExtent
    <2> SUFFICES ASSUME InFirstExtent, EndsInSecond
                 PROVE  /\ end_chk' => AnswerEnd' = start_offset + length
                        /\ start_chk' /\ ~end_chk' =>
                             /\ base' <= start_offset + length
                             /\ \/ /\ i' = 2 /\ base' = pbaList[1].length
                                   /\ left_len' + base' = start_offset + length
                                \/ i' = 3 /\ Len(pbaList) <= 2
        BY <2>1, FirstTwo DEF EndInv
    <2>2. ~start_chk => i = 1 /\ base = 0 /\ start_offset <= pbaList[1].length
        BY DEF IInv, FirstInv, InFirstExtent
    <2>3. CASE SkipExtent
        <3>1. ~start_chk /\ start_offset > pba.length
            BY <2>3 DEF SkipExtent
        <3> QED
            BY <2>1, <2>2, <3>1, FirstTwo
    <2>4. CASE FirstPiece
        <3>1. /\ ~start_chk /\ ~end_chk /\ start_offset <= pba.length /\ left_len = length
              /\ pba.offset \in Nat
            BY <2>1, <2>4, PbaType DEF FirstPiece, IInv, ShapeInv, Turn
        <3>2. i = 1 /\ base = 0 /\ pba = pbaList[1]
            BY <2>1, <2>2, <3>1, FirstTwo
        <3>3. CASE start_offset + left_len <= pba.length
            <4>1. AppendPiece(pba.offset + start_offset, left_len) /\ end_chk'
                BY <2>1, <2>4, <3>3, FirstTwo DEF FirstPiece
            <4>2. PICK off \in Nat : off = pba.offset + start_offset
                BY <2>1, <3>1, FirstTwo
            <4>3. /\ off >= pba.offset /\ off + left_len <= pba.offset + pba.length
                  /\ base + (off - pba.offset) + left_len = start_offset + length
                BY <2>1, <3>1, <3>2, <3>3, <4>2, FirstTwo
            <4>4. AnswerEnd' = base + (off - pba.offset) + left_len
                <5>1. left_len \in Nat /\ AppendPiece(off, left_len)
                    BY <2>1, <4>1, <4>2, FirstTwo
                <5> QED
                    BY <2>1, <3>1, <4>3, <5>1, PieceStep
            <4> QED
                BY <4>1, <4>3, <4>4
        <3>4. CASE ~(start_offset + left_len <= pba.length)
            <4>1. ~end_chk' /\ left_len' = left_len - (pba.length - start_offset)
                BY <2>4, <3>1, <3>4 DEF FirstPiece
            <4>2. base' = pba.length /\ i' = 2
                BY <2>1, <3>2, FirstTwo
            <4>3. base' <= start_offset + length /\ left_len' + base' = start_offset + length
                <5>1. /\ start_offset \in Nat /\ left_len \in Nat /\ start_offset <= pba.length
                      /\ left_len = length /\ ~(start_offset + left_len <= pba.length)
                    BY <2>1, <3>1, <3>4, FirstTwo
                <5>2. PICK l \in Nat : l = pba.length
                    BY <2>1, FirstTwo
                <5>3. l <= start_offset + left_len /\ left_len - (l - start_offset) + l = start_offset + left_len
                    BY <5>1, <5>2
                <5> QED
                    BY <4>1, <4>2, <5>1, <5>2, <5>3
            <4> QED
                BY <3>2, <4>1, <4>2, <4>3
        <3> QED
            BY <3>3, <3>4
    <2>5. CASE NextPiece
        <3>1. start_chk /\ ~end_chk /\ left_len' = left_len
            BY <2>5 DEF NextPiece
        <3>2. i = 2 /\ base = pbaList[1].length /\ left_len + base = start_offset + length
            BY <2>1, <3>1, FirstTwo DEF EndInv
        <3>3. pba = pbaList[2] /\ pba.offset \in Nat
            BY <2>1, <3>2, FirstTwo, PbaType DEF IInv, Turn
        <3>4. CASE left_len < pba.length
            <4>1. AppendPiece(pba.offset, left_len) /\ end_chk'
                BY <2>1, <2>5, <3>4, FirstTwo DEF NextPiece
            <4>2. PICK off \in Nat : off = pba.offset
                BY <3>3
            <4>3. /\ off >= pba.offset /\ off + left_len <= pba.offset + pba.length
                  /\ base + (off - pba.offset) + left_len = start_offset + length
                <5>1. base \in Nat /\ left_len \in Nat /\ pba.length \in Nat
                    BY <2>1, FirstTwo
                <5>2. base + (off - pba.offset) = base
                    BY <4>2, <5>1
                <5>3. base + left_len = start_offset + length
                    BY <3>2, <5>1
                <5> QED
                    BY <3>4, <4>2, <5>1, <5>2, <5>3
            <4>4. AnswerEnd' = base + (off - pba.offset) + left_len
                <5>1. left_len \in Nat /\ AppendPiece(off, left_len)
                    BY <2>1, <4>1, <4>2, FirstTwo
                <5> QED
                    BY <2>1, <3>1, <4>2, <4>3, <5>1, PieceStep
            <4> QED
                BY <4>1, <4>3, <4>4
        <3>5. CASE ~(left_len < pba.length)
            <4>1. ~end_chk'
                BY <2>5, <3>1, <3>5 DEF NextPiece
            <4>2. i' = 3 /\ base' = base + pba.length
                BY <2>1, <3>2, FirstTwo
            <4>3. base' <= start_offset + length
                BY <2>1, <3>2, <3>5, <4>2, FirstTwo
            <4>4. Len(pbaList) <= 2
                <5>1. ~(start_offset + length < pbaList[1].length + pbaList[2].length)
                    BY <2>1, <3>2, <3>3, <3>5, FirstTwo
                <5> QED
                    BY <5>1 DEF EndsInSecond
            <4> QED
                BY <4>1, <4>2, <4>3, <4>4
        <3> QED
            BY <3>4, <3>5
    <2>6. CASE PassExtent
        <3>1. end_chk /\ end_chk' = end_chk /\ result' = result /\ at' = at
            BY <2>6 DEF PassExtent
        <3> QED
            BY <3>1 DEF EndInv, AnswerEnd
    <2> QED
        BY <1>2, <2>3, <2>4, <2>5, <2>6 DEF Next
<1> QED
    BY <1>1, <1>2

(* A piece holds the place of byte b exactly if it holds the byte. *)
LEMMA HoldingIsHaving ==
    ASSUME IInv, BInv, NEW b \in Nat, NEW j \in 1..Len(result)
    PROVE  j \in Holding(b) <=> Has(j, b)
<1>1. PICK k \in 1..Len(begins) : PlacedIn(j, k)
    BY DEF BInv, PlaceInv
<1>2. /\ at[j] \in Nat /\ result[j].length \in Nat /\ result[j].offset \in Nat
      /\ begins[k] \in Nat /\ pbaList[k].offset \in Nat
      /\ pbaList[k].length \in Nat
    BY PieceNumbers
<1>3. PICK a \in Nat, n \in Nat, o \in Nat, r \in Nat, l \in Nat :
        /\ a = at[j] /\ n = result[j].length
        /\ o = pbaList[k].offset /\ r = begins[k] /\ l = pbaList[k].length
    BY <1>2
<1>4. r <= a /\ a + n <= r + l /\ result[j].offset = o + (a - r)
    BY <1>1, <1>2, <1>3 DEF PlacedIn
<1>5. Has(j, b) <=> a <= b /\ b < a + n
    BY <1>3 DEF Has
<1>6. ASSUME Has(j, b) PROVE j \in Holding(b)
    <2>1. /\ r <= b /\ b < r + l
          /\ o + (a - r) <= o + (b - r) /\ o + (b - r) < (o + (a - r)) + n
        BY <1>4, <1>5, <1>6, PlaceArith
    <2>2. /\ begins[k] <= b /\ b < begins[k] + pbaList[k].length
          /\ result[j].offset <= pbaList[k].offset + (b - begins[k])
          /\ pbaList[k].offset + (b - begins[k]) < result[j].offset + result[j].length
        BY <1>3, <1>4, <2>1
    <2>3. result[j].disk = pbaList[k].disk
        BY <1>1 DEF PlacedIn
    <2> QED
        BY <2>2, <2>3 DEF Holding
<1>7. ASSUME j \in Holding(b) PROVE Has(j, b)
    <2>1. PICK h \in 1..Len(begins) :
            /\ begins[h] <= b /\ b < begins[h] + pbaList[h].length
            /\ result[j].disk = pbaList[h].disk
            /\ result[j].offset <= pbaList[h].offset + (b - begins[h])
            /\ pbaList[h].offset + (b - begins[h]) < result[j].offset + result[j].length
        BY <1>7 DEF Holding
    <2>2. h = k
        <3> SUFFICES ASSUME h # k PROVE FALSE
            OBVIOUS
        <3>1. h \in 1..Len(pbaList) /\ k \in 1..Len(pbaList)
            BY PieceNumbers
        <3>2. pbaList[h].disk = pbaList[k].disk
            BY <1>1, <2>1 DEF PlacedIn
        <3>3. \/ pbaList[h].offset + pbaList[h].length <= pbaList[k].offset
              \/ pbaList[k].offset + pbaList[k].length <= pbaList[h].offset
            BY <3>1, <3>2 DEF BInv, Disjoint
        <3>4. /\ begins[h] \in Nat /\ pbaList[h].offset \in Nat
              /\ pbaList[h].length \in Nat
            BY PieceNumbers
        <3>5. PICK o2 \in Nat, r2 \in Nat, l2 \in Nat :
                o2 = pbaList[h].offset /\ r2 = begins[h] /\ l2 = pbaList[h].length
            BY <3>4
        <3>6. o2 + l2 <= o \/ o + l <= o2
            BY <1>3, <3>3, <3>5
        <3>7. r2 <= b /\ b < r2 + l2
            BY <2>1, <3>4, <3>5
        <3>8. o + (a - r) <= o2 + (b - r2) /\ o2 + (b - r2) < (o + (a - r)) + n
            BY <1>3, <1>4, <2>1, <3>5
        <3> QED
            BY <1>4, <3>6, <3>7, <3>8, ApartArith
    <2>3. o + (a - r) <= o + (b - r) /\ o + (b - r) < (o + (a - r)) + n
        BY <1>3, <1>4, <2>1, <2>2
    <2> QED
        BY <1>4, <1>5, <2>3, PlaceArith
<1> QED
    BY <1>6, <1>7

(* For every file whose extents share no space on disk, and every request   *)
(* that begins in its first extent, the answer of get holds the place of    *)
(* each byte asked for once and of no byte before it, and of no byte after  *)
(* it if the request ends in the second extent.                             *)
THEOREM BytesCorrect == Spec => []BytesCovered
<1>1. IInv /\ BInv /\ EndInv /\ AnswerCovers => BytesCovered
    <2> SUFFICES ASSUME IInv, BInv, EndInv, AnswerCovers, Returned, InFirstExtent,
                        NEW b \in 0..FileSize - 1
                 PROVE  IF start_offset <= b /\ b < start_offset + length
                        THEN \E j \in 1..Len(result) : Holding(b) = {j}
                        ELSE b < start_offset \/ EndsInSecond => Holding(b) = {}
        BY DEF BytesCovered
    <2>1. /\ start_offset \in Nat /\ length \in Nat /\ base \in Nat /\ b \in Nat /\ b < base
          /\ FileSize = base
        BY DEF IInv, TypeOK, FileSize
    <2>2. Holding(b) \subseteq 1..Len(result)
        BY DEF Holding
    <2>3. /\ result # <<>> /\ at[1] = start_offset
          /\ AnswerEnd >= Min2(start_offset + length, base)
        BY <2>1 DEF AnswerCovers
    <2>4. /\ Len(result) \in Nat /\ 1 \in 1..Len(result) /\ Len(result) \in 1..Len(result)
          /\ AnswerEnd = at[Len(result)] + result[Len(result)].length
          /\ \A j \in 1..Len(result) : at[j] \in Nat /\ result[j].length \in Nat
        BY <2>3, PieceNumbers DEF IInv, TypeOK, AnswerEnd
    <2>5. AnswerEnd \in Nat
        BY <2>4
    <2>6. CASE start_offset <= b /\ b < start_offset + length
        <3>1. b < AnswerEnd
            BY <2>1, <2>3, <2>5, <2>6 DEF Min2
        <3>2. PICK j \in 1..Len(result) : Has(j, b)
            BY <2>1, <2>3, <2>6, <3>1 DEF BInv, CoverInv
        <3>3. ASSUME NEW m \in Holding(b) PROVE m = j
            <4>1. m \in 1..Len(result) /\ Has(m, b)
                BY <2>1, <2>2, HoldingIsHaving
            <4>2. ~(m < j)
                BY <2>1, <2>4, <3>2, <4>1 DEF BInv, OrderInv, Has
            <4>3. ~(j < m)
                BY <2>1, <2>4, <3>2, <4>1 DEF BInv, OrderInv, Has
            <4> QED
                BY <2>4, <4>1, <4>2, <4>3
        <3>4. j \in Holding(b)
            BY <2>1, <3>2, HoldingIsHaving
        <3>5. Holding(b) = {j}
            BY <3>3, <3>4
        <3> QED
            BY <2>6, <3>5
    <2>7. CASE ~(start_offset <= b /\ b < start_offset + length)
        <3> SUFFICES ASSUME b < start_offset \/ EndsInSecond, NEW j \in 1..Len(result), Has(j, b)
                     PROVE  FALSE
            BY <2>1, <2>2, <2>7, HoldingIsHaving
        <3>1. at[1] <= at[j]
            <4>1. CASE j = 1
                BY <2>4, <4>1
            <4>2. CASE j # 1
                <5>1. 1 < j
                    BY <2>4, <4>2
                <5>2. at[1] + result[1].length <= at[j]
                    BY <2>4, <5>1 DEF BInv, OrderInv
                <5> QED
                    BY <2>4, <5>2
            <4> QED
                BY <4>1, <4>2
        <3>2. start_offset <= b
            BY <2>1, <2>3, <2>4, <3>1 DEF Has
        <3>3. EndsInSecond
            BY <2>1, <3>2
        <3>4. at[j] + result[j].length <= AnswerEnd
            <4>1. CASE j = Len(result)
                BY <2>4, <4>1
            <4>2. CASE j # Len(result)
                <5>1. j < Len(result)
                    BY <2>4, <4>2
                <5>2. at[j] + result[j].length <= at[Len(result)]
                    BY <2>4, <5>1 DEF BInv, OrderInv
                <5>3. PICK x \in Nat : x = at[j] + result[j].length
                    BY <2>4
                <5>4. PICK y \in Nat : y = at[Len(result)]
                    BY <2>4
                <5>5. PICK l \in Nat : l = result[Len(result)].length
                    BY <2>4
                <5>6. x <= y
                    BY <5>2, <5>3, <5>4
                <5>7. x <= y + l
                    BY <5>6
                <5> QED
                    BY <2>4, <5>3, <5>4, <5>5, <5>7
            <4> QED
                BY <4>1, <4>2
        <3>5. start_chk
            BY <2>3 DEF IInv, ShapeInv
        <3>6. CASE end_chk
            <4>1. AnswerEnd = start_offset + length
                BY <3>3, <3>6 DEF EndInv
            <4> QED
                BY <2>1, <2>4, <2>7, <3>2, <3>4, <4>1 DEF Has
        <3>7. CASE ~end_chk
            <4>1. base <= start_offset + length
                BY <3>3, <3>5, <3>7 DEF EndInv
            <4> QED
                BY <2>1, <2>7, <3>2, <4>1
        <3> QED
            BY <3>6, <3>7
    <2> QED
        BY <2>6, <2>7
<1>2. Spec => []BInv
    <2>1. Init => BInv
        BY BytesInit
    <2> QED
        BY <2>1, BytesNext, InvCorrect, PTL DEF Spec
<1>3. Spec => []EndInv
    <2>1. Init => EndInv
        BY BytesInit
    <2> QED
        BY <2>1, EndNext, InvCorrect, PTL DEF Spec
<1> QED
    BY <1>1, <1>2, <1>3, InvCorrect, CoverCorrect, PTL
=============================================================================
