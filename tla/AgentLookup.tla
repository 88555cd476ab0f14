---------------------------- MODULE AgentLookup ----------------------------
(***************************************************************************)
(* The address translation of the file agent: get, the inner function of   *)
(* getPba in lba2pba/DBAgent/db_agent.py.  A file is a list of extents on  *)
(* disk, in the order of its bytes; a request names a range of its bytes.  *)
(* One step is one turn of the loop over the extents.  History variables   *)
(* say where in the file the extents, and the pieces returned, really lie. *)
(***************************************************************************)
EXTENDS Integers, Sequences

CONSTANTS
    Disk,        \* (host, disk) pairs
    Offset,      \* offsets on disk
    Length,      \* lengths of extents
    Request,     \* start offsets and lengths of requests
    MaxExtents   \* bound: number of extents of a file

ASSUME ConstantsAssumption ==
    /\ Offset \subseteq Nat
    /\ Length \subseteq Nat
    /\ Request \subseteq Nat
    /\ MaxExtents \in Nat

VARIABLES
    pbaList,                 \* the extents of the file
    start_offset, length,    \* the request
    i,                       \* the extent the loop is at
    left_len, start_chk, end_chk, result,
    base,                    \* history: file offset of extent i
    begins,                  \* history: file offset of every extent before i
    at                       \* history: file offset of every piece of result

input == <<pbaList, start_offset, length>>
vars == <<pbaList, start_offset, length, i, left_len, start_chk, end_chk, result,
          base, begins, at>>

Pba == [disk : Disk, offset : Offset, length : Length]
Piece == [disk : Disk, offset : Nat, length : Nat]

TypeOK ==
    /\ pbaList \in Seq(Pba)
    /\ start_offset \in Nat /\ length \in Nat
    /\ i \in 1..(Len(pbaList) + 1)
    /\ left_len \in Nat
    /\ start_chk \in BOOLEAN /\ end_chk \in BOOLEAN
    /\ result \in Seq(Piece)
    /\ base \in Nat
    /\ begins \in Seq(Nat)
    /\ at \in Seq(Nat)

(* Extents do not share space on a disk. *)
Disjoint(list) ==
    \A j, k \in 1..Len(list) :
      j # k /\ list[j].disk = list[k].disk
        => \/ list[j].offset + list[j].length <= list[k].offset
           \/ list[k].offset + list[k].length <= list[j].offset

Init ==
    /\ pbaList \in UNION {[1..k -> Pba] : k \in 0..MaxExtents}
    /\ Disjoint(pbaList)
    /\ start_offset \in Request
    /\ length \in Request
    /\ i = 1
    /\ left_len = length
    /\ start_chk = FALSE
    /\ end_chk = FALSE
    /\ result = <<>>
    /\ base = 0
    /\ begins = <<>>
    /\ at = <<>>

-----------------------------------------------------------------------------
pba == pbaList[i]

(* The loop goes on to the next extent. *)
Turn ==
    /\ i \in 1..Len(pbaList)
    /\ i' = i + 1
    /\ base' = base + pba.length
    /\ begins' = Append(begins, base)
    /\ UNCHANGED input

(* result.append(tmp_pba), with the part of extent i at offset off. *)
AppendPiece(off, len) ==
    /\ result' = Append(result, [disk |-> pba.disk, offset |-> off, length |-> len])
    /\ at' = Append(at, base + (off - pba.offset))

(* The extent is too short for the request to begin in it. *)
SkipExtent ==
    /\ Turn
    /\ ~start_chk
    /\ start_offset > pba.length
    /\ UNCHANGED <<left_len, start_chk, end_chk, result, at>>

(* Mutant: the comparison that finds the first extent is missing. *)
FirstPiece_NoGuard ==
    /\ Turn
    /\ ~start_chk
    /\ start_chk' = TRUE
    /\ AppendPiece(pba.offset + start_offset, pba.length - start_offset)
    /\ left_len' = left_len - (pba.length - start_offset)
    /\ UNCHANGED end_chk

(* Mutant: left_len is not reduced by the first piece. *)
FirstPiece_Keeps ==
    LET all == start_offset + left_len <= pba.length IN
    /\ Turn
    /\ ~start_chk
    /\ start_offset <= pba.length
    /\ start_chk' = TRUE
    /\ AppendPiece(pba.offset + start_offset, IF all THEN left_len ELSE pba.length - start_offset)
    /\ end_chk' = all
    /\ UNCHANGED left_len

(* The request begins in this extent, *)
FirstPiece ==
    /\ Turn
    /\ ~start_chk
    /\ start_offset <= pba.length
    /\ start_chk' = TRUE
    /\ \/ /\ start_offset + left_len <= pba.length         \* and ends in it,
          /\ AppendPiece(pba.offset + start_offset, left_len)
          /\ end_chk' = TRUE
          /\ UNCHANGED left_len
       \/ /\ start_offset + left_len > pba.length          \* or goes on after it.
          /\ AppendPiece(pba.offset + start_offset, pba.length - start_offset)
          /\ left_len' = left_len - (pba.length - start_offset)
          /\ UNCHANGED end_chk

(* Mutant: the last piece is not shortened. *)
NextPiece_Long ==
    /\ Turn
    /\ start_chk /\ ~end_chk
    /\ AppendPiece(pba.offset, left_len)
    /\ end_chk' = (left_len < pba.length)
    /\ UNCHANGED <<left_len, start_chk>>

(* Mutant: the extent that does not hold the end of the request ends it. *)
NextPiece_Stops ==
    /\ Turn
    /\ start_chk /\ ~end_chk
    /\ AppendPiece(pba.offset, IF left_len < pba.length THEN left_len ELSE pba.length)
    /\ end_chk' = TRUE
    /\ UNCHANGED <<left_len, start_chk>>

(* The request goes on in this extent: left_len is what is left after the   *)
(* first piece, and stays that.                                             *)
NextPiece ==
    /\ Turn
    /\ start_chk /\ ~end_chk
    /\ \/ /\ left_len < pba.length
          /\ AppendPiece(pba.offset, left_len)
          /\ end_chk' = TRUE
       \/ /\ left_len >= pba.length
          /\ AppendPiece(pba.offset, pba.length)
          /\ UNCHANGED end_chk
    /\ UNCHANGED <<left_len, start_chk>>

(* The request has ended before this extent. *)
PassExtent ==
    /\ Turn
    /\ start_chk /\ end_chk
    /\ UNCHANGED <<left_len, start_chk, end_chk, result, at>>

Next == SkipExtent \/ FirstPiece \/ NextPiece \/ PassExtent

Spec == Init /\ [][Next]_vars

-----------------------------------------------------------------------------
Returned == i = Len(pbaList) + 1
FileSize == base                                      \* when Returned
Min2(x, y) == IF x < y THEN x ELSE y
AnswerEnd == at[Len(at)] + result[Len(result)].length

(* Every piece is a part of one extent of the file: no address returned     *)
(* lies outside the space the file occupies on disk.                        *)
PiecesInExtents ==
    \A j \in 1..Len(result) : \E k \in 1..Len(pbaList) :
      /\ result[j].disk = pbaList[k].disk
      /\ pbaList[k].offset <= result[j].offset
      /\ result[j].offset + result[j].length <= pbaList[k].offset + pbaList[k].length

(* The pieces are consecutive bytes of the file. *)
Consecutive ==
    \A j \in 1..Len(at) - 1 : at[j + 1] = at[j] + result[j].length

(* The request begins in the first extent. *)
InFirstExtent == pbaList # <<>> /\ start_offset <= pbaList[1].length

(* The answer to a request that begins in the first extent starts with the  *)
(* bytes asked for: consecutive bytes from start_offset on, at least to the *)
(* end of the request or of the file.  (It may go on after it.)             *)
AnswerCovers ==
    Returned /\ InFirstExtent
      => /\ result # <<>>
         /\ at[1] = start_offset
         /\ Consecutive
         /\ AnswerEnd >= Min2(start_offset + length, FileSize)

(* The pieces that hold the place on disk where byte b of the file lies. *)
Holding(b) ==
    {j \in 1..Len(result) : \E k \in 1..Len(begins) :
        /\ begins[k] <= b /\ b < begins[k] + pbaList[k].length
        /\ result[j].disk = pbaList[k].disk
        /\ result[j].offset <= pbaList[k].offset + (b - begins[k])
        /\ pbaList[k].offset + (b - begins[k]) < result[j].offset + result[j].length}

(* The request ends before the second extent does, or nothing follows it. *)
EndsInSecond ==
    \/ Len(pbaList) <= 2
    \/ start_offset + length < pbaList[1].length + pbaList[2].length

(* Byte by byte, for a request that begins in the first extent: the place   *)
(* of every byte asked for is in one piece of the answer, the place of no   *)
(* byte before it is in any, and the place of no byte after it if the       *)
(* request ends in the second extent (left_len is not reduced after the     *)
(* first piece, so the answer to a longer request may go on).               *)
BytesCovered ==
    Returned /\ InFirstExtent =>
      \A b \in 0..FileSize - 1 :
        IF start_offset <= b /\ b < start_offset + length
        THEN \E j \in 1..Len(result) : Holding(b) = {j}
        ELSE b < start_offset \/ EndsInSecond => Holding(b) = {}

(* The answer is the bytes asked for. *)
TranslationExact ==
    Returned /\ start_offset < FileSize /\ length > 0
      => /\ result # <<>>
         /\ at[1] = start_offset
         /\ Consecutive
         /\ AnswerEnd = Min2(start_offset + length, FileSize)
=============================================================================
