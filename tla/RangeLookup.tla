---------------------------- MODULE RangeLookup ----------------------------
(***************************************************************************)
(* The address translation of the first generation of the service: the     *)
(* manager (LB2PBA/LBA2PBA_Manager) numbers the bytes of a file's extents  *)
(* (RANGE), the query agent (LB2PBA/LBA2PBA_Query_Agent) finds the part of *)
(* every extent a request asks for.  One step is one turn of one of the    *)
(* two loops.                                                              *)
(***************************************************************************)
EXTENDS Integers, Sequences

CONSTANTS
    Disk,        \* (HOST, DISK) pairs
    Offset,      \* offsets on disk
    Length,      \* lengths of extents
    Request,     \* sectors and lengths of requests
    MaxExtents   \* bound: number of extents of a file

ASSUME ConstantsAssumption ==
    /\ Offset \subseteq Nat
    /\ Length \subseteq Nat
    /\ Request \subseteq Nat
    /\ MaxExtents \in Nat

VARIABLES
    data,              \* the extents of the file and its shards
    range, ran,        \* RANGE of the extents numbered so far; the loop's sum
    start, end,        \* the request
    i,                 \* the extent the query loop is at
    schk, echk, result,
    at                 \* history: file offset of every piece of result

vars == <<data, range, ran, start, end, i, schk, echk, result, at>>

Chunk == [disk : Disk, offset : Offset, length : Length]
Piece == [disk : Disk, offset : Nat, length : Nat]

TypeOK ==
    /\ data \in Seq(Chunk)
    /\ range \in Seq(Nat \X Nat) /\ Len(range) <= Len(data)
    /\ ran \in Nat
    /\ start \in Nat /\ end \in Nat
    /\ i \in 1..(Len(data) + 1)
    /\ schk \in BOOLEAN /\ echk \in BOOLEAN
    /\ result \in Seq(Piece)
    /\ at \in Seq(Nat)

(* Extents do not share space on a disk. *)
Disjoint(list) ==
    \A j, k \in 1..Len(list) :
      j # k /\ list[j].disk = list[k].disk
        => \/ list[j].offset + list[j].length <= list[k].offset
           \/ list[k].offset + list[k].length <= list[j].offset

Init ==
    /\ data \in UNION {[1..k -> Chunk] : k \in 0..MaxExtents}
    /\ Disjoint(data)
    /\ range = <<>>
    /\ ran = 0
    /\ \E sector \in Request, length \in Request : start = sector /\ end = sector + length
    /\ i = 1
    /\ schk = FALSE
    /\ echk = FALSE
    /\ result = <<>>
    /\ at = <<>>

-----------------------------------------------------------------------------
(* Mutant: every range starts after its extent. *)
SetRange_After ==
    /\ Len(range) < Len(data)
    /\ range' = Append(range, <<ran + data[Len(range) + 1].length,
                                ran + 2 * data[Len(range) + 1].length>>)
    /\ ran' = ran + data[Len(range) + 1].length
    /\ UNCHANGED <<data, start, end, i, schk, echk, result, at>>

(* getPBA of the manager: data[i]["RANGE"] = [ran, end]. *)
SetRange ==
    LET last == ran + data[Len(range) + 1].length IN
    /\ Len(range) < Len(data)
    /\ range' = Append(range, <<ran, last>>)
    /\ ran' = last
    /\ UNCHANGED <<data, start, end, i, schk, echk, result, at>>

(* LB2PBA of the query agent. *)
s == range[i][1]
e == range[i][2]

Turn ==
    /\ Len(range) = Len(data)
    /\ i \in 1..Len(data)
    /\ i' = i + 1
    /\ UNCHANGED <<data, range, ran, start, end>>

(* Mutant: every piece is taken from the first extent of the list. *)
AppendPiece_First(off, len) ==
    /\ result' = Append(result, [disk |-> data[1].disk,
                                 offset |-> data[1].offset + (off - data[i].offset),
                                 length |-> len])
    /\ at' = Append(at, s + (off - data[i].offset))

(* result.append(pba), with the part of extent i at offset off. *)
AppendPiece(off, len) ==
    /\ result' = Append(result, [disk |-> data[i].disk, offset |-> off, length |-> len])
    /\ at' = Append(at, s + (off - data[i].offset))

SkipExtent ==
    /\ Turn
    /\ ~schk
    /\ ~(s <= start /\ start < e)
    /\ UNCHANGED <<schk, echk, result, at>>

(* Mutant: only the lower end of the range is compared. *)
FirstPiece_NoUpper ==
    /\ Turn
    /\ ~schk
    /\ s <= start
    /\ AppendPiece(data[i].offset + (start - s), IF end < e THEN end - start ELSE e - start)
    /\ schk' = TRUE
    /\ echk' = (end < e)

FirstPiece ==
    /\ Turn
    /\ ~schk
    /\ s <= start /\ start < e
    /\ schk' = TRUE
    /\ \/ /\ end < e
          /\ AppendPiece(data[i].offset + (start - s), end - start)
          /\ echk' = TRUE
       \/ /\ end >= e
          /\ AppendPiece(data[i].offset + (start - s), e - start)
          /\ UNCHANGED echk

(* Mutant: the last piece has the length of the whole request. *)
NextPiece_Whole ==
    /\ Turn
    /\ schk /\ ~echk
    /\ \/ /\ s <= e /\ end < e
          /\ AppendPiece(data[i].offset, end - start)
          /\ echk' = TRUE
       \/ /\ ~(s <= e /\ end < e)
          /\ AppendPiece(data[i].offset, data[i].length)
          /\ UNCHANGED echk
    /\ UNCHANGED schk

NextPiece ==
    /\ Turn
    /\ schk /\ ~echk
    /\ \/ /\ s <= e /\ end < e
          /\ AppendPiece(data[i].offset, end - s)
          /\ echk' = TRUE
       \/ /\ ~(s <= e /\ end < e)
          /\ AppendPiece(data[i].offset, data[i].length)
          /\ UNCHANGED echk
    /\ UNCHANGED schk

PassExtent ==
    /\ Turn
    /\ schk /\ echk
    /\ UNCHANGED <<schk, echk, result, at>>

Next == SetRange \/ SkipExtent \/ FirstPiece \/ NextPiece \/ PassExtent

Spec == Init /\ [][Next]_vars

-----------------------------------------------------------------------------
Returned == Len(range) = Len(data) /\ i = Len(data) + 1
FileSize == ran                                       \* when Returned
Min2(x, y) == IF x < y THEN x ELSE y
AnswerEnd == at[Len(at)] + result[Len(result)].length

(* The answer is exactly the bytes asked for that the file has: nothing for *)
(* a request after its end, else consecutive bytes from start to the end of *)
(* the request or of the file.  (A request that ends with an extent gets a  *)
(* last piece of length 0.)                                                 *)
AnswerExact ==
    Returned =>
      IF start >= FileSize
      THEN result = <<>>
      ELSE /\ result # <<>>
           /\ at[1] = start
           /\ \A j \in 1..Len(at) - 1 : at[j + 1] = at[j] + result[j].length
           /\ AnswerEnd = Min2(end, FileSize)

(* The pieces that hold the place on disk where byte b of the file lies. *)
Holding(b) ==
    {j \in 1..Len(result) : \E k \in 1..Len(range) :
        /\ range[k][1] <= b /\ b < range[k][2]
        /\ result[j].disk = data[k].disk
        /\ result[j].offset <= data[k].offset + (b - range[k][1])
        /\ data[k].offset + (b - range[k][1]) < result[j].offset + result[j].length}

(* Byte by byte, whatever the loop thinks of it: the place of every byte    *)
(* asked for is in one piece of the answer, and the place of no other byte  *)
(* of the file is in any.                                                   *)
BytesExact ==
    Returned =>
      \A b \in 0..FileSize - 1 :
        IF start <= b /\ b < end
        THEN \E j \in 1..Len(result) : Holding(b) = {j}
        ELSE Holding(b) = {}

(* No address returned lies outside the extents of the file. *)
PiecesInExtents ==
    \A j \in 1..Len(result) : \E k \in 1..Len(data) :
      /\ result[j].disk = data[k].disk
      /\ data[k].offset <= result[j].offset
      /\ result[j].offset + result[j].length <= data[k].offset + data[k].length
=============================================================================
