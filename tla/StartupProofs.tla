--------------------------- MODULE StartupProofs ---------------------------
(***************************************************************************)
(* What Trace.__init__ guarantees for any number of nodes, bricks, files   *)
(* and shards.  The inductive invariant says, loop by loop, that what was  *)
(* answered is still to be processed or is in the map (FileInv, PieceInv,  *)
(* AsmInv), that a file was added before the shards come (NodeInv), and    *)
(* that shardDict names files that were answered, a gfid one of its own    *)
(* paths (KeyInv).                                                         *)
(***************************************************************************)
EXTENDS Startup, SequenceTheorems, TLAPS

FileAt(n, f) ==
    /\ pc = "collect" => fmDict[n][f] = None
    /\ pc = "collect" /\ Reported(n, f) => <<n, f>> \in rawFilePba
    /\ <<n, f>> \in rawFilePba => Reported(n, f)
    /\ pc = "files" /\ Reported(n, f) => <<n, f>> \in rawFilePba \/ fmDict[n][f] # None
    /\ pc \in {"shards", "assemble", "started"} /\ Reported(n, f) => fmDict[n][f] # None
    /\ fmDict[n][f] # None => Reported(n, f) /\ fmDict[n][f].pba = held[n][f]

FileInv == \A n \in Node, f \in File : FileAt(n, f)

NodeInv ==
    /\ pc = "files" => rawFilePba # {} \/ node \in Node
    /\ pc \in {"shards", "assemble"} => node \in Node

(* The entry a shard belongs to has one of its path. *)
Below(s) ==
    LET f == shardDict[GfidOf(s)] IN
    node \in Node /\ f \in File /\ fmDict[node][f] # None /\ s \in Paths(fmDict[node][f].shard)

(* The shards in the answers. *)
Given == {p \in shards : <<p[2], p[1][1]>> \in answered}

(* What is to be attached was answered, and all of it was collected. *)
ToAttach ==
    /\ shardPba \subseteq Given
    /\ pc \in {"collect", "files"} => Given \subseteq shardPba
    /\ pc = "assemble" => shardPba = {}

(* Every entry has shards of its own file only, below one node only. *)
ShardAt(n, f) ==
    fmDict[n][f] # None =>
      /\ pc \in {"collect", "files"} => fmDict[n][f].shard = {}
      /\ fmDict[n][f].shard \subseteq Pieces(GfidOf(f))
      /\ fmDict[n][f].shard # {} => n = node

(* A shard answered is to be attached, or one of its path is. *)
Placed(p) == pc \in {"shards", "assemble"} => p \in shardPba \/ Below(p[1])

PieceInv ==
    /\ ToAttach
    /\ \A n \in Node, f \in File : ShardAt(n, f)
    /\ \A p \in Given : Placed(p)
    /\ pc = "started"
         => \A n \in Node, f \in File : fmDict[n][f] # None =>
              \A p \in Pieces(GfidOf(f)) : Below(p[1])

KeyInv ==
    /\ \A g \in Gfid : shardDict[g] # None => GfidOf(shardDict[g]) = g
    /\ \A g \in Gfid \cup {None} :
         shardDict[g] # None => \E n \in Node : Reported(n, shardDict[g])

AsmInv ==
    \A n \in Node, f \in File :
      /\ pc \in {"collect", "files", "shards"} => rawFM[n][f] = None
      /\ rawFM[n][f] # None => /\ fmDict[n][f] # None
                               /\ rawFM[n][f].pba = fmDict[n][f].pba
                               /\ Members(rawFM[n][f].shard) = fmDict[n][f].shard
                               /\ Ordered(rawFM[n][f].shard) /\ Distinct(rawFM[n][f].shard)
      /\ pc = "started" /\ fmDict[n][f] # None => rawFM[n][f] # None

IInv == TypeOK /\ FileInv /\ NodeInv /\ PieceInv /\ KeyInv /\ AsmInv

-----------------------------------------------------------------------------
(* The parts of a shard. *)
LEMMA PieceFacts ==
  ASSUME NEW p \in Piece
  PROVE  /\ p[1] \in Shard /\ p[2] \in Node /\ p = <<p[1], p[2]>>
         /\ GfidOf(p[1]) \in Gfid /\ Number(p) \in Nat
<1>1. p[1] \in Shard /\ p[2] \in Node /\ p = <<p[1], p[2]>>
  BY DEF Piece
<1>2. p[1][2] \in Gfid /\ p[1][3] \in 1..MaxShard
  BY <1>1 DEF Shard
<1>3. QED
  BY <1>1, <1>2, ConstantsAssumption DEF GfidOf, Number

(* The initial states satisfy the invariant. *)
LEMMA InitInv == Init => IInv
<1> SUFFICES ASSUME Init PROVE IInv
  OBVIOUS
<1> USE ConstantsAssumption DEF Init, Nothing
<1>1. TypeOK
  <2>1. bricks \in SUBSET (Node \X Brick) /\ shards \in SUBSET Piece
    OBVIOUS
  <2>2. QED
    BY <2>1 DEF TypeOK
<1>2. FileInv
  BY DEF FileInv, FileAt, Reported
<1>3. NodeInv
  BY DEF NodeInv
<1>4. PieceInv
  BY DEF PieceInv, ToAttach, ShardAt, Placed, Given
<1>5. KeyInv
  BY DEF KeyInv
<1>6. AsmInv
  BY DEF AsmInv
<1>7. QED
  BY <1>1, <1>2, <1>3, <1>4, <1>5, <1>6 DEF IInv

(* What the actions that touch the map do, entry by entry. *)
LEMMA AddFileEffect ==
  ASSUME TypeOK, FileInv, NEW n \in Node, NEW f \in File, AddFile(n, f)
  PROVE  /\ fmDict' \in [Node -> [File -> Unsorted \cup {None}]]
         /\ \A m \in Node, g \in File : m # n \/ g # f => fmDict'[m][g] = fmDict[m][g]
         /\ fmDict[n][f] # None => fmDict' = fmDict
         /\ fmDict[n][f] = None => fmDict'[n][f] = [pba |-> held[n][f], shard |-> {}]
         /\ fmDict'[n][f] # None
<1> USE ConstantsAssumption, NoneAssumption DEF TypeOK, AddFile
<1> DEFINE e == [pba |-> held[n][f], shard |-> {}]
<1>1. CASE fmDict[n][f] # None
  BY <1>1
<1>2. CASE fmDict[n][f] = None
  <2>0. held[n][f] \in Layout \cup {Empty, None}
    OBVIOUS
  <2>1. held[n][f] \in Layout
    BY <2>0 DEF FileInv, FileAt, Reported
  <2>2. e \in Unsorted
    BY <2>1 DEF Unsorted
  <2>3. fmDict' = [fmDict EXCEPT ![n][f] = e]
    BY <1>2
  <2>4. e # None
    BY <2>2
  <2> HIDE DEF e
  <2>5. fmDict' \in [Node -> [File -> Unsorted \cup {None}]]
    <3>1. fmDict \in [Node -> [File -> Unsorted \cup {None}]]
      OBVIOUS
    <3>2. [fmDict[n] EXCEPT ![f] = e] \in [File -> Unsorted \cup {None}]
      BY ONLY <2>2, <3>1
    <3>3. QED
      BY ONLY <2>3, <3>1, <3>2
  <2>6. \A m \in Node, g \in File : m # n \/ g # f => fmDict'[m][g] = fmDict[m][g]
    BY <2>3
  <2>7. fmDict'[n][f] = e
    BY <2>3
  <2>8. QED
    BY <1>2, <2>4, <2>5, <2>6, <2>7 DEF e
<1>3. QED
  BY <1>1, <1>2

LEMMA AddShardEffect ==
  ASSUME TypeOK, NEW p \in Piece, AddShard(p), node \in Node
  PROVE  LET f == shardDict[GfidOf(p[1])] IN
         /\ f \in File /\ fmDict[node][f] # None
         /\ fmDict' \in [Node -> [File -> Unsorted \cup {None}]]
         /\ \A m \in Node, g \in File : m # node \/ g # f => fmDict'[m][g] = fmDict[m][g]
         /\ fmDict'[node][f] # None
         /\ fmDict'[node][f].pba = fmDict[node][f].pba
         /\ fmDict'[node][f].shard = {q \in fmDict[node][f].shard : q[1] # p[1]} \cup {p}
<1> DEFINE f == shardDict[GfidOf(p[1])]
           S == {q \in fmDict[node][f].shard : q[1] # p[1]} \cup {p}
           e == [pba |-> fmDict[node][f].pba, shard |-> S]
<1>1. f \in File /\ fmDict[node][f] # None
  BY DEF AddShard, Listed
<1>2. fmDict[node][f] \in Unsorted
  BY <1>1 DEF TypeOK
<1>4. S \in SUBSET Piece
  BY <1>2 DEF Unsorted
<1>5. e \in Unsorted
  BY <1>2, <1>4 DEF Unsorted
<1>6. fmDict' = [fmDict EXCEPT ![node][f].shard = S]
  BY DEF AddShard
<1> HIDE DEF S
<1>7. [fmDict[node][f] EXCEPT !.shard = S] = e
  BY <1>2 DEF Unsorted
<1>8. fmDict' = [fmDict EXCEPT ![node][f] = [fmDict[node][f] EXCEPT !.shard = S]]
  BY <1>6, <1>1 DEF TypeOK
<1>9. fmDict' = [fmDict EXCEPT ![node][f] = e]
  BY <1>7, <1>8
<1>10. e # None /\ e.pba = fmDict[node][f].pba /\ e.shard = S
  BY <1>5, NoneAssumption
<1> HIDE DEF e, f
<1>11. fmDict' \in [Node -> [File -> Unsorted \cup {None}]]
  BY <1>1, <1>5, <1>9 DEF TypeOK
<1>12. \A m \in Node, g \in File : m # node \/ g # f => fmDict'[m][g] = fmDict[m][g]
  BY <1>1, <1>9 DEF TypeOK
<1>13. fmDict'[node][f] = e
  BY <1>1, <1>9 DEF TypeOK
<1>14. QED
  BY <1>1, <1>10, <1>11, <1>12, <1>13 DEF f, S

LEMMA AssembleEffect ==
  ASSUME TypeOK, NEW n \in Node, NEW f \in File, Assemble(n, f)
  PROVE  /\ fmDict[n][f] # None
         /\ rawFM' \in [Node -> [File -> Sorted \cup {None}]]
         /\ \A m \in Node, g \in File : m # n \/ g # f => rawFM'[m][g] = rawFM[m][g]
         /\ rawFM'[n][f] # None
         /\ rawFM'[n][f].pba = fmDict[n][f].pba
         /\ Members(rawFM'[n][f].shard) = fmDict[n][f].shard
         /\ Ordered(rawFM'[n][f].shard) /\ Distinct(rawFM'[n][f].shard)
<1>1. fmDict[n][f] # None
  BY DEF Assemble, Listed
<1>2. fmDict[n][f] \in Unsorted
  BY <1>1 DEF TypeOK
<1>3. PICK s \in InOrder(fmDict[n][f].shard) :
        rawFM' = [rawFM EXCEPT ![n][f] = [pba |-> fmDict[n][f].pba, shard |-> s]]
  BY DEF Assemble
<1> DEFINE e == [pba |-> fmDict[n][f].pba, shard |-> s]
<1>4. Members(s) = fmDict[n][f].shard /\ Ordered(s) /\ Distinct(s)
  BY DEF InOrder, Lists
<1>5. PICK k \in 0..MaxPiece : s \in [1..k -> fmDict[n][f].shard]
  BY DEF InOrder, Lists
<1>6. s \in Seq(fmDict[n][f].shard)
  BY <1>5, ConstantsAssumption
<1>7. s \in Seq(Piece)
  BY <1>2, <1>5, ConstantsAssumption DEF Unsorted
<1>8. e \in Sorted
  BY <1>2, <1>7 DEF Unsorted, Sorted
<1>9. e # None /\ e.pba = fmDict[n][f].pba /\ e.shard = s
  BY <1>8, NoneAssumption
<1> HIDE DEF e
<1>10. rawFM' = [rawFM EXCEPT ![n][f] = e]
  BY <1>3 DEF e
<1>11. rawFM' \in [Node -> [File -> Sorted \cup {None}]]
  BY <1>8, <1>10 DEF TypeOK
<1>12. \A m \in Node, g \in File : m # n \/ g # f => rawFM'[m][g] = rawFM[m][g]
  BY <1>10 DEF TypeOK
<1>13. rawFM'[n][f] = e
  BY <1>10 DEF TypeOK
<1>14. QED
  BY <1>1, <1>4, <1>9, <1>11, <1>12, <1>13

(* What the answer of a worker changes: it has some files of the node and   *)
(* some shards more.                                                        *)
LEMMA CollectEffect ==
  ASSUME TypeOK, NEW n \in Node, Collect(n)
  PROVE  \E files \in SUBSET File, more \in SUBSET shards :
         /\ \A m \in Node, f \in File :
              /\ Reported(m, f)' <=> Reported(m, f) \/ (m = n /\ f \in files)
              /\ <<m, f>> \in rawFilePba' <=> <<m, f>> \in rawFilePba \/ (m = n /\ f \in files)
         /\ rawFilePba' \in SUBSET (Node \X File)
         /\ shardPba' = shardPba \cup more
         /\ Given' = Given \cup more
         /\ answered' \in SUBSET (Node \X Brick)
         /\ shardDict' \in [Gfid \cup {None} -> File \cup {None}]
         /\ \A g \in Gfid \cup {None} :
              \/ shardDict'[g] = shardDict[g]
              \/ shardDict'[g] \in files /\ (g # None => GfidOf(shardDict'[g]) = g)
<1>1. PICK reply \in SUBSET {b \in bricks : b[1] = n} :
         LET files == FilesOn(n, reply) IN
         /\ answered' = answered \cup reply
         /\ rawFilePba' = rawFilePba \cup ({n} \X files)
         /\ shardPba' = shardPba \cup {p \in shards : <<p[2], p[1][1]>> \in reply}
         /\ shardDict' \in [Gfid \cup {None} -> File \cup {None}]
         /\ \E failed \in SUBSET files : \A g \in Gfid \cup {None} :
              IF Under(g, files, failed) = {} THEN shardDict'[g] = shardDict[g]
              ELSE shardDict'[g] \in Under(g, files, failed)
  BY DEF Collect
<1> DEFINE files == FilesOn(n, reply)
           more == {p \in shards : <<p[2], p[1][1]>> \in reply}
<1>2. PICK failed \in SUBSET files : \A g \in Gfid \cup {None} :
              IF Under(g, files, failed) = {} THEN shardDict'[g] = shardDict[g]
              ELSE shardDict'[g] \in Under(g, files, failed)
  BY <1>1
<1>3. UNCHANGED <<held, shards, bricks>>
  BY DEF Collect, input
<1>4. \A m, b : <<m, b>> \in reply => m = n
  BY <1>1
<1>5. ASSUME NEW m \in Node, NEW f \in File
      PROVE  Reported(m, f)' <=> Reported(m, f) \/ (m = n /\ f \in files)
  BY <1>1, <1>3, <1>4 DEF Reported, FilesOn
<1>6. files \in SUBSET File /\ more \in SUBSET shards
  BY DEF FilesOn
<1>7. Given' = Given \cup more
  BY <1>1, <1>3 DEF Given
<1>8. answered' \in SUBSET (Node \X Brick)
  BY <1>1 DEF TypeOK
<1>9. \A g \in Gfid \cup {None} :
              \/ shardDict'[g] = shardDict[g]
              \/ shardDict'[g] \in files /\ (g # None => GfidOf(shardDict'[g]) = g)
  BY <1>2 DEF Under
<1>10. /\ rawFilePba' = rawFilePba \cup ({n} \X files) /\ shardPba' = shardPba \cup more
       /\ shardDict' \in [Gfid \cup {None} -> File \cup {None}]
  BY <1>1
<1> HIDE DEF files, more
<1>11. rawFilePba' \in SUBSET (Node \X File)
  BY <1>6, <1>10 DEF TypeOK
<1>12. \A m \in Node, f \in File :
         <<m, f>> \in rawFilePba' <=> <<m, f>> \in rawFilePba \/ (m = n /\ f \in files)
  BY <1>10
<1>13. QED
  BY <1>5, <1>6, <1>7, <1>8, <1>9, <1>10, <1>11, <1>12

(* Only an answer changes what was reported. *)
LEMMA SameReport ==
  ASSUME UNCHANGED <<held, shards, answered>>
  PROVE  /\ \A n, f : Reported(n, f)' <=> Reported(n, f)
         /\ Given' = Given /\ \A g : Pieces(g)' = Pieces(g)
BY DEF Reported, Given, Pieces

(* The shards of a file are those given that have its gfid. *)
LEMMA PiecesGiven ==
  \A g : Pieces(g) = {p \in Given : GfidOf(p[1]) = g}
BY DEF Pieces, Given

LEMMA TypeStep == IInv /\ [Next]_vars => TypeOK'
<1> SUFFICES ASSUME IInv, [Next]_vars PROVE TypeOK'
  OBVIOUS
<1>0. TypeOK /\ FileInv /\ NodeInv
  BY DEF IInv
<1>1. CASE UNCHANGED vars
  BY <1>0, <1>1 DEF TypeOK, vars
<1>2. ASSUME NEW n \in Node, Collect(n) PROVE TypeOK'
  <2>1. /\ rawFilePba' \in SUBSET (Node \X File) /\ answered' \in SUBSET (Node \X Brick)
        /\ shardDict' \in [Gfid \cup {None} -> File \cup {None}]
    BY <1>0, <1>2, CollectEffect
  <2>2. PICK more \in SUBSET shards : shardPba' = shardPba \cup more
    BY <1>0, <1>2, CollectEffect
  <2>3. shardPba' \in SUBSET Piece
    BY <1>0, <2>2 DEF TypeOK
  <2>4. QED
    BY <1>0, <1>2, <2>1, <2>3 DEF TypeOK, Collect, input
<1>3. CASE Dies
  BY <1>0, <1>3 DEF TypeOK, Dies, input
<1>4. CASE Collected \/ FilesAdded \/ ShardsAdded \/ Assembled
  BY <1>0, <1>4 DEF TypeOK, Collected, FilesAdded, ShardsAdded, Assembled, input
<1>5. ASSUME NEW n \in Node, NEW f \in File, AddFile(n, f) PROVE TypeOK'
  BY <1>0, <1>5, AddFileEffect DEF TypeOK, AddFile, input
<1>6. ASSUME NEW p \in Piece, AddShard(p) PROVE TypeOK'
  <2>1. node \in Node
    BY <1>0, <1>6 DEF AddShard, NodeInv
  <2>2. fmDict' \in [Node -> [File -> Unsorted \cup {None}]]
    BY <1>0, <1>6, <2>1, AddShardEffect
  <2>3. QED
    BY <1>0, <1>6, <2>2 DEF TypeOK, AddShard, input
<1>7. ASSUME NEW n \in Node, NEW f \in File, Assemble(n, f) PROVE TypeOK'
  <2>1. rawFM' \in [Node -> [File -> Sorted \cup {None}]]
    BY <1>0, <1>7, AssembleEffect
  <2>2. QED
    BY <1>0, <1>7, <2>1 DEF TypeOK, Assemble, input
<1>8. QED
  BY <1>1, <1>2, <1>3, <1>4, <1>5, <1>6, <1>7
     DEF Next, CollectRaises, AddFileRaises, AddShardRaises

LEMMA FileStep == IInv /\ [Next]_vars => FileInv'
<1> SUFFICES ASSUME IInv, [Next]_vars PROVE FileInv'
  OBVIOUS
<1>0. TypeOK /\ FileInv /\ NodeInv
  BY DEF IInv
<1>1. CASE UNCHANGED vars
  BY <1>0, <1>1, SameReport DEF FileInv, FileAt, vars
<1>2. ASSUME NEW n \in Node, Collect(n) PROVE FileInv'
  <2>1. pc = "collect" /\ UNCHANGED <<held, pc, fmDict>>
    BY <1>2 DEF Collect, input
  <2>2. PICK files \in SUBSET File : \A m \in Node, f \in File :
              /\ Reported(m, f)' <=> Reported(m, f) \/ (m = n /\ f \in files)
              /\ <<m, f>> \in rawFilePba' <=> <<m, f>> \in rawFilePba \/ (m = n /\ f \in files)
    BY <1>0, <1>2, CollectEffect
  <2>3. ASSUME NEW m \in Node, NEW g \in File PROVE FileAt(m, g)'
    <3>1. FileAt(m, g)
      BY <1>0 DEF FileInv
    <3>2. QED
      BY <2>1, <2>2, <3>1 DEF FileAt
  <2>4. QED
    BY <2>3 DEF FileInv
<1>3. CASE Dies
  <2>1. UNCHANGED <<held, shards, answered>>
    BY <1>3 DEF Dies, input
  <2>2. QED
    BY <1>0, <1>3, <2>1, SameReport DEF FileInv, FileAt, Dies
<1>4. CASE Collected
  <2>1. ASSUME NEW m \in Node, NEW g \in File PROVE FileAt(m, g)'
    <3>1. FileAt(m, g)
      BY <1>0 DEF FileInv
    <3>2. QED
      BY <1>4, <3>1, SameReport DEF FileAt, Collected, input
  <2>2. QED
    BY <2>1 DEF FileInv
<1>5. CASE FilesAdded \/ ShardsAdded \/ Assembled
  <2>1. ASSUME NEW m \in Node, NEW g \in File PROVE FileAt(m, g)'
    <3>1. FileAt(m, g)
      BY <1>0 DEF FileInv
    <3>2. QED
      BY <1>5, <3>1, SameReport DEF FileAt, FilesAdded, ShardsAdded, Assembled, input
  <2>2. QED
    BY <2>1 DEF FileInv
<1>6. ASSUME NEW n \in Node, NEW f \in File, AddFile(n, f) PROVE FileInv'
  <2>0. UNCHANGED <<held, shards, answered>>
    BY <1>6 DEF AddFile, input
  <2>1. /\ pc = "files" /\ UNCHANGED <<held, pc>> /\ rawFilePba' = rawFilePba \ {<<n, f>>}
        /\ \A m \in Node, g \in File : Reported(m, g)' <=> Reported(m, g)
    BY <1>6, <2>0, SameReport DEF AddFile
  <2>2. Reported(n, f)
    BY <1>0, <1>6 DEF FileInv, FileAt, AddFile
  <2>3. ASSUME NEW m \in Node, NEW g \in File PROVE FileAt(m, g)'
    <3>1. FileAt(m, g)
      BY <1>0 DEF FileInv
    <3>2. CASE m # n \/ g # f
      <4>0. \A o \in Node, h \in File : o # n \/ h # f => fmDict'[o][h] = fmDict[o][h]
        BY <1>0, <1>6, AddFileEffect
      <4>1. fmDict'[m][g] = fmDict[m][g]
        BY <3>2, <4>0
      <4>2. QED
        BY <2>1, <3>1, <3>2, <4>1 DEF FileAt
    <3>3. CASE m = n /\ g = f
      <4>1. /\ fmDict[n][f] # None => fmDict' = fmDict
            /\ fmDict[n][f] = None => fmDict'[n][f] = [pba |-> held[n][f], shard |-> {}]
            /\ fmDict'[n][f] # None
        BY <1>0, <1>6, AddFileEffect
      <4>2. QED
        BY <2>1, <2>2, <3>1, <3>3, <4>1 DEF FileAt
    <3>4. QED
      BY <3>2, <3>3
  <2>4. QED
    BY <2>3 DEF FileInv
<1>7. ASSUME NEW p \in Piece, AddShard(p) PROVE FileInv'
  <2>1. node \in Node
    BY <1>0, <1>7 DEF AddShard, NodeInv
  <2>2. pc = "shards" /\ UNCHANGED <<held, shards, answered, pc, rawFilePba>>
    BY <1>7 DEF AddShard, input
  <2>3. \A m \in Node, g \in File : /\ fmDict'[m][g] = None <=> fmDict[m][g] = None
                                    /\ fmDict[m][g] # None => fmDict'[m][g].pba = fmDict[m][g].pba
    BY <1>0, <1>7, <2>1, AddShardEffect
  <2>4. QED
    BY <1>0, <2>2, <2>3, SameReport DEF FileInv, FileAt
<1>8. ASSUME NEW n \in Node, NEW f \in File, Assemble(n, f) PROVE FileInv'
  <2>1. UNCHANGED <<held, shards, answered, pc, rawFilePba, fmDict>>
    BY <1>8 DEF Assemble, input
  <2>2. QED
    BY <1>0, <2>1, SameReport DEF FileInv, FileAt
<1>9. QED
  BY <1>1, <1>2, <1>3, <1>4, <1>5, <1>6, <1>7, <1>8
     DEF Next, CollectRaises, AddFileRaises, AddShardRaises

LEMMA NodeStep == IInv /\ [Next]_vars => NodeInv'
<1> SUFFICES ASSUME IInv, [Next]_vars PROVE NodeInv'
  OBVIOUS
<1>0. TypeOK /\ FileInv /\ NodeInv
  BY DEF IInv
<1>1. CASE UNCHANGED vars
  BY <1>0, <1>1 DEF NodeInv, vars
<1>2. ASSUME NEW n \in Node, Collect(n) PROVE NodeInv'
  BY <1>0, <1>2 DEF NodeInv, Collect
<1>3. CASE Dies
  BY <1>0, <1>3 DEF NodeInv, Dies
<1>4. CASE Collected \/ FilesAdded \/ ShardsAdded \/ Assembled
  BY <1>0, <1>4 DEF NodeInv, Collected, FilesAdded, ShardsAdded, Assembled
<1>5. ASSUME NEW n \in Node, NEW f \in File, AddFile(n, f) PROVE NodeInv'
  BY <1>0, <1>5 DEF NodeInv, AddFile
<1>6. ASSUME NEW p \in Piece, AddShard(p) PROVE NodeInv'
  BY <1>0, <1>6 DEF NodeInv, AddShard
<1>7. ASSUME NEW n \in Node, NEW f \in File, Assemble(n, f) PROVE NodeInv'
  BY <1>0, <1>7 DEF NodeInv, Assemble
<1>8. QED
  BY <1>1, <1>2, <1>3, <1>4, <1>5, <1>6, <1>7
     DEF Next, CollectRaises, AddFileRaises, AddShardRaises

LEMMA KeyStep == IInv /\ [Next]_vars => KeyInv'
<1> SUFFICES ASSUME IInv, [Next]_vars PROVE KeyInv'
  OBVIOUS
<1>0. TypeOK /\ KeyInv
  BY DEF IInv
<1>1. ASSUME UNCHANGED <<held, shards, answered, shardDict>> PROVE KeyInv'
  BY <1>0, <1>1, SameReport DEF KeyInv
<1>2. ASSUME NEW n \in Node, Collect(n) PROVE KeyInv'
  <2>1. PICK files \in SUBSET File :
          /\ \A m \in Node, f \in File : Reported(m, f)' <=> Reported(m, f) \/ (m = n /\ f \in files)
          /\ \A g \in Gfid \cup {None} :
              \/ shardDict'[g] = shardDict[g]
              \/ shardDict'[g] \in files /\ (g # None => GfidOf(shardDict'[g]) = g)
          /\ shardDict' \in [Gfid \cup {None} -> File \cup {None}]
    BY <1>0, <1>2, CollectEffect
  <2>2. \A g \in Gfid : shardDict'[g] # None => GfidOf(shardDict'[g]) = g
    BY <1>0, <2>1, ConstantsAssumption DEF KeyInv
  <2>3. ASSUME NEW g \in Gfid \cup {None}, (shardDict[g] # None)'
        PROVE  (\E m \in Node : Reported(m, shardDict[g]))'
    <3>0. PICK x \in File : x = shardDict'[g]
      BY <2>1, <2>3
    <3>1. \E m \in Node : Reported(m, x)'
      <4>1. CASE shardDict'[g] = shardDict[g]
        <5>1. PICK m \in Node : Reported(m, x)
          BY <1>0, <2>3, <3>0, <4>1 DEF KeyInv
        <5>2. QED
          BY <2>1, <5>1
      <4>2. CASE shardDict'[g] \in files
        BY <2>1, <3>0, <4>2
      <4>3. QED
        BY <2>1, <4>1, <4>2
    <3>2. QED
      BY <3>0, <3>1 DEF Reported
  <2>4. QED
    BY <2>2, <2>3 DEF KeyInv
<1>3. QED
  BY <1>1, <1>2
     DEF Next, vars, input, Dies, CollectRaises, Collected, AddFile, AddFileRaises, FilesAdded,
         AddShard, AddShardRaises, ShardsAdded, Assemble, Assembled

LEMMA AsmStep == IInv /\ [Next]_vars => AsmInv'
<1> SUFFICES ASSUME IInv, [Next]_vars PROVE AsmInv'
  OBVIOUS
<1>0. TypeOK /\ FileInv /\ NodeInv /\ AsmInv
  BY DEF IInv
<1>1. CASE UNCHANGED vars
  BY <1>0, <1>1 DEF AsmInv, vars
<1>2. CASE Dies
  BY <1>0, <1>2 DEF AsmInv, Dies
<1>3. ASSUME NEW n \in Node, Collect(n) PROVE AsmInv'
  BY <1>0, <1>3 DEF AsmInv, Collect
<1>4. CASE Collected
  BY <1>0, <1>4 DEF AsmInv, Collected, FileInv, FileAt
<1>5. ASSUME NEW n \in Node, NEW f \in File, AddFile(n, f) PROVE AsmInv'
  BY <1>0, <1>5 DEF AsmInv, AddFile
<1>6. CASE FilesAdded \/ ShardsAdded
  BY <1>0, <1>6 DEF AsmInv, FilesAdded, ShardsAdded
<1>7. ASSUME NEW p \in Piece, AddShard(p) PROVE AsmInv'
  BY <1>0, <1>7 DEF AsmInv, AddShard
<1>8. ASSUME NEW n \in Node, NEW f \in File, Assemble(n, f) PROVE AsmInv'
  <2>1. pc = "assemble" /\ UNCHANGED <<pc, fmDict>>
    BY <1>8 DEF Assemble
  <2>2. /\ fmDict[n][f] # None
        /\ \A m \in Node, g \in File : m # n \/ g # f => rawFM'[m][g] = rawFM[m][g]
        /\ rawFM'[n][f] # None
        /\ rawFM'[n][f].pba = fmDict[n][f].pba
        /\ Members(rawFM'[n][f].shard) = fmDict[n][f].shard
        /\ Ordered(rawFM'[n][f].shard) /\ Distinct(rawFM'[n][f].shard)
    BY <1>0, <1>8, AssembleEffect
  <2>3. QED
    BY ONLY <1>0, <2>1, <2>2 DEF AsmInv
<1>9. CASE Assembled
  BY <1>0, <1>9 DEF AsmInv, Assembled, Listed
<1>10. QED
  BY <1>1, <1>2, <1>3, <1>4, <1>5, <1>6, <1>7, <1>8, <1>9
     DEF Next, CollectRaises, AddFileRaises, AddShardRaises

LEMMA PieceStep == IInv /\ [Next]_vars => PieceInv'
<1> SUFFICES ASSUME IInv, [Next]_vars PROVE PieceInv'
  OBVIOUS
<1>0. TypeOK /\ FileInv /\ NodeInv /\ PieceInv /\ KeyInv
  BY DEF IInv
<1>1. ASSUME UNCHANGED <<held, shards, answered, shardPba, shardDict, fmDict, node>>, pc' = pc \/ pc' = "dead"
      PROVE  PieceInv'
  <2>1. /\ Given' = Given /\ \A g : Pieces(g)' = Pieces(g)
        /\ \A s : Below(s)' <=> Below(s)
    BY <1>1, SameReport DEF Below, Paths
  <2>2. ToAttach' /\ \A n \in Node, f \in File : ShardAt(n, f)'
    BY <1>0, <1>1, <2>1 DEF PieceInv, ToAttach, ShardAt
  <2>3. QED
    BY <1>0, <1>1, <2>1, <2>2 DEF PieceInv, Placed
<1>3. ASSUME NEW n \in Node, Collect(n) PROVE PieceInv'
  <2>1. pc = "collect" /\ UNCHANGED <<pc, fmDict>>
    BY <1>3 DEF Collect
  <2>2. PICK more : shardPba' = shardPba \cup more /\ Given' = Given \cup more
    BY <1>0, <1>3, CollectEffect
  <2>3. ToAttach'
    BY <1>0, <2>1, <2>2 DEF PieceInv, ToAttach
  <2>4. \A m \in Node, f \in File : fmDict[m][f] = None
    BY <1>0, <2>1 DEF FileInv, FileAt
  <2>5. QED
    BY <2>1, <2>3, <2>4 DEF PieceInv, ShardAt, Placed
<1>4. CASE Collected
  <2>1. /\ UNCHANGED <<held, shards, answered, shardPba, fmDict>>
        /\ pc = "collect" /\ pc' \in {"files", "started"}
    BY <1>4 DEF Collected, input
  <2>2. \A m \in Node, f \in File : fmDict[m][f] = None
    BY <1>0, <2>1 DEF FileInv, FileAt
  <2>3. ToAttach'
    BY <1>0, <2>1, SameReport DEF PieceInv, ToAttach
  <2>4. QED
    BY <2>1, <2>2, <2>3 DEF PieceInv, ShardAt, Placed
<1>5. ASSUME NEW n \in Node, NEW f \in File, AddFile(n, f) PROVE PieceInv'
  <2>1. pc = "files" /\ UNCHANGED <<held, shards, answered, pc, shardPba>>
    BY <1>5 DEF AddFile, input
  <2>2. ToAttach'
    BY <1>0, <2>1, SameReport DEF PieceInv, ToAttach
  <2>3. ASSUME NEW m \in Node, NEW g \in File PROVE ShardAt(m, g)'
    <3>1. ShardAt(m, g)
      BY <1>0 DEF PieceInv
    <3>2. /\ m # n \/ g # f => fmDict'[m][g] = fmDict[m][g]
          /\ fmDict[n][f] # None => fmDict' = fmDict
          /\ fmDict[n][f] = None => fmDict'[n][f] = [pba |-> held[n][f], shard |-> {}]
      BY <1>0, <1>5, AddFileEffect
    <3>3. fmDict'[m][g] # None => fmDict'[m][g].shard = {}
      BY <2>1, <3>1, <3>2 DEF ShardAt
    <3>4. QED
      BY <2>1, <3>3 DEF ShardAt
  <2>4. QED
    BY <2>1, <2>2, <2>3 DEF PieceInv, Placed
<1>6. CASE FilesAdded
  <2>1. /\ pc = "files" /\ pc' = "shards"
        /\ UNCHANGED <<held, shards, answered, shardPba, fmDict, node>>
    BY <1>6 DEF FilesAdded, input
  <2>2. Given' = Given /\ \A g : Pieces(g)' = Pieces(g)
    BY <2>1, SameReport
  <2>3. ToAttach'
    BY <1>0, <2>1, <2>2 DEF PieceInv, ToAttach
  <2>4. \A m \in Node, g \in File : ShardAt(m, g)'
    BY <1>0, <2>1, <2>2 DEF PieceInv, ShardAt
  <2>5. Given \subseteq shardPba
    BY <1>0, <2>1 DEF PieceInv, ToAttach
  <2>6. QED
    BY <2>1, <2>2, <2>3, <2>4, <2>5 DEF PieceInv, Placed
<1>7. ASSUME NEW p \in Piece, AddShard(p) PROVE PieceInv'
  <2> DEFINE s == p[1]
             f == shardDict[GfidOf(s)]
  <2>1. /\ pc = "shards" /\ UNCHANGED <<held, shards, answered, pc, shardDict, node>>
        /\ p \in shardPba /\ shardPba' = shardPba \ {p}
    BY <1>7 DEF AddShard, input
  <2>2. Given' = Given /\ \A g : Pieces(g)' = Pieces(g)
    BY <2>1, SameReport
  <2>3. node \in Node
    BY <1>0, <2>1 DEF NodeInv
  <2>4. /\ f \in File /\ fmDict[node][f] # None
        /\ \A m \in Node, g \in File : m # node \/ g # f => fmDict'[m][g] = fmDict[m][g]
        /\ fmDict'[node][f] # None
        /\ fmDict'[node][f].shard = {q \in fmDict[node][f].shard : q[1] # s} \cup {p}
    BY <1>0, <1>7, <2>3, AddShardEffect
  <2>5. GfidOf(f) = GfidOf(s)
    BY <1>0, <2>4, PieceFacts, ConstantsAssumption DEF KeyInv
  <2>6. p \in Pieces(GfidOf(f))
    BY <1>0, <2>1, <2>5, PiecesGiven DEF PieceInv, ToAttach
  <2>7. Paths(fmDict'[node][f].shard) = Paths(fmDict[node][f].shard) \cup {s}
    BY <2>4 DEF Paths
  <2>8. ToAttach'
    BY <1>0, <2>1, <2>2 DEF PieceInv, ToAttach
  <2> HIDE DEF f
  <2>9. ASSUME NEW m \in Node, NEW g \in File PROVE ShardAt(m, g)'
    <3>1. ShardAt(m, g)
      BY <1>0 DEF PieceInv
    <3>2. CASE m # node \/ g # f
      BY <2>1, <2>2, <2>4, <3>1, <3>2 DEF ShardAt
    <3>3. CASE m = node /\ g = f
      BY <2>1, <2>2, <2>4, <2>6, <3>1, <3>3 DEF ShardAt
    <3>4. QED
      BY <3>2, <3>3
  <2>10. ASSUME NEW x, Below(x) PROVE Below(x)'
    <3> DEFINE h == shardDict[GfidOf(x)]
    <3>1. h \in File /\ fmDict[node][h] # None /\ x \in Paths(fmDict[node][h].shard)
      BY <2>10 DEF Below
    <3>2. fmDict'[node][h] # None /\ x \in Paths(fmDict'[node][h].shard)
      <4>1. CASE h = f
        BY <2>4, <2>7, <3>1, <4>1
      <4>2. CASE h # f
        BY <2>3, <2>4, <3>1, <4>2
      <4>3. QED
        BY <4>1, <4>2
    <3>3. QED
      BY <2>1, <2>3, <3>1, <3>2 DEF Below
  <2>11. Below(s)'
    BY <2>1, <2>3, <2>4, <2>7 DEF Below, f
  <2>12. ASSUME NEW q \in Given PROVE Placed(q)'
    <3>1. q \in shardPba \/ Below(q[1])
      BY <1>0, <2>1 DEF PieceInv, Placed
    <3>2. QED
      BY <2>1, <2>10, <2>11, <3>1 DEF Placed
  <2>13. QED
    BY <2>1, <2>2, <2>8, <2>9, <2>12 DEF PieceInv
<1>8. CASE ShardsAdded
  <2>1. /\ pc = "shards" /\ pc' = "assemble" /\ shardPba = {}
        /\ UNCHANGED <<held, shards, answered, shardPba, shardDict, fmDict, node>>
    BY <1>8 DEF ShardsAdded, input
  <2>2. /\ Given' = Given /\ \A g : Pieces(g)' = Pieces(g)
        /\ \A s : Below(s)' <=> Below(s)
    BY <2>1, SameReport DEF Below, Paths
  <2>3. ToAttach' /\ \A m \in Node, g \in File : ShardAt(m, g)'
    BY <1>0, <2>1, <2>2 DEF PieceInv, ToAttach, ShardAt
  <2>4. QED
    BY <1>0, <2>1, <2>2, <2>3 DEF PieceInv, Placed
<1>10. CASE Assembled
  <2>1. /\ pc = "assemble" /\ pc' = "started"
        /\ UNCHANGED <<held, shards, answered, shardPba, shardDict, fmDict, node>>
    BY <1>10 DEF Assembled, input
  <2>2. /\ Given' = Given /\ \A g : Pieces(g)' = Pieces(g)
        /\ \A s : Below(s)' <=> Below(s)
    BY <2>1, SameReport DEF Below, Paths
  <2>3. ToAttach' /\ \A m \in Node, g \in File : ShardAt(m, g)'
    BY <1>0, <2>1, <2>2 DEF PieceInv, ToAttach, ShardAt
  <2>4. \A p \in Given : Below(p[1])
    BY <1>0, <2>1 DEF PieceInv, ToAttach, Placed
  <2>5. QED
    BY <2>1, <2>2, <2>3, <2>4, PiecesGiven DEF PieceInv, Placed
<1>11. QED
  BY <1>1, <1>3, <1>4, <1>5, <1>6, <1>7, <1>8, <1>10
     DEF Next, vars, input, Dies, CollectRaises, AddFileRaises, AddShardRaises, Assemble

LEMMA InvCorrect == Spec => []IInv
<1>1. Init => IInv
  BY InitInv
<1>2. IInv /\ [Next]_vars => IInv'
  BY TypeStep, FileStep, NodeStep, PieceStep, KeyStep, AsmStep DEF IInv
<1>3. QED
  BY <1>1, <1>2, PTL DEF Spec

(* The state of __init__ keeps its types, whatever the nodes hold and in    *)
(* whatever order they answer.                                              *)
THEOREM TypeCorrect == Spec => []TypeOK
<1>1. IInv => TypeOK
  BY DEF IInv
<1>2. QED
  BY <1>1, InvCorrect, PTL

(* If Trace starts, it starts with every file that was answered and, by     *)
(* number, nothing but its shards; one entry of a file has them all, and in *)
(* a distributed volume every entry has exactly its own.                    *)
THEOREM CompleteCorrect == Spec => []Complete
<1>1. ASSUME IInv PROVE Complete
  <2>0. TypeOK /\ FileInv /\ PieceInv /\ KeyInv /\ AsmInv
    BY <1>1 DEF IInv
  <2> SUFFICES ASSUME pc = "started", NEW n \in Node, NEW f \in File
               PROVE  IF ~Reported(n, f) THEN rawFM[n][f] = None
                      ELSE LET list == rawFM[n][f].shard IN
                           /\ rawFM[n][f] # None /\ rawFM[n][f].pba = held[n][f]
                           /\ Ordered(list) /\ Distinct(list)
                           /\ Members(list) \subseteq Pieces(GfidOf(f))
                           /\ Whole(GfidOf(f))
                           /\ Distributed =>
                                /\ Members(list) = Pieces(GfidOf(f))
                                /\ \A i, j \in 1..Len(list) : i < j => Number(list[i]) < Number(list[j])
    BY DEF Complete
  <2>1. CASE ~Reported(n, f)
    BY <2>0, <2>1 DEF FileInv, FileAt, AsmInv
  <2>2. CASE Reported(n, f)
    <3> DEFINE list == rawFM[n][f].shard
               g == GfidOf(f)
    <3>0. g \in Gfid
      BY DEF File, GfidOf
    <3>1. fmDict[n][f] # None /\ fmDict[n][f].pba = held[n][f]
      BY <2>0, <2>2 DEF FileInv, FileAt
    <3>2. /\ rawFM[n][f] # None /\ rawFM[n][f].pba = fmDict[n][f].pba
          /\ Members(list) = fmDict[n][f].shard
          /\ Ordered(list) /\ Distinct(list)
      BY <2>0, <3>1 DEF AsmInv
    <3>3. fmDict[n][f].shard \subseteq Pieces(g)
      BY <2>0, <3>1 DEF PieceInv, ShardAt
    <3>4. \A p \in Pieces(g) : Below(p[1]) /\ GfidOf(p[1]) = g
      BY <2>0, <3>1 DEF PieceInv, Pieces
    <3>5. Whole(g)
      <4>1. CASE Pieces(g) = {}
        BY <3>2, <4>1 DEF Whole, Paths
      <4>2. CASE Pieces(g) # {}
        <5> DEFINE h == shardDict[g]
        <5>1. node \in Node /\ h \in File /\ fmDict[node][h] # None
          BY <3>4, <4>2 DEF Below
        <5>2. GfidOf(h) = g
          BY <2>0, <3>0, <5>1, ConstantsAssumption DEF KeyInv
        <5>3. rawFM[node][h] # None /\ Members(rawFM[node][h].shard) = fmDict[node][h].shard
          BY <2>0, <5>1 DEF AsmInv
        <5>4. \A p \in Pieces(g) : p[1] \in Paths(fmDict[node][h].shard)
          BY <3>4 DEF Below
        <5>5. Paths(Pieces(g)) \subseteq Paths(Members(rawFM[node][h].shard))
          BY <5>3, <5>4 DEF Paths
        <5> HIDE DEF h, g
        <5>6. QED
          BY <5>1, <5>2, <5>3, <5>5 DEF Whole
      <4>3. QED
        BY <4>1, <4>2
    <3>6. ASSUME Distributed, NEW p \in Pieces(g) PROVE p \in fmDict[n][f].shard
      <4> DEFINE h == shardDict[g]
      <4>1. node \in Node /\ h \in File /\ fmDict[node][h] # None /\ p[1] \in Paths(fmDict[node][h].shard)
        BY <3>4, <3>6 DEF Below
      <4>2. GfidOf(h) = g
        BY <2>0, <3>0, <4>1, ConstantsAssumption DEF KeyInv
      <4>3. held[node][h] # None /\ held[n][f] # None
        BY <2>0, <2>2, <4>1 DEF FileInv, FileAt, Reported
      <4> HIDE DEF h
      <4>4. node = n /\ h = f
        BY <3>6, <4>1, <4>2, <4>3 DEF Distributed
      <4>5. PICK q \in fmDict[n][f].shard : q[1] = p[1]
        BY <4>1, <4>4 DEF Paths
      <4>6. Number(q) = Number(p) /\ q \in Pieces(g)
        BY <3>3, <4>5 DEF Number
      <4>7. q = p
        BY <3>0, <3>6, <4>6 DEF Distributed
      <4>8. QED
        BY <4>5, <4>7
    <3>7. Distributed => Members(list) = Pieces(g)
      BY <3>2, <3>3, <3>6
    <3>8. ASSUME Distributed, NEW i \in 1..Len(list), NEW j \in 1..Len(list), i < j
          PROVE  Number(list[i]) < Number(list[j])
      <4>1. list[i] \in Pieces(g) /\ list[j] \in Pieces(g)
        BY <3>7, <3>8 DEF Members
      <4>2. Pieces(g) \subseteq Piece
        BY <2>0 DEF Pieces, TypeOK
      <4>3. Number(list[i]) \in Nat /\ Number(list[j]) \in Nat
        BY <4>1, <4>2, PieceFacts
      <4>4. Number(list[i]) <= Number(list[j])
        BY <3>2, <3>8 DEF Ordered
      <4>5. i # j
        <5>1. i \in Int /\ j \in Int
          BY <3>8
        <5>2. QED
          BY <3>8, <5>1
      <4>6. list[i] # list[j]
        BY <3>2, <3>8, <4>5 DEF Distinct
      <4>7. Number(list[i]) # Number(list[j])
        BY <3>0, <3>8, <4>1, <4>6 DEF Distributed
      <4>8. QED
        BY <4>3, <4>4, <4>7
    <3>9. QED
      BY <2>2, <3>1, <3>2, <3>3, <3>5, <3>7, <3>8
  <2>3. QED
    BY <2>1, <2>2
<1>2. QED
  BY <1>1, InvCorrect, PTL

(* A list of shards is empty exactly if it has no members. *)
LEMMA EmptyMembers ==
  ASSUME NEW s \in Seq(Piece)
  PROVE  s = <<>> <=> Members(s) = {}
<1>1. CASE Len(s) = 0
  BY <1>1, EmptySeq DEF Members
<1>2. CASE Len(s) # 0
  <2>1. 1 \in 1..Len(s)
    BY <1>2, LenProperties
  <2>2. s[1] \in Members(s)
    BY <2>1 DEF Members
  <2>3. QED
    BY <1>2, <2>2, EmptySeq
<1>3. QED
  BY <1>1, <1>2

(* The maps as the operations of Trace see them, entry by entry. *)
LEMMA SeenAt ==
  ASSUME IInv, pc = "started", NEW n \in Node, NEW f \in File
  PROVE  /\ SeenDict[n][f] = SeenRaw[n][f]
         /\ SeenDict[n][f] \in [pba : Layout, shards : BOOLEAN] \cup {None}
         /\ SeenDict[n][f] = None <=> fmDict[n][f] = None
         /\ fmDict[n][f] # None => SeenDict[n][f].shards = (fmDict[n][f].shard # {})
<1>0. TypeOK /\ FileInv /\ AsmInv
  BY DEF IInv
<1>1. SeenDict[n][f] = IF fmDict[n][f] = None THEN None
                       ELSE [pba |-> fmDict[n][f].pba, shards |-> fmDict[n][f].shard # {}]
  BY DEF SeenDict
<1>2. SeenRaw[n][f] = IF rawFM[n][f] = None THEN None
                      ELSE [pba |-> rawFM[n][f].pba, shards |-> rawFM[n][f].shard # <<>>]
  BY DEF SeenRaw
<1>3. CASE fmDict[n][f] = None
  BY <1>0, <1>1, <1>2, <1>3 DEF AsmInv
<1>4. CASE fmDict[n][f] # None
  <2>1. /\ rawFM[n][f] # None /\ rawFM[n][f].pba = fmDict[n][f].pba
        /\ Members(rawFM[n][f].shard) = fmDict[n][f].shard
    BY <1>0, <1>4 DEF AsmInv
  <2>2. fmDict[n][f] \in Unsorted /\ rawFM[n][f] \in Sorted
    BY <1>0, <1>4, <2>1 DEF TypeOK
  <2>3. fmDict[n][f].pba \in Layout /\ rawFM[n][f].shard \in Seq(Piece)
    BY <2>2 DEF Unsorted, Sorted
  <2>4. (rawFM[n][f].shard # <<>>) = (fmDict[n][f].shard # {})
    BY <2>1, <2>3, EmptyMembers
  <2> DEFINE b == fmDict[n][f].shard # {}
             e == [pba |-> fmDict[n][f].pba, shards |-> b]
  <2>5. b \in BOOLEAN
    OBVIOUS
  <2>6. SeenDict[n][f] = e
    BY <1>1, <1>4
  <2>7. SeenRaw[n][f] = e
    BY <1>2, <2>1, <2>4
  <2> HIDE DEF b
  <2>8. e \in [pba : Layout, shards : BOOLEAN] /\ e.shards = b
    BY <2>3, <2>5
  <2>9. e # None
    BY <2>8, NoneAssumption
  <2>10. QED
    BY <1>4, <2>6, <2>7, <2>8, <2>9 DEF b
<1>5. QED
  BY <1>3, <1>4

(* Whatever the nodes hold, Trace starts in a state its operations were     *)
(* written for: the maps agree, shards are below one node.                  *)
THEOREM StartCorrect == Spec => []StartsAsTrace
<1>1. ASSUME IInv PROVE StartsAsTrace
  <2>0. TypeOK /\ FileInv /\ NodeInv /\ PieceInv /\ KeyInv
    BY <1>1 DEF IInv
  <2> SUFFICES ASSUME pc = "started" PROVE Running!Init
    BY DEF StartsAsTrace
  <2> DEFINE dict == [f \in File |-> IF \E g \in Gfid \cup {None} : shardDict[g] = f
                                     THEN {"path"} ELSE {}]
  <2>1. SeenDict \in [Node -> [File -> [pba : Layout, shards : BOOLEAN] \cup {None}]]
    BY <1>1, SeenAt DEF SeenDict
  <2>2. SeenRaw = SeenDict
    BY <1>1, SeenAt DEF SeenDict, SeenRaw
  <2>3. \E last \in Node : \A n \in Node \ {last}, f \in File :
          SeenDict[n][f] # None => ~SeenDict[n][f].shards
    <3>1. PICK last \in Node : node \in Node => last = node
      BY ConstantsAssumption
    <3>2. ASSUME NEW n \in Node \ {last}, NEW f \in File, SeenDict[n][f] # None
          PROVE  ~SeenDict[n][f].shards
      <4>1. fmDict[n][f] # None
        BY <1>1, <3>2, SeenAt
      <4>2. n # node
        BY <3>1, <3>2
      <4>3. fmDict[n][f].shard = {}
        BY <2>0, <4>1, <4>2 DEF PieceInv, ShardAt
      <4>4. QED
        BY <1>1, <4>1, <4>3, SeenAt
    <3>3. QED
      BY <3>2
  <2>4. dict \in [File -> SUBSET {"path"}]
    OBVIOUS
  <2>5. ASSUME NEW f \in File, dict[f] # {}
        PROVE  \E n \in Node : SeenDict[n][f] # None
    <3>1. PICK g \in Gfid \cup {None} : shardDict[g] = f
      BY <2>5
    <3>2. PICK n \in Node : Reported(n, f)
      BY <2>0, <3>1, ConstantsAssumption DEF KeyInv
    <3>3. fmDict[n][f] # None
      BY <2>0, <3>2 DEF FileInv, FileAt
    <3>4. QED
      BY <1>1, <3>3, SeenAt
  <2>6. QED
    BY <2>1, <2>2, <2>3, <2>4, <2>5
       DEF Running!Init, Running!Map, Running!Entry, Running!Idle, Running!Call
<1>2. QED
  BY <1>1, InvCorrect, PTL
=============================================================================
