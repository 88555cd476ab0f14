------------------------------ MODULE Startup ------------------------------
(***************************************************************************)
(* Trace.__init__ (lba2pba/trace/trace.py): how Trace makes the file map   *)
(* it starts with.  It asks the worker of every node for its files, keeps  *)
(* shards apart, asks the node by ssh for the gfid of every file, and then *)
(* runs three loops: over the files, over the shards, over the map.  Any   *)
(* exception ends Trace before it serves.  A worker that fails to read the *)
(* bricks or the type of a volume leaves the volume out of its answer and  *)
(* says nothing.                                                           *)
(*                                                                         *)
(* A file is its full path: the path of a brick and below it a name, for   *)
(* which its gfid stands.  Replicas of a file have one gfid, and one path  *)
(* only if their bricks have one.  A shard is the path <gfid>.k below a    *)
(* brick, of a replica of the file or not.                                 *)
(*                                                                         *)
(* The lists are sets here, taken in any order: the order of the nodes and *)
(* of the files of a node is not fixed, and only the last node, the last   *)
(* path of a gfid and the last failed ssh leave a trace.  Bricks of one    *)
(* volume are left out of an answer together; here any of them may be.     *)
(***************************************************************************)
EXTENDS Naturals, Sequences, FiniteSets

CONSTANTS
    Node,       \* storage nodes, self.peers
    Brick,      \* paths of bricks
    Gfid,       \* files, whatever brick they are on
    Layout,     \* non-empty lists of extents
    Empty,      \* the list of extents of an empty file
    None,       \* no entry, no gfid, no node
    MaxBrick,   \* bound: bricks of the cluster
    MaxShard,   \* bound: shards are numbered 1..MaxShard
    MaxStored,  \* bound: shards on the bricks
    MaxPiece    \* bound: shards of an entry (at least those of every brick)

(* The paths Trace knows a file and a shard by, and whose shard it is. *)
File == Brick \X Gfid
Shard == Brick \X Gfid \X (1..MaxShard)
GfidOf(s) == s[2]

(* A shard of an entry: its path and the node whose extents it has. *)
Piece == Shard \X Node
Number(p) == p[1][3]

(* The entries of fmDict and those of rawFM. *)
Unsorted == [pba : Layout, shard : SUBSET Piece]
Sorted == [pba : Layout, shard : Seq(Piece)]

ASSUME ConstantsAssumption ==
    /\ None \notin File
    /\ None \notin Gfid
    /\ None \notin Node
    /\ None \notin Layout \cup {Empty}
    /\ Empty \notin Layout
    /\ MaxBrick \in Nat
    /\ MaxShard \in Nat
    /\ MaxStored \in Nat
    /\ MaxPiece \in Nat
    /\ Node # {}

ASSUME BoundAssumption == Cardinality(Brick) * MaxShard <= MaxPiece

ASSUME NoneAssumption ==
    /\ None \notin Unsorted /\ None \notin Sorted
    /\ None \notin [pba : Layout, shards : BOOLEAN]

VARIABLES
    bricks,     \* input: the bricks of the nodes
    held,       \* input: the extents of the files on them
    shards,     \* input: the shards on them
    pc,         \* the loop Trace is in
    peers,      \* nodes not asked yet
    rawFilePba, \* files collected, that the loop over them has not come to
    shardPba,   \* likewise the shards
    shardDict,  \* self.shardDict: a gfid, or None for a failed ssh, to a path
    node,       \* the local variable of that name
    fmDict,     \* self.fmDict[node][fname], its shards by path
    rawFM,      \* self.rawFM[node][fname], its shards in order
    answered    \* history: the bricks that were in an answer

input == <<bricks, held, shards>>
vars == <<bricks, held, shards, pc, peers, rawFilePba, shardPba, shardDict, node, fmDict, rawFM,
          answered>>

TypeOK ==
    /\ bricks \in SUBSET (Node \X Brick)
    /\ held \in [Node -> [File -> Layout \cup {Empty, None}]]
    /\ shards \in SUBSET Piece
    /\ pc \in {"collect", "files", "shards", "assemble", "started", "dead"}
    /\ peers \in SUBSET Node
    /\ rawFilePba \in SUBSET (Node \X File)
    /\ shardPba \in SUBSET Piece
    /\ shardDict \in [Gfid \cup {None} -> File \cup {None}]
    /\ node \in Node \cup {None}
    /\ fmDict \in [Node -> [File -> Unsorted \cup {None}]]
    /\ rawFM \in [Node -> [File -> Sorted \cup {None}]]
    /\ answered \in SUBSET (Node \X Brick)

Nothing == [n \in Node |-> [f \in File |-> None]]

Init ==
    /\ bricks \in {B \in SUBSET (Node \X Brick) : Cardinality(B) <= MaxBrick}
    /\ held \in [Node -> [File -> Layout \cup {Empty, None}]]
    /\ \A n \in Node, f \in File : <<n, f[1]>> \notin bricks => held[n][f] = None
    /\ shards \in SUBSET {p \in Piece : <<p[2], p[1][1]>> \in bricks}
    /\ Cardinality(shards) <= MaxStored
    /\ pc = "collect" /\ peers = Node /\ node = None
    /\ rawFilePba = {} /\ shardPba = {}
    /\ shardDict = [g \in Gfid \cup {None} |-> None]
    /\ fmDict = Nothing /\ rawFM = Nothing
    /\ answered = {}

-----------------------------------------------------------------------------
(* An exception in __init__. *)
Dies ==
    /\ pc' = "dead"
    /\ UNCHANGED <<input, peers, rawFilePba, shardPba, shardDict, node, fmDict, rawFM, answered>>

(* The files n holds on the bricks in B. *)
FilesOn(n, B) == {f \in File : <<n, f[1]>> \in B /\ held[n][f] # None}

(* toShard: the files in failed, whose gfid was not read, are under None. *)
Under(g, files, failed) ==
    IF g = None THEN failed ELSE {f \in files \ failed : GfidOf(f) = g}

(* The answer of n to WInit, with the bricks in reply.  The last path under *)
(* a key stays there.                                                       *)
Collect(n) ==
    /\ pc = "collect" /\ n \in peers
    /\ peers' = peers \ {n}
    /\ \E reply \in SUBSET {b \in bricks : b[1] = n} :
         LET files == FilesOn(n, reply) IN
         /\ answered' = answered \cup reply
         /\ rawFilePba' = rawFilePba \cup ({n} \X files)
         /\ shardPba' = shardPba \cup {p \in shards : <<p[2], p[1][1]>> \in reply}
         /\ shardDict' \in [Gfid \cup {None} -> File \cup {None}]
         /\ \E failed \in SUBSET files : \A g \in Gfid \cup {None} :
              IF Under(g, files, failed) = {} THEN shardDict'[g] = shardDict[g]
              ELSE shardDict'[g] \in Under(g, files, failed)
    /\ UNCHANGED <<input, pc, node, fmDict, rawFM>>

(* RpcError: a worker does not answer WInit, or has no list of volumes. *)
CollectRaises ==
    /\ pc = "collect" /\ peers # {}
    /\ Dies

(* Without a file there is nothing to do, whatever shards there are. *)
Collected ==
    /\ pc = "collect" /\ peers = {}
    /\ pc' = IF rawFilePba = {} THEN "started" ELSE "files"
    /\ UNCHANGED <<input, peers, rawFilePba, shardPba, shardDict, node, fmDict, rawFM, answered>>

(* Mutant: an empty file gets an entry too. *)
AddFile_Empty(n, f) ==
    /\ pc = "files" /\ <<n, f>> \in rawFilePba
    /\ rawFilePba' = rawFilePba \ {<<n, f>>}
    /\ node' = n
    /\ fmDict' = IF fmDict[n][f] = None
                 THEN [fmDict EXCEPT ![n][f] = [pba |-> held[n][f], shard |-> {}]]
                 ELSE fmDict
    /\ UNCHANGED <<input, pc, peers, shardPba, shardDict, rawFM, answered>>

AddFile(n, f) ==
    /\ pc = "files" /\ <<n, f>> \in rawFilePba
    /\ held[n][f] # Empty
    /\ rawFilePba' = rawFilePba \ {<<n, f>>}
    /\ node' = n
    /\ fmDict' = IF fmDict[n][f] = None
                 THEN [fmDict EXCEPT ![n][f] = [pba |-> held[n][f], shard |-> {}]]
                 ELSE fmDict
    /\ UNCHANGED <<input, pc, peers, shardPba, shardDict, rawFM, answered>>

(* IndexError: an empty file has no pba[0]. *)
AddFileRaises(n, f) ==
    /\ pc = "files" /\ <<n, f>> \in rawFilePba
    /\ held[n][f] = Empty
    /\ Dies

FilesAdded ==
    /\ pc = "files" /\ rawFilePba = {}
    /\ pc' = "shards"
    /\ UNCHANGED <<input, peers, rawFilePba, shardPba, shardDict, node, fmDict, rawFM, answered>>

(* The files of the map at node n. *)
Listed(n) == {f \in File : fmDict[n][f] # None}

(* Mutant: a shard goes below the node it came from. *)
AddShard_OwnNode(p) ==
    LET f == shardDict[GfidOf(p[1])] IN
    /\ pc = "shards" /\ p \in shardPba
    /\ f \in Listed(p[2])
    /\ shardPba' = shardPba \ {p}
    /\ fmDict' = [fmDict EXCEPT ![p[2]][f].shard = {q \in @ : q[1] # p[1]} \cup {p}]
    /\ UNCHANGED <<input, pc, peers, rawFilePba, shardDict, node, rawFM, answered>>

(* A shard goes below the node the loop over the files ended with, and the  *)
(* path its gfid has there.  One of the same path replaces it.              *)
AddShard(p) ==
    LET f == shardDict[GfidOf(p[1])] IN
    /\ pc = "shards" /\ p \in shardPba
    /\ f \in Listed(node)
    /\ shardPba' = shardPba \ {p}
    /\ fmDict' = [fmDict EXCEPT ![node][f].shard = {q \in @ : q[1] # p[1]} \cup {p}]
    /\ UNCHANGED <<input, pc, peers, rawFilePba, shardDict, node, rawFM, answered>>

(* KeyError: the gfid is not known, or its path is on another node. *)
AddShardRaises(p) ==
    /\ pc = "shards" /\ p \in shardPba
    /\ shardDict[GfidOf(p[1])] \notin Listed(node)
    /\ Dies

ShardsAdded ==
    /\ pc = "shards" /\ shardPba = {}
    /\ pc' = "assemble"
    /\ UNCHANGED <<input, peers, rawFilePba, shardPba, shardDict, node, fmDict, rawFM, answered>>

Members(s) == {s[i] : i \in 1..Len(s)}
Distinct(s) == \A i, j \in 1..Len(s) : i # j => s[i] # s[j]
Ordered(s) == \A i, j \in 1..Len(s) : i < j => Number(s[i]) <= Number(s[j])

(* The lists without duplicates of the elements of S. *)
Lists(S) == {s \in UNION {[1..k -> S] : k \in 0..MaxPiece} : Members(s) = S /\ Distinct(s)}

(* Mutant: the shards in the order of the dictionary. *)
InOrder_Unsorted(S) == Lists(S)

(* sorted(shards, key = number): those of one number in any order. *)
InOrder(S) == {s \in Lists(S) : Ordered(s)}

Assemble(n, f) ==
    /\ pc = "assemble" /\ f \in Listed(n) /\ rawFM[n][f] = None
    /\ \E s \in InOrder(fmDict[n][f].shard) :
         rawFM' = [rawFM EXCEPT ![n][f] = [pba |-> fmDict[n][f].pba, shard |-> s]]
    /\ UNCHANGED <<input, pc, peers, rawFilePba, shardPba, shardDict, node, fmDict, answered>>

Assembled ==
    /\ pc = "assemble"
    /\ \A n \in Node : \A f \in Listed(n) : rawFM[n][f] # None
    /\ pc' = "started"
    /\ UNCHANGED <<input, peers, rawFilePba, shardPba, shardDict, node, fmDict, rawFM, answered>>

Next ==
    \/ \E n \in Node : Collect(n)
    \/ CollectRaises \/ Collected
    \/ \E n \in Node, f \in File : AddFile(n, f) \/ AddFileRaises(n, f)
    \/ FilesAdded
    \/ \E p \in Piece : AddShard(p) \/ AddShardRaises(p)
    \/ ShardsAdded
    \/ \E n \in Node, f \in File : Assemble(n, f)
    \/ Assembled

Spec == Init /\ [][Next]_vars

-----------------------------------------------------------------------------
(* What the answers had: a file of a node, the shards of a file. *)
Reported(n, f) == held[n][f] # None /\ <<n, f[1]>> \in answered
Pieces(g) == {p \in shards : GfidOf(p[1]) = g /\ <<p[2], p[1][1]>> \in answered}

(* A distributed volume keeps a file, and each of its shards, on one brick. *)
Distributed ==
    /\ \A f, h \in File, n, m \in Node :
         held[n][f] # None /\ held[m][h] # None /\ GfidOf(f) = GfidOf(h) => n = m /\ f = h
    /\ \A g \in Gfid : \A p, q \in Pieces(g) : Number(p) = Number(q) => p = q

(* The paths of some shards. *)
Paths(S) == {p[1] : p \in S}

(* One entry of a file has a shard of every path there is. *)
Whole(g) ==
    \E n \in Node, f \in File :
      /\ GfidOf(f) = g /\ rawFM[n][f] # None
      /\ Paths(Pieces(g)) \subseteq Paths(Members(rawFM[n][f].shard))

(* Trace starts with all that the workers answered: every file of every     *)
(* node with its extents and, by number, nothing but shards of that file.   *)
(* No shard is lost: of a file with several paths or nodes one entry has    *)
(* them all, and in a distributed volume each entry has exactly its own,    *)
(* every number once.  (Bricks the workers left out are not in the map.)    *)
Complete ==
    pc = "started" =>
      \A n \in Node, f \in File :
        IF ~Reported(n, f) THEN rawFM[n][f] = None
        ELSE LET list == rawFM[n][f].shard IN
             /\ rawFM[n][f] # None /\ rawFM[n][f].pba = held[n][f]
             /\ Ordered(list) /\ Distinct(list)
             /\ Members(list) \subseteq Pieces(GfidOf(f))
             /\ Whole(GfidOf(f))
             /\ Distributed =>
                  /\ Members(list) = Pieces(GfidOf(f))
                  /\ \A i, j \in 1..Len(list) : i < j => Number(list[i]) < Number(list[j])

(* Trace's maps as its operations see them: does an entry have shards? *)
SeenDict ==
    [n \in Node |-> [f \in File |->
       IF fmDict[n][f] = None THEN None
       ELSE [pba |-> fmDict[n][f].pba, shards |-> fmDict[n][f].shard # {}]]]
SeenRaw ==
    [n \in Node |-> [f \in File |->
       IF rawFM[n][f] = None THEN None
       ELSE [pba |-> rawFM[n][f].pba, shards |-> rawFM[n][f].shard # <<>>]]]

(* Trace before a call arrives or a manager registers. *)
Running ==
    INSTANCE Trace WITH
      Mgr <- {}, Thread <- {}, MaxAgent <- 0,
      fmDict <- SeenDict, rawFM <- SeenRaw,
      shardDict <- [f \in File |-> IF \E g \in Gfid \cup {None} : shardDict[g] = f
                                   THEN {"path"} ELSE {}],
      agent <- <<>>, handler <- [t \in {} |-> "idle"], crossed <- {},
      phase <- [m \in {} |-> "off"], toRead <- [m \in {} |-> {}], cursor <- [m \in {} |-> None],
      torn <- [m \in {} |-> FALSE], leaving <- [m \in {} |-> <<>>],
      told <- [m \in {} |-> Nothing], missed <- [m \in {} |-> Nothing], cut <- [m \in {} |-> FALSE]

(* What __init__ leaves is a state in which the operations of Trace may     *)
(* begin: both maps agree and shards are below one node only.               *)
StartsAsTrace == pc = "started" => Running!Init
=============================================================================
