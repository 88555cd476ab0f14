------------------------------- MODULE Trace -------------------------------
(***************************************************************************)
(* Trace (lba2pba/trace/trace.py): the file map of the cluster.            *)
(*                                                                         *)
(* A thread pool serves TChangeFile, called by the senders of the storage  *)
(* nodes, and TRegister, TGetFileMap and TDeregister, called by the file   *)
(* managers.  TChangeFile changes fmDict and rawFM, then pushes to every   *)
(* address in the list agent and answers; any exception ends it with the   *)
(* answer Fail.  The threads share the maps and the list without a lock;   *)
(* they interleave at the ssh of toShard, at every push and at every       *)
(* output.  A sender makes one call at a time, but a worker that a new     *)
(* Trace has initialised again may have two (module Restart), so the calls *)
(* of one node, even for one file, may overlap.                            *)
(*                                                                         *)
(* A manager (lba2pba/DBFileManager) is here an ideal subscriber: it holds *)
(* what the snapshot and the pushes told it.                               *)
(***************************************************************************)
EXTENDS Naturals, Sequences

CONSTANTS
    Node,       \* storage nodes
    File,       \* files that are not shards, by path
    Layout,     \* non-empty lists of extents
    Mgr,        \* addresses of file managers
    Thread,     \* threads of the pool that TChangeFile calls run on
    None,       \* no entry
    MaxAgent    \* bound: length of the list of registered addresses

ASSUME ConstantsAssumption ==
    /\ None \notin File
    /\ None \notin Node
    /\ None \notin Layout
    /\ None \notin [pba : Layout, shards : BOOLEAN]
    /\ MaxAgent \in Nat

VARIABLES
    fmDict,     \* self.fmDict[node][fname]
    rawFM,      \* self.rawFM[node][fname]
    shardDict,  \* self.shardDict: how values under a gfid of the file name it
    agent,      \* self.agent
    handler,    \* per thread, the TChangeFile call under way
    phase,      \* life of a manager
    toRead,     \* nodes its TGetFileMap call has not come to
    cursor,     \* the node its TGetFileMap call is iterating over
    torn,       \* rawFM[cursor] has changed size meanwhile
    leaving,    \* the list its TDeregister call has computed
    told,       \* the entries a manager was told
    missed,     \* history: an entry changed and the manager was not told
    crossed,    \* history: files with calls that overlapped, at their nodes
    cut         \* history: a TDeregister has removed another manager's address

traceVars == <<fmDict, rawFM, shardDict>>
mgrVars == <<phase, toRead, cursor, torn, leaving>>
vars == <<fmDict, rawFM, shardDict, agent, handler,
          phase, toRead, cursor, torn, leaving, told, missed, crossed, cut>>

(* An entry holds the extents of the file and, if shards is set, those of   *)
(* the shards that were attached when Trace started.                        *)
Entry == [pba : Layout, shards : BOOLEAN]
Map == [Node -> [File -> Entry \cup {None}]]
(* The call under way: clean until it meets another one for its file. *)
Call(pc, a, n, f, l, alone) ==
    [pc |-> pc, action |-> a, node |-> n, file |-> f, pba |-> l,
     todo |-> <<>>, live |-> FALSE, clean |-> alone]
Idle == Call("idle", "none", None, None, None, TRUE)
Handler == [pc : {"idle", "gfid", "unmap", "loop", "push"},
            action : {"none", "create", "modify", "delete"},
            node : Node \cup {None}, file : File \cup {None}, pba : Layout \cup {None},
            todo : Seq(Mgr), live : BOOLEAN, clean : BOOLEAN]

(* Why a manager was not told of a change: it was; its push, or one before  *)
(* it in the loop, failed; the call raised; calls for the file overlapped.  *)
Cause == {"no", "push", "error", "race"}

(* Thread t has a call for f at n. *)
At(t, n, f) == handler[t].node = n /\ handler[t].file = f
Members(s) == {s[i] : i \in 1..Len(s)}
Active(m) == phase[m] \in {"starting", "up"}

TypeOK ==
    /\ fmDict \in Map
    /\ rawFM \in Map
    /\ shardDict \in [File -> SUBSET {"path", "base"}]
    /\ agent \in Seq(Mgr)
    /\ handler \in [Thread -> Handler]
    /\ phase \in [Mgr -> {"off", "starting", "up", "leaving"}]
    /\ toRead \in [Mgr -> SUBSET Node]
    /\ cursor \in [Mgr -> Node \cup {None}]
    /\ torn \in [Mgr -> BOOLEAN]
    /\ leaving \in [Mgr -> Seq(Mgr)]
    /\ told \in [Mgr -> Map]
    /\ missed \in [Mgr -> [Node -> [File -> Cause]]]
    /\ crossed \subseteq Node \X File
    /\ cut \in [Mgr -> BOOLEAN]

(* Trace.__init__ has returned (module Startup): the maps hold what the     *)
(* workers found, shards are below one node only, and shardDict names the   *)
(* files whose gfid was read.                                               *)
Init ==
    /\ fmDict \in Map
    /\ \E last \in Node : \A n \in Node \ {last}, f \in File :
         fmDict[n][f] # None => ~fmDict[n][f].shards
    /\ shardDict \in [File -> SUBSET {"path"}]
    /\ \A f \in File : shardDict[f] # {} => \E n \in Node : fmDict[n][f] # None
    /\ rawFM = fmDict
    /\ agent = <<>>
    /\ handler = [t \in Thread |-> Idle]
    /\ phase = [m \in Mgr |-> "off"]
    /\ toRead = [m \in Mgr |-> {}]
    /\ cursor = [m \in Mgr |-> None]
    /\ torn = [m \in Mgr |-> FALSE]
    /\ leaving = [m \in Mgr |-> <<>>]
    /\ told = [m \in Mgr |-> [n \in Node |-> [f \in File |-> None]]]
    /\ missed = [m \in Mgr |-> [n \in Node |-> [f \in File |-> "no"]]]
    /\ crossed = {}
    /\ cut = [m \in Mgr |-> FALSE]

-----------------------------------------------------------------------------
(* TChangeFile.                                                             *)

Frame == UNCHANGED <<agent, phase, toRead, cursor, leaving, cut>>

(* A call for f at n begins on thread t.  If another thread has one, both   *)
(* have met.                                                                *)
Begin(t, pc, a, n, f, l) ==
    LET others == {o \in Thread \ {t} : At(o, n, f)} IN
    /\ handler[t].pc = "idle"
    /\ handler' = [o \in Thread |->
         IF o = t THEN Call(pc, a, n, f, l, others = {})
         ELSE IF o \in others THEN [handler[o] EXCEPT !.clean = FALSE]
         ELSE handler[o]]
    /\ crossed' = IF others = {} THEN crossed ELSE crossed \cup {<<n, f>>}

(* The call returns, OK or Fail; the worker does not look at the answer.    *)
(* The managers in S were not told of the change, for the reason why; after *)
(* a call that met another, none is sure to have what the map holds.        *)
Return(t, S, why) ==
    LET h == handler[t] IN
    /\ handler' = [handler EXCEPT ![t] = Idle]
    /\ missed' = [m \in Mgr |->
         IF Active(m) /\ (m \in S \/ ~h.clean)
         THEN [missed[m] EXCEPT ![h.node][h.file] = IF h.clean THEN why ELSE "race"]
         ELSE missed[m]]

(* A write to rawFM[n][f]; iterating over rawFM[n] notices a change of size. *)
SetRaw(n, f, v) ==
    /\ rawFM' = [rawFM EXCEPT ![n][f] = v]
    /\ torn' = [m \in Mgr |->
                  torn[m] \/ (cursor[m] = n /\ (rawFM[n][f] = None) # (v = None))]

(* A call that met no other has brought the two maps of its file together. *)
Settled(h) == crossed' = IF h.clean THEN crossed \ {<<h.node, h.file>>} ELSE crossed

(* The push loop starts with the first of the list self.agent. *)
StartPush(t) ==
    handler' = [handler EXCEPT ![t] = [@ EXCEPT !.pc = "push", !.todo = agent, !.live = TRUE]]

(* An extent list that is empty, or a shard: the lookups of lines 105, 125, *)
(* 172 and 221 raise before anything changes.                               *)
ChangeRejected(t) ==
    /\ handler[t].pc = "idle"
    /\ UNCHANGED vars

ChangeCreate(t, n, f, l) ==
    /\ Begin(t, "gfid", "create", n, f, l)
    /\ fmDict' = IF fmDict[n][f] = None
                 THEN [fmDict EXCEPT ![n][f] = [pba |-> l, shards |-> FALSE]]
                 ELSE fmDict
    /\ Frame /\ UNCHANGED <<rawFM, shardDict, torn, told, missed>>

ChangeModify(t, n, f, l) ==
    /\ Begin(t, "gfid", "modify", n, f, l)
    /\ Frame /\ UNCHANGED <<traceVars, torn, told, missed>>

(* Mutant: a create that only enters the file. *)
CreateEntered_NoPush(t) ==
    LET h == handler[t] IN
    /\ h.pc = "gfid" /\ h.action = "create"
    /\ shardDict' = [shardDict EXCEPT ![h.file] = @ \cup {"base"}]
    /\ SetRaw(h.node, h.file, [pba |-> h.pba, shards |-> FALSE])
    /\ Return(t, {}, "no")
    /\ Settled(h)
    /\ Frame /\ UNCHANGED <<fmDict, told>>

(* toShard has answered.  The base name is stored under a new gfid, or      *)
(* overwrites the value under one: of the same file, or, when ssh failed    *)
(* and the key is None, of a file whose ssh failed before.                  *)
CreateEntered(t) ==
    LET h == handler[t] IN
    /\ h.pc = "gfid" /\ h.action = "create"
    /\ \E g \in File, v \in {"path", "base"} :
         shardDict' = [f \in File |-> (IF f = g THEN shardDict[f] \ {v} ELSE shardDict[f])
                                       \cup (IF f = h.file THEN {"base"} ELSE {})]
    /\ SetRaw(h.node, h.file, [pba |-> h.pba, shards |-> FALSE])
    /\ StartPush(t)
    /\ Settled(h)
    /\ Frame /\ UNCHANGED <<fmDict, told, missed>>

(* A modify changes fmDict only; what it pushes is rawFM as it was. *)
ModifyEntered(t) ==
    LET h == handler[t] IN
    /\ h.pc = "gfid" /\ h.action = "modify"
    /\ fmDict[h.node][h.file] # None
    /\ ~fmDict[h.node][h.file].shards
    /\ fmDict' = [fmDict EXCEPT ![h.node][h.file].pba = h.pba]
    /\ StartPush(t)
    /\ Frame /\ UNCHANGED <<rawFM, shardDict, torn, told, missed, crossed>>

(* KeyError for a file that is not known; shardList.sort() raises for one   *)
(* that has shards, after its extents were replaced.                        *)
ModifyRaises(t) ==
    LET h == handler[t] IN
    /\ h.pc = "gfid" /\ h.action = "modify"
    /\ \/ /\ fmDict[h.node][h.file] = None
          /\ UNCHANGED fmDict
       \/ /\ fmDict[h.node][h.file] # None
          /\ fmDict[h.node][h.file].shards
          /\ fmDict' = [fmDict EXCEPT ![h.node][h.file].pba = h.pba]
    /\ Return(t, {}, "no")
    /\ Frame /\ UNCHANGED <<rawFM, shardDict, torn, told, crossed>>

(* A delete: KeyError for a file that is not known, *)
DeleteUnknown(t, n, f) ==
    /\ handler[t].pc = "idle"
    /\ fmDict[n][f] = None
    /\ UNCHANGED vars

(* or the file goes out of fmDict, *)
ChangeDelete(t, n, f) ==
    /\ Begin(t, "unmap", "delete", n, f, None)
    /\ fmDict[n][f] # None
    /\ fmDict' = [fmDict EXCEPT ![n][f] = None]
    /\ Frame /\ UNCHANGED <<rawFM, shardDict, torn, told, missed>>

(* Mutant: rawFM keeps the file. *)
DeleteRaw_OneMap(t) ==
    LET h == handler[t] IN
    /\ h.pc = "unmap"
    /\ handler' = [handler EXCEPT ![t].pc = "loop"]
    /\ Settled(h)
    /\ Frame /\ UNCHANGED <<traceVars, torn, told, missed>>

(* Mutant: the file is deleted at every node. *)
DeleteRaw_AllNodes(t) ==
    LET h == handler[t] IN
    /\ h.pc = "unmap"
    /\ rawFM[h.node][h.file] # None
    /\ rawFM' = [o \in Node |-> [rawFM[o] EXCEPT ![h.file] = None]]
    /\ torn' = [m \in Mgr |-> torn[m] \/ (cursor[m] # None /\ rawFM[cursor[m]][h.file] # None)]
    /\ handler' = [handler EXCEPT ![t].pc = "loop"]
    /\ Settled(h)
    /\ Frame /\ UNCHANGED <<fmDict, shardDict, told, missed>>

(* Mutant: the entry is emptied and stays. *)
DeleteRaw_Empties(t) ==
    LET h == handler[t] IN
    /\ h.pc = "unmap"
    /\ SetRaw(h.node, h.file, [pba |-> None, shards |-> FALSE])
    /\ handler' = [handler EXCEPT ![t].pc = "loop"]
    /\ Settled(h)
    /\ Frame /\ UNCHANGED <<fmDict, shardDict, told, missed>>

(* then out of rawFM, *)
DeleteRaw(t) ==
    LET h == handler[t] IN
    /\ h.pc = "unmap"
    /\ rawFM[h.node][h.file] # None
    /\ SetRaw(h.node, h.file, None)
    /\ handler' = [handler EXCEPT ![t].pc = "loop"]
    /\ Settled(h)
    /\ Frame /\ UNCHANGED <<fmDict, shardDict, told, missed>>

(* with a KeyError if it is not there, *)
DeleteRawRaises(t) ==
    LET h == handler[t] IN
    /\ h.pc = "unmap"
    /\ rawFM[h.node][h.file] = None
    /\ Return(t, {}, "no")
    /\ Frame /\ UNCHANGED <<traceVars, torn, told, crossed>>

(* and the loop over shardDict finds no key to delete (only a value that is *)
(* the full path matches),                                                  *)
DeleteLoop(t) ==
    /\ handler[t].pc = "loop"
    /\ "path" \notin shardDict[handler[t].file]
    /\ StartPush(t)
    /\ Frame /\ UNCHANGED <<traceVars, torn, told, missed, crossed>>

(* or raises: when it has deleted one key (another may have the same path), *)
(* or when a create on another thread adds one meanwhile.                   *)
DeleteRaises(t) ==
    LET f == handler[t].file IN
    /\ handler[t].pc = "loop"
    /\ \/ "path" \in shardDict[f]
       \/ \E o \in Thread \ {t} : handler[o].pc = "gfid" /\ handler[o].action = "create"
    /\ shardDict' \in {shardDict, [shardDict EXCEPT ![f] = @ \ {"path"}]}
    /\ Return(t, Mgr, "error")
    /\ Frame /\ UNCHANGED <<fmDict, rawFM, torn, told, crossed>>

(* What a push carries: nothing for a delete, else rawFM's entry. *)
Pushed(h) == IF h.action = "delete" THEN None ELSE rawFM[h.node][h.file]

(* Mutant: the return statement is inside the loop over the managers. *)
Push_Returns(t) ==
    LET h == handler[t] m == Head(h.todo) IN
    /\ h.pc = "push" /\ h.todo # <<>>
    /\ phase[m] = "up"
    /\ told' = [told EXCEPT ![m][h.node][h.file] = Pushed(h)]
    /\ missed' = [missed EXCEPT ![m][h.node][h.file] = "no"]
    /\ handler' = [handler EXCEPT ![t] = Idle]
    /\ Frame /\ UNCHANGED <<traceVars, torn, crossed>>

(* stub.PushPba: the manager holds what it is told. *)
Push(t) ==
    LET h == handler[t] m == Head(h.todo) IN
    /\ h.pc = "push" /\ h.todo # <<>>
    /\ phase[m] = "up"
    /\ h.action # "delete" => rawFM[h.node][h.file] # None
    /\ told' = [told EXCEPT ![m][h.node][h.file] = Pushed(h)]
    /\ missed' = [missed EXCEPT ![m][h.node][h.file] = IF h.clean THEN "no" ELSE "race"]
    /\ handler' = [handler EXCEPT ![t].todo = Tail(h.todo)]
    /\ Frame /\ UNCHANGED <<traceVars, torn, crossed>>

(* Mutant: a failed push is tried again. *)
PushFails_Retry(t) ==
    /\ handler[t].pc = "push" /\ handler[t].todo # <<>>
    /\ UNCHANGED vars

(* The manager is gone, has not started its server, or raises, or rawFM has *)
(* no entry: the loop is left, and the managers behind it are not told      *)
(* either.                                                                  *)
PushFails(t) ==
    /\ handler[t].pc = "push" /\ handler[t].todo # <<>>
    /\ Return(t, Members(handler[t].todo), "push")
    /\ Frame /\ UNCHANGED <<traceVars, torn, told, crossed>>

ChangeDone(t) ==
    /\ handler[t].pc = "push" /\ handler[t].todo = <<>>
    /\ Return(t, {}, "no")
    /\ Frame /\ UNCHANGED <<traceVars, torn, told, crossed>>

-----------------------------------------------------------------------------
(* TRegister, TGetFileMap, TDeregister and the managers that call them.     *)

CallFrame == UNCHANGED <<traceVars, crossed>>

(* The memory of a process that has ended. *)
Gone(m) ==
    /\ phase' = [phase EXCEPT ![m] = "off"]
    /\ toRead' = [toRead EXCEPT ![m] = {}]
    /\ cursor' = [cursor EXCEPT ![m] = None]
    /\ torn' = [torn EXCEPT ![m] = FALSE]
    /\ told' = [told EXCEPT ![m] = [n \in Node |-> [f \in File |-> None]]]
    /\ missed' = [missed EXCEPT ![m] = [n \in Node |-> [f \in File |-> "no"]]]

(* Appends to the list, and so to every push loop over the same list. *)
TRegister(m) ==
    /\ phase[m] = "off"
    /\ Len(agent) < MaxAgent
    /\ agent' = Append(agent, m)
    /\ handler' = [t \in Thread |-> IF handler[t].live
                                    THEN [handler[t] EXCEPT !.todo = Append(@, m)]
                                    ELSE handler[t]]
    /\ phase' = [phase EXCEPT ![m] = "starting"]
    /\ toRead' = [toRead EXCEPT ![m] = Node]
    /\ cut' = [cut EXCEPT ![m] = FALSE]
    /\ CallFrame /\ UNCHANGED <<cursor, torn, leaving, told, missed>>

(* TGetFileMap comes to node n, *)
ReadBegin(m, n) ==
    /\ phase[m] = "starting" /\ cursor[m] = None
    /\ n \in toRead[m]
    /\ toRead' = [toRead EXCEPT ![m] = @ \ {n}]
    /\ cursor' = [cursor EXCEPT ![m] = n]
    /\ torn' = [torn EXCEPT ![m] = FALSE]
    /\ told' = [told EXCEPT ![m][n] = rawFM[n]]
    /\ missed' = [missed EXCEPT ![m][n] = [f \in File |-> "no"]]
    /\ CallFrame /\ UNCHANGED <<agent, handler, phase, leaving, cut>>

(* and leaves it: of the entries replaced meanwhile it has either value. *)
ReadEnd(m) ==
    LET n == cursor[m] IN
    /\ phase[m] = "starting" /\ n # None /\ ~torn[m]
    /\ \E late \in SUBSET File :
         told' = [told EXCEPT ![m][n] =
                    [f \in File |-> IF f \in late THEN rawFM[n][f] ELSE told[m][n][f]]]
    /\ cursor' = [cursor EXCEPT ![m] = None]
    /\ CallFrame /\ UNCHANGED <<agent, handler, phase, toRead, torn, leaving, missed, cut>>

(* Mutant: the server is started before the map is read. *)
Serve_Early(m) ==
    /\ phase[m] = "starting" /\ cursor[m] = None
    /\ phase' = [phase EXCEPT ![m] = "up"]
    /\ CallFrame /\ UNCHANGED <<agent, handler, toRead, cursor, torn, leaving, told, missed, cut>>

(* server.start() of the manager. *)
Serve(m) ==
    /\ phase[m] = "starting" /\ cursor[m] = None /\ toRead[m] = {}
    /\ phase' = [phase EXCEPT ![m] = "up"]
    /\ CallFrame /\ UNCHANGED <<agent, handler, toRead, cursor, torn, leaving, told, missed, cut>>

(* The lists that list(set(self.agent)) may give. *)
Orders(S) ==
    {s \in UNION {[1..k -> S] : k \in 0..MaxAgent} :
        /\ Members(s) = S
        /\ \A i, j \in 1..Len(s) : i # j => s[i] # s[j]}

(* A manager that ends normally, or whose TGetFileMap call raised, calls    *)
(* TDeregister; Trace computes the new list                                 *)
DeregisterBegin(m) ==
    /\ phase[m] = "up" \/ (phase[m] = "starting" /\ cursor[m] # None /\ torn[m])
    /\ m \in Members(agent)
    /\ \E s \in Orders(Members(agent) \ {m}) : leaving' = [leaving EXCEPT ![m] = s]
    /\ phase' = [phase EXCEPT ![m] = "leaving"]
    /\ cursor' = [cursor EXCEPT ![m] = None]
    /\ torn' = [torn EXCEPT ![m] = FALSE]
    /\ toRead' = [toRead EXCEPT ![m] = {}]
    /\ CallFrame /\ UNCHANGED <<agent, handler, told, missed, cut>>

(* and then assigns it.  Addresses appended in between are gone; a push     *)
(* loop goes on over the old list.                                          *)
DeregisterEnd(m) ==
    /\ phase[m] = "leaving"
    /\ agent' = leaving[m]
    /\ handler' = [t \in Thread |-> IF handler[t].live
                                    THEN [handler[t] EXCEPT !.live = FALSE]
                                    ELSE handler[t]]
    /\ leaving' = [leaving EXCEPT ![m] = <<>>]
    /\ cut' = [o \in Mgr |-> Active(o) /\ (cut[o] \/ o \notin Members(leaving[m]))]
    /\ Gone(m)
    /\ CallFrame

(* agents.remove raises ValueError: the address is not in the list. *)
DeregisterRaises(m) ==
    /\ phase[m] = "up" \/ (phase[m] = "starting" /\ cursor[m] # None /\ torn[m])
    /\ m \notin Members(agent)
    /\ Gone(m)
    /\ cut' = [cut EXCEPT ![m] = FALSE]
    /\ CallFrame /\ UNCHANGED <<agent, handler, leaving>>

(* A manager that is killed stays registered. *)
Kill(m) ==
    /\ Active(m)
    /\ Gone(m)
    /\ cut' = [cut EXCEPT ![m] = FALSE]
    /\ CallFrame /\ UNCHANGED <<agent, handler, leaving>>

-----------------------------------------------------------------------------
(* A call of TChangeFile arrives from a sender of node n at a free thread, *)
Arrives(t) ==
    \/ ChangeRejected(t)
    \/ \E n \in Node, f \in File :
         \/ \E l \in Layout : ChangeCreate(t, n, f, l) \/ ChangeModify(t, n, f, l)
         \/ DeleteUnknown(t, n, f) \/ ChangeDelete(t, n, f)

(* and goes on. *)
Continues(t) ==
    \/ CreateEntered(t) \/ ModifyEntered(t) \/ ModifyRaises(t)
    \/ DeleteRaw(t) \/ DeleteRawRaises(t) \/ DeleteLoop(t) \/ DeleteRaises(t)
    \/ Push(t) \/ PushFails(t) \/ ChangeDone(t)

MgrNext(m) ==
    \/ TRegister(m)
    \/ \E n \in Node : ReadBegin(m, n)
    \/ ReadEnd(m) \/ Serve(m)
    \/ DeregisterBegin(m) \/ DeregisterEnd(m) \/ DeregisterRaises(m)
    \/ Kill(m)

Next ==
    \/ \E t \in Thread : Arrives(t) \/ Continues(t)
    \/ \E m \in Mgr : MgrNext(m)

Spec == Init /\ [][Next]_vars

(* ssh and every push end, with a result or an error; nothing is assumed of *)
(* the workers or the managers.                                             *)
FairSpec == Spec /\ \A t \in Thread : WF_vars(Continues(t))

-----------------------------------------------------------------------------
(* Between its two writes to the maps. *)
Midway(h) == h.pc = "unmap" \/ (h.pc = "gfid" /\ h.action = "create")

(* The two maps of Trace list the same files, except where a create waits   *)
(* for the file's gfid, where a delete is between the two maps, and where   *)
(* two calls for the file have overlapped and none has run alone since that *)
(* created or deleted it.                                                   *)
MapsAgree ==
    \A n \in Node, f \in File :
      \/ <<n, f>> \in crossed
      \/ \E t \in Thread : At(t, n, f) /\ Midway(handler[t])
      \/ fmDict[n][f] = None <=> rawFM[n][f] = None

(* A manager that serves knows what rawFM holds of a file nobody is         *)
(* changing, or it is on record: a TChangeFile for the file, after its      *)
(* snapshot, was answered Fail, or overlapped with another one for the same *)
(* file; or its registration was cut by the TDeregister of another manager. *)
(* In particular no change falls between registration, snapshot and the     *)
(* live push list.                                                          *)
InSync ==
    \A m \in Mgr, n \in Node, f \in File :
      phase[m] = "up" /\ ~cut[m] /\ (\A t \in Thread : ~At(t, n, f))
        => told[m][n][f] = rawFM[n][f] \/ missed[m][n][f] # "no"


(* Trace with its managers implements a map with subscribers.  A file is    *)
(* open while a TChangeFile call for it is under way; a manager is in       *)
(* service while it serves and its registration was not cut.                *)
Subscribed ==
    INSTANCE SubscribedMap WITH
      Place <- Node, Name <- File, Sub <- Mgr,
      map <- rawFM, view <- told,
      on <- {m \in Mgr : phase[m] = "up" /\ ~cut[m]},
      open <- [n \in Node |-> {f \in File : \E t \in Thread : At(t, n, f)}],
      behind <- [m \in Mgr |-> [n \in Node |-> {f \in File : missed[m][n][f] # "no"}]]

(* Every step of Trace and its managers is one of the map's steps: rawFM    *)
(* changes only under an open file, a push carries the present entry or     *)
(* puts the manager on record, the last call for a file ends only when each *)
(* manager in service holds the entry or is on record, and a manager comes  *)
(* into service with a complete view.                                       *)
ImplementsMap == Subscribed!Spec

(* Every call of TChangeFile is answered, whatever the managers do that     *)
(* register at most MaxAgent addresses: one registered while the push loop  *)
(* runs makes it longer.                                                    *)
ChangesAnswered ==
    \A t \in Thread : handler[t].pc # "idle" ~> handler[t].pc = "idle"
=============================================================================
