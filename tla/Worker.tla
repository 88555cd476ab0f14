------------------------------- MODULE Worker -------------------------------
(***************************************************************************)
(* The storage-node worker of LBA2PBA (lba2pba/worker/worker.py).          *)
(*                                                                         *)
(* WInit scans every brick and forks one monitor process per brick, then   *)
(* one sender process.  A monitor receives the file system's events        *)
(* (watchdog over inotify, in order, one queue per brick) and files them   *)
(* in the shared dictionary targets, at most one entry per path.  The      *)
(* sender drains the dictionary: it reads the file's physical extents with *)
(* FIEMAP, calls Trace.TChangeFile and deletes the entry.                  *)
(*                                                                         *)
(* Data that is abstracted: a set of extents is a member of Layout (the    *)
(* properties only tell equal from different); a wall-clock second is the  *)
(* step Age; an entry's "volume:type:action" string is its action.         *)
(***************************************************************************)
EXTENDS Naturals, Sequences

CONSTANTS
    Brick,      \* brick directories of this node
    Path,       \* files that may exist below them
    BrickOf,    \* the brick a path lies in
    Backup,     \* paths that end in '~'
    Hidden,     \* paths that contain one of WInit's excludes (.swp, .smx, ...)
    Unscanned,  \* those of them that getFilePba leaves out too
    Layout,     \* non-empty lists of extents
    Empty,      \* the empty list, what getPBA returns for no extents or an error
    NoFile,     \* no such file
    NoBrick,    \* the sender is at no brick
    MaxQueue    \* bound: events a monitor has not read yet

ASSUME ConstantsAssumption ==
    /\ BrickOf \in [Path -> Brick]
    /\ Backup \subseteq Path
    /\ Hidden \subseteq Path
    /\ Unscanned \subseteq Hidden
    /\ Empty \notin Layout
    /\ NoFile \notin Layout \cup {Empty}
    /\ NoBrick \notin Brick
    /\ MaxQueue \in Nat

VARIABLES
    fs,           \* what each path holds on the disk
    events,       \* per brick, the events its monitor has not handled
    last_created, \* BrickMonitor.last_created: absent, less than 1 s ago, older
    targets,      \* self.targets: the pending action of a path
    status,       \* how far WInit and _monitor are with a brick
    listing,      \* files os.walk has listed and getPBA has not read yet
    serving,      \* Trace has the WInit reply and answers RPCs
    round,        \* bricks left of the sender's copy of targets.keys()
    cur,          \* the brick the sender is draining
    batch,        \* entries left of its copy of targets[cur].items()
    job,          \* the call of sendPba under way: a sequence of length 0 or 1
    heard,        \* the last report on a path that Trace has received
    dropped       \* history: was the last change of a path given up, and where

initVars == <<status, listing, serving>>
monitorVars == <<events, last_created>>
senderVars == <<round, cur, batch, job>>
vars == <<fs, events, last_created, targets, status, listing, serving,
          round, cur, batch, job, heard, dropped>>

Action == {"create", "modify", "delete"}
Content == Layout \cup {Empty}
Report == Content \cup {NoFile}
Item == [path : Path, action : Action]
Job == [path : Path, action : Action, pba : Report, sent : BOOLEAN]
Event == [kind : {"created", "modified", "deleted", "moved"}, src : Path, dst : Path]

(* Paths the monitors report on. *)
Monitored == Path \ (Backup \cup Hidden)

(* is_excluded. *)
IsExcluded(p) == p \in Hidden

Started == \A b \in Brick : status[b] \notin {"idle", "scanning"}

Reading(p) == Len(job) = 1 /\ job[1].path = p

TypeOK ==
    /\ fs \in [Path -> Report]
    /\ events \in [Brick -> Seq(Event)]
    /\ last_created \in [Path -> {"absent", "fresh", "old"}]
    /\ targets \in [Path -> Action \cup {"none"}]
    /\ status \in [Brick -> {"idle", "scanning", "forked", "watched", "skipped"}]
    /\ listing \subseteq Path
    /\ serving \in BOOLEAN
    /\ round \subseteq Brick
    /\ cur \in Brick \cup {NoBrick}
    /\ batch \subseteq Item
    /\ job \in Seq(Job)
    /\ Len(job) \in {0, 1}
    /\ heard \in [Path -> Report]
    /\ dropped \in [Path -> {"no", "discarded", "failed"}]

Init ==
    /\ fs \in [Path -> Report]
    /\ events = [b \in Brick |-> <<>>]
    /\ last_created = [p \in Path |-> "absent"]
    /\ targets = [p \in Path |-> "none"]
    /\ status = [b \in Brick |-> "idle"]
    /\ listing = {}
    /\ serving = FALSE
    /\ round = {}
    /\ cur = NoBrick
    /\ batch = {}
    /\ job = <<>>
    /\ heard = [p \in Path |-> NoFile]
    /\ dropped = [p \in Path |-> "no"]

-----------------------------------------------------------------------------
(* The file system below the bricks: whatever Gluster does to its files.    *)
(* A change is an event for the brick's monitor once the brick is watched.  *)

Emit(b, e) ==
    events' = IF status[b] = "watched"
              THEN [events EXCEPT ![b] = Append(@, e)]
              ELSE events

FsStep(b) ==
    /\ Len(events[b]) < MaxQueue
    /\ UNCHANGED <<last_created, targets, initVars, senderVars, heard, dropped>>

FsCreate(p, c) ==
    /\ FsStep(BrickOf[p])
    /\ fs[p] = NoFile
    /\ fs' = [fs EXCEPT ![p] = c]
    /\ Emit(BrickOf[p], [kind |-> "created", src |-> p, dst |-> p])

FsWrite(p, c) ==
    /\ FsStep(BrickOf[p])
    /\ fs[p] # NoFile
    /\ fs' = [fs EXCEPT ![p] = c]
    /\ Emit(BrickOf[p], [kind |-> "modified", src |-> p, dst |-> p])

FsDelete(p) ==
    /\ FsStep(BrickOf[p])
    /\ fs[p] # NoFile
    /\ fs' = [fs EXCEPT ![p] = NoFile]
    /\ Emit(BrickOf[p], [kind |-> "deleted", src |-> p, dst |-> p])

FsMove(p, q) ==
    /\ FsStep(BrickOf[p])
    /\ p # q /\ BrickOf[p] = BrickOf[q]
    /\ fs[p] # NoFile
    /\ fs' = [fs EXCEPT ![q] = fs[p], ![p] = NoFile]
    /\ Emit(BrickOf[p], [kind |-> "moved", src |-> p, dst |-> q])

-----------------------------------------------------------------------------
(* getPBA: the extents of a file, [] on any error, for a file that is gone  *)
(* and for one without extents (chunk_obj is then unbound at line 83).      *)

getPBA(p) == IF fs[p] \in Layout THEN {fs[p], Empty} ELSE {Empty}

(* WInit.  It takes the bricks one after the other: list and read the files *)
(* (getFilePba), fork the monitor, go on.  gluster or getBricks failing     *)
(* leaves the brick out.  The sender is forked after the last brick, and    *)
(* Trace serves only after it has every worker's reply.                     *)

(* A directory .glusterfs or .remove_me, or a file name with .swp or .smx.  *)
(* The monitors look for these anywhere in the path, so some hidden paths   *)
(* are scanned and never reported on again.                                 *)
Scannable(p) == p \notin Unscanned

StartScan(b) ==
    /\ status[b] = "idle"
    /\ \A c \in Brick : status[c] # "scanning"
    /\ status' = [status EXCEPT ![b] = "scanning"]
    /\ listing' = {p \in Path : BrickOf[p] = b /\ Scannable(p) /\ fs[p] # NoFile}
    /\ UNCHANGED <<fs, monitorVars, targets, serving, senderVars, heard, dropped>>

SkipBrick(b) ==
    /\ status[b] = "idle"
    /\ \A c \in Brick : status[c] # "scanning"
    /\ status' = [status EXCEPT ![b] = "skipped"]
    /\ UNCHANGED <<fs, monitorVars, targets, listing, serving, senderVars, heard, dropped>>

ScanFile(p) ==
    /\ p \in listing
    /\ listing' = listing \ {p}
    /\ \E v \in getPBA(p) : heard' = [heard EXCEPT ![p] = v]
    /\ UNCHANGED <<fs, monitorVars, targets, status, serving, senderVars, dropped>>

ForkMonitor(b) ==
    /\ status[b] = "scanning"
    /\ listing = {}
    /\ status' = [status EXCEPT ![b] = "forked"]
    /\ UNCHANGED <<fs, monitorVars, targets, listing, serving, senderVars, heard, dropped>>

(* _monitor in the forked process: observer.start().  Changes made since    *)
(* the scan have raised no event.                                           *)
Watch(b) ==
    /\ status[b] = "forked"
    /\ status' = [status EXCEPT ![b] = "watched"]
    /\ dropped' = [p \in Path |->
                     IF BrickOf[p] # b THEN dropped[p]
                     ELSE IF heard[p] = fs[p] THEN "no" ELSE "failed"]
    /\ UNCHANGED <<fs, monitorVars, targets, listing, serving, senderVars, heard>>

(* External: Trace.__init__ returns and its server starts. *)
TraceServes ==
    /\ Started
    /\ ~serving
    /\ serving' = TRUE
    /\ UNCHANGED <<fs, monitorVars, targets, status, listing, senderVars, heard, dropped>>

-----------------------------------------------------------------------------
(* BrickMonitor.  The handlers run one at a time, in the order of events.   *)

(* An entry that the sender has not read the file for yet. *)
Unread(p, actions) == targets[p] \in actions /\ ~Reading(p)

(* Mutant: the newest action replaces the entry. *)
FileEntry_Overwrite(p, a) == targets' = [targets EXCEPT ![p] = a]

(* File an action for p unless p already has an entry. *)
FileEntry(p, a) ==
    targets' = IF targets[p] = "none" THEN [targets EXCEPT ![p] = a] ELSE targets

(* A monitor handles the event of a change and files nothing for it. *)
Discard(ps) == dropped' = [p \in Path |-> IF p \in ps THEN "discarded" ELSE dropped[p]]

(* A change that is not filed is given up, unless the entry already there   *)
(* will be read, and says the same, later.                                  *)
Given(p, filed, actions) ==
    Discard(IF filed \/ Unread(p, actions) THEN {} ELSE {p})

Handle(b, kind) ==
    /\ events[b] # <<>>
    /\ Head(events[b]).kind = kind
    /\ events' = [events EXCEPT ![b] = Tail(@)]
    /\ UNCHANGED <<fs, initVars, senderVars, heard>>

Ignored(p) == IsExcluded(p) \/ p \in Backup

on_created(b) ==
    /\ Handle(b, "created")
    /\ LET p == Head(events[b]).src IN
         IF Ignored(p)
         THEN UNCHANGED <<last_created, targets, dropped>>
         ELSE /\ last_created' = [last_created EXCEPT ![p] = "fresh"]
              /\ FileEntry(p, "create")
              /\ Given(p, targets[p] = "none", {"create", "modify"})

(* Ignored for a path this monitor has not seen created, and for one        *)
(* created (or moved away) less than a second ago.                          *)
ModifyCounts(p) == last_created[p] = "old"

on_modified(b) ==
    /\ Handle(b, "modified")
    /\ UNCHANGED last_created
    /\ LET p == Head(events[b]).src IN
         IF Ignored(p)
         THEN UNCHANGED <<targets, dropped>>
         ELSE /\ IF ModifyCounts(p) THEN FileEntry(p, "modify") ELSE UNCHANGED targets
              /\ Given(p, ModifyCounts(p) /\ targets[p] = "none", {"create", "modify"})

on_deleted(b) ==
    /\ Handle(b, "deleted")
    /\ UNCHANGED last_created
    /\ LET p == Head(events[b]).src IN
         IF Ignored(p)
         THEN UNCHANGED <<targets, dropped>>
         ELSE /\ FileEntry(p, "delete")
              /\ Given(p, targets[p] = "none", {"delete"})

(* Mutant: a rename is filed as an action of its own. *)
on_moved_Filed(b) ==
    /\ Handle(b, "moved")
    /\ UNCHANGED <<last_created, dropped>>
    /\ FileEntry(Head(events[b]).src, "move")

(* A rename is remembered as a creation of its source and never reported. *)
on_moved(b) ==
    /\ Handle(b, "moved")
    /\ UNCHANGED targets
    /\ LET e == Head(events[b]) IN
         /\ last_created' = IF IsExcluded(e.src) \/ IsExcluded(e.dst)
                            THEN last_created
                            ELSE [last_created EXCEPT ![e.src] = "fresh"]
         /\ Discard({e.src, e.dst})

(* A second goes by: time.time() - last_created[p] >= 1. *)
Age(p) ==
    /\ last_created[p] = "fresh"
    /\ last_created' = [last_created EXCEPT ![p] = "old"]
    /\ UNCHANGED <<fs, events, targets, initVars, senderVars, heard, dropped>>

-----------------------------------------------------------------------------
(* sendProcess: for each brick of a copy of the keys, while it has entries, *)
(* take a copy of them and send each.                                       *)

Pending(b) == {p \in Path : BrickOf[p] = b /\ targets[p] # "none"}

SenderFrame == UNCHANGED <<fs, monitorVars, initVars>>

StartRound ==
    /\ Started
    /\ round = {} /\ cur = NoBrick
    /\ round' = {b \in Brick : status[b] = "watched"}
    /\ SenderFrame /\ UNCHANGED <<targets, cur, batch, job, heard, dropped>>

EnterBrick(b) ==
    /\ cur = NoBrick
    /\ b \in round
    /\ cur' = b
    /\ round' = round \ {b}
    /\ SenderFrame /\ UNCHANGED <<targets, batch, job, heard, dropped>>

(* Mutant: one entry at a time, always the first. *)
CopyItems_First ==
    /\ cur # NoBrick /\ batch = {} /\ job = <<>>
    /\ Pending(cur) # {}
    /\ batch' = LET p == CHOOSE p \in Pending(cur) : TRUE
                IN  {[path |-> p, action |-> targets[p]]}
    /\ SenderFrame /\ UNCHANGED <<targets, round, cur, job, heard, dropped>>

CopyItems ==
    /\ cur # NoBrick /\ batch = {} /\ job = <<>>
    /\ Pending(cur) # {}
    /\ batch' = {[path |-> p, action |-> targets[p]] : p \in Pending(cur)}
    /\ SenderFrame /\ UNCHANGED <<targets, round, cur, job, heard, dropped>>

LeaveBrick ==
    /\ cur # NoBrick /\ batch = {} /\ job = <<>>
    /\ Pending(cur) = {}
    /\ cur' = NoBrick
    /\ SenderFrame /\ UNCHANGED <<targets, round, batch, job, heard, dropped>>

(* sendPba: what the message will say.  A delete carries no extents. *)
Reads(i) == IF i.action = "delete" THEN {NoFile} ELSE getPBA(i.path)

Take(i) ==
    /\ job = <<>>
    /\ i \in batch
    /\ \E v \in Reads(i) :
         /\ job' = <<[path |-> i.path, action |-> i.action, pba |-> v, sent |-> FALSE]>>
         /\ dropped' = [dropped EXCEPT ![i.path] = IF v = fs[i.path] THEN "no" ELSE "failed"]
    /\ SenderFrame /\ UNCHANGED <<targets, round, cur, batch, heard>>

Deliver ==
    /\ Len(job) = 1 /\ ~job[1].sent
    /\ serving
    /\ heard' = [heard EXCEPT ![job[1].path] = job[1].pba]
    /\ job' = <<[job[1] EXCEPT !.sent = TRUE]>>
    /\ SenderFrame /\ UNCHANGED <<targets, round, cur, batch, dropped>>

(* grpc.RpcError is logged and forgotten. *)
RpcFails ==
    /\ Len(job) = 1 /\ ~job[1].sent
    /\ job' = <<[job[1] EXCEPT !.sent = TRUE]>>
    /\ dropped' = [dropped EXCEPT ![job[1].path] = "failed"]
    /\ SenderFrame /\ UNCHANGED <<targets, round, cur, batch, heard>>

(* Mutant: the entry is deleted before the call is made. *)
Forget_Early ==
    /\ Len(job) = 1
    /\ targets[job[1].path] # "none"
    /\ targets' = [targets EXCEPT ![job[1].path] = "none"]
    /\ batch' = {i \in batch : i.path # job[1].path}
    /\ job' = IF job[1].sent THEN <<>> ELSE job
    /\ SenderFrame /\ UNCHANGED <<round, cur, heard, dropped>>

(* Mutant: the brick's dictionary is cleared once the copy is sent. *)
Forget_Clear ==
    /\ Len(job) = 1 /\ job[1].sent
    /\ batch' = {i \in batch : i.path # job[1].path}
    /\ targets' = IF batch' = {}
                  THEN [p \in Path |-> IF BrickOf[p] = cur THEN "none" ELSE targets[p]]
                  ELSE targets
    /\ job' = <<>>
    /\ SenderFrame /\ UNCHANGED <<round, cur, heard, dropped>>

(* del self.targets[target][path], whatever became of the call. *)
Forget ==
    /\ Len(job) = 1 /\ job[1].sent
    /\ targets[job[1].path] # "none"
    /\ targets' = [targets EXCEPT ![job[1].path] = "none"]
    /\ batch' = {i \in batch : i.path # job[1].path}
    /\ job' = <<>>
    /\ SenderFrame /\ UNCHANGED <<round, cur, heard, dropped>>

-----------------------------------------------------------------------------
FsNext ==
    \E p \in Path :
      \/ \E c \in Content : FsCreate(p, c) \/ FsWrite(p, c)
      \/ FsDelete(p)
      \/ \E q \in Path : FsMove(p, q)

InitNext ==
    \/ \E b \in Brick : StartScan(b) \/ SkipBrick(b) \/ ForkMonitor(b) \/ Watch(b)
    \/ \E p \in Path : ScanFile(p)
    \/ TraceServes

MonitorNext(b) == on_created(b) \/ on_modified(b) \/ on_deleted(b) \/ on_moved(b)

Attempt == Deliver \/ RpcFails

SenderNext ==
    \/ StartRound
    \/ \E b \in Brick : EnterBrick(b)
    \/ CopyItems
    \/ LeaveBrick
    \/ \E i \in batch : Take(i)
    \/ Attempt
    \/ Forget

Next ==
    \/ FsNext
    \/ InitNext
    \/ \E b \in Brick : MonitorNext(b)
    \/ \E p \in Path : Age(p)
    \/ SenderNext

Spec == Init /\ [][Next]_vars

(* The operating system runs every process; a call ends (there is no        *)
(* deadline, but a peer that is gone is an RpcError).  Nothing is assumed   *)
(* of the file system.                                                      *)
Fairness ==
    /\ WF_vars(InitNext)
    /\ \A b \in Brick : WF_vars(MonitorNext(b)) /\ WF_vars(Watch(b))
    /\ WF_vars(SenderNext)

FairSpec == Spec /\ Fairness
-----------------------------------------------------------------------------
(* An event that concerns p is still in the queue of p's monitor. *)
Names(e, p) == p \in {e.src, e.dst}

Mentioned(p) ==
    \E i \in 1..Len(events[BrickOf[p]]) : Names(events[BrickOf[p]][i], p)

(* Nothing about p is on its way to Trace. *)
Quiet(p) ==
    /\ status[BrickOf[p]] = "watched"
    /\ ~Mentioned(p)
    /\ targets[p] = "none"

(* When nothing about a monitored path is under way, Trace has been told    *)
(* what the disk holds, or the path's last change was given up at one of    *)
(* the places the code gives one up: the gap between scan and observer      *)
(* (WInit), the early returns of on_modified, an entry already present, a   *)
(* rename, a getPBA that failed, an RpcError.  There is no other way to     *)
(* lose a change.                                                           *)
SyncedUnlessDropped ==
    \A p \in Monitored : Quiet(p) => dropped[p] # "no" \/ heard[p] = fs[p]

(* The sender works from a copy of targets[brick].items(); the copy never   *)
(* goes stale: every entry left in it is still in the dictionary with the   *)
(* action it was copied with.  The del of sendProcess therefore never       *)
(* raises KeyError, which would end the sender and every monitor (module    *)
(* Restart shows what a second sender does to that).                        *)
CopyIsCurrent ==
    \A i \in batch : targets[i.path] = i.action

(* An entry leaves the dictionary only after the call for it, with its      *)
(* action, was attempted.                                                   *)
ForgottenOnlyAfterAttempt ==
    [][\A p \in Path :
         (targets[p] # "none" /\ targets'[p] = "none")
           => Reading(p) /\ job[1].sent /\ job[1].action = targets[p]]_vars

(* Every entry is eventually taken out, however busy the file system is. *)
EntriesDrain ==
    \A p \in Path : (targets[p] # "none") ~> (targets[p] = "none")

(* A monitored file that is not changed over and over comes to rest: its    *)
(* events are handled, its entry has left the dictionary, and for good      *)
(* Trace knows what the disk holds, or the change is on record as given up. *)
ChangesSettle ==
    \A p \in Monitored :
      <>[](status[BrickOf[p]] = "watched")
        => \/ []<>Mentioned(p)
           \/ <>[](Quiet(p) /\ (dropped[p] # "no" \/ heard[p] = fs[p]))
=============================================================================
