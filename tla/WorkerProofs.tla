---------------------------- MODULE WorkerProofs ----------------------------
(***************************************************************************)
(* What the worker guarantees for every set of bricks, paths and layouts.  *)
(* The inductive invariant IInv follows a change from the disk to Trace:   *)
(* it is an event in the queue (EventInv), then an entry the sender has    *)
(* not read, then a call under way, then what Trace has heard (SyncInv);   *)
(* SenderInv says that the sender's copy is a part of the dictionary, and  *)
(* PhaseInv that nothing of this starts before the brick is watched.       *)
(***************************************************************************)
EXTENDS Worker, SequenceTheorems, TLAPS

-----------------------------------------------------------------------------
(* The inductive invariant.                                                 *)

(* The copy is a part of the dictionary, and the call under way is for an   *)
(* entry of the copy.                                                       *)
SenderInv ==
    /\ \A i \in batch : targets[i.path] = i.action
    /\ Len(job) = 1 => [path |-> job[1].path, action |-> job[1].action] \in batch

(* A brick that is not watched has no events and no entries; a brick under  *)
(* scan is not watched.                                                     *)
PhaseInv ==
    /\ \A p \in Path : status[BrickOf[p]] # "watched" => targets[p] = "none"
    /\ \A b \in Brick : status[b] # "watched" => events[b] = <<>>
    /\ \A p \in listing : status[BrickOf[p]] = "scanning"

(* Events stay within their brick, and only a move names two paths. *)
ShapeInv ==
    \A b \in Brick : \A i \in 1..Len(events[b]) :
       /\ BrickOf[events[b][i].src] = b
       /\ BrickOf[events[b][i].dst] = b
       /\ events[b][i].kind # "moved" => events[b][i].dst = events[b][i].src

(* What an event says of a path against what the disk holds. *)
Agrees(e, c) ==
    /\ e.kind = "deleted" => c = NoFile
    /\ e.kind \in {"created", "modified"} => c # NoFile

(* The last event that names a path agrees with the disk. *)
EventInv ==
    \A p \in Path : \A i \in 1..Len(events[BrickOf[p]]) :
       /\ Names(events[BrickOf[p]][i], p)
       /\ \A j \in 1..Len(events[BrickOf[p]]) :
             j > i => ~Names(events[BrickOf[p]][j], p)
       => Agrees(events[BrickOf[p]][i], fs[p])

(* Where the last change of p is once no event about it is queued. *)
Carried(p) ==
    /\ targets[p] \in {"create", "modify"} /\ ~Reading(p) => fs[p] # NoFile
    /\ targets[p] = "delete" /\ ~Reading(p) => fs[p] = NoFile
    /\ Reading(p) /\ ~job[1].sent => job[1].pba = fs[p]
    /\ Reading(p) /\ job[1].sent => heard[p] = fs[p]
    /\ targets[p] = "none" => heard[p] = fs[p]

SyncInv ==
    \A p \in Monitored :
       /\ status[BrickOf[p]] = "watched"
       /\ ~Mentioned(p)
       /\ dropped[p] = "no"
       => Carried(p)

IInv == TypeOK /\ SenderInv /\ PhaseInv /\ ShapeInv /\ EventInv /\ SyncInv

-----------------------------------------------------------------------------
(* Types.                                                                   *)

(* The events, entries and calls the actions build have their types. *)
LEMMA Built ==
    /\ \A k \in {"created", "modified", "deleted", "moved"}, p, q \in Path :
          [kind |-> k, src |-> p, dst |-> q] \in Event
    /\ \A e \in Event : e.src \in Path /\ e.dst \in Path
    /\ \A p \in Path, a \in Action : [path |-> p, action |-> a] \in Item
    /\ \A i \in Item : i.path \in Path /\ i.action \in Action
    /\ \A p \in Path, a \in Action, v \in Report, s \in BOOLEAN :
          [path |-> p, action |-> a, pba |-> v, sent |-> s] \in Job
    /\ \A j \in Job : j.path \in Path /\ j.action \in Action /\ j.pba \in Report
    /\ \A j \in Job : [j EXCEPT !.sent = TRUE] \in Job
    /\ {"create", "modify", "delete"} \subseteq Action
    /\ "none" \notin Action
    /\ \A p \in Path : getPBA(p) \subseteq Report
    /\ Content \subseteq Report
    /\ NoFile \in Report
BY DEF Event, Item, Job, Action, Report, Content, getPBA

(* The call under way is a Job. *)
LEMMA JobType ==
    ASSUME TypeOK, Len(job) = 1
    PROVE  /\ job[1] \in Job
           /\ <<[job[1] EXCEPT !.sent = TRUE]>> \in Seq(Job)
           /\ Len(<<[job[1] EXCEPT !.sent = TRUE]>>) = 1
<1>1. 1 \in 1..Len(job)
    BY DEF TypeOK
<1>2. job[1] \in Job
    BY <1>1, ElementOfSeq DEF TypeOK
<1> QED
    BY <1>2, Built

(* Taking the first event off a queue. *)
LEMMA HandleType ==
    ASSUME TypeOK, NEW b \in Brick, NEW k, Handle(b, k)
    PROVE  /\ events' \in [Brick -> Seq(Event)]
           /\ Head(events[b]) \in Event
           /\ Head(events[b]).src \in Path
           /\ Head(events[b]).dst \in Path
<1>1. \A s \in Seq(Event) : s # <<>> => Tail(s) \in Seq(Event) /\ Head(s) \in Event
    OBVIOUS
<1> QED
    BY <1>1, Built DEF TypeOK, Handle

(* The type invariant holds initially. *)
LEMMA TypeInit == Init => TypeOK
<1> SUFFICES ASSUME Init PROVE TypeOK
    OBVIOUS
<1>1. events \in [Brick -> Seq(Event)] /\ job \in Seq(Job) /\ Len(job) \in {0, 1}
    BY DEF Init
<1>2. heard \in [Path -> Report]
    BY DEF Init, Report
<1> QED
    BY <1>1, <1>2 DEF Init, TypeOK

(* Every action of the worker and of the file system keeps the types. *)
LEMMA TypeNext == TypeOK /\ [Next]_vars => TypeOK'
<1> SUFFICES ASSUME TypeOK, [Next]_vars PROVE TypeOK'
    OBVIOUS
<1> USE DEF initVars, monitorVars, senderVars, SenderFrame
<1>1. ASSUME NEW p \in Path, NEW q \in Path, NEW k \in {"created", "modified", "deleted", "moved"},
             FsStep(BrickOf[p]), Emit(BrickOf[p], [kind |-> k, src |-> p, dst |-> q]),
             fs' \in [Path -> Report]
      PROVE  TypeOK'
    <2>1. PICK e \in Event : e = [kind |-> k, src |-> p, dst |-> q]
        BY Built
    <2>2. BrickOf[p] \in Brick /\ events[BrickOf[p]] \in Seq(Event)
        BY ConstantsAssumption DEF TypeOK
    <2>3. Append(events[BrickOf[p]], e) \in Seq(Event)
        BY <2>2
    <2>4. events' \in [Brick -> Seq(Event)]
        BY <1>1, <2>1, <2>2, <2>3 DEF TypeOK, Emit
    <2> QED
        BY <1>1, <2>4 DEF TypeOK, FsStep
<1>2. ASSUME NEW p \in Path, NEW c \in Content, FsCreate(p, c) \/ FsWrite(p, c) PROVE TypeOK'
    <2>1. fs' \in [Path -> Report]
        BY <1>2, Built DEF TypeOK, FsCreate, FsWrite
    <2> QED
        BY <1>1, <1>2, <2>1 DEF FsCreate, FsWrite
<1>3. ASSUME NEW p \in Path, FsDelete(p) PROVE TypeOK'
    <2>1. fs' \in [Path -> Report]
        BY <1>3, Built DEF TypeOK, FsDelete
    <2> QED
        BY <1>1, <1>3, <2>1 DEF FsDelete
<1>4. ASSUME NEW p \in Path, NEW q \in Path, FsMove(p, q) PROVE TypeOK'
    <2>1. fs' \in [Path -> Report]
        BY <1>4, Built DEF TypeOK, FsMove
    <2> QED
        BY <1>1, <1>4, <2>1 DEF FsMove
<1>5. ASSUME NEW b \in Brick, StartScan(b) PROVE TypeOK'
    BY <1>5 DEF TypeOK, StartScan
<1>6. ASSUME NEW b \in Brick, SkipBrick(b) PROVE TypeOK'
    BY <1>6 DEF TypeOK, SkipBrick
<1>7. ASSUME NEW b \in Brick, ForkMonitor(b) PROVE TypeOK'
    BY <1>7 DEF TypeOK, ForkMonitor
<1>8. ASSUME NEW b \in Brick, Watch(b) PROVE TypeOK'
    BY <1>8 DEF TypeOK, Watch
<1>9. ASSUME NEW p \in Path, ScanFile(p) PROVE TypeOK'
    BY <1>9, Built DEF TypeOK, ScanFile
<1>10. CASE TraceServes
    BY <1>10 DEF TypeOK, TraceServes
<1>11. ASSUME NEW b \in Brick, on_created(b) \/ on_modified(b) \/ on_deleted(b) \/ on_moved(b)
       PROVE  TypeOK'
    <2>1. events' \in [Brick -> Seq(Event)] /\ Head(events[b]).src \in Path
        BY <1>11, HandleType DEF on_created, on_modified, on_deleted, on_moved
    <2>2. last_created' \in [Path -> {"absent", "fresh", "old"}]
        BY <1>11, <2>1 DEF TypeOK, on_created, on_modified, on_deleted, on_moved
    <2>3. targets' \in [Path -> Action \cup {"none"}]
        <3>1. \A p \in Path, a \in Action :
                 FileEntry(p, a) => targets' \in [Path -> Action \cup {"none"}]
            BY DEF TypeOK, FileEntry
        <3> QED
            BY <1>11, <2>1, <3>1, Built
            DEF TypeOK, on_created, on_modified, on_deleted, on_moved
    <2>4. dropped' \in [Path -> {"no", "discarded", "failed"}]
        <3>1. \A ps : Discard(ps) => dropped' \in [Path -> {"no", "discarded", "failed"}]
            BY DEF TypeOK, Discard
        <3> QED
            BY <1>11, <3>1 DEF TypeOK, on_created, on_modified, on_deleted, on_moved, Given
    <2> QED
        BY <1>11, <2>1, <2>2, <2>3, <2>4
        DEF TypeOK, on_created, on_modified, on_deleted, on_moved, Handle
<1>12. ASSUME NEW p \in Path, Age(p) PROVE TypeOK'
    BY <1>12 DEF TypeOK, Age
<1>13. CASE StartRound
    BY <1>13 DEF TypeOK, StartRound
<1>14. ASSUME NEW b \in Brick, EnterBrick(b) PROVE TypeOK'
    BY <1>14 DEF TypeOK, EnterBrick
<1>15. CASE CopyItems
    BY <1>15, Built DEF TypeOK, CopyItems, Pending
<1>16. CASE LeaveBrick
    BY <1>16 DEF TypeOK, LeaveBrick
<1>17. ASSUME NEW i \in batch, Take(i) PROVE TypeOK'
    <2>1. i.path \in Path /\ i.action \in Action
        BY Built DEF TypeOK
    <2>2. job' \in Seq(Job) /\ Len(job') = 1
        <3>1. \A j \in Job : <<j>> \in Seq(Job) /\ Len(<<j>>) = 1
            OBVIOUS
        <3>2. PICK v \in Reads(i) :
                 job' = <<[path |-> i.path, action |-> i.action, pba |-> v, sent |-> FALSE]>>
            BY <1>17 DEF Take
        <3>3. v \in Report
            BY <2>1, <3>2, Built DEF Reads
        <3> QED
            BY <2>1, <3>1, <3>2, <3>3, Built
    <2> QED
        BY <1>17, <2>1, <2>2 DEF TypeOK, Take
<1>18. CASE Deliver
    <2>1. job' \in Seq(Job) /\ Len(job') = 1 /\ job[1] \in Job
        BY <1>18, JobType DEF Deliver
    <2> QED
        BY <1>18, <2>1, Built DEF TypeOK, Deliver
<1>19. CASE RpcFails
    <2>1. job' \in Seq(Job) /\ Len(job') = 1 /\ job[1] \in Job
        BY <1>19, JobType DEF RpcFails
    <2> QED
        BY <1>19, <2>1, Built DEF TypeOK, RpcFails
<1>20. CASE Forget
    <2>1. job[1] \in Job
        BY <1>20, JobType DEF Forget
    <2> QED
        BY <1>20, <2>1, Built DEF TypeOK, Forget
<1>21. CASE UNCHANGED vars
    BY <1>21 DEF TypeOK, vars
<1> QED
    BY <1>2, <1>3, <1>4, <1>5, <1>6, <1>7, <1>8, <1>9, <1>10, <1>11, <1>12,
       <1>13, <1>14, <1>15, <1>16, <1>17, <1>18, <1>19, <1>20, <1>21
    DEF Next, FsNext, InitNext, MonitorNext, SenderNext, Attempt

(* The type invariant of the worker. *)
THEOREM TypeCorrect == Spec => []TypeOK
BY TypeInit, TypeNext, PTL DEF Spec

-----------------------------------------------------------------------------
(* The inductive invariant is preserved.  First, what a change of the disk  *)
(* and the handling of an event do to it, whatever the kind of event.       *)

(* The invariant holds initially: nothing is watched, filed or sent. *)
LEMMA InvInit == Init => IInv
<1> SUFFICES ASSUME Init PROVE IInv
    OBVIOUS
<1>1. TypeOK
    BY TypeInit
<1>2. SenderInv
    BY DEF Init, SenderInv
<1>3. PhaseInv
    BY ConstantsAssumption DEF Init, PhaseInv
<1>4. \A b \in Brick : Len(events[b]) = 0 /\ status[b] # "watched"
    BY DEF Init
<1>5. ShapeInv
    BY <1>4 DEF ShapeInv
<1>6. EventInv
    BY <1>4, ConstantsAssumption DEF EventInv
<1>7. SyncInv
    BY <1>4, ConstantsAssumption DEF SyncInv, Monitored
<1> QED
    BY <1>1, <1>2, <1>3, <1>5, <1>6, <1>7 DEF IInv

(* A change of the disk is queued as an event that agrees with it, or       *)
(* falls on a brick that is not watched yet.                                *)
LEMMA FsPreserves ==
    ASSUME IInv, TypeOK',
           NEW b \in Brick, NEW e \in Event,
           BrickOf[e.src] = b, BrickOf[e.dst] = b,
           e.kind # "moved" => e.dst = e.src,
           FsStep(b), Emit(b, e),
           \A p \in Path : ~Names(e, p) => fs'[p] = fs[p],
           \A p \in Path : Names(e, p) => Agrees(e, fs'[p])
    PROVE  IInv'
<1> USE DEF initVars, senderVars
<1>0. TypeOK /\ SenderInv /\ PhaseInv /\ ShapeInv /\ EventInv /\ SyncInv
    BY DEF IInv
<1>1. SenderInv'
    BY <1>0 DEF SenderInv, FsStep
<1>2. \A p \in Path : Names(e, p) => BrickOf[p] = b
    BY DEF Names
<1>3. CASE status[b] # "watched"
    <2>1. events' = events /\ events[b] = <<>>
        BY <1>0, <1>3 DEF Emit, PhaseInv
    <2>2. PhaseInv' /\ ShapeInv'
        BY <1>0, <2>1 DEF PhaseInv, ShapeInv, FsStep
    <2>3. EventInv'
        BY <1>0, <1>2, <2>1 DEF EventInv
    <2>4. SyncInv'
        <3> SUFFICES ASSUME NEW p \in Monitored,
                            status'[BrickOf[p]] = "watched", ~Mentioned(p)', dropped'[p] = "no"
                     PROVE  Carried(p)'
            BY DEF SyncInv
        <3>1. p \in Path /\ BrickOf[p] # b
            BY <1>3 DEF Monitored, FsStep
        <3>2. fs'[p] = fs[p]
            BY <1>2, <3>1
        <3>3. ~Mentioned(p) /\ Carried(p)
            BY <1>0, <2>1 DEF SyncInv, Mentioned, FsStep
        <3> QED
            BY <3>2, <3>3 DEF Carried, Reading, FsStep
    <2> QED
        BY <1>1, <2>2, <2>3, <2>4 DEF IInv
<1>4. CASE status[b] = "watched"
    <2>1. /\ events'[b] = Append(events[b], e)
          /\ \A c \in Brick : c # b => events'[c] = events[c]
          /\ events[b] \in Seq(Event)
        BY <1>0, <1>4 DEF Emit, TypeOK
    <2>2. /\ Len(events'[b]) = Len(events[b]) + 1
          /\ Len(events[b]) \in Nat
          /\ \A i \in 1..Len(events[b]) : events'[b][i] = events[b][i]
          /\ events'[b][Len(events[b]) + 1] = e
        BY <2>1
    <2>3. PhaseInv'
        BY <1>0, <1>4, <2>1 DEF PhaseInv, FsStep
    <2>4. ShapeInv'
        <3> SUFFICES ASSUME NEW c \in Brick, NEW i \in 1..Len(events'[c])
                     PROVE  /\ BrickOf[events'[c][i].src] = c
                            /\ BrickOf[events'[c][i].dst] = c
                            /\ events'[c][i].kind # "moved"
                                 => events'[c][i].dst = events'[c][i].src
            BY DEF ShapeInv
        <3>1. CASE c # b
            BY <1>0, <2>1, <3>1 DEF ShapeInv
        <3>2. CASE c = b /\ i = Len(events[b]) + 1
            BY <2>2, <3>2
        <3>3. CASE c = b /\ i # Len(events[b]) + 1
            <4>1. i \in 1..Len(events[b])
                BY <2>2, <3>3
            <4> QED
                BY <1>0, <2>2, <3>3, <4>1 DEF ShapeInv
        <3> QED
            BY <3>1, <3>2, <3>3
    <2>5. EventInv'
        <3> SUFFICES ASSUME NEW p \in Path, NEW i \in 1..Len(events'[BrickOf[p]]),
                            Names(events'[BrickOf[p]][i], p),
                            \A j \in 1..Len(events'[BrickOf[p]]) :
                               j > i => ~Names(events'[BrickOf[p]][j], p)
                     PROVE  Agrees(events'[BrickOf[p]][i], fs'[p])
            BY DEF EventInv
        <3>1. CASE BrickOf[p] # b
            BY <1>0, <1>2, <2>1, <3>1, ConstantsAssumption DEF EventInv
        <3>2. CASE BrickOf[p] = b /\ i = Len(events[b]) + 1
            BY <2>2, <3>2
        <3>3. CASE BrickOf[p] = b /\ i # Len(events[b]) + 1
            <4>1. i \in 1..Len(events[b]) /\ Len(events[b]) + 1 > i
                BY <2>2, <3>3
            <4>2. Len(events[b]) + 1 \in 1..Len(events'[b])
                BY <2>2
            <4>3. ~Names(e, p)
                BY <2>2, <3>3, <4>1, <4>2
            <4>4. \A j \in 1..Len(events[b]) : j > i => ~Names(events[b][j], p)
                BY <2>2, <3>3
            <4> QED
                BY <1>0, <2>2, <3>3, <4>1, <4>3, <4>4 DEF EventInv
        <3> QED
            BY <3>1, <3>2, <3>3
    <2>6. SyncInv'
        <3> SUFFICES ASSUME NEW p \in Monitored,
                            status'[BrickOf[p]] = "watched", ~Mentioned(p)', dropped'[p] = "no"
                     PROVE  Carried(p)'
            BY DEF SyncInv
        <3>1. p \in Path /\ BrickOf[p] \in Brick
            BY ConstantsAssumption DEF Monitored
        <3>2. ~Names(e, p)
            <4>1. CASE BrickOf[p] = b
                BY <2>2, <4>1 DEF Mentioned
            <4>2. CASE BrickOf[p] # b
                BY <1>2, <3>1, <4>2
            <4> QED
                BY <4>1, <4>2
        <3>3. ~Mentioned(p)
            <4>1. CASE BrickOf[p] = b
                BY <2>2, <4>1 DEF Mentioned
            <4>2. CASE BrickOf[p] # b
                BY <2>1, <3>1, <4>2 DEF Mentioned
            <4> QED
                BY <4>1, <4>2
        <3>4. Carried(p) /\ fs'[p] = fs[p]
            BY <1>0, <3>1, <3>2, <3>3 DEF SyncInv, FsStep
        <3> QED
            BY <3>4 DEF Carried, Reading, FsStep
    <2> QED
        BY <1>1, <2>3, <2>4, <2>5, <2>6 DEF IInv
<1> QED
    BY <1>3, <1>4

(* A handler takes the first event off its queue; it may file entries for   *)
(* paths without one, and the change it handles must still be carried on    *)
(* or be recorded as given up.                                              *)
LEMMA HandlePreserves ==
    ASSUME IInv, TypeOK',
           NEW b \in Brick, NEW k, Handle(b, k),
           \A p \in Path : ~Names(Head(events[b]), p)
                             => targets'[p] = targets[p] /\ dropped'[p] = dropped[p],
           \A p \in Path : targets[p] # "none" => targets'[p] = targets[p],
           \A p \in Monitored : Names(Head(events[b]), p) /\ ~Mentioned(p)' /\ dropped'[p] = "no"
                             => Carried(p)'
    PROVE  IInv'
<1> USE DEF initVars, senderVars
<1>0. TypeOK /\ SenderInv /\ PhaseInv /\ ShapeInv /\ EventInv /\ SyncInv
    BY DEF IInv
<1> DEFINE e == Head(events[b])
<1>1. /\ events[b] \in Seq(Event)
      /\ events[b] # <<>>
      /\ events'[b] = Tail(events[b])
      /\ \A c \in Brick : c # b => events'[c] = events[c]
    BY <1>0 DEF Handle, TypeOK
<1>2. /\ Len(events[b]) \in Nat /\ Len(events[b]) > 0
      /\ Len(events'[b]) = Len(events[b]) - 1
      /\ \A i \in 1..Len(events'[b]) : events'[b][i] = events[b][i + 1]
      /\ e = events[b][1]
    BY <1>1
<1>3. status[b] = "watched" /\ BrickOf[e.src] = b /\ BrickOf[e.dst] = b
    <2>1. 1 \in 1..Len(events[b])
        BY <1>2
    <2> QED
        BY <1>0, <1>1, <1>2, <2>1 DEF PhaseInv, ShapeInv
<1>4. \A p \in Path : Names(e, p) => BrickOf[p] = b
    BY <1>3 DEF Names
<1>5. SenderInv'
    <2>1. \A i \in batch : i.path \in Path /\ targets[i.path] # "none"
        <3> TAKE i \in batch
        <3>1. i \in Item
            BY <1>0 DEF TypeOK
        <3>2. i.path \in Path /\ i.action \in Action
            BY <3>1, Built
        <3> QED
            BY <1>0, <3>2, Built DEF SenderInv
    <2> QED
        BY <1>0, <2>1 DEF SenderInv, Handle
<1>6. PhaseInv'
    BY <1>0, <1>1, <1>3, <1>4 DEF PhaseInv, Handle
<1>7. ShapeInv'
    <2> SUFFICES ASSUME NEW c \in Brick, NEW i \in 1..Len(events'[c])
                 PROVE  /\ BrickOf[events'[c][i].src] = c
                        /\ BrickOf[events'[c][i].dst] = c
                        /\ events'[c][i].kind # "moved"
                             => events'[c][i].dst = events'[c][i].src
        BY DEF ShapeInv
    <2>1. CASE c # b
        BY <1>0, <1>1, <2>1 DEF ShapeInv
    <2>2. CASE c = b
        <3>1. i + 1 \in 1..Len(events[b]) /\ events'[b][i] = events[b][i + 1]
            BY <1>2, <2>2
        <3> QED
            BY <1>0, <2>2, <3>1 DEF ShapeInv
    <2> QED
        BY <2>1, <2>2
<1>8. EventInv'
    <2> SUFFICES ASSUME NEW p \in Path, NEW i \in 1..Len(events'[BrickOf[p]]),
                        Names(events'[BrickOf[p]][i], p),
                        \A j \in 1..Len(events'[BrickOf[p]]) :
                           j > i => ~Names(events'[BrickOf[p]][j], p)
                 PROVE  Agrees(events'[BrickOf[p]][i], fs[p])
        BY DEF EventInv, Handle
    <2>1. CASE BrickOf[p] # b
        BY <1>0, <1>1, <2>1, ConstantsAssumption DEF EventInv
    <2>2. CASE BrickOf[p] = b
        <3>1. i + 1 \in 1..Len(events[b]) /\ events'[b][i] = events[b][i + 1]
            BY <1>2, <2>2
        <3>2. \A j \in 1..Len(events[b]) : j > i + 1 => ~Names(events[b][j], p)
            <4> TAKE j \in 1..Len(events[b])
            <4> HAVE j > i + 1
            <4>1. j - 1 \in 1..Len(events'[b]) /\ j - 1 > i /\ (j - 1) + 1 = j
                BY <1>2, <2>2
            <4>2. events'[b][j - 1] = events[b][j]
                BY <1>2, <4>1
            <4> QED
                BY <2>2, <4>1, <4>2
        <3> QED
            BY <1>0, <2>2, <3>1, <3>2 DEF EventInv
    <2> QED
        BY <2>1, <2>2
<1>9. SyncInv'
    <2> SUFFICES ASSUME NEW p \in Monitored,
                        status'[BrickOf[p]] = "watched", ~Mentioned(p)', dropped'[p] = "no"
                 PROVE  Carried(p)'
        BY DEF SyncInv
    <2>1. p \in Path /\ BrickOf[p] \in Brick
        BY ConstantsAssumption DEF Monitored
    <2>2. CASE Names(e, p)
        BY <2>2
    <2>3. CASE ~Names(e, p)
        <3>1. ~Mentioned(p)
            <4>1. CASE BrickOf[p] = b
                <5> SUFFICES ASSUME NEW j \in 1..Len(events[b]), Names(events[b][j], p)
                             PROVE  FALSE
                    BY <4>1 DEF Mentioned
                <5>1. j # 1
                    BY <1>2, <2>3
                <5>2. j - 1 \in 1..Len(events'[b]) /\ (j - 1) + 1 = j
                    BY <1>2, <5>1
                <5>3. events'[b][j - 1] = events[b][j]
                    BY <1>2, <5>2
                <5> QED
                    BY <4>1, <5>2, <5>3 DEF Mentioned
            <4>2. CASE BrickOf[p] # b
                BY <1>1, <2>1, <4>2 DEF Mentioned
            <4> QED
                BY <4>1, <4>2
        <3>2. Carried(p) /\ targets'[p] = targets[p]
            BY <1>0, <2>1, <2>3, <3>1 DEF SyncInv, Handle
        <3> QED
            BY <3>2 DEF Carried, Reading, Handle
    <2> QED
        BY <2>2, <2>3
<1> QED
    BY <1>5, <1>6, <1>7, <1>8, <1>9 DEF IInv

(* Each handler meets the conditions of HandlePreserves. *)
LEMMA HandlersPreserve ==
    ASSUME IInv, TypeOK', NEW b \in Brick, MonitorNext(b)
    PROVE  IInv'
<1>0. TypeOK /\ SenderInv /\ PhaseInv /\ ShapeInv /\ EventInv /\ SyncInv
    BY DEF IInv
<1>1. PICK k : Handle(b, k)
    BY DEF MonitorNext, on_created, on_modified, on_deleted, on_moved
<1>a. PICK e \in Event : e = Head(events[b])
    BY <1>0, <1>1, HandleType
<1>b. PICK p \in Path : p = e.src
    BY Built
<1>2. e \in Event /\ p \in Path /\ e.dst \in Path
    BY Built
<1> USE <1>a, <1>b
<1>3. /\ events[b] \in Seq(Event) /\ events[b] # <<>>
      /\ events'[b] = Tail(events[b])
    BY <1>0, <1>1 DEF Handle, TypeOK
<1>4. /\ 1 \in 1..Len(events[b]) /\ e = events[b][1] /\ Len(events[b]) \in Nat
      /\ Len(events'[b]) = Len(events[b]) - 1
      /\ \A i \in 1..Len(events'[b]) : events'[b][i] = events[b][i + 1]
    BY <1>3
<1>5. BrickOf[p] = b /\ (e.kind # "moved" => e.dst = p)
    BY <1>0, <1>4 DEF ShapeInv
(* When no other event names the path, the handled one agrees with the disk. *)
<1>6. ASSUME ~Mentioned(p)' PROVE Agrees(e, fs[p])
    <2>1. \A j \in 1..Len(events[b]) : j > 1 => ~Names(events[b][j], p)
        <3> TAKE j \in 1..Len(events[b])
        <3> HAVE j > 1
        <3>1. j - 1 \in 1..Len(events'[b]) /\ (j - 1) + 1 = j
            BY <1>4
        <3>2. events'[b][j - 1] = events[b][j]
            BY <1>4, <3>1
        <3> QED
            BY <1>5, <1>6, <3>1, <3>2 DEF Mentioned
    <2>2. Names(e, p)
        BY DEF Names
    <2> QED
        BY <1>0, <1>2, <1>4, <1>5, <2>1, <2>2 DEF EventInv
<1>7. UNCHANGED <<fs, heard, job>>
    BY <1>1 DEF Handle, senderVars
(* Filing leaves the other paths and every entry that is there alone. *)
<1>8. ASSUME NEW a \in Action, FileEntry(p, a)
      PROVE  /\ \A q \in Path : q # p => targets'[q] = targets[q]
             /\ \A q \in Path : targets[q] # "none" => targets'[q] = targets[q]
             /\ targets[p] = "none" => targets'[p] = a
    BY <1>0, <1>2, <1>8 DEF FileEntry, TypeOK
<1>9. \A ps : Discard(ps) =>
         \A q \in Path : dropped'[q] = IF q \in ps THEN "discarded" ELSE dropped[q]
    BY DEF Discard
<1>10. targets[p] = "none" => ~Reading(p)
    <2> SUFFICES ASSUME Reading(p) PROVE targets[p] # "none"
        OBVIOUS
    <2>1. [path |-> p, action |-> job[1].action] \in batch
        BY <1>0 DEF SenderInv, Reading
    <2>2. targets[p] = job[1].action
        BY <1>0, <2>1 DEF SenderInv
    <2> QED
        BY <1>0, <2>2, JobType, Built DEF Reading
<1>11. CASE on_created(b) \/ on_modified(b)
    <2>1. e.kind \in {"created", "modified"}
        BY <1>11 DEF on_created, on_modified, Handle
    <2>2. \A q : Names(e, q) <=> q = p
        BY <1>5, <2>1 DEF Names
    <2>3. CASE Ignored(p)
        <3>1. UNCHANGED <<targets, dropped>>
            BY <1>11, <2>3 DEF on_created, on_modified
        <3>2. p \notin Monitored
            BY <2>3 DEF Ignored, IsExcluded, Monitored
        <3> QED
            BY <1>1, <2>2, <3>1, <3>2, HandlePreserves
    <2>4. CASE ~Ignored(p)
        <3>1. PICK a \in {"create", "modify"}, filed \in BOOLEAN :
                 /\ IF filed THEN targets[p] = "none" /\ FileEntry(p, a)
                             ELSE targets' = targets
                 /\ Given(p, filed, {"create", "modify"})
            <4>1. CASE on_created(b)
                <5>1. FileEntry(p, "create") /\ Given(p, targets[p] = "none", {"create", "modify"})
                    BY <2>4, <4>1 DEF on_created
                <5> QED
                    BY <5>1 DEF FileEntry
            <4>2. CASE on_modified(b)
                <5>1. /\ IF ModifyCounts(p) THEN FileEntry(p, "modify") ELSE UNCHANGED targets
                      /\ Given(p, ModifyCounts(p) /\ targets[p] = "none", {"create", "modify"})
                    BY <2>4, <4>2 DEF on_modified
                <5> QED
                    BY <5>1 DEF FileEntry
            <4> QED
                BY <1>11, <4>1, <4>2
        <3>2. /\ \A q \in Path : q # p => targets'[q] = targets[q]
              /\ \A q \in Path : targets[q] # "none" => targets'[q] = targets[q]
              /\ filed => targets'[p] = a
            BY <1>8, <3>1, Built
        <3>3. /\ \A q \in Path : q # p => dropped'[q] = dropped[q]
              /\ dropped'[p] = "no" => filed \/ Unread(p, {"create", "modify"})
            BY <1>2, <1>9, <3>1 DEF Given
        <3>4. ASSUME ~Mentioned(p)', dropped'[p] = "no" PROVE Carried(p)'
            <4>1. fs[p] # NoFile
                BY <1>6, <2>1, <3>4 DEF Agrees
            <4>2. targets'[p] \in {"create", "modify"} /\ ~Reading(p)
                BY <1>2, <1>10, <3>1, <3>2, <3>3, <3>4 DEF Unread
            <4> QED
                BY <1>7, <4>1, <4>2 DEF Carried, Reading
        <3> QED
            BY <1>1, <2>2, <3>2, <3>3, <3>4, HandlePreserves
    <2> QED
        BY <2>3, <2>4
<1>12. CASE on_deleted(b)
    <2>1. e.kind = "deleted"
        BY <1>12 DEF on_deleted, Handle
    <2>2. \A q : Names(e, q) <=> q = p
        BY <1>5, <2>1 DEF Names
    <2>3. CASE Ignored(p)
        <3>1. UNCHANGED <<targets, dropped>>
            BY <1>12, <2>3 DEF on_deleted
        <3>2. p \notin Monitored
            BY <2>3 DEF Ignored, IsExcluded, Monitored
        <3> QED
            BY <1>1, <2>2, <3>1, <3>2, HandlePreserves
    <2>4. CASE ~Ignored(p)
        <3>1. FileEntry(p, "delete") /\ Given(p, targets[p] = "none", {"delete"})
            BY <1>12, <2>4 DEF on_deleted
        <3>2. /\ \A q \in Path : q # p => targets'[q] = targets[q]
              /\ \A q \in Path : targets[q] # "none" => targets'[q] = targets[q]
              /\ targets[p] = "none" => targets'[p] = "delete"
            BY <1>8, <3>1, Built
        <3>3. /\ \A q \in Path : q # p => dropped'[q] = dropped[q]
              /\ dropped'[p] = "no" => targets[p] = "none" \/ Unread(p, {"delete"})
            BY <1>2, <1>9, <3>1 DEF Given
        <3>4. ASSUME ~Mentioned(p)', dropped'[p] = "no" PROVE Carried(p)'
            <4>1. fs[p] = NoFile
                BY <1>6, <2>1, <3>4 DEF Agrees
            <4>2. targets'[p] = "delete" /\ ~Reading(p)
                BY <1>2, <1>10, <3>2, <3>3, <3>4 DEF Unread
            <4> QED
                BY <1>7, <4>1, <4>2 DEF Carried, Reading
        <3> QED
            BY <1>1, <2>2, <3>2, <3>3, <3>4, HandlePreserves
    <2> QED
        BY <2>3, <2>4
<1>13. CASE on_moved(b)
    <2>1. targets' = targets /\ Discard({e.src, e.dst})
        BY <1>13 DEF on_moved
    <2>2. /\ \A q \in Path : ~Names(e, q) => dropped'[q] = dropped[q]
          /\ \A q \in Path : Names(e, q) => dropped'[q] = "discarded"
        BY <1>9, <2>1 DEF Names
    <2>3. Monitored \subseteq Path
        BY DEF Monitored
    <2> QED
        BY <1>1, <2>1, <2>2, <2>3, HandlePreserves
<1> QED
    BY <1>11, <1>12, <1>13 DEF MonitorNext

(* A step that leaves the brick phases, queues, entries and reports alone. *)
LEMMA FramePreserves ==
    ASSUME IInv, TypeOK',
           UNCHANGED <<fs, events, targets, status, listing, batch, job, heard, dropped>>
    PROVE  IInv'
BY DEF IInv, SenderInv, PhaseInv, ShapeInv, EventInv, SyncInv, Carried, Reading, Mentioned

(* WInit, the forked monitors and Trace's start. *)
LEMMA InitNextPreserves ==
    ASSUME IInv, TypeOK', InitNext
    PROVE  IInv'
<1> USE DEF initVars, monitorVars, senderVars
<1>0. TypeOK /\ SenderInv /\ PhaseInv /\ ShapeInv /\ EventInv /\ SyncInv
    BY DEF IInv
<1>1. UNCHANGED <<fs, events, targets, batch, job>>
    BY DEF InitNext, StartScan, SkipBrick, ScanFile, ForkMonitor, Watch, TraceServes
<1>2. SenderInv' /\ ShapeInv' /\ EventInv'
    BY <1>0, <1>1 DEF SenderInv, ShapeInv, EventInv
<1>3. \A p \in Path : Mentioned(p)' = Mentioned(p)
    BY <1>1 DEF Mentioned
(* Of a path whose brick stays watched nothing changes. *)
<1>4. ASSUME NEW p \in Monitored, status[BrickOf[p]] = "watched",
             ~Mentioned(p)', dropped'[p] = "no",
             heard'[p] = heard[p], dropped'[p] = dropped[p]
      PROVE  Carried(p)'
    <2>1. Carried(p)
        BY <1>0, <1>3, <1>4 DEF SyncInv, Monitored
    <2> QED
        BY <1>1, <1>4, <2>1 DEF Carried, Reading
<1>5. ASSUME NEW b \in Brick, StartScan(b) \/ SkipBrick(b) \/ ForkMonitor(b) PROVE IInv'
    <2>1. /\ \A c \in Brick : status'[c] = "watched" <=> status[c] = "watched"
          /\ UNCHANGED <<heard, dropped>>
        BY <1>0, <1>5 DEF TypeOK, StartScan, SkipBrick, ForkMonitor
    <2>2. PhaseInv'
        <3>1. \A p \in Path : status'[BrickOf[p]] # "watched" => targets[p] = "none"
            BY <1>0, <2>1, ConstantsAssumption DEF PhaseInv
        <3>2. \A c \in Brick : status'[c] # "watched" => events[c] = <<>>
            BY <1>0, <2>1 DEF PhaseInv
        <3>3. \A p \in listing' : status'[BrickOf[p]] = "scanning"
            BY <1>0, <1>5, ConstantsAssumption
            DEF TypeOK, PhaseInv, StartScan, SkipBrick, ForkMonitor
        <3> QED
            BY <1>1, <3>1, <3>2, <3>3 DEF PhaseInv
    <2>3. SyncInv'
        BY <1>4, <2>1, ConstantsAssumption DEF SyncInv, Monitored
    <2> QED
        BY <1>2, <2>2, <2>3 DEF IInv
<1>6. ASSUME NEW b \in Brick, Watch(b) PROVE IInv'
    <2>1. /\ status'[b] = "watched" /\ status[b] = "forked"
          /\ \A c \in Brick : c # b => status'[c] = status[c]
          /\ UNCHANGED <<heard, listing>>
          /\ \A p \in Path : BrickOf[p] # b => dropped'[p] = dropped[p]
          /\ \A p \in Path : BrickOf[p] = b /\ dropped'[p] = "no" => heard[p] = fs[p]
        BY <1>0, <1>6 DEF TypeOK, Watch
    <2>2. PhaseInv'
        BY <1>0, <1>1, <2>1, ConstantsAssumption DEF PhaseInv, TypeOK
    <2>3. SyncInv'
        <3> SUFFICES ASSUME NEW p \in Monitored,
                            status'[BrickOf[p]] = "watched", ~Mentioned(p)', dropped'[p] = "no"
                     PROVE  Carried(p)'
            BY DEF SyncInv
        <3>1. p \in Path /\ BrickOf[p] \in Brick
            BY ConstantsAssumption DEF Monitored
        <3>2. CASE BrickOf[p] # b
            BY <1>4, <2>1, <3>1, <3>2
        <3>3. CASE BrickOf[p] = b
            <4>1. targets[p] = "none" /\ heard[p] = fs[p]
                BY <1>0, <2>1, <3>1, <3>3 DEF PhaseInv
            <4>2. ~Reading(p)
                <5> SUFFICES ASSUME Reading(p) PROVE FALSE
                    OBVIOUS
                <5>1. [path |-> p, action |-> job[1].action] \in batch
                    BY <1>0 DEF SenderInv, Reading
                <5>2. targets[p] = job[1].action
                    BY <1>0, <5>1 DEF SenderInv
                <5> QED
                    BY <1>0, <4>1, <5>2, JobType, Built DEF Reading
            <4> QED
                BY <1>1, <2>1, <4>1, <4>2 DEF Carried, Reading
        <3> QED
            BY <3>2, <3>3
    <2> QED
        BY <1>2, <2>2, <2>3 DEF IInv
<1>7. ASSUME NEW q \in Path, ScanFile(q) PROVE IInv'
    <2>1. /\ UNCHANGED <<status, dropped>>
          /\ status[BrickOf[q]] = "scanning"
          /\ listing' \subseteq listing
          /\ \A p \in Path : p # q => heard'[p] = heard[p]
        BY <1>0, <1>7 DEF TypeOK, ScanFile, PhaseInv
    <2>2. PhaseInv'
        BY <1>0, <1>1, <2>1 DEF PhaseInv
    <2>3. SyncInv'
        BY <1>4, <2>1 DEF SyncInv, Monitored
    <2> QED
        BY <1>2, <2>2, <2>3 DEF IInv
<1>8. CASE TraceServes
    BY <1>8, FramePreserves DEF TraceServes
<1> QED
    BY <1>5, <1>6, <1>7, <1>8 DEF InitNext

(* The sender. *)
LEMMA SenderPreserves ==
    ASSUME IInv, TypeOK', SenderNext
    PROVE  IInv'
<1> USE DEF initVars, monitorVars, SenderFrame
<1>0. TypeOK /\ SenderInv /\ PhaseInv /\ ShapeInv /\ EventInv /\ SyncInv
    BY DEF IInv
<1>1. UNCHANGED <<fs, events, status, listing>>
    BY DEF SenderNext, StartRound, EnterBrick, CopyItems, LeaveBrick, Take,
           Attempt, Deliver, RpcFails, Forget
<1>2. ShapeInv' /\ EventInv' /\ \A p \in Path : Mentioned(p)' = Mentioned(p)
    BY <1>0, <1>1 DEF ShapeInv, EventInv, Mentioned
<1>3. CASE StartRound \/ (\E b \in Brick : EnterBrick(b)) \/ LeaveBrick
    BY <1>3, FramePreserves DEF StartRound, EnterBrick, LeaveBrick
<1>4. CASE CopyItems
    <2>1. UNCHANGED <<targets, job, heard, dropped>> /\ Len(job) = 0
        BY <1>4 DEF CopyItems
    <2>2. SenderInv'
        BY <1>0, <1>4, <2>1 DEF SenderInv, CopyItems, Pending
    <2>3. PhaseInv' /\ SyncInv'
        BY <1>0, <1>1, <2>1 DEF PhaseInv, SyncInv, Mentioned, Carried, Reading
    <2> QED
        BY <1>2, <2>2, <2>3 DEF IInv
<1>5. ASSUME NEW i \in batch, Take(i) PROVE IInv'
    <2>1. i \in Item /\ i.path \in Path /\ i.action \in Action
          /\ i = [path |-> i.path, action |-> i.action]
        BY <1>0 DEF TypeOK, Item
    <2>2. PICK v \in Reads(i) :
             /\ job' = <<[path |-> i.path, action |-> i.action, pba |-> v, sent |-> FALSE]>>
             /\ dropped' = [dropped EXCEPT ![i.path] =
                              IF v = fs[i.path] THEN "no" ELSE "failed"]
        BY <1>5 DEF Take
    <2>3. UNCHANGED <<targets, batch, heard>> /\ job = <<>>
        BY <1>5 DEF Take
    <2>4. /\ Len(job') = 1 /\ job'[1].path = i.path /\ job'[1].action = i.action
          /\ job'[1].pba = v /\ job'[1].sent = FALSE /\ Len(job) = 0
        BY <2>2, <2>3
    <2>5. SenderInv'
        BY <1>0, <2>1, <2>3, <2>4 DEF SenderInv
    <2>6. PhaseInv'
        BY <1>0, <1>1, <2>3 DEF PhaseInv
    <2>7. SyncInv'
        <3> SUFFICES ASSUME NEW p \in Monitored,
                            status'[BrickOf[p]] = "watched", ~Mentioned(p)', dropped'[p] = "no"
                     PROVE  Carried(p)'
            BY DEF SyncInv
        <3>1. p \in Path
            BY DEF Monitored
        <3>2. CASE p = i.path
            <4>1. v = fs[p] /\ targets[p] \in Action
                BY <1>0, <2>1, <2>2, <3>1, <3>2 DEF TypeOK, SenderInv
            <4>2. Reading(p)'
                BY <2>4, <3>2 DEF Reading
            <4> QED
                BY <1>1, <2>3, <2>4, <4>1, <4>2, Built DEF Carried
        <3>3. CASE p # i.path
            <4>1. dropped[p] = "no" /\ Carried(p)
                BY <1>0, <1>1, <1>2, <2>1, <2>2, <3>1, <3>3 DEF TypeOK, SyncInv
            <4>2. ~Reading(p) /\ ~Reading(p)'
                BY <2>4, <3>3 DEF Reading
            <4> QED
                BY <1>1, <2>3, <4>1, <4>2 DEF Carried
        <3> QED
            BY <3>2, <3>3
    <2> QED
        BY <1>2, <2>5, <2>6, <2>7 DEF IInv
<1>6. CASE Attempt
    <2>1. Len(job) = 1 /\ ~job[1].sent /\ UNCHANGED <<targets, batch>>
          /\ job' = <<[job[1] EXCEPT !.sent = TRUE]>>
        BY <1>6 DEF Attempt, Deliver, RpcFails
    <2>2. job[1] \in Job /\ job[1].path \in Path
        BY <1>0, <2>1, JobType, Built
    <2>3. /\ Len(job') = 1 /\ job'[1].path = job[1].path
          /\ job'[1].action = job[1].action /\ job'[1].sent = TRUE
        BY <2>1, <2>2 DEF Job
    <2>4. SenderInv' /\ PhaseInv'
        BY <1>0, <1>1, <2>1, <2>3 DEF SenderInv, PhaseInv
    <2>5. SyncInv'
        <3> SUFFICES ASSUME NEW p \in Monitored,
                            status'[BrickOf[p]] = "watched", ~Mentioned(p)', dropped'[p] = "no"
                     PROVE  Carried(p)'
            BY DEF SyncInv
        <3>1. p \in Path
            BY DEF Monitored
        <3>2. dropped[p] = "no" /\ (p = job[1].path => Deliver)
            BY <1>0, <1>6, <2>2, <3>1 DEF Attempt, Deliver, RpcFails, TypeOK
        <3>3. Carried(p)
            BY <1>0, <1>1, <1>2, <3>1, <3>2 DEF SyncInv
        <3>4. CASE p = job[1].path
            <4>1. heard'[p] = fs[p]
                BY <1>0, <2>1, <3>1, <3>2, <3>3, <3>4 DEF Deliver, Carried, Reading, TypeOK
            <4>2. Reading(p) /\ Reading(p)' /\ job'[1].sent
                BY <2>1, <2>3, <3>4 DEF Reading
            <4> QED
                BY <1>1, <2>1, <4>1, <4>2 DEF Carried
        <3>5. CASE p # job[1].path
            <4>1. heard'[p] = heard[p]
                BY <1>0, <1>6, <3>1, <3>5 DEF Attempt, Deliver, RpcFails, TypeOK
            <4>2. ~Reading(p) /\ ~Reading(p)'
                BY <2>3, <3>5 DEF Reading
            <4> QED
                BY <1>1, <2>1, <3>3, <4>1, <4>2 DEF Carried
        <3> QED
            BY <3>4, <3>5
    <2> QED
        BY <1>2, <2>4, <2>5 DEF IInv
<1>7. CASE Forget
    <2>1. Len(job) = 1 /\ job[1].sent /\ UNCHANGED <<heard, dropped>> /\ job' = <<>>
        BY <1>7 DEF Forget
    <2>2. job[1] \in Job /\ job[1].path \in Path
        BY <1>0, <2>1, JobType, Built
    <2>3. /\ targets'[job[1].path] = "none"
          /\ \A p \in Path : p # job[1].path => targets'[p] = targets[p]
          /\ batch' = {i \in batch : i.path # job[1].path}
        BY <1>0, <1>7, <2>2 DEF Forget, TypeOK
    <2>4. Len(job') = 0
        BY <2>1
    <2>5. SenderInv'
        <3>1. \A i \in batch : i.path \in Path
            BY <1>0, Built DEF TypeOK
        <3> QED
            BY <1>0, <2>3, <2>4, <3>1 DEF SenderInv
    <2>6. PhaseInv'
        BY <1>0, <1>1, <2>3 DEF PhaseInv
    <2>7. SyncInv'
        <3> SUFFICES ASSUME NEW p \in Monitored,
                            status'[BrickOf[p]] = "watched", ~Mentioned(p)', dropped'[p] = "no"
                     PROVE  Carried(p)'
            BY DEF SyncInv
        <3>1. p \in Path
            BY DEF Monitored
        <3>2. Carried(p)
            BY <1>0, <1>1, <1>2, <2>1, <3>1 DEF SyncInv
        <3>3. ~Reading(p)'
            BY <2>4 DEF Reading
        <3>4. CASE p = job[1].path
            BY <1>1, <2>1, <2>3, <3>2, <3>3, <3>4 DEF Carried, Reading
        <3>5. CASE p # job[1].path
            BY <1>1, <2>1, <2>3, <3>1, <3>2, <3>3, <3>5 DEF Carried, Reading
        <3> QED
            BY <3>4, <3>5
    <2> QED
        BY <1>2, <2>5, <2>6, <2>7 DEF IInv
<1> QED
    BY <1>3, <1>4, <1>5, <1>6, <1>7 DEF SenderNext

(* Every step of the specification preserves the inductive invariant. *)
LEMMA InvNext == IInv /\ [Next]_vars => IInv'
<1> SUFFICES ASSUME IInv, [Next]_vars PROVE IInv'
    OBVIOUS
<1>1. TypeOK'
    BY TypeNext DEF IInv
<1>2. ASSUME FsNext PROVE IInv'
    <2>1. TypeOK /\ \A p \in Path : BrickOf[p] \in Brick
        BY ConstantsAssumption DEF IInv
    <2>2. ASSUME NEW p \in Path, NEW c \in Content, FsCreate(p, c) PROVE IInv'
        <3>1. PICK e \in Event : e = [kind |-> "created", src |-> p, dst |-> p]
            BY Built
        <3>2. fs'[p] # NoFile /\ \A q \in Path : q # p => fs'[q] = fs[q]
            BY <2>1, <2>2, ConstantsAssumption DEF FsCreate, TypeOK, Content
        <3> QED
            BY <1>1, <2>1, <2>2, <3>1, <3>2, FsPreserves DEF FsCreate, Names, Agrees
    <2>3. ASSUME NEW p \in Path, NEW c \in Content, FsWrite(p, c) PROVE IInv'
        <3>1. PICK e \in Event : e = [kind |-> "modified", src |-> p, dst |-> p]
            BY Built
        <3>2. fs'[p] # NoFile /\ \A q \in Path : q # p => fs'[q] = fs[q]
            BY <2>1, <2>3, ConstantsAssumption DEF FsWrite, TypeOK, Content
        <3> QED
            BY <1>1, <2>1, <2>3, <3>1, <3>2, FsPreserves DEF FsWrite, Names, Agrees
    <2>4. ASSUME NEW p \in Path, FsDelete(p) PROVE IInv'
        <3>1. PICK e \in Event : e = [kind |-> "deleted", src |-> p, dst |-> p]
            BY Built
        <3>2. fs'[p] = NoFile /\ \A q \in Path : q # p => fs'[q] = fs[q]
            BY <2>1, <2>4 DEF FsDelete, TypeOK
        <3> QED
            BY <1>1, <2>1, <2>4, <3>1, <3>2, FsPreserves DEF FsDelete, Names, Agrees
    <2>5. ASSUME NEW p \in Path, NEW q \in Path, FsMove(p, q) PROVE IInv'
        <3>1. PICK e \in Event : e = [kind |-> "moved", src |-> p, dst |-> q]
            BY Built
        <3>2. \A r \in Path : r # p /\ r # q => fs'[r] = fs[r]
            BY <2>1, <2>5 DEF FsMove, TypeOK
        <3> QED
            BY <1>1, <2>1, <2>5, <3>1, <3>2, FsPreserves DEF FsMove, Names, Agrees
    <2> QED
        BY <1>2, <2>2, <2>3, <2>4, <2>5 DEF FsNext
<1>3. ASSUME NEW p \in Path, Age(p) PROVE IInv'
    BY <1>1, <1>3, FramePreserves DEF Age, initVars, senderVars
<1>4. CASE UNCHANGED vars
    BY <1>1, <1>4, FramePreserves DEF vars
<1> QED
    BY <1>1, <1>2, <1>3, <1>4, InitNextPreserves, HandlersPreserve, SenderPreserves DEF Next

(* The inductive invariant holds in every reachable state. *)
THEOREM InvCorrect == Spec => []IInv
BY InvInit, InvNext, PTL DEF Spec

(* For every instance: when nothing about a monitored path is under way,    *)
(* Trace knows what the disk holds or the change was given up at one of the *)
(* places the worker gives one up.                                          *)
THEOREM SyncCorrect == Spec => []SyncedUnlessDropped
<1>1. IInv => SyncedUnlessDropped
    BY DEF IInv, SyncInv, SyncedUnlessDropped, Quiet, Carried
<1> QED
    BY <1>1, InvCorrect, PTL

(* For every instance with one WInit: the copy of the dictionary the sender *)
(* works from is current, so its del finds the entry.                       *)
THEOREM CopyCorrect == Spec => []CopyIsCurrent
<1>1. IInv => CopyIsCurrent
    BY DEF IInv, SenderInv, CopyIsCurrent
<1> QED
    BY <1>1, InvCorrect, PTL

(* For every instance: only the sender's del takes an entry out, and only   *)
(* after the call for that very entry was attempted.                        *)
THEOREM ForgetCorrect == Spec => ForgottenOnlyAfterAttempt
<1>1. ASSUME IInv, [Next]_vars, NEW p \in Path, targets[p] # "none", targets'[p] = "none"
      PROVE  Reading(p) /\ job[1].sent /\ job[1].action = targets[p]
    <2>0. TypeOK /\ SenderInv
        BY <1>1 DEF IInv
    <2>1. CASE Forget
        <3>1. Len(job) = 1 /\ job[1].sent /\ job[1].path \in Path
            BY <2>0, <2>1, JobType, Built DEF Forget
        <3>2. p = job[1].path
            BY <1>1, <2>0, <2>1, <3>1 DEF Forget, TypeOK
        <3>3. targets[p] = job[1].action
            BY <2>0, <3>1, <3>2 DEF SenderInv
        <3> QED
            BY <3>1, <3>2, <3>3 DEF Reading
    <2>2. ASSUME NEW b \in Brick, MonitorNext(b) PROVE FALSE
        <3>1. targets' = targets \/ \E q \in Path, a \in Action : FileEntry(q, a)
            <4>1. PICK k : Handle(b, k)
                BY <2>2 DEF MonitorNext, on_created, on_modified, on_deleted, on_moved
            <4>2. Head(events[b]).src \in Path
                BY <2>0, <4>1, HandleType
            <4> QED
                BY <2>2, <4>2, Built
                DEF MonitorNext, on_created, on_modified, on_deleted, on_moved
        <3> QED
            BY <1>1, <2>0, <3>1 DEF FileEntry, TypeOK
    <2>3. ASSUME ~Forget, \A b \in Brick : ~MonitorNext(b) PROVE targets' = targets
        BY <1>1, <2>3
        DEF Next, FsNext, InitNext, SenderNext, Attempt, FsCreate, FsWrite, FsDelete,
            FsMove, FsStep, StartScan, SkipBrick, ScanFile, ForkMonitor, Watch,
            TraceServes, Age, StartRound, EnterBrick, CopyItems, LeaveBrick, Take,
            Deliver, RpcFails, vars
    <2> QED
        BY <1>1, <2>1, <2>2, <2>3
<1>2. IInv /\ [Next]_vars =>
         [\A p \in Path : (targets[p] # "none" /\ targets'[p] = "none")
             => Reading(p) /\ job[1].sent /\ job[1].action = targets[p]]_vars
    BY <1>1
<1> QED
    BY <1>2, InvCorrect, PTL DEF Spec, ForgottenOnlyAfterAttempt
=============================================================================
