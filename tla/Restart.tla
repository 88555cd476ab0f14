------------------------------ MODULE Restart ------------------------------
(***************************************************************************)
(* A worker whose Trace is restarted (lba2pba/worker/worker.py): every     *)
(* start of Trace calls WInit, and every WInit forks another monitor for   *)
(* the brick and another sender, beside those that run already.  They all  *)
(* share one dictionary.  Two senders send from copies of it, and the one  *)
(* that deletes an entry second gets a KeyError: its finally block         *)
(* terminates every process that was in pList when it was forked.          *)
(*                                                                         *)
(* Module Worker has one generation and what it sends; here there are      *)
(* several and one brick, and an entry is only there or not.               *)
(***************************************************************************)
EXTENDS Naturals

CONSTANTS
    Path,       \* files below the brick
    MaxGen,     \* bound: calls of WInit
    None        \* the sender sends nothing

ASSUME ConstantsAssumption ==
    /\ MaxGen \in Nat
    /\ None \notin Path

Gen == 1..MaxGen

(* The processes in the order in which pList gets them. *)
Mon(g) == 2 * g - 1
Snd(g) == 2 * g
Proc == 1..2 * MaxGen

VARIABLES
    forked,     \* processes WInit has forked or skipped
    proc,       \* life of each process
    place,      \* how far a monitor is in _monitor
    bricks,     \* the dictionary targets[path], by its maker; 0 if none
    brick,      \* the dictionary a monitor's handler writes to
    entries,    \* the paths in each dictionary
    events,     \* paths whose change a monitor has not handled
    items,      \* per sender, what is left of its copy of the dictionary
    sending,    \* the path of its call of sendPba
    next        \* how far its finally block is in pList

monitorVars == <<place, bricks, brick, events>>
senderVars == <<items, sending, next>>
vars == <<forked, proc, place, bricks, brick, entries, events, items, sending, next>>

TypeOK ==
    /\ forked \in 0..2 * MaxGen
    /\ proc \in [Proc -> {"none", "run", "ending", "dead"}]
    /\ place \in [Gen -> {"start", "absent", "made", "watching"}]
    /\ bricks \in 0..MaxGen
    /\ brick \in [Gen -> 0..MaxGen]
    /\ entries \in [Gen -> SUBSET Path]
    /\ events \in [Gen -> SUBSET Path]
    /\ items \in [Gen -> SUBSET Path]
    /\ sending \in [Gen -> Path \cup {None}]
    /\ next \in [Gen -> Proc]

Init ==
    /\ forked = 0
    /\ proc = [i \in Proc |-> "none"]
    /\ place = [g \in Gen |-> "start"]
    /\ bricks = 0
    /\ brick = [g \in Gen |-> 0]
    /\ entries = [g \in Gen |-> {}]
    /\ events = [g \in Gen |-> {}]
    /\ items = [g \in Gen |-> {}]
    /\ sending = [g \in Gen |-> None]
    /\ next = [g \in Gen |-> 1]

-----------------------------------------------------------------------------
(* WInit, once per generation; Trace makes one call when it starts.         *)

Fork(i, life) ==
    /\ forked = i - 1
    /\ forked' = i
    /\ proc' = [proc EXCEPT ![i] = life]
    /\ UNCHANGED <<monitorVars, entries, senderVars>>

ForkMonitor(g) == Fork(Mon(g), "run")

(* getBricks or the type of the volume failed: no monitor. *)
SkipMonitor(g) == Fork(Mon(g), "none")

ForkSender(g) == Fork(Snd(g), "run")

-----------------------------------------------------------------------------
(* _monitor, and the handlers of its events. *)

MonitorStep(g, from, to) ==
    /\ proc[Mon(g)] = "run" /\ place[g] = from
    /\ place' = [place EXCEPT ![g] = to]
    /\ UNCHANGED <<forked, proc, entries, events, senderVars>>

(* Is there a dictionary for the brick? *)
Look(g) ==
    /\ MonitorStep(g, "start", IF bricks = 0 THEN "absent" ELSE "made")
    /\ UNCHANGED <<bricks, brick>>

MakeDict(g) ==
    /\ MonitorStep(g, "absent", "made")
    /\ bricks' = g
    /\ UNCHANGED brick

Watch(g) ==
    /\ MonitorStep(g, "made", "watching")
    /\ brick' = [brick EXCEPT ![g] = bricks]
    /\ UNCHANGED bricks

(* External: a file changes, and every observer has an event for it. *)
Change(p) ==
    /\ events' = [g \in Gen |-> IF proc[Mon(g)] = "run" /\ place[g] = "watching"
                                THEN events[g] \cup {p} ELSE events[g]]
    /\ UNCHANGED <<forked, proc, place, bricks, brick, entries, senderVars>>

Handled(g, p) ==
    /\ proc[Mon(g)] = "run" /\ p \in events[g]
    /\ events' = [events EXCEPT ![g] = @ \ {p}]
    /\ UNCHANGED <<forked, proc, place, bricks, brick, senderVars>>

(* The handler files an entry, or there is one. *)
FileEntry(g, p) ==
    /\ Handled(g, p)
    /\ entries' = [entries EXCEPT ![brick[g]] = @ \cup {p}]

(* The handler returns early (on_modified, on_moved). *)
Ignore(g, p) ==
    /\ Handled(g, p)
    /\ UNCHANGED entries

-----------------------------------------------------------------------------
(* sendProcess. *)

(* What the senders see in targets[path]. *)
Entries == IF bricks = 0 THEN {} ELSE entries[bricks]

(* Mutant: a sender reads the dictionary of its own generation only. *)
CopyItems_Own(g) ==
    /\ proc[Snd(g)] = "run" /\ items[g] = {} /\ sending[g] = None
    /\ bricks = g /\ Entries # {}
    /\ items' = [items EXCEPT ![g] = Entries]
    /\ UNCHANGED <<forked, proc, monitorVars, entries, sending, next>>

CopyItems(g) ==
    /\ proc[Snd(g)] = "run" /\ items[g] = {} /\ sending[g] = None
    /\ Entries # {}
    /\ items' = [items EXCEPT ![g] = Entries]
    /\ UNCHANGED <<forked, proc, monitorVars, entries, sending, next>>

(* sendPba: read the extents and call Trace. *)
Send(g, p) ==
    /\ proc[Snd(g)] = "run" /\ sending[g] = None
    /\ p \in items[g]
    /\ items' = [items EXCEPT ![g] = @ \ {p}]
    /\ sending' = [sending EXCEPT ![g] = p]
    /\ UNCHANGED <<forked, proc, monitorVars, entries, next>>

(* Mutant: the dictionary is cleared. *)
Delete_Clear(g) ==
    /\ proc[Snd(g)] = "run" /\ sending[g] \in Entries
    /\ entries' = [entries EXCEPT ![bricks] = {}]
    /\ sending' = [sending EXCEPT ![g] = None]
    /\ UNCHANGED <<forked, proc, monitorVars, items, next>>

Delete(g) ==
    /\ proc[Snd(g)] = "run" /\ sending[g] \in Entries
    /\ entries' = [entries EXCEPT ![bricks] = @ \ {sending[g]}]
    /\ sending' = [sending EXCEPT ![g] = None]
    /\ UNCHANGED <<forked, proc, monitorVars, items, next>>

(* KeyError: the other sender was first.  The finally block begins;         *)
(* pManager.shutdown() does nothing in a forked process.                    *)
DeleteRaises(g) ==
    /\ proc[Snd(g)] = "run" /\ sending[g] # None /\ sending[g] \notin Entries
    /\ proc' = [proc EXCEPT ![Snd(g)] = "ending"]
    /\ UNCHANGED <<forked, monitorVars, entries, senderVars>>

(* Mutant: the sender is in its own list. *)
Terminate_Self(g) ==
    LET i == next[g] IN
    /\ proc[Snd(g)] = "ending" /\ i <= Snd(g)
    /\ proc' = [proc EXCEPT ![i] = IF @ = "none" THEN "none" ELSE "dead"]
    /\ next' = [next EXCEPT ![g] = i + 1]
    /\ UNCHANGED <<forked, monitorVars, entries, items, sending>>

(* Mutant: the newest process is terminated first. *)
Terminate_Newest(g) ==
    LET i == next[g] IN
    /\ proc[Snd(g)] = "ending" /\ i < Snd(g)
    /\ proc' = [proc EXCEPT ![Snd(g) - i] = IF @ = "none" THEN "none" ELSE "dead"]
    /\ next' = [next EXCEPT ![g] = i + 1]
    /\ UNCHANGED <<forked, monitorVars, entries, items, sending>>

(* Mutant: the list holds monitors only. *)
Terminate_Monitors(g) ==
    LET i == next[g] IN
    /\ proc[Snd(g)] = "ending" /\ i < Snd(g)
    /\ proc' = [proc EXCEPT ![i] = IF @ = "none" \/ \E h \in Gen : i = Snd(h) THEN @ ELSE "dead"]
    /\ next' = [next EXCEPT ![g] = i + 1]
    /\ UNCHANGED <<forked, monitorVars, entries, items, sending>>

(* p.terminate() for the next of pList: SIGTERM, and no finally block runs. *)
Terminate(g) ==
    LET i == next[g] IN
    /\ proc[Snd(g)] = "ending" /\ i < Snd(g)
    /\ proc' = [proc EXCEPT ![i] = IF @ = "none" THEN "none" ELSE "dead"]
    /\ next' = [next EXCEPT ![g] = i + 1]
    /\ UNCHANGED <<forked, monitorVars, entries, items, sending>>

Exit(g) ==
    /\ proc[Snd(g)] = "ending" /\ next[g] = Snd(g)
    /\ proc' = [proc EXCEPT ![Snd(g)] = "dead"]
    /\ UNCHANGED <<forked, monitorVars, entries, senderVars>>

-----------------------------------------------------------------------------
WInit(g) == ForkMonitor(g) \/ SkipMonitor(g) \/ ForkSender(g)

MonitorNext(g) ==
    \/ Look(g) \/ MakeDict(g) \/ Watch(g)
    \/ \E p \in Path : FileEntry(g, p) \/ Ignore(g, p)

SenderNext(g) ==
    \/ CopyItems(g)
    \/ \E p \in Path : Send(g, p)
    \/ Delete(g) \/ DeleteRaises(g)
    \/ Terminate(g) \/ Exit(g)

Next ==
    \/ \E g \in Gen : WInit(g) \/ MonitorNext(g) \/ SenderNext(g)
    \/ \E p \in Path : Change(p)

Spec == Init /\ [][Next]_vars

(* Processes are run by the operating system and calls end; nothing is      *)
(* assumed of Trace's restarts and of the files.                            *)
Fairness == \A g \in Gen : WF_vars(MonitorNext(g)) /\ WF_vars(SenderNext(g))

FairSpec == Spec /\ Fairness

-----------------------------------------------------------------------------
(* A sender that has ended took all earlier processes with it: monitors do  *)
(* not go on filing entries for a sender that is gone, whichever sender     *)
(* raised, and although a terminating sender may itself be terminated half- *)
(* way through its list.                                                    *)
FateShared ==
    \A g \in Gen :
      proc[Snd(g)] = "dead" => \A i \in Proc : i < Snd(g) => proc[i] \in {"none", "dead"}

(* A sender at work has the monitor of its generation, except while a later *)
(* sender is just about to terminate it: no sender is left waiting for      *)
(* entries nobody files.                                                    *)
SenderHasMonitor ==
    \A g \in Gen :
      proc[Snd(g)] = "run" /\ proc[Mon(g)] = "dead"
        => \E h \in Gen : proc[Snd(h)] = "ending" /\ next[h] = Snd(g)

(* The only sender. *)
Sole(g) == \A h \in Gen : h # g => proc[Snd(h)] \in {"none", "dead"}

(* Everything the sender is going to delete is there. *)
Current(g) == items[g] \cup ({sending[g]} \ {None}) \subseteq Entries

(* Once a sender is the only one left and its copy is current, nothing that *)
(* the monitors of any generation do makes its del raise, until WInit is    *)
(* called again: the worker recovers from the clash of two senders.  (A     *)
(* monitor that is about to make a dictionary would replace the one in use.) *)
SoleSenderIsSafe ==
    [][\A g \in Gen :
         proc[Snd(g)] = "run" /\ Sole(g) /\ Current(g)
         /\ (\A h \in Gen : place[h] # "absent")
           => Current(g)' /\ proc'[Snd(g)] = "run"]_vars

(* An entry is taken out while there is a sender, however many generations  *)
(* of senders and monitors work on the dictionary.                          *)
EntriesDrain ==
    \A p \in Path :
      (p \in Entries) ~> (p \notin Entries \/ \A g \in Gen : proc[Snd(g)] # "run")
=============================================================================
