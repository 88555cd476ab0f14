--------------------------- MODULE RestartProofs ---------------------------
(***************************************************************************)
(* What a restart of Trace does to the processes of a worker, for any      *)
(* number of restarts and files.  The invariant adds to the properties     *)
(* what pList and a finally block under way know: WInit forks in the order *)
(* of the list (ForkInv), what a finally block has passed does not run     *)
(* (EndInv), and a path is deleted once per copy (SendInv).                *)
(***************************************************************************)
EXTENDS Restart, TLAPS

ForkInv ==
    /\ \A i \in Proc : i > forked => proc[i] = "none"
    /\ \A g \in Gen : Snd(g) > forked => proc[Mon(g)] # "dead"

EndAt(g) ==
    /\ next[g] <= Snd(g)
    /\ proc[Snd(g)] \in {"none", "run"} => next[g] = 1
    /\ proc[Snd(g)] = "ending" => \A i \in Proc : i < next[g] => proc[i] \in {"none", "dead"}

EndInv == \A g \in Gen : EndAt(g)

SendInv == \A g \in Gen : sending[g] \notin items[g]

IInv == TypeOK /\ ForkInv /\ EndInv /\ SendInv /\ FateShared /\ SenderHasMonitor

(* The numbers of the processes. *)
LEMMA Numbers ==
  /\ \A g \in Gen : Mon(g) \in Proc /\ Snd(g) \in Proc /\ Snd(g) = Mon(g) + 1
  /\ \A g, h \in Gen : /\ Mon(g) # Snd(h)
                       /\ g # h => Snd(g) # Snd(h) /\ Mon(g) # Mon(h)
  /\ \A g \in Gen : g \in Nat /\ Mon(g) \in Nat /\ Snd(g) \in Nat /\ 1 <= Snd(g)
  /\ \A i \in Proc : i \in Nat /\ 1 <= i
BY ConstantsAssumption DEF Mon, Snd, Proc, Gen

LEMMA InitInv == Init => IInv
<1> SUFFICES ASSUME Init PROVE IInv
  OBVIOUS
<1> USE DEF Init
<1>1. TypeOK
  <2>1. \A g \in Gen : 1 \in Proc
    BY ConstantsAssumption DEF Proc, Gen
  <2>2. QED
    BY <2>1, ConstantsAssumption DEF TypeOK
<1>2. ForkInv /\ EndInv /\ SendInv /\ FateShared /\ SenderHasMonitor
  <2>1. \A g \in Gen : 1 <= Snd(g)
    BY ConstantsAssumption DEF Snd, Gen
  <2>2. QED
    BY <2>1, Numbers DEF ForkInv, EndInv, EndAt, SendInv, FateShared, SenderHasMonitor
<1>3. QED
  BY <1>1, <1>2 DEF IInv

(* A step of WInit, whichever process it forks or skips. *)
LEMMA ForkStep ==
  ASSUME IInv, NEW i \in Proc, NEW life \in {"run", "none"}, Fork(i, life)
  PROVE  IInv'
<1>0. TypeOK /\ ForkInv /\ EndInv /\ SendInv /\ FateShared /\ SenderHasMonitor
  BY DEF IInv
<1>1. /\ forked = i - 1 /\ forked' = i /\ i \in Nat
      /\ UNCHANGED <<place, bricks, brick, events, entries, items, sending, next>>
  BY Numbers DEF Fork, monitorVars, senderVars
<1>2. /\ proc' \in [Proc -> {"none", "run", "ending", "dead"}]
      /\ proc'[i] = life /\ proc[i] = "none"
      /\ \A j \in Proc : j # i => proc'[j] = proc[j]
  BY <1>0, <1>1 DEF Fork, TypeOK, ForkInv
<1>3. TypeOK'
  <2>1. i \in 0..2 * MaxGen
    BY ConstantsAssumption DEF Proc
  <2>2. QED
    BY <1>0, <1>1, <1>2, <2>1 DEF TypeOK
<1>4. ForkInv'
  <2>1. ASSUME NEW j \in Proc, j > i PROVE proc'[j] = "none"
    BY <1>0, <1>1, <1>2, <2>1, Numbers DEF ForkInv
  <2>2. ASSUME NEW g \in Gen, Snd(g) > i PROVE proc'[Mon(g)] # "dead"
    BY <1>0, <1>1, <1>2, <2>2, Numbers DEF ForkInv
  <2>3. QED
    BY <1>1, <2>1, <2>2 DEF ForkInv
<1>5. \A g \in Gen : proc[Snd(g)] # "none" => Snd(g) < i
  BY <1>0, <1>1, Numbers DEF ForkInv
<1>6. EndInv'
  <2>1. ASSUME NEW g \in Gen PROVE EndAt(g)'
    <3>0. EndAt(g)
      BY <1>0 DEF EndInv
    <3>1. next[g] <= Snd(g) /\ next[g] \in Nat /\ Snd(g) \in Nat
      BY <1>0, <3>0, Numbers, ConstantsAssumption DEF EndAt, TypeOK, Proc
    <3>2. ASSUME proc'[Snd(g)] = "ending", NEW j \in Proc, j < next[g]
          PROVE  proc'[j] \in {"none", "dead"}
      <4>1. proc[Snd(g)] = "ending"
        BY <1>2, <3>2, Numbers
      <4>2. Snd(g) < i
        BY <1>5, <4>1
      <4>3. j # i
        BY <1>1, <3>1, <3>2, <4>2, Numbers
      <4>4. QED
        BY <1>2, <3>0, <3>2, <4>1, <4>3 DEF EndAt
    <3>3. proc'[Snd(g)] \in {"none", "run"} => proc[Snd(g)] \in {"none", "run"}
      BY <1>2, Numbers
    <3>4. QED
      BY <1>1, <3>0, <3>2, <3>3 DEF EndAt
  <2>2. QED
    BY <2>1 DEF EndInv
<1>7. SendInv'
  BY <1>0, <1>1 DEF SendInv
<1>8. FateShared'
  <2>1. ASSUME NEW g \in Gen, proc'[Snd(g)] = "dead", NEW j \in Proc, j < Snd(g)
        PROVE  proc'[j] \in {"none", "dead"}
    <3>1. proc[Snd(g)] = "dead"
      BY <1>2, <2>1, Numbers
    <3>2. Snd(g) < i
      BY <1>5, <3>1
    <3>3. j # i
      <4>1. j \in Nat /\ Snd(g) \in Nat /\ i \in Nat
        BY <1>1, Numbers
      <4>2. QED
        BY ONLY <2>1, <3>2, <4>1
    <3>4. QED
      BY <1>0, <1>2, <2>1, <3>1, <3>3 DEF FateShared
  <2>2. QED
    BY <2>1 DEF FateShared
<1>9. SenderHasMonitor'
  <2>1. ASSUME NEW g \in Gen, proc'[Snd(g)] = "run", proc'[Mon(g)] = "dead"
        PROVE  \E h \in Gen : proc'[Snd(h)] = "ending" /\ next[h] = Snd(g)
    <3>1. proc[Mon(g)] = "dead"
      BY <1>2, <2>1, Numbers
    <3>2. CASE proc[Snd(g)] = "run"
      <4>1. PICK h \in Gen : proc[Snd(h)] = "ending" /\ next[h] = Snd(g)
        BY <1>0, <3>1, <3>2 DEF SenderHasMonitor
      <4>2. proc'[Snd(h)] = "ending"
        BY <1>2, <4>1, Numbers
      <4>3. QED
        BY <4>1, <4>2
    <3>3. CASE proc[Snd(g)] # "run"
      <4>1. i = Snd(g)
        BY <1>2, <2>1, <3>3, Numbers
      <4>2. Snd(g) > forked
        BY <1>1, <4>1
      <4>3. QED
        BY <1>0, <3>1, <4>2 DEF ForkInv
    <3>4. QED
      BY <3>2, <3>3
  <2>2. QED
    BY <1>1, <2>1 DEF SenderHasMonitor
<1>10. QED
  BY <1>3, <1>4, <1>6, <1>7, <1>8, <1>9 DEF IInv

(* A step that leaves the processes alone. *)
LEMMA QuietStep ==
  ASSUME IInv, TypeOK', SendInv', UNCHANGED <<forked, proc, next>>
  PROVE  IInv'
BY DEF IInv, ForkInv, EndInv, EndAt, FateShared, SenderHasMonitor

(* p.terminate() *)
LEMMA TerminateStep ==
  ASSUME IInv, NEW g \in Gen, Terminate(g)
  PROVE  IInv'
<1> DEFINE i == next[g]
<1>0. TypeOK /\ ForkInv /\ EndInv /\ SendInv /\ FateShared /\ SenderHasMonitor
  BY DEF IInv
<1>1. /\ proc[Snd(g)] = "ending" /\ i < Snd(g)
      /\ UNCHANGED <<forked, place, bricks, brick, events, entries, items, sending>>
  BY DEF Terminate, monitorVars
<1>2. i \in Proc /\ i \in Nat /\ Snd(g) \in Nat /\ Snd(g) \in Proc
  BY <1>0, <1>1, Numbers, ConstantsAssumption DEF TypeOK, Proc, Snd, Gen
<1>3. next' = [next EXCEPT ![g] = i + 1]
  BY DEF Terminate
<1>4. /\ next' \in [Gen -> Proc]
      /\ next'[g] = i + 1
      /\ \A h \in Gen : h # g => next'[h] = next[h]
  <2>1. i + 1 \in Proc
    BY <1>1, <1>2, ConstantsAssumption DEF Proc
  <2>2. next \in [Gen -> Proc]
    BY <1>0 DEF TypeOK
  <2>3. QED
    BY ONLY <1>3, <2>1, <2>2, g \in Gen
<1>5. /\ proc' \in [Proc -> {"none", "run", "ending", "dead"}]
      /\ proc'[i] \in {"none", "dead"} /\ (proc'[i] = "none" <=> proc[i] = "none")
      /\ \A j \in Proc : j # i => proc'[j] = proc[j]
  BY <1>0, <1>2 DEF Terminate, TypeOK
<1> HIDE DEF i
<1>6. TypeOK'
  BY <1>0, <1>1, <1>4, <1>5 DEF TypeOK
<1>7. Snd(g) <= forked
  BY <1>0, <1>1, <1>2 DEF ForkInv, TypeOK
<1>8. ForkInv'
  <2>1. ASSUME NEW j \in Proc, j > forked PROVE proc'[j] = "none"
    BY <1>0, <1>5, <2>1 DEF ForkInv
  <2>2. ASSUME NEW h \in Gen, Snd(h) > forked PROVE proc'[Mon(h)] # "dead"
    <3>1. Mon(h) # i
      BY <1>0, <1>1, <1>2, <1>7, <2>2, Numbers DEF TypeOK
    <3>2. QED
      BY <1>0, <1>5, <2>2, <3>1, Numbers DEF ForkInv
  <2>3. QED
    BY <1>1, <2>1, <2>2 DEF ForkInv
<1>9. \A j \in Proc : j < i => proc[j] \in {"none", "dead"}
  BY <1>0, <1>1 DEF EndInv, EndAt, i
<1>10. \A j \in Proc : proc[j] \in {"none", "dead"} => proc'[j] \in {"none", "dead"}
  BY <1>5
<1>11. EndInv'
  <2>1. ASSUME NEW h \in Gen PROVE EndAt(h)'
    <3>0. EndAt(h)
      BY <1>0 DEF EndInv
    <3>1. CASE h = g
      <4>1. proc'[Snd(g)] = "ending"
        BY <1>1, <1>2, <1>5
      <4>2. \A j \in Proc : j < i + 1 => proc'[j] \in {"none", "dead"}
        BY <1>2, <1>5, <1>9, <1>10, Numbers
      <4>3. QED
        BY <1>1, <1>2, <1>4, <3>1, <4>1, <4>2 DEF EndAt
    <3>2. CASE h # g
      <4>1. proc'[Snd(h)] = "ending" => proc[Snd(h)] = "ending"
        BY <1>5, Numbers
      <4>2. proc'[Snd(h)] \in {"none", "run"} => proc[Snd(h)] \in {"none", "run"}
        <5>1. CASE Snd(h) = i
          BY <1>5, <1>9, <5>1, Numbers, <1>0, <1>10 DEF TypeOK
        <5>2. CASE Snd(h) # i
          BY <1>5, <5>2, Numbers
        <5>3. QED
          BY <5>1, <5>2
      <4>3. QED
        BY <1>4, <1>10, <3>0, <3>2, <4>1, <4>2 DEF EndAt
    <3>3. QED
      BY <3>1, <3>2
  <2>2. QED
    BY <2>1 DEF EndInv
<1>12. SendInv'
  BY <1>0, <1>1 DEF SendInv
<1>13. FateShared'
  <2>1. ASSUME NEW h \in Gen, proc'[Snd(h)] = "dead", NEW j \in Proc, j < Snd(h)
        PROVE  proc'[j] \in {"none", "dead"}
    <3>1. CASE Snd(h) = i
      BY <1>9, <1>10, <2>1, <3>1
    <3>2. CASE Snd(h) # i
      BY <1>0, <1>5, <1>10, <2>1, <3>2, Numbers DEF FateShared
    <3>3. QED
      BY <3>1, <3>2
  <2>2. QED
    BY <2>1 DEF FateShared
<1>14. SenderHasMonitor'
  <2>1. ASSUME NEW k \in Gen, proc'[Snd(k)] = "run", proc'[Mon(k)] = "dead"
        PROVE  \E h \in Gen : proc'[Snd(h)] = "ending" /\ next'[h] = Snd(k)
    <3>1. Snd(k) # i /\ proc[Snd(k)] = "run"
      BY <1>5, <2>1, Numbers
    <3>2. CASE Mon(k) = i
      <4>1. next'[g] = Snd(k)
        BY <1>4, <3>2, Numbers
      <4>2. proc'[Snd(g)] = "ending"
        BY <1>1, <1>2, <1>5
      <4>3. QED
        BY <4>1, <4>2
    <3>3. CASE Mon(k) # i
      <4>1. proc[Mon(k)] = "dead"
        BY <1>5, <2>1, <3>3, Numbers
      <4>2. PICK h \in Gen : proc[Snd(h)] = "ending" /\ next[h] = Snd(k)
        BY <1>0, <3>1, <4>1 DEF SenderHasMonitor
      <4>3. h # g
        BY <3>1, <4>2 DEF i
      <4>4. h # k /\ Snd(k) <= Snd(h)
        BY <1>0, <3>1, <4>2 DEF EndInv, EndAt
      <4>5. Snd(k) < Snd(h)
        BY <4>4, Numbers
      <4>6. Snd(h) # i
        BY <1>9, <3>1, <4>5, Numbers
      <4>7. QED
        BY <1>4, <1>5, <4>2, <4>3, <4>6, Numbers
    <3>4. QED
      BY <3>2, <3>3
  <2>2. QED
    BY <2>1 DEF SenderHasMonitor
<1>15. QED
  BY <1>6, <1>8, <1>11, <1>12, <1>13, <1>14 DEF IInv

(* A sender's KeyError, and the end of its finally block. *)
LEMMA EndingStep ==
  ASSUME IInv, NEW g \in Gen, DeleteRaises(g) \/ Exit(g)
  PROVE  IInv'
<1>0. TypeOK /\ ForkInv /\ EndInv /\ SendInv /\ FateShared /\ SenderHasMonitor
  BY DEF IInv
<1>1. UNCHANGED <<forked, place, bricks, brick, events, entries, items, sending, next>>
  BY DEF DeleteRaises, Exit, monitorVars, senderVars
<1>2. PICK life \in {"ending", "dead"} : proc' = [proc EXCEPT ![Snd(g)] = life]
  BY DEF DeleteRaises, Exit
<1>3. /\ proc' \in [Proc -> {"none", "run", "ending", "dead"}]
      /\ proc'[Snd(g)] = life
      /\ \A j \in Proc : j # Snd(g) => proc'[j] = proc[j]
  BY <1>0, <1>2, Numbers DEF TypeOK
<1>4. \/ life = "ending" /\ proc[Snd(g)] = "run"
      \/ life = "dead" /\ proc[Snd(g)] = "ending" /\ next[g] = Snd(g)
  BY <1>0, <1>2, <1>3, Numbers DEF DeleteRaises, Exit, TypeOK
<1>5. TypeOK'
  BY <1>0, <1>1, <1>3 DEF TypeOK
<1>6. ForkInv'
  BY <1>0, <1>1, <1>3, <1>4, Numbers DEF ForkInv
<1>7. SendInv'
  BY <1>0, <1>1 DEF SendInv
<1>8. FateShared'
  <2>1. ASSUME NEW h \in Gen, proc'[Snd(h)] = "dead", NEW j \in Proc, j < Snd(h)
        PROVE  proc'[j] \in {"none", "dead"}
    <3>1. CASE h = g
      BY <1>0, <1>3, <1>4, <2>1, <3>1, Numbers DEF EndInv, EndAt
    <3>2. CASE h # g
      <4>1. proc[Snd(h)] = "dead"
        BY <1>3, <2>1, <3>2, Numbers
      <4>2. proc[j] \in {"none", "dead"}
        BY <1>0, <2>1, <4>1 DEF FateShared
      <4>3. QED
        BY <1>3, <1>4, <4>2
    <3>3. QED
      BY <3>1, <3>2
  <2>2. QED
    BY <2>1 DEF FateShared
<1>9. EndInv'
  <2>1. ASSUME NEW h \in Gen PROVE EndAt(h)'
    <3>0. EndAt(h)
      BY <1>0 DEF EndInv
    <3>1. CASE h = g
      <4>1. CASE life = "ending"
        <5>1. next[g] = 1
          BY <1>4, <3>0, <3>1, <4>1 DEF EndAt
        <5>2. \A j \in Proc : ~(j < 1)
          BY Numbers
        <5>3. QED
          BY <1>1, <1>3, <3>0, <3>1, <4>1, <5>1, <5>2 DEF EndAt
      <4>2. CASE life = "dead"
        BY <1>1, <1>3, <3>0, <3>1, <4>2 DEF EndAt
      <4>3. QED
        BY <4>1, <4>2
    <3>2. CASE h # g
      <4>1. proc'[Snd(h)] = proc[Snd(h)]
        BY <1>3, <3>2, Numbers
      <4>2. \A j \in Proc : proc[j] \in {"none", "dead"} => proc'[j] \in {"none", "dead"}
        BY <1>3, <1>4
      <4>3. QED
        BY <1>1, <3>0, <4>1, <4>2 DEF EndAt
    <3>3. QED
      BY <3>1, <3>2
  <2>2. QED
    BY <2>1 DEF EndInv
<1>10. SenderHasMonitor'
  <2>1. ASSUME NEW k \in Gen, proc'[Snd(k)] = "run", proc'[Mon(k)] = "dead"
        PROVE  \E h \in Gen : proc'[Snd(h)] = "ending" /\ next[h] = Snd(k)
    <3>1. k # g /\ proc[Snd(k)] = "run" /\ proc[Mon(k)] = "dead"
      BY <1>3, <1>4, <2>1, Numbers
    <3>2. PICK h \in Gen : proc[Snd(h)] = "ending" /\ next[h] = Snd(k)
      BY <1>0, <3>1 DEF SenderHasMonitor
    <3>3. Snd(h) # Snd(g)
      BY <1>4, <3>1, <3>2, Numbers
    <3>4. QED
      BY <1>3, <3>2, <3>3, Numbers
  <2>2. QED
    BY <1>1, <2>1 DEF SenderHasMonitor
<1>11. QED
  BY <1>5, <1>6, <1>7, <1>8, <1>9, <1>10 DEF IInv

(* The steps of monitors and senders that fork and end nobody. *)
LEMMA WorkStep ==
  ASSUME IInv, NEW g \in Gen,
         \/ Look(g) \/ MakeDict(g) \/ Watch(g) \/ CopyItems(g) \/ Delete(g)
         \/ \E p \in Path : FileEntry(g, p) \/ Ignore(g, p) \/ Send(g, p)
  PROVE  IInv'
<1>0. TypeOK /\ SendInv
  BY DEF IInv
<1> USE DEF monitorVars, senderVars
<1>1. CASE Look(g)
  BY <1>0, <1>1, QuietStep DEF Look, MonitorStep, TypeOK, SendInv
<1>2. CASE MakeDict(g)
  <2>1. g \in 0..MaxGen
    BY ConstantsAssumption DEF Gen
  <2>2. QED
    BY <1>0, <1>2, <2>1, QuietStep DEF MakeDict, MonitorStep, TypeOK, SendInv
<1>3. CASE Watch(g)
  BY <1>0, <1>3, QuietStep DEF Watch, MonitorStep, TypeOK, SendInv
<1>4. CASE CopyItems(g)
  <2>1. Entries \in SUBSET Path
    BY <1>0, ConstantsAssumption DEF Entries, TypeOK, Gen
  <2>2. TypeOK'
    BY <1>0, <1>4, <2>1 DEF CopyItems, TypeOK
  <2>3. SendInv'
    BY <1>0, <1>4, <2>1, ConstantsAssumption DEF CopyItems, TypeOK, SendInv
  <2>4. QED
    BY <1>4, <2>2, <2>3, QuietStep DEF CopyItems
<1>5. CASE Delete(g)
  <2>1. TypeOK'
    <3>1. entries' \in [Gen -> SUBSET Path]
      BY <1>0, <1>5 DEF Delete, TypeOK
    <3>2. QED
      BY <1>0, <1>5, <3>1 DEF Delete, TypeOK
  <2>2. None \notin items[g]
    BY <1>0, ConstantsAssumption DEF TypeOK
  <2>3. SendInv'
    BY <1>0, <1>5, <2>2 DEF Delete, TypeOK, SendInv
  <2>4. QED
    BY <1>5, <2>1, <2>3, QuietStep DEF Delete
<1>6. ASSUME NEW p \in Path, FileEntry(g, p) PROVE IInv'
  <2>1. TypeOK'
    BY <1>0, <1>6 DEF FileEntry, Handled, TypeOK
  <2>2. QED
    BY <1>0, <1>6, <2>1, QuietStep DEF FileEntry, Handled, SendInv
<1>7. ASSUME NEW p \in Path, Ignore(g, p) PROVE IInv'
  BY <1>0, <1>7, QuietStep DEF Ignore, Handled, TypeOK, SendInv
<1>8. ASSUME NEW p \in Path, Send(g, p) PROVE IInv'
  <2>1. TypeOK'
    BY <1>0, <1>8 DEF Send, TypeOK
  <2>2. SendInv'
    BY <1>0, <1>8 DEF Send, TypeOK, SendInv
  <2>3. QED
    BY <1>8, <2>1, <2>2, QuietStep DEF Send
<1>9. QED
  BY <1>1, <1>2, <1>3, <1>4, <1>5, <1>6, <1>7, <1>8

LEMMA NextInv == IInv /\ [Next]_vars => IInv'
<1> SUFFICES ASSUME IInv, [Next]_vars PROVE IInv'
  OBVIOUS
<1>1. CASE UNCHANGED vars
  BY <1>1, QuietStep DEF vars, IInv, TypeOK, SendInv
<1>2. ASSUME NEW g \in Gen, WInit(g) PROVE IInv'
  BY <1>2, ForkStep, Numbers DEF WInit, ForkMonitor, SkipMonitor, ForkSender
<1>3. ASSUME NEW g \in Gen, MonitorNext(g) PROVE IInv'
  BY <1>3, WorkStep DEF MonitorNext
<1>4. ASSUME NEW g \in Gen, SenderNext(g) PROVE IInv'
  BY <1>4, WorkStep, TerminateStep, EndingStep DEF SenderNext
<1>5. ASSUME NEW p \in Path, Change(p) PROVE IInv'
  BY <1>5, QuietStep DEF Change, IInv, TypeOK, SendInv, senderVars
<1>6. QED
  BY <1>1, <1>2, <1>3, <1>4, <1>5 DEF Next

LEMMA InvCorrect == Spec => []IInv
BY InitInv, NextInv, PTL DEF Spec

(* Every variable keeps its type, for any number of restarts. *)
THEOREM TypeCorrect == Spec => []TypeOK
<1>1. IInv => TypeOK
  BY DEF IInv
<1>2. QED
  BY <1>1, InvCorrect, PTL

(* A sender that has ended took all earlier processes with it. *)
THEOREM FateCorrect == Spec => []FateShared
<1>1. IInv => FateShared
  BY DEF IInv
<1>2. QED
  BY <1>1, InvCorrect, PTL

(* A sender at work has its monitor, or a later sender is about to          *)
(* terminate it.                                                            *)
THEOREM MonitorCorrect == Spec => []SenderHasMonitor
<1>1. IInv => SenderHasMonitor
  BY DEF IInv
<1>2. QED
  BY <1>1, InvCorrect, PTL

(* The only sender, once its copy is current, does not raise any more.      *)
THEOREM SoleCorrect == Spec => SoleSenderIsSafe
<1> DEFINE Safe(g) ==
             proc[Snd(g)] = "run" /\ Sole(g) /\ Current(g) /\ (\A h \in Gen : place[h] # "absent")
               => Current(g)' /\ proc'[Snd(g)] = "run"
<1>1. ASSUME IInv, [Next]_vars, NEW g \in Gen PROVE Safe(g)
  <2> SUFFICES ASSUME proc[Snd(g)] = "run", Sole(g), Current(g), \A h \in Gen : place[h] # "absent"
               PROVE  Current(g)' /\ proc'[Snd(g)] = "run"
    OBVIOUS
  <2>0. TypeOK /\ ForkInv /\ SendInv
    BY <1>1 DEF IInv
  <2> USE DEF monitorVars, senderVars
  <2>1. ASSUME UNCHANGED <<proc, bricks, items, sending>>, Entries \subseteq Entries'
        PROVE  Current(g)' /\ proc'[Snd(g)] = "run"
    BY <2>1 DEF Current
  <2>2. CASE UNCHANGED vars
    BY <2>1, <2>2 DEF vars, Entries
  <2>3. ASSUME NEW i \in Proc, NEW life \in {"run", "none"}, Fork(i, life)
        PROVE  Current(g)' /\ proc'[Snd(g)] = "run"
    <3>1. Snd(g) # i
      BY <2>0, <2>3, Numbers DEF Fork, ForkInv
    <3>2. proc'[Snd(g)] = "run"
      BY <2>0, <2>3, <3>1, Numbers DEF Fork, TypeOK
    <3>3. QED
      BY <2>3, <3>2 DEF Fork, Current, Entries
  <2>4. ASSUME NEW h \in Gen, WInit(h) PROVE Current(g)' /\ proc'[Snd(g)] = "run"
    BY <2>3, <2>4, Numbers DEF WInit, ForkMonitor, SkipMonitor, ForkSender
  <2>5. ASSUME NEW h \in Gen, MonitorNext(h) PROVE Current(g)' /\ proc'[Snd(g)] = "run"
    <3>1. CASE Look(h) \/ Watch(h)
      BY <2>1, <3>1 DEF Look, Watch, MonitorStep, Entries
    <3>2. CASE MakeDict(h)
      BY <3>2 DEF MakeDict, MonitorStep
    <3>3. ASSUME NEW p \in Path, FileEntry(h, p) \/ Ignore(h, p)
          PROVE  Current(g)' /\ proc'[Snd(g)] = "run"
      <4>1. UNCHANGED <<proc, bricks, items, sending>>
        BY <3>3 DEF FileEntry, Ignore, Handled
      <4>2. \A d \in Gen : entries[d] \subseteq entries'[d]
        BY <2>0, <3>3 DEF FileEntry, Ignore, TypeOK
      <4>3. bricks # 0 => bricks \in Gen
        BY <2>0, ConstantsAssumption DEF TypeOK, Gen
      <4>4. Entries \subseteq Entries'
        BY <4>1, <4>2, <4>3 DEF Entries
      <4>5. QED
        BY <2>1, <4>1, <4>4
    <3>4. QED
      BY <2>5, <3>1, <3>2, <3>3 DEF MonitorNext
  <2>6. ASSUME NEW p \in Path, Change(p) PROVE Current(g)' /\ proc'[Snd(g)] = "run"
    BY <2>1, <2>6 DEF Change, Entries
  <2>7. ASSUME NEW h \in Gen, SenderNext(h) PROVE Current(g)' /\ proc'[Snd(g)] = "run"
    <3>1. h = g
      BY <2>7 DEF Sole, SenderNext, CopyItems, Send, Delete, DeleteRaises, Terminate, Exit
    <3>2. CASE CopyItems(g)
      BY <2>0, <3>2 DEF CopyItems, Current, Entries, TypeOK
    <3>3. ASSUME NEW p \in Path, Send(g, p) PROVE Current(g)' /\ proc'[Snd(g)] = "run"
      BY <2>0, <3>3 DEF Send, Current, Entries, TypeOK
    <3>4. CASE Delete(g)
      <4>1. items' = items /\ proc' = proc /\ bricks' = bricks /\ sending'[g] = None
        BY <2>0, <3>4 DEF Delete, TypeOK
      <4>2. bricks # 0 /\ bricks \in Gen
        BY <2>0, <3>4, ConstantsAssumption DEF Delete, Entries, TypeOK, Gen
      <4>3. entries'[bricks] = entries[bricks] \ {sending[g]}
        BY <2>0, <3>4, <4>2 DEF Delete, TypeOK
      <4>4. items[g] \subseteq entries[bricks] /\ sending[g] \notin items[g]
        BY <2>0, <4>2 DEF Current, Entries, SendInv
      <4>5. QED
        BY <4>1, <4>2, <4>3, <4>4 DEF Current, Entries
    <3>5. CASE DeleteRaises(g)
      BY <3>5 DEF DeleteRaises, Current
    <3>6. CASE Terminate(g) \/ Exit(g)
      BY <3>6 DEF Terminate, Exit
    <3>7. QED
      BY <2>7, <3>1, <3>2, <3>3, <3>4, <3>5, <3>6 DEF SenderNext
  <2>8. QED
    BY <1>1, <2>2, <2>4, <2>5, <2>6, <2>7 DEF Next
<1>2. IInv /\ [Next]_vars => [\A g \in Gen : Safe(g)]_vars
  BY <1>1
<1>3. QED
  BY <1>2, InvCorrect, PTL DEF Spec, SoleSenderIsSafe
=============================================================================
