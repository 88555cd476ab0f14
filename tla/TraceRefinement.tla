-------------------------- MODULE TraceRefinement --------------------------
(***************************************************************************)
(* Trace with its managers implements SubscribedMap, for any number of     *)
(* nodes, files, managers and threads.  One lemma per step of the map says *)
(* which facts of Trace's variables make a step of Trace that step; the    *)
(* steps of Trace are then taken one by one, with the invariant IInv of    *)
(* TraceProofs where the map promises something (Tell, Close, Join).       *)
(***************************************************************************)
EXTENDS TraceProofs

(* The refinement mapping. *)
On == {m \in Mgr : phase[m] = "up" /\ ~cut[m]}
Open == [n \in Node |-> {f \in File : \E t \in Thread : At(t, n, f)}]
Behind == [m \in Mgr |-> [n \in Node |-> {f \in File : missed[m][n][f] # "no"}]]

LEMMA StepOffline ==
    ASSUME rawFM' = rawFM, Open' = Open, On' \subseteq On,
           \A m \in On' : told'[m] = told[m] /\ missed'[m] = missed[m]
    PROVE  Subscribed!Next
<1>1. \A m \in On' : Behind'[m] = Behind[m]
    BY DEF On, Behind
<1> QED
    BY <1>1 DEF Subscribed!Next, Subscribed!Offline, Subscribed!Untouched, On, Open, Behind

(* The entries other than that of f at n. *)
Rest(n, f) == (Node \X File) \ {<<n, f>>}

LEMMA RestEntries ==
    ASSUME NEW n \in Node, NEW f \in File
    PROVE  \A o \in Rest(n, f) : o[1] \in Node /\ o[2] \in File /\ (o[1] # n \/ o[2] # f)
BY DEF Rest

(* A step that changes nothing but the entry of f at n. *)
Elsewhere(n, f) ==
    \A k \in Node, g \in File : k # n \/ g # f =>
      /\ rawFM'[k][g] = rawFM[k][g]
      /\ \A m \in Mgr : told'[m][k][g] = told[m][k][g] /\ missed'[m][k][g] = missed[m][k][g]

LEMMA RestKept ==
    ASSUME NEW n \in Node, NEW f \in File, Elsewhere(n, f)
    PROVE  Subscribed!WritesOnly(n, f) /\ \A m \in Mgr : Subscribed!HearsOnly(m, n, f)
<1>1. \A o \in Rest(n, f) :
        /\ rawFM'[o[1]][o[2]] = rawFM[o[1]][o[2]]
        /\ \A m \in Mgr : /\ told'[m][o[1]][o[2]] = told[m][o[1]][o[2]]
                          /\ missed'[m][o[1]][o[2]] = missed[m][o[1]][o[2]]
    BY RestEntries DEF Elsewhere
<1>2. \A m \in Mgr, o \in Rest(n, f) : o[2] \in Behind'[m][o[1]] <=> o[2] \in Behind[m][o[1]]
    <2>1. \A m \in Mgr, k \in Node, g \in File :
            /\ g \in Behind'[m][k] <=> missed'[m][k][g] # "no"
            /\ g \in Behind[m][k] <=> missed[m][k][g] # "no"
        BY DEF Behind
    <2> QED
        BY <1>1, <2>1, RestEntries
<1>3. Subscribed!WritesOnly(n, f)
    BY <1>1 DEF Subscribed!WritesOnly, Subscribed!Others, Rest
<1>4. \A m \in Mgr : Subscribed!HearsOnly(m, n, f)
    BY <1>1, <1>2 DEF Subscribed!HearsOnly, Subscribed!Others, Rest, Behind
<1> QED
    BY <1>3, <1>4

(* A step that tells nobody and only puts managers on record. *)
Marks(n, f) ==
    /\ told' = told
    /\ \A m \in On : missed[m][n][f] # "no" => missed'[m][n][f] # "no"

LEMMA MarksRecord ==
    ASSUME NEW n \in Node, NEW f \in File, Elsewhere(n, f), Marks(n, f)
    PROVE  Subscribed!Records(n, f)
<1>1. \A m \in On : m \in Mgr
    BY DEF On
<1>2. \A m \in On : told'[m] = told[m] /\ Subscribed!HearsOnly(m, n, f)
    BY <1>1, RestKept DEF Marks
<1>3. \A m \in On : f \in Behind[m][n] => f \in Behind'[m][n]
    BY <1>1 DEF Marks, Behind
<1> QED
    BY <1>2, <1>3 DEF Subscribed!Records, On, Behind

LEMMA StepWrite ==
    ASSUME NEW n \in Node, NEW f \in File, Elsewhere(n, f), Marks(n, f),
           Open' = [Open EXCEPT ![n] = @ \cup {f}], On' = On
    PROVE  Subscribed!Next
<1>1. Subscribed!WritesOnly(n, f) /\ Subscribed!Records(n, f)
    BY RestKept, MarksRecord
<1>2. Subscribed!Write(n, f)
    BY <1>1 DEF Subscribed!Write, On, Open
<1> QED
    BY <1>2 DEF Subscribed!Next

LEMMA StepTell ==
    ASSUME NEW m \in On, NEW n \in Node, NEW f \in File, f \in Open[n], Elsewhere(n, f),
           told'[m][n][f] = rawFM[n][f] \/ missed'[m][n][f] # "no",
           \A o \in On \ {m} : told'[o] = told[o] /\ missed'[o] = missed[o],
           rawFM' = rawFM, On' = On, Open' = Open
    PROVE  Subscribed!Next
<1>1. m \in Mgr /\ On \subseteq Mgr
    BY DEF On
<1>2. Subscribed!HearsOnly(m, n, f)
    BY <1>1, RestKept
<1>3. told'[m][n][f] = rawFM[n][f] \/ f \in Behind'[m][n]
    BY <1>1 DEF Behind
<1>4. \A o \in On \ {m} : told'[o] = told[o] /\ Behind'[o] = Behind[o]
    BY <1>1 DEF Behind
<1>5. Subscribed!Tell(m, n, f)
    BY <1>2, <1>3, <1>4 DEF Subscribed!Tell, Subscribed!Untouched, On, Open, Behind
<1> QED
    BY <1>1, <1>5 DEF Subscribed!Next

LEMMA StepClose ==
    ASSUME NEW n \in Node, NEW f \in File, f \in Open[n], Elsewhere(n, f), Marks(n, f),
           Open' = [Open EXCEPT ![n] = @ \ {f}], rawFM' = rawFM, On' = On,
           \A m \in On : Told(m, n, f)'
    PROVE  Subscribed!Next
<1>1. Subscribed!Records(n, f)
    BY MarksRecord
<1>2. \A m \in On : f \in Behind'[m][n] \/ told'[m][n][f] = rawFM'[n][f]
    BY DEF Told, Behind, On
<1>3. Subscribed!Close(n, f)
    BY <1>1, <1>2 DEF Subscribed!Close, Subscribed!Knows, On, Open, Behind
<1> QED
    BY <1>3 DEF Subscribed!Next

LEMMA StepJoin ==
    ASSUME NEW m \in Mgr, m \notin On, On' = On \cup {m},
           rawFM' = rawFM, told' = told, missed' = missed, Open' = Open,
           \A n \in Node, f \in File : f \in Open[n] \/ Told(m, n, f)
    PROVE  Subscribed!Next
<1>1. Behind' = Behind
    BY DEF Behind
<1>2. \A n \in Node, f \in File :
        f \in Open'[n] \/ f \in Behind'[m][n] \/ told'[m][n][f] = rawFM'[n][f]
    BY <1>1 DEF Behind, Told
<1>3. Subscribed!Join(m)
    BY <1>1, <1>2 DEF Subscribed!Join, Subscribed!KnowsRest, Subscribed!Knows,
                      Subscribed!Untouched, On, Open, Behind
<1> QED
    BY <1>3 DEF Subscribed!Next

-----------------------------------------------------------------------------
(* The steps of a TChangeFile call.                                         *)

(* A file is open as long as any thread has a call for it. *)
LEMMA OpenFile ==
    ASSUME NEW n \in Node, NEW f \in File,
           \A k \in Node, g \in File : k # n \/ g # f =>
             ((\E t \in Thread : At(t, k, g)') <=> \E t \in Thread : At(t, k, g))
    PROVE  /\ f \in Open[n] <=> \E t \in Thread : At(t, n, f)
           /\ (\E t \in Thread : At(t, n, f)') => Open' = [Open EXCEPT ![n] = @ \cup {f}]
           /\ ~(\E t \in Thread : At(t, n, f)') => Open' = [Open EXCEPT ![n] = @ \ {f}]
           /\ (\E t \in Thread : At(t, n, f)') /\ (\E t \in Thread : At(t, n, f)) => Open' = Open
<1>1. /\ Open \in [Node -> SUBSET File] /\ Open' \in [Node -> SUBSET File]
      /\ \A k \in Node, g \in File :
           /\ g \in Open[k] <=> \E t \in Thread : At(t, k, g)
           /\ g \in Open'[k] <=> \E t \in Thread : At(t, k, g)'
    BY DEF Open
<1>2. \A k \in Node \ {n} : Open'[k] = Open[k]
    BY <1>1
<1>3. (\E t \in Thread : At(t, n, f)') => Open'[n] = Open[n] \cup {f}
    BY <1>1
<1>4. ~(\E t \in Thread : At(t, n, f)') => Open'[n] = Open[n] \ {f}
    BY <1>1
<1>5. (\E t \in Thread : At(t, n, f)') => Open' = [Open EXCEPT ![n] = @ \cup {f}]
    BY <1>1, <1>2, <1>3
<1>6. ~(\E t \in Thread : At(t, n, f)') => Open' = [Open EXCEPT ![n] = @ \ {f}]
    BY <1>1, <1>2, <1>4
<1>7. ASSUME \E t \in Thread : At(t, n, f)', \E t \in Thread : At(t, n, f)
      PROVE  Open' = Open
    <2>1. f \in Open[n]
        BY <1>1, <1>7
    <2>2. Open'[n] = Open[n]
        BY <1>3, <1>7, <2>1
    <2>3. \A k \in Node : Open'[k] = Open[k]
        BY <1>2, <2>2
    <2>4. QED
        BY ONLY <1>1, <2>3
<1> QED
    BY <1>1, <1>5, <1>6, <1>7

LEMMA RefineArrives ==
    ASSUME IInv, NEW t \in Thread, Arrives(t)
    PROVE  Subscribed!Next
<1>1. CASE UNCHANGED vars
    <2>1. rawFM' = rawFM /\ told' = told /\ missed' = missed
        BY <1>1 DEF vars
    <2>2. Open' = Open /\ On' = On
        BY <1>1 DEF vars, Open, On, At
    <2> QED
        BY <2>1, <2>2, StepOffline
<1>2. ASSUME NEW n \in Node, NEW f \in File, NEW pc \in {"gfid", "unmap"},
             NEW a \in {"create", "modify", "delete"}, NEW l \in Layout \cup {None},
             Begun(t, n, f, pc, a, l)
      PROVE  Subscribed!Next
    <2>1. /\ rawFM' = rawFM /\ told' = told /\ missed' = missed /\ phase' = phase /\ cut' = cut
          /\ Begin(t, pc, a, n, f, l)
        BY <1>2 DEF Begun, Frame
    <2>2. On' = On /\ Elsewhere(n, f) /\ Marks(n, f)
        BY <2>1 DEF On, Elsewhere, Marks
    <2>3. /\ At(t, n, f)'
          /\ \A k \in Node, g \in File : ~At(t, k, g)
          /\ \A o \in Thread \ {t}, k \in Node, g \in File : At(o, k, g)' <=> At(o, k, g)
        BY <2>1, BeginFacts, IdleFacts DEF IInv, At
    <2>4. \A k \in Node, g \in File : k # n \/ g # f =>
            ((\E o \in Thread : At(o, k, g)') <=> \E o \in Thread : At(o, k, g))
        <3>1. \A k \in Node, g \in File : At(t, k, g)' => k = n /\ g = f
            BY <2>3 DEF At
        <3> QED
            BY <2>3, <3>1
    <2>5. Open' = [Open EXCEPT ![n] = @ \cup {f}]
        BY <2>3, <2>4, OpenFile
    <2> QED
        BY <2>2, <2>5, StepWrite
<1>3. TypeOK
    BY DEF IInv
<1> QED
    BY <1>1, <1>2, <1>3, ArrivesFacts

(* The call that returns is the last for its file, or leaves it open. *)
LEMMA RefineReturn ==
    ASSUME IInv, IInv', NEW t \in Thread, NEW n \in Node, NEW f \in File, At(t, n, f),
           Local(t, n, f), NEW S, NEW why \in Cause, Return(t, S, why),
           S # {} => why # "no", On' = On, rawFM' = rawFM, told' = told
    PROVE  Subscribed!Next
<1>1. /\ handler'[t] = Idle
      /\ \A m \in Mgr : missed'[m][n][f] = IF Active(m) /\ (m \in S \/ ~handler[t].clean)
                                           THEN IF handler[t].clean THEN why ELSE "race"
                                           ELSE missed[m][n][f]
    BY ReturnFacts DEF IInv
<1>2. Elsewhere(n, f)
    BY DEF Elsewhere, Local
<1>3. Marks(n, f)
    BY <1>1 DEF Marks, On
<1>4. \A k \in Node, g \in File : ~At(t, k, g)'
    BY <1>1, ConstantsAssumption DEF At, Idle, Call
<1>5. \A o \in Thread \ {t}, k \in Node, g \in File : At(o, k, g)' <=> At(o, k, g)
    BY DEF Local, At
<1>6. \A k \in Node, g \in File : k # n \/ g # f =>
        ((\E o \in Thread : At(o, k, g)') <=> \E o \in Thread : At(o, k, g))
    <2>1. \A k \in Node, g \in File : At(t, k, g) => k = n /\ g = f
        BY DEF At
    <2> QED
        BY <1>4, <1>5, <2>1
<1>7. CASE \E o \in Thread : At(o, n, f)'
    BY <1>2, <1>3, <1>6, <1>7, OpenFile, StepWrite
<1>8. CASE ~\E o \in Thread : At(o, n, f)'
    <2>1. f \in Open[n] /\ Open' = [Open EXCEPT ![n] = @ \ {f}]
        BY <1>6, <1>8, OpenFile
    <2>2. \A m \in On : Told(m, n, f)'
        <3> SUFFICES ASSUME NEW m \in On PROVE Told(m, n, f)'
            OBVIOUS
        <3>1. m \in Mgr /\ phase'[m] = "up" /\ ~cut'[m]
            BY DEF On
        <3>2. Active(m)' /\ n \notin toRead'[m]
            BY <3>1 DEF IInv, ReadInv, Active
        <3>3. ~OnItsWay(m, n, f)'
            BY <1>8 DEF OnItsWay
        <3> QED
            BY <3>1, <3>2, <3>3 DEF IInv, TellInv
    <2> QED
        BY <1>2, <1>3, <2>1, <2>2, StepClose
<1> QED
    BY <1>7, <1>8

LEMMA RefineContinues ==
    ASSUME IInv, IInv', NEW t \in Thread, Continues(t)
    PROVE  Subscribed!Next
<1> USE DEF Frame, traceVars
<1>1. handler[t].pc # "idle" /\ phase' = phase /\ cut' = cut
    BY DEF Continues, CreateEntered, ModifyEntered, ModifyRaises, DeleteRaw, DeleteRawRaises,
           DeleteLoop, DeleteRaises, Push, PushFails, ChangeDone
<1>2. On' = On
    BY <1>1 DEF On
<1>3. PICK n \in Node, f \in File : At(t, n, f)
    BY <1>1, CallIsAt DEF IInv
<1>4. TypeOK /\ TypeOK' /\ Local(t, n, f) /\ Elsewhere(n, f)
    <2>1. TypeOK /\ HandlerInv
        BY DEF IInv
    <2>2. TypeOK' /\ Local(t, n, f)
        BY <1>3, <2>1, ContinuesLocal
    <2> QED
        BY <2>1, <2>2 DEF Local, Elsewhere
<1>5. CASE ModifyRaises(t) \/ DeleteRawRaises(t) \/ ChangeDone(t)
    <2>1. Return(t, {}, "no") /\ rawFM' = rawFM /\ told' = told
        BY <1>5 DEF ModifyRaises, DeleteRawRaises, ChangeDone
    <2> QED
        BY <1>2, <1>3, <1>4, <2>1, RefineReturn DEF Cause
<1>6. CASE DeleteRaises(t)
    <2>1. Return(t, Mgr, "error") /\ rawFM' = rawFM /\ told' = told
        BY <1>6 DEF DeleteRaises
    <2> QED
        BY <1>2, <1>3, <1>4, <2>1, RefineReturn DEF Cause
<1>7. CASE PushFails(t)
    <2>1. Return(t, Members(handler[t].todo), "push") /\ rawFM' = rawFM /\ told' = told
        BY <1>7 DEF PushFails
    <2> QED
        BY <1>2, <1>3, <1>4, <2>1, RefineReturn DEF Cause
<1>8. CASE CreateEntered(t) \/ ModifyEntered(t) \/ DeleteRaw(t) \/ DeleteLoop(t) \/ Push(t)
    <2>1. handler'[t].pc # "idle"
        <3>1. handler[t] \in Handler /\ handler \in [Thread -> Handler]
            BY <1>4 DEF TypeOK
        <3>2. CASE StartPush(t)
            BY <1>4, <3>2, PushFacts
        <3>3. CASE DeleteRaw(t) \/ Push(t)
            BY <3>1, <3>3 DEF DeleteRaw, Push, Handler
        <3> QED
            BY <1>8, <3>2, <3>3 DEF CreateEntered, ModifyEntered, DeleteLoop
    <2>2. At(t, n, f)'
        BY <1>4, <2>1 DEF Local, At, Idle, Call
    <2>3. \A o \in Thread, k \in Node, g \in File : At(o, k, g)' <=> At(o, k, g)
        <3>1. \A k \in Node, g \in File : At(t, k, g)' <=> At(t, k, g)
            BY <1>3, <2>2 DEF At
        <3> QED
            BY <1>4, <3>1 DEF Local, At
    <2>4. f \in Open[n] /\ Open' = Open /\ Open' = [Open EXCEPT ![n] = @ \cup {f}]
        BY <1>3, <2>2, <2>3, OpenFile
    <2>5. CASE told' = told /\ missed' = missed
        <3>1. Marks(n, f)
            BY <2>5 DEF Marks
        <3> QED
            BY <1>2, <1>4, <2>4, <3>1, StepWrite
    <2>6. CASE Push(t)
        <3>1. PICK m \in Mgr : m = Head(handler[t].todo)
            <4>1. handler[t].todo \in Seq(Mgr) /\ handler[t].todo # <<>>
                BY <1>4, <2>6, Built DEF Push, TypeOK
            <4> QED
                BY <4>1, MembersFacts
        <3>2. handler[t].node = n /\ handler[t].file = f
            BY <1>3 DEF At
        <3>3. /\ told' = [told EXCEPT ![m][n][f] = Pushed(handler[t])]
              /\ missed' = [missed EXCEPT ![m][n][f] = IF handler[t].clean THEN "no" ELSE "race"]
              /\ rawFM' = rawFM
            BY <2>6, <3>1, <3>2 DEF Push
        <3>4. \A o \in Mgr \ {m} : told'[o] = told[o] /\ missed'[o] = missed[o]
            BY <1>4, <3>3 DEF TypeOK
        <3>5. CASE m \notin On
            <4>1. \A o \in On : told'[o] = told[o] /\ missed'[o] = missed[o]
                BY <3>4, <3>5 DEF On
            <4> QED
                BY <1>2, <2>4, <3>3, <4>1, StepOffline
        <3>6. CASE m \in On
            <4>1. \A o \in On \ {m} : told'[o] = told[o] /\ missed'[o] = missed[o]
                BY <3>4 DEF On
            <4>2. handler[t].clean => Pushed(handler[t]) = rawFM[n][f]
                BY <1>3, <2>6, <3>2 DEF IInv, CallInv, Push, Pushed
            <4>3. told'[m][n][f] = Pushed(handler[t])
                BY <1>4, <3>3 DEF TypeOK, Map
            <4>4. ~handler[t].clean => missed'[m][n][f] # "no"
                BY <1>4, <3>3 DEF TypeOK
            <4> QED
                BY <1>2, <1>4, <2>4, <3>3, <3>6, <4>1, <4>2, <4>3, <4>4, StepTell
        <3> QED
            BY <3>5, <3>6
    <2> QED
        BY <1>8, <2>5, <2>6 DEF CreateEntered, ModifyEntered, DeleteRaw, DeleteLoop
<1> QED
    BY <1>5, <1>6, <1>7, <1>8 DEF Continues

-----------------------------------------------------------------------------
(* The steps of a manager.                                                  *)

LEMMA RefineMgr ==
    ASSUME IInv, NEW m \in Mgr, MgrNext(m)
    PROVE  Subscribed!Next
<1>1. TypeOK
    BY DEF IInv
<1>2. rawFM' = rawFM /\ \A t \in Thread, n \in Node, f \in File : At(t, n, f)' <=> At(t, n, f)
    BY <1>1, MgrFrame DEF At
<1>3. Open' = Open
    BY <1>2 DEF Open
<1>4. \A o \in Mgr \ {m} :
        /\ told'[o] = told[o] /\ missed'[o] = missed[o]
        /\ o \in On' => o \in On
    BY <1>1, OthersFrame DEF On, Active
<1>5. CASE m \notin On'
    <2>1. On' \subseteq Mgr
        BY DEF On
    <2>2. \A o \in On' : o \in Mgr \ {m}
        BY <1>5, <2>1
    <2>3. On' \subseteq On
        BY <1>4, <2>2
    <2> QED
        BY <1>2, <1>3, <1>4, <2>2, <2>3, StepOffline
<1>6. CASE m \in On'
    <2>1. phase'[m] = "up" /\ ~cut'[m]
        BY <1>6 DEF On
    <2>2. \/ ~TRegister(m) /\ ~(\E n \in Node : ReadBegin(m, n)) /\ ~ReadEnd(m)
          \/ phase[m] = "up"
        BY <1>1, <2>1 DEF TRegister, ReadBegin, ReadEnd, TypeOK
    <2>3. phase[m] = "starting" /\ cut' = cut /\ Serve(m)
        BY <1>1, <2>1, <2>2, SelfPhase DEF Active, TRegister
    <2>4. /\ told' = told /\ missed' = missed /\ toRead[m] = {}
          /\ \A o \in Mgr \ {m} : phase'[o] = phase[o]
        BY <1>1, <2>3 DEF Serve, TypeOK
    <2>5. m \notin On /\ On' = On \cup {m}
        BY <1>6, <2>3, <2>4 DEF On
    <2>6. \A n \in Node, f \in File : f \in Open[n] \/ Told(m, n, f)
        BY <2>1, <2>3, <2>4 DEF IInv, TellInv, Active, OnItsWay, Open
    <2> QED
        BY <1>2, <1>3, <2>4, <2>5, <2>6, StepJoin
<1> QED
    BY <1>5, <1>6

-----------------------------------------------------------------------------
(* Trace implements the map with subscribers: whatever the workers report,  *)
(* however the calls of their senders overlap, and however managers come,   *)
(* go, fail and deregister one another, each step of trace.py is a step the *)
(* map allows, or changes nothing it sees.                                  *)
THEOREM MapImplemented == Spec => ImplementsMap
<1>1. Init => Subscribed!Init
    <2> SUFFICES ASSUME Init PROVE Subscribed!Init
        OBVIOUS
    <2>1. \A n \in Node : {f \in File : \E t \in Thread : At(t, n, f)} = {}
        BY ConstantsAssumption DEF Init, Idle, Call, At
    <2>2. \A m \in Mgr : phase[m] # "up"
        BY DEF Init
    <2> QED
        BY <2>1, <2>2 DEF Subscribed!Init
<1>2. IInv /\ IInv' /\ [Next]_vars => [Subscribed!Next]_(Subscribed!vars)
    <2>1. CASE UNCHANGED vars
        BY <2>1 DEF vars, Subscribed!vars, At
    <2> QED
        BY <2>1, RefineArrives, RefineContinues, RefineMgr DEF Next
<1> QED
    BY <1>1, <1>2, InvCorrect, PTL DEF Spec, ImplementsMap, Subscribed!Spec

-----------------------------------------------------------------------------
(* What the map promises, from its own steps alone.                         *)

(* m knows what is at f of n. *)
Aware(m, n, f) == f \in Open[n] \/ f \in Behind[m][n] \/ told[m][n][f] = rawFM[n][f]

LEMMA PromiseIs == Subscribed!Promise <=> \A m \in On, n \in Node, f \in File : Aware(m, n, f)
BY DEF Subscribed!Promise, Subscribed!KnowsRest, Subscribed!Knows, Aware, On, Open, Behind

(* A step after which m knows f of n and has heard nothing else leaves it   *)
(* aware of the rest.                                                       *)
LEMMA AwareOfRest ==
    ASSUME NEW m \in On, NEW n \in Node, NEW f \in File,
           \A k \in Node, g \in File : Aware(m, k, g),
           Subscribed!WritesOnly(n, f), Subscribed!HearsOnly(m, n, f),
           \A k \in Node, g \in File : (k # n \/ g # f) /\ g \in Open[k] => g \in Open'[k],
           Aware(m, n, f)'
    PROVE  \A k \in Node, g \in File : Aware(m, k, g)'
<1> SUFFICES ASSUME NEW k \in Node, NEW g \in File, k # n \/ g # f
             PROVE  Aware(m, k, g)'
    OBVIOUS
<1>1. <<k, g>> \in Rest(n, f) /\ <<k, g>>[1] = k /\ <<k, g>>[2] = g
    BY DEF Rest
<1>2. rawFM'[k][g] = rawFM[k][g]
    <2>1. \A o \in Rest(n, f) : rawFM'[o[1]][o[2]] = rawFM[o[1]][o[2]]
        BY DEF Subscribed!WritesOnly, Subscribed!Others, Rest
    <2> QED
        BY <1>1, <2>1
<1>3. told'[m][k][g] = told[m][k][g] /\ (g \in Behind'[m][k] <=> g \in Behind[m][k])
    <2>1. \A o \in Rest(n, f) :
            /\ told'[m][o[1]][o[2]] = told[m][o[1]][o[2]]
            /\ o[2] \in Behind'[m][o[1]] <=> o[2] \in Behind[m][o[1]]
        BY DEF Subscribed!HearsOnly, Subscribed!Others, Rest, Behind
    <2> QED
        BY <1>1, <2>1
<1> QED
    BY <1>2, <1>3 DEF Aware

(* Every step of the map keeps its promise: a name is written while it is   *)
(* open, and closed when everyone knows or is on record.                    *)
LEMMA PromiseStep ==
    ASSUME Subscribed!Promise, Subscribed!Next
    PROVE  Subscribed!Promise'
<1>0. \A m \in On, n \in Node, f \in File : Aware(m, n, f)
    BY PromiseIs
<1> SUFFICES ASSUME NEW m \in On' PROVE \A n \in Node, f \in File : Aware(m, n, f)'
    BY DEF Subscribed!Promise, Subscribed!KnowsRest, Subscribed!Knows, Aware, On, Open, Behind
<1>1. ASSUME m \in On, told'[m] = told[m], Behind'[m] = Behind[m], rawFM' = rawFM, Open' = Open
      PROVE  \A n \in Node, f \in File : Aware(m, n, f)'
    BY <1>0, <1>1 DEF Aware
<1>2. ASSUME NEW n \in Node, NEW f \in File, Subscribed!Write(n, f)
      PROVE  \A k \in Node, g \in File : Aware(m, k, g)'
    <2>1. m \in On /\ Subscribed!HearsOnly(m, n, f)
        BY <1>2 DEF Subscribed!Write, Subscribed!Records, On
    <2>2. Open' = [Open EXCEPT ![n] = @ \cup {f}]
        BY <1>2 DEF Subscribed!Write, Open
    <2>3. f \in Open'[n] /\ \A k \in Node, g \in File : g \in Open[k] => g \in Open'[k]
        BY <2>2 DEF Open
    <2>4. Subscribed!WritesOnly(n, f)
        BY <1>2 DEF Subscribed!Write
    <2>5. Aware(m, n, f)'
        BY <2>3 DEF Aware
    <2> QED
        BY <1>0, <2>1, <2>3, <2>4, <2>5, AwareOfRest
<1>3. ASSUME NEW n \in Node, NEW f \in File, Subscribed!Close(n, f)
      PROVE  \A k \in Node, g \in File : Aware(m, k, g)'
    <2>1. m \in On /\ Subscribed!HearsOnly(m, n, f) /\ rawFM' = rawFM
        BY <1>3 DEF Subscribed!Close, Subscribed!Records, On
    <2>2. Open' = [Open EXCEPT ![n] = @ \ {f}]
        BY <1>3 DEF Subscribed!Close, Open
    <2>3. \A k \in Node, g \in File : (k # n \/ g # f) /\ g \in Open[k] => g \in Open'[k]
        BY <2>2 DEF Open
    <2>4. Subscribed!WritesOnly(n, f)
        BY <2>1 DEF Subscribed!WritesOnly
    <2>5. Aware(m, n, f)'
        BY <1>3, <2>1 DEF Subscribed!Close, Subscribed!Knows, Aware, On, Behind
    <2> QED
        BY <1>0, <2>1, <2>3, <2>4, <2>5, AwareOfRest
<1>4. ASSUME NEW s \in Mgr, NEW n \in Node, NEW f \in File, Subscribed!Tell(s, n, f)
      PROVE  \A k \in Node, g \in File : Aware(m, k, g)'
    <2>1. m \in On /\ rawFM' = rawFM /\ Open' = Open
        BY <1>4 DEF Subscribed!Tell, On, Open
    <2>2. CASE m # s
        <3>1. told'[m] = told[m] /\ Behind'[m] = Behind[m]
            BY <1>4, <2>1, <2>2 DEF Subscribed!Tell, Subscribed!Untouched, On, Behind
        <3> QED
            BY <1>1, <2>1, <3>1
    <2>3. CASE m = s
        <3>1. Subscribed!HearsOnly(m, n, f) /\ (f \in Behind'[m][n] \/ told'[m][n][f] = rawFM[n][f])
            BY <1>4, <2>3 DEF Subscribed!Tell, Behind
        <3>2. Subscribed!WritesOnly(n, f)
            BY <2>1 DEF Subscribed!WritesOnly
        <3>3. Aware(m, n, f)'
            BY <2>1, <3>1 DEF Aware
        <3> QED
            BY <1>0, <2>1, <3>1, <3>2, <3>3, AwareOfRest
    <2> QED
        BY <2>2, <2>3
<1>5. ASSUME NEW s \in Mgr, Subscribed!Join(s)
      PROVE  \A n \in Node, f \in File : Aware(m, n, f)'
    <2>1. rawFM' = rawFM /\ Open' = Open /\ On' = On \cup {s}
        BY <1>5 DEF Subscribed!Join, On, Open
    <2>2. CASE m = s
        BY <1>5, <2>2 DEF Subscribed!Join, Subscribed!KnowsRest, Subscribed!Knows, Aware, Open, Behind
    <2>3. CASE m # s
        <3>1. m \in On /\ told'[m] = told[m] /\ Behind'[m] = Behind[m]
            BY <1>5, <2>1, <2>3 DEF Subscribed!Join, Subscribed!Untouched, On, Behind
        <3> QED
            BY <1>1, <2>1, <3>1
    <2> QED
        BY <2>2, <2>3
<1>6. CASE Subscribed!Offline
    <2>1. /\ m \in On /\ rawFM' = rawFM /\ Open' = Open
          /\ told'[m] = told[m] /\ Behind'[m] = Behind[m]
        BY <1>6 DEF Subscribed!Offline, Subscribed!Untouched, On, Open, Behind
    <2> QED
        BY <1>1, <2>1
<1> QED
    BY <1>2, <1>3, <1>4, <1>5, <1>6 DEF Subscribed!Next

(* The abstract map is no empty promise: whatever follows its steps has     *)
(* every manager in service know each entry that no call of TChangeFile is  *)
(* changing, or on record as behind.  Of trace.py it is SyncCorrect again,  *)
(* from the order in which a call opens, writes, tells and closes alone.    *)
THEOREM MapPromise == ImplementsMap => []InSync
<1>1. Subscribed!Init => Subscribed!Promise
    BY DEF Subscribed!Init, Subscribed!Promise
<1>2. Subscribed!Promise /\ [Subscribed!Next]_(Subscribed!vars) => Subscribed!Promise'
    <2>1. ASSUME Subscribed!Promise, UNCHANGED Subscribed!vars
          PROVE  Subscribed!Promise'
        BY <2>1 DEF Subscribed!vars, Subscribed!Promise, Subscribed!KnowsRest, Subscribed!Knows
    <2> QED
        BY <2>1, PromiseStep
<1>3. Subscribed!Promise => InSync
    BY PromiseIs DEF Aware, On, Open, Behind, InSync
<1> QED
    BY <1>1, <1>2, <1>3, PTL DEF ImplementsMap, Subscribed!Spec
=============================================================================
