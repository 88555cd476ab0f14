---------------------------- MODULE TraceProofs ----------------------------
(***************************************************************************)
(* What Trace guarantees for any number of nodes, files, managers and      *)
(* threads.  The inductive invariant IInv adds to the types: what a call   *)
(* under way still knows (HandlerInv), that a clean call is the only one   *)
(* for its file (CleanInv) and finds the maps as it left them (CallInv),   *)
(* that the two maps list the same files (MapsAgree), that a manager is in *)
(* the list agent unless it was cut (ListInv), and that an entry a manager *)
(* does not have is either on its way in a push list or recorded as missed *)
(* (TellInv).                                                              *)
(***************************************************************************)
EXTENDS Trace, SequenceTheorems, TLAPS

-----------------------------------------------------------------------------
HandlerInv ==
    \A t \in Thread :
      /\ handler[t].pc = "idle" => handler[t] = Idle
      /\ handler[t].pc # "idle" => handler[t].node \in Node /\ handler[t].file \in File
      /\ handler[t].pc = "gfid" => handler[t].pba \in Layout
      /\ handler[t].pc = "unmap" \/ handler[t].pc = "loop" => handler[t].action = "delete"

CleanInv ==
    \A t \in Thread, n \in Node, f \in File :
      At(t, n, f) =>
        /\ ~handler[t].clean => <<n, f>> \in crossed
        /\ handler[t].clean => \A o \in Thread : At(o, n, f) => o = t

(* What the maps hold for a clean call. *)
CallInv ==
    \A t \in Thread, n \in Node, f \in File :
      At(t, n, f) /\ handler[t].clean =>
        /\ handler[t].pc = "gfid" /\ handler[t].action = "create" => fmDict[n][f] # None
        /\ handler[t].pc = "unmap" => fmDict[n][f] = None
        /\ handler[t].action = "delete" /\ handler[t].pc # "unmap" => rawFM[n][f] = None

ListInv == \A m \in Mgr : Active(m) /\ ~cut[m] => m \in Members(agent)

ReadInv == \A m \in Mgr : phase[m] = "up" => toRead[m] = {}

(* A call for f at n that will tell m or put it on record. *)
OnItsWay(m, n, f) ==
    \E t \in Thread :
      /\ At(t, n, f)
      /\ \/ ~handler[t].clean
         \/ handler[t].pc = "loop"
         \/ handler[t].pc = "push" /\ m \in Members(handler[t].todo)

Told(m, n, f) == told[m][n][f] = rawFM[n][f] \/ missed[m][n][f] # "no"

TellInv ==
    \A m \in Mgr, n \in Node, f \in File :
      Active(m) /\ ~cut[m] /\ n \notin toRead[m] => Told(m, n, f) \/ OnItsWay(m, n, f)

IInv ==
    /\ TypeOK /\ HandlerInv /\ CleanInv /\ CallInv /\ MapsAgree
    /\ ListInv /\ ReadInv /\ TellInv

-----------------------------------------------------------------------------
(* Types.                                                                   *)

(* The records the actions build have their types. *)
LEMMA Built ==
    /\ Idle \in Handler
    /\ \A n \in Node, f \in File, l \in Layout \cup {None}, b \in BOOLEAN,
          pc \in {"gfid", "unmap"}, a \in {"create", "modify", "delete"} :
         Call(pc, a, n, f, l, b) \in Handler
    /\ \A h \in Handler, s \in Seq(Mgr) :
         [h EXCEPT !.pc = "push", !.todo = s, !.live = TRUE] \in Handler
    /\ \A h \in Handler : [h EXCEPT !.pc = "loop"] \in Handler
    /\ \A h \in Handler, s \in Seq(Mgr) : [h EXCEPT !.todo = s] \in Handler
    /\ \A h \in Handler : [h EXCEPT !.live = FALSE] \in Handler
    /\ \A h \in Handler : [h EXCEPT !.clean = FALSE] \in Handler
    /\ \A h \in Handler : h.todo \in Seq(Mgr) /\ h.clean \in BOOLEAN
    /\ \A l \in Layout, b \in BOOLEAN : [pba |-> l, shards |-> b] \in Entry
    /\ \A e \in Entry, l \in Layout : [e EXCEPT !.pba = l] \in Entry
    /\ None \notin Entry
<1>1. Idle \in Handler
    BY DEF Idle, Call, Handler
<1>2. \A n \in Node, f \in File, l \in Layout \cup {None}, b \in BOOLEAN,
         pc \in {"gfid", "unmap"}, a \in {"create", "modify", "delete"} :
        Call(pc, a, n, f, l, b) \in Handler
    BY DEF Call, Handler
<1>3. \A h \in Handler : [h EXCEPT !.pc = "loop"] \in Handler
    BY DEF Handler
<1>4. \A h \in Handler, s \in Seq(Mgr) :
         [h EXCEPT !.pc = "push", !.todo = s, !.live = TRUE] \in Handler
    BY DEF Handler
<1>5. /\ \A h \in Handler, s \in Seq(Mgr) : [h EXCEPT !.todo = s] \in Handler
      /\ \A h \in Handler : [h EXCEPT !.live = FALSE] \in Handler
      /\ \A h \in Handler : [h EXCEPT !.clean = FALSE] \in Handler
      /\ \A h \in Handler : h.todo \in Seq(Mgr) /\ h.clean \in BOOLEAN
    BY DEF Handler
<1>6. /\ \A l \in Layout, b \in BOOLEAN : [pba |-> l, shards |-> b] \in Entry
      /\ \A e \in Entry, l \in Layout : [e EXCEPT !.pba = l] \in Entry
      /\ None \notin Entry
    BY ConstantsAssumption DEF Entry
<1> QED
    BY <1>1, <1>2, <1>3, <1>4, <1>5, <1>6

(* Writing one entry of a map. *)
LEMMA MapWrite ==
    ASSUME NEW M \in Map, NEW n \in Node, NEW f \in File, NEW v \in Entry \cup {None}
    PROVE  /\ [M EXCEPT ![n][f] = v] \in Map
           /\ [M EXCEPT ![n][f] = v][n][f] = v
           /\ \A k \in Node, g \in File :
                k # n \/ g # f => [M EXCEPT ![n][f] = v][k][g] = M[k][g]
BY DEF Map

LEMMA SetRawType ==
    ASSUME TypeOK, NEW n \in Node, NEW f \in File, NEW v \in Entry \cup {None}, SetRaw(n, f, v)
    PROVE  rawFM' \in Map /\ torn' \in [Mgr -> BOOLEAN]
<1>1. rawFM' \in Map
    BY MapWrite DEF TypeOK, SetRaw
<1>2. torn' \in [Mgr -> BOOLEAN]
    BY DEF TypeOK, SetRaw
<1> QED
    BY <1>1, <1>2

(* The members of a sequence over a set, and what the list operations do. *)
LEMMA MembersFacts ==
    ASSUME NEW s \in Seq(Mgr)
    PROVE  /\ Members(s) \subseteq Mgr
           /\ s = <<>> => Members(s) = {}
           /\ s # <<>> => Head(s) \in Mgr /\ Tail(s) \in Seq(Mgr)
           /\ s # <<>> => \A m \in Members(s) : m = Head(s) \/ m \in Members(Tail(s))
           /\ \A m \in Mgr : /\ Append(s, m) \in Seq(Mgr)
                             /\ m \in Members(Append(s, m))
                             /\ Members(s) \subseteq Members(Append(s, m))
<1>1. Members(s) \subseteq Mgr
    BY ElementOfSeq DEF Members
<1>2. s = <<>> => Members(s) = {}
    BY DEF Members
<1>3. ASSUME s # <<>>
      PROVE  /\ Head(s) \in Mgr /\ Tail(s) \in Seq(Mgr)
             /\ \A m \in Members(s) : m = Head(s) \/ m \in Members(Tail(s))
    <2>1. /\ Head(s) \in Mgr /\ Tail(s) \in Seq(Mgr) /\ Head(s) = s[1]
          /\ Len(s) \in Nat /\ Len(s) > 0 /\ Len(Tail(s)) = Len(s) - 1
          /\ \A i \in 1..Len(Tail(s)) : Tail(s)[i] = s[i + 1]
        BY <1>3
    <2>2. ASSUME NEW i \in 1..Len(s), i # 1 PROVE s[i] \in Members(Tail(s))
        <3>1. i - 1 \in 1..Len(Tail(s)) /\ (i - 1) + 1 = i
            BY <2>1, <2>2
        <3>2. Tail(s)[i - 1] = s[i]
            BY <2>1, <3>1
        <3> QED
            BY <3>1, <3>2 DEF Members
    <2> QED
        BY <2>1, <2>2 DEF Members
<1>4. ASSUME NEW m \in Mgr
      PROVE  /\ Append(s, m) \in Seq(Mgr)
             /\ m \in Members(Append(s, m))
             /\ Members(s) \subseteq Members(Append(s, m))
    <2>1. /\ Append(s, m) \in Seq(Mgr) /\ Len(s) \in Nat
          /\ Len(Append(s, m)) = Len(s) + 1
          /\ Append(s, m)[Len(s) + 1] = m
          /\ \A i \in 1..Len(s) : Append(s, m)[i] = s[i]
        OBVIOUS
    <2>2. Len(s) + 1 \in 1..Len(Append(s, m)) /\ 1..Len(s) \subseteq 1..Len(Append(s, m))
        BY <2>1
    <2> QED
        BY <2>1, <2>2 DEF Members
<1> QED
    BY <1>1, <1>2, <1>3, <1>4

(* list(set(...)) is a list over the set. *)
LEMMA OrdersType ==
    ASSUME NEW S \in SUBSET Mgr, NEW s \in Orders(S)
    PROVE  s \in Seq(Mgr) /\ Members(s) = S
<1>1. PICK k \in 0..MaxAgent : s \in [1..k -> S]
    BY DEF Orders
<1>2. k \in Nat
    BY ConstantsAssumption
<1>3. s \in [1..k -> Mgr]
    BY <1>1
<1> QED
    BY <1>2, <1>3 DEF Orders

(* Initially every variable has its type. *)
LEMMA TypeInit == Init => TypeOK
<1> SUFFICES ASSUME Init PROVE TypeOK
    OBVIOUS
<1>2. shardDict \in [File -> SUBSET {"path", "base"}]
    BY DEF Init
<1>3. handler \in [Thread -> Handler] /\ crossed \subseteq Node \X File
    BY Built DEF Init
<1>4. told \in [Mgr -> Map]
    BY DEF Init, Map
<1>5. missed \in [Mgr -> [Node -> [File -> Cause]]]
    BY DEF Init, Cause
<1>6. leaving \in [Mgr -> Seq(Mgr)] /\ agent \in Seq(Mgr)
    BY DEF Init
<1> QED
    BY <1>2, <1>3, <1>4, <1>5, <1>6 DEF Init, TypeOK, Cause

(* No thread but t has a call for f at n. *)
Alone(t, n, f) == \A o \in Thread : At(o, n, f) => o = t

(* A call that begins, and what it does to the calls it meets. *)
LEMMA BeginFacts ==
    ASSUME TypeOK, NEW t \in Thread, NEW n \in Node, NEW f \in File,
           NEW pc \in {"gfid", "unmap"}, NEW a \in {"create", "modify", "delete"},
           NEW l \in Layout \cup {None}, Begin(t, pc, a, n, f, l)
    PROVE  /\ handler' \in [Thread -> Handler] /\ crossed' \subseteq Node \X File
           /\ handler[t].pc = "idle"
           /\ handler'[t].pc = pc /\ handler'[t].action = a /\ handler'[t].pba = l
           /\ handler'[t].node = n /\ handler'[t].file = f
           /\ handler'[t].clean <=> Alone(t, n, f)
           /\ \A o \in Thread \ {t} :
                /\ handler'[o].pc = handler[o].pc /\ handler'[o].action = handler[o].action
                /\ handler'[o].node = handler[o].node /\ handler'[o].file = handler[o].file
                /\ handler'[o].pba = handler[o].pba /\ handler'[o].todo = handler[o].todo
                /\ handler'[o].clean <=> handler[o].clean /\ ~At(o, n, f)
                /\ ~At(o, n, f) => handler'[o] = handler[o]
           /\ crossed' = IF Alone(t, n, f) THEN crossed ELSE crossed \cup {<<n, f>>}
<1> DEFINE others == {o \in Thread \ {t} : At(o, n, f)}
           alone == (others = {})
<1>1. alone <=> Alone(t, n, f)
    BY DEF Alone
<1>2. handler' = [o \in Thread |->
         IF o = t THEN Call(pc, a, n, f, l, alone)
         ELSE IF o \in others THEN [handler[o] EXCEPT !.clean = FALSE]
         ELSE handler[o]]
    BY DEF Begin
<1>3. alone \in BOOLEAN
    OBVIOUS
<1>10. /\ handler[t].pc = "idle"
       /\ crossed' = IF alone THEN crossed ELSE crossed \cup {<<n, f>>}
    BY DEF Begin
<1> HIDE DEF alone
<1>4. handler'[t] = Call(pc, a, n, f, l, alone)
    BY <1>2
<1>5. handler'[t] \in Handler
    <2>1. PICK b \in BOOLEAN : b = alone
        BY <1>3
    <2>2. Call(pc, a, n, f, l, b) \in Handler
        BY Built
    <2> QED
        BY <1>4, <2>1, <2>2
<1>6. ASSUME NEW o \in Thread \ {t}
      PROVE  /\ handler'[o] \in Handler
             /\ handler'[o].pc = handler[o].pc /\ handler'[o].action = handler[o].action
             /\ handler'[o].node = handler[o].node /\ handler'[o].file = handler[o].file
             /\ handler'[o].pba = handler[o].pba /\ handler'[o].todo = handler[o].todo
             /\ handler'[o].clean <=> handler[o].clean /\ ~At(o, n, f)
             /\ ~At(o, n, f) => handler'[o] = handler[o]
    <2>1. handler[o] \in Handler
        BY DEF TypeOK
    <2>2. CASE At(o, n, f)
        <3>1. handler'[o] = [handler[o] EXCEPT !.clean = FALSE]
            BY <1>2, <1>6, <2>2
        <3>2. handler'[o] \in Handler
            BY <2>1, <3>1, Built
        <3>4. /\ handler'[o].pc = handler[o].pc /\ handler'[o].action = handler[o].action
              /\ handler'[o].node = handler[o].node /\ handler'[o].file = handler[o].file
              /\ handler'[o].pba = handler[o].pba /\ handler'[o].todo = handler[o].todo
            BY <2>1, <3>1 DEF Handler
        <3>3. ~handler'[o].clean
            BY <2>1, <3>1 DEF Handler
        <3> QED
            BY <2>2, <3>2, <3>3, <3>4
    <2>3. CASE ~At(o, n, f)
        BY <1>2, <1>6, <2>1, <2>3
    <2> QED
        BY <2>2, <2>3
<1>7. handler' \in [Thread -> Handler]
    BY <1>2, <1>5, <1>6
<1>8. /\ crossed' \subseteq Node \X File
      /\ crossed' = IF Alone(t, n, f) THEN crossed ELSE crossed \cup {<<n, f>>}
    BY <1>1, <1>10 DEF TypeOK
<1>9. /\ handler'[t].pc = pc /\ handler'[t].action = a /\ handler'[t].pba = l
      /\ handler'[t].node = n /\ handler'[t].file = f
      /\ handler'[t].clean = alone
    BY <1>4 DEF Call
<1> QED
    BY <1>1, <1>6, <1>7, <1>8, <1>9, <1>10

(* Steps that leave the call of t where it is, or end it. *)
LEMMA PushFacts ==
    ASSUME TypeOK, NEW t \in Thread, StartPush(t)
    PROVE  /\ handler' \in [Thread -> Handler]
           /\ \A o \in Thread \ {t} : handler'[o] = handler[o]
           /\ handler'[t] = [handler[t] EXCEPT !.pc = "push", !.todo = agent, !.live = TRUE]
           /\ handler'[t].pc = "push" /\ handler'[t].todo = agent
           /\ handler'[t].node = handler[t].node /\ handler'[t].file = handler[t].file
           /\ handler'[t].action = handler[t].action /\ handler'[t].clean = handler[t].clean
<1>1. handler[t] \in Handler /\ agent \in Seq(Mgr)
    BY DEF TypeOK
<1>2. handler' = [handler EXCEPT ![t] = [handler[t] EXCEPT !.pc = "push", !.todo = agent, !.live = TRUE]]
    BY DEF StartPush
<1>3. handler'[t] = [handler[t] EXCEPT !.pc = "push", !.todo = agent, !.live = TRUE]
    BY <1>2 DEF TypeOK
<1>4. [handler[t] EXCEPT !.pc = "push", !.todo = agent, !.live = TRUE] \in Handler
    BY <1>1, Built
<1>5. handler' \in [Thread -> Handler]
    BY <1>2, <1>4 DEF TypeOK
<1>6. \A o \in Thread \ {t} : handler'[o] = handler[o]
    BY <1>2 DEF TypeOK
<1> QED
    BY <1>1, <1>3, <1>5, <1>6 DEF Handler

LEMMA ReturnFacts ==
    ASSUME TypeOK, NEW t \in Thread, NEW n \in Node, NEW f \in File, At(t, n, f),
           NEW S, NEW why \in Cause, Return(t, S, why)
    PROVE  /\ handler' \in [Thread -> Handler] /\ missed' \in [Mgr -> [Node -> [File -> Cause]]]
           /\ \A o \in Thread \ {t} : handler'[o] = handler[o]
           /\ handler'[t] = Idle
           /\ \A m \in Mgr :
                /\ \A k \in Node, g \in File : k # n \/ g # f => missed'[m][k][g] = missed[m][k][g]
                /\ missed'[m][n][f] = IF Active(m) /\ (m \in S \/ ~handler[t].clean)
                                      THEN IF handler[t].clean THEN why ELSE "race"
                                      ELSE missed[m][n][f]
<1> DEFINE c == IF handler[t].clean THEN why ELSE "race"
<1>1. c \in Cause
    BY DEF Cause
<1>2. missed' = [m \in Mgr |-> IF Active(m) /\ (m \in S \/ ~handler[t].clean)
                               THEN [missed[m] EXCEPT ![n][f] = c] ELSE missed[m]]
    BY DEF Return, At
<1> HIDE DEF c
<1>3. \A m \in Mgr : missed[m] \in [Node -> [File -> Cause]]
    BY DEF TypeOK
<1>4. ASSUME NEW m \in Mgr
      PROVE  /\ missed'[m] \in [Node -> [File -> Cause]]
             /\ \A k \in Node, g \in File : k # n \/ g # f => missed'[m][k][g] = missed[m][k][g]
             /\ missed'[m][n][f] = IF Active(m) /\ (m \in S \/ ~handler[t].clean)
                                   THEN c ELSE missed[m][n][f]
    <2>1. CASE Active(m) /\ (m \in S \/ ~handler[t].clean)
        <3>1. missed'[m] = [missed[m] EXCEPT ![n][f] = c]
            BY <1>2, <2>1
        <3> QED
            BY <1>1, <1>3, <2>1, <3>1
    <2>2. CASE ~(Active(m) /\ (m \in S \/ ~handler[t].clean))
        BY <1>2, <1>3, <2>2
    <2> QED
        BY <2>1, <2>2
<1>5. missed' \in [Mgr -> [Node -> [File -> Cause]]]
    <2>1. missed' = [m \in Mgr |-> missed'[m]]
        BY <1>2
    <2> QED
        BY <1>4, <2>1
<1>6. /\ handler' \in [Thread -> Handler] /\ handler'[t] = Idle
      /\ \A o \in Thread \ {t} : handler'[o] = handler[o]
    BY Built DEF Return, TypeOK
<1> QED
    BY <1>4, <1>5, <1>6 DEF c

(* A call that has begun is for a file at a node. *)
LEMMA CallIsAt ==
    ASSUME HandlerInv, NEW t \in Thread, handler[t].pc # "idle"
    PROVE  \E n \in Node, f \in File : At(t, n, f)
BY DEF HandlerInv, At

LEMMA IdleFacts ==
    ASSUME HandlerInv, NEW t \in Thread, handler[t].pc = "idle"
    PROVE  /\ handler[t] = Idle /\ handler[t].clean
           /\ \A n \in Node, f \in File : ~At(t, n, f)
<1>1. handler[t] = Idle
    BY DEF HandlerInv
<1>2. Idle.clean = TRUE /\ Idle.node = None
    BY DEF Idle, Call
<1>3. \A n \in Node, f \in File : ~At(t, n, f)
    BY <1>1, <1>2, ConstantsAssumption DEF At
<1> QED
    BY <1>1, <1>2, <1>3

(* A step of the call of t for f at n disturbs no other call and no other   *)
(* entry.                                                                   *)
Local(t, n, f) ==
    /\ \A o \in Thread \ {t} : handler'[o] = handler[o]
    /\ \/ handler'[t] = Idle
       \/ /\ handler'[t].node = n /\ handler'[t].file = f
          /\ handler'[t].action = handler[t].action /\ handler'[t].clean = handler[t].clean
          /\ handler'[t].pc \in {"loop", "push"}
    /\ \A k \in Node, g \in File : k # n \/ g # f =>
         /\ fmDict'[k][g] = fmDict[k][g] /\ rawFM'[k][g] = rawFM[k][g]
         /\ <<k, g>> \in crossed' <=> <<k, g>> \in crossed
         /\ \A m \in Mgr : told'[m][k][g] = told[m][k][g] /\ missed'[m][k][g] = missed[m][k][g]

LEMMA ContinuesLocal ==
    ASSUME TypeOK, HandlerInv, NEW t \in Thread, NEW n \in Node, NEW f \in File,
           At(t, n, f), Continues(t)
    PROVE  TypeOK' /\ Local(t, n, f)
<1> USE DEF Frame, traceVars
<1>0. handler[t].node = n /\ handler[t].file = f /\ handler[t] \in Handler /\ agent \in Seq(Mgr)
    BY DEF At, TypeOK
<1>1. handler[t].pc = "gfid" => handler[t].pba \in Layout
    BY DEF HandlerInv
<1>2. ASSUME NEW S, NEW why \in Cause, Return(t, S, why)
      PROVE  /\ handler' \in [Thread -> Handler] /\ missed' \in [Mgr -> [Node -> [File -> Cause]]]
             /\ \A o \in Thread \ {t} : handler'[o] = handler[o]
             /\ handler'[t] = Idle
             /\ \A m \in Mgr, k \in Node, g \in File :
                  k # n \/ g # f => missed'[m][k][g] = missed[m][k][g]
    BY <1>2, ReturnFacts
<1>3. StartPush(t) =>
        /\ handler' \in [Thread -> Handler]
        /\ \A o \in Thread \ {t} : handler'[o] = handler[o]
        /\ handler'[t].node = n /\ handler'[t].file = f
        /\ handler'[t].action = handler[t].action /\ handler'[t].clean = handler[t].clean
        /\ handler'[t].pc \in {"loop", "push"}
    BY <1>0, PushFacts
<1>4. Settled(handler[t]) =>
        /\ crossed' \subseteq Node \X File
        /\ \A k \in Node, g \in File : k # n \/ g # f => (<<k, g>> \in crossed' <=> <<k, g>> \in crossed)
    BY <1>0 DEF Settled, TypeOK
<1>5. ASSUME NEW v \in Entry \cup {None}, SetRaw(n, f, v)
      PROVE  /\ rawFM' \in Map /\ torn' \in [Mgr -> BOOLEAN]
             /\ \A k \in Node, g \in File : k # n \/ g # f => rawFM'[k][g] = rawFM[k][g]
    <2>1. rawFM' \in Map /\ torn' \in [Mgr -> BOOLEAN]
        BY <1>5, SetRawType
    <2>2. rawFM' = [rawFM EXCEPT ![n][f] = v] /\ rawFM \in Map
        BY <1>5 DEF SetRaw, TypeOK
    <2> QED
        BY <2>1, <2>2, MapWrite
<1>6. ASSUME NEW l \in Layout, fmDict[n][f] # None, fmDict' = [fmDict EXCEPT ![n][f].pba = l]
      PROVE  /\ fmDict' \in Map
             /\ \A k \in Node, g \in File : k # n \/ g # f => fmDict'[k][g] = fmDict[k][g]
    <2>1. fmDict[n][f] \in Entry
        BY <1>6 DEF TypeOK, Map
    <2>2. fmDict' = [fmDict EXCEPT ![n][f] = [fmDict[n][f] EXCEPT !.pba = l]]
        BY <1>6
    <2>3. [fmDict[n][f] EXCEPT !.pba = l] \in Entry
        BY <2>1, Built
    <2>4. PICK e \in Entry \cup {None} : fmDict' = [fmDict EXCEPT ![n][f] = e]
        BY <2>2, <2>3
    <2>5. fmDict \in Map
        BY DEF TypeOK
    <2> QED
        BY <2>4, <2>5 DEF Map
<1>7. "no" \in Cause /\ "push" \in Cause /\ "error" \in Cause
    BY DEF Cause
<1>8. CASE CreateEntered(t)
    <2>1. PICK l \in Layout : l = handler[t].pba
        BY <1>1, <1>8 DEF CreateEntered
    <2>2. /\ rawFM' \in Map /\ torn' \in [Mgr -> BOOLEAN]
          /\ \A k \in Node, g \in File : k # n \/ g # f => rawFM'[k][g] = rawFM[k][g]
        <3>1. [pba |-> l, shards |-> FALSE] \in Entry
            BY Built
        <3>2. SetRaw(n, f, [pba |-> l, shards |-> FALSE])
            BY <1>0, <1>8, <2>1 DEF CreateEntered
        <3> QED
            BY <1>5, <3>1, <3>2
    <2>3. shardDict' \in [File -> SUBSET {"path", "base"}]
        <3>1. PICK g \in File, v \in {"path", "base"} :
                shardDict' = [k \in File |-> (IF k = g THEN shardDict[k] \ {v} ELSE shardDict[k])
                                              \cup (IF k = handler[t].file THEN {"base"} ELSE {})]
            BY <1>8 DEF CreateEntered
        <3>2. \A k \in File : shardDict[k] \in SUBSET {"path", "base"}
            BY DEF TypeOK
        <3> QED
            BY <3>1, <3>2
    <2>4. StartPush(t) /\ Settled(handler[t]) /\ fmDict' = fmDict /\ told' = told /\ missed' = missed
          /\ UNCHANGED <<agent, phase, toRead, cursor, leaving, cut>>
        BY <1>8 DEF CreateEntered
    <2>5. TypeOK'
        BY <1>3, <1>4, <2>2, <2>3, <2>4 DEF TypeOK
    <2>6. Local(t, n, f)
        BY <1>3, <1>4, <2>2, <2>4 DEF Local
    <2> QED
        BY <2>5, <2>6
<1>9. CASE ModifyEntered(t)
    <2>1. PICK l \in Layout : l = handler[t].pba
        BY <1>1, <1>9 DEF ModifyEntered
    <2>2. /\ fmDict' \in Map
          /\ \A k \in Node, g \in File : k # n \/ g # f => fmDict'[k][g] = fmDict[k][g]
        BY <1>0, <1>6, <1>9, <2>1 DEF ModifyEntered
    <2>3. /\ StartPush(t) /\ UNCHANGED <<rawFM, shardDict, torn, told, missed, crossed>>
          /\ UNCHANGED <<agent, phase, toRead, cursor, leaving, cut>>
        BY <1>9 DEF ModifyEntered
    <2>4. TypeOK'
        BY <1>3, <2>2, <2>3 DEF TypeOK
    <2>5. Local(t, n, f)
        BY <1>3, <2>2, <2>3 DEF Local
    <2> QED
        BY <2>4, <2>5
<1>10. CASE ModifyRaises(t)
    <2>1. PICK l \in Layout : l = handler[t].pba
        BY <1>1, <1>10 DEF ModifyRaises
    <2>2. /\ fmDict' \in Map
          /\ \A k \in Node, g \in File : k # n \/ g # f => fmDict'[k][g] = fmDict[k][g]
        BY <1>0, <1>6, <1>10, <2>1 DEF ModifyRaises, TypeOK
    <2>3. /\ Return(t, {}, "no") /\ UNCHANGED <<rawFM, shardDict, torn, told, crossed>>
          /\ UNCHANGED <<agent, phase, toRead, cursor, leaving, cut>>
        BY <1>10 DEF ModifyRaises
    <2>4. TypeOK'
        BY <1>2, <1>7, <2>2, <2>3 DEF TypeOK
    <2>5. Local(t, n, f)
        BY <1>2, <1>7, <2>2, <2>3 DEF Local
    <2> QED
        BY <2>4, <2>5
<1>11. CASE DeleteRaw(t)
    <2>1. SetRaw(n, f, None) /\ Settled(handler[t])
          /\ UNCHANGED <<fmDict, shardDict, told, missed, agent, phase, toRead, cursor, leaving, cut>>
        BY <1>0, <1>11 DEF DeleteRaw
    <2>2. handler' = [handler EXCEPT ![t] = [handler[t] EXCEPT !.pc = "loop"]]
        BY <1>11 DEF DeleteRaw
    <2>3. handler' \in [Thread -> Handler] /\ \A o \in Thread \ {t} : handler'[o] = handler[o]
        BY <1>0, <2>2, Built DEF TypeOK
    <2>4. handler'[t] = [handler[t] EXCEPT !.pc = "loop"]
        BY <2>2 DEF TypeOK
    <2>5. /\ handler'[t].node = n /\ handler'[t].file = f
          /\ handler'[t].action = handler[t].action /\ handler'[t].clean = handler[t].clean
          /\ handler'[t].pc \in {"loop", "push"}
        BY <1>0, <2>4 DEF Handler
    <2>6. TypeOK'
        BY <1>4, <1>5, <2>1, <2>3 DEF TypeOK
    <2>7. Local(t, n, f)
        BY <1>4, <1>5, <2>1, <2>3, <2>5 DEF Local
    <2> QED
        BY <2>6, <2>7
<1>12. CASE DeleteRawRaises(t)
    <2>1. Return(t, {}, "no")
          /\ UNCHANGED <<traceVars, torn, told, crossed, agent, phase, toRead, cursor, leaving, cut>>
        BY <1>12 DEF DeleteRawRaises
    <2>2. TypeOK'
        BY <1>2, <1>7, <2>1 DEF TypeOK
    <2>3. Local(t, n, f)
        BY <1>2, <1>7, <2>1 DEF Local
    <2> QED
        BY <2>2, <2>3
<1>13. CASE DeleteLoop(t)
    <2>1. StartPush(t)
          /\ UNCHANGED <<traceVars, torn, told, missed, crossed, agent, phase, toRead, cursor, leaving, cut>>
        BY <1>13 DEF DeleteLoop
    <2>2. TypeOK'
        BY <1>3, <2>1 DEF TypeOK
    <2>3. Local(t, n, f)
        BY <1>3, <2>1 DEF Local
    <2> QED
        BY <2>2, <2>3
<1>14. CASE DeleteRaises(t)
    <2>1. Return(t, Mgr, "error")
          /\ UNCHANGED <<fmDict, rawFM, torn, told, crossed, agent, phase, toRead, cursor, leaving, cut>>
        BY <1>14 DEF DeleteRaises
    <2>2. shardDict' \in [File -> SUBSET {"path", "base"}]
        BY <1>0, <1>14 DEF DeleteRaises, TypeOK
    <2>3. TypeOK'
        BY <1>2, <1>7, <2>1, <2>2 DEF TypeOK
    <2>4. Local(t, n, f)
        BY <1>2, <1>7, <2>1 DEF Local
    <2> QED
        BY <2>3, <2>4
<1>15. CASE Push(t)
    <2>1. handler[t].todo \in Seq(Mgr) /\ handler[t].todo # <<>> /\ handler[t].pc = "push"
        BY <1>0, <1>15, Built DEF Push
    <2>2. PICK m \in Mgr : m = Head(handler[t].todo)
        BY <2>1, MembersFacts
    <2>3. PICK v \in Entry \cup {None}, c \in Cause :
            /\ told' = [told EXCEPT ![m] = [told[m] EXCEPT ![n][f] = v]]
            /\ missed' = [missed EXCEPT ![m] = [missed[m] EXCEPT ![n][f] = c]]
        <3>1. Pushed(handler[t]) \in Entry \cup {None}
            BY <1>0 DEF Pushed, TypeOK, Map
        <3>2. "race" \in Cause
            BY DEF Cause
        <3> QED
            BY <1>0, <1>7, <1>15, <2>2, <3>1, <3>2 DEF Push
    <2>4. told' \in [Mgr -> Map]
        <3>1. [told[m] EXCEPT ![n][f] = v] \in Map
            BY MapWrite DEF TypeOK
        <3> QED
            BY <2>3, <3>1 DEF TypeOK
    <2>5. missed' \in [Mgr -> [Node -> [File -> Cause]]]
        BY <2>3 DEF TypeOK
    <2>6. \A o \in Mgr, k \in Node, g \in File : k # n \/ g # f =>
            told'[o][k][g] = told[o][k][g] /\ missed'[o][k][g] = missed[o][k][g]
        <3>1. \A o \in Mgr, k \in Node, g \in File : k # n \/ g # f => told'[o][k][g] = told[o][k][g]
            BY <2>3 DEF TypeOK, Map
        <3>2. \A o \in Mgr, k \in Node, g \in File : k # n \/ g # f => missed'[o][k][g] = missed[o][k][g]
            BY <2>3 DEF TypeOK
        <3> QED
            BY <3>1, <3>2
    <2>7. handler' = [handler EXCEPT ![t] = [handler[t] EXCEPT !.todo = Tail(handler[t].todo)]]
        BY <1>15 DEF Push
    <2>8. [handler[t] EXCEPT !.todo = Tail(handler[t].todo)] \in Handler
        BY <1>0, <2>1, MembersFacts, Built
    <2>9. handler' \in [Thread -> Handler] /\ \A o \in Thread \ {t} : handler'[o] = handler[o]
        BY <2>7, <2>8 DEF TypeOK
    <2>10. handler'[t] = [handler[t] EXCEPT !.todo = Tail(handler[t].todo)]
        BY <2>7 DEF TypeOK
    <2>11. /\ handler'[t].node = n /\ handler'[t].file = f
           /\ handler'[t].action = handler[t].action /\ handler'[t].clean = handler[t].clean
           /\ handler'[t].pc \in {"loop", "push"}
        BY <1>0, <2>1, <2>10 DEF Handler
    <2>12. UNCHANGED <<traceVars, torn, crossed, agent, phase, toRead, cursor, leaving, cut>>
        BY <1>15 DEF Push
    <2>13. TypeOK'
        BY <2>4, <2>5, <2>9, <2>12 DEF TypeOK
    <2>14. Local(t, n, f)
        BY <2>6, <2>9, <2>11, <2>12 DEF Local
    <2> QED
        BY <2>13, <2>14
<1>16. CASE PushFails(t) \/ ChangeDone(t)
    <2>1. PICK S : \E why \in Cause : Return(t, S, why)
        BY <1>7, <1>16 DEF PushFails, ChangeDone
    <2>2. UNCHANGED <<traceVars, torn, told, crossed, agent, phase, toRead, cursor, leaving, cut>>
        BY <1>16 DEF PushFails, ChangeDone
    <2>3. TypeOK'
        BY <1>2, <2>1, <2>2 DEF TypeOK
    <2>4. Local(t, n, f)
        BY <1>2, <2>1, <2>2 DEF Local
    <2> QED
        BY <2>3, <2>4
<1> QED
    BY <1>8, <1>9, <1>10, <1>11, <1>12, <1>13, <1>14, <1>15, <1>16 DEF Continues

(* A call for f at n begins on t; of the maps, only fmDict changes. *)
Begun(t, n, f, pc, a, l) ==
    /\ Begin(t, pc, a, n, f, l)
    /\ UNCHANGED <<rawFM, shardDict, torn, told, missed>> /\ Frame
    /\ fmDict' \in Map
    /\ \A k \in Node, g \in File : k # n \/ g # f => fmDict'[k][g] = fmDict[k][g]
    /\ pc = "gfid" => l \in Layout
    /\ \/ pc = "gfid" /\ a = "create" /\ fmDict'[n][f] # None
       \/ pc = "gfid" /\ a = "modify" /\ fmDict' = fmDict
       \/ pc = "unmap" /\ a = "delete" /\ fmDict'[n][f] = None

LEMMA ArrivesFacts ==
    ASSUME TypeOK, NEW t \in Thread, Arrives(t)
    PROVE  \/ UNCHANGED vars
           \/ \E n \in Node, f \in File, pc \in {"gfid", "unmap"},
                 a \in {"create", "modify", "delete"}, l \in Layout \cup {None} :
                Begun(t, n, f, pc, a, l)
<1>1. ASSUME NEW n \in Node, NEW f \in File, NEW l \in Layout, ChangeCreate(t, n, f, l)
      PROVE  Begun(t, n, f, "gfid", "create", l)
    <2>1. PICK e \in Entry : e = [pba |-> l, shards |-> FALSE]
        BY Built
    <2>2. e # None
        BY Built
    <2>3. fmDict' = IF fmDict[n][f] = None THEN [fmDict EXCEPT ![n][f] = e] ELSE fmDict
        BY <1>1, <2>1 DEF ChangeCreate
    <2>4. /\ fmDict' \in Map /\ fmDict'[n][f] # None
          /\ \A k \in Node, g \in File : k # n \/ g # f => fmDict'[k][g] = fmDict[k][g]
        BY <2>2, <2>3 DEF TypeOK, Map
    <2> QED
        BY <1>1, <2>4 DEF ChangeCreate, Begun
<1>2. ASSUME NEW n \in Node, NEW f \in File, NEW l \in Layout, ChangeModify(t, n, f, l)
      PROVE  Begun(t, n, f, "gfid", "modify", l)
    BY <1>2 DEF ChangeModify, Begun, traceVars, TypeOK
<1>3. ASSUME NEW n \in Node, NEW f \in File, ChangeDelete(t, n, f)
      PROVE  Begun(t, n, f, "unmap", "delete", None)
    <2>1. /\ fmDict' \in Map /\ fmDict'[n][f] = None
          /\ \A k \in Node, g \in File : k # n \/ g # f => fmDict'[k][g] = fmDict[k][g]
        BY <1>3 DEF ChangeDelete, TypeOK, Map
    <2> QED
        BY <1>3, <2>1 DEF ChangeDelete, Begun
<1>4. CASE ChangeRejected(t) \/ \E n \in Node, f \in File : DeleteUnknown(t, n, f)
    BY <1>4 DEF ChangeRejected, DeleteUnknown
<1> QED
    BY <1>1, <1>2, <1>3, <1>4 DEF Arrives

(* What the beginning of a call keeps of the types and the calls. *)
LEMMA BegunCalls ==
    ASSUME TypeOK, HandlerInv, CleanInv, NEW t \in Thread, NEW n \in Node, NEW f \in File,
           NEW pc \in {"gfid", "unmap"}, NEW a \in {"create", "modify", "delete"},
           NEW l \in Layout \cup {None}, Begun(t, n, f, pc, a, l)
    PROVE  TypeOK' /\ HandlerInv' /\ CleanInv'
<1>1. Begin(t, pc, a, n, f, l)
    BY DEF Begun
<1>2. TypeOK'
    BY <1>1, BeginFacts DEF Begun, Frame, TypeOK
<1>3. HandlerInv'
    <2> SUFFICES ASSUME NEW o \in Thread
                 PROVE  /\ handler'[o].pc = "idle" => handler'[o] = Idle
                        /\ handler'[o].pc # "idle" => handler'[o].node \in Node /\ handler'[o].file \in File
                        /\ handler'[o].pc = "gfid" => handler'[o].pba \in Layout
                        /\ handler'[o].pc = "unmap" \/ handler'[o].pc = "loop" => handler'[o].action = "delete"
        BY DEF HandlerInv
    <2>1. CASE o = t
        BY <1>1, <2>1, BeginFacts DEF Begun
    <2>2. CASE o # t
        <3>1. handler[o].pc = "idle" => handler'[o] = Idle
            BY <1>1, <2>2, BeginFacts, IdleFacts
        <3>2. /\ handler'[o].pc = handler[o].pc /\ handler'[o].action = handler[o].action
              /\ handler'[o].node = handler[o].node /\ handler'[o].file = handler[o].file
              /\ handler'[o].pba = handler[o].pba
            BY <1>1, <2>2, BeginFacts
        <3> QED
            BY <3>1, <3>2 DEF HandlerInv
    <2> QED
        BY <2>1, <2>2
<1>4. CleanInv'
    <2> SUFFICES ASSUME NEW o \in Thread, NEW k \in Node, NEW g \in File, At(o, k, g)'
                 PROVE  /\ ~handler'[o].clean => <<k, g>> \in crossed'
                        /\ handler'[o].clean => \A p \in Thread : At(p, k, g)' => p = o
        BY DEF CleanInv
    <2>1. crossed \subseteq crossed' /\ (~Alone(t, n, f) => <<n, f>> \in crossed')
        BY <1>1, BeginFacts
    <2>2. \A p \in Thread \ {t} : At(p, k, g)' <=> At(p, k, g)
        BY <1>1, BeginFacts DEF At
    <2>3. At(t, k, g)' <=> k = n /\ g = f
        BY <1>1, BeginFacts DEF At
    <2>4. CASE o = t
        BY <1>1, <2>1, <2>2, <2>3, <2>4, BeginFacts DEF Alone
    <2>5. CASE o # t
        <3>1. handler'[o].clean <=> handler[o].clean /\ ~At(o, n, f)
            BY <1>1, <2>5, BeginFacts
        <3>2. At(o, k, g)
            BY <2>2, <2>5
        <3>3. ~handler'[o].clean => <<k, g>> \in crossed'
            <4>1. At(o, n, f) => k = n /\ g = f /\ ~Alone(t, n, f)
                BY <2>5, <3>2 DEF At, Alone
            <4> QED
                BY <2>1, <3>1, <3>2, <4>1 DEF CleanInv
        <3>4. handler'[o].clean => \A p \in Thread : At(p, k, g)' => p = o
            BY <2>2, <2>3, <3>1, <3>2 DEF CleanInv
        <3> QED
            BY <3>3, <3>4
    <2> QED
        BY <2>4, <2>5
<1> QED
    BY <1>2, <1>3, <1>4

(* A call that goes on keeps them too. *)
LEMMA ContinuedCalls ==
    ASSUME TypeOK, HandlerInv, CleanInv, NEW t \in Thread, NEW n \in Node, NEW f \in File,
           At(t, n, f), Continues(t)
    PROVE  TypeOK' /\ HandlerInv' /\ CleanInv'
<1>1. TypeOK' /\ Local(t, n, f)
    BY ContinuesLocal
<1>2. /\ Idle.pc = "idle" /\ Idle.node = None
      /\ handler'[t] = Idle =>  ~At(t, n, f)'
    BY ConstantsAssumption DEF Idle, Call, At
<1>3. HandlerInv'
    <2>1. handler[t].pc = "unmap" \/ handler'[t].pc # "loop"
        <3>1. CASE StartPush(t)
            BY <3>1, PushFacts
        <3>2. CASE handler' = [handler EXCEPT ![t] = Idle]
            BY <1>2, <3>2 DEF TypeOK
        <3>3. CASE Push(t)
            <4>1. handler[t].pc = "push" /\ handler[t] \in Handler
                BY <3>3 DEF Push, TypeOK
            <4>2. handler'[t] = [handler[t] EXCEPT !.todo = Tail(handler[t].todo)]
                BY <3>3 DEF Push, TypeOK
            <4> QED
                BY <4>1, <4>2 DEF Handler
        <3> QED
            BY <3>1, <3>2, <3>3 DEF Continues, CreateEntered, ModifyEntered, ModifyRaises, DeleteRaw,
               DeleteRawRaises, DeleteLoop, DeleteRaises, PushFails, ChangeDone, Return
    <2>2. handler'[t].pc = "loop" => handler'[t].action = "delete"
        BY <1>1, <1>2, <2>1 DEF Local, HandlerInv
    <2> QED
        BY <1>1, <1>2, <2>2 DEF Local, HandlerInv
<1>4. CleanInv'
    <2> SUFFICES ASSUME NEW o \in Thread, NEW k \in Node, NEW g \in File, At(o, k, g)'
                 PROVE  /\ ~handler'[o].clean => <<k, g>> \in crossed'
                        /\ handler'[o].clean => \A p \in Thread : At(p, k, g)' => p = o
        BY DEF CleanInv
    <2>1. \A p \in Thread, i \in Node, j \in File : At(p, i, j)' => At(p, i, j)
        BY <1>1, <1>2, ConstantsAssumption DEF Local, At
    <2>2. At(o, k, g) /\ (handler'[o].clean <=> handler[o].clean)
        BY <1>1, <1>2, <2>1, ConstantsAssumption DEF Local, At
    <2>3. handler'[o].clean => \A p \in Thread : At(p, k, g)' => p = o
        BY <2>1, <2>2 DEF CleanInv
    <2>4. ASSUME ~handler'[o].clean PROVE <<k, g>> \in crossed'
        <3>1. <<k, g>> \in crossed
            BY <2>2, <2>4 DEF CleanInv
        <3>2. CASE k # n \/ g # f
            BY <1>1, <3>1, <3>2 DEF Local
        <3>3. CASE k = n /\ g = f
            <4>1. ~handler[t].clean
                BY <2>2, <2>4, <3>3 DEF CleanInv
            <4>2. crossed' = crossed
                BY <4>1 DEF Continues, CreateEntered, ModifyEntered, ModifyRaises, DeleteRaw,
                   DeleteRawRaises, DeleteLoop, DeleteRaises, Push, PushFails, ChangeDone, Settled
            <4> QED
                BY <3>1, <4>2
        <3> QED
            BY <3>2, <3>3
    <2> QED
        BY <2>3, <2>4
<1> QED
    BY <1>1, <1>3, <1>4

(* The maps as a clean call left them: nobody else writes its entries. *)
LEMMA BegunMaps ==
    ASSUME TypeOK, HandlerInv, CleanInv, CallInv, MapsAgree,
           NEW t \in Thread, NEW n \in Node, NEW f \in File,
           NEW pc \in {"gfid", "unmap"}, NEW a \in {"create", "modify", "delete"},
           NEW l \in Layout \cup {None}, Begun(t, n, f, pc, a, l)
    PROVE  CallInv' /\ MapsAgree'
<1>1. Begin(t, pc, a, n, f, l)
    BY DEF Begun
<1>2. /\ handler'[t].pc = pc /\ handler'[t].action = a
      /\ \A k \in Node, g \in File : At(t, k, g)' <=> k = n /\ g = f
    BY <1>1, BeginFacts DEF At
<1>3. \A o \in Thread \ {t} :
        /\ handler'[o].pc = handler[o].pc /\ handler'[o].action = handler[o].action
        /\ handler'[o].clean <=> handler[o].clean /\ ~At(o, n, f)
        /\ \A k \in Node, g \in File : At(o, k, g)' <=> At(o, k, g)
    BY <1>1, BeginFacts DEF At
<1>4. rawFM' = rawFM
    BY DEF Begun
<1>5. \A k \in Node, g \in File : k # n \/ g # f => fmDict'[k][g] = fmDict[k][g]
    BY DEF Begun
<1>6. CallInv'
    <2> SUFFICES ASSUME NEW o \in Thread, NEW k \in Node, NEW g \in File, At(o, k, g)', handler'[o].clean
                 PROVE  /\ handler'[o].pc = "gfid" /\ handler'[o].action = "create" => fmDict'[k][g] # None
                        /\ handler'[o].pc = "unmap" => fmDict'[k][g] = None
                        /\ handler'[o].action = "delete" /\ handler'[o].pc # "unmap" => rawFM'[k][g] = None
        BY DEF CallInv
    <2>1. CASE o = t
        BY <1>2, <2>1 DEF Begun
    <2>2. CASE o # t
        <3>1. At(o, k, g) /\ handler[o].clean /\ ~At(o, n, f)
            BY <1>3, <2>2
        <3>2. k # n \/ g # f
            BY <3>1
        <3> QED
            BY <1>3, <1>4, <1>5, <2>2, <3>1, <3>2 DEF CallInv
    <2> QED
        BY <2>1, <2>2
<1>7. MapsAgree'
    <2> SUFFICES ASSUME NEW k \in Node, NEW g \in File, <<k, g>> \notin crossed',
                        ~\E o \in Thread : At(o, k, g)' /\ Midway(handler'[o])
                 PROVE  fmDict'[k][g] = None <=> rawFM'[k][g] = None
        BY DEF MapsAgree
    <2>1. <<k, g>> \notin crossed /\ (k = n /\ g = f => Alone(t, n, f))
        BY <1>1, BeginFacts
    <2>2. ~At(t, k, g)
        BY <1>1, IdleFacts, BeginFacts
    <2>3. \A o \in Thread \ {t} : Midway(handler'[o]) <=> Midway(handler[o])
        BY <1>3 DEF Midway
    <2>4. fmDict[k][g] = None <=> rawFM[k][g] = None
        BY <1>3, <2>1, <2>2, <2>3 DEF MapsAgree
    <2>5. fmDict'[k][g] = fmDict[k][g]
        <3>1. CASE k = n /\ g = f
            <4>1. ~Midway(handler'[t])
                BY <1>2, <3>1
            <4> QED
                BY <1>2, <4>1 DEF Begun, Midway
        <3> QED
            BY <1>5, <3>1
    <2> QED
        BY <1>4, <2>4, <2>5
<1> QED
    BY <1>6, <1>7

LEMMA ContinuedMaps ==
    ASSUME TypeOK, HandlerInv, CleanInv, CallInv, MapsAgree,
           NEW t \in Thread, NEW n \in Node, NEW f \in File, At(t, n, f), Continues(t)
    PROVE  CallInv' /\ MapsAgree'
<1> USE DEF Frame, traceVars
<1>1. Local(t, n, f)
    BY ContinuesLocal
<1>2. handler[t].node = n /\ handler[t].file = f /\ handler[t] \in Handler
    BY DEF At, TypeOK
<1>3. \A o \in Thread, k \in Node, g \in File :
        At(o, k, g)' => /\ At(o, k, g) /\ (handler'[o].clean <=> handler[o].clean)
                        /\ o # t => handler'[o] = handler[o]
                        /\ o = t => /\ handler'[o].action = handler[o].action
                                    /\ handler'[o].pc \in {"loop", "push"} /\ k = n /\ g = f
    BY <1>1, ConstantsAssumption DEF Local, At, Idle, Call
<1>4. /\ fmDict'[n][f] = None <=> fmDict[n][f] = None
      /\ rawFM'[n][f] = rawFM[n][f] \/ CreateEntered(t) \/ DeleteRaw(t)
    <2>1. CASE ModifyEntered(t) \/ ModifyRaises(t)
        <3>1. PICK l \in Layout : l = handler[t].pba
            BY <2>1 DEF ModifyEntered, ModifyRaises, HandlerInv
        <3>2. CASE fmDict[n][f] # None /\ fmDict' = [fmDict EXCEPT ![n][f].pba = l]
            <4>1. fmDict[n][f] \in Entry
                BY <3>2 DEF TypeOK, Map
            <4>2. PICK e \in Entry : e = [fmDict[n][f] EXCEPT !.pba = l]
                BY <4>1, Built
            <4>3. fmDict'[n][f] = e
                BY <3>2, <4>2 DEF TypeOK, Map
            <4> QED
                BY <2>1, <3>2, <4>3, Built DEF ModifyEntered, ModifyRaises
        <3> QED
            BY <1>2, <2>1, <3>1, <3>2 DEF ModifyEntered, ModifyRaises
    <2>2. CASE CreateEntered(t) \/ DeleteRaw(t)
        BY <2>2 DEF CreateEntered, DeleteRaw
    <2> QED
        BY <2>1, <2>2 DEF Continues, DeleteRawRaises, DeleteLoop, DeleteRaises, Push, PushFails,
                          ChangeDone
<1>5. CreateEntered(t) => rawFM'[n][f] # None /\ handler[t].action = "create"
    <2> SUFFICES ASSUME CreateEntered(t) PROVE rawFM'[n][f] # None
        BY DEF CreateEntered
    <2>1. PICK l \in Layout : l = handler[t].pba
        BY DEF CreateEntered, HandlerInv
    <2>2. PICK e \in Entry : e = [pba |-> l, shards |-> FALSE]
        BY Built
    <2>3. rawFM' = [rawFM EXCEPT ![n][f] = e]
        BY <1>2, <2>1, <2>2 DEF CreateEntered, SetRaw
    <2> QED
        BY <2>3, Built DEF TypeOK, Map
<1>6. DeleteRaw(t) => rawFM'[n][f] = None /\ handler[t].pc = "unmap"
    BY <1>2 DEF DeleteRaw, SetRaw, TypeOK, Map
<1>7. CallInv'
    <2> SUFFICES ASSUME NEW o \in Thread, NEW k \in Node, NEW g \in File, At(o, k, g)', handler'[o].clean
                 PROVE  /\ handler'[o].pc = "gfid" /\ handler'[o].action = "create" => fmDict'[k][g] # None
                        /\ handler'[o].pc = "unmap" => fmDict'[k][g] = None
                        /\ handler'[o].action = "delete" /\ handler'[o].pc # "unmap" => rawFM'[k][g] = None
        BY DEF CallInv
    <2>1. At(o, k, g) /\ handler[o].clean
        BY <1>3
    <2>2. CASE o = t
        <3>1. handler'[o].action = handler[o].action /\ handler'[o].pc \in {"loop", "push"} /\ k = n /\ g = f
            BY <1>3, <2>2
        <3>2. CASE handler[t].pc = "unmap"
            <4>1. DeleteRaw(t) \/ rawFM[n][f] = None
                BY <1>2, <3>2 DEF Continues, CreateEntered, ModifyEntered, ModifyRaises, DeleteRawRaises,
                            DeleteLoop, DeleteRaises, Push, PushFails, ChangeDone
            <4>2. ~CreateEntered(t)
                BY <3>2 DEF CreateEntered
            <4> QED
                BY <1>4, <1>6, <3>1, <4>1, <4>2
        <3>3. CASE handler[t].pc # "unmap"
            <4>1. handler[t].action = "delete" => rawFM[n][f] = None
                BY <2>1, <2>2, <3>1, <3>3 DEF CallInv
            <4>2. handler[t].action = "delete" => ~CreateEntered(t) /\ ~DeleteRaw(t)
                BY <1>5, <1>6, <3>3
            <4> QED
                BY <1>4, <2>2, <3>1, <4>1, <4>2
        <3> QED
            BY <3>2, <3>3
    <2>3. CASE o # t
        <3>1. k # n \/ g # f
            BY <2>1, <2>3 DEF CleanInv
        <3>2. fmDict'[k][g] = fmDict[k][g] /\ rawFM'[k][g] = rawFM[k][g] /\ handler'[o] = handler[o]
            BY <1>1, <1>3, <2>3, <3>1 DEF Local
        <3> QED
            BY <2>1, <3>2 DEF CallInv
    <2> QED
        BY <2>2, <2>3
<1>8. MapsAgree'
    <2> SUFFICES ASSUME NEW k \in Node, NEW g \in File, <<k, g>> \notin crossed',
                        ~\E o \in Thread : At(o, k, g)' /\ Midway(handler'[o])
                 PROVE  fmDict'[k][g] = None <=> rawFM'[k][g] = None
        BY DEF MapsAgree
    <2>1. CASE k # n \/ g # f
        <3>1. /\ fmDict'[k][g] = fmDict[k][g] /\ rawFM'[k][g] = rawFM[k][g]
              /\ <<k, g>> \notin crossed
            BY <1>1, <2>1 DEF Local
        <3>2. ~At(t, k, g) /\ \A o \in Thread \ {t} : handler'[o] = handler[o]
            BY <1>1, <1>2, <2>1 DEF Local, At
        <3>3. ~\E o \in Thread : At(o, k, g) /\ Midway(handler[o])
            BY <3>2 DEF At
        <3> QED
            BY <3>1, <3>3 DEF MapsAgree
    <2>2. CASE k = n /\ g = f
        <3>1. CASE (CreateEntered(t) \/ DeleteRaw(t)) /\ handler[t].clean
            BY <1>4, <1>5, <1>6, <2>2, <3>1 DEF CallInv, CreateEntered
        <3>2. CASE ~handler[t].clean
            <4>1. crossed' = crossed
                BY <3>2 DEF Continues, CreateEntered, ModifyEntered, ModifyRaises, DeleteRaw,
                   DeleteRawRaises, DeleteLoop, DeleteRaises, Push, PushFails, ChangeDone, Settled
            <4> QED
                BY <2>2, <3>2, <4>1 DEF CleanInv
        <3>3. CASE handler[t].clean /\ ~CreateEntered(t) /\ ~DeleteRaw(t)
            <4>1. crossed' = crossed
                BY <3>3 DEF Continues, CreateEntered, ModifyEntered, ModifyRaises, DeleteRaw,
                   DeleteRawRaises, DeleteLoop, DeleteRaises, Push, PushFails, ChangeDone
            <4>2. \A o \in Thread : At(o, n, f) => o = t
                BY <3>3 DEF CleanInv
            <4>3. CASE DeleteRawRaises(t)
                <5>1. rawFM[n][f] = None /\ handler[t].pc = "unmap"
                    BY <1>2, <4>3 DEF DeleteRawRaises
                <5> QED
                    BY <1>4, <2>2, <3>3, <5>1 DEF CallInv
            <4>4. CASE ~DeleteRawRaises(t)
                <5>1. ~Midway(handler[t])
                    BY <3>3, <4>4 DEF Continues, ModifyEntered, ModifyRaises, DeleteLoop, DeleteRaises,
                                      Push, PushFails, ChangeDone, Midway
                <5> QED
                    BY <1>4, <2>2, <3>3, <4>1, <4>2, <5>1 DEF MapsAgree
            <4> QED
                BY <4>3, <4>4
        <3> QED
            BY <3>1, <3>2, <3>3
    <2> QED
        BY <2>1, <2>2
<1> QED
    BY <1>7, <1>8

(* A call that begins tells nobody and hides nothing. *)
LEMMA BegunTell ==
    ASSUME TypeOK, HandlerInv, TellInv, NEW t \in Thread, NEW n \in Node, NEW f \in File,
           NEW pc \in {"gfid", "unmap"}, NEW a \in {"create", "modify", "delete"},
           NEW l \in Layout \cup {None}, Begun(t, n, f, pc, a, l)
    PROVE  TellInv'
<1> SUFFICES ASSUME NEW m \in Mgr, NEW k \in Node, NEW g \in File,
                    Active(m)', ~cut'[m], k \notin toRead'[m]
             PROVE  Told(m, k, g)' \/ OnItsWay(m, k, g)'
    BY DEF TellInv
<1>1. Told(m, k, g) \/ OnItsWay(m, k, g)
    BY DEF Begun, Frame, TellInv, Active
<1>2. Told(m, k, g) => Told(m, k, g)'
    BY DEF Begun, Told
<1>3. ASSUME OnItsWay(m, k, g) PROVE OnItsWay(m, k, g)'
    <2>1. PICK o \in Thread :
            /\ At(o, k, g)
            /\ \/ ~handler[o].clean
               \/ handler[o].pc = "loop"
               \/ handler[o].pc = "push" /\ m \in Members(handler[o].todo)
        BY <1>3 DEF OnItsWay
    <2>2. Begin(t, pc, a, n, f, l)
        BY DEF Begun
    <2>3. o # t
        BY <2>1, <2>2, IdleFacts, BeginFacts
    <2>4. /\ handler'[o].pc = handler[o].pc /\ handler'[o].todo = handler[o].todo
          /\ ~handler[o].clean => ~handler'[o].clean
          /\ At(o, k, g)'
        BY <2>1, <2>2, <2>3, BeginFacts DEF At
    <2> QED
        BY <2>1, <2>4 DEF OnItsWay, Members
<1> QED
    BY <1>1, <1>2, <1>3

(* A write to the map puts every manager in the list on the push list; a    *)
(* push tells one of them; a call that ends early marks those it leaves     *)
(* out, and one that met another marks all.                                 *)
LEMMA ContinuedTell ==
    ASSUME TypeOK, HandlerInv, CleanInv, CallInv, ListInv, TellInv,
           NEW t \in Thread, NEW n \in Node, NEW f \in File, At(t, n, f), Continues(t)
    PROVE  TellInv'
<1> USE DEF Frame, traceVars
<1>0. UNCHANGED <<agent, phase, toRead, cut>>
    BY DEF Continues, CreateEntered, ModifyEntered, ModifyRaises, DeleteRaw, DeleteRawRaises,
           DeleteLoop, DeleteRaises, Push, PushFails, ChangeDone
<1> SUFFICES ASSUME NEW m \in Mgr, NEW k \in Node, NEW g \in File,
                    Active(m), ~cut[m], k \notin toRead[m]
             PROVE  Told(m, k, g)' \/ OnItsWay(m, k, g)'
    BY <1>0 DEF TellInv, Active
<1>1. Local(t, n, f)
    BY ContinuesLocal
<1>2. Told(m, k, g) \/ OnItsWay(m, k, g)
    BY DEF TellInv
<1>3. /\ handler[t].node = n /\ handler[t].file = f /\ handler[t] \in Handler
      /\ handler[t].todo \in Seq(Mgr) /\ m \in Members(agent)
    BY Built DEF At, TypeOK, ListInv
<1>4. \A o \in Thread \ {t} : At(o, k, g) /\ ~handler[o].clean => OnItsWay(m, k, g)'
    BY <1>1 DEF Local, At, OnItsWay
<1>5. CASE k # n \/ g # f
    <2>1. Told(m, k, g) => Told(m, k, g)'
        BY <1>1, <1>5 DEF Local, Told
    <2>2. OnItsWay(m, k, g) => OnItsWay(m, k, g)'
        <3>1. ~At(t, k, g) /\ \A o \in Thread \ {t} : handler'[o] = handler[o]
            BY <1>1, <1>3, <1>5 DEF Local, At
        <3> QED
            BY <3>1 DEF OnItsWay, At, Members
    <2> QED
        BY <1>2, <2>1, <2>2
<1>6. CASE k = n /\ g = f /\ \E o \in Thread \ {t} : At(o, n, f)
    <2>1. PICK o \in Thread \ {t} : At(o, n, f)
        BY <1>6
    <2>2. ~handler[o].clean
        BY <2>1 DEF CleanInv
    <2> QED
        BY <1>4, <1>6, <2>1, <2>2
<1>7. CASE k = n /\ g = f /\ Alone(t, n, f)
    <2> USE <1>7
    <2>1. ASSUME NEW S, NEW why, Return(t, S, why), why \in Cause,
                 m \in S => why # "no", told' = told, rawFM' = rawFM,
                 handler[t].pc # "loop" \/ m \in S,
                 handler[t].pc = "push" => (m \in Members(handler[t].todo) => m \in S)
          PROVE  Told(m, n, f)'
        <3>1. missed'[m][n][f] = IF m \in S \/ ~handler[t].clean
                                 THEN IF handler[t].clean THEN why ELSE "race"
                                 ELSE missed[m][n][f]
            BY <2>1, ReturnFacts
        <3>2. CASE m \in S \/ ~handler[t].clean
            BY <2>1, <3>1, <3>2 DEF Told
        <3>3. CASE m \notin S /\ handler[t].clean
            <4>1. ~OnItsWay(m, n, f)
                BY <2>1, <3>3 DEF OnItsWay, Alone
            <4> QED
                BY <1>2, <2>1, <3>1, <3>3, <4>1 DEF Told
        <3> QED
            BY <3>2, <3>3
    <2>2. ASSUME StartPush(t) PROVE OnItsWay(m, n, f)'
        <3>1. At(t, n, f)' /\ handler'[t].pc = "push"
            BY <1>3, <2>2, PushFacts DEF At
        <3>2. m \in Members(handler'[t].todo)
            BY <1>3, <2>2, PushFacts
        <3> QED
            BY <3>1, <3>2 DEF OnItsWay, Members
    <2>3. CASE CreateEntered(t) \/ ModifyEntered(t) \/ DeleteLoop(t)
        BY <2>2, <2>3 DEF CreateEntered, ModifyEntered, DeleteLoop
    <2>4. CASE ModifyRaises(t) \/ DeleteRawRaises(t) \/ ChangeDone(t)
        <3>1. /\ Return(t, {}, "no") /\ told' = told /\ rawFM' = rawFM /\ handler[t].pc # "loop"
              /\ handler[t].pc = "push" => handler[t].todo = <<>>
            BY <2>4 DEF ModifyRaises, DeleteRawRaises, ChangeDone
        <3>2. handler[t].pc = "push" => m \notin Members(handler[t].todo)
            BY <1>3, <3>1, MembersFacts
        <3>3. "no" \in Cause
            BY DEF Cause
        <3> QED
            BY <2>1, <3>1, <3>2, <3>3
    <2>5. CASE DeleteRaw(t)
        <3>1. handler'[t] = [handler[t] EXCEPT !.pc = "loop"]
            BY <2>5 DEF DeleteRaw, TypeOK
        <3>2. handler'[t].pc = "loop" /\ At(t, n, f)'
            BY <1>3, <3>1 DEF Handler, At
        <3> QED
            BY <3>2 DEF OnItsWay
    <2>6. CASE DeleteRaises(t)
        <3>1. Return(t, Mgr, "error") /\ told' = told /\ rawFM' = rawFM /\ handler[t].pc = "loop"
            BY <2>6 DEF DeleteRaises
        <3>2. "error" \in Cause
            BY DEF Cause
        <3> QED
            BY <2>1, <3>1, <3>2
    <2>7. CASE PushFails(t)
        <3>1. /\ Return(t, Members(handler[t].todo), "push") /\ told' = told /\ rawFM' = rawFM
              /\ handler[t].pc = "push"
            BY <2>7 DEF PushFails
        <3>2. "push" \in Cause
            BY DEF Cause
        <3> QED
            BY <2>1, <3>1, <3>2
    <2>8. CASE Push(t)
        <3>1. handler[t].todo # <<>> /\ handler[t].pc = "push" /\ rawFM' = rawFM
            BY <2>8 DEF Push
        <3>2. PICK o \in Mgr : o = Head(handler[t].todo)
            BY <1>3, <3>1, MembersFacts
        <3>3. handler'[t] = [handler[t] EXCEPT !.todo = Tail(handler[t].todo)]
            BY <2>8 DEF Push, TypeOK
        <3>4. /\ handler'[t].todo = Tail(handler[t].todo) /\ handler'[t].pc = "push"
              /\ handler'[t].clean = handler[t].clean /\ At(t, n, f)'
            BY <1>3, <3>1, <3>3 DEF Handler, At
        <3>5. /\ told' = [told EXCEPT ![o][n][f] = Pushed(handler[t])]
              /\ missed' = [missed EXCEPT ![o][n][f] = IF handler[t].clean THEN "no" ELSE "race"]
            BY <1>3, <2>8, <3>2 DEF Push
        <3>6. CASE m = o
            <4>1. told'[m][n][f] = Pushed(handler[t])
                BY <3>5, <3>6 DEF TypeOK, Map
            <4>2. missed'[m][n][f] = IF handler[t].clean THEN "no" ELSE "race"
                BY <3>5, <3>6 DEF TypeOK
            <4>3. handler[t].clean => Pushed(handler[t]) = rawFM[n][f]
                BY <1>3, <3>1 DEF Pushed, CallInv
            <4> QED
                BY <3>1, <4>1, <4>2, <4>3 DEF Told
        <3>7. CASE m # o
            <4>1. told'[m][n][f] = told[m][n][f] /\ missed'[m][n][f] = missed[m][n][f]
                BY <3>5, <3>7 DEF TypeOK, Map
            <4>2. Told(m, n, f) => Told(m, n, f)'
                BY <3>1, <4>1 DEF Told
            <4>3. OnItsWay(m, n, f) => ~handler[t].clean \/ m \in Members(handler[t].todo)
                BY <3>1 DEF OnItsWay, Alone
            <4>4. m \in Members(handler[t].todo) => m \in Members(handler'[t].todo)
                BY <1>3, <3>1, <3>2, <3>4, <3>7, MembersFacts
            <4>5. OnItsWay(m, n, f) => OnItsWay(m, n, f)'
                BY <3>4, <4>3, <4>4 DEF OnItsWay, Members
            <4> QED
                BY <1>2, <4>2, <4>5
        <3> QED
            BY <3>6, <3>7
    <2> QED
        BY <2>3, <2>4, <2>5, <2>6, <2>7, <2>8 DEF Continues
<1> QED
    BY <1>5, <1>6, <1>7 DEF Alone

(* All parts of the invariant that a step of a TChangeFile call can disturb. *)
LEMMA ThreadInv ==
    ASSUME IInv, NEW t \in Thread, Arrives(t) \/ Continues(t)
    PROVE  IInv'
<1> USE DEF IInv
<1>1. ASSUME UNCHANGED <<agent, phase, toRead, cut>>
      PROVE  ListInv' /\ ReadInv'
    BY <1>1 DEF ListInv, ReadInv, Active, Members
<1>2. CASE UNCHANGED vars
    <2> USE <1>2 DEF vars
    <2>1. TypeOK' /\ HandlerInv' /\ CleanInv' /\ CallInv'
        BY DEF TypeOK, HandlerInv, CleanInv, CallInv, At
    <2>2. MapsAgree' /\ ListInv' /\ ReadInv'
        BY <1>1 DEF MapsAgree, Midway, At
    <2>3. TellInv'
        BY DEF TellInv, Told, OnItsWay, At, Active, Members
    <2> QED
        BY <2>1, <2>2, <2>3
<1>3. CASE Arrives(t) /\ ~UNCHANGED vars
    <2>1. PICK n \in Node, f \in File, pc \in {"gfid", "unmap"},
               a \in {"create", "modify", "delete"}, l \in Layout \cup {None} :
            Begun(t, n, f, pc, a, l)
        BY <1>3, ArrivesFacts
    <2>2. TypeOK' /\ HandlerInv' /\ CleanInv' /\ CallInv' /\ MapsAgree' /\ TellInv'
        BY <2>1, BegunCalls, BegunMaps, BegunTell
    <2>3. ListInv' /\ ReadInv'
        BY <1>1, <2>1 DEF Begun, Frame
    <2> QED
        BY <2>2, <2>3
<1>4. CASE Continues(t)
    <2>1. handler[t].pc # "idle" /\ UNCHANGED <<agent, phase, toRead, cut>>
        BY <1>4 DEF Continues, CreateEntered, ModifyEntered, ModifyRaises, DeleteRaw, DeleteRawRaises,
           DeleteLoop, DeleteRaises, Push, PushFails, ChangeDone, Frame
    <2>2. PICK n \in Node, f \in File : At(t, n, f)
        BY <2>1, CallIsAt
    <2>3. TypeOK' /\ HandlerInv' /\ CleanInv' /\ CallInv' /\ MapsAgree' /\ TellInv'
        BY <1>4, <2>2, ContinuedCalls, ContinuedMaps, ContinuedTell
    <2> QED
        BY <1>1, <2>1, <2>3
<1> QED
    BY <1>2, <1>3, <1>4

-----------------------------------------------------------------------------
(* The steps of a manager.                                                  *)

(* A manager only lengthens the push loops under way. *)
LEMMA MgrFrame ==
    ASSUME TypeOK, NEW m \in Mgr, MgrNext(m)
    PROVE  /\ fmDict' = fmDict /\ rawFM' = rawFM /\ crossed' = crossed
           /\ \A t \in Thread :
                /\ handler'[t].pc = handler[t].pc
                /\ handler'[t].action = handler[t].action
                /\ handler'[t].node = handler[t].node /\ handler'[t].file = handler[t].file
                /\ handler'[t].clean = handler[t].clean
                /\ handler'[t].pba = handler[t].pba
                /\ Members(handler[t].todo) \subseteq Members(handler'[t].todo)
                /\ handler[t] = Idle => handler'[t] = Idle
<1>1. fmDict' = fmDict /\ rawFM' = rawFM /\ crossed' = crossed
    BY DEF MgrNext, CallFrame, traceVars, TRegister, ReadBegin, ReadEnd, Serve,
           DeregisterBegin, DeregisterEnd, DeregisterRaises, Kill
<1> SUFFICES ASSUME NEW t \in Thread
             PROVE  /\ handler'[t].pc = handler[t].pc
                    /\ handler'[t].action = handler[t].action
                    /\ handler'[t].file = handler[t].file
                    /\ handler'[t].node = handler[t].node /\ handler'[t].clean = handler[t].clean
                    /\ handler'[t].pba = handler[t].pba
                    /\ Members(handler[t].todo) \subseteq Members(handler'[t].todo)
                    /\ handler[t] = Idle => handler'[t] = Idle
    BY <1>1
<1>2. handler[t] \in Handler /\ handler[t].todo \in Seq(Mgr) /\ Idle.live = FALSE
    BY Built DEF TypeOK, Idle, Call
<1>3. CASE TRegister(m)
    <2>1. CASE handler[t].live
        <3>1. handler'[t] = [handler[t] EXCEPT !.todo = Append(handler[t].todo, m)]
            BY <1>3, <2>1 DEF TRegister
        <3>2. handler'[t].todo = Append(handler[t].todo, m)
            BY <3>1, <1>2 DEF Handler
        <3>3. handler[t] # Idle
            BY <2>1, <1>2
        <3> QED
            BY <3>1, <3>2, <3>3, <1>2, MembersFacts DEF Handler
    <2>2. CASE ~handler[t].live
        BY <1>3, <2>2 DEF TRegister
    <2> QED
        BY <2>1, <2>2
<1>4. CASE DeregisterEnd(m)
    <2>1. CASE handler[t].live
        <3>1. handler'[t] = [handler[t] EXCEPT !.live = FALSE]
            BY <1>4, <2>1 DEF DeregisterEnd
        <3> QED
            BY <3>1, <2>1, <1>2 DEF Handler
    <2>2. CASE ~handler[t].live
        BY <1>4, <2>2 DEF DeregisterEnd
    <2> QED
        BY <2>1, <2>2
<1>5. CASE ~TRegister(m) /\ ~DeregisterEnd(m)
    <2>1. handler' = handler
        BY <1>5 DEF MgrNext, ReadBegin, ReadEnd, Serve, DeregisterBegin, DeregisterRaises, Kill
    <2> QED
        BY <2>1
<1> QED
    BY <1>3, <1>4, <1>5

(* The steps of a manager keep the types. *)
LEMMA TypeMgr ==
    ASSUME TypeOK, NEW m \in Mgr, MgrNext(m)
    PROVE  TypeOK'
<1> USE DEF CallFrame, traceVars
<1>1. Gone(m) => /\ phase' \in [Mgr -> {"off", "starting", "up", "leaving"}]
                 /\ toRead' \in [Mgr -> SUBSET Node]
                 /\ cursor' \in [Mgr -> Node \cup {None}]
                 /\ torn' \in [Mgr -> BOOLEAN]
                 /\ told' \in [Mgr -> Map]
                 /\ missed' \in [Mgr -> [Node -> [File -> Cause]]]
    <2>1. [n \in Node |-> [f \in File |-> None]] \in Map
        BY DEF Map
    <2>2. [n \in Node |-> [f \in File |-> "no"]] \in [Node -> [File -> Cause]]
        BY DEF Cause
    <2> QED
        BY <2>1, <2>2 DEF Gone, TypeOK
<1>2. CASE TRegister(m)
    <2>1. agent' \in Seq(Mgr)
        BY <1>2, MembersFacts DEF TRegister, TypeOK
    <2>2. handler' \in [Thread -> Handler]
        <3>1. ASSUME NEW t \in Thread PROVE [handler[t] EXCEPT !.todo = Append(@, m)] \in Handler
            <4>1. handler[t] \in Handler /\ handler[t].todo \in Seq(Mgr)
                BY Built DEF TypeOK
            <4>2. Append(handler[t].todo, m) \in Seq(Mgr)
                BY <4>1, MembersFacts
            <4>3. [handler[t] EXCEPT !.todo = Append(@, m)]
                    = [handler[t] EXCEPT !.todo = Append(handler[t].todo, m)]
                OBVIOUS
            <4> QED
                BY <4>1, <4>2, <4>3, Built
        <3> QED
            BY <1>2, <3>1 DEF TRegister, TypeOK
    <2> QED
        BY <1>2, <2>1, <2>2 DEF TRegister, TypeOK
<1>3. ASSUME NEW n \in Node, ReadBegin(m, n)
      PROVE  TypeOK'
    <2>1. told' \in [Mgr -> Map]
        <3>1. [told[m] EXCEPT ![n] = rawFM[n]] \in Map
            BY DEF TypeOK, Map
        <3>2. told' = [told EXCEPT ![m] = [told[m] EXCEPT ![n] = rawFM[n]]]
            BY <1>3 DEF ReadBegin
        <3> QED
            BY <3>1, <3>2 DEF TypeOK
    <2>2. missed' \in [Mgr -> [Node -> [File -> Cause]]]
        BY <1>3 DEF ReadBegin, TypeOK, Cause
    <2>3. toRead' \in [Mgr -> SUBSET Node] /\ cursor' \in [Mgr -> Node \cup {None}]
        BY <1>3 DEF ReadBegin, TypeOK
    <2> QED
        BY <1>3, <2>1, <2>2, <2>3 DEF ReadBegin, TypeOK
<1>4. CASE ReadEnd(m)
    <2>1. PICK n \in Node : n = cursor[m]
        BY <1>4 DEF ReadEnd, TypeOK
    <2>2. told' \in [Mgr -> Map]
        <3>1. PICK late \in SUBSET File :
                told' = [told EXCEPT ![m] = [told[m] EXCEPT ![n] =
                  [f \in File |-> IF f \in late THEN rawFM[n][f] ELSE told[m][n][f]]]]
            BY <1>4, <2>1 DEF ReadEnd
        <3>2. [told[m] EXCEPT ![n] =
                  [f \in File |-> IF f \in late THEN rawFM[n][f] ELSE told[m][n][f]]] \in Map
            BY DEF TypeOK, Map
        <3> QED
            BY <3>1, <3>2 DEF TypeOK
    <2> QED
        BY <1>4, <2>2 DEF ReadEnd, TypeOK
<1>5. CASE Serve(m)
    BY <1>5 DEF Serve, TypeOK
<1>6. CASE DeregisterBegin(m)
    <2>1. PICK s \in Orders(Members(agent) \ {m}) : leaving' = [leaving EXCEPT ![m] = s]
        BY <1>6 DEF DeregisterBegin
    <2>2. Members(agent) \ {m} \in SUBSET Mgr
        BY MembersFacts DEF TypeOK
    <2>3. s \in Seq(Mgr)
        BY <2>1, <2>2, OrdersType
    <2> QED
        BY <1>6, <2>1, <2>3 DEF DeregisterBegin, TypeOK
<1>7. CASE DeregisterEnd(m)
    <2>1. \A t \in Thread : [handler[t] EXCEPT !.live = FALSE] \in Handler
        BY Built DEF TypeOK
    <2>2. handler' \in [Thread -> Handler] /\ agent' \in Seq(Mgr) /\ leaving' \in [Mgr -> Seq(Mgr)]
        BY <1>7, <2>1 DEF DeregisterEnd, TypeOK
    <2>3. cut' \in [Mgr -> BOOLEAN]
        BY <1>7 DEF DeregisterEnd, TypeOK, Active
    <2> QED
        BY <1>7, <1>1, <2>2, <2>3 DEF DeregisterEnd, TypeOK
<1>8. CASE DeregisterRaises(m)
    BY <1>8, <1>1 DEF DeregisterRaises, TypeOK
<1>9. CASE Kill(m)
    BY <1>9, <1>1 DEF Kill, TypeOK
<1> QED
    BY <1>2, <1>3, <1>4, <1>5, <1>6, <1>7, <1>8, <1>9 DEF MgrNext

(* Another manager is disturbed by nothing but the end of a TDeregister,    *)
(* which may cut it.                                                        *)
LEMMA OthersFrame ==
    ASSUME TypeOK, NEW m \in Mgr, MgrNext(m), NEW o \in Mgr, o # m
    PROVE  /\ phase'[o] = phase[o] /\ toRead'[o] = toRead[o]
           /\ told'[o] = told[o] /\ missed'[o] = missed[o]
           /\ Active(o) /\ ~cut'[o] => ~cut[o]
           /\ cut'[o] = cut[o] \/ DeregisterEnd(m)
<1>1. CASE DeregisterEnd(m)
    BY <1>1 DEF DeregisterEnd, Gone, TypeOK, Active
<1>2. CASE DeregisterRaises(m) \/ Kill(m)
    BY <1>2 DEF DeregisterRaises, Kill, Gone, TypeOK
<1>3. CASE TRegister(m) \/ Serve(m) \/ DeregisterBegin(m)
    BY <1>3 DEF TRegister, Serve, DeregisterBegin, TypeOK
<1>4. CASE ReadEnd(m)
    BY <1>4 DEF ReadEnd, TypeOK
<1>5. CASE \E n \in Node : ReadBegin(m, n)
    BY <1>5 DEF ReadBegin, TypeOK
<1> QED
    BY <1>1, <1>2, <1>3, <1>4, <1>5 DEF MgrNext

(* What a manager call may do to the manager itself. *)
LEMMA SelfPhase ==
    ASSUME TypeOK, NEW m \in Mgr, MgrNext(m)
    PROVE  \/ ~Active(m)'
           \/ TRegister(m)
           \/ /\ phase[m] = "starting" /\ cut' = cut /\ agent' = agent
              /\ (\E n \in Node : ReadBegin(m, n)) \/ ReadEnd(m) \/ Serve(m)
<1>1. CASE DeregisterEnd(m) \/ DeregisterRaises(m) \/ Kill(m)
    BY <1>1 DEF DeregisterEnd, DeregisterRaises, Kill, Gone, TypeOK, Active
<1>2. CASE DeregisterBegin(m)
    BY <1>2 DEF DeregisterBegin, TypeOK, Active
<1> QED
    BY <1>1, <1>2 DEF MgrNext, ReadBegin, ReadEnd, Serve

LEMMA ListMgr ==
    ASSUME TypeOK, HandlerInv, ListInv, NEW m \in Mgr, MgrNext(m)
    PROVE  ListInv'
<1> SUFFICES ASSUME NEW o \in Mgr, Active(o)', ~cut'[o]
             PROVE  o \in Members(agent')
    BY DEF ListInv, Members
<1>1. CASE TRegister(m)
    <2>1. agent' = Append(agent, m) /\ agent \in Seq(Mgr)
        BY <1>1 DEF TRegister, TypeOK
    <2>2. o # m => o \in Members(agent)
        BY <1>1, OthersFrame DEF ListInv, Active
    <2> QED
        BY <2>1, <2>2, MembersFacts
<1>2. CASE DeregisterEnd(m)
    <2>1. o # m
        BY <1>2 DEF DeregisterEnd, Gone, Active, TypeOK
    <2>2. Active(o)
        BY <2>1, OthersFrame DEF Active
    <2>3. o \in Members(leaving[m])
        BY <1>2, <2>2 DEF DeregisterEnd
    <2> QED
        BY <1>2, <2>3 DEF DeregisterEnd
<1>3. CASE ~TRegister(m) /\ ~DeregisterEnd(m)
    <2>1. agent' = agent
        BY <1>3 DEF MgrNext, ReadBegin, ReadEnd, Serve, DeregisterBegin, DeregisterRaises, Kill
    <2>2. o = m => phase[m] = "starting" /\ ~cut[m]
        BY <1>3, SelfPhase
    <2>3. o # m => Active(o) /\ ~cut[o]
        BY OthersFrame DEF Active
    <2> QED
        BY <2>1, <2>2, <2>3 DEF ListInv, Active
<1> QED
    BY <1>1, <1>2, <1>3

LEMMA ReadMgr ==
    ASSUME TypeOK, ReadInv, NEW m \in Mgr, MgrNext(m)
    PROVE  ReadInv'
<1> SUFFICES ASSUME NEW o \in Mgr, phase'[o] = "up"
             PROVE  toRead'[o] = {}
    BY DEF ReadInv
<1>1. CASE o # m
    BY <1>1, OthersFrame DEF ReadInv
<1>2. CASE o = m
    <2>1. Active(m)'
        BY <1>2 DEF Active
    <2>2. ~TRegister(m)
        BY <1>2 DEF TRegister, TypeOK
    <2>3. CASE Serve(m)
        BY <1>2, <2>3 DEF Serve
    <2>4. CASE (\E n \in Node : ReadBegin(m, n)) \/ ReadEnd(m)
        BY <1>2, <2>4 DEF ReadBegin, ReadEnd
    <2> QED
        BY <2>1, <2>2, <2>3, <2>4, SelfPhase
<1> QED
    BY <1>1, <1>2

(* A snapshot gives a manager the map as it is; a registration makes it     *)
(* wait for one.                                                            *)
LEMMA TellMgr ==
    ASSUME TypeOK, HandlerInv, TellInv, NEW m \in Mgr, MgrNext(m)
    PROVE  TellInv'
<1> SUFFICES ASSUME NEW o \in Mgr, NEW k \in Node, NEW f \in File,
                    Active(o)', ~cut'[o], k \notin toRead'[o]
             PROVE  Told(o, k, f)' \/ OnItsWay(o, k, f)'
    BY DEF TellInv
<1>1. rawFM' = rawFM /\ (OnItsWay(o, k, f) => OnItsWay(o, k, f)')
    <2>1. ASSUME NEW t \in Thread,
                 /\ At(t, k, f)
                 /\ \/ ~handler[t].clean
                    \/ handler[t].pc = "loop"
                    \/ handler[t].pc = "push" /\ o \in Members(handler[t].todo)
          PROVE  OnItsWay(o, k, f)'
        <3>1. /\ At(t, k, f)' /\ handler'[t].pc = handler[t].pc /\ handler'[t].clean = handler[t].clean
              /\ Members(handler[t].todo) \subseteq Members(handler'[t].todo)
            BY <2>1, MgrFrame DEF At
        <3> QED
            BY <2>1, <3>1 DEF OnItsWay, Members
    <2> QED
        BY <2>1, MgrFrame DEF OnItsWay
<1>2. CASE o # m
    <2>1. Active(o) /\ ~cut[o] /\ k \notin toRead[o]
        BY <1>2, OthersFrame DEF Active
    <2>2. told'[o] = told[o] /\ missed'[o] = missed[o]
        BY <1>2, OthersFrame
    <2> QED
        BY <1>1, <2>1, <2>2 DEF TellInv, Told
<1>3. CASE o = m
    <2>1. ~TRegister(m)
        BY <1>3 DEF TRegister, TypeOK
    <2>2. /\ phase[m] = "starting" /\ ~cut[m]
          /\ (\E n \in Node : ReadBegin(m, n)) \/ ReadEnd(m) \/ Serve(m)
        BY <1>3, <2>1, SelfPhase
    <2>3. CASE Serve(m)
        <3>1. told' = told /\ missed' = missed /\ toRead' = toRead
            BY <2>3 DEF Serve
        <3> QED
            BY <1>1, <1>3, <2>2, <3>1 DEF TellInv, Told, Active
    <2>4. CASE ReadEnd(m)
        <3>1. missed' = missed /\ toRead' = toRead
            BY <2>4 DEF ReadEnd
        <3>2. PICK n \in Node, late \in SUBSET File :
                told' = [told EXCEPT ![m][n] =
                    [g \in File |-> IF g \in late THEN rawFM[n][g] ELSE told[m][n][g]]]
            BY <2>4 DEF ReadEnd, TypeOK
        <3>3. told'[m][k][f] = told[m][k][f] \/ told'[m][k][f] = rawFM[k][f]
            BY <3>2 DEF TypeOK, Map
        <3> QED
            BY <1>1, <1>3, <2>2, <3>1, <3>3 DEF TellInv, Told, Active
    <2>5. ASSUME NEW n \in Node, ReadBegin(m, n)
          PROVE  Told(o, k, f)' \/ OnItsWay(o, k, f)'
        <3>1. CASE k = n
            BY <1>1, <1>3, <2>5, <3>1 DEF ReadBegin, Told, TypeOK, Map
        <3>2. CASE k # n
            <4>1. /\ told'[m][k] = told[m][k] /\ missed'[m][k] = missed[m][k]
                  /\ k \notin toRead[m]
                BY <1>3, <2>5, <3>2 DEF ReadBegin, TypeOK, Map
            <4> QED
                BY <1>1, <1>3, <2>2, <4>1 DEF TellInv, Told, Active
        <3> QED
            BY <3>1, <3>2
    <2> QED
        BY <2>2, <2>3, <2>4, <2>5
<1> QED
    BY <1>2, <1>3

-----------------------------------------------------------------------------
(* The theorems.                                                            *)

LEMMA InvInit == Init => IInv
<1> SUFFICES ASSUME Init PROVE IInv
    OBVIOUS
<1>1. TypeOK
    BY TypeInit
<1>2. \A t \in Thread : handler[t] = Idle /\ Idle.pc = "idle"
    BY DEF Init, Idle, Call
<1>3. HandlerInv /\ CleanInv /\ CallInv
    <2>1. HandlerInv
        BY <1>2 DEF HandlerInv
    <2>2. \A t \in Thread, n \in Node, f \in File : ~At(t, n, f)
        BY <1>2, <2>1, IdleFacts
    <2> QED
        BY <2>1, <2>2 DEF CleanInv, CallInv
<1>4. MapsAgree
    BY DEF Init, MapsAgree
<1>5. ListInv /\ ReadInv /\ TellInv
    BY DEF Init, ListInv, ReadInv, TellInv, Active
<1> QED
    BY <1>1, <1>3, <1>4, <1>5 DEF IInv

LEMMA InvNext == IInv /\ [Next]_vars => IInv'
<1> SUFFICES ASSUME IInv, [Next]_vars PROVE IInv'
    OBVIOUS
<1> USE DEF IInv
<1>1. ASSUME NEW t \in Thread, Arrives(t) \/ Continues(t)
      PROVE  IInv'
    BY <1>1, ThreadInv
<1>2. ASSUME NEW m \in Mgr, MgrNext(m)
      PROVE  IInv'
    <2>1. TypeOK' /\ ListInv' /\ ReadInv' /\ TellInv'
        BY <1>2, TypeMgr, ListMgr, ReadMgr, TellMgr
    <2>2. \A t \in Thread, n \in Node, f \in File : At(t, n, f)' <=> At(t, n, f)
        BY <1>2, MgrFrame DEF At
    <2>3. HandlerInv'
        BY <1>2, MgrFrame, IdleFacts DEF HandlerInv
    <2>4. CleanInv' /\ CallInv'
        BY <1>2, <2>2, MgrFrame DEF CleanInv, CallInv
    <2>5. \A t \in Thread : Midway(handler'[t]) <=> Midway(handler[t])
        BY <1>2, MgrFrame DEF Midway
    <2>6. MapsAgree'
        <3> SUFFICES ASSUME NEW k \in Node, NEW g \in File, <<k, g>> \notin crossed',
                            ~\E o \in Thread : At(o, k, g)' /\ Midway(handler'[o])
                     PROVE  fmDict'[k][g] = None <=> rawFM'[k][g] = None
            BY DEF MapsAgree
        <3>1. fmDict' = fmDict /\ rawFM' = rawFM /\ crossed' = crossed
            BY <1>2, MgrFrame
        <3>2. ~\E o \in Thread : At(o, k, g) /\ Midway(handler[o])
            BY <2>2, <2>5
        <3> QED
            BY <3>1, <3>2 DEF MapsAgree
    <2> QED
        BY <2>1, <2>3, <2>4, <2>6
<1>3. CASE UNCHANGED vars
    <2> USE <1>3 DEF vars
    <2>1. TypeOK' /\ HandlerInv' /\ CleanInv' /\ CallInv'
        BY DEF TypeOK, HandlerInv, CleanInv, CallInv, At
    <2>2. MapsAgree' /\ ListInv' /\ ReadInv'
        BY DEF MapsAgree, Midway, At, ListInv, ReadInv, Active, Members
    <2>3. TellInv'
        BY DEF TellInv, Told, OnItsWay, At, Active, Members
    <2> QED
        BY <2>1, <2>2, <2>3
<1> QED
    BY <1>1, <1>2, <1>3 DEF Next

(* The inductive invariant holds in every reachable state of Trace. *)
THEOREM InvCorrect == Spec => []IInv
BY InvInit, InvNext, PTL DEF Spec

(* Every variable of Trace keeps its type: the lists hold addresses, the    *)
(* maps hold entries, a call under way is one of the calls of trace.py.     *)
THEOREM TypeCorrect == Spec => []TypeOK
<1>1. IInv => TypeOK
    BY DEF IInv
<1> QED
    BY <1>1, InvCorrect, PTL

(* fmDict and rawFM list the same files outside the windows between the two *)
(* writes of a create and of a delete, whatever else runs, as long as no    *)
(* two calls for the same file of a node overlap; a create or delete that   *)
(* runs alone mends what an overlap has left.                               *)
THEOREM MapsCorrect == Spec => []MapsAgree
<1>1. IInv => MapsAgree
    BY DEF IInv
<1> QED
    BY <1>1, InvCorrect, PTL

(* A manager in service lacks an entry only if a TChangeFile call for it    *)
(* failed or met another one, or its registration was cut: registering      *)
(* before the snapshot, and pushing over the live list, loses no change.    *)
THEOREM SyncCorrect == Spec => []InSync
<1>1. IInv => InSync
    BY DEF IInv, ReadInv, TellInv, Told, InSync, OnItsWay, Active
<1> QED
    BY <1>1, InvCorrect, PTL
=============================================================================
