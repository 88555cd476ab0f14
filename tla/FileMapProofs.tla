--------------------------- MODULE FileMapProofs ---------------------------
(***************************************************************************)
(* What the file manager and its agents guarantee for any number of nodes, *)
(* files and agents.  The inductive invariant IInv adds to the types: what *)
(* a call under way still knows (CallInv), that the manager holds Trace's  *)
(* entry unless it was not told (HoldInv, RawInv), that an agent is in the *)
(* list and the manager in service unless the agent was cut (ListInv,      *)
(* UpInv), and that an entry which is not the last one of an agent is on   *)
(* its way to it or recorded as lost (KnowInv).                            *)
(***************************************************************************)
EXTENDS FileMap, SequenceTheorems, TLAPS

Phases == {"off", "making", "joining", "registered", "loaded", "up", "leaving"}

CallInv ==
    \A n \in Node :
      /\ call[n].pc = "idle" => call[n] = Idle
      /\ call[n].pc # "idle" => call[n].file \in File /\ mgr = "up"
      /\ call[n].pc = "sent" => call[n].todo # <<>>
      /\ call[n].pc # "idle" /\ type = "Distribute"
           => /\ n = Home[call[n].file]
              /\ call[n].action = "delete" => FM[call[n].file] = <<>>
              /\ call[n].action # "delete" => call[n].action = "create"
              /\ call[n].action = "create" /\ call[n].pc = "sent"
                   => call[n].msg = FM[call[n].file]

RawInv ==
    type = "Distribute" => \A n \in Node, f \in File : n # Home[f] => raw[n][f] = None

(* The manager's entry of a file that Trace holds with layout l. *)
EntryOf(f, l) == <<[node |-> Home[f], pba |-> l]>>

HoldInv ==
    \A f \in File :
      type = "Distribute" /\ mgr = "up" /\ <<Home[f], f>> \notin late /\ raw[Home[f]][f] # None
        => FM[f] = EntryOf(f, raw[Home[f]][f])

ListInv ==
    \A a \in Agent :
      /\ Active(a) /\ ~cut[a] => a \in Members(QAs) /\ mgr # "off"
      /\ phase[a] \in {"making", "joining"} => mgr # "off"

UpInv == \A a \in Agent : phase[a] \in {"loaded", "up"} /\ ~cut[a] => mgr = "up"

(* The call of the file's node has a before it in its loop. *)
OnItsWay(a, f) ==
    LET c == call[Home[f]] IN
    c.pc # "idle" /\ c.action = "create" /\ c.file = f /\ a \in Members(c.todo)

(* The last entry of the name in the agent's list is the manager's. *)
HasLast(a, f) == list[a][f] # <<>> /\ list[a][f][Len(list[a][f])] = FM[f]

Loaded(a) == type = "Distribute" /\ phase[a] \in {"loaded", "up"} /\ ~cut[a]

KnowInv ==
    \A a \in Agent, f \in File :
      Loaded(a) /\ FM[f] # <<>> /\ f \notin lost[a]
        => HasLast(a, f) \/ OnItsWay(a, f)

IInv == TypeOK /\ CallInv /\ RawInv /\ HoldInv /\ ListInv /\ UpInv /\ KnowInv

-----------------------------------------------------------------------------
(* Sequences.                                                               *)

LEMMA MembersFacts ==
    ASSUME NEW S, NEW s \in Seq(S)
    PROVE  /\ Members(s) \subseteq S
           /\ s = <<>> => Members(s) = {}
           /\ s # <<>> => Head(s) \in S /\ Tail(s) \in Seq(S)
           /\ s # <<>> => \A m \in Members(s) : m = Head(s) \/ m \in Members(Tail(s))
           /\ \A m \in S : /\ Append(s, m) \in Seq(S)
                           /\ m \in Members(Append(s, m))
                           /\ Members(s) \subseteq Members(Append(s, m))
<1>1. Members(s) \subseteq S
    BY ElementOfSeq DEF Members
<1>2. s = <<>> => Members(s) = {}
    BY DEF Members
<1>3. ASSUME s # <<>>
      PROVE  /\ Head(s) \in S /\ Tail(s) \in Seq(S)
             /\ \A m \in Members(s) : m = Head(s) \/ m \in Members(Tail(s))
    <2>1. /\ Head(s) \in S /\ Tail(s) \in Seq(S) /\ Head(s) = s[1]
          /\ Len(s) \in Nat /\ Len(s) > 0 /\ Len(Tail(s)) = Len(s) - 1
          /\ \A i \in 1..Len(Tail(s)) : Tail(s)[i] = s[i + 1]
        BY <1>3
    <2>2. ASSUME NEW i \in 1..Len(s), i # 1 PROVE s[i] \in Members(Tail(s))
        <3>1. i - 1 \in 1..Len(Tail(s)) /\ (i - 1) + 1 = i
            BY <2>1, <2>2
        <3>2. Tail(s)[i - 1] = s[i]
            BY <2>1, <3>1
        <3> QED
            BY <3>1, <3>2 DEF Members
    <2> QED
        BY <2>1, <2>2 DEF Members
<1>4. ASSUME NEW m \in S
      PROVE  /\ Append(s, m) \in Seq(S)
             /\ m \in Members(Append(s, m))
             /\ Members(s) \subseteq Members(Append(s, m))
    <2>1. /\ Append(s, m) \in Seq(S) /\ Len(s) \in Nat
          /\ Len(Append(s, m)) = Len(s) + 1
          /\ Append(s, m)[Len(s) + 1] = m
          /\ \A i \in 1..Len(s) : Append(s, m)[i] = s[i]
        OBVIOUS
    <2>2. Len(s) + 1 \in 1..Len(Append(s, m)) /\ 1..Len(s) \subseteq 1..Len(Append(s, m))
        BY <2>1
    <2> QED
        BY <2>1, <2>2 DEF Members
<1> QED
    BY <1>1, <1>2, <1>3, <1>4

(* A list without duplicates of no element is empty, of one element is that *)
(* element.                                                                 *)
LEMMA OrdersFacts ==
    ASSUME NEW X, NEW S \in SUBSET X, NEW k \in Nat, NEW s \in Orders(S, k)
    PROVE  /\ s \in Seq(X) /\ Members(s) = S
           /\ \A r : S = {r} => s = <<r>>
<1>1. PICK j \in 0..k : s \in [1..j -> S]
    BY DEF Orders
<1>2. s \in [1..j -> X] /\ j \in Nat /\ s \in [1..j -> S]
    BY <1>1
<1>3. s \in Seq(X) /\ Len(s) = j
    BY <1>2
<1>4. /\ Members(s) = S
      /\ \A i, l \in 1..Len(s) : i # l => s[i] # s[l]
    BY DEF Orders
<1>5. ASSUME NEW r, S = {r} PROVE s = <<r>>
    <2>1. \A i \in 1..j : s[i] = r
        BY <1>2, <1>5
    <2>2. j # 0
        BY <1>3, <1>4, <1>5 DEF Members
    <2>3. ~(j > 1)
        <3>1. ASSUME j > 1 PROVE FALSE
            <4>1. 1 \in 1..j /\ 2 \in 1..j /\ 1 # 2
                BY <1>2, <3>1
            <4> QED
                BY <1>3, <1>4, <2>1, <4>1
        <3> QED
            BY <3>1
    <2>4. j = 1
        BY <1>2, <2>2, <2>3
    <2> QED
        BY <1>2, <2>1, <2>4
<1> QED
    BY <1>3, <1>4, <1>5

-----------------------------------------------------------------------------
(* Types.                                                                   *)

LEMMA Built ==
    /\ Idle \in Call
    /\ \A f \in File, s \in Seq(Agent), a \in {"create", "delete"} :
         [pc |-> "loop", action |-> a, file |-> f, todo |-> s, live |-> TRUE, msg |-> <<>>] \in Call
    /\ \A c \in Call, e \in Entry : [c EXCEPT !.pc = "sent", !.msg = e] \in Call
    /\ \A c \in Call, s \in Seq(Agent) :
         [c EXCEPT !.pc = "loop", !.todo = s, !.msg = <<>>] \in Call
    /\ \A c \in Call, s \in Seq(Agent) : [c EXCEPT !.todo = s] \in Call
    /\ \A c \in Call : [c EXCEPT !.live = FALSE] \in Call
    /\ \A c \in Call : c.todo \in Seq(Agent) /\ c.msg \in Entry
<1>1. <<>> \in Entry /\ <<>> \in Seq(Agent)
    BY DEF Entry
<1>2. Idle \in Call
    BY <1>1 DEF Idle, Call
<1>3. \A f \in File, s \in Seq(Agent), a \in {"create", "delete"} :
        [pc |-> "loop", action |-> a, file |-> f, todo |-> s, live |-> TRUE, msg |-> <<>>] \in Call
    BY <1>1 DEF Call
<1>4. \A c \in Call, e \in Entry : [c EXCEPT !.pc = "sent", !.msg = e] \in Call
    BY DEF Call
<1>5. \A c \in Call, s \in Seq(Agent) :
         [c EXCEPT !.pc = "loop", !.todo = s, !.msg = <<>>] \in Call
    BY <1>1 DEF Call
<1>6. /\ \A c \in Call, s \in Seq(Agent) : [c EXCEPT !.todo = s] \in Call
      /\ \A c \in Call : [c EXCEPT !.live = FALSE] \in Call
      /\ \A c \in Call : c.todo \in Seq(Agent) /\ c.msg \in Entry
    BY DEF Call
<1> QED
    BY <1>2, <1>3, <1>4, <1>5, <1>6

LEMMA InsertedType ==
    ASSUME TypeOK, NEW f \in File
    PROVE  Inserted(f) \subseteq Entry
<1>1. Held(f) \in SUBSET Replica /\ MaxEntries \in Nat
    BY ConstantsAssumption DEF Held
<1>2. Orders(Held(f), MaxEntries) \subseteq Seq(Replica)
    BY <1>1, OrdersFacts
<1>3. <<>> \in Seq(Replica)
    OBVIOUS
<1> QED
    BY <1>2, <1>3 DEF Inserted, Entry

LEMMA TypeInit == Init => TypeOK
<1> SUFFICES ASSUME Init PROVE TypeOK
    OBVIOUS
<1>1. <<>> \in Entry /\ <<>> \in Seq(Entry) /\ <<>> \in Seq(Agent)
    BY DEF Entry
<1>2. call \in [Node -> Call]
    BY Built DEF Init
<1>3. FM \in [File -> Entry] /\ list \in [Agent -> [File -> Seq(Entry)]]
    BY <1>1 DEF Init
<1> QED
    BY <1>1, <1>2, <1>3 DEF Init, TypeOK

LEMMA TypeMgr ==
    ASSUME TypeOK, MgrStart \/ MgrStop
    PROVE  TypeOK'
<1>1. <<>> \in Entry /\ <<>> \in Seq(Agent)
    BY DEF Entry
<1>2. CASE MgrStart
    <2>1. FM' \in [File -> Entry]
        <3>1. CASE mgr' = "up"
            <4>1. FM' \in [File -> UNION {Inserted(f) : f \in File}] /\ \A f \in File : FM'[f] \in Inserted(f)
                BY <1>2, <3>1 DEF MgrStart
            <4> QED
                BY <4>1, InsertedType
        <3>2. CASE FM' = FM
            BY <3>2 DEF TypeOK
        <3> QED
            BY <1>2, <3>1, <3>2 DEF MgrStart
    <2>2. late' \in SUBSET (Node \X File) /\ mgr' \in {"off", "up", "blind"}
        BY <1>2 DEF MgrStart
    <2> QED
        BY <1>2, <2>1, <2>2 DEF MgrStart, TypeOK, listVars, agentVars
<1>3. CASE MgrStop
    <2>1. FM' \in [File -> Entry] /\ call' \in [Node -> Call]
        BY <1>1, <1>3, Built DEF MgrStop
    <2>2. /\ phase' \in [Agent -> Phases]
          /\ leaving' \in [Agent -> Seq(Agent)] /\ QAs' \in Seq(Agent)
        BY <1>1, <1>3 DEF MgrStop, TypeOK, Phases
    <2>3. cut' \in [Agent -> BOOLEAN]
        BY <1>3 DEF MgrStop, Active
    <2> QED
        BY <1>3, <2>1, <2>2, <2>3 DEF MgrStop, TypeOK, Phases
<1> QED
    BY <1>2, <1>3

(* What PushFile makes of a list of entries. *)
LEMMA PushFileFacts ==
    ASSUME NEW s \in Seq(Entry), NEW a, NEW e \in Entry
    PROVE  /\ PushFile(s, a, e) \in Seq(Entry)
           /\ a = "create" => /\ PushFile(s, a, e) # <<>>
                              /\ PushFile(s, a, e)[Len(PushFile(s, a, e))] = e
           /\ a # "create" => Len(PushFile(s, a, e)) <= Len(s)
<1>1. CASE a = "create"
    <2>1. PushFile(s, a, e) = Append(s, e)
        BY <1>1 DEF PushFile
    <2>2. Append(s, e) \in Seq(Entry) /\ Len(Append(s, e)) = Len(s) + 1 /\ Len(s) \in Nat
        OBVIOUS
    <2>3. Append(s, e)[Len(s) + 1] = e /\ Append(s, e) # <<>>
        OBVIOUS
    <2> QED
        BY <1>1, <2>1, <2>2, <2>3
<1>2. CASE a # "create" /\ s = <<>>
    BY <1>2 DEF PushFile
<1>3. CASE a # "create" /\ s # <<>>
    <2>1. PushFile(s, a, e) = SubSeq(s, 1, Len(s) - 1)
        BY <1>3 DEF PushFile
    <2>2. Len(s) \in Nat /\ Len(s) > 0
        BY <1>3
    <2>3. SubSeq(s, 1, Len(s) - 1) \in Seq(Entry) /\ Len(SubSeq(s, 1, Len(s) - 1)) <= Len(s)
        BY <2>2
    <2> QED
        BY <1>3, <2>1, <2>3
<1> QED
    BY <1>1, <1>2, <1>3

(* The steps of a PushPba call keep the types. *)
LEMMA TypeNode ==
    ASSUME TypeOK, CallInv, NEW n \in Node, Arrives(n) \/ Continues(n)
    PROVE  TypeOK'
<1> USE DEF mgrVars, listVars, agentVars
<1>1. /\ call[n] \in Call /\ Idle \in Call /\ QAs \in Seq(Agent)
      /\ call[n].todo \in Seq(Agent) /\ call[n].msg \in Entry
    BY Built DEF TypeOK
<1>2. \A c \in Call : [call EXCEPT ![n] = c] \in [Node -> Call]
    BY DEF TypeOK
<1>3. Return(n) => call' \in [Node -> Call]
    BY <1>1, <1>2 DEF Return
<1>4. ASSUME NEW f \in File, NEW a \in {"create", "delete"}, StartLoop(n, a, f)
      PROVE  call' \in [Node -> Call]
    <2>1. PICK c \in Call : call' = [call EXCEPT ![n] = c]
        BY <1>1, <1>4, Built DEF StartLoop
    <2> QED
        BY <1>2, <2>1
<1>5. call[n].pc # "idle" => call[n].file \in File
    BY DEF CallInv
<1>6. Forsake(n) /\ call[n].pc # "idle" => lost' \in [Agent -> SUBSET File]
    BY <1>5 DEF Forsake, TypeOK
<1>7. ASSUME NEW f \in File, Unheard(n, f)
      PROVE  TypeOK'
    <2>1. raw' \in [Node -> [File -> Layout \cup {None}]] /\ late' \in SUBSET (Node \X File)
        BY <1>7 DEF Unheard, TypeOK
    <2> QED
        BY <1>7, <2>1 DEF Unheard, TypeOK
<1>8. ASSUME NEW f \in File, NEW l \in Layout, PushCreate(n, f, l)
      PROVE  TypeOK'
    <2>1. raw' \in [Node -> [File -> Layout \cup {None}]] /\ late' \in SUBSET (Node \X File)
        BY <1>8 DEF PushCreate, TypeOK
    <2>2. FM' \in [File -> Entry]
        <3>1. [node |-> n, pba |-> l] \in Replica
            BY DEF Replica
        <3>2. /\ FM[f] \in Entry /\ <<[node |-> n, pba |-> l]>> \in Entry
              /\ Append(FM[f], [node |-> n, pba |-> l]) \in Entry
            BY <3>1 DEF TypeOK, Entry
        <3>3. PICK e \in Entry : FM' = [FM EXCEPT ![f] = e]
            BY <1>8, <3>2 DEF PushCreate
        <3> QED
            BY <3>3 DEF TypeOK
    <2>3. call' \in [Node -> Call]
        BY <1>4, <1>8 DEF PushCreate
    <2> QED
        BY <1>8, <2>1, <2>2, <2>3 DEF PushCreate, TypeOK
<1>9. ASSUME NEW f \in File, PushModify(n, f)
      PROVE  TypeOK'
    BY <1>9 DEF PushModify, vars, TypeOK
<1>10. ASSUME NEW f \in File, PushDelete(n, f)
       PROVE  TypeOK'
    <2>1. raw' \in [Node -> [File -> Layout \cup {None}]] /\ late' \in SUBSET (Node \X File)
        BY <1>10 DEF PushDelete, TypeOK
    <2>2. FM' \in [File -> Entry]
        <3>1. <<>> \in Entry
            BY DEF Entry
        <3> QED
            BY <1>10, <3>1 DEF PushDelete, TypeOK
    <2>3. call' \in [Node -> Call]
        BY <1>4, <1>10 DEF PushDelete
    <2> QED
        BY <1>10, <2>1, <2>2, <2>3 DEF PushDelete, TypeOK
<1>11. CASE Send(n)
    <2>1. PICK e \in Entry : call' = [call EXCEPT ![n] = [call[n] EXCEPT !.pc = "sent", !.msg = e]]
        <3>1. <<>> \in Entry /\ (call[n].file \in File => FM[call[n].file] \in Entry)
            BY DEF Entry, TypeOK
        <3>2. call[n].file \in File
            BY <1>5, <1>11 DEF Send
        <3> QED
            BY <1>11, <3>1, <3>2 DEF Send, TypeOK
    <2>2. call' \in [Node -> Call]
        BY <1>1, <1>2, <2>1, Built
    <2> QED
        BY <1>11, <2>2 DEF Send, TypeOK
<1>12. CASE SendRaises(n)
    BY <1>3, <1>6, <1>12 DEF SendRaises, TypeOK
<1>13. CASE Deliver(n)
    <2>1. PICK f \in File, a \in Agent : f = call[n].file /\ a = Head(call[n].todo)
        BY <1>1, <1>5, <1>13, MembersFacts DEF Deliver, CallInv
    <2>2. list' \in [Agent -> [File -> Seq(Entry)]]
        <3>1. PushFile(list[a][f], call[n].action, call[n].msg) \in Seq(Entry)
            BY <1>1, PushFileFacts DEF TypeOK
        <3>2. list' = [list EXCEPT ![a][f] = PushFile(list[a][f], call[n].action, call[n].msg)]
            BY <1>13, <2>1 DEF Deliver
        <3> QED
            BY <3>1, <3>2 DEF TypeOK
    <2>3. lost' \in [Agent -> SUBSET File] /\ doubled' \in [Agent -> SUBSET File]
        BY <1>13, <2>1 DEF Deliver, TypeOK
    <2>4. call' \in [Node -> Call]
        <3>1. Tail(call[n].todo) \in Seq(Agent)
            BY <1>1, <1>13, MembersFacts DEF Deliver, CallInv
        <3>2. call' = [call EXCEPT ![n] = [call[n] EXCEPT !.pc = "loop", !.todo = Tail(call[n].todo),
                                                          !.msg = <<>>]]
            BY <1>13 DEF Deliver, TypeOK
        <3> QED
            BY <1>1, <1>2, <3>1, <3>2, Built
    <2> QED
        BY <1>13, <2>2, <2>3, <2>4 DEF Deliver, TypeOK
<1>14. CASE DeliverFails(n)
    BY <1>3, <1>6, <1>14 DEF DeliverFails, TypeOK
<1>15. CASE PushDone(n)
    BY <1>3, <1>15 DEF PushDone, TypeOK
<1> QED
    BY <1>7, <1>8, <1>9, <1>10, <1>11, <1>12, <1>13, <1>14, <1>15 DEF Arrives, Continues

(* The steps of an agent keep the types. *)
LEMMA TypeAgent ==
    ASSUME TypeOK, NEW a \in Agent, AgentNext(a)
    PROVE  TypeOK'
<1> USE DEF mgrVars, listVars, Phases
<1>1. <<>> \in Seq(Entry) /\ <<>> \in Seq(Agent)
    OBVIOUS
<1>2. Forgets(a) => /\ list' \in [Agent -> [File -> Seq(Entry)]]
                    /\ lost' \in [Agent -> SUBSET File] /\ doubled' \in [Agent -> SUBSET File]
    BY <1>1 DEF Forgets, TypeOK
<1>3. CASE JoinList(a)
    <2>1. QAs' \in Seq(Agent)
        BY <1>3, MembersFacts DEF JoinList, TypeOK
    <2>2. call' \in [Node -> Call]
        <3>1. ASSUME NEW n \in Node PROVE [call[n] EXCEPT !.todo = Append(@, a)] \in Call
            <4>1. call[n] \in Call /\ call[n].todo \in Seq(Agent)
                BY Built DEF TypeOK
            <4>2. Append(call[n].todo, a) \in Seq(Agent)
                BY <4>1, MembersFacts
            <4> QED
                BY <4>1, <4>2, Built
        <3>2. \A n \in Node : call[n] \in Call
            BY DEF TypeOK
        <3> QED
            BY <1>3, <3>1, <3>2 DEF JoinList
    <2>3. /\ phase' \in [Agent -> Phases]
          /\ cut' \in [Agent -> BOOLEAN]
        BY <1>3 DEF JoinList, TypeOK
    <2> QED
        BY <1>3, <2>1, <2>2, <2>3 DEF JoinList, TypeOK
<1>4. CASE GetFileMap(a)
    <2>1. [f \in File |-> IF FM[f] = <<>> THEN <<>> ELSE <<FM[f]>>] \in [File -> Seq(Entry)]
        <3>1. \A f \in File : <<FM[f]>> \in Seq(Entry)
            BY DEF TypeOK
        <3> QED
            BY <1>1, <3>1
    <2>2. list' \in [Agent -> [File -> Seq(Entry)]]
        BY <1>4, <2>1 DEF GetFileMap, TypeOK
    <2>3. /\ phase' \in [Agent -> Phases]
          /\ lost' \in [Agent -> SUBSET File] /\ doubled' \in [Agent -> SUBSET File]
        BY <1>4 DEF GetFileMap, TypeOK
    <2> QED
        BY <1>4, <2>2, <2>3 DEF GetFileMap, TypeOK
<1>5. CASE Serve(a)
    BY <1>5 DEF Serve, TypeOK
<1>6. CASE Ends(a)
    <2>1. /\ phase' \in [Agent -> Phases]
          /\ cut' \in [Agent -> BOOLEAN]
        BY <1>6 DEF Ends, TypeOK
    <2> QED
        BY <1>2, <1>6, <2>1 DEF Ends, TypeOK
<1>7. CASE DeregisterBegin(a)
    <2>1. PICK s \in Orders(Members(QAs) \ {a}, MaxQA) : leaving' = [leaving EXCEPT ![a] = s]
        BY <1>7 DEF DeregisterBegin
    <2>2. Members(QAs) \ {a} \in SUBSET Agent /\ MaxQA \in Nat
        BY MembersFacts, ConstantsAssumption DEF TypeOK
    <2>3. s \in Seq(Agent)
        BY <2>1, <2>2, OrdersFacts
    <2>4. leaving' \in [Agent -> Seq(Agent)]
        BY <2>1, <2>3 DEF TypeOK
    <2>5. phase' \in [Agent -> Phases]
        BY <1>7 DEF DeregisterBegin, TypeOK
    <2> QED
        BY <1>2, <1>7, <2>4, <2>5 DEF DeregisterBegin, TypeOK
<1>8. CASE DeregisterEnd(a)
    <2>1. call' \in [Node -> Call]
        BY <1>8, Built DEF DeregisterEnd, Detach, TypeOK
    <2>2. QAs' \in Seq(Agent) /\ leaving' \in [Agent -> Seq(Agent)]
        BY <1>1, <1>8 DEF DeregisterEnd, TypeOK
    <2>3. cut' \in [Agent -> BOOLEAN]
        BY <1>8 DEF DeregisterEnd, Active, TypeOK
    <2>4. phase' \in [Agent -> Phases]
        BY <1>8 DEF DeregisterEnd, TypeOK
    <2> QED
        BY <1>8, <2>1, <2>2, <2>3, <2>4 DEF DeregisterEnd, TypeOK
<1>9. CASE RegisterQA(a)
    <2>1. phase' \in [Agent -> Phases]
        BY <1>9 DEF RegisterQA, TypeOK
    <2> QED
        BY <1>9, <2>1 DEF RegisterQA, TypeOK
<1>10. CASE MakeList(a)
    <2>1. call' \in [Node -> Call]
        BY <1>10, Built DEF MakeList, Detach, TypeOK
    <2>2. QAs' \in Seq(Agent) /\ known' \in BOOLEAN
        BY <1>1, <1>10 DEF MakeList
    <2>3. cut' \in [Agent -> BOOLEAN]
        BY <1>10 DEF MakeList, Active
    <2>4. phase' \in [Agent -> Phases]
        BY <1>10 DEF MakeList, TypeOK
    <2> QED
        BY <1>10, <2>1, <2>2, <2>3, <2>4 DEF MakeList, TypeOK
<1> QED
    BY <1>3, <1>4, <1>5, <1>6, <1>7, <1>8, <1>9, <1>10 DEF AgentNext

-----------------------------------------------------------------------------
(* Who touches what.                                                        *)

(* The call of node n leaves the other nodes alone, and in a distributed    *)
(* volume the files that live elsewhere.                                    *)
LEMMA NodeFrame ==
    ASSUME TypeOK, CallInv, NEW n \in Node, Arrives(n) \/ Continues(n)
    PROVE  /\ \A k \in Node \ {n} : call'[k] = call[k] /\ raw'[k] = raw[k]
           /\ UNCHANGED <<type, mgr, QAs, phase, leaving, cut>>
           /\ type = "Distribute"
                => \A f \in File : Home[f] # n => /\ FM'[f] = FM[f] /\ raw'[n][f] = raw[n][f]
                                                  /\ \A a \in Agent : list'[a][f] = list[a][f]
                                                  /\ \A a \in Agent : f \in lost'[a] <=> f \in lost[a]
                                                  /\ \A a \in Agent : f \in doubled'[a] <=> f \in doubled[a]
           /\ \A f \in File : Home[f] # n => (<<Home[f], f>> \in late' <=> <<Home[f], f>> \in late)
<1> USE DEF mgrVars, listVars, agentVars, Return, StartLoop, Reports
<1>1. \A f \in File : Home[f] \in Node
    BY ConstantsAssumption
<1>2. ASSUME NEW g \in File, Unheard(n, g) \/ PushModify(n, g) \/ PushDelete(n, g)
                            \/ \E l \in Layout : PushCreate(n, g, l)
      PROVE  /\ \A k \in Node \ {n} : call'[k] = call[k] /\ raw'[k] = raw[k]
             /\ UNCHANGED <<type, mgr, QAs, phase, leaving, cut, list, lost, doubled>>
             /\ type = "Distribute" => n = Home[g]
             /\ \A f \in File : f # g => FM'[f] = FM[f] /\ raw'[n][f] = raw[n][f]
             /\ \A f \in File : Home[f] # n => (<<Home[f], f>> \in late' <=> <<Home[f], f>> \in late)
    <2>1. /\ UNCHANGED <<type, mgr, QAs, phase, leaving, cut, list, lost, doubled>>
          /\ type = "Distribute" => n = Home[g]
        BY <1>2 DEF Unheard, PushModify, PushDelete, PushCreate, vars
    <2>2. \A k \in Node \ {n} : call'[k] = call[k]
        BY <1>2 DEF Unheard, PushModify, PushDelete, PushCreate, vars, TypeOK
    <2>3. raw' = raw \/ \E v : raw' = [raw EXCEPT ![n][g] = v]
        BY <1>2 DEF Unheard, PushModify, PushDelete, PushCreate, vars
    <2>4. /\ \A k \in Node \ {n} : raw'[k] = raw[k]
          /\ \A f \in File : f # g => raw'[n][f] = raw[n][f]
        BY <2>3 DEF TypeOK
    <2>5. FM' = FM \/ \E e : FM' = [FM EXCEPT ![g] = e]
        BY <1>2 DEF Unheard, PushModify, PushDelete, PushCreate, vars
    <2>6. \A f \in File : f # g => FM'[f] = FM[f]
        BY <2>5 DEF TypeOK
    <2>7. late' \in {late, late \cup {<<n, g>>}, late \ {<<n, g>>}}
        BY <1>2 DEF Unheard, PushModify, PushDelete, PushCreate, vars
    <2>8. \A f \in File : Home[f] # n => (<<Home[f], f>> \in late' <=> <<Home[f], f>> \in late)
        BY <2>7
    <2> QED
        BY <2>1, <2>2, <2>4, <2>6, <2>8
<1>3. CASE Arrives(n)
    BY <1>2, <1>3 DEF Arrives
<1>4. CASE Continues(n)
    <2>1. PICK g \in File : g = call[n].file /\ (type = "Distribute" => n = Home[g])
        BY <1>4 DEF Continues, Send, SendRaises, Deliver, DeliverFails, PushDone, CallInv
    <2>2. CASE Deliver(n)
        <3>1. /\ \A f \in File, a \in Agent : f # g => list'[a][f] = list[a][f]
              /\ \A f \in File, a \in Agent : f # g => (f \in lost'[a] <=> f \in lost[a])
              /\ \A f \in File, a \in Agent : f # g => (f \in doubled'[a] <=> f \in doubled[a])
            BY <2>1, <2>2 DEF Deliver, TypeOK
        <3> QED
            BY <2>1, <2>2, <3>1 DEF Deliver, TypeOK
    <2>3. CASE SendRaises(n) \/ DeliverFails(n)
        <3>1. \A f \in File, a \in Agent : f # g => (f \in lost'[a] <=> f \in lost[a])
            BY <2>1, <2>3 DEF SendRaises, DeliverFails, Forsake
        <3> QED
            BY <2>1, <2>3, <3>1 DEF SendRaises, DeliverFails, TypeOK
    <2>4. CASE Send(n) \/ PushDone(n)
        BY <2>4 DEF Send, PushDone, TypeOK
    <2> QED
        BY <1>4, <2>2, <2>3, <2>4 DEF Continues
<1> QED
    BY <1>3, <1>4

(* An agent only lengthens the loops under way. *)
LEMMA AgentFrame ==
    ASSUME TypeOK, NEW a \in Agent, AgentNext(a)
    PROVE  /\ UNCHANGED <<type, raw, mgr, FM, late>>
           /\ \A n \in Node :
                /\ call'[n].pc = call[n].pc /\ call'[n].action = call[n].action
                /\ call'[n].file = call[n].file /\ call'[n].msg = call[n].msg
                /\ Members(call[n].todo) \subseteq Members(call'[n].todo)
                /\ call[n].todo # <<>> => call'[n].todo # <<>>
                /\ call[n] = Idle => call'[n] = Idle
<1> USE DEF mgrVars, listVars, Phases
<1>1. \A n \in Node : call[n] \in Call /\ call[n].todo \in Seq(Agent)
    BY Built DEF TypeOK
<1>2. CASE JoinList(a)
    <2>1. UNCHANGED <<type, raw, mgr, FM, late>>
        BY <1>2 DEF JoinList
    <2>2. ASSUME NEW n \in Node, call[n].live
          PROVE  /\ call'[n].pc = call[n].pc /\ call'[n].action = call[n].action
                 /\ call'[n].file = call[n].file /\ call'[n].msg = call[n].msg
                 /\ call'[n].todo = Append(call[n].todo, a)
        BY <1>1, <1>2, <2>2 DEF JoinList, Call
    <2>3. ASSUME NEW n \in Node, ~call[n].live
          PROVE  call'[n] = call[n]
        BY <1>2, <2>3 DEF JoinList
    <2>4. \A n \in Node : /\ Members(call[n].todo) \subseteq Members(Append(call[n].todo, a))
                          /\ Append(call[n].todo, a) # <<>>
        BY <1>1, MembersFacts
    <2>5. \A n \in Node : call[n] = Idle => ~call[n].live
        BY DEF Idle
    <2> QED
        BY <2>1, <2>2, <2>3, <2>4, <2>5
<1>3. CASE DeregisterEnd(a) \/ MakeList(a)
    <2>1. UNCHANGED <<type, raw, mgr, FM, late>>
        BY <1>3 DEF DeregisterEnd, MakeList
    <2>2. ASSUME NEW n \in Node
          PROVE  /\ call'[n].pc = call[n].pc /\ call'[n].action = call[n].action
                 /\ call'[n].file = call[n].file /\ call'[n].msg = call[n].msg
                 /\ call'[n].todo = call[n].todo
                 /\ call[n] = Idle => call'[n] = Idle
        <3>1. call'[n] = IF call[n].live THEN [call[n] EXCEPT !.live = FALSE] ELSE call[n]
            BY <1>3 DEF DeregisterEnd, MakeList, Detach
        <3>2. ~Idle.live
            BY DEF Idle
        <3> QED
            BY <1>1, <3>1, <3>2 DEF Call
    <2> QED
        BY <2>1, <2>2
<1>4. CASE RegisterQA(a) \/ GetFileMap(a) \/ Serve(a) \/ Ends(a) \/ DeregisterBegin(a)
    BY <1>4 DEF RegisterQA, GetFileMap, Serve, Ends, DeregisterBegin
<1> QED
    BY <1>2, <1>3, <1>4 DEF AgentNext

(* Another agent is disturbed by nothing but the end of a DeregisterQA and  *)
(* a list made again, which may cut it.                                     *)
LEMMA OthersFrame ==
    ASSUME TypeOK, NEW a \in Agent, AgentNext(a), NEW o \in Agent, o # a
    PROVE  /\ phase'[o] = phase[o] /\ list'[o] = list[o]
           /\ lost'[o] = lost[o] /\ doubled'[o] = doubled[o]
           /\ Active(o) /\ ~cut'[o] => ~cut[o]
           /\ cut'[o] = cut[o] \/ DeregisterEnd(a) \/ MakeList(a)
<1>1. CASE RegisterQA(a) \/ JoinList(a) \/ GetFileMap(a) \/ Serve(a)
    BY <1>1 DEF RegisterQA, JoinList, GetFileMap, Serve, TypeOK
<1>2. CASE Ends(a) \/ DeregisterBegin(a)
    BY <1>2 DEF Ends, DeregisterBegin, Forgets, TypeOK
<1>3. CASE DeregisterEnd(a)
    BY <1>3 DEF DeregisterEnd, Active, TypeOK
<1>4. CASE MakeList(a)
    BY <1>4 DEF MakeList, Active, TypeOK
<1> QED
    BY <1>1, <1>2, <1>3, <1>4 DEF AgentNext

-----------------------------------------------------------------------------
(* The invariant is kept by a step of the manager's process.                *)

(* Trace holds one replica of a file of a distributed volume, at its home. *)
LEMMA HeldOne ==
    ASSUME TypeOK, RawInv, type = "Distribute", NEW f \in File, raw[Home[f]][f] # None
    PROVE  /\ Held(f) = {[node |-> Home[f], pba |-> raw[Home[f]][f]]}
           /\ Held(f) = Members(EntryOf(f, raw[Home[f]][f]))
<1> DEFINE r == [node |-> Home[f], pba |-> raw[Home[f]][f]]
<1>1. Home[f] \in Node
    BY ConstantsAssumption
<1>2. raw[Home[f]][f] \in Layout
    BY <1>1 DEF TypeOK
<1>3. r \in Replica
    BY <1>1, <1>2 DEF Replica
<1>4. ASSUME NEW x \in Held(f) PROVE x = r
    <2>1. x.node \in Node /\ x.pba \in Layout /\ x.pba = raw[x.node][f]
          /\ x = [node |-> x.node, pba |-> x.pba]
        BY <1>4 DEF Held, Replica
    <2>2. x.node = Home[f]
        BY <2>1, ConstantsAssumption DEF RawInv
    <2> QED
        BY <2>1, <2>2
<1>5. r \in Held(f)
    BY <1>3 DEF Held
<1>6. Held(f) = {r}
    BY <1>4, <1>5
<1>7. Members(<<r>>) = {r}
    <2> HIDE DEF r
    <2>1. Len(<<r>>) = 1 /\ <<r>>[1] = r
        OBVIOUS
    <2>2. \A k \in 1..Len(<<r>>) : k = 1
        BY <2>1
    <2>3. 1 \in 1..Len(<<r>>)
        BY <2>1
    <2> QED
        BY <2>1, <2>2, <2>3 DEF Members
<1> QED
    BY <1>6, <1>7 DEF EntryOf

LEMMA InsertedEntry ==
    ASSUME TypeOK, RawInv, type = "Distribute", NEW f \in File, raw[Home[f]][f] # None,
           NEW s \in Inserted(f)
    PROVE  s = EntryOf(f, raw[Home[f]][f])
<1> DEFINE r == [node |-> Home[f], pba |-> raw[Home[f]][f]]
<1>1. MaxEntries \in Nat /\ Held(f) = {r} /\ Held(f) \in SUBSET Replica
    BY HeldOne, ConstantsAssumption DEF Held
<1>2. s \in Orders(Held(f), MaxEntries)
    BY DEF Inserted
<1>3. s = <<r>>
    <2> HIDE DEF r
    <2>1. \A x : Held(f) = {x} => s = <<x>>
        BY <1>1, <1>2, OrdersFacts
    <2> QED
        BY <1>1, <2>1
<1> QED
    BY <1>3 DEF EntryOf

LEMMA InvMgr ==
    ASSUME IInv, MgrStart \/ MgrStop
    PROVE  IInv'
<1> USE DEF IInv
<1>1. TypeOK'
    BY TypeMgr
<1>2. CASE MgrStart
    <2>1. UNCHANGED <<type, raw, QAs, call, phase, list, leaving, lost, cut>> /\ mgr = "off"
        BY <1>2 DEF MgrStart, listVars, agentVars
    <2>2. \A n \in Node : call[n].pc = "idle" /\ call[n] = Idle
        BY <2>1 DEF CallInv
    <2>3. CallInv' /\ RawInv'
        BY <2>1, <2>2 DEF CallInv, RawInv
    <2>4. \A a \in Agent : phase[a] \in {"registered", "loaded", "up"} => cut[a]
        BY <2>1 DEF ListInv, Active
    <2>5. ListInv' /\ UpInv' /\ KnowInv'
        BY <2>1, <2>4 DEF ListInv, UpInv, KnowInv, Loaded, Active
    <2>6. HoldInv'
        <3> SUFFICES ASSUME NEW f \in File, type = "Distribute", mgr' = "up", raw[Home[f]][f] # None
                     PROVE  FM'[f] = EntryOf(f, raw[Home[f]][f])
            BY <2>1 DEF HoldInv, EntryOf
        <3>1. FM'[f] \in Inserted(f)
            BY <1>2 DEF MgrStart
        <3> QED
            BY <3>1, InsertedEntry
    <2> QED
        BY <1>1, <2>3, <2>5, <2>6
<1>3. CASE MgrStop
    <2>1. /\ UNCHANGED <<type, raw, list, late, lost>> /\ mgr' = "off"
          /\ \A n \in Node : call'[n] = Idle
        BY <1>3 DEF MgrStop
    <2>2. Idle.pc = "idle"
        BY DEF Idle
    <2>3. CallInv' /\ RawInv' /\ HoldInv'
        BY <2>1, <2>2 DEF CallInv, RawInv, HoldInv
    <2>4. \A a \in Agent : phase'[a] \in {"registered", "loaded", "up"} => cut'[a]
        BY <1>3 DEF MgrStop, Active, TypeOK
    <2>5. \A a \in Agent : phase'[a] \notin {"making", "joining"}
        BY <1>3 DEF MgrStop, Active, TypeOK
    <2>6. ListInv' /\ UpInv' /\ KnowInv'
        BY <2>4, <2>5 DEF ListInv, UpInv, KnowInv, Loaded, Active
    <2> QED
        BY <1>1, <2>3, <2>6
<1> QED
    BY <1>2, <1>3

-----------------------------------------------------------------------------
(* The invariant is kept by a step of an agent.                             *)

LEMMA InvAgent ==
    ASSUME IInv, NEW a \in Agent, AgentNext(a)
    PROVE  IInv'
<1> USE DEF IInv
<1>1. TypeOK'
    BY TypeAgent
<1>2. /\ UNCHANGED <<type, raw, mgr, FM, late>>
      /\ \A n \in Node :
                /\ call'[n].pc = call[n].pc /\ call'[n].action = call[n].action
                /\ call'[n].file = call[n].file /\ call'[n].msg = call[n].msg
                /\ Members(call[n].todo) \subseteq Members(call'[n].todo)
                /\ call[n].todo # <<>> => call'[n].todo # <<>>
                /\ call[n] = Idle => call'[n] = Idle
    BY AgentFrame
<1>3. CallInv'
    BY <1>2 DEF CallInv
<1>4. RawInv' /\ HoldInv'
    BY <1>2 DEF RawInv, HoldInv, EntryOf
<1>5. \A f \in File, o \in Agent : OnItsWay(o, f) => OnItsWay(o, f)'
    BY <1>2, ConstantsAssumption DEF OnItsWay
<1>6. ListInv'
    <2>0. ASSUME NEW o \in Agent, phase'[o] \in {"making", "joining"}
          PROVE  mgr' # "off"
        <3>1. CASE o # a
            BY <1>2, <2>0, <3>1, OthersFrame DEF ListInv
        <3>2. CASE o = a
            <4>1. RegisterQA(a) \/ MakeList(a)
                BY <2>0, <3>2 DEF AgentNext, JoinList, GetFileMap, Serve, Ends, DeregisterBegin,
                                  DeregisterEnd, TypeOK
            <4> QED
                BY <1>2, <4>1 DEF RegisterQA, MakeList, ListInv
        <3> QED
            BY <3>1, <3>2
    <2> SUFFICES ASSUME NEW o \in Agent, Active(o)', ~cut'[o]
                 PROVE  o \in Members(QAs)' /\ mgr' # "off"
        BY <2>0 DEF ListInv
    <2>1. CASE JoinList(a)
        <3>1. QAs \in Seq(Agent) /\ QAs' = Append(QAs, a) /\ mgr # "off"
            BY <2>1 DEF JoinList, TypeOK, ListInv
        <3>2. a \in Members(QAs') /\ Members(QAs) \subseteq Members(QAs')
            BY <3>1, MembersFacts
        <3>3. o # a => Active(o) /\ ~cut[o]
            BY OthersFrame DEF Active
        <3> QED
            BY <1>2, <3>1, <3>2, <3>3 DEF ListInv, Members
    <2>2. CASE DeregisterEnd(a)
        <3>1. phase'[a] = "off"
            BY <2>2 DEF DeregisterEnd, TypeOK
        <3>2. o # a
            BY <3>1 DEF Active
        <3>3. Active(o)
            BY <3>2, OthersFrame DEF Active
        <3>4. ~cut[o] /\ o \in Members(leaving[a]) /\ QAs' = leaving[a]
            BY <2>2, <3>3 DEF DeregisterEnd
        <3> QED
            BY <1>2, <3>3, <3>4 DEF ListInv, Members
    <2>3. CASE GetFileMap(a) \/ Serve(a)
        <3>1. Active(o) /\ ~cut[o] /\ QAs' = QAs
            BY <2>3 DEF GetFileMap, Serve, Active, TypeOK, listVars
        <3> QED
            BY <1>2, <3>1 DEF ListInv, Members
    <2>4. CASE Ends(a) \/ DeregisterBegin(a)
        <3>1. Active(o) /\ ~cut[o] /\ QAs' = QAs
            BY <2>4 DEF Ends, DeregisterBegin, Active, TypeOK, listVars
        <3> QED
            BY <1>2, <3>1 DEF ListInv, Members
    <2>5. CASE RegisterQA(a)
        <3>1. o # a
            BY <2>5 DEF RegisterQA, Active, TypeOK
        <3>2. Active(o) /\ ~cut[o] /\ QAs' = QAs
            BY <2>5, <3>1 DEF RegisterQA, Active, TypeOK, listVars
        <3> QED
            BY <1>2, <3>2 DEF ListInv, Members
    <2>6. CASE MakeList(a)
        <3>1. o # a
            BY <2>6 DEF MakeList, Active, TypeOK
        <3>2. Active(o)
            BY <3>1, OthersFrame DEF Active
        <3> QED
            BY <2>6, <3>2 DEF MakeList
    <2> QED
        BY <2>1, <2>2, <2>3, <2>4, <2>5, <2>6 DEF AgentNext
<1>7. ASSUME NEW o \in Agent, phase'[o] \in {"loaded", "up"}, ~cut'[o], o # a
      PROVE  phase[o] \in {"loaded", "up"} /\ ~cut[o]
    BY <1>7, OthersFrame DEF Active
<1>8. ASSUME phase'[a] \in {"loaded", "up"}, ~cut'[a]
      PROVE  /\ ~cut[a]
             /\ \/ GetFileMap(a) /\ mgr = "up"
                \/ phase[a] \in {"loaded", "up"} /\ UNCHANGED <<list, lost, doubled>>
    <2>1. /\ ~RegisterQA(a) /\ ~MakeList(a) /\ ~JoinList(a)
          /\ ~Ends(a) /\ ~DeregisterBegin(a) /\ ~DeregisterEnd(a)
        BY <1>8 DEF RegisterQA, MakeList, JoinList, Ends, DeregisterBegin, DeregisterEnd, TypeOK
    <2>2. GetFileMap(a) \/ Serve(a)
        BY <2>1 DEF AgentNext
    <2> QED
        BY <1>8, <2>2 DEF GetFileMap, Serve
<1>9. UpInv'
    BY <1>2, <1>7, <1>8 DEF UpInv
<1>10. KnowInv'
    <2> SUFFICES ASSUME NEW o \in Agent, NEW f \in File, Loaded(o)', FM'[f] # <<>>, f \notin lost'[o]
                 PROVE  HasLast(o, f)' \/ OnItsWay(o, f)'
        BY DEF KnowInv
    <2>1. type = "Distribute" /\ phase'[o] \in {"loaded", "up"} /\ ~cut'[o] /\ FM[f] # <<>>
        BY <1>2 DEF Loaded
    <2>2. CASE o # a
        <3>1. Loaded(o)
            BY <1>7, <2>1, <2>2 DEF Loaded
        <3>2. list'[o] = list[o] /\ lost'[o] = lost[o]
            BY <2>2, OthersFrame
        <3>3. HasLast(o, f) \/ OnItsWay(o, f)
            BY <2>1, <3>1, <3>2 DEF KnowInv
        <3> QED
            BY <1>2, <1>5, <3>2, <3>3 DEF HasLast
    <2>3. CASE o = a /\ GetFileMap(a)
        <3>1. list'[a][f] = <<FM[f]>>
            BY <2>1, <2>3 DEF GetFileMap, TypeOK
        <3>2. <<FM[f]>> # <<>> /\ Len(<<FM[f]>>) = 1 /\ <<FM[f]>>[1] = FM[f]
            OBVIOUS
        <3> QED
            BY <1>2, <2>3, <3>1, <3>2 DEF HasLast
    <2>4. CASE o = a /\ ~GetFileMap(a)
        <3>1. Loaded(o) /\ UNCHANGED <<list, lost>>
            BY <1>8, <2>1, <2>4 DEF Loaded
        <3>2. HasLast(o, f) \/ OnItsWay(o, f)
            BY <2>1, <3>1 DEF KnowInv
        <3> QED
            BY <1>2, <1>5, <3>1, <3>2 DEF HasLast
    <2> QED
        BY <2>2, <2>3, <2>4
<1> QED
    BY <1>1, <1>3, <1>4, <1>6, <1>9, <1>10

-----------------------------------------------------------------------------
(* The invariant is kept by a step of a PushPba call.                       *)

(* What a change of f that arrives from node n makes of a distributed file. *)
Touches(n, f) ==
    /\ n = Home[f] /\ call[n] = Idle /\ UNCHANGED <<list, lost, doubled>>
    /\ \A g \in File : g # f => /\ FM'[g] = FM[g] /\ raw'[n][g] = raw[n][g]
                                /\ <<n, g>> \in late' <=> <<n, g>> \in late
    /\ \/ call'[n] = call[n] /\ FM'[f] = FM[f] /\ <<n, f>> \in late'
       \/ call'[n] = call[n] /\ UNCHANGED <<raw, FM, late>>
       \/ /\ mgr = "up" /\ (QAs = <<>> => call'[n] = Idle)
          /\ \E l \in Layout : raw'[n][f] = l /\ FM'[f] = EntryOf(f, l)
          /\ QAs # <<>> => /\ call'[n].pc = "loop" /\ call'[n].action = "create"
                           /\ call'[n].file = f /\ call'[n].todo = QAs
       \/ /\ mgr = "up" /\ (QAs = <<>> => call'[n] = Idle)
          /\ raw'[n][f] = None /\ FM'[f] = <<>>
          /\ QAs # <<>> => /\ call'[n].pc = "loop" /\ call'[n].action = "delete"
                           /\ call'[n].file = f /\ call'[n].todo = QAs

LEMMA ArrivesFacts ==
    ASSUME IInv, NEW n \in Node, Arrives(n), type = "Distribute"
    PROVE  \E f \in File : Touches(n, f)
<1> USE DEF IInv, Reports
<1>1. PICK f \in File : \/ Unheard(n, f) \/ PushModify(n, f) \/ PushDelete(n, f)
                        \/ \E l \in Layout : PushCreate(n, f, l)
    BY DEF Arrives
<1>2. n = Home[f] /\ call[n] = Idle /\ UNCHANGED <<list, lost, doubled>>
    BY <1>1 DEF Unheard, PushModify, PushDelete, PushCreate, vars, agentVars, CallInv
<1>3. \A g \in File : g # f => /\ FM'[g] = FM[g] /\ raw'[n][g] = raw[n][g]
                               /\ <<n, g>> \in late' <=> <<n, g>> \in late
    <2>1. raw' = raw \/ \E v : raw' = [raw EXCEPT ![n][f] = v]
        BY <1>1 DEF Unheard, PushModify, PushDelete, PushCreate, vars
    <2>2. FM' = FM \/ \E e : FM' = [FM EXCEPT ![f] = e]
        BY <1>1 DEF Unheard, PushModify, PushDelete, PushCreate, vars
    <2>3. late' \in {late, late \cup {<<n, f>>}, late \ {<<n, f>>}}
        BY <1>1 DEF Unheard, PushModify, PushDelete, PushCreate, vars
    <2>4. \A g \in File : g # f => raw'[n][g] = raw[n][g]
        BY <2>1 DEF TypeOK
    <2>5. \A g \in File : g # f => FM'[g] = FM[g]
        BY <2>2 DEF TypeOK
    <2>6. \A g \in File : g # f => (<<n, g>> \in late' <=> <<n, g>> \in late)
        BY <2>3
    <2> QED
        BY <2>4, <2>5, <2>6
<1>4. \A a \in {"create", "delete"} : StartLoop(n, a, f) =>
        /\ QAs = <<>> => call'[n] = Idle
        /\ QAs # <<>> => /\ call'[n].pc = "loop" /\ call'[n].action = a
                         /\ call'[n].file = f /\ call'[n].todo = QAs
    BY DEF StartLoop, TypeOK
<1>5. CASE Unheard(n, f)
    <2>1. call'[n] = call[n] /\ FM'[f] = FM[f] /\ <<n, f>> \in late'
        BY <1>5 DEF Unheard
    <2> QED
        BY <1>2, <1>3, <2>1 DEF Touches
<1>6. CASE PushModify(n, f)
    <2>1. call'[n] = call[n] /\ UNCHANGED <<raw, FM, late>>
        BY <1>6 DEF PushModify, vars
    <2> QED
        BY <1>2, <1>3, <2>1 DEF Touches
<1>7. CASE PushDelete(n, f)
    <2>1. mgr = "up" /\ raw'[n][f] = None /\ FM'[f] = <<>> /\ StartLoop(n, "delete", f)
        BY <1>7 DEF PushDelete, TypeOK
    <2> QED
        BY <1>2, <1>3, <1>4, <2>1 DEF Touches
<1>8. ASSUME NEW l \in Layout, PushCreate(n, f, l)
      PROVE  /\ mgr = "up" /\ raw'[n][f] = l /\ FM'[f] = EntryOf(f, l)
             /\ StartLoop(n, "create", f)
    BY <1>2, <1>8 DEF PushCreate, TypeOK, EntryOf
<1>9. CASE \E l \in Layout : PushCreate(n, f, l)
    BY <1>2, <1>3, <1>4, <1>8, <1>9 DEF Touches
<1> QED
    BY <1>1, <1>5, <1>6, <1>7, <1>9

(* What a call under way does next. *)
LEMMA ContinuesFacts ==
    ASSUME IInv, NEW n \in Node, Continues(n)
    PROVE  /\ UNCHANGED <<type, raw, mgr, FM, late>>
           /\ call[n].pc # "idle" /\ call[n].file \in File /\ call[n].todo \in Seq(Agent)
           /\ \/ /\ call'[n].pc = "sent" /\ call[n].todo # <<>>
                 /\ call[n].action = "create" => call'[n].msg = FM[call[n].file]
                 /\ call'[n].file = call[n].file /\ call'[n].action = call[n].action
                 /\ call'[n].todo = call[n].todo /\ UNCHANGED <<list, lost, doubled>>
              \/ call'[n] = Idle /\ Forsake(n) /\ UNCHANGED <<list, doubled>>
              \/ call'[n] = Idle /\ call[n].todo = <<>> /\ UNCHANGED <<list, lost, doubled>>
              \/ /\ call[n].pc = "sent" /\ call[n].todo # <<>>
                 /\ call'[n].pc = "loop" /\ call'[n].todo = Tail(call[n].todo)
                 /\ call'[n].file = call[n].file /\ call'[n].action = call[n].action
                 /\ Deliver(n)
<1> USE DEF IInv, mgrVars, listVars, agentVars
<1>1. UNCHANGED <<type, raw, mgr, FM, late>>
    BY DEF Continues, Send, SendRaises, Deliver, DeliverFails, PushDone
<1>2. call[n].pc # "idle" /\ call[n].file \in File /\ call[n].todo \in Seq(Agent) /\ call[n] \in Call
    BY Built DEF Continues, Send, SendRaises, Deliver, DeliverFails, PushDone, CallInv, TypeOK
<1>3. CASE Send(n)
    <2>1. PICK e : /\ call'[n] = [call[n] EXCEPT !.pc = "sent", !.msg = e]
                   /\ call[n].action = "create" => e = FM[call[n].file]
        BY <1>3 DEF Send, TypeOK
    <2>2. call[n].todo # <<>> /\ UNCHANGED <<list, lost, doubled>>
        BY <1>3 DEF Send
    <2> QED
        BY <1>1, <1>2, <2>1, <2>2 DEF Call
<1>4. CASE SendRaises(n) \/ DeliverFails(n)
    <2>1. call'[n] = Idle /\ Forsake(n) /\ UNCHANGED <<list, doubled>>
        BY <1>4 DEF SendRaises, DeliverFails, Return, TypeOK
    <2> QED
        BY <1>1, <1>2, <2>1
<1>5. CASE PushDone(n)
    <2>1. call'[n] = Idle /\ call[n].todo = <<>> /\ UNCHANGED <<list, lost, doubled>>
        BY <1>5 DEF PushDone, Return, TypeOK
    <2> QED
        BY <1>1, <1>2, <2>1
<1>6. CASE Deliver(n)
    <2>1. call[n].pc = "sent" /\ call[n].todo # <<>>
        BY <1>6 DEF Deliver, CallInv
    <2>2. call'[n] = [call[n] EXCEPT !.pc = "loop", !.todo = Tail(call[n].todo), !.msg = <<>>]
        BY <1>6 DEF Deliver, TypeOK
    <2>3. /\ call'[n].pc = "loop" /\ call'[n].todo = Tail(call[n].todo)
          /\ call'[n].file = call[n].file /\ call'[n].action = call[n].action
        BY <1>2, <2>2 DEF Call
    <2> QED
        BY <1>1, <1>2, <1>6, <2>1, <2>3
<1> QED
    BY <1>3, <1>4, <1>5, <1>6 DEF Continues

LEMMA CallNode ==
    ASSUME IInv, NEW n \in Node, Arrives(n) \/ Continues(n)
    PROVE  CallInv'
<1> USE DEF IInv
<1>1. /\ type' = type /\ mgr' = mgr /\ QAs' = QAs
      /\ \A k \in Node \ {n} : call'[k] = call[k]
      /\ type = "Distribute" => \A f \in File : Home[f] # n => FM'[f] = FM[f]
    BY NodeFrame
<1>2. Idle.pc = "idle"
    BY DEF Idle
<1> SUFFICES ASSUME NEW k \in Node
             PROVE  /\ call'[k].pc = "idle" => call'[k] = Idle
                    /\ call'[k].pc # "idle" => call'[k].file \in File /\ mgr = "up"
                    /\ call'[k].pc = "sent" => call'[k].todo # <<>>
                    /\ call'[k].pc # "idle" /\ type = "Distribute"
                         => /\ k = Home[call'[k].file]
                            /\ call'[k].action = "delete" => FM'[call'[k].file] = <<>>
                            /\ call'[k].action # "delete" => call'[k].action = "create"
                            /\ call'[k].action = "create" /\ call'[k].pc = "sent"
                                 => call'[k].msg = FM'[call'[k].file]
    BY <1>1 DEF CallInv
<1>3. CASE k # n
    <2>1. call'[k] = call[k]
        BY <1>1, <1>3
    <2>2. type = "Distribute" /\ call[k].pc # "idle" => FM'[call[k].file] = FM[call[k].file]
        BY <1>1, <1>3 DEF CallInv
    <2> QED
        BY <1>1, <2>1, <2>2 DEF CallInv
<1>4. CASE k = n /\ Continues(n)
    BY <1>2, <1>4, ContinuesFacts DEF CallInv
<1>5. CASE k = n /\ Arrives(n)
    <2>1. PICK f \in File : \/ Unheard(n, f) \/ PushModify(n, f) \/ PushDelete(n, f)
                            \/ \E l \in Layout : PushCreate(n, f, l)
        BY <1>5 DEF Arrives
    <2>2. call[n] = Idle
        BY <2>1 DEF Unheard, PushModify, PushDelete, PushCreate, vars, CallInv
    <2>3. CASE Unheard(n, f) \/ PushModify(n, f)
        <3>1. call' = call
            BY <2>3 DEF Unheard, PushModify, vars
        <3> QED
            BY <1>2, <1>5, <2>2, <3>1
    <2>4. ASSUME NEW a \in {"create", "delete"}, StartLoop(n, a, f)
          PROVE  call'[n] = Idle \/ (call'[n].pc = "loop" /\ call'[n].file = f /\ call'[n].action = a)
        BY <2>4 DEF StartLoop, TypeOK
    <2>5. CASE PushDelete(n, f) \/ \E l \in Layout : PushCreate(n, f, l)
        <3>1. /\ mgr = "up" /\ (type = "Distribute" => n = Home[f])
              /\ \/ StartLoop(n, "create", f)
                 \/ StartLoop(n, "delete", f) /\ FM'[f] = <<>>
            BY <2>5 DEF PushDelete, PushCreate, Reports, TypeOK
        <3> QED
            BY <1>2, <1>5, <2>4, <3>1
    <2> QED
        BY <2>1, <2>3, <2>5
<1> QED
    BY <1>3, <1>4, <1>5

LEMMA HoldNode ==
    ASSUME IInv, NEW n \in Node, Arrives(n) \/ Continues(n)
    PROVE  RawInv' /\ HoldInv'
<1> USE DEF IInv
<1>1. /\ type' = type /\ mgr' = mgr
      /\ \A k \in Node \ {n} : raw'[k] = raw[k]
      /\ type = "Distribute"
           => \A f \in File : Home[f] # n => FM'[f] = FM[f] /\ raw'[n][f] = raw[n][f]
      /\ \A f \in File : Home[f] # n => (<<Home[f], f>> \in late' <=> <<Home[f], f>> \in late)
    BY NodeFrame
<1>2. \A f \in File : Home[f] \in Node
    BY ConstantsAssumption
<1>3. RawInv'
    BY <1>1 DEF RawInv
<1>4. HoldInv'
    <2> SUFFICES ASSUME NEW f \in File, type = "Distribute", mgr = "up",
                        <<Home[f], f>> \notin late', raw'[Home[f]][f] # None
                 PROVE  FM'[f] = EntryOf(f, raw'[Home[f]][f])
        BY <1>1 DEF HoldInv, EntryOf
    <2>1. CASE Home[f] # n
        BY <1>1, <1>2, <2>1 DEF HoldInv
    <2>2. CASE Home[f] = n /\ Continues(n)
        BY <2>2, ContinuesFacts DEF HoldInv
    <2>3. CASE Home[f] = n /\ Arrives(n)
        <3>1. PICK g \in File : Touches(n, g)
            BY <2>3, ArrivesFacts
        <3>2. CASE f # g
            BY <2>3, <3>1, <3>2 DEF HoldInv, Touches
        <3>3. CASE f = g
            BY <2>3, <3>1, <3>3 DEF HoldInv, Touches
        <3> QED
            BY <3>2, <3>3
    <2> QED
        BY <2>1, <2>2, <2>3
<1> QED
    BY <1>3, <1>4

LEMMA KnowNode ==
    ASSUME IInv, NEW n \in Node, Arrives(n) \/ Continues(n)
    PROVE  KnowInv'
<1> USE DEF IInv
<1>1. /\ UNCHANGED <<type, mgr, QAs, phase, leaving, cut>>
      /\ \A k \in Node \ {n} : call'[k] = call[k]
      /\ type = "Distribute"
           => \A f \in File : Home[f] # n => /\ FM'[f] = FM[f]
                                             /\ \A a \in Agent : list'[a][f] = list[a][f]
                                             /\ \A a \in Agent : f \in lost'[a] <=> f \in lost[a]
    BY NodeFrame
<1> SUFFICES ASSUME NEW a \in Agent, NEW f \in File, Loaded(a), FM'[f] # <<>>, f \notin lost'[a]
             PROVE  HasLast(a, f)' \/ OnItsWay(a, f)'
    BY <1>1 DEF KnowInv, Loaded
<1>2. type = "Distribute" /\ Home[f] \in Node /\ a \in Members(QAs) /\ QAs \in Seq(Agent)
    BY ConstantsAssumption DEF Loaded, ListInv, Active, TypeOK
<1>3. CASE Home[f] # n
    <2>1. HasLast(a, f) \/ OnItsWay(a, f)
        BY <1>1, <1>2, <1>3 DEF KnowInv
    <2> QED
        BY <1>1, <1>2, <1>3, <2>1 DEF HasLast, OnItsWay
<1>4. CASE Home[f] = n /\ Arrives(n)
    <2>1. QAs # <<>>
        BY <1>2, MembersFacts
    <2>2. PICK g \in File : Touches(n, g)
        BY <1>2, <1>4, ArrivesFacts
    <2>3. call[n] = Idle /\ Idle.pc = "idle" /\ list' = list /\ lost' = lost
        BY <2>2 DEF Touches, Idle
    <2>4. ~OnItsWay(a, f)
        BY <1>4, <2>3 DEF OnItsWay
    <2>5. FM'[f] = FM[f] => HasLast(a, f)
        BY <2>3, <2>4 DEF KnowInv
    <2>6. FM'[f] = FM[f] \/ OnItsWay(a, f)'
        BY <1>2, <1>4, <2>1, <2>2 DEF Touches, OnItsWay
    <2> QED
        BY <2>3, <2>5, <2>6 DEF HasLast
<1>5. CASE Home[f] = n /\ Continues(n)
    <2>1. FM' = FM /\ call[n].pc # "idle" /\ call[n].todo \in Seq(Agent) /\ call[n].file \in File
        BY <1>5, ContinuesFacts
    <2>2. CASE /\ call'[n].pc = "sent" /\ call'[n].file = call[n].file
               /\ call'[n].action = call[n].action
               /\ call'[n].todo = call[n].todo /\ UNCHANGED <<list, lost>>
        <3>1. HasLast(a, f) \/ OnItsWay(a, f)
            BY <2>1, <2>2 DEF KnowInv
        <3> QED
            BY <1>5, <2>1, <2>2, <3>1 DEF HasLast, OnItsWay
    <2>3. CASE Forsake(n) /\ list' = list
        <3>1. f \notin lost[a] /\ ~(a \in Members(call[n].todo) /\ call[n].file = f)
            BY <2>3 DEF Forsake
        <3>2. HasLast(a, f)
            BY <1>5, <2>1, <3>1 DEF KnowInv, OnItsWay
        <3> QED
            BY <2>1, <2>3, <3>2 DEF HasLast
    <2>4. CASE call[n].todo = <<>> /\ UNCHANGED <<list, lost>>
        <3>1. Members(call[n].todo) = {}
            BY <2>1, <2>4, MembersFacts
        <3>2. HasLast(a, f)
            BY <1>5, <2>1, <2>4, <3>1 DEF KnowInv, OnItsWay
        <3> QED
            BY <2>1, <2>4, <3>2 DEF HasLast
    <2>5. CASE /\ call[n].pc = "sent" /\ call[n].todo # <<>>
               /\ call'[n].pc = "loop" /\ call'[n].todo = Tail(call[n].todo)
               /\ call'[n].file = call[n].file /\ call'[n].action = call[n].action
               /\ Deliver(n)
        <3>1. PICK g \in File, b \in Agent : g = call[n].file /\ b = Head(call[n].todo)
            BY <2>1, <2>5, MembersFacts
        <3>2. /\ list' = [list EXCEPT ![b][g] = PushFile(list[b][g], call[n].action, call[n].msg)]
              /\ lost' = [lost EXCEPT ![b] = @ \ {g}]
            BY <2>5, <3>1 DEF Deliver
        <3>3. CASE a = b /\ f = g
            <4>1. call[n].action = "create" /\ call[n].msg = FM[f]
                BY <1>2, <2>1, <2>5, <3>1, <3>3 DEF CallInv
            <4>2. list'[a][f] = PushFile(list[a][f], "create", FM[f])
                BY <3>2, <3>3, <4>1 DEF TypeOK
            <4>3. list[a][f] \in Seq(Entry) /\ FM[f] \in Entry
                BY DEF TypeOK
            <4> QED
                BY <2>1, <4>2, <4>3, PushFileFacts DEF HasLast
        <3>4. CASE a # b \/ f # g
            <4>1. list'[a][f] = list[a][f] /\ f \notin lost[a]
                BY <3>2, <3>4 DEF TypeOK
            <4>2. HasLast(a, f) \/ OnItsWay(a, f)
                BY <2>1, <4>1 DEF KnowInv
            <4>3. OnItsWay(a, f) => OnItsWay(a, f)'
                <5>1. a # b /\ a \in Members(call[n].todo) => a \in Members(Tail(call[n].todo))
                    BY <2>1, <2>5, <3>1, MembersFacts
                <5> QED
                    BY <1>5, <2>5, <3>1, <3>4, <5>1 DEF OnItsWay
            <4> QED
                BY <2>1, <4>1, <4>2, <4>3 DEF HasLast
        <3> QED
            BY <3>3, <3>4
    <2> QED
        BY <1>5, <2>2, <2>3, <2>4, <2>5, ContinuesFacts
<1> QED
    BY <1>3, <1>4, <1>5

-----------------------------------------------------------------------------
(* The theorems.                                                            *)

LEMMA InvInit == Init => IInv
<1> SUFFICES ASSUME Init PROVE IInv
    OBVIOUS
<1>1. TypeOK
    BY TypeInit
<1>2. \A n \in Node : call[n] = Idle /\ Idle.pc = "idle"
    BY DEF Init, Idle
<1>3. CallInv
    BY <1>2 DEF CallInv
<1>4. RawInv /\ HoldInv /\ ListInv /\ UpInv /\ KnowInv
    BY DEF Init, RawInv, HoldInv, ListInv, UpInv, KnowInv, Loaded, Active
<1> QED
    BY <1>1, <1>3, <1>4 DEF IInv

LEMMA InvNext == IInv /\ [Next]_vars => IInv'
<1> SUFFICES ASSUME IInv, [Next]_vars PROVE IInv'
    OBVIOUS
<1>1. ASSUME NEW n \in Node, Arrives(n) \/ Continues(n)
      PROVE  IInv'
    <2>1. TypeOK /\ CallInv /\ ListInv /\ UpInv
        BY DEF IInv
    <2>2. TypeOK' /\ CallInv' /\ RawInv' /\ HoldInv' /\ KnowInv'
        BY <1>1, <2>1, TypeNode, CallNode, HoldNode, KnowNode
    <2>3. UNCHANGED <<mgr, QAs, phase, cut>>
        BY <1>1, <2>1, NodeFrame
    <2>4. ListInv' /\ UpInv'
        BY <2>1, <2>3 DEF ListInv, UpInv, Active, Members
    <2> QED
        BY <2>2, <2>4 DEF IInv
<1>2. CASE UNCHANGED vars
    BY <1>2 DEF vars, IInv, TypeOK, CallInv, RawInv, HoldInv, EntryOf, ListInv, UpInv, KnowInv,
                Loaded, HasLast, OnItsWay, Active, Members
<1> QED
    BY <1>1, <1>2, InvMgr, InvAgent DEF Next

(* The inductive invariant holds in every reachable state of the file map. *)
THEOREM InvCorrect == Spec => []IInv
BY InvInit, InvNext, PTL DEF Spec

(* Every variable of the manager and its agents keeps its type, for volumes *)
(* of every type, replicas on several nodes included (the run has one).     *)
THEOREM TypeCorrect == Spec => []TypeOK
<1>1. IInv => TypeOK
    BY DEF IInv
<1> QED
    BY <1>1, InvCorrect, PTL

(* The last entry an agent in service holds of a file is the one of Trace,  *)
(* unless a call failed or its registration was lost: registering before    *)
(* reading the map, and sending over the live list, loses no change.        *)
THEOREM FollowCorrect == Spec => []AgentsFollow
<1>1. IInv => AgentsFollow
    <2> SUFFICES ASSUME IInv, NEW a \in Agent, NEW f \in File, type = "Distribute", Quiet(f),
                        Follows(a, f), raw[Home[f]][f] # None
                 PROVE  /\ list[a][f] # <<>>
                        /\ list[a][f][Len(list[a][f])] = <<[node |-> Home[f], pba |-> raw[Home[f]][f]]>>
        BY DEF AgentsFollow
    <2>1. Home[f] \in Node /\ Loaded(a) /\ mgr = "up" /\ f \notin lost[a]
        BY ConstantsAssumption DEF Follows, Loaded, IInv, UpInv
    <2>2. FM[f] = EntryOf(f, raw[Home[f]][f]) /\ ~OnItsWay(a, f)
        BY <2>1 DEF Quiet, IInv, HoldInv, OnItsWay
    <2>3. EntryOf(f, raw[Home[f]][f]) # <<>>
        BY DEF EntryOf
    <2>4. HasLast(a, f)
        BY <2>1, <2>2, <2>3 DEF IInv, KnowInv
    <2> QED
        BY <2>2, <2>4 DEF HasLast, EntryOf
<1> QED
    BY <1>1, InvCorrect, PTL

(* What an agent in service is sent is the manager's entry at the moment of *)
(* delivery, although the request is built before it is sent.               *)
THEOREM DeliveryCorrect == Spec => DeliveriesAreCurrent
<1> DEFINE Current ==
      \A a \in Agent, f \in File :
         type = "Distribute" /\ phase[a] = "up" /\ Len(list'[a][f]) > Len(list[a][f])
           => list'[a][f][Len(list'[a][f])] = FM'[f]
<1>1. IInv /\ [Next]_vars => [Current]_vars
    <2> SUFFICES ASSUME IInv, Next, NEW a \in Agent, NEW f \in File, type = "Distribute",
                        phase[a] = "up", Len(list'[a][f]) > Len(list[a][f])
                 PROVE  list'[a][f][Len(list'[a][f])] = FM'[f]
        OBVIOUS
    <2>1. TypeOK /\ CallInv /\ list[a][f] \in Seq(Entry)
        BY DEF IInv, TypeOK
    <2>2. ~(Len(list[a][f]) > Len(list[a][f])) /\ Len(<<>>) = 0 /\ Len(list[a][f]) \in Nat
        BY <2>1
    <2>3. list'[a][f] # list[a][f] /\ list'[a][f] # <<>>
        BY <2>2
    <2>4. ASSUME NEW n \in Node, Deliver(n)
          PROVE  list'[a][f][Len(list'[a][f])] = FM'[f]
        <3>1. /\ call[n].pc = "sent" /\ call[n].todo # <<>> /\ call[n].todo \in Seq(Agent)
              /\ call[n].file \in File /\ call[n].msg \in Entry /\ FM' = FM
            BY <2>1, <2>4, Built DEF Deliver, CallInv, TypeOK, mgrVars
        <3>2. PICK g \in File, b \in Agent : g = call[n].file /\ b = Head(call[n].todo)
            BY <3>1, MembersFacts
        <3>3. list' = [list EXCEPT ![b][g] = PushFile(list[b][g], call[n].action, call[n].msg)]
            BY <2>4, <3>2 DEF Deliver
        <3>4. a = b /\ f = g /\ list'[a][f] = PushFile(list[a][f], call[n].action, call[n].msg)
            BY <2>1, <2>3, <3>3 DEF TypeOK
        <3>5. call[n].action = "create"
            BY <2>1, <2>2, <3>1, <3>4, PushFileFacts
        <3>6. call[n].msg = FM[f]
            BY <2>1, <3>1, <3>2, <3>4, <3>5 DEF CallInv
        <3> QED
            BY <2>1, <3>1, <3>4, <3>5, <3>6, PushFileFacts
    <2>5. ASSUME NEW n \in Node, Arrives(n) \/ (Continues(n) /\ ~Deliver(n))
          PROVE  list' = list
        BY <2>5 DEF Arrives, Continues, Unheard, PushCreate, PushModify, PushDelete, Send,
                    SendRaises, DeliverFails, PushDone, agentVars, vars
    <2>6. ASSUME NEW o \in Agent, AgentNext(o)
          PROVE  list'[a][f] = list[a][f] \/ list'[a][f] = <<>>
        <3>1. CASE o # a
            BY <2>1, <2>6, <3>1, OthersFrame
        <3>2. CASE o = a
            BY <2>1, <2>6, <3>2 DEF AgentNext, RegisterQA, MakeList, JoinList, GetFileMap, Serve, Ends,
                                    DeregisterBegin, DeregisterEnd, Forgets, TypeOK
        <3> QED
            BY <3>1, <3>2
    <2>7. MgrStart \/ MgrStop => list' = list
        BY DEF MgrStart, MgrStop, agentVars
    <2> QED
        BY <2>3, <2>4, <2>5, <2>6, <2>7 DEF Next
<1> QED
    BY <1>1, InvCorrect, PTL DEF Spec, DeliveriesAreCurrent

-----------------------------------------------------------------------------
(* What an agent answers.  To the invariant above this adds the deletes: a  *)
(* file that Trace does not hold is not in the manager's map (GoneInv), an  *)
(* entry the manager has not is not in an agent's list unless its delete is *)
(* on its way (EmptyInv); and a list has one entry of a name at most unless *)
(* the file was doubled (SingleInv), so that its last is also its first.    *)

GoneInv ==
    \A f \in File :
      type = "Distribute" /\ mgr = "up" /\ <<Home[f], f>> \notin late /\ raw[Home[f]][f] = None
        => FM[f] = <<>>

CreateInv ==
    \A n \in Node :
      type = "Distribute" /\ call[n].pc # "idle" /\ call[n].action = "create"
        => FM[call[n].file] # <<>>

SingleInv == \A a \in Agent, f \in File : f \notin doubled[a] => Len(list[a][f]) <= 1

DeleteOnItsWay(a, f) ==
    LET c == call[Home[f]] IN
    c.pc # "idle" /\ c.action = "delete" /\ c.file = f /\ a \in Members(c.todo)

EmptyInv ==
    \A a \in Agent, f \in File :
      Loaded(a) /\ FM[f] = <<>> /\ f \notin lost[a] /\ f \notin doubled[a]
        => list[a][f] = <<>> \/ DeleteOnItsWay(a, f)

DInv == GoneInv /\ CreateInv /\ SingleInv /\ EmptyInv

(* Trace holds nothing of a file of a distributed volume that its home has  *)
(* not.                                                                     *)
LEMMA HeldNothing ==
    ASSUME TypeOK, RawInv, type = "Distribute", NEW f \in File, raw[Home[f]][f] = None
    PROVE  Held(f) = {}
<1> SUFFICES ASSUME NEW x \in Held(f) PROVE FALSE
    OBVIOUS
<1>1. x.node \in Node /\ x.pba \in Layout /\ x.pba = raw[x.node][f]
    BY DEF Held, Replica
<1>2. raw[x.node][f] = None
    BY <1>1 DEF RawInv
<1> QED
    BY <1>1, <1>2, ConstantsAssumption

LEMMA OneLeft == \A x \in Nat : x # 0 /\ x <= 1 => x = 1 /\ x - 1 = 0
OBVIOUS

(* A list that is not empty has an entry. *)
LEMMA SomeEntry ==
    ASSUME NEW s \in Seq(Entry), s # <<>>
    PROVE  Len(s) \in Nat /\ Len(s) # 0
OBVIOUS

LEMMA AnswersInit == Init => DInv
<1> SUFFICES ASSUME Init PROVE DInv
    OBVIOUS
<1>1. \A n \in Node : call[n] = Idle /\ Idle.pc = "idle"
    BY DEF Init, Idle
<1>2. GoneInv /\ CreateInv /\ EmptyInv
    BY <1>1 DEF Init, GoneInv, CreateInv, EmptyInv, Loaded
<1>3. SingleInv
    <2>1. \A a \in Agent, f \in File : list[a][f] = <<>>
        BY DEF Init
    <2>2. Len(<<>>) <= 1
        OBVIOUS
    <2> QED
        BY <2>1, <2>2 DEF SingleInv
<1> QED
    BY <1>2, <1>3 DEF DInv

LEMMA AnswersMgr ==
    ASSUME IInv, DInv, MgrStart \/ MgrStop
    PROVE  DInv'
<1> USE DEF IInv, DInv
<1>1. CASE MgrStart
    <2>1. UNCHANGED <<type, raw, call, phase, list, lost, doubled, cut>> /\ mgr = "off"
        BY <1>1 DEF MgrStart, agentVars
    <2>2. \A n \in Node : call[n].pc = "idle"
        BY <2>1 DEF CallInv
    <2>3. \A a \in Agent : phase[a] \in {"registered", "loaded", "up"} => cut[a]
        BY <2>1 DEF ListInv, Active
    <2>4. CreateInv' /\ SingleInv' /\ EmptyInv'
        BY <2>1, <2>2, <2>3 DEF CreateInv, SingleInv, EmptyInv, Loaded
    <2>5. GoneInv'
        <3> SUFFICES ASSUME NEW f \in File, type = "Distribute", mgr' = "up", raw[Home[f]][f] = None
                     PROVE  FM'[f] = <<>>
            BY <2>1 DEF GoneInv
        <3>1. FM'[f] \in Orders({}, MaxEntries) /\ MaxEntries \in Nat
            BY <1>1, HeldNothing, ConstantsAssumption DEF MgrStart, Inserted
        <3>2. FM'[f] \in Seq({})
            BY <3>1, OrdersFacts
        <3> QED
            BY <3>2, MembersFacts
    <2> QED
        BY <2>4, <2>5
<1>2. CASE MgrStop
    <2>1. /\ UNCHANGED <<list, doubled>> /\ mgr' = "off"
          /\ \A n \in Node : call'[n] = Idle
        BY <1>2 DEF MgrStop
    <2>2. Idle.pc = "idle"
        BY DEF Idle
    <2>3. \A a \in Agent : phase'[a] \in {"registered", "loaded", "up"} => cut'[a]
        BY <1>2 DEF MgrStop, Active, TypeOK
    <2> QED
        BY <2>1, <2>2, <2>3 DEF GoneInv, CreateInv, SingleInv, EmptyInv, Loaded
<1> QED
    BY <1>1, <1>2

LEMMA AnswersAgent ==
    ASSUME IInv, DInv, NEW a \in Agent, AgentNext(a)
    PROVE  DInv'
<1> USE DEF IInv, DInv
<1>1. /\ UNCHANGED <<type, raw, mgr, FM, late>>
      /\ \A n \in Node :
                /\ call'[n].pc = call[n].pc /\ call'[n].action = call[n].action
                /\ call'[n].file = call[n].file
                /\ Members(call[n].todo) \subseteq Members(call'[n].todo)
    BY AgentFrame
<1>2. GoneInv' /\ CreateInv'
    BY <1>1 DEF GoneInv, CreateInv
<1>3. \A f \in File, o \in Agent : DeleteOnItsWay(o, f) => DeleteOnItsWay(o, f)'
    BY <1>1, ConstantsAssumption DEF DeleteOnItsWay
<1>4. \/ UNCHANGED <<list, lost, doubled>>
      \/ \A f \in File : list'[a][f] = <<>>
      \/ GetFileMap(a)
    BY DEF AgentNext, RegisterQA, MakeList, JoinList, Serve, Ends, DeregisterBegin, DeregisterEnd, Forgets, TypeOK
<1>5. ASSUME GetFileMap(a), NEW f \in File
      PROVE  list'[a][f] = IF FM[f] = <<>> THEN <<>> ELSE <<FM[f]>>
    BY <1>5 DEF GetFileMap, TypeOK
<1>6. SingleInv'
    <2> SUFFICES ASSUME NEW o \in Agent, NEW f \in File, f \notin doubled'[o]
                 PROVE  Len(list'[o][f]) <= 1
        BY DEF SingleInv
    <2>1. Len(<<>>) <= 1 /\ Len(<<FM[f]>>) <= 1
        OBVIOUS
    <2>2. CASE o # a
        BY <2>2, OthersFrame DEF SingleInv
    <2>3. CASE o = a
        BY <1>4, <1>5, <2>1, <2>3 DEF SingleInv
    <2> QED
        BY <2>2, <2>3
<1>7. EmptyInv'
    <2> SUFFICES ASSUME NEW o \in Agent, NEW f \in File, Loaded(o)', FM[f] = <<>>,
                        f \notin lost'[o], f \notin doubled'[o]
                 PROVE  list'[o][f] = <<>> \/ DeleteOnItsWay(o, f)'
        BY <1>1 DEF EmptyInv
    <2>1. type = "Distribute" /\ phase'[o] \in {"loaded", "up"} /\ ~cut'[o]
        BY <1>1 DEF Loaded
    <2>2. CASE o # a
        <3>1. /\ list'[o] = list[o] /\ lost'[o] = lost[o] /\ doubled'[o] = doubled[o]
              /\ phase[o] \in {"loaded", "up"} /\ ~cut[o]
            BY <2>1, <2>2, OthersFrame DEF Active
        <3> QED
            BY <1>3, <2>1, <3>1 DEF EmptyInv, Loaded
    <2>3. CASE o = a
        <3>1. /\ ~RegisterQA(a) /\ ~MakeList(a) /\ ~JoinList(a)
              /\ ~Ends(a) /\ ~DeregisterBegin(a) /\ ~DeregisterEnd(a)
            BY <2>1, <2>3 DEF RegisterQA, MakeList, JoinList, Ends, DeregisterBegin, DeregisterEnd, TypeOK
        <3>2. CASE GetFileMap(a)
            BY <1>5, <2>3, <3>2
        <3>3. CASE Serve(a)
            <4>1. UNCHANGED <<list, lost, doubled, cut>> /\ phase[a] = "loaded"
                BY <3>3 DEF Serve
            <4> QED
                BY <1>3, <2>1, <2>3, <4>1 DEF EmptyInv, Loaded
        <3> QED
            BY <3>1, <3>2, <3>3 DEF AgentNext
    <2> QED
        BY <2>2, <2>3
<1> QED
    BY <1>2, <1>6, <1>7

(* What a delivery makes of the list of the agent it reaches. *)
LEMMA DeliverFacts ==
    ASSUME IInv, NEW n \in Node, Deliver(n)
    PROVE  \E b \in Agent, g \in File :
             /\ b = Head(call[n].todo) /\ g = call[n].file
             /\ list' = [list EXCEPT ![b][g] = PushFile(list[b][g], call[n].action, call[n].msg)]
             /\ lost' = [lost EXCEPT ![b] = @ \ {g}]
             /\ doubled' = IF call[n].action = "create" /\ list[b][g] # <<>>
                           THEN [doubled EXCEPT ![b] = @ \cup {g}] ELSE doubled
             /\ list[b][g] \in Seq(Entry)
<1>1. call[n].todo \in Seq(Agent) /\ call[n].todo # <<>> /\ call[n].file \in File
    BY Built DEF IInv, TypeOK, CallInv, Deliver
<1>2. PICK b \in Agent, g \in File : b = Head(call[n].todo) /\ g = call[n].file
    BY <1>1, MembersFacts
<1>3. list[b][g] \in Seq(Entry)
    BY DEF IInv, TypeOK
<1> QED
    BY <1>2, <1>3 DEF Deliver

(* Only a delivery changes a list. *)
LEMMA ListsFrame ==
    ASSUME NEW n \in Node, Arrives(n) \/ Continues(n), ~Deliver(n)
    PROVE  UNCHANGED <<list, doubled>>
BY DEF Arrives, Continues, Unheard, PushCreate, PushModify, PushDelete, Send, SendRaises,
       DeliverFails, PushDone, agentVars, vars

LEMMA SingleNode ==
    ASSUME IInv, SingleInv, NEW n \in Node, Arrives(n) \/ Continues(n)
    PROVE  SingleInv'
<1>1. CASE ~Deliver(n)
    BY <1>1, ListsFrame DEF SingleInv
<1>2. CASE Deliver(n)
    <2>1. PICK b \in Agent, g \in File :
             /\ list' = [list EXCEPT ![b][g] = PushFile(list[b][g], call[n].action, call[n].msg)]
             /\ doubled' = IF call[n].action = "create" /\ list[b][g] # <<>>
                           THEN [doubled EXCEPT ![b] = @ \cup {g}] ELSE doubled
             /\ list[b][g] \in Seq(Entry)
        BY <1>2, DeliverFacts
    <2> SUFFICES ASSUME NEW a \in Agent, NEW f \in File, f \notin doubled'[a]
                 PROVE  Len(list'[a][f]) <= 1
        BY DEF SingleInv
    <2>2. f \notin doubled[a]
        BY <2>1 DEF IInv, TypeOK
    <2>3. CASE a # b \/ f # g
        <3>1. list'[a][f] = list[a][f]
            BY <2>1, <2>3 DEF IInv, TypeOK
        <3> QED
            BY <2>2, <3>1 DEF SingleInv
    <2>4. CASE a = b /\ f = g
        <3>1. list'[a][f] = PushFile(list[a][f], call[n].action, call[n].msg)
            BY <2>1, <2>4 DEF IInv, TypeOK
        <3>2. Len(list[a][f]) <= 1 /\ Len(list[a][f]) \in Nat
            BY <2>1, <2>2, <2>4 DEF SingleInv
        <3>3. CASE call[n].action = "create"
            <4>1. list[a][f] = <<>>
                BY <2>1, <2>4, <3>3 DEF IInv, TypeOK
            <4>2. list'[a][f] = Append(<<>>, call[n].msg)
                BY <3>1, <3>3, <4>1 DEF PushFile
            <4> QED
                BY <4>2
        <3>4. CASE call[n].action # "create"
            <4>1. CASE list[a][f] = <<>>
                BY <3>1, <3>2, <3>4, <4>1 DEF PushFile
            <4>2. CASE list[a][f] # <<>>
                <5>1. list'[a][f] = SubSeq(list[a][f], 1, Len(list[a][f]) - 1)
                    BY <3>1, <3>4, <4>2 DEF PushFile
                <5>2. Len(SubSeq(list[a][f], 1, Len(list[a][f]) - 1)) <= Len(list[a][f])
                    BY <2>1, <2>4, <3>2, <4>2
                <5>3. Len(SubSeq(list[a][f], 1, Len(list[a][f]) - 1)) \in Nat
                    BY <2>1, <2>4, <3>2, <4>2
                <5> QED
                    BY <3>2, <5>1, <5>2, <5>3
            <4> QED
                BY <4>1, <4>2
        <3> QED
            BY <3>3, <3>4
    <2> QED
        BY <2>3, <2>4
<1> QED
    BY <1>1, <1>2

LEMMA GoneNode ==
    ASSUME IInv, GoneInv, CreateInv, NEW n \in Node, Arrives(n) \/ Continues(n)
    PROVE  GoneInv' /\ CreateInv'
<1> USE DEF IInv
<1>1. /\ type' = type /\ mgr' = mgr
      /\ \A k \in Node \ {n} : raw'[k] = raw[k] /\ call'[k] = call[k]
      /\ type = "Distribute"
           => \A f \in File : Home[f] # n => FM'[f] = FM[f] /\ raw'[n][f] = raw[n][f]
      /\ \A f \in File : Home[f] # n => (<<Home[f], f>> \in late' <=> <<Home[f], f>> \in late)
    BY NodeFrame
<1>2. (\A f \in File : Home[f] \in Node) /\ None \notin Layout
    BY ConstantsAssumption
<1>3. GoneInv'
    <2> SUFFICES ASSUME NEW f \in File, type = "Distribute", mgr = "up",
                        <<Home[f], f>> \notin late', raw'[Home[f]][f] = None
                 PROVE  FM'[f] = <<>>
        BY <1>1 DEF GoneInv
    <2>1. CASE Home[f] # n
        BY <1>1, <1>2, <2>1 DEF GoneInv
    <2>2. CASE Home[f] = n /\ Continues(n)
        BY <2>2, ContinuesFacts DEF GoneInv
    <2>3. CASE Home[f] = n /\ Arrives(n)
        <3>1. PICK g \in File : Touches(n, g)
            BY <2>3, ArrivesFacts
        <3>2. CASE f # g
            BY <2>3, <3>1, <3>2 DEF GoneInv, Touches
        <3>3. CASE f = g
            BY <1>2, <2>3, <3>1, <3>3 DEF GoneInv, Touches
        <3> QED
            BY <3>2, <3>3
    <2> QED
        BY <2>1, <2>2, <2>3
<1>4. CreateInv'
    <2> SUFFICES ASSUME NEW k \in Node, type = "Distribute", call'[k].pc # "idle",
                        call'[k].action = "create"
                 PROVE  FM'[call'[k].file] # <<>>
        BY <1>1 DEF CreateInv
    <2>1. Idle.pc = "idle"
        BY DEF Idle
    <2>2. CASE k # n
        <3>1. call'[k] = call[k] /\ call[k].file \in File /\ Home[call[k].file] = k
            BY <1>1, <2>2 DEF CallInv
        <3> QED
            BY <1>1, <2>2, <3>1 DEF CreateInv
    <2>3. CASE k = n /\ Continues(n)
        BY <2>1, <2>3, ContinuesFacts DEF CreateInv
    <2>4. CASE k = n /\ Arrives(n)
        <3>1. PICK g \in File : Touches(n, g)
            BY <2>4, ArrivesFacts
        <3>2. \A l : EntryOf(g, l) # <<>>
            BY DEF EntryOf
        <3> QED
            BY <2>1, <2>4, <3>1, <3>2 DEF Touches
    <2> QED
        BY <2>2, <2>3, <2>4
<1> QED
    BY <1>3, <1>4

LEMMA EmptyNode ==
    ASSUME IInv, DInv, NEW n \in Node, Arrives(n) \/ Continues(n)
    PROVE  EmptyInv'
<1> USE DEF IInv, DInv
<1>1. /\ UNCHANGED <<type, mgr, QAs, phase, leaving, cut>>
      /\ \A k \in Node \ {n} : call'[k] = call[k]
      /\ type = "Distribute"
           => \A f \in File : Home[f] # n => /\ FM'[f] = FM[f]
                                             /\ \A a \in Agent : list'[a][f] = list[a][f]
                                             /\ \A a \in Agent : f \in lost'[a] <=> f \in lost[a]
                                             /\ \A a \in Agent : f \in doubled'[a] <=> f \in doubled[a]
    BY NodeFrame
<1> SUFFICES ASSUME NEW a \in Agent, NEW f \in File, Loaded(a), FM'[f] = <<>>,
                    f \notin lost'[a], f \notin doubled'[a]
             PROVE  list'[a][f] = <<>> \/ DeleteOnItsWay(a, f)'
    BY <1>1 DEF EmptyInv, Loaded
<1>2. type = "Distribute" /\ Home[f] \in Node /\ a \in Members(QAs) /\ QAs \in Seq(Agent)
    BY ConstantsAssumption DEF Loaded, ListInv, Active, TypeOK
<1>3. CASE Home[f] # n
    <2>1. list[a][f] = <<>> \/ DeleteOnItsWay(a, f)
        BY <1>1, <1>2, <1>3 DEF EmptyInv
    <2> QED
        BY <1>1, <1>2, <1>3, <2>1 DEF DeleteOnItsWay
<1>4. CASE Home[f] = n /\ Arrives(n)
    <2>1. QAs # <<>>
        BY <1>2, MembersFacts
    <2>2. PICK g \in File : Touches(n, g)
        BY <1>2, <1>4, ArrivesFacts
    <2>3. /\ call[n] = Idle /\ Idle.pc = "idle" /\ list' = list /\ lost' = lost
          /\ doubled' = doubled /\ \A l : EntryOf(f, l) # <<>>
        BY <2>2 DEF Touches, Idle, EntryOf
    <2>4. ~DeleteOnItsWay(a, f)
        BY <1>4, <2>3 DEF DeleteOnItsWay
    <2>5. FM'[f] = FM[f] => list[a][f] = <<>>
        BY <2>3, <2>4 DEF EmptyInv
    <2>6. FM'[f] = FM[f] \/ DeleteOnItsWay(a, f)'
        BY <1>2, <1>4, <2>1, <2>2, <2>3 DEF Touches, DeleteOnItsWay
    <2> QED
        BY <2>3, <2>5, <2>6
<1>5. CASE Home[f] = n /\ Continues(n)
    <2>1. FM' = FM /\ call[n].pc # "idle" /\ call[n].todo \in Seq(Agent) /\ call[n].file \in File
        BY <1>5, ContinuesFacts
    <2>2. CASE /\ call'[n].pc = "sent" /\ call'[n].file = call[n].file
               /\ call'[n].action = call[n].action
               /\ call'[n].todo = call[n].todo /\ UNCHANGED <<list, lost, doubled>>
        <3>1. list[a][f] = <<>> \/ DeleteOnItsWay(a, f)
            BY <2>1, <2>2 DEF EmptyInv
        <3> QED
            BY <1>5, <2>1, <2>2, <3>1 DEF DeleteOnItsWay
    <2>3. CASE Forsake(n) /\ UNCHANGED <<list, doubled>>
        <3>1. f \notin lost[a] /\ ~(a \in Members(call[n].todo) /\ call[n].file = f)
            BY <2>3 DEF Forsake
        <3>2. list[a][f] = <<>>
            BY <1>5, <2>1, <2>3, <3>1 DEF EmptyInv, DeleteOnItsWay
        <3> QED
            BY <2>3, <3>2
    <2>4. CASE call[n].todo = <<>> /\ UNCHANGED <<list, lost, doubled>>
        <3>1. Members(call[n].todo) = {}
            BY <2>1, <2>4, MembersFacts
        <3>2. list[a][f] = <<>>
            BY <1>5, <2>1, <2>4, <3>1 DEF EmptyInv, DeleteOnItsWay
        <3> QED
            BY <2>4, <3>2
    <2>5. CASE /\ call[n].pc = "sent" /\ call[n].todo # <<>>
               /\ call'[n].pc = "loop" /\ call'[n].todo = Tail(call[n].todo)
               /\ call'[n].file = call[n].file /\ call'[n].action = call[n].action
               /\ Deliver(n)
        <3>1. PICK b \in Agent, g \in File :
                 /\ b = Head(call[n].todo) /\ g = call[n].file
                 /\ list' = [list EXCEPT ![b][g] = PushFile(list[b][g], call[n].action, call[n].msg)]
                 /\ lost' = [lost EXCEPT ![b] = @ \ {g}]
                 /\ doubled' = IF call[n].action = "create" /\ list[b][g] # <<>>
                               THEN [doubled EXCEPT ![b] = @ \cup {g}] ELSE doubled
                 /\ list[b][g] \in Seq(Entry)
            BY <2>5, DeliverFacts
        <3>2. f \notin doubled[a]
            BY <3>1 DEF TypeOK
        <3>3. CASE a = b /\ f = g
            <4>1. call[n].action = "delete"
                BY <1>2, <2>1, <3>1, <3>3 DEF CallInv, CreateInv
            <4>2. list'[a][f] = PushFile(list[a][f], "delete", call[n].msg)
                BY <3>1, <3>3, <4>1 DEF TypeOK
            <4>3. Len(list[a][f]) <= 1 /\ Len(list[a][f]) \in Nat
                BY <3>1, <3>2, <3>3 DEF SingleInv
            <4>4. CASE list[a][f] = <<>>
                BY <4>2, <4>4 DEF PushFile
            <4>5. CASE list[a][f] # <<>>
                <5>1. Len(list[a][f]) - 1 = 0
                    <6>1. Len(list[a][f]) # 0
                        BY <3>1, <3>3, <4>5, SomeEntry
                    <6> QED
                        BY <4>3, <6>1, OneLeft
                <5>2. list'[a][f] = SubSeq(list[a][f], 1, 0)
                    BY <4>2, <4>5, <5>1 DEF PushFile
                <5>3. SubSeq(list[a][f], 1, 0) = <<>>
                    BY <3>1, <3>3
                <5> QED
                    BY <5>2, <5>3
            <4> QED
                BY <4>4, <4>5
        <3>4. CASE a # b \/ f # g
            <4>1. list'[a][f] = list[a][f] /\ f \notin lost[a]
                BY <3>1, <3>4 DEF TypeOK
            <4>2. list[a][f] = <<>> \/ DeleteOnItsWay(a, f)
                BY <2>1, <3>2, <4>1 DEF EmptyInv
            <4>3. DeleteOnItsWay(a, f) => DeleteOnItsWay(a, f)'
                <5>1. a # b /\ a \in Members(call[n].todo) => a \in Members(Tail(call[n].todo))
                    BY <2>1, <2>5, <3>1, MembersFacts
                <5> QED
                    BY <1>5, <2>5, <3>1, <3>4, <5>1 DEF DeleteOnItsWay
            <4> QED
                BY <4>1, <4>2, <4>3
        <3> QED
            BY <3>3, <3>4
    <2> QED
        BY <1>5, <2>2, <2>3, <2>4, <2>5, ContinuesFacts
<1> QED
    BY <1>3, <1>4, <1>5

LEMMA AnswersNext == IInv /\ DInv /\ [Next]_vars => DInv'
<1> SUFFICES ASSUME IInv, DInv, [Next]_vars PROVE DInv'
    OBVIOUS
<1>1. ASSUME NEW n \in Node, Arrives(n) \/ Continues(n)
      PROVE  DInv'
    BY <1>1, GoneNode, SingleNode, EmptyNode DEF DInv
<1>2. CASE UNCHANGED vars
    BY <1>2 DEF vars, DInv, GoneInv, CreateInv, SingleInv, EmptyInv, Loaded, DeleteOnItsWay, Members
<1> QED
    BY <1>1, <1>2, AnswersMgr, AnswersAgent DEF Next

(* An agent that was told every change and was never sent a file it already *)
(* listed answers with exactly what Trace holds of the file, for any number *)
(* of nodes, files and agents: a file is not served after its deletion.     *)
THEOREM AnswersCorrect == Spec => []AnswersUnlessDoubled
<1>1. IInv /\ DInv => AnswersUnlessDoubled
    <2> SUFFICES ASSUME IInv, DInv, NEW a \in Agent, NEW f \in File, type = "Distribute", Quiet(f),
                        Follows(a, f), f \notin doubled[a]
                 PROVE  Members(Answer(a, f)) = Held(f)
        BY DEF AnswersUnlessDoubled
    <2>1. /\ Home[f] \in Node /\ Loaded(a) /\ mgr = "up" /\ f \notin lost[a]
          /\ <<Home[f], f>> \notin late /\ call[Home[f]].file # f /\ TypeOK /\ RawInv
        BY ConstantsAssumption DEF Follows, Loaded, IInv, UpInv, Quiet
    <2>2. list[a][f] \in Seq(Entry)
        BY DEF IInv, TypeOK
    <2>3. CASE raw[Home[f]][f] = None
        <3>1. FM[f] = <<>> /\ ~DeleteOnItsWay(a, f)
            BY <2>1, <2>3 DEF DInv, GoneInv, DeleteOnItsWay
        <3>2. list[a][f] = <<>>
            BY <2>1, <3>1 DEF DInv, EmptyInv
        <3>3. Answer(a, f) = <<>>
            BY <3>2 DEF Answer
        <3>4. Members(<<>>) = {}
            BY DEF Members
        <3> QED
            BY <2>1, <2>3, <3>3, <3>4, HeldNothing
    <2>4. CASE raw[Home[f]][f] # None
        <3>1. FM[f] = EntryOf(f, raw[Home[f]][f]) /\ ~OnItsWay(a, f)
            BY <2>1, <2>4 DEF IInv, HoldInv, OnItsWay
        <3>2. HasLast(a, f)
            BY <2>1, <3>1 DEF IInv, KnowInv, EntryOf
        <3>3. Len(list[a][f]) = 1
            <4>1. Len(list[a][f]) \in Nat /\ Len(list[a][f]) # 0
                BY <2>2, <3>2, SomeEntry DEF HasLast
            <4>2. Len(list[a][f]) <= 1
                BY DEF DInv, SingleInv
            <4> QED
                BY <4>1, <4>2, OneLeft
        <3>4. Answer(a, f) = EntryOf(f, raw[Home[f]][f])
            BY <2>2, <3>1, <3>2, <3>3 DEF Answer, HasLast
        <3>5. Held(f) = Members(EntryOf(f, raw[Home[f]][f]))
            BY <2>1, <2>4, HeldOne
        <3> QED
            BY <3>4, <3>5
    <2> QED
        BY <2>3, <2>4
<1>2. Spec => []DInv
    BY AnswersInit, AnswersNext, InvCorrect, PTL DEF Spec
<1> QED
    BY <1>1, <1>2, InvCorrect, PTL
=============================================================================
