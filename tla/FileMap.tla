------------------------------ MODULE FileMap ------------------------------
(***************************************************************************)
(* The map of one PVC: the file manager (lba2pba/DBFileManager/manager.py) *)
(* and its query agents (lba2pba/DBAgent/db_agent.py).                     *)
(*                                                                         *)
(* Trace calls PushPba.  PushPba changes FM and then sends the entry to    *)
(* every address of QAs with PushFile; an exception in the loop ends it.   *)
(* Agents call RegisterQA, GetFileMap and, when they end, DeregisterQA.    *)
(* Threads interleave where they wait: at a PushFile call (the request is  *)
(* built, then delivered) and between the calls of an agent.  RegisterQA   *)
(* is also cut where it looks for the PVC's list, makes it and appends to  *)
(* it, DeregisterQA between computing the new list and assigning it.       *)
(*                                                                         *)
(* Assumed: the PushPba calls of one storage node do not overlap.  They do *)
(* when Trace was restarted and a worker has two senders (module Restart); *)
(* what that does to the maps is in module Trace.                          *)
(*                                                                         *)
(* An agent looks a file up by its name, so its list filePba is kept as    *)
(* one list per name.  Left out: rawFM of the manager (written, never read *)
(* after startup), file names that contain a PVC's name.                   *)
(***************************************************************************)
EXTENDS Naturals, Sequences

CONSTANTS
    Types,      \* types of volumes
    Node,       \* storage nodes
    File,       \* files of the PVC, by path below its directory
    Home,       \* the node that holds a file of a distributed volume
    Layout,     \* non-empty lists of extents
    Agent,      \* addresses of query agents
    None,       \* no entry, no file
    MaxQA,      \* bound: length of QAs
    MaxEntries  \* bound: entries and replicas of a file (at least one per node)

ASSUME ConstantsAssumption ==
    /\ Types \subseteq {"Distribute", "Replicate", "Disperse"}
    /\ Home \in [File -> Node]
    /\ None \notin File
    /\ None \notin Layout
    /\ MaxQA \in Nat
    /\ MaxEntries \in Nat

VARIABLES
    type,       \* type of the volume, from gluster volume info
    raw,        \* what Trace holds in rawFM: raw[node][file]
    mgr,        \* the manager: off, up, or blind (pvcInfo lacks the PVC)
    FM,         \* self.FM[pvc] of the manager
    known,      \* the PVC has a list in self.QAs
    QAs,        \* self.QAs[pvc]
    call,       \* per node, the PushPba call under way
    phase,      \* life of an agent
    list,       \* FM.filePba of an agent, by name
    leaving,    \* the list its DeregisterQA call has computed
    late,       \* history: the manager was not told the last change at a node
    lost,       \* history: files whose last change an agent was not told
    doubled,    \* history: files an agent was sent although it listed them
    cut         \* history: the agent's registration was lost

mgrVars == <<type, raw, mgr, FM, late>>
listVars == <<known, QAs>>
agentVars == <<phase, list, leaving, doubled, cut>>
vars == <<type, raw, mgr, FM, known, QAs, call, phase, list, leaving, late, lost, doubled, cut>>

(* An entry lists its replicas: one of a distributed file, none if the key  *)
(* is not in the dictionary.                                                *)
Replica == [node : Node, pba : Layout]
Entry == Seq(Replica)
Idle == [pc |-> "idle", action |-> "none", file |-> None,
         todo |-> <<>>, live |-> FALSE, msg |-> <<>>]
Call == [pc : {"idle", "loop", "sent"}, action : {"none", "create", "delete"},
         file : File \cup {None}, todo : Seq(Agent), live : BOOLEAN, msg : Entry]
Members(s) == {s[i] : i \in 1..Len(s)}
Active(a) == phase[a] \in {"registered", "loaded", "up"}

TypeOK ==
    /\ type \in Types
    /\ raw \in [Node -> [File -> Layout \cup {None}]]
    /\ mgr \in {"off", "up", "blind"}
    /\ FM \in [File -> Entry]
    /\ known \in BOOLEAN
    /\ QAs \in Seq(Agent)
    /\ call \in [Node -> Call]
    /\ phase \in [Agent -> {"off", "making", "joining", "registered", "loaded", "up", "leaving"}]
    /\ list \in [Agent -> [File -> Seq(Entry)]]
    /\ leaving \in [Agent -> Seq(Agent)]
    /\ late \in SUBSET (Node \X File)
    /\ lost \in [Agent -> SUBSET File]
    /\ doubled \in [Agent -> SUBSET File]
    /\ cut \in [Agent -> BOOLEAN]

(* Trace has started; a distributed volume keeps a file on one node. *)
Init ==
    /\ type \in Types
    /\ raw \in [Node -> [File -> Layout \cup {None}]]
    /\ type = "Distribute" => \A n \in Node, f \in File : n # Home[f] => raw[n][f] = None
    /\ mgr = "off"
    /\ FM = [f \in File |-> <<>>]
    /\ known = FALSE
    /\ QAs = <<>>
    /\ call = [n \in Node |-> Idle]
    /\ phase = [a \in Agent |-> "off"]
    /\ list = [a \in Agent |-> [f \in File |-> <<>>]]
    /\ leaving = [a \in Agent |-> <<>>]
    /\ late = {}
    /\ lost = [a \in Agent |-> {}]
    /\ doubled = [a \in Agent |-> {}]
    /\ cut = [a \in Agent |-> FALSE]

-----------------------------------------------------------------------------
(* The lists without duplicates of the elements of S, of at most k. *)
Orders(S, k) ==
    {s \in UNION {[1..j -> S] : j \in 0..k} :
        /\ Members(s) = S
        /\ \A i, j \in 1..Len(s) : i # j => s[i] # s[j]}

(* Trace's map as seen from the PVC. *)
Held(f) == {r \in Replica : r.pba = raw[r.node][f]}

(* The entries pvcFMInsert may make of it: the nodes come in some order. *)
Inserted(f) ==
    IF type \in {"Distribute", "Replicate"} THEN Orders(Held(f), MaxEntries) ELSE {<<>>}

(* __init__ and server.start(): a new manager has the map and no agents.    *)
(* The agents of an earlier one are not told and do not register again.     *)
MgrStart ==
    /\ mgr = "off"
    /\ \/ /\ mgr' = "up"
          /\ FM' \in [File -> UNION {Inserted(f) : f \in File}]
          /\ \A f \in File : FM'[f] \in Inserted(f)
       \/ mgr' = "blind" /\ UNCHANGED FM
    /\ late' = {}
    /\ UNCHANGED <<type, raw, listVars, call, agentVars, lost>>

(* The process ends, and with it the calls under way. *)
MgrStop ==
    /\ mgr # "off"
    /\ mgr' = "off"
    /\ FM' = [f \in File |-> <<>>]
    /\ known' = FALSE
    /\ QAs' = <<>>
    /\ call' = [n \in Node |-> Idle]
    /\ phase' = [a \in Agent |-> IF Active(a) THEN phase[a] ELSE "off"]
    /\ leaving' = [a \in Agent |-> <<>>]
    /\ cut' = [a \in Agent |-> Active(a)]
    /\ UNCHANGED <<type, raw, list, late, lost, doubled>>

-----------------------------------------------------------------------------
(* PushPba.                                                                 *)

(* The call returns, or raises and Trace's loop ends. *)
Return(n) == call' = [call EXCEPT ![n] = Idle]

(* The agents that a loop which ends early has left behind. *)
Forsake(n) ==
    lost' = [a \in Agent |-> IF a \in Members(call[n].todo) THEN lost[a] \cup {call[n].file} ELSE lost[a]]

(* The loop over self.QAs[pvcName], if there is one. *)
StartLoop(n, action, f) ==
    call' = [call EXCEPT ![n] =
      IF QAs = <<>> THEN Idle
      ELSE [pc |-> "loop", action |-> action, file |-> f, todo |-> QAs, live |-> TRUE, msg |-> <<>>]]

(* A file of a distributed volume is reported by its node only. *)
Reports(n, f) == type = "Distribute" => n = Home[f]

(* Trace's map changes and the manager's does not: it is not there yet,     *)
(* Trace's call ended before, or pvcName is '' and PushPba answers OK       *)
(* without doing anything.                                                  *)
Unheard(n, f) ==
    /\ Reports(n, f) /\ call[n].pc = "idle"
    /\ \E v \in Layout \cup {None} : v # raw[n][f] /\ raw' = [raw EXCEPT ![n][f] = v]
    /\ late' = late \cup {<<n, f>>}
    /\ UNCHANGED <<type, mgr, FM, listVars, call, agentVars, lost>>

PushCreate(n, f, l) ==
    /\ mgr = "up" /\ Reports(n, f) /\ call[n].pc = "idle"
    /\ Len(FM[f]) < MaxEntries
    /\ \A a \in Agent : Len(list[a][f]) < MaxEntries
    /\ raw' = [raw EXCEPT ![n][f] = l]
    /\ FM' = [FM EXCEPT ![f] =
         CASE type = "Distribute" -> <<[node |-> n, pba |-> l]>>
           [] type = "Replicate" -> Append(@, [node |-> n, pba |-> l])
           [] OTHER -> @]
    /\ StartLoop(n, "create", f)
    /\ late' = late \ {<<n, f>>}
    /\ UNCHANGED <<type, mgr, listVars, agentVars, lost>>

(* Both branches raise before they change anything: a repeated field cannot *)
(* be assigned, a FilePBA has no index.                                     *)
PushModify(n, f) ==
    /\ mgr = "up" /\ Reports(n, f) /\ call[n].pc = "idle"
    /\ raw[n][f] # None
    /\ UNCHANGED vars

(* Mutant: the entry is set to None. *)
PushDelete_None(n, f) ==
    /\ mgr = "up" /\ Reports(n, f) /\ call[n].pc = "idle"
    /\ raw[n][f] # None
    /\ raw' = [raw EXCEPT ![n][f] = None]
    /\ FM' = [FM EXCEPT ![f] = None]
    /\ StartLoop(n, "delete", f)
    /\ late' = late \ {<<n, f>>}
    /\ UNCHANGED <<type, mgr, listVars, agentVars, lost>>

(* del self.FM[pvcName][rPath]: the entry goes with all its replicas. *)
PushDelete(n, f) ==
    /\ mgr = "up" /\ Reports(n, f) /\ call[n].pc = "idle"
    /\ raw[n][f] # None
    /\ raw' = [raw EXCEPT ![n][f] = None]
    /\ FM' = [FM EXCEPT ![f] = <<>>]
    /\ StartLoop(n, "delete", f)
    /\ late' = late \ {<<n, f>>}
    /\ UNCHANGED <<type, mgr, listVars, agentVars, lost>>

(* The request is built; a create sends the entry as it is now. *)
Send(n) ==
    /\ call[n].pc = "loop" /\ call[n].todo # <<>>
    /\ call[n].action = "create" => FM[call[n].file] # <<>>
    /\ call' = [call EXCEPT ![n].pc = "sent",
                            ![n].msg = IF call[n].action = "create" THEN FM[call[n].file] ELSE <<>>]
    /\ UNCHANGED <<mgrVars, listVars, agentVars, lost>>

(* KeyError: the entry is gone meanwhile, or was never made. *)
SendRaises(n) ==
    /\ call[n].pc = "loop" /\ call[n].todo # <<>>
    /\ call[n].action = "create" /\ FM[call[n].file] = <<>>
    /\ Return(n)
    /\ Forsake(n)
    /\ UNCHANGED <<mgrVars, listVars, agentVars>>

(* Mutant: a create is ignored if the file is there. *)
PushFile_Once(s, action, msg) ==
    IF action = "create" THEN IF s = <<>> THEN <<msg>> ELSE s
    ELSE IF s = <<>> THEN s
    ELSE SubSeq(s, 1, Len(s) - 1)

(* Mutant: a create goes in front. *)
PushFile_Front(s, action, msg) ==
    IF action = "create" THEN <<msg>> \o s
    ELSE IF s = <<>> THEN s
    ELSE SubSeq(s, 1, Len(s) - 1)

(* Mutant: a delete is ignored. *)
PushFile_Keeps(s, action, msg) ==
    IF action = "create" THEN Append(s, msg) ELSE s

(* PushFile of the agent: a create is appended whether or not the file is   *)
(* there, a delete takes out the last entry of that name.                   *)
PushFile(s, action, msg) ==
    IF action = "create" THEN Append(s, msg)
    ELSE IF s = <<>> THEN s
    ELSE SubSeq(s, 1, Len(s) - 1)

Deliver(n) ==
    LET c == call[n] a == Head(c.todo) IN
    /\ c.pc = "sent" /\ phase[a] = "up"
    /\ list' = [list EXCEPT ![a][c.file] = PushFile(@, c.action, c.msg)]
    /\ lost' = [lost EXCEPT ![a] = @ \ {c.file}]
    /\ doubled' = IF c.action = "create" /\ list[a][c.file] # <<>>
                  THEN [doubled EXCEPT ![a] = @ \cup {c.file}] ELSE doubled
    /\ call' = [call EXCEPT ![n].pc = "loop", ![n].todo = Tail(@), ![n].msg = <<>>]
    /\ UNCHANGED <<mgrVars, listVars, phase, leaving, cut>>

(* Mutant: the push is repeated until the agent answers. *)
DeliverFails_Retry(n) ==
    /\ call[n].pc = "sent"
    /\ UNCHANGED vars

(* RpcError: the agent is gone or has not started its server. *)
DeliverFails(n) ==
    /\ call[n].pc = "sent"
    /\ Return(n)
    /\ Forsake(n)
    /\ UNCHANGED <<mgrVars, listVars, agentVars>>

PushDone(n) ==
    /\ call[n].pc = "loop" /\ call[n].todo = <<>>
    /\ Return(n)
    /\ UNCHANGED <<mgrVars, listVars, agentVars, lost>>

-----------------------------------------------------------------------------
(* The agents.                                                              *)

(* The loops under way go on over a list that is the PVC's no more. *)
Detach ==
    call' = [n \in Node |-> IF call[n].live THEN [call[n] EXCEPT !.live = FALSE] ELSE call[n]]

(* RegisterQA looks for the list of the PVC, *)
RegisterQA(a) ==
    /\ phase[a] = "off" /\ mgr # "off"
    /\ Len(QAs) < MaxQA
    /\ phase' = [phase EXCEPT ![a] = IF known THEN "joining" ELSE "making"]
    /\ UNCHANGED <<mgrVars, listVars, call, list, leaving, lost, doubled, cut>>

(* makes it if there was none, in the place of one made meanwhile, *)
MakeList(a) ==
    /\ phase[a] = "making"
    /\ known' = TRUE
    /\ QAs' = <<>>
    /\ Detach
    /\ phase' = [phase EXCEPT ![a] = "joining"]
    /\ cut' = [o \in Agent |-> Active(o)]
    /\ UNCHANGED <<mgrVars, list, leaving, lost, doubled>>

(* and appends to it, and so to every loop over the same list. *)
JoinList(a) ==
    /\ phase[a] = "joining"
    /\ Len(QAs) < MaxQA
    /\ QAs' = Append(QAs, a)
    /\ call' = [n \in Node |-> IF call[n].live THEN [call[n] EXCEPT !.todo = Append(@, a)] ELSE call[n]]
    /\ phase' = [phase EXCEPT ![a] = "registered"]
    /\ cut' = [cut EXCEPT ![a] = FALSE]
    /\ UNCHANGED <<mgrVars, known, list, leaving, lost, doubled>>

(* A manager that does not know the PVC raises instead; the agent ends. *)
GetFileMap(a) ==
    /\ phase[a] = "registered" /\ mgr = "up"
    /\ list' = [list EXCEPT ![a] = [f \in File |-> IF FM[f] = <<>> THEN <<>> ELSE <<FM[f]>>]]
    /\ lost' = [lost EXCEPT ![a] = {}]
    /\ doubled' = [doubled EXCEPT ![a] = {}]
    /\ phase' = [phase EXCEPT ![a] = "loaded"]
    /\ UNCHANGED <<mgrVars, listVars, call, leaving, cut>>

(* server.start() of the agent. *)
Serve(a) ==
    /\ phase[a] = "loaded"
    /\ phase' = [phase EXCEPT ![a] = "up"]
    /\ UNCHANGED <<mgrVars, listVars, call, list, leaving, lost, doubled, cut>>

(* An agent that does not serve any more. *)
Forgets(a) ==
    /\ list' = [list EXCEPT ![a] = [f \in File |-> <<>>]]
    /\ lost' = [lost EXCEPT ![a] = {}]
    /\ doubled' = [doubled EXCEPT ![a] = {}]

(* Killed, or DeregisterQA raised (the manager is not there, kubectl named  *)
(* no PVC, the address is not in the list): the address stays in QAs.       *)
Ends(a) ==
    /\ Active(a)
    /\ phase' = [phase EXCEPT ![a] = "off"]
    /\ Forgets(a)
    /\ cut' = [cut EXCEPT ![a] = FALSE]
    /\ UNCHANGED <<mgrVars, listVars, call, leaving>>

(* The finally block of an agent that served or failed to start:            *)
(* DeregisterQA computes the new list                                       *)
DeregisterBegin(a) ==
    /\ Active(a) /\ mgr # "off" /\ a \in Members(QAs)
    /\ \E s \in Orders(Members(QAs) \ {a}, MaxQA) : leaving' = [leaving EXCEPT ![a] = s]
    /\ phase' = [phase EXCEPT ![a] = "leaving"]
    /\ Forgets(a)
    /\ UNCHANGED <<mgrVars, listVars, call, cut>>

(* and assigns it. *)
DeregisterEnd(a) ==
    /\ phase[a] = "leaving"
    /\ QAs' = leaving[a]
    /\ Detach
    /\ leaving' = [leaving EXCEPT ![a] = <<>>]
    /\ cut' = [o \in Agent |-> Active(o) /\ (cut[o] \/ o \notin Members(leaving[a]))]
    /\ phase' = [phase EXCEPT ![a] = "off"]
    /\ UNCHANGED <<mgrVars, known, list, lost, doubled>>

-----------------------------------------------------------------------------
(* Trace calls PushPba for a change at node n, or fails to, *)
Arrives(n) ==
    \E f \in File :
      \/ Unheard(n, f)
      \/ \E l \in Layout : PushCreate(n, f, l)
      \/ PushModify(n, f)
      \/ PushDelete(n, f)

(* and the call goes on. *)
Continues(n) ==
    Send(n) \/ SendRaises(n) \/ Deliver(n) \/ DeliverFails(n) \/ PushDone(n)

AgentNext(a) ==
    \/ RegisterQA(a) \/ MakeList(a) \/ JoinList(a) \/ GetFileMap(a) \/ Serve(a)
    \/ Ends(a) \/ DeregisterBegin(a) \/ DeregisterEnd(a)

Next ==
    \/ MgrStart \/ MgrStop
    \/ \E n \in Node : Arrives(n) \/ Continues(n)
    \/ \E a \in Agent : AgentNext(a)

Spec == Init /\ [][Next]_vars

(* A PushFile call ends, with an answer or an RpcError. *)
FairSpec == Spec /\ \A n \in Node : WF_vars(Continues(n))

-----------------------------------------------------------------------------
(* No change of f is under way, and the manager was told every one. *)
Quiet(f) == \A n \in Node : call[n].file # f /\ <<n, f>> \notin late

(* An agent in service that was told every change. *)
Follows(a, f) == phase[a] = "up" /\ ~cut[a] /\ f \notin lost[a]

(* getPba answers from the first entry of that name. *)
Answer(a, f) == IF list[a][f] = <<>> THEN <<>> ELSE Head(list[a][f])

(* A file that Trace holds reaches the agents: the last entry of that name  *)
(* in an agent's list has the extents Trace holds, unless a call failed     *)
(* (late, lost) or the registration was lost (cut): to a manager that ended,*)
(* to the DeregisterQA of another agent, or to a second first registration  *)
(* that made the list again.  There is no other way to miss a change, not   *)
(* between RegisterQA, GetFileMap and a loop that is already under way.     *)
AgentsFollow ==
    \A a \in Agent, f \in File :
      type = "Distribute" /\ Quiet(f) /\ Follows(a, f) /\ raw[Home[f]][f] # None
        => /\ list[a][f] # <<>>
           /\ list[a][f][Len(list[a][f])] = <<[node |-> Home[f], pba |-> raw[Home[f]][f]]>>

(* An agent in service is only ever sent the present entry of the manager,  *)
(* although the request was built earlier.                                  *)
DeliveriesAreCurrent ==
    [][\A a \in Agent, f \in File :
         type = "Distribute" /\ phase[a] = "up" /\ Len(list'[a][f]) > Len(list[a][f])
           => list'[a][f][Len(list'[a][f])] = FM'[f]]_vars

(* An agent that was never sent a file it listed answers with what Trace    *)
(* holds of it, and with nothing once the file is deleted: the entries      *)
(* appended twice are the only way an agent that was told everything goes   *)
(* wrong.  (A push of a file that GetFileMap has just returned is one.)     *)
AnswersUnlessDoubled ==
    \A a \in Agent, f \in File :
      type = "Distribute" /\ Quiet(f) /\ Follows(a, f) /\ f \notin doubled[a]
        => Members(Answer(a, f)) = Held(f)

(* An agent answers with the replicas that Trace's map holds. *)
AnswersFromMap ==
    \A a \in Agent, f \in File :
      Quiet(f) /\ Follows(a, f) => Members(Answer(a, f)) = Held(f)

(* Every PushPba call ends, although agents come, go and fail while it      *)
(* loops over the list: at most MaxQA addresses are in it at a time.        *)
CallsEnd == \A n \in Node : call[n].pc # "idle" ~> call[n].pc = "idle"
=============================================================================
