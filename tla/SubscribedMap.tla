--------------------------- MODULE SubscribedMap ---------------------------
(***************************************************************************)
(* What a map with subscribers promises: map[p][x] is the value of name x  *)
(* at place p.  A change opens the name, writes the map, tells subscribers *)
(* the value the map has then, and closes the name; a subscriber that does *)
(* not hold the value by then is on record as behind.  A subscriber that   *)
(* is not in service is free to prepare or to forget its view.             *)
(***************************************************************************)
CONSTANTS Place, Name, Sub

VARIABLES
    map,        \* the values
    on,         \* subscribers in service
    view,       \* view[s][p][x], the value a subscriber holds
    open,       \* open[p], names that are being changed
    behind      \* behind[s][p], names of which s may hold an old value

vars == <<map, on, view, open, behind>>

Knows(s, p, x) == x \in behind[s][p] \/ view[s][p][x] = map[p][x]

(* A subscriber knows every name that is not being changed. *)
KnowsRest(s) == \A p \in Place, x \in Name : x \in open[p] \/ Knows(s, p, x)

(* All names but x at p. *)
Others(p, x) == (Place \X Name) \ {<<p, x>>}

(* Nothing but the value of x at p changes in the map, *)
WritesOnly(p, x) == \A o \in Others(p, x) : map'[o[1]][o[2]] = map[o[1]][o[2]]

(* and nothing but x at p in what s holds. *)
HearsOnly(s, p, x) ==
    \A o \in Others(p, x) :
      /\ view'[s][o[1]][o[2]] = view[s][o[1]][o[2]]
      /\ o[2] \in behind'[s][o[1]] <=> o[2] \in behind[s][o[1]]

(* Of a change of x at p the subscribers in service hear nothing; they may  *)
(* be put on record as behind.                                              *)
Records(p, x) ==
    \A s \in on :
      /\ view'[s] = view[s] /\ HearsOnly(s, p, x)
      /\ x \in behind[s][p] => x \in behind'[s][p]

Untouched(S) == \A s \in S : view'[s] = view[s] /\ behind'[s] = behind[s]

Init == on = {} /\ open = [p \in Place |-> {}]

(* A change begins, or goes on writing. *)
Write(p, x) ==
    /\ WritesOnly(p, x)
    /\ open' = [open EXCEPT ![p] = @ \cup {x}]
    /\ on' = on /\ Records(p, x)

(* A subscriber is told the value the map has now, or is put on record. *)
Tell(s, p, x) ==
    /\ s \in on /\ x \in open[p]
    /\ view'[s][p][x] = map[p][x] \/ x \in behind'[s][p]
    /\ HearsOnly(s, p, x)
    /\ Untouched(on \ {s})
    /\ UNCHANGED <<map, on, open>>

(* The change ends: whoever is not on record knows. *)
Close(p, x) ==
    /\ x \in open[p]
    /\ open' = [open EXCEPT ![p] = @ \ {x}]
    /\ Records(p, x)
    /\ \A s \in on : Knows(s, p, x)'
    /\ UNCHANGED <<map, on>>

(* A subscriber comes into service with a view of the map, *)
Join(s) ==
    /\ s \notin on /\ on' = on \cup {s}
    /\ KnowsRest(s)'
    /\ Untouched(on)
    /\ UNCHANGED <<map, open>>

(* and subscribers go out of service, or prepare to come. *)
Offline ==
    /\ on' \subseteq on
    /\ Untouched(on')
    /\ UNCHANGED <<map, open>>

Next ==
    \/ \E p \in Place, x \in Name :
         Write(p, x) \/ Close(p, x) \/ \E s \in Sub : Tell(s, p, x)
    \/ \E s \in Sub : Join(s)
    \/ Offline

Spec == Init /\ [][Next]_vars

(* What the subscribers rely on: each one in service knows every name that  *)
(* nobody is changing, or is on record as behind with it.                   *)
Promise == \A s \in on : KnowsRest(s)
=============================================================================
