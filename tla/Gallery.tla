------------------------------ MODULE Gallery -------------------------------
(***************************************************************************)
(* What the commands on a user's embeddings promise (abstract              *)
(* specification of UserStore): for every camera type a set of prints,     *)
(* each a label and the people whose captures are in it, and a capture     *)
(* that waits for its label.  A command is one step for all the types it   *)
(* touches and changes one label only.  There are no cameras, no loops     *)
(* over them, no sessions, no restarts, no positions in an array and no    *)
(* second format of the file.                                              *)
(***************************************************************************)

CONSTANTS
    Types,      \* camera types
    Labels,     \* labels of prints
    People      \* who may stand in front of a camera; earlier captures are "old"

VARIABLES
    prints,     \* what a face is compared with, for each type
    waiting,    \* the captures that wait for a label; {} is none
    readable    \* the prints have not been lost

vars == <<prints, waiting, readable>>

Imprint == [label : Labels, data : SUBSET (People \cup {"old"})]

Init ==
    /\ prints \in [Types -> SUBSET Imprint]
    /\ waiting \in [Types -> SUBSET (People \cup {"old"})]
    /\ readable \in BOOLEAN

Named(t, l) == {p \in prints[t] : p.label = l}

\* A print of type t is added, or takes the place of p.
Adds(t, new)        == prints'[t] = prints[t] \cup {new}
Replaces(t, p, new) == prints'[t] = (prints[t] \ {p}) \cup {new}
Stays(t)            == prints'[t] = prints[t]

\* A person is captured for some types.
Enrol ==
    /\ readable /\ readable'
    /\ \E s \in People, T \in SUBSET Types :
          waiting' = [t \in Types |-> IF t \in T THEN {s} ELSE waiting[t]]
    /\ UNCHANGED prints

\* What waits for a label gets it: a print is added, or takes the place of one that
\* has the label, and must do so if there is one (two of the same look like one).
Relabelled(t, l) ==
    LET new == [label |-> l, data |-> waiting[t]] IN
    \/ Named(t, l) = {} /\ Adds(t, new)
    \/ \E p \in Named(t, l) : Adds(t, new) \/ Replaces(t, p, new)

Label ==
    /\ readable /\ readable'
    /\ \E l \in Labels, T \in SUBSET Types :
          /\ \A t \in T : waiting[t] # {}
          /\ waiting' = [t \in Types |-> IF t \in T THEN {} ELSE waiting[t]]
          /\ \A t \in Types : IF t \in T THEN Relabelled(t, l) ELSE Stays(t)

\* A new capture of a person becomes a print of its own, or goes into one that has
\* the label, and takes nothing out of it.
Learnt(t, s, l) ==
    \/ Adds(t, [label |-> l, data |-> {s}])
    \/ \E p \in Named(t, l) :
          LET new == [p EXCEPT !.data = @ \cup {s}] IN Adds(t, new) \/ Replaces(t, p, new)

Learn ==
    /\ readable /\ readable'
    /\ \E s \in People, l \in Labels, T \in SUBSET Types :
          \A t \in Types : IF t \in T THEN Learnt(t, s, l) ELSE Stays(t)
    /\ UNCHANGED waiting

\* All prints of a label are removed from some types.
Forget ==
    /\ readable /\ readable'
    /\ \E l \in Labels, T \in SUBSET Types :
          \A t \in Types : IF t \in T THEN prints'[t] = prints[t] \ Named(t, l) ELSE Stays(t)
    /\ UNCHANGED waiting

\* Everything is lost, for good.
Lose ==
    /\ ~readable'
    /\ prints' = [t \in Types |-> {}]
    /\ waiting' = [t \in Types |-> {}]

Next == Enrol \/ Label \/ Learn \/ Forget \/ Lose

Spec == Init /\ [][Next]_vars
=============================================================================
