----------------------------- MODULE VectorMap -----------------------------
(***************************************************************************)
(* What rag::index::VectorStore promises: a map from ids to vectors, and a *)
(* file that holds the map as it was when it was saved - or nothing, when  *)
(* a save was cut short.                                                   *)
(***************************************************************************)
CONSTANTS
    Id, Vector,
    Down,    \* stands for the map when no store is open
    Lost     \* stands for a file that cannot be loaded

VARIABLES
    map,     \* the vector of each id that has one
    saved    \* the map in the file

vars == <<map, saved>>

Init == map = <<>> /\ saved = Lost

Open == map # Down

Put(id, vec) ==
    /\ Open
    /\ map' = [x \in DOMAIN map \union {id} |-> IF x = id THEN vec ELSE map[x]]
    /\ UNCHANGED saved

Drop(id) ==
    /\ Open
    /\ map' = [x \in DOMAIN map \ {id} |-> map[x]]
    /\ UNCHANGED saved

StartSave == Open /\ saved' = Lost /\ UNCHANGED map

EndSave == Open /\ saved' = map /\ UNCHANGED map

Close == map' = Down /\ UNCHANGED saved

Load == ~Open /\ saved # Lost /\ map' = saved /\ UNCHANGED saved

Create == ~Open /\ map' = <<>> /\ UNCHANGED saved

Next ==
    \/ \E id \in Id : Drop(id) \/ \E vec \in Vector : Put(id, vec)
    \/ StartSave \/ EndSave
    \/ Close \/ Load \/ Create

Spec == Init /\ [][Next]_vars
=============================================================================
