----------------------------- MODULE AtomicFile -----------------------------
(***************************************************************************)
(* What Container::write_file() promises its callers: the snapshot file is *)
(* a register.  A save that does not fail replaces the whole value in one  *)
(* step, a save that fails or is cut short changes nothing, and a power    *)
(* loss can at most bring back a value whose replacement was not settled.  *)
(***************************************************************************)
CONSTANTS
    Process,   \* the writers
    Image,     \* what a save writes
    NoSave     \* stands for a writer that is not saving; not an Image

VARIABLES
    value,     \* what a reader of the file gets
    possible,  \* what it may get after a power loss
    wanted     \* the image each writer is about to put in place

vars == <<value, possible, wanted>>

Init ==
    /\ value \in Image
    /\ possible = {value}
    /\ wanted = [p \in Process |-> NoSave]

Begin(p, image) ==
    /\ wanted[p] = NoSave
    /\ wanted' = [wanted EXCEPT ![p] = image]
    /\ UNCHANGED <<value, possible>>

Replace(p) ==
    /\ wanted[p] # NoSave
    /\ value' = wanted[p]
    /\ possible' = possible \union {value'}
    /\ wanted' = [wanted EXCEPT ![p] = NoSave]

GiveUp(p) ==
    /\ wanted' = [wanted EXCEPT ![p] = NoSave]
    /\ UNCHANGED <<value, possible>>

Settle ==
    /\ possible' = {value}
    /\ UNCHANGED <<value, wanted>>

PowerLoss ==
    /\ value' \in possible
    /\ possible' = {value'}
    /\ wanted' = [p \in Process |-> NoSave]

Next ==
    \/ \E p \in Process :
           \/ \E image \in Image : Begin(p, image)
           \/ Replace(p)
           \/ GiveUp(p)
    \/ Settle
    \/ PowerLoss

Spec == Init /\ [][Next]_vars
=============================================================================
