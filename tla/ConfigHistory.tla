--------------------------- MODULE ConfigHistory ----------------------------
(***************************************************************************)
(* What configuration sync promises for one device, without threads,       *)
(* requests or files: the control plane keeps one log of configurations    *)
(* that only grows, never repeats its last entry, and after a crash starts *)
(* again from the part it had made durable; the device follows the log     *)
(* forward.  ConfigSync implements this specification.                     *)
(***************************************************************************)
EXTENDS Naturals, Sequences

CONSTANT Contents

VARIABLES
    history,    \* the configurations published so far, in order
    durable,    \* the prefix of history that a crash cannot undo
    intact,     \* no crash has undone a published configuration
    installed   \* the position in history of the installed one, 0 for none

vars == <<history, durable, intact, installed>>

Init ==
    /\ history = <<>>
    /\ durable = <<>>
    /\ intact = TRUE
    /\ installed = 0

Publish ==
    \E c \in Contents :
        /\ history = <<>> \/ history[Len(history)] # c
        /\ history' = Append(history, c)
        /\ UNCHANGED <<durable, intact, installed>>

Persist ==
    /\ durable' = history
    /\ UNCHANGED <<history, intact, installed>>

Lose ==
    /\ history' = durable
    /\ intact' = (intact /\ history = durable)
    /\ UNCHANGED <<durable, installed>>

\* Forward only, as long as the log is intact.
Install ==
    /\ installed' \in Nat \ {0}
    /\ intact => installed <= installed' /\ installed' <= Len(history)
    /\ UNCHANGED <<history, durable, intact>>

Next == Publish \/ Persist \/ Lose \/ Install

Spec == Init /\ [][Next]_vars
=============================================================================
