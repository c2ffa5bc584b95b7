----------------------------- MODULE SlotTable ------------------------------
(***************************************************************************)
(* What the session registry promises: every open connection holds one     *)
(* slot, a new one gets the lowest free slot, and a slot passes to another *)
(* connection only after it was free.                                      *)
(***************************************************************************)
EXTENDS Naturals

CONSTANTS Slots,    \* the session indexes
          Conns,    \* connections; each socket is used once
          None      \* no connection

VARIABLE holder     \* slot -> connection that holds it, or None

Free == {i \in Slots : holder[i] = None}

TableInit == holder = [i \in Slots |-> None]

Open(i, c) == /\ i \in Free /\ \A j \in Free : i <= j
              /\ \A j \in Slots : holder[j] # c
              /\ holder' = [holder EXCEPT ![i] = c]

Close(i) == /\ i \notin Free
            /\ holder' = [holder EXCEPT ![i] = None]

TableNext == \E i \in Slots : Close(i) \/ \E c \in Conns : Open(i, c)

TableSpec == TableInit /\ [][TableNext]_holder
=============================================================================
