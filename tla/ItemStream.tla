------------------------------ MODULE ItemStream ------------------------------
(***************************************************************************)
(* What a bridge promises its client about the items of a turn, whatever   *)
(* the agent behind it is: an item is started once, is added to only while *)
(* it is open, is completed once, and is not heard of again.  Each bridge's *)
(* translator is shown to implement this module.                           *)
(***************************************************************************)
CONSTANTS
    Items,
    Late                    \* those of them whose start may come twice, or never

VARIABLES
    life,                   \* what the client was told of each item
    last                    \* the last notification about an item

Lives == {"none", "open", "done"}
Note == [note : {"started", "delta", "completed"}, item : Items]
Nothing == [note |-> "nothing"]

Init ==
    /\ life = [i \in Items |-> "none"]
    /\ last = Nothing

Tell(n, i) == last' = [note |-> n, item |-> i]

Started(i) ==
    /\ life[i] \in (IF i \in Late THEN {"none", "open"} ELSE {"none"})
    /\ life' = [life EXCEPT ![i] = "open"]
    /\ Tell("started", i)

Added(i) ==
    /\ life[i] = "open"
    /\ Tell("delta", i)
    /\ UNCHANGED life

Completed(i) ==
    /\ life[i] \in (IF i \in Late THEN {"none", "open"} ELSE {"open"})
    /\ life' = [life EXCEPT ![i] = "done"]
    /\ Tell("completed", i)

Next == \E i \in Items : Started(i) \/ Added(i) \/ Completed(i)

Spec == Init /\ [][Next]_<<life, last>>
=============================================================================
