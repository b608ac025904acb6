---------------------------- MODULE CommandDesk ----------------------------
(***************************************************************************)
(* What the BLE proxy promises about a command, whatever the peripherals,  *)
(* the websocket and the other commands do: it is refused or worked on, at *)
(* most one command is worked on at a time, each gets at most one answer,  *)
(* and only a full queue may make an answer disappear.                     *)
(***************************************************************************)
CONSTANT Ids

VARIABLES
  state,   \* where each command is
  full     \* the queue is full: a message put into it now is lost

States == {"free", "asked", "working", "answered"}

Init == state = [i \in Ids |-> "free"] /\ full = FALSE

Move(i, from, to) == state[i] = from /\ state' = [state EXCEPT ![i] = to]

Ask(i)     == ~full /\ Move(i, "free", "asked")
Start(i)   == Move(i, "asked", "working") /\ \A j \in Ids : state[j] # "working"
Answer(i)  == ~full /\ (Move(i, "asked", "answered") \/ Move(i, "working", "answered"))
Lose(i)    == full /\ (Move(i, "asked", "free") \/ Move(i, "working", "free"))
Deliver(i) == Move(i, "answered", "free")

\* full changes freely: it tells of messages that are nobody's answer as well.
Next == \/ \E i \in Ids : Ask(i) \/ Start(i) \/ Answer(i) \/ Lose(i) \/ Deliver(i)
        \/ UNCHANGED state

Spec == Init /\ [][Next]_<<state, full>>
=============================================================================
