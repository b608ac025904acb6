------------------------------ MODULE LogBacklog ------------------------------
(***************************************************************************)
(* What the log sink promises: a first-in first-out backlog of log bytes   *)
(* that, when it is full, gives up its oldest byte for the newest one, and *)
(* from which chunks leave in the order in which the bytes came.           *)
(***************************************************************************)
EXTENDS Naturals, Sequences

CONSTANTS Bytes, Capacity

VARIABLES backlog, chunk

Init == backlog = <<>> /\ chunk = <<>>

Put(b) ==
  /\ backlog' = IF Len(backlog) < Capacity THEN Append(backlog, b)
                                           ELSE Append(Tail(backlog), b)
  /\ UNCHANGED chunk

Get ==
  /\ backlog # <<>>
  /\ chunk' = Append(chunk, Head(backlog))
  /\ backlog' = Tail(backlog)

Send == chunk' = <<>> /\ UNCHANGED backlog

Next == Get \/ Send \/ \E b \in Bytes : Put(b)

Spec == Init /\ [][Next]_<<backlog, chunk>>
=============================================================================
