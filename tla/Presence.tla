------------------------------ MODULE Presence ------------------------------
(***************************************************************************)
(* What a room promises about the presence of its clients: one that is     *)
(* here is never forgotten, one that lost its connection may come back     *)
(* until it is, and the room is not closed while everybody is here.        *)
(***************************************************************************)

CONSTANT Clients

VARIABLES
  status,  \* of every client
  open     \* the room can be found

Statuses == {"absent", "here", "away", "gone"}

Init == status = [c \in Clients |-> "absent"] /\ open = TRUE

Becomes(c, from, to) ==
  /\ status[c] = from
  /\ status' = [status EXCEPT ![c] = to]
  /\ UNCHANGED open

Arrive(c) == Becomes(c, "absent", "here")

Lose(c) == Becomes(c, "here", "away")

Return(c) == Becomes(c, "away", "here")

Forget(c) == Becomes(c, "away", "gone")

Close ==
  /\ \E c \in Clients : status[c] \in {"away", "gone"}
  /\ open' = FALSE
  /\ UNCHANGED status

Next ==
  \/ \E c \in Clients : Arrive(c) \/ Lose(c) \/ Return(c) \/ Forget(c)
  \/ Close

Spec == Init /\ [][Next]_<< status, open >>
=============================================================================
