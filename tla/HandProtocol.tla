---------------------------- MODULE HandProtocol ----------------------------
(***************************************************************************)
(* What a table promises its players: one of them at a time has the turn,  *)
(* and may bet; nothing but that player's action and departures changes    *)
(* who is in the hand; who is out of it, or came late, waits for the next  *)
(* deal; and betting that ends the hand at once leaves one player with     *)
(* cards at most.  Module Game implements it.                              *)
(***************************************************************************)
CONSTANTS Seats, None

VARIABLES
  seat,   \* of every seat: free, waiting for the next hand, in, allIn or folded
  turn,   \* who has the turn, or None
  stage   \* no game, cards dealt, betting, between streets, hand over, or stopped

Kinds == {"free", "waiting", "in", "allIn", "folded"}

Taken(f) == {s \in Seats : f[s] # "free"}

MayBet(f) == {s \in Seats : f[s] = "in"}

HoldCards(f) == {s \in Seats : f[s] \in {"in", "allIn"}}

Init == seat = [s \in Seats |-> "free"] /\ turn = None /\ stage = "idle"

\* The stage changes while nobody has the turn.
Goes(from, to) == stage \in from /\ stage' = to /\ turn' = None

\* The betting goes on with another turn, or the street or the hand ends.
GoesOn ==
  \/ stage' = "betting" /\ turn' \in MayBet(seat')
  \/ stage' = "street" /\ turn' = None
  \/ stage' = "over" /\ turn' = None /\ \A s, q \in HoldCards(seat') : s = q

Sit(s) ==
  /\ stage \in {"idle", "betting", "street"}
  /\ seat[s] = "free"
  /\ seat' = [seat EXCEPT ![s] = IF stage = "idle" THEN "in" ELSE "waiting"]
  /\ UNCHANGED << turn, stage >>

\* The first hand, or the next street.
Resume ==
  /\ stage = "street" \/ (stage = "idle" /\ \E s, q \in Taken(seat) : s # q)
  /\ stage' = "betting"
  /\ turn' \in MayBet(seat)
  /\ UNCHANGED seat

Act ==
  /\ stage = "betting"
  /\ \E kind \in {"in", "allIn", "folded"} : seat' = [seat EXCEPT ![turn] = kind]
  /\ GoesOn
  /\ turn' # turn

Leave(s) ==
  /\ seat[s] # "free"
  /\ seat' = [seat EXCEPT ![s] = "free"]
  /\ \/ stage = "betting" /\ GoesOn /\ (stage' = "betting" /\ turn # s => turn' = turn)
     \/ stage = "street" /\ GoesOn /\ stage' # "betting"
     \/ stage \in {"idle", "over"} /\ UNCHANGED << turn, stage >>

LeaveLast(s) ==
  /\ Taken(seat) = {s}
  /\ Goes({"idle", "betting", "street"}, "idle")
  /\ seat' = [seat EXCEPT ![s] = "free"]

\* The community cards are complete.
Finish == Goes({"street"}, "over") /\ UNCHANGED seat

Deal ==
  /\ Goes({"over"}, "dealt")
  /\ seat' = [s \in Seats |-> IF seat[s] = "free" THEN "free" ELSE "in"]

\* The blinds may take the last chips of two players.
PostBlinds ==
  /\ Goes({"dealt"}, "street")
  /\ \E s, b \in MayBet(seat) : \E S \in SUBSET {s, b} :
       seat' = [x \in Seats |-> IF x \in S THEN "allIn" ELSE seat[x]]

\* The last player stays for the next game.
Restart(w) ==
  /\ Taken(seat) = {w}
  /\ Goes({"over"}, "idle")
  /\ seat' = [seat EXCEPT ![w] = "in"]

\* The server stops; nothing is said about the seats then.
Stop ==
  /\ stage' = "stopped" /\ turn' = None
  /\ seat' \in [Seats -> Kinds]

Next ==
  \/ \E s \in Seats : Sit(s) \/ Leave(s) \/ LeaveLast(s) \/ Restart(s)
  \/ Resume \/ Act \/ Finish \/ Deal \/ PostBlinds \/ Stop

Spec == Init /\ [][Next]_<< seat, turn, stage >>
=============================================================================
