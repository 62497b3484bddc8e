----------------------------- MODULE PlayerList -----------------------------
(***************************************************************************)
(* The circular singly linked list of internal/poker/player.go, as the     *)
(* table uses it: a sequence without repetitions that starts at Head.  A   *)
(* PlayerNode is named by the player it holds (the code compares nodes by  *)
(* Player.Name, and names are unique), Next wraps from the last element    *)
(* to the first, and SetHead rotates.                                      *)
(***************************************************************************)
EXTENDS Naturals, Sequences

\* The players of a list.
Members(list) == {list[i] : i \in DOMAIN list}

\* Every player once: what RemovePlayer and GetPlayerNode rely on, because
\* both stop at the first node with the name they look for.
Distinct(list) == \A i, j \in DOMAIN list : list[i] = list[j] => i = j

\* The position of a member counted from Head.
Position(list, p) == CHOOSE i \in DOMAIN list : list[i] = p

\* A node is appended behind the last one, i.e. in front of Head.
AddPlayer(list, p) == Append(list, p)

\* Unlinking the head makes its successor the head; the other nodes keep
\* their order.  A player who is not in the list leaves it as it was.
RemovePlayer(list, p) ==
  IF p \notin Members(list) THEN list
  ELSE LET k == Position(list, p)
       IN  [i \in 1 .. Len(list) - 1 |-> IF i < k THEN list[i] ELSE list[i + 1]]

\* The ring read from another of its nodes.
SetHead(list, p) ==
  LET k == Position(list, p)
      n == Len(list)
  IN  [i \in 1 .. n |-> IF i + k - 1 <= n THEN list[i + k - 1]
                                          ELSE list[i + k - 1 - n]]

\* The successor and the predecessor of a member in the ring.
NextOf(list, p) ==
  LET k == Position(list, p) IN IF k = Len(list) THEN list[1] ELSE list[k + 1]

PrevOf(list, p) ==
  LET k == Position(list, p) IN IF k = 1 THEN list[Len(list)] ELSE list[k - 1]

\* The players met on the way from Head to p, p excluded.
Before(list, p) == {list[i] : i \in 1 .. Position(list, p) - 1}

\* The first member from Head on that satisfies a test given as a set.
FirstIn(list, S) ==
  list[CHOOSE i \in DOMAIN list :
          list[i] \in S /\ \A j \in 1 .. i - 1 : list[j] \notin S]

-----------------------------------------------------------------------------
(* The order of a ring, whichever its head: what the properties speak of.  *)

\* On the way around from p, q comes before r.
Around(list, p, q, r) ==
  LET i == Position(list, p)
      j == Position(list, q)
      k == Position(list, r)
  IN  (i < j /\ j < k) \/ (j < k /\ k < i) \/ (k < i /\ i < j)

\* The players of the short list go around the table as in the long one.
SameRing(short, long) ==
  \A p, q, r \in Members(short) : Around(short, p, q, r) => Around(long, p, q, r)
=============================================================================
