---------------------------- MODULE SessionProofs ----------------------------
(***************************************************************************)
(* Proofs about the connections of a room: the inductive invariant of      *)
(* Session, with it that no connected client is ever forgotten and that no *)
(* seat has two players, and that the sessions implement Presence.         *)
(***************************************************************************)
EXTENDS Session, TLAPS

USE SessionAssumption DEF Clients, handlers, indexes, table, timers, asks, room

\* A part of the invariant holds after a step that leaves alone all it is about.
LEMMA Frame ==
  ASSUME IInv
  PROVE  /\ UNCHANGED << pc, target, byConn, conn >> => Handling'
         /\ UNCHANGED << registered, conn, away, mtx >> => Connected'
         /\ UNCHANGED << seat, taken, pc, target >> => Seated'
         /\ UNCHANGED << conn, away, registered >> => ConnectedKept'
         /\ UNCHANGED << registered, mtx, away, byConn, conn >> => Reachable'
         /\ UNCHANGED << registered, away, inRegistry, armed, fired, mtx >> => AwayIsTended'
         /\ UNCHANGED seat => OneSeatOneClient'
BY DEF IInv, Handling, Fresh, Connected, Seated, ConnectedKept, Reachable, AwayIsTended,
       OneSeatOneClient

\* A dead process keeps the state it died in.
LEMMA CrashKeeps ==
  ASSUME IInv, Crash
  PROVE  IInv'
<1>1. TypeOK'
  BY DEF IInv, TypeOK, Crash
<1>. QED
  BY <1>1, Frame DEF IInv, Crash

\* A player who gives up its seat leaves it to nobody.
LEMMA UnseatKeeps ==
  ASSUME NEW c \in Clients, TypeOK, Seated, OneSeatOneClient, Unseat(c)
  PROVE  /\ taken' \subseteq Seats
         /\ byPlayer' \in [Seats -> Clients \cup {None}]
         /\ seat' \in [Clients -> Seats \cup {None}]
         /\ UNCHANGED << pc, target >> => Seated' /\ OneSeatOneClient'
<1>1. /\ taken' = taken \ {seat[c]}
      /\ byPlayer' = [byPlayer EXCEPT ![seat[c]] = None]
      /\ seat' = [seat EXCEPT ![c] = None]
  BY DEF Unseat
<1>2. taken' \subseteq Seats /\ seat' \in [Clients -> Seats \cup {None}]
  BY <1>1 DEF TypeOK
<1>3. byPlayer' \in [Seats -> Clients \cup {None}]
  BY <1>1 DEF TypeOK
<1>4. ASSUME UNCHANGED << pc, target >>
      PROVE  Seated' /\ OneSeatOneClient'
  BY <1>1, <1>4 DEF TypeOK, Seated, OneSeatOneClient
<1>. QED
  BY <1>2, <1>3, <1>4

-----------------------------------------------------------------------------
(* handleNewConn.                                                          *)

\* A new connection is fresh.
LEMMA DialKeeps ==
  ASSUME NEW k \in Conns, IInv, Dial(k)
  PROVE  IInv'
<1>. USE DEF IInv, Dial, Goto
<1>1. TypeOK'
  BY DEF TypeOK, PCs, Callback, Kinds
<1>2. Handling'
  BY DEF Handling, TypeOK, Fresh, Joining, Connected
<1>3. Seated'
  BY DEF Seated, TypeOK, OneSeatOneClient, Handling, Joining
<1>. QED
  BY <1>1, <1>2, <1>3, Frame

\* The placeholder is no client.
LEMMA ReserveKeeps ==
  ASSUME NEW k \in Conns, IInv, Reserve(k)
  PROVE  IInv'
<1>. USE DEF IInv, Reserve, Goto
<1>1. TypeOK'
  BY DEF TypeOK, PCs, Callback, Kinds
<1>2. Handling'
  BY DEF Handling, TypeOK, Fresh, Joining, Connected
<1>3. Seated'
  BY DEF Seated, TypeOK, OneSeatOneClient, Handling, Joining
<1>4. Reachable'
  BY DEF Reachable, TypeOK, Connected, Handling, Fresh, Joining, Callback
<1>. QED
  BY <1>1, <1>2, <1>3, <1>4, Frame

\* newClient: no other client has this connection.
LEMMA RegisterKeeps ==
  ASSUME NEW k \in Conns, IInv, Register(k)
  PROVE  IInv'
<1>. USE DEF IInv, Register, Goto
<1>1. TypeOK'
  BY DEF TypeOK, PCs, Callback, Kinds, Handling, Joining
<1>2. Handling'
  BY DEF Handling, TypeOK, Fresh, Joining, Connected
<1>3. Connected'
  BY DEF Connected, TypeOK, Handling, Fresh, Joining, Callback
<1>4. Seated'
  BY DEF Seated, TypeOK, OneSeatOneClient, Handling, Joining
<1>5. ConnectedKept'
  BY DEF ConnectedKept, TypeOK, Connected
<1>6. Reachable'
  BY DEF Reachable, TypeOK, Connected, Handling, Fresh, Joining, Callback
<1>7. AwayIsTended'
  BY DEF AwayIsTended, TypeOK, Connected, Handling, Fresh, Callback
<1>. QED
  BY <1>1, <1>2, <1>3, <1>4, <1>5, <1>6, <1>7, Frame

\* NumConnected wraps.
LEMMA CountKeeps ==
  ASSUME NEW k \in Conns, IInv, Count(k)
  PROVE  IInv'
<1>. USE DEF IInv, Count, Goto
<1>1. TypeOK'
  BY DEF TypeOK, PCs, Callback, Kinds
<1>2. Handling'
  BY DEF Handling, TypeOK, Fresh, Joining, Connected
<1>3. Seated'
  BY DEF Seated, TypeOK, OneSeatOneClient, Handling, Joining
<1>. QED
  BY <1>1, <1>2, <1>3, Frame

\* Only the phase and the private IDs that are known change.
LEMMA AnnounceKeeps ==
  ASSUME NEW k \in Conns, IInv, Announce(k)
  PROVE  IInv'
<1>. USE DEF IInv, Announce, Goto
<1>1. TypeOK'
  BY DEF TypeOK, PCs, Callback, Kinds, Handling, Joining
<1>2. Handling'
  BY DEF Handling, TypeOK, Fresh, Joining, Connected
<1>3. Seated'
  BY DEF Seated, TypeOK, OneSeatOneClient, Handling, Joining
<1>. QED
  BY <1>1, <1>2, <1>3, Frame

\* The seat was vacant: it is nobody's and in no other hands.
LEMMA TakeSeatKeeps ==
  ASSUME NEW k \in Conns, IInv, TakeSeat(k)
  PROVE  IInv'
<1>. USE DEF IInv, TakeSeat, Goto
<1>1. TypeOK'
  BY DEF TypeOK, PCs, Callback, Kinds
<1>2. Handling'
  BY DEF Handling, TypeOK, Fresh, Joining, Connected
<1>3. Seated'
  BY DEF Seated, TypeOK, OneSeatOneClient, Handling, Joining
<1>. QED
  BY <1>1, <1>2, <1>3, Frame

\* The seat taken before is bound to the client of this connection.
LEMMA BindSeatKeeps ==
  ASSUME NEW k \in Conns, IInv, BindSeat(k)
  PROVE  IInv'
<1>. USE DEF IInv, BindSeat, Goto
<1>1. TypeOK'
  BY DEF TypeOK, PCs, Callback, Kinds, Handling, Joining, Seated
<1>2. Handling'
  BY DEF Handling, TypeOK, Fresh, Joining, Connected
<1>3. Seated'
  BY DEF Seated, TypeOK, OneSeatOneClient, Handling, Joining
<1>4. OneSeatOneClient'
  BY DEF OneSeatOneClient, TypeOK, Seated
<1>. QED
  BY <1>1, <1>2, <1>3, <1>4, Frame

\* Only the phase changes.
LEMMA SpectateKeeps ==
  ASSUME NEW k \in Conns, IInv, Spectate(k)
  PROVE  IInv'
<1>. USE DEF IInv, Spectate, Goto
<1>1. TypeOK'
  BY DEF TypeOK, PCs, Callback, Kinds
<1>2. Handling'
  BY DEF Handling, TypeOK, Fresh, Joining, Connected
<1>3. Seated'
  BY DEF Seated, TypeOK, OneSeatOneClient, Handling, Joining
<1>. QED
  BY <1>1, <1>2, <1>3, Frame

-----------------------------------------------------------------------------
(* handleReconnect.                                                        *)

\* The client that is to come back is known.
LEMMA AskReconnectKeeps ==
  ASSUME NEW k \in Conns, NEW c \in Clients, IInv, AskReconnect(k, c)
  PROVE  IInv'
<1>. USE DEF IInv, AskReconnect, Goto
<1>1. TypeOK'
  BY DEF TypeOK, PCs, Callback, Kinds
<1>2. Handling'
  BY DEF Handling, TypeOK, Fresh, Joining, Connected
<1>3. Seated'
  BY DEF Seated, TypeOK, OneSeatOneClient, Handling, Joining
<1>. QED
  BY <1>1, <1>2, <1>3, Frame

\* The connection is fresh, so that no other client loses it; the client is
\* looked up again, so that nobody comes back who was removed.
LEMMA ReconnectKeeps ==
  ASSUME NEW k \in Conns, IInv, Reconnect(k)
  PROVE  IInv'
<1>. DEFINE c == target[k]
<1>1. /\ pc[k] = "Reconnecting" /\ mtx[c] = "Free" /\ c \in Clients
      /\ pc' = [pc EXCEPT ![k] = IF c \in registered THEN "Returned" ELSE "Reading"]
      /\ UNCHANGED << told, registered, table, fired, mtx, asks, room, crashed >>
  BY DEF IInv, Handling, Reconnect, Goto, StillValid
<1>2. CASE c \in registered
  <2>1. /\ armed' = [armed EXCEPT ![c] = FALSE]
        /\ conn' = [conn EXCEPT ![c] = k]
        /\ byConn' = [byConn EXCEPT ![k] = c]
        /\ away' = [away EXCEPT ![c] = FALSE]
        /\ pc' = [pc EXCEPT ![k] = "Returned"]
        /\ target' = target
    BY <1>1, <1>2 DEF Reconnect, StillValid
  <2>2. TypeOK'
    BY <1>1, <2>1 DEF IInv, TypeOK, PCs
  <2>3. Handling'
    BY <1>1, <1>2, <2>1 DEF IInv, TypeOK, Handling, Fresh, Joining, Connected
  <2>4. Connected' /\ ConnectedKept'
    BY <1>1, <1>2, <2>1 DEF IInv, TypeOK, Connected, ConnectedKept, Callback
  <2>5. Seated'
    BY <1>1, <2>1 DEF IInv, TypeOK, Seated
  <2>6. Reachable'
    <3>. SUFFICES ASSUME NEW d \in registered', mtx'[d] # "Abandoned"
                  PROVE  away'[d] <=> byConn'[conn'[d]] # d
      BY DEF Reachable
    <3>1. CASE d = c
      BY <1>1, <2>1, <3>1 DEF IInv, TypeOK
    <3>2. CASE d # c
      <4>1. d \in Clients /\ conn[d] # None /\ conn[d] \in Conns
        BY <1>1 DEF IInv, TypeOK, Connected
      <4>2. CASE conn[d] = k
        BY <1>1, <2>1, <3>2, <4>1, <4>2 DEF IInv, TypeOK, Reachable, Handling, Fresh
      <4>3. CASE conn[d] # k
        BY <1>1, <2>1, <3>2, <4>1, <4>3 DEF IInv, TypeOK, Reachable
      <4>. QED
        BY <4>2, <4>3
    <3>. QED
      BY <3>1, <3>2
  <2>7. AwayIsTended'
    BY <1>1, <2>1 DEF IInv, TypeOK, AwayIsTended, Connected
  <2>. QED
    BY <1>1, <2>2, <2>3, <2>4, <2>5, <2>6, <2>7, Frame DEF IInv
<1>3. CASE c \notin registered
  <2>1. /\ target' = [target EXCEPT ![k] = None]
        /\ pc' = [pc EXCEPT ![k] = "Reading"]
        /\ UNCHANGED << armed, conn, byConn, away >>
    BY <1>1, <1>3 DEF Reconnect, StillValid
  <2>2. TypeOK'
    BY <1>1, <2>1 DEF IInv, TypeOK, PCs
  <2>3. Handling'
    BY <1>1, <2>1 DEF IInv, TypeOK, Handling, Fresh, Joining
  <2>4. Seated'
    BY <1>1, <2>1 DEF IInv, TypeOK, Seated
  <2>. QED
    BY <1>1, <2>1, <2>2, <2>3, <2>4, Frame DEF IInv
<1>. QED
  BY <1>2, <1>3

\* Only the phase and its target change.
LEMMA WelcomeKeeps ==
  ASSUME NEW k \in Conns, IInv, Welcome(k)
  PROVE  IInv'
<1>. USE DEF IInv, Welcome, Goto
<1>1. TypeOK'
  BY DEF TypeOK, PCs, Callback, Kinds
<1>2. Handling'
  BY DEF Handling, TypeOK, Fresh, Joining, Connected
<1>3. Seated'
  BY DEF Seated, TypeOK, OneSeatOneClient, Handling, Joining
<1>. QED
  BY <1>1, <1>2, <1>3, Frame

-----------------------------------------------------------------------------
(* handleDisconnect and the callback of its timer.                         *)

\* Only the phase changes.
LEMMA DropKeeps ==
  ASSUME NEW k \in Conns, IInv, Drop(k)
  PROVE  IInv'
<1>. USE DEF IInv, Drop, Goto
<1>1. TypeOK'
  BY DEF TypeOK, PCs, Callback, Kinds
<1>2. Handling'
  BY DEF Handling, TypeOK, Fresh, Joining, Connected
<1>3. Seated'
  BY DEF Seated, TypeOK, OneSeatOneClient, Handling, Joining
<1>. QED
  BY <1>1, <1>2, <1>3, Frame

\* Only the phase changes.
LEMMA CloseUnknownKeeps ==
  ASSUME NEW k \in Conns, IInv, CloseUnknown(k)
  PROVE  IInv'
<1>. USE DEF IInv, CloseUnknown, Goto
<1>1. TypeOK'
  BY DEF TypeOK, PCs, Callback, Kinds
<1>2. Handling'
  BY DEF Handling, TypeOK, Fresh, Joining, Connected
<1>3. Seated'
  BY DEF Seated, TypeOK, OneSeatOneClient, Handling, Joining
<1>. QED
  BY <1>1, <1>2, <1>3, Frame

\* Whoever still has this connection is away already.
LEMMA DisconnectStaleKeeps ==
  ASSUME NEW k \in Conns, IInv, DisconnectStale(k)
  PROVE  IInv'
<1>. USE DEF IInv, DisconnectStale, Goto, Current
<1>1. TypeOK'
  BY DEF TypeOK, PCs, Callback, Kinds
<1>2. Handling'
  BY DEF Handling, TypeOK, Fresh, Joining, Connected
<1>3. Seated'
  BY DEF Seated, TypeOK, OneSeatOneClient, Handling, Joining
<1>4. Reachable'
  BY DEF Reachable, TypeOK, Connected, Handling, Fresh, Joining, Callback
<1>. QED
  BY <1>1, <1>2, <1>3, <1>4, Frame

\* The client is away, its entry is gone and its timer runs.
LEMMA DisconnectKeeps ==
  ASSUME NEW k \in Conns, IInv, Disconnect(k)
  PROVE  IInv'
<1>. USE DEF IInv, Disconnect, Goto, Current, Arm
<1>1. TypeOK'
  BY DEF TypeOK, PCs, Callback, Kinds
<1>2. Handling'
  BY DEF Handling, TypeOK, Fresh, Joining, Connected
<1>3. Connected'
  BY DEF Connected, TypeOK, Handling, Fresh, Joining, Callback
<1>4. Seated'
  BY DEF Seated, TypeOK, OneSeatOneClient, Handling, Joining
<1>5. ConnectedKept'
  BY DEF ConnectedKept, TypeOK, Connected
<1>6. Reachable'
  BY DEF Reachable, TypeOK, Connected, Handling, Fresh, Joining, Callback
<1>7. AwayIsTended'
  BY DEF AwayIsTended, TypeOK, Connected, Handling, Fresh, Callback
<1>. QED
  BY <1>1, <1>2, <1>3, <1>4, <1>5, <1>6, <1>7, Frame

\* The client is away and its mutex is never free again.
LEMMA DisconnectPanicsKeeps ==
  ASSUME NEW k \in Conns, IInv, DisconnectPanics(k)
  PROVE  IInv'
<1>. USE DEF IInv, DisconnectPanics, Goto, Current
<1>1. TypeOK'
  BY DEF TypeOK, PCs, Callback, Kinds
<1>2. Handling'
  BY DEF Handling, TypeOK, Fresh, Joining, Connected
<1>3. Connected'
  BY DEF Connected, TypeOK, Handling, Fresh, Joining, Callback
<1>4. Seated'
  BY DEF Seated, TypeOK, OneSeatOneClient, Handling, Joining
<1>5. ConnectedKept'
  BY DEF ConnectedKept, TypeOK, Connected
<1>6. Reachable'
  BY DEF Reachable, TypeOK, Connected, Handling, Fresh, Joining, Callback
<1>7. AwayIsTended'
  BY DEF AwayIsTended, TypeOK, Connected, Handling, Fresh, Callback
<1>. QED
  BY <1>1, <1>2, <1>3, <1>4, <1>5, <1>6, <1>7, Frame

\* The timer becomes a callback.
LEMMA FireKeeps ==
  ASSUME NEW c \in Clients, IInv, Fire(c)
  PROVE  IInv'
<1>. USE DEF IInv, Fire
<1>1. TypeOK'
  BY DEF TypeOK, PCs, Callback, Kinds
<1>2. AwayIsTended'
  BY DEF AwayIsTended, TypeOK, Connected, Handling, Fresh, Callback
<1>. QED
  BY <1>1, <1>2, Frame

\* Only a callback of a client that is away goes on.
LEMMA CheckKeeps ==
  ASSUME NEW c \in Clients, IInv, Check(c)
  PROVE  IInv'
<1>. USE DEF IInv, Check, StillAway
<1>1. TypeOK'
  BY DEF TypeOK, PCs, Callback, Kinds
<1>2. Connected'
  BY DEF Connected, TypeOK, Handling, Fresh, Joining, Callback
<1>3. Reachable'
  BY DEF Reachable, TypeOK, Connected, Handling, Fresh, Joining, Callback
<1>4. AwayIsTended'
  BY DEF AwayIsTended, TypeOK, Connected, Handling, Fresh, Callback
<1>. QED
  BY <1>1, <1>2, <1>3, <1>4, Frame

\* The callback goes on.
LEMMA CheckLastKeeps ==
  ASSUME NEW c \in Clients, IInv, CheckLast(c)
  PROVE  IInv'
<1>. USE DEF IInv, CheckLast, At
<1>1. TypeOK'
  BY DEF TypeOK, PCs, Callback, Kinds
<1>2. Connected'
  BY DEF Connected, TypeOK, Handling, Fresh, Joining, Callback
<1>3. Reachable'
  BY DEF Reachable, TypeOK, Connected, Handling, Fresh, Joining, Callback
<1>4. AwayIsTended'
  BY DEF AwayIsTended, TypeOK, Connected, Handling, Fresh, Callback
<1>. QED
  BY <1>1, <1>2, <1>3, <1>4, Frame

\* With the room goes the duty to tend its clients.
LEMMA RemoveRoomKeeps ==
  ASSUME NEW c \in Clients, IInv, RemoveRoom(c)
  PROVE  IInv'
<1>. USE DEF IInv, RemoveRoom, At
<1>1. TypeOK'
  BY DEF TypeOK, PCs, Callback, Kinds
<1>2. Connected'
  BY DEF Connected, TypeOK, Handling, Fresh, Joining, Callback
<1>3. Reachable'
  BY DEF Reachable, TypeOK, Connected, Handling, Fresh, Joining, Callback
<1>4. AwayIsTended'
  BY DEF AwayIsTended, TypeOK, Connected, Handling, Fresh, Callback
<1>. QED
  BY <1>1, <1>2, <1>3, <1>4, Frame

\* The player leaves, or the process ends.
LEMMA CleanUpKeeps ==
  ASSUME NEW c \in Clients, IInv, CleanUp(c)
  PROVE  IInv'
<1>1. CASE Crash
  BY <1>1, CrashKeeps
<1>2. CASE seat[c] = None
  <2>1. mtx[c] = "Cleaning" /\ mtx' = [mtx EXCEPT ![c] = "Removing"]
        /\ UNCHANGED << handlers, indexes, conn, away, table, armed, fired, asks, room, crashed >>
    BY <1>2 DEF CleanUp
  <2>2. TypeOK' /\ Connected' /\ Reachable' /\ AwayIsTended'
    BY <2>1 DEF IInv, TypeOK, Callback, Connected, Reachable, AwayIsTended
  <2>. QED
    BY <2>1, <2>2, Frame DEF IInv
<1>3. CASE seat[c] # None /\ ~Crash
  <2>1. /\ mtx[c] = "Cleaning" /\ mtx' = [mtx EXCEPT ![c] = "Finishing"]
        /\ lock' = "Held"
        /\ Unseat(c)
        /\ UNCHANGED << handlers, indexes, conn, away, armed, fired, asks, numConnected,
                        inRegistry, crashed >>
    BY <1>3 DEF CleanUp
  <2>2. TypeOK' /\ Connected' /\ Reachable' /\ AwayIsTended'
    <3>1. taken' \subseteq Seats /\ byPlayer' \in [Seats -> Clients \cup {None}]
          /\ seat' \in [Clients -> Seats \cup {None}]
      BY <2>1, UnseatKeeps DEF IInv
    <3>. QED
      BY <2>1, <3>1 DEF IInv, TypeOK, Callback, Connected, Reachable, AwayIsTended
  <2>3. Seated' /\ OneSeatOneClient'
    BY <2>1, UnseatKeeps DEF IInv
  <2>. QED
    BY <2>1, <2>2, <2>3, Frame DEF IInv
<1>. QED
  BY <1>1, <1>2, <1>3

\* The room lock is released, or the process ends.
LEMMA FinishCleanUpKeeps ==
  ASSUME NEW c \in Clients, IInv, FinishCleanUp(c)
  PROVE  IInv'
<1>1. CASE Crash
  BY <1>1, CrashKeeps
<1>2. CASE ~Crash
  <2>1. /\ mtx[c] = "Finishing" /\ mtx' = [mtx EXCEPT ![c] = "Removing"]
        /\ lock' = "Free"
        /\ UNCHANGED << handlers, indexes, conn, away, table, armed, fired, asks, numConnected,
                        inRegistry, crashed >>
    BY <1>2 DEF FinishCleanUp, Unlock
  <2>2. TypeOK' /\ Connected' /\ Reachable' /\ AwayIsTended'
    BY <2>1 DEF IInv, TypeOK, Callback, Connected, Reachable, AwayIsTended
  <2>. QED
    BY <2>1, <2>2, Frame DEF IInv
<1>. QED
  BY <1>1, <1>2

\* A callback removes only a client that is away, see Connected.
LEMMA RemoveClientKeeps ==
  ASSUME NEW c \in Clients, IInv, RemoveClient(c)
  PROVE  IInv'
<1>1. CASE Crash
  BY <1>1, CrashKeeps
<1>2. CASE ~Crash
  <2>1. /\ mtx[c] = "Removing" /\ mtx' = [mtx EXCEPT ![c] = "Free"]
        /\ registered' = registered \ {c}
        /\ byPlayer' = [s \in Seats |-> IF s = seat[c] THEN None ELSE byPlayer[s]]
        /\ numConnected' = (numConnected - 1) % CountMod
        /\ UNCHANGED << handlers, byConn, conn, away, seat, taken, armed, fired, asks, lock,
                        inRegistry, crashed >>
    BY <1>2 DEF RemoveClient, OneLess
  <2>2. numConnected' \in 0 .. CountMod - 1
    BY <2>1 DEF IInv, TypeOK
  <2>3. TypeOK'
    BY <2>1, <2>2 DEF IInv, TypeOK, Callback
  <2>4. Connected' /\ ConnectedKept' /\ Reachable' /\ AwayIsTended'
    BY <2>1 DEF IInv, TypeOK, Callback, Connected, ConnectedKept, Reachable, AwayIsTended
  <2>. QED
    BY <2>1, <2>3, <2>4, Frame DEF IInv
<1>. QED
  BY <1>1, <1>2

-----------------------------------------------------------------------------
(* Requests.                                                               *)

\* A request changes nothing yet.
LEMMA AskKeeps ==
  ASSUME NEW k \in Conns, NEW kind \in Kinds, IInv, Ask(k, kind)
  PROVE  IInv'
<1>. USE DEF IInv, Ask
<1>1. TypeOK'
  BY DEF TypeOK, PCs, Callback, Kinds
<1>. QED
  BY <1>1, Frame

\* A refusal changes nothing.
LEMMA RefuseKeeps ==
  ASSUME NEW c \in Clients, IInv, Refuse(c)
  PROVE  IInv'
<1>. USE DEF IInv, Refuse, Answered
<1>1. TypeOK'
  BY DEF TypeOK, PCs, Callback, Kinds
<1>. QED
  BY <1>1, Frame

\* The room lock is taken, or the process ends.
LEMMA ActKeeps ==
  ASSUME NEW c \in Clients, IInv, Act(c)
  PROVE  IInv'
<1>1. CASE Crash
  BY <1>1, CrashKeeps
<1>2. CASE ~Crash
  <2>1. /\ request' = [request EXCEPT ![c] = "Acting"]
        /\ lock' = "Held"
        /\ UNCHANGED << handlers, indexes, conn, away, table, timers, asked, numConnected,
                        inRegistry, crashed >>
    BY <1>2 DEF Act
  <2>2. TypeOK'
    BY <2>1 DEF IInv, TypeOK
  <2>. QED
    BY <2>1, <2>2, Frame DEF IInv
<1>. QED
  BY <1>1, <1>2

\* A player without chips leaves, or the process ends.
LEMMA EliminateKeeps ==
  ASSUME NEW c \in Clients, NEW s \in Seats, IInv, Eliminate(c, s)
  PROVE  IInv'
<1>1. CASE Crash
  BY <1>1, CrashKeeps
<1>2. CASE ~Crash
  <2>1. PICK e \in ClientsOf(s, byPlayer, seat) : Unseat(e)
    BY <1>2 DEF Eliminate
  <2>2. e \in Clients
    BY <2>1 DEF IInv, TypeOK, ClientsOf
  <2>3. UNCHANGED << handlers, indexes, conn, away, timers, asks, room, crashed >>
    BY <1>2 DEF Eliminate
  <2>4. /\ taken' \subseteq Seats /\ byPlayer' \in [Seats -> Clients \cup {None}]
        /\ seat' \in [Clients -> Seats \cup {None}]
    BY <2>1, <2>2, UnseatKeeps DEF IInv
  <2>5. TypeOK'
    BY <2>3, <2>4 DEF IInv, TypeOK
  <2>6. Seated' /\ OneSeatOneClient'
    BY <2>1, <2>2, <2>3, UnseatKeeps DEF IInv
  <2>. QED
    BY <2>3, <2>5, <2>6, Frame DEF IInv
<1>. QED
  BY <1>1, <1>2

\* The room lock is released, or the process ends.
LEMMA ReleaseKeeps ==
  ASSUME NEW c \in Clients, IInv, Release(c)
  PROVE  IInv'
<1>1. CASE Crash
  BY <1>1, CrashKeeps
<1>2. CASE ~Crash
  <2>1. /\ request' = [request EXCEPT ![c] = "None"]
        /\ lock' = "Free"
        /\ UNCHANGED << handlers, indexes, conn, away, table, timers, asked, numConnected,
                        inRegistry, crashed >>
    BY <1>2 DEF Release, Answered, Unlock
  <2>2. TypeOK'
    BY <2>1 DEF IInv, TypeOK
  <2>. QED
    BY <2>1, <2>2, Frame DEF IInv
<1>. QED
  BY <1>1, <1>2

\* The seat was vacant, or the process ends.
LEMMA SitKeeps ==
  ASSUME NEW c \in Clients, IInv, Sit(c)
  PROVE  IInv'
<1>1. CASE Crash
  BY <1>1, CrashKeeps
<1>2. CASE ~Crash
  <2>1. PICK s \in Seats \ taken : /\ taken' = taken \cup {s}
                                   /\ seat' = [seat EXCEPT ![c] = s]
                                   /\ byPlayer' = [byPlayer EXCEPT ![s] = c]
    BY <1>2 DEF Sit, OpenSeats
  <2>2. /\ request' = [request EXCEPT ![c] = "None"]
        /\ UNCHANGED << handlers, indexes, conn, away, timers, asked, room, crashed >>
    BY <1>2 DEF Sit, Answered
  <2>3. TypeOK'
    BY <2>1, <2>2 DEF IInv, TypeOK
  <2>4. Seated' /\ OneSeatOneClient'
    BY <2>1, <2>2 DEF IInv, TypeOK, Seated, OneSeatOneClient
  <2>. QED
    BY <2>2, <2>3, <2>4, Frame DEF IInv
<1>. QED
  BY <1>1, <1>2

\* The player leaves, or the process ends.
LEMMA StandKeeps ==
  ASSUME NEW c \in Clients, IInv, Stand(c)
  PROVE  IInv'
<1>1. CASE Crash
  BY <1>1, CrashKeeps
<1>2. CASE seat[c] = None
  <2>1. /\ request' = [request EXCEPT ![c] = "None"]
        /\ UNCHANGED << handlers, indexes, conn, away, table, timers, asked, room, crashed >>
    BY <1>2 DEF Stand, Answered
  <2>2. TypeOK'
    BY <2>1 DEF IInv, TypeOK
  <2>. QED
    BY <2>1, <2>2, Frame DEF IInv
<1>3. CASE seat[c] # None /\ ~Crash
  <2>1. /\ Unseat(c)
        /\ request' = [request EXCEPT ![c] = "Acting"]
        /\ lock' = "Held"
        /\ UNCHANGED << handlers, indexes, conn, away, timers, asked, numConnected, inRegistry,
                        crashed >>
    BY <1>3 DEF Stand
  <2>2. /\ taken' \subseteq Seats /\ byPlayer' \in [Seats -> Clients \cup {None}]
        /\ seat' \in [Clients -> Seats \cup {None}]
    BY <2>1, UnseatKeeps DEF IInv
  <2>3. TypeOK'
    BY <2>1, <2>2 DEF IInv, TypeOK
  <2>4. Seated' /\ OneSeatOneClient'
    BY <2>1, UnseatKeeps DEF IInv
  <2>. QED
    BY <2>1, <2>3, <2>4, Frame DEF IInv
<1>. QED
  BY <1>1, <1>2, <1>3

-----------------------------------------------------------------------------
(* The invariant.                                                          *)

\* In the beginning there are no clients.
LEMMA InitIInv ==
  ASSUME Init
  PROVE  IInv
<1>1. 0 \in 0 .. CountMod - 1 /\ 0 \in Nat
  OBVIOUS
<1>2. TypeOK
  BY <1>1 DEF Init, TypeOK, PCs, Kinds
<1>. QED
  BY <1>2 DEF Init, IInv, Handling, Fresh, Joining, Connected, Seated, Callback, ConnectedKept,
              Reachable, AwayIsTended, OneSeatOneClient

\* Every step of a read loop keeps the invariant.
LEMMA HandlerKeeps ==
  ASSUME NEW k \in Conns, IInv, Handler(k)
  PROVE  IInv'
BY RegisterKeeps, CountKeeps, AnnounceKeeps, TakeSeatKeeps, BindSeatKeeps, SpectateKeeps,
   ReconnectKeeps, WelcomeKeeps, CloseUnknownKeeps, DisconnectStaleKeeps, DisconnectKeeps,
   DisconnectPanicsKeeps DEF Handler

\* Everything a peer does keeps the invariant.
LEMMA PeerKeeps ==
  ASSUME NEW k \in Conns, IInv, Peer(k)
  PROVE  IInv'
BY DialKeeps, ReserveKeeps, DropKeeps, AskReconnectKeeps, AskKeeps DEF Peer

\* Every step of a timer and its callbacks keeps the invariant.
LEMMA TimerKeeps ==
  ASSUME NEW c \in Clients, IInv, Timer(c)
  PROVE  IInv'
BY FireKeeps, CheckKeeps, CheckLastKeeps, RemoveRoomKeeps, CleanUpKeeps, FinishCleanUpKeeps,
   RemoveClientKeeps DEF Timer

\* Every step of a request keeps the invariant.
LEMMA RequestKeeps ==
  ASSUME NEW c \in Clients, IInv, Request(c)
  PROVE  IInv'
BY RefuseKeeps, ActKeeps, ReleaseKeeps, SitKeeps, StandKeeps, EliminateKeeps DEF Request

\* A step that changes nothing keeps the invariant.
LEMMA StutterKeeps ==
  ASSUME IInv, UNCHANGED vars
  PROVE  IInv'
<1>1. TypeOK'
  BY DEF IInv, TypeOK, vars
<1>. QED
  BY <1>1, Frame DEF IInv, vars

\* Every step of every goroutine and of every peer keeps the invariant.
LEMMA NextIInv == IInv /\ [Next]_vars => IInv'
BY HandlerKeeps, PeerKeeps, TimerKeeps, RequestKeeps, StutterKeeps DEF Next

\* The inductive invariant holds in every state that can be reached.
THEOREM InvariantHolds == Spec => []IInv
<1>1. Init => IInv
  BY InitIInv
<1>. QED
  BY <1>1, NextIInv, PTL DEF Spec

\* However the callbacks of timers and reconnections interleave, a client that
\* is connected is registered.
THEOREM ConnectedAlwaysKept == Spec => []ConnectedKept
<1>1. IInv => ConnectedKept
  BY DEF IInv
<1>. QED
  BY <1>1, InvariantHolds, PTL

\* A client is away exactly when its connection no longer leads to it.
THEOREM AlwaysReachable == Spec => []Reachable
<1>1. IInv => Reachable
  BY DEF IInv
<1>. QED
  BY <1>1, InvariantHolds, PTL

\* No client that is away is left without a timer or a callback.
THEOREM AwayAlwaysTended == Spec => []AwayIsTended
<1>1. IInv => AwayIsTended
  BY DEF IInv
<1>. QED
  BY <1>1, InvariantHolds, PTL

\* No seat ever has two players.
THEOREM SeatsNotShared == Spec => []OneSeatOneClient
<1>1. IInv => OneSeatOneClient
  BY DEF IInv
<1>. QED
  BY <1>1, InvariantHolds, PTL

\* Every variable always has its type.
THEOREM SessionTyped == Spec => []TypeOK
<1>1. IInv => TypeOK
  BY DEF IInv
<1>. QED
  BY <1>1, InvariantHolds, PTL

-----------------------------------------------------------------------------
(* The refinement.                                                         *)

\* Steps that touch neither what a status is made of nor the registry.
LEMMA StatusFrame ==
  ASSUME UNCHANGED << conn, registered, away, inRegistry >>
  PROVE  UNCHANGED << Status, inRegistry >>
BY DEF Status

\* The status of one client changes as Presence's Becomes says.
LEMMA StatusStep ==
  ASSUME NEW c \in Clients, NEW from, NEW to, Status[c] = from,
         UNCHANGED inRegistry,
         Status' = [d \in Clients |-> IF d = c THEN to ELSE Status[d]]
  PROVE  P!Becomes(c, from, to)
BY DEF P!Becomes, Status

\* A client that is registered arrives.
LEMMA RegisterImplements ==
  ASSUME NEW k \in Conns, IInv, Register(k)
  PROVE  P!Arrive(k) /\ k \in Clients
<1>1. k \in Clients /\ conn[k] = None /\ ~away[k]
  BY DEF IInv, Handling, Fresh, Connected, Register, Goto
<1>2. /\ conn' = [conn EXCEPT ![k] = k] /\ registered' = registered \cup {k}
      /\ UNCHANGED << away, inRegistry >>
  BY DEF Register
<1>3. Status[k] = "absent"
  BY <1>1 DEF Status
<1>4. Status' = [d \in Clients |-> IF d = k THEN "here" ELSE Status[d]]
  BY <1>1, <1>2 DEF Status, IInv, TypeOK
<1>. QED
  BY <1>1, <1>2, <1>3, <1>4, StatusStep DEF P!Arrive

\* A client that reconnects returns; one that was removed does not.
LEMMA ReconnectImplements ==
  ASSUME NEW k \in Conns, IInv, Reconnect(k)
  PROVE  (\E c \in Clients : P!Return(c)) \/ UNCHANGED << Status, inRegistry >>
<1>. DEFINE c == target[k]
<1>1. c \in Clients /\ pc[k] = "Reconnecting" /\ UNCHANGED << registered, inRegistry >>
  BY DEF IInv, Handling, Reconnect, Goto
<1>2. CASE c \notin registered
  BY <1>2, StatusFrame DEF Reconnect, StillValid
<1>3. CASE c \in registered
  <2>1. conn' = [conn EXCEPT ![c] = k] /\ away' = [away EXCEPT ![c] = FALSE] /\ conn[c] # None
    BY <1>1, <1>3 DEF Reconnect, StillValid, IInv, Connected
  <2>2. Status' = [d \in Clients |-> IF d = c THEN "here" ELSE Status[d]]
    BY <1>1, <1>3, <2>1 DEF Status, IInv, TypeOK
  <2>3. CASE away[c]
    <3>1. Status[c] = "away"
      BY <1>1, <1>3, <2>1, <2>3 DEF Status
    <3>2. P!Return(c)
      BY <1>1, <2>2, <3>1, StatusStep DEF P!Return
    <3>. QED
      BY <1>1, <3>2
  <2>4. CASE ~away[c]
    <3>1. Status[c] = "here"
      BY <1>1, <1>3, <2>1, <2>4 DEF Status
    <3>2. Status' = Status
      BY <2>2, <3>1 DEF Status
    <3>. QED
      BY <1>1, <3>2
  <2>. QED
    BY <2>3, <2>4
<1>. QED
  BY <1>2, <1>3

\* Both forms of handleDisconnect that mark a client.
LEMMA LoseImplements ==
  ASSUME NEW c \in Clients, IInv, conn[c] # None,
         away' = [away EXCEPT ![c] = TRUE], UNCHANGED << conn, registered, inRegistry >>
  PROVE  P!Lose(c) \/ UNCHANGED << Status, inRegistry >>
<1>1. CASE c \in registered /\ ~away[c]
  <2>1. Status[c] = "here"
    BY <1>1 DEF Status
  <2>2. Status' = [d \in Clients |-> IF d = c THEN "away" ELSE Status[d]]
    BY <1>1 DEF Status, IInv, TypeOK
  <2>. QED
    BY <2>1, <2>2, StatusStep DEF P!Lose
<1>2. CASE c \notin registered \/ away[c]
  BY <1>2 DEF Status, IInv, TypeOK
<1>. QED
  BY <1>1, <1>2

\* removeClient forgets a client that is away, or one that is gone already.
LEMMA RemoveClientImplements ==
  ASSUME NEW c \in Clients, IInv, RemoveClient(c)
  PROVE  P!Forget(c) \/ UNCHANGED << Status, inRegistry >>
<1>1. CASE Crash
  BY <1>1, StatusFrame DEF Crash
<1>2. CASE ~Crash
  <2>1. /\ registered' = registered \ {c} /\ UNCHANGED << conn, away, inRegistry >>
        /\ mtx[c] = "Removing"
    BY <1>2 DEF RemoveClient
  <2>2. away[c] /\ conn[c] # None
    BY <2>1 DEF IInv, Connected, Callback
  <2>3. Status' = [d \in Clients |-> IF d = c THEN "gone" ELSE Status[d]]
    BY <2>1, <2>2 DEF Status
  <2>4. CASE c \in registered
    <3>1. Status[c] = "away"
      BY <2>2, <2>4 DEF Status
    <3>. QED
      BY <2>1, <2>3, <3>1, StatusStep DEF P!Forget
  <2>5. CASE c \notin registered
    <3>1. Status[c] = "gone"
      BY <2>2, <2>5 DEF Status
    <3>2. Status' = Status
      BY <2>3, <3>1 DEF Status
    <3>. QED
      BY <2>1, <3>2
  <2>. QED
    BY <2>4, <2>5
<1>. QED
  BY <1>1, <1>2

\* A room is closed by the callback of a client that is away.
LEMMA RemoveRoomImplements ==
  ASSUME NEW c \in Clients, IInv, RemoveRoom(c)
  PROVE  P!Close
<1>1. mtx[c] = "Closing" /\ inRegistry' = FALSE /\ UNCHANGED << conn, registered, away >>
  BY DEF RemoveRoom, At
<1>2. Status[c] \in {"away", "gone"}
  BY <1>1 DEF IInv, Connected, Callback, Status
<1>3. Status' = Status
  BY <1>1 DEF Status
<1>. QED
  BY <1>1, <1>2, <1>3 DEF P!Close

\* Every step of the sessions is a step of Presence or changes nothing of it.
LEMMA NextImplements ==
  ASSUME IInv, [Next]_vars
  PROVE  P!Next \/ UNCHANGED << Status, inRegistry >>
<1>1. ASSUME NEW k \in Conns, Peer(k)
      PROVE  UNCHANGED << Status, inRegistry >>
  BY <1>1, StatusFrame DEF Peer, Dial, Reserve, Drop, AskReconnect, Ask
<1>2. ASSUME NEW k \in Conns, Handler(k)
      PROVE  P!Next \/ UNCHANGED << Status, inRegistry >>
  <2>1. CASE Register(k)
    BY <2>1, RegisterImplements DEF P!Next
  <2>2. CASE Reconnect(k)
    BY <2>2, ReconnectImplements DEF P!Next
  <2>3. CASE Disconnect(k) \/ DisconnectPanics(k)
    <3>. DEFINE c == byConn[k]
    <3>1. /\ c \in Clients /\ conn[c] = k /\ away' = [away EXCEPT ![c] = TRUE]
          /\ UNCHANGED << conn, registered, inRegistry >>
      BY <2>3 DEF Disconnect, DisconnectPanics, Current
    <3>2. P!Lose(c) \/ UNCHANGED << Status, inRegistry >>
      BY <3>1, LoseImplements
    <3>. QED
      BY <3>1, <3>2 DEF P!Next
  <2>4. CASE Count(k) \/ Announce(k) \/ TakeSeat(k) \/ BindSeat(k) \/ Spectate(k) \/ Welcome(k)
             \/ CloseUnknown(k) \/ DisconnectStale(k)
    BY <2>4, StatusFrame DEF Count, Announce, TakeSeat, BindSeat, Spectate, Welcome, CloseUnknown,
                             DisconnectStale
  <2>. QED
    BY <1>2, <2>1, <2>2, <2>3, <2>4 DEF Handler
<1>3. ASSUME NEW c \in Clients, Timer(c)
      PROVE  P!Next \/ UNCHANGED << Status, inRegistry >>
  <2>1. CASE RemoveClient(c)
    BY <2>1, RemoveClientImplements DEF P!Next
  <2>2. CASE RemoveRoom(c)
    BY <2>2, RemoveRoomImplements DEF P!Next
  <2>3. CASE Fire(c) \/ Check(c) \/ CheckLast(c) \/ CleanUp(c) \/ FinishCleanUp(c)
    BY <2>3, StatusFrame DEF Fire, Check, CheckLast, CleanUp, FinishCleanUp, Crash
  <2>. QED
    BY <1>3, <2>1, <2>2, <2>3 DEF Timer
<1>4. ASSUME NEW c \in Clients, Request(c)
      PROVE  UNCHANGED << Status, inRegistry >>
  BY <1>4, StatusFrame DEF Request, Refuse, Act, Release, Sit, Stand, Eliminate, Crash
<1>5. CASE UNCHANGED vars
  BY <1>5, StatusFrame DEF vars
<1>. QED
  BY <1>1, <1>2, <1>3, <1>4, <1>5 DEF Next

\* The sessions implement Presence: nobody is forgotten who is here, nobody
\* comes back who was forgotten, and a room is closed only when somebody left.
THEOREM SessionsImplementPresence == Spec => Presences
<1>1. Init => P!Init
  BY DEF Init, P!Init, Status
<1>2. IInv /\ [Next]_vars => [P!Next]_<< Status, inRegistry >>
  BY NextImplements
<1>. QED
  BY <1>1, <1>2, InvariantHolds, PTL DEF Spec, Presences, P!Spec
=============================================================================
