------------------------------ MODULE Session ------------------------------
(***************************************************************************)
(* The connections of one room: internal/net/server_conn.go with clients.go*)
(* and the parts of server.go, server_rooms.go, server_requests.go and     *)
(* room.go that it works with.  The goroutines are the read loop of every  *)
(* connection, the timer callbacks of every client, and the requests; they *)
(* share the indexes of clients, client.mtx, the room lock and the seats.  *)
(*                                                                         *)
(* A client is named by the connection that it was created on.  Of the     *)
(* game there is the room lock, which a request holds for seconds, and who *)
(* sits where.  The room's admin and the creator's token are left out.     *)
(***************************************************************************)
EXTENDS Integers, FiniteSets

CONSTANTS
  Conns,        \* the connections; each is dialled at most once
  Joiners,      \* those that become a client, the others only reconnect
  Seats,        \* the seats of the table
  None,         \* no connection, client or seat
  Placeholder,  \* the empty client of ReserveConn
  CountMod,     \* NumConnected is a uint64
  MaxAsks       \* so many requests are made in all

ASSUME SessionAssumption ==
  /\ Joiners \subseteq Conns
  /\ {None, Placeholder} \cap (Conns \cup Seats) = {}
  /\ None # Placeholder
  /\ Conns \cap Seats = {}
  /\ CountMod \in Nat \ {0}
  /\ MaxAsks \in Nat

Clients == Joiners

VARIABLES
  pc, target,                \* of every connection: its handler, and whom it is about
  told,                      \* the clients that were sent their private ID
  byConn, byPlayer,          \* indexes: of every connection, of every seat
  registered,                \* byID and byPrivID
  conn, away, seat,          \* of every client: conn, isDisconnected, Player
  taken,                     \* the seats that are not vacant
  armed, fired,              \* its timer runs; its callbacks that wait for client.mtx
  mtx,                       \* "Free", or where the holder of client.mtx is
  request, asked,            \* its request, and the count of all requests
  lock,                      \* the room lock
  numConnected,
  inRegistry,                \* server.rooms has the room
  crashed                    \* the process is dead

handlers == << pc, target, told >>
indexes  == << byConn, registered >>
table    == << byPlayer, seat, taken >>
timers   == << armed, fired, mtx >>
asks     == << request, asked >>
room     == << lock, numConnected, inRegistry >>
vars == << handlers, indexes, conn, away, table, timers, asks, room, crashed >>

PCs == {"New", "Reading", "Reserved", "Registered", "Counted", "Announced", "Seating",
        "Reconnecting", "Returned", "Leaving", "Closed"}

\* Where a timer callback that holds client.mtx can be.
Callback == {"Counting", "Closing", "Cleaning", "Finishing", "Removing"}

Init ==
  /\ pc = [k \in Conns |-> "New"] /\ target = [k \in Conns |-> None] /\ told = {}
  /\ byConn = [k \in Conns |-> None] /\ registered = {}
  /\ conn = [c \in Clients |-> None] /\ away = [c \in Clients |-> FALSE]
  /\ byPlayer = [s \in Seats |-> None] /\ seat = [c \in Clients |-> None] /\ taken = {}
  /\ armed = [c \in Clients |-> FALSE] /\ fired = [c \in Clients |-> 0]
  /\ mtx = [c \in Clients |-> "Free"]
  /\ request = [c \in Clients |-> "None"] /\ asked = 0
  /\ lock = "Free" /\ numConnected = 0 /\ inRegistry = TRUE /\ crashed = FALSE

Goto(k, from, to) == pc[k] = from /\ pc' = [pc EXCEPT ![k] = to]

\* A broadcast panics on a placeholder: SendTo asserts that its client has a
\* connection.  In a goroutine of a request or of a timer this ends the
\* process, in a read loop the connection.
BroadcastPanics == \E k \in Conns : byConn[k] = Placeholder

Crash ==
  /\ crashed' = TRUE
  /\ UNCHANGED << handlers, indexes, conn, away, table, timers, asks, room >>

\* getPlayerClient: by the index, or by the name of a connected client's player.
ClientsOf(s, players, on) ==
  IF players[s] # None THEN {players[s]}
  ELSE {c \in Clients : on[c] = s /\ \E k \in Conns : byConn[k] = c}

\* Nil is dereferenced when client c is told about one of these seats: nobody
\* is found for it, or a client without a player.
Faceless(c, players, on) ==
  {s \in taken : ClientsOf(s, players, on) = {}
                 \/ \E e \in ClientsOf(s, players, on) \ {c} : on[e] = None}

\* The seats of active players: GetSeat alone does not list its player.
Listed == taken \ {target[k] : k \in {j \in Conns : pc[j] = "Seating"}}

-----------------------------------------------------------------------------
(* handleNewConn.                                                          *)

Dial(k) ==
  /\ inRegistry
  /\ Goto(k, "New", "Reading")
  /\ UNCHANGED << target, told, indexes, conn, away, table, timers, asks, room, crashed >>

Reserve(k) ==
  /\ k \in Joiners
  /\ byConn[k] = None
  /\ Goto(k, "Reading", "Reserved")
  /\ byConn' = [byConn EXCEPT ![k] = Placeholder]
  /\ UNCHANGED << target, told, registered, conn, away, table, timers, asks, room, crashed >>

\* newClient, under the room lock.
Register(k) ==
  /\ lock = "Free"
  /\ Goto(k, "Reserved", "Registered")
  /\ byConn' = [byConn EXCEPT ![k] = k]
  /\ registered' = registered \cup {k}
  /\ conn' = [conn EXCEPT ![k] = k]
  /\ UNCHANGED << target, told, away, table, timers, asks, room, crashed >>

Count(k) ==
  /\ Goto(k, "Registered", "Counted")
  /\ numConnected' = (numConnected + 1) % CountMod
  /\ UNCHANGED << target, told, indexes, conn, away, table, timers, asks, lock, inRegistry, crashed >>

\* The others are told, the client gets its private ID, then the players.
Announce(k) ==
  /\ Goto(k, "Counted",
          IF BroadcastPanics
             \/ (numConnected > 1 /\ Listed \cap Faceless(None, byPlayer, seat) # {})
          THEN "Leaving" ELSE "Announced")
  /\ told' = IF BroadcastPanics THEN told ELSE told \cup {k}
  /\ UNCHANGED << target, indexes, conn, away, table, timers, asks, room, crashed >>

\* GetSeat.
TakeSeat(k) ==
  /\ Goto(k, "Announced", "Seating")
  /\ \E s \in Seats \ taken :
       /\ taken' = taken \cup {s}
       /\ target' = [target EXCEPT ![k] = s]
  /\ UNCHANGED << told, indexes, conn, away, byPlayer, seat, timers, asks, room, crashed >>

\* addPlayer and sendAllPlayerInfo, which dereferences every player's client.
BindSeat(k) ==
  /\ pc[k] = "Seating"
  /\ seat' = [seat EXCEPT ![k] = target[k]]
  /\ byPlayer' = [byPlayer EXCEPT ![target[k]] = k]
  /\ target' = [target EXCEPT ![k] = None]
  /\ Goto(k, "Seating",
          IF BroadcastPanics \/ Faceless(k, byPlayer', seat') # {} THEN "Leaving" ELSE "Reading")
  /\ UNCHANGED << told, indexes, conn, away, taken, timers, asks, room, crashed >>

\* A spectator, by choice or because no seat is open to it.
Spectate(k) ==
  /\ Goto(k, "Announced", IF Faceless(k, byPlayer, seat) # {} THEN "Leaving" ELSE "Reading")
  /\ UNCHANGED << target, told, indexes, conn, away, table, timers, asks, room, crashed >>

-----------------------------------------------------------------------------
(* handleReconnect.                                                        *)

\* The private ID is found; the handler waits for client.mtx.
AskReconnect(k, c) ==
  /\ c \in told \cap registered
  /\ byConn[k] = None
  /\ Goto(k, "Reading", "Reconnecting")
  /\ target' = [target EXCEPT ![k] = c]
  /\ UNCHANGED << told, indexes, conn, away, table, timers, asks, room, crashed >>

StillValid(c) == c \in registered

\* A callback that has fired already is not stopped.
Reconnect(k) ==
  LET c == target[k]
  IN  /\ pc[k] = "Reconnecting" /\ mtx[c] = "Free"
      /\ Goto(k, "Reconnecting", IF StillValid(c) THEN "Returned" ELSE "Reading")
      /\ IF StillValid(c)
         THEN /\ armed' = [armed EXCEPT ![c] = FALSE]
              /\ conn' = [conn EXCEPT ![c] = k]
              /\ byConn' = [byConn EXCEPT ![k] = c]
              /\ away' = [away EXCEPT ![c] = FALSE]
              /\ UNCHANGED target
         ELSE /\ target' = [target EXCEPT ![k] = None]
              /\ UNCHANGED << armed, conn, byConn, away >>
      /\ UNCHANGED << told, registered, table, fired, mtx, asks, room, crashed >>

\* publicClientInfo dereferences the client's player; then all are told.
Welcome(k) ==
  /\ Goto(k, "Returned",
          IF \/ seat[target[k]] = None
             \/ BroadcastPanics
             \/ Faceless(target[k], byPlayer, seat) # {}
          THEN "Leaving" ELSE "Reading")
  /\ target' = [target EXCEPT ![k] = None]
  /\ UNCHANGED << told, indexes, conn, away, table, timers, asks, room, crashed >>

-----------------------------------------------------------------------------
(* handleDisconnect and the callback of its timer.                         *)

Drop(k) ==
  /\ Goto(k, "Reading", "Leaving")
  /\ UNCHANGED << target, told, indexes, conn, away, table, timers, asks, room, crashed >>

\* The connection is nobody's.
CloseUnknown(k) ==
  /\ byConn[k] = None
  /\ Goto(k, "Leaving", "Closed")
  /\ UNCHANGED << target, told, indexes, conn, away, table, timers, asks, room, crashed >>

\* Mutant: every connection of a client counts as its current one.
AnyConn(c, k) == TRUE

Current(c, k) == conn[c] = k

\* The client has reconnected on another connection already.
DisconnectStale(k) ==
  LET c == byConn[k]
  IN  /\ c \in Clients
      /\ mtx[c] = "Free"
      /\ ~Current(c, k)
      /\ Goto(k, "Leaving", "Closed")
      /\ byConn' = [byConn EXCEPT ![k] = None]
      /\ UNCHANGED << target, told, registered, conn, away, table, timers, asks, room, crashed >>

\* Mutant: a client that has reconnected gets no new timer.
ArmOnce(c) == armed' = [armed EXCEPT ![c] = conn[c] = c]

\* The old timer is stopped, a new one started, for no time or a minute.
Arm(c) == armed' = [armed EXCEPT ![c] = TRUE]

Disconnect(k) ==
  LET c == byConn[k]
  IN  /\ c \in Clients
      /\ mtx[c] = "Free"
      /\ Current(c, k)
      /\ Goto(k, "Leaving", "Closed")
      /\ away' = [away EXCEPT ![c] = TRUE]
      /\ byConn' = [byConn EXCEPT ![k] = None]
      /\ Arm(c)
      /\ UNCHANGED << target, told, registered, conn, table, fired, mtx, asks, room, crashed >>

\* An unclean exit of a player is broadcast.  When this panics, nothing
\* releases client.mtx.
DisconnectPanics(k) ==
  LET c == byConn[k]
  IN  /\ c \in Clients
      /\ mtx[c] = "Free"
      /\ Current(c, k)
      /\ seat[c] # None /\ BroadcastPanics
      /\ Goto(k, "Leaving", "Closed")
      /\ away' = [away EXCEPT ![c] = TRUE]
      /\ mtx' = [mtx EXCEPT ![c] = "Abandoned"]
      /\ UNCHANGED << target, told, indexes, conn, table, armed, fired, asks, room, crashed >>

Fire(c) ==
  /\ armed[c]
  /\ armed' = [armed EXCEPT ![c] = FALSE]
  /\ fired' = [fired EXCEPT ![c] = @ + 1]
  /\ UNCHANGED << handlers, indexes, conn, away, table, mtx, asks, room, crashed >>

\* Mutant: the callback does not look whether the client came back.
AlwaysAway(c) == TRUE

StillAway(c) == away[c]

\* The callback gets client.mtx, and looks at the room lock.
Check(c) ==
  /\ fired[c] > 0
  /\ mtx[c] = "Free"
  /\ fired' = [fired EXCEPT ![c] = @ - 1]
  /\ mtx' = [mtx EXCEPT ![c] = IF ~StillAway(c) THEN "Free"
                               ELSE IF lock = "Free" THEN "Counting" ELSE "Cleaning"]
  /\ UNCHANGED << handlers, indexes, conn, away, table, armed, asks, room, crashed >>

At(c, from, to) == mtx[c] = from /\ mtx' = [mtx EXCEPT ![c] = to]

\* Is it the last one?
CheckLast(c) ==
  /\ At(c, "Counting", IF numConnected = 1 THEN "Closing" ELSE "Cleaning")
  /\ UNCHANGED << handlers, indexes, conn, away, table, armed, fired, asks, room, crashed >>

\* removeRoom.  The client stays registered.
RemoveRoom(c) ==
  /\ At(c, "Closing", "Free")
  /\ inRegistry' = FALSE
  /\ UNCHANGED << handlers, indexes, conn, away, table, armed, fired, asks, lock, numConnected,
                  crashed >>

\* removePlayer: the seat is vacant, player and client let go of each other.
Unseat(c) ==
  /\ taken' = taken \ {seat[c]}
  /\ byPlayer' = [byPlayer EXCEPT ![seat[c]] = None]
  /\ seat' = [seat EXCEPT ![c] = None]

\* cleanupPlayerOnExit, which waits for the room lock.
CleanUp(c) ==
  /\ mtx[c] = "Cleaning"
  /\ lock = "Free"
  /\ IF seat[c] = None
     THEN /\ mtx' = [mtx EXCEPT ![c] = "Removing"]
          /\ UNCHANGED << handlers, indexes, conn, away, table, armed, fired, asks, room, crashed >>
     ELSE IF BroadcastPanics THEN Crash
     ELSE /\ mtx' = [mtx EXCEPT ![c] = "Finishing"]
          /\ lock' = "Held"
          /\ Unseat(c)
          /\ UNCHANGED << handlers, indexes, conn, away, armed, fired, asks, numConnected,
                          inRegistry, crashed >>

\* Mutant: a return without the release of the room lock.
KeepLock == UNCHANGED lock

Unlock == lock' = "Free"

\* What the departure sets off in the game, with its pauses, is over.
FinishCleanUp(c) ==
  /\ mtx[c] = "Finishing"
  /\ IF BroadcastPanics THEN Crash
     ELSE /\ mtx' = [mtx EXCEPT ![c] = "Removing"]
          /\ Unlock
          /\ UNCHANGED << handlers, indexes, conn, away, table, armed, fired, asks, numConnected,
                          inRegistry, crashed >>

\* Mutant: a signed counter.
OneLessSigned(n) == n - 1

\* The counter wraps: two callbacks of one client may both remove it.
OneLess(n) == (n - 1) % CountMod

\* removeClient.  A seat taken in the meantime loses its entry.
RemoveClient(c) ==
  /\ mtx[c] = "Removing"
  /\ IF BroadcastPanics THEN Crash
     ELSE /\ mtx' = [mtx EXCEPT ![c] = "Free"]
          /\ registered' = registered \ {c}
          /\ byPlayer' = [s \in Seats |-> IF s = seat[c] THEN None ELSE byPlayer[s]]
          /\ numConnected' = OneLess(numConnected)
          /\ UNCHANGED << handlers, byConn, conn, away, seat, taken, armed, fired, asks, lock,
                          inRegistry, crashed >>

-----------------------------------------------------------------------------
(* Requests, each in a goroutine of its own, with the client that the      *)
(* connection had when it was read.                                        *)

Kinds == {"Act", "Sit", "Stand"}

Answered(c) == request' = [request EXCEPT ![c] = "None"]

Ask(k, kind) ==
  /\ pc[k] = "Reading"
  /\ byConn[k] \in Clients
  /\ request[byConn[k]] = "None"
  /\ asked < MaxAsks
  /\ asked' = asked + 1
  /\ request' = [request EXCEPT ![byConn[k]] = kind]
  /\ UNCHANGED << handlers, indexes, conn, away, table, timers, room, crashed >>

\* Not its turn, table locked, no seat, or the room lock not free (TryLock).
Refuse(c) ==
  /\ request[c] \in {"Act", "Sit"}
  /\ Answered(c)
  /\ UNCHANGED << handlers, indexes, conn, away, table, timers, asked, room, crashed >>

\* handlePlayerAction of a player: the lock is held for the pauses, too.
Act(c) ==
  /\ request[c] = "Act"
  /\ lock = "Free"
  /\ seat[c] # None
  /\ IF BroadcastPanics THEN Crash
     ELSE /\ request' = [request EXCEPT ![c] = "Acting"]
          /\ lock' = "Held"
          /\ UNCHANGED << handlers, indexes, conn, away, table, timers, asked, numConnected,
                          inRegistry, crashed >>

\* removeEliminatedPlayers, for the player on one seat.
Eliminate(c, s) ==
  /\ request[c] = "Acting"
  /\ s \in Listed
  /\ IF s \in Faceless(None, byPlayer, seat) \/ BroadcastPanics THEN Crash
     ELSE /\ \E e \in ClientsOf(s, byPlayer, seat) : Unseat(e)
          /\ UNCHANGED << handlers, indexes, conn, away, timers, asks, room, crashed >>

Release(c) ==
  /\ request[c] = "Acting"
  /\ IF BroadcastPanics THEN Crash
     ELSE /\ Answered(c)
          /\ Unlock
          /\ UNCHANGED << handlers, indexes, conn, away, table, timers, asked, numConnected,
                          inRegistry, crashed >>

\* Mutant: any seat will do.
AnySeat == Seats

OpenSeats == Seats \ taken

\* handleNewPlayer, under the room lock.
Sit(c) ==
  /\ request[c] = "Sit"
  /\ lock = "Free"
  /\ OpenSeats # {}
  /\ IF BroadcastPanics THEN Crash
     ELSE /\ \E s \in OpenSeats :
               /\ taken' = taken \cup {s}
               /\ seat' = [seat EXCEPT ![c] = s]
               /\ byPlayer' = [byPlayer EXCEPT ![s] = c]
          /\ Answered(c)
          /\ UNCHANGED << handlers, indexes, conn, away, timers, asked, room, crashed >>

\* cleanupPlayerOnExit of a player who becomes a spectator.
Stand(c) ==
  /\ request[c] = "Stand"
  /\ lock = "Free"
  /\ IF seat[c] = None
     THEN /\ Answered(c)
          /\ UNCHANGED << handlers, indexes, conn, away, table, timers, asked, room, crashed >>
     ELSE IF BroadcastPanics THEN Crash
     ELSE /\ Unseat(c)
          /\ request' = [request EXCEPT ![c] = "Acting"]
          /\ lock' = "Held"
          /\ UNCHANGED << handlers, indexes, conn, away, timers, asked, numConnected, inRegistry,
                          crashed >>

-----------------------------------------------------------------------------

\* What a read loop does by itself.
Handler(k) ==
  /\ ~crashed
  /\ \/ Register(k) \/ Count(k) \/ Announce(k) \/ TakeSeat(k) \/ BindSeat(k) \/ Spectate(k)
     \/ Reconnect(k) \/ Welcome(k)
     \/ CloseUnknown(k) \/ DisconnectStale(k) \/ Disconnect(k) \/ DisconnectPanics(k)

\* What the peer of a connection does.
Peer(k) ==
  /\ ~crashed
  /\ \/ Dial(k) \/ Reserve(k) \/ Drop(k)
     \/ \E c \in Clients : AskReconnect(k, c)
     \/ \E kind \in Kinds : Ask(k, kind)

Timer(c) ==
  /\ ~crashed
  /\ \/ Fire(c) \/ Check(c) \/ CheckLast(c) \/ RemoveRoom(c)
     \/ CleanUp(c) \/ FinishCleanUp(c) \/ RemoveClient(c)

Request(c) ==
  /\ ~crashed
  /\ \/ Refuse(c) \/ Act(c) \/ Release(c) \/ Sit(c) \/ Stand(c)
     \/ \E s \in Seats : Eliminate(c, s)

Next ==
  \/ \E k \in Conns : Peer(k) \/ Handler(k)
  \/ \E c \in Clients : Timer(c) \/ Request(c)

Spec == Init /\ [][Next]_vars

\* Every goroutine of the server runs, timers elapse, and a waiter of a Go
\* mutex gets it in the end.  A peer may stay silent for ever.
FairSpec ==
  /\ Spec
  /\ \A k \in Conns : SF_vars(Handler(k))
  /\ \A c \in Clients : SF_vars(Timer(c)) /\ SF_vars(Request(c))

-----------------------------------------------------------------------------
(* Properties.                                                             *)

\* The type of every variable.
TypeOK ==
  /\ pc \in [Conns -> PCs]
  /\ target \in [Conns -> Clients \cup Seats \cup {None}]
  /\ told \subseteq Clients /\ registered \subseteq Clients
  /\ byConn \in [Conns -> Clients \cup {None, Placeholder}]
  /\ byPlayer \in [Seats -> Clients \cup {None}]
  /\ conn \in [Clients -> Conns \cup {None}]
  /\ away \in [Clients -> BOOLEAN]
  /\ seat \in [Clients -> Seats \cup {None}]
  /\ taken \subseteq Seats
  /\ armed \in [Clients -> BOOLEAN] /\ fired \in [Clients -> Nat]
  /\ mtx \in [Clients -> Callback \cup {"Free", "Abandoned"}]
  /\ request \in [Clients -> Kinds \cup {"None", "Acting"}] /\ asked \in Nat
  /\ lock \in {"Free", "Held"}
  /\ numConnected \in 0 .. CountMod - 1
  /\ inRegistry \in BOOLEAN /\ crashed \in BOOLEAN

\* A client that is connected is never forgotten: however a late callback of
\* its timer and a reconnection meet at client.mtx, the callback does not
\* remove a client that has come back, and nobody comes back as a client that
\* was removed.
ConnectedKept == \A c \in Clients : conn[c] # None /\ ~away[c] => c \in registered

\* A client is marked as disconnected exactly when its connection no longer
\* leads to it: the late disconnect of an old connection does not mark a
\* client that has reconnected, nor leave it without an entry for broadcasts.
Reachable ==
  \A c \in registered : mtx[c] # "Abandoned" => (away[c] <=> byConn[conn[c]] # c)

\* A client that is away has a timer running or a callback on its way as long
\* as the room exists: stopping timers and starting new ones loses no client.
AwayIsTended ==
  \A c \in registered : away[c] /\ inRegistry =>
    armed[c] \/ fired[c] > 0 \/ mtx[c] \in Callback \cup {"Abandoned"}

\* No seat has two players, although seats are taken without the room lock by
\* new connections and with it by requests, and given up by callbacks.
OneSeatOneClient == \A c, d \in Clients : seat[c] # None /\ seat[c] = seat[d] => c = d

Status ==
  [c \in Clients |-> IF conn[c] = None THEN "absent"
                     ELSE IF c \notin registered THEN "gone"
                     ELSE IF away[c] THEN "away" ELSE "here"]

P == INSTANCE Presence WITH status <- Status, open <- inRegistry

\* The sessions implement what Presence promises.
Presences == P!Spec

\* A client that loses its connection comes back or is removed in the end,
\* unless its room is, the process ends, or a panic left its mutex locked.
AwayResolved ==
  \A c \in Clients :
    away[c] /\ c \in registered ~>
      ~away[c] \/ c \notin registered \/ ~inRegistry \/ mtx[c] = "Abandoned" \/ crashed

\* The room lock, held for seconds, and the mutexes of the clients, held by
\* callbacks that wait for it, never block each other for good: a connection
\* that is being handled is read again or closed in the end, with the same
\* exceptions.
HandlersReturn ==
  \A k \in Conns :
    pc[k] \notin {"New", "Reading", "Closed"} ~>
      pc[k] \in {"Reading", "Closed"} \/ crashed \/ \E c \in Clients : mtx[c] = "Abandoned"

\* No panic reaches the top of a goroutine of the server.
ServerRuns == ~crashed

-----------------------------------------------------------------------------
(* The inductive invariant of SessionProofs, in parts.                     *)

Joining == {"Registered", "Counted", "Announced", "Seating"}

\* No client has had the connection yet.
Fresh(k) ==
  \/ pc[k] \in {"New", "Reserved", "Reconnecting"}
  \/ pc[k] = "Reading" /\ byConn[k] = None

\* Where a read loop is tells what it knows.
Handling ==
  \A k \in Conns :
    /\ Fresh(k) => (\A c \in Clients : conn[c] # k) /\ (k \in Clients => conn[k] = None)
    /\ pc[k] \in Joining \cup {"Reserved"} => k \in Clients
    /\ pc[k] \in Joining \cup {"Returned"} => byConn[k] \in Clients
    /\ pc[k] = "Reconnecting" => target[k] \in Clients

\* A client has a connection from its registration on, and callbacks work
\* only for clients that are away.
Connected ==
  \A c \in Clients :
    /\ c \in registered => conn[c] # None
    /\ conn[c] = None => ~away[c]
    /\ mtx[c] \in Callback => away[c]

\* A seat is taken before it is bound, and by one read loop.
Seated ==
  /\ \A c \in Clients : seat[c] # None => seat[c] \in taken
  /\ \A k \in Conns : pc[k] = "Seating" =>
       /\ target[k] \in taken
       /\ \A c \in Clients : seat[c] # target[k]
       /\ \A j \in Conns : pc[j] = "Seating" /\ target[j] = target[k] => j = k

\* Every part needs the typing; the callbacks' parts need Connected, the
\* others need to know that a connection that joins or returns is fresh.
IInv ==
  /\ TypeOK /\ Handling /\ Connected /\ Seated
  /\ ConnectedKept /\ Reachable /\ AwayIsTended /\ OneSeatOneClient
=============================================================================
