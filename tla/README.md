# gopoker in TLA+

gopoker is a Texas hold'em server written in Go (`src/internal`), with a terminal
client and a web frontend. The rules of the game are in `internal/poker`, rooms,
connections and requests in `internal/net`. This directory holds TLA+ modules of the
game as the server plays it, model-checking runs and machine-checked proofs.

Contents: [inventory](#the-system), [how requests run](#how-requests-run),
[modules](#modules), [runs](#runs), [disagreements found](#what-the-code-does-not-keep),
[proofs](#proofs), [limits](#what-is-not-modelled), [what is left](#what-is-left).

## The system

| Part | State | Operations | What makes it correct |
|---|---|---|---|
| Player list (`player.go`) | a circular singly linked list with a Head and a length; two of them, `activePlayers` and `curPlayers` | AddPlayer, RemovePlayer, SetHead, GetPlayerNode, Clone, Next | nobody twice; the two rings keep one order |
| Pots (`pot.go`, `sidepot.go`) | main pot, all-in pots in order, betting pot | handleSidePots, calculateSidePotTotals, closeSidePots, GetAllPots | pots ordered by bet, never above the bet to call, chips neither lost nor made |
| Table (`poker.go`, `seats.go`) | seats (a fixed pool of Player structs), turn, buttons, bet, State and CommState | PlayerAction (all-in, bet, call, check, fold), SetNextPlayerTurn, Reset | the turn is with a player who may act; a street ends when all have acted and called |
| Rounds (`round.go`, `community.go`, `seats.go`) | community cards, round count, ante | NewRound, NextTableAction, NextCommunityAction, ReorderPlayers, rotatePlayers, FinishRound | blinds are players, hands are compared at the river only, a round always ends |
| Hand ranking (`hand_ranking.go`, `card.go`, `deck.go`) | the deck, the community cards, hole and hand of every player | Shuffle, Pop, Deal, DoFlop, DoTurn, DoRiver, AssembleBestHand, BestHand, checkTies | the best five of seven cards, the strongest hands win |
| Room (`room.go`) | the table, clients, the admin, the room lock | addPlayer, removePlayer, cleanupPlayerOnExit, postPlayerAction, postBetting, roundOver, newRound, gameOver | seats, lists and NumPlayers agree; the lock is released |
| Requests (`server_requests.go`) | none | dispatch: start, action, new player, settings, chat | checks made before the lock still hold under it |
| Sessions (`server_conn.go`, `clients.go`, `client.go`) | five indexes of clients, the reconnect timer and client.mtx of every client, NumConnected | handleNewConn, handleDisconnect and its timer callback, handleReconnect | a client that is connected is never removed, one that is away is tended until it returns or is removed; no seat has two players; nobody waits for ever |
| Rooms and server (`server_rooms.go`, `server.go`) | the map of rooms | create, rename, list, remove | a room in the map is alive |
| Messages, CLI, web | - | - | presentation and I/O |

The parts interact by calls: a request calls the room, the room calls the table, the
table calls its lists and pots; and by shared state: everything under `room.table` is
shared by all goroutines of a room. What is hard: a departure in the middle of
anything, chains of handlers that call each other until a player is needed again,
unsigned arithmetic on chips, lists that are re-headed and shortened by different
functions, and checks made outside the lock. `PROJECT.json` lists these hazards at
their lines, with the properties that cover them.

## How requests run

Every websocket has a read loop; each request is handled in a goroutine of its own.
`handlePlayerAction` and `cleanupPlayerOnExit` take the room lock, change the table,
and go on under the lock with everything that follows: `postPlayerAction` starts the
next street or finishes the round, removes eliminated players, starts the next round
and posts its blinds, with pauses of seconds in between. In `Game` a request is one
action and each of the following parts is one, and the variable `phase` says which part
is next; `phase = "Open"` is the free lock. Other requests wait for `"Open"`.

Three things happen outside the lock, and each has its place:

* A new connection sits down without the room lock (`handleNewConn`, server_conn.go:363).
  `Join` may therefore happen in the pauses of a handler, too: the constant `Pauses` says
  in which. Within a hand (`PostBetting`, `RunOut`) everything that is proved holds. In the
  pause before the next round (`NewRound`) it is checked in `headsup`. In the pause before the end
  of a game it does not hold: `Reset` clears the joiner's seat and counts one player, but the joiner
  stays in the active list, so `SeatsMatch` fails (seen with TLC; no run asks for it).
* `handlePlayerAction` checks the turn before it takes the lock, and `handleStartGame` takes
  no lock at all: `Requests` splits both into the check and what is done later.
* A connection comes, drops and comes back, timers fire, and all this meets requests that
  hold the room lock: `Session`.

## Modules

* `PlayerList`: a list is the sequence of its players from Head on. A `PlayerNode` is
  named by its player, since the code compares nodes by the player's name. SetHead is
  a rotation, Next wraps around.
* `SidePots`: the pots of a hand as one record, the branches of `handleSidePots` as one
  operator each, its assertions as `SidePotAsserts`. Chips wrap modulo `ChipMod` (2^64 in
  the code). `AllInPots.Pots` is a slice of pointers in which one pot can occur twice
  (see `Insert`), so it is a sequence of names and a function from names to pots.
* `Table`: the variables of a table, `SetNextPlayerTurn` as a function of what its
  caller leaves, and an action for each request of `PlayerAction`. `EndTurn` is what
  follows a legal one. A request that the code answers with an error changes no state
  and is no action.
* `Rounds`: the steps of `postBetting`, `roundOver` and `newRound`. A showdown does not
  look at cards: `Ranks` is every way the hands of the players can compare, ties
  included, and a seat without cards holds a muck below all hands.
* `Game`: the room around the table. Players join (before a game, or during a hand for
  the next one), leave at any time the lock is free, are eliminated; games start and
  end. `removePlayer`'s deferred part is in `Leave`, `LeaveLast` and the actions of phase
  `"Abandoned"`. The properties and the inductive invariants are here, and `HandPromises`.
* `HandProtocol`: what a table promises its players, as an abstract specification. A seat is
  free, waiting, in the hand, all-in or folded; one player has the turn or nobody; the table is idle,
  has dealt, is betting, is between streets, or the hand is over. It knows no lists, chips, pots or
  buttons. `Game` implements it (`SeatOf`, `TurnOf`, `StageOf`): most of its steps are
  stutters, and where they are not, the promise must come out of what the lists say.
* `Hand`: one hand of the same game from any distribution of chips, since games start
  with equal stacks and reach few side pots within small bounds.
* `Requests`: `Game` with requests that were let through and wait. An action is let through
  on its player's turn and carried out later, when it has the lock: too late (the table
  takes no action then), or on another player's turn, or not at all when the player has
  left the seat. Of such late actions the checks and folds of players with chips are modelled; the rest
  of `Game` runs as before, as long as the turn is with a player who may bet. A start is let through
  and carried out later with whoever is there; a start that comes after the game has begun is dropped.
* `Session`: the goroutines of one room's connections. A read loop is a program counter
  (`pc`), a timer callback is where the holder of `client.mtx` is (`mtx`), a request is `request`, and
  they share the indexes of clients, the seats, the room lock and `NumConnected`. One action is
  what happens between two places where goroutines can interleave: a lock, an index, a
  broadcast, an unsynchronised read. A panic in a read loop is caught by net/http and
  ends in `handleDisconnect` (`Leaving`); in a request's or timer's goroutine it ends the process
  (`crashed`). The game is reduced to who sits where and who holds the lock.
* `Presence`: what `Session` promises, as an abstract specification: a client is absent, here,
  away or gone, and the room is open or not.
* `HandRanking`: `AssembleBestHand` as an operator on sorted cards, one operator for each of
  its searches, and `BestHand` with `checkTies`. It has no state.
* `Showdown`: two hole cards for each player, the community cards one by one, and
  `FinishRound`, which assembles and compares the hands; below it the rules of poker for
  five cards, written independently of the code, as the reference. `Game` does not use
  it: `Ranks` there is every way hands can compare, so it includes what `Showdown` yields.
* `MCGame`, `MCHand`, `MCShowdown`, `MCRequests`, `MCSession`: model values, symmetry, orders and the short deck.
* `TableProofs` (lists and side pots), `GameProofs`, `TurnProofs`, `BetsProofs`, `HandProofs`,
  `RequestsProofs`, `ShowdownProofs`, `SessionProofs`: see [Proofs](#proofs). Each of the first five EXTENDS the one
  before, `RequestsProofs` EXTENDS `TurnProofs`.

`Requests` and `Hand` EXTEND `Game`, which EXTENDS `Rounds`, which EXTENDS `Table`, which EXTENDS `PlayerList` and `SidePots`.
Operators named as mutants are plausible bugs, used to check that a property notices;
no specification uses them.

| State in the code | Variable |
|---|---|
| `Player.Action.Action`, `.Amount`, `ChipCount`, `IsVacant` | `act` (vacant: `"VacantSeat"`), `amt`, `chips` |
| `activePlayers`, `curPlayers`, `curPlayer` | the same |
| `Dealer`, `SmallBlind`, `BigBlind` | `dealer`, `smallBlind`, `bigBlind`, `None` for nil |
| `NumPlayers`, `roundCount`, `Ante`, `Bet` | `numPlayers`, `roundCount`, `ante`, `bet` |
| `State`, `CommState` | `state`, `commState` |
| `MainPot`, `sidePots` | `pots` |
| `Winners` | `winners` (a set: the code collects them from a map) |
| the cards | `rank`, how the hands compare during a showdown; in `Showdown`, `hole`, `community`, `hand` |
| the program counter of the handler under the lock | `phase`, `nextPot` |
| requests that passed their checks | `waiting`, `starting` in `Requests` |
| `Clients.byConn`, `.byPlayer`; `.byID` with `.byPrivID` | `byConn`, `byPlayer`; `registered` (the two are always changed together) |
| `Client.conn`, `.isDisconnected`, `.Player`, `.mtx`, `.reconnectTimer` | `conn`, `away`, `seat`, `mtx`, `armed` and `fired` |
| the read loop of a connection | `pc`, `target` |
| `Room.mtx` with `isLocked`, `Player.IsVacant`, `NumConnected`, `server.rooms` | `lock`, `taken`, `numConnected`, `inRegistry` in `Session` |

`phase = "Panicked"`: an assertion failed or nil was dereferenced. `phase = "Lost"`: the
two continuations the model does not follow, a round finished a second time inside its
own end (`RemoveEliminated`), and a game won by a seat whose player had left
(`GameOver`). Invariants about tables make no claim in these two phases.

## Runs

`CHECK_DEADLOCK FALSE` everywhere: the bound on rounds, the end of the hand, and the
phases `Panicked` and `Lost` stop the model on purpose.

| Run | Instance | Shows |
|---|---|---|
| `table` | 3 seats (symmetric), 4 chips each, ante 2, bet 3, one round counted, joins in the pauses of a hand | type, lists, turns, bets, the inductive invariants `RiverInv` and `BetsInv` of the proofs, the refinement of `HandProtocol`, through joins, departures, showdowns, eliminations and restarts; 1.7 million states |
| `headsup` | 2 seats, 5 chips, ante doubling every round, two rounds counted, joins also between rounds | blinds all-in, eliminations and restarts; `LockReleased` under fairness; 770,000 states |
| `sidepots` | 4 players, all stacks adding up to 12, bet 4 | order and size of side pots, conservation of chips, no panic but one, and `StayInv`, the inductive invariant behind these; 1.2 million states |
| `departures` | 4 players, stacks adding up to 8, any of them may leave at any time | lists, turns, bets and the stack of side pots after departures (`BetsInv`, `PotsInv`); 370,000 states |
| `progress` | 3 players with stacks 1, 2, 4 | `HandEnds` under fairness |
| `ranking` | 2 players (symmetric), 11 cards of values 2 to 7, the 7 as the ace | `BestFive`, `WinnersBest`; 371,000 states |
| `sessions` | 2 connections, both may become clients, 2 seats, 2 requests | `Session`'s invariants, its refinement of `Presence`, and liveness under fairness; 50,000 states |
| `late` | 3 seats (symmetric), 3 chips, ante 2, one late action | what late actions and starts leave intact, and `RacingInv`, the inductive invariant behind it; 3.9 million states |
| `v_minted`, `v_straights`, `v_turn`, `v_reserve` | as `sidepots`, `ranking`, `late`, `sessions` (v_minted with 3 players, bets 3, 4 and 6) | see the next section |

Bounds. `MaxRounds` stops joins and actions, not the handler that is running, once so
many rounds were counted (`roundCount` counts the rounds after the first, so each game
of `table` has one hand and the blinds of the next, and each of `headsup` two hands); the
restart of a game resets the count. Three seats are the fewest with a player who is neither blind, a side pot
behind an all-in, and a midround joiner next to a hand in play; four allow two side
pots or two departures. `ChipMod` is above every sum of the run, so only code that
really subtracts too much wraps. Bets are few, but all-ins and calls add amounts that
depend on the stacks. `Symmetry` is sound in `table`: no seat is named by the
specification and its properties are invariants and step properties.

In `late` there is no bet besides the blinds, all-ins and calls, and one action is late
(`MaxLate`): the turn has to move between its check and the lock, which one other action
does. Both blinds of 3 chips are below an all-in, so raises happen.

In `sessions` a connection is either a client's first or the one on which the other's client
comes back, so two of them have a reconnection, a disconnect of the old connection after
it, two callbacks of one client, and two clients that leave together. `CountMod` is 8, above any
number of clients, so only a decrement too many wraps. Two requests (`MaxAsks`) let one hold the room lock while
another waits, is refused or sits down. What is proved of `Session` holds for any number of all of these; only
liveness depends on the bounds.

The short deck of `ranking` is six clubs from 2 to 7, two more cards of value 2 and 6, and
three more of value 7. It has every rank of hand: quads, full houses with one or two
pairs to choose from, three pairs, flushes of five and six cards, straights at both ends
and with the ace low, straight flushes with and without a higher straight beside them.
Values matter to the code by their order, by their distance, and at the ends 2 and ace,
so six values stand for thirteen; at most one suit can have five of seven cards, so
clubs are the only suit that needs five. Two trips at once are the one shape missing.

What the properties say, beyond the types:

* `SeatsMatch`, `RingOrder`: the seat pool, both lists and `NumPlayers` agree, and
  `curPlayers` is always `activePlayers` without some players, read from some point.
* `TurnHolder`, `BettingListExact`: the room waits for a player who may act, and the
  list holds exactly those who may.
* `TurnPasses`: the turn goes to the next one around the table, whatever the lists went
  through. `NobodyReturns`: clearing actions for a new street revives nobody.
* `HandPromises`: `Game` implements `HandProtocol`. Only the player who has the turn changes
  its part in the hand, and then the turn is another's; nobody else is taken out of the hand, unless they
  leave their seat, and nobody is brought back into it; whoever joins during a hand or has folded waits
  for the next deal; blinds put at most two players all-in; and when betting or a departure ends a
  hand at once, at most one player holds cards.
* `BetCovers`: nobody has more in front than the bet, so `betDiff` cannot wrap.
* `EveryoneActed`, `EveryoneCalled`, `ShowdownAtRiver`: a street ends late enough. The
  second is restricted to hands without side pots after the flop: with them, and
  preflop where the first player may check the big blind, it does not hold. It also asks that
  somebody still in the list has put in the bet: if the one who raised leaves and the
  next player folds, the street is over while nobody has (seen with four seats).
* `BetsReachThePot`, `ChipsConserved`: chips move one for one as long as no side pot exists.
* `PotsOrdered`, `PotsBelowBet`, `OnlyFoldWinsPanic`: side pots are ordered, callable,
  and their assertions hold; only the assertion of a win by folds fails. Two positions
  of one list may hold the same pot (`Insert`), so the order is strict between different pots
  only. The other two speak of a hand that nobody leaves: after a departure an open
  pot can ask for more than anybody has bet.
* `RiverInv`, `BetsInv`, `PotsInv`, `StayInv`, `RacingInv`: the inductive invariants of the proofs, see there
  what their parts are for.
* `BestFive`, `WinnersBest`: on the flop, the turn and the river a player is shown five
  of its cards, the best ones, kickers included, and at the end exactly the strongest hands win.
  Both are restricted to cards whose straight flush the code sees (`StraightFlushes`,
  next section, says where it does not).
* `JoinersWait`: whoever sits down during a hand stays out of it, even on the seat of a
  player who left while its action waited for the lock. `AloneOnlyByLateStart`: the only
  way to a game with one player is a start that was let through with two.
* `ConnectedKept`, `Reachable`, `AwayIsTended`: whatever order timers, callbacks,
  disconnects and reconnections take at `client.mtx`, a client that is connected is
  registered and gets broadcasts, and one that is away has a timer or a callback on its way.
* `OneSeatOneClient`: seats taken with and without the room lock never get two players.
* `Presences`: `Session` implements `Presence`.
* `LockReleased`, `HandEnds`, `AwayResolved`, `HandlersReturn`: liveness. The latter two
  except a dead process, and a `client.mtx` that a panic left locked (`DisconnectPanics`).

Fairness. `FairSpec` has `WF_vars(Flow)`: a goroutine that holds the room lock is
running code without waits other than sleeps, so it goes on. It has no fairness for
requests. `FairHandSpec` has `WF_vars(HandNext)`: in addition, players answer when it is
their turn. The code has no timeout for that, so `HandEnds` is conditional on it.
`Session`'s `FairSpec` has strong fairness for the read loop of every connection inside a
handler, for the timer of every client and for its request: goroutines run, timers elapse,
and a waiter of a Go mutex gets it in the end (the mutex goes into starvation mode after
a millisecond), although others take it again and again. Nothing is assumed of the peers, which
may stay silent, drop or send for ever.

## What the code does not keep

Four runs look for a violation of a statement in the source and find one:

* `v_minted`: "player hadn't added to the previous (smaller) mainpot bet"
  (sidepot.go:403). It had, when both bets are equal; the hand pays too much.
* `v_straights`: "best possible hands with no matches in order: royal flush, straight flush,
  flush, straight or high card" (hand_ranking.go:325). An ace-to-five straight with an
  off-suit two is ranked a straight flush, and a straight flush below a higher straight
  is ranked a flush.
* `v_turn`: "it's not your turn" (server_requests.go:345). Two requests of the player
  whose turn it is both pass the check; the second is carried out after the turn has moved,
  and `SetNextPlayerTurn` then skips the player who has it.
* `v_reserve`: "NetData.SendTo(): client.conn == nil" (net.go:274). The placeholder of
  `ReserveConn` is in the index of connections while `newClient` waits for the room lock, and
  the handler that holds it broadcasts.

Seen with TLC in these modules, and not asked of a run: the assertion "won by folds but there are
sidepots" (round.go:77) fails after a bet of a whole stack, since the first side pot is built
before `table.Bet` is set (poker.go:649); a player who checked is not asked to call a raise all-in when
the next player folds (seats.go:354, against "you must call the raise", poker.go:708); sending the
table empties the main pot's map of players (poker.go:394); a round is finished when only players
without cards remain (seats.go:384); a player who joins in the pause before the end of a game
stays in the active list with a cleared seat; two clients that leave together both
count two, and the room stays in the registry without anybody in it; a spectator's reconnection always panics after
it has been marked as connected (server_conn.go:458), and since `recover` is called in a function
that the deferred closure calls, `serverError` is never reached. With joins in the pauses `NewRound` and `GameOver`, the joiner stands elsewhere in one list than in the
other and `RingOrder` fails. An
all-in can raise to more than anyone can match, against the note at poker.go:579, because
chips already bet are counted twice (poker.go:565); the first player preflop may
check instead of calling the big blind (poker.go:706); the betting list can be empty
when both blinds of two players are all-in; a player who left can still win a pot. After a late fold
(`v_turn`) a player who has folded can be in the betting list and get the turn, so `TurnHolder`,
`NobodyReturns` and `EveryoneActed` hold in `Game` but not in `Requests`.
Nor does `BetCovers`, from the second hand on (as in `late`, with 4 chips, a bet of 3 and two rounds): when the big
blind's fold comes late, it stays in the betting list with the blind in front, and a bet of the next player is limited
to the chips of those who have not folded, which may be less, and lowers `table.Bet`.
A late check can also stop the process: a player who folds on the flop behind the small blind's fold
and whose second request, a check, then revives it may bet but is not in the betting list;
the search for the first player of the next street ends at it, and "couldn't find a nonfolded
player after Sb" (seats.go:174) fails (`NobodyStarts`). This takes four players, and the run `late` has three.

## Proofs

The theorems hold for every value of the constants that the modules' assumptions allow:
every finite set of seats, every `ChipMod`, `StartChips`, `Ante`, `DoubleEvery`, `Bets` and `MaxRounds`
(`SeatsAssumption`, `ChipModAssumption`, `TableAssumption`, `GameAssumption`, `HandAssumption`,
`RequestsAssumption`, `CardAceAssumption`, `DeckAssumption`). A
theorem states what else it needs as a hypothesis:

| Hypothesis | Needed by | Why |
|---|---|---|
| `PausesInRounds`: without the lock, players join only in the pauses of a hand | all theorems about `Spec` of `Game` and `RacingSpec` | in the pauses before a round or the end of a game the properties fail, see above |
| `BlindsAffordable`: `2 * Ante <= StartChips` | `Funded` and `BetsInv` in `Game` | a seat that is both blinds of a first hand is charged both; the code has 100000 chips and an ante of 10 |
| `Leavers = {}` | `StayInv` and its consequences in `Hand` | with departures they fail, see above |
| `Total \in Chips` | conservation of chips in `Hand` | all chips together fit in an unsigned integer |

**The lists.** `Spec` of `Game` keeps

    IInv == TypeOK /\ (Following => Seated /\ Dealt /\ Waiting /\ Posting /\ Ending)

and from it follow `TypeOK`, `SeatsMatch`, `TurnHolder`, `BettingListExact` and the action
property `NobodyReturns`, and that the assertion of seats.go:174 holds when a street is dealt
(`AlwaysFirstPlayerFound`). None of the properties is inductive alone. That the turn is with a member of
`curPlayers` after a street is dealt needs that `curPlayers` was exactly the eligible
players when the betting ended (`Ending`); that this is so after the blinds needs what
each of the steps of posting them knows (`Posting`: which blinds may be all-in and
still in the list); that a game can start from its lists needs what is known about a
table that has not started (`Waiting`); that streets follow each other needs that a
community phase was set (`Dealt`); and that `GameOver` has a last player needs how
`GetEliminatedPlayers` compares its count with `NumPlayers` (`Ending`). `Seated` ties
lists, counter and buttons to the seats. TLC checks `IInv` in the run `table`, as a
part of `RiverInv`.

The proof has one lemma per action (`...Keeps` in `GameProofs`). They rest on
`EndTurnKeeps` for the five requests, on `TurnKeeps` for
`SetNextPlayerTurn`, on the list lemmas of `TableProofs` (which begins with least
and greatest elements) and on
`HandleSidePotsType` (also there) for well-formed pots. `NextKeeps` combines them.

**The river.** `ShowdownAtRiver` (hands are compared only with five community cards) is proved in
`TurnProofs` from `RiverInv == IInv /\ Posted /\ ShowdownAtRiver`. `IInv` says who is in the betting
list but not who is first in it, and a street ends when the turn comes to the head of the list.
`Posted` adds that after the blinds the turn is with the head, who has not acted, in a list of at least
two; so a blind that goes all-in on its turn cannot end the round while others hold cards. The lemma
that carries it is `RoundOverLeavesOne`: whatever the lists, `SetNextPlayerTurn` says
that the round is over only if at most one of those who hold cards is left, although it decides so
from the length of `curPlayers` and the number of all-ins, before it has removed the player who folds.

**The protocol.** `GameImplementsHandProtocol` (`TurnProofs`): `Spec => HandPromises`. An open
room is idle, betting or between streets by its `State`; a phase of the
handler under the lock is dealt, between streets or the end of the hand. The turn is seen only
while the room waits for an action, since `curPlayer` is left behind between streets. Each request
is a step of `HandProtocol` (joining is `Sit`, a start is `Resume`; `TurnEnds` and `LeaveEnds` say what an action
or a departure leaves); the blinds, which post in three phases, are one step and two or three
stutters; `Panicked` and `Lost` are its `Stop`, about which it promises nothing.

**The turns.** `RingOrder`, `EveryoneActed` and `TurnPasses` are proved in `TurnProofs` from

    TurnInv == IInv /\ Posted /\ (Following => OneRing /\ ActInOrder) /\ EveryoneActed

`OneRing` says that `curPlayers` is `activePlayers` without some players, read from some point
(`SameRing`, with which `TableProofs` deals: a list keeps its ring when a head is set or a
player removed from it, and two lists keep theirs when one player is removed from both or added
behind the last of both). `ActInOrder` is what makes the test of `SetNextPlayerTurn` right, which ends a street when
the turn comes to a head that has acted: nobody ahead of the turn has an action to come, and
nobody behind one that has acted. A raise makes its player the head and so turns the list
such that this is true again. A list in which a first street starts at another place than its
head would break it, hence its clause about `BigBlindAllIn`.

**The bets.** `BetCovers` and `EveryoneCalled` are proved in `BetsProofs` from

    BetsInv == TurnInv /\ ShowdownAtRiver /\ Funded /\ Called /\ EveryoneCalled

`Funded`: what a player has and what it has in front add up without wrapping, so that taking a bet back
(`Player.Action.Amount` to `ChipCount`) and making a new one cannot wrap either; a new game
restarts one winner with the chips it has won and all others with `StartChips`, and the winner, whose
chips are not known, must not be charged two blinds (`s # bigBlind`). `Called`: after the flop and
without side pots, those ahead of the turn have put in the raise and the others have not
(`CalledInOrder`), as `ActInOrder` says of their actions, so that when the turn comes back to the raiser
all have; it needs that nobody in the list is without chips, since such a player would have
gone all-in for less.

**The stack of side pots.** `PotsOrdered` is proved in `BetsProofs` from `PotsInv == RiverInv /\ PotsNamed`.
`Stacked` (`SidePots`) says that the open all-in pots follow each other by their bets above the main
pot, except that one pot may stand twice, side by side: `Insert` appends to a slice of the
array it reads from, and overwrites a pot when it inserts below the last. `HandleSidePotsStacked` (`TableProofs`) shows that each branch
of `handleSidePots` keeps that, for any pots and any step of a player who has not named one. So for any number of players, five and more
included, no pot is in the wrong place, whatever was overwritten.

**A hand from any stacks.** `HandProofs` proves of `HandSpec`, where players hold any stacks and may not afford
the blinds, with departures at any time: `BetsInv` and `PotsInv` (and so `RingOrder`, `EveryoneActed`,
`TurnPasses` and `PotsOrdered`). The lemmas of the actions are the same as for `Game`. `BlindsAffordable` is for the first hand of a
game (`StartGame`), which is not among them; later the blinds are two players (`BlindsApart`).

For a hand that nobody leaves it proves `PotsBelowBet`, `OnlyFoldWinsPanic` and `ChipsConserved` from

    StayInv == AllStay /\ Contested /\ OnlyFoldWinsPanic /\ Backed /\ Conserved

`Backed` is the heart of it: for every bet `b` that an open pot asks for, `b` is at most the table's bet and somebody
is all-in with at least `b` in front. The first half is what passes the assertions of `handleSidePots` for
a player who calls. The second makes the first inductive: `PlayerAction` limits a raise to
what the second richest of those who hold cards could match (`AllInAmount`, `BetAmount`), and that limit is never
below what somebody who is all-in has put in. It is here that departures matter: the one who is
all-in may leave, and the pots still ask for its bet. `Contested` excludes the other panics: somebody holds cards, and whoever has the
turn has an opponent. What remains is the assertion at round.go:77. `Conserved` is
`Sum(chips) + pots.main.total = Total` as long as no side pot exists, and that what lies in front of the players is
in the main pot, so that taking a bet back out of it does not wrap.

**Sums.** `BetsReachThePot` (in `Game`, chips modulo `ChipMod`) and `ChipsConserved` (in `Hand`, true
numbers) speak of folds over the seats. The library's induction theorems cannot be instantiated here, so `HandProofs`
reasons by sets: a set of numbers that has 0 and every successor is `Nat` (`SetInduction`, from least elements), applied to the set of all `n` for
which a statement holds of all sets of up to `n` seats. From it come that the fold is what its recursive
equation says, and what changing one value does to a sum (`SumUpdate`).

**Late requests.** `RequestsProofs` proves of `RacingSpec`, for any number of seats and of actions that wait, that
`RingOrder`, `SeatsMatch`, `AloneOnlyByLateStart` and the action property `JoinersWait` hold, under
`PausesInRounds`. `TurnInv` is of no use for a whole hand: after a late fold the
betting list holds a player who has folded, after a late check one who may act is missing in it, and nobody can say
any more who has acted. So the hand is followed street by street:

    RacingInv == TypeOK /\ (Following => /\ IF InStreet THEN Street ELSE TurnInv
                                        /\ WaitingPlay /\ FirstRound /\ AloneOnlyByLateStart)

`Street` is what is left of `TurnInv` while a street is bet on or has just ended: seats, lists
and counter agree (`Seated`), the two lists keep one ring, the turn is with a member of the betting list,
and nobody in that list joined during the hand. That is enough for all of `TurnInv` to hold again as
soon as the betting of the hand is over, since the next hand begins with fresh lists.
The other parts say why late requests do no more harm: whoever waits for the lock sits at the table and was
dealt in (`WaitingPlay`: those who leave are struck off, whoever takes their seat is another player), so a late
action cannot bring a joiner into the hand; and a late start finds a table that plays its first hand (`FirstRound`).
`EndTurn` for a player who is not the one in turn is `TurnGoesRound`; `StreetGoesOn` says what each step
in a street has to keep, `HandGoesOn` what a step between streets has to, and the latter comes from `StepKeepsTurns`.

**The showdown.** `BestHandFindsStrongest` (`ShowdownProofs`): of any players with any hands of five cards, `BestHand` with
`checkTies`, which narrows them down by rank and then card by card from the highest, leaves exactly those whose hand
nobody's is stronger than, where the strength of a hand is one number (`HandStrength`). With it `BestFiveWins` reduces
`WinnersBest` to `BestFive`: `Spec /\ []BestFive => []WinnersBest`, for any number of players and any deck. The comparison is
so proved, and it is `BestFive` alone that rests on the short deck of `ranking`.

**The sessions.** tlapm proves, for every set of connections, clients and seats, every `CountMod` and every
number of requests, that `Session` keeps `TypeOK`, `ConnectedKept`, `Reachable`, `AwayIsTended` and
`OneSeatOneClient`, and that it implements `Presence` (`SessionsImplementPresence`). The inductive
invariant adds three parts. `Handling`: a read loop that joins or comes back uses a
connection that no client has had (`Fresh`), so that making it a client's current one takes it from nobody.
`Connected`: a callback that got past its check works for a client that is away, which stays so as
long as the callback holds `client.mtx`; this is why nobody who came back is removed.
`Seated`: a seat is taken before it is bound, and by one read loop. There is one lemma per action, most of
them by `Frame`, which says what each part is about. The refinement maps a client to absent
(no connection yet), gone (not registered), away or here; only `Register`, `Reconnect`,
the two forms of `Disconnect`, `RemoveClient` and `RemoveRoom` change it, and a second
`RemoveClient` of one client is a stutter.

Only model-checked: the liveness properties (`LockReleased`, `HandEnds`, `AwayResolved`,
`HandlersReturn`), which are beyond the proof system; and `BestFive`: the hand ranking searches sequences of cards, and
what such a search finds needs induction over data. `RacingInv` does
not speak of bets, since late folds break `BetCovers` (see above).

## What is not modelled

Messages and their encoding, logging, formatting, the CLI and the web frontend: no
property depends on them. In `Game` and `Hand` the cards are abstracted to `Ranks`. Names,
settings, passwords, table locks and the table admin are left out, in `Session` also the
branch of the room's creator in `handleNewConn`, which differs in its seat reservation only.
Late bets, calls and all-ins are not in `Requests`: after a late check or fold the turn is
already wrong, and they add amounts, not orders. Data races inside a handler (two starts at
the same time, the unsynchronised reads of `listRooms`) are not split further than named above.
The registry has one room and only loses it: creating, renaming and listing rooms matter
for each other only through names that are used again, for which the hazard at
server_rooms.go:322 stands. Insertion between two side pots is modelled with its aliasing
but needs five players, more than the runs have; what is proved of it holds for any number.

## What is left

1. A registry of several rooms with rename and reuse of names, composed with `Session`.
2. `PlayerRing`: nodes and pointers as in `player.go`, implementing `PlayerList`.
