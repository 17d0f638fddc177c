# Formal model of Planning Poker Agile

TLA+ specifications of the backend of this repository (`backend/`) and of the
page that talks to it (`frontend/`), the TLC configurations that check them on
small instances, and proofs, checked by TLAPS, that the safety of rooms, registry,
hub, handlers, messages, session queue, rate limiters, configuration and page
holds for every instance.

## 1. The system

Participants open a room in the browser, play cards face down, and see the
average when every voter is ready. Everything is held in memory by one Go
process; nothing is persisted, so there is no recovery after a crash.

| Component | Source | State | Operations |
|---|---|---|---|
| Room | `backend/app/room/room.go` | participants, votes, the revealed result, owner, `reconnectIndex`; one mutex | join, reconnect, owner's return, vote, skip, reveal, reset, remove, disconnect, purge |
| Voting | `backend/app/voting/voting.go` | none | the average of the cards |
| Registry | `backend/app/room/room.go` | `rooms`, `pending` reservations; one mutex, which takes the rooms' inside it | reserve, create, join (a first join makes a room of its reservation), read, delete if empty |
| Hub | `backend/app/realtime/hub.go` | the connection of each participant of each room, with its token; one read-write mutex | add, remove, broadcast |
| Connection handler | `backend/pkg/httpapi/server.go`, `ws` | one goroutine per connection: slot, room, participant, connection ID, context | upgrade, read the join message, join, register, replace the previous connection, serve messages, clean up |
| HTTP API | `backend/pkg/httpapi/server.go` | none of its own | create and read rooms |
| Session | `backend/pkg/ws/session.go` | an outbound queue, a `done` channel, a writer goroutine | enqueue, run, close |
| Limiters | `backend/pkg/httpapi/limiter.go` | a token bucket per connection, a table of buckets per address | allow, purge |
| Message validation | `backend/pkg/httpapi/server.go` | none | which messages are accepted |
| Configuration | `backend/pkg/config/config.go` | none | parse, default, bound |
| Process | `backend/cmd/server/main.go`, `backend/pkg/httpapi/frontend.go` | none | start, stop, static files |
| Browser client | `frontend/src/app/app.component.ts` | the last state received, the user's vote, reconnection | connect, reconnect, vote, leave |

How they interact. A handler calls the registry to join, then the hub to
register, then closes the connection whose place it took, then serves messages
by calling the room and broadcasting its `State` through the hub; on its way out
it calls the hub, the room and the registry in this order. Each call is atomic
under the mutex of what it calls, and calls of different handlers, HTTP requests
and the clock come in any order between them. The registry calls rooms with its
own mutex held, never the other way round.

What makes each of them correct, and hard:

* Room: long sequences of legal calls (joins with tokens, owners that return,
  role changes, departures, expiries, votes, resets) must keep six redundant
  pieces of state in agreement: the lead flags, the token index, the owner, the
  votes, the flags of the participants and `hasVotes`.
* Registry: reservations and rooms share a limit; a first join races the expiry
  of its reservation; nobody may lose the room they are in; a dropped room must
  not come back.
* Handler and hub: two connections of one participant overlap, each with four or
  five steps in three components, so the cleanup of the old one runs at any
  point of the life of the new one.
* Limiters: forgetting an idle address must not give it more than waiting would,
  and a table that is full must not treat those who are in it differently.
* Session: a bounded queue that a slow client fills, a writer goroutine that
  takes any ready case, and two goroutines and any number of other handlers that
  may all close the connection, each of which may wait for the library.
* Delivery: reading the state of a room, copying the senders and calling them are
  separate steps, and so are registering, the greeting and the announcement of
  a joiner.
* Message validation: pointers that may be nil, nulls that look like absent
  fields, white space that is cut off to nothing.
* Configuration: two sources, three places that put in defaults, and values that
  would stop the program without an error.
* Page: it keeps a copy of the room and its own idea of the user's vote, across
  timers, requests and sockets whose callbacks come in any order.

The full list of hazards with their lines is in `PROJECT.json`.

## 2. The modules

| Module | Models | Kind |
|---|---|---|
| `Voting` | `voting.Average` in tenths, halves rounded away from zero | operator |
| `RoomOps` | every method of a room, as operators from a room to the room after the call; the predicates that hold between calls, and those that hold of a call | operators |
| `Room` | one room under any sequence of joins as the server makes them and of other calls | state machine over `RoomOps` |
| `Round` | what a room promises about a round of voting | abstract specification |
| `RoomOpsProofs` | lemmas on the operations of a room: the fields each writes, that it preserves `RoomOK`, what it does to the seats, what `State` shows of it; and on calls as such: what each keeps, and which steps of a round it takes | proofs |
| `RoomProofs` | theorems about `Room`, and that it implements `Round`: each step is a call | proofs |
| `Registry` | reservations, rooms, expiry, limit | state machine over `RoomOps` |
| `Service` | handlers, hub, registry, rooms | state machine over `Registry` |
| `Delivery` | what handlers send to the participants, and when | state machine over `Service` |
| `ServiceProofs` | theorems about `Registry`, `Service` and `Delivery`; that the service implements `Round` in each room, and `Directory` | proofs |
| `Limiter` | the two token buckets of `limiter.go` | state machine |
| `Buckets` | what rate limiting promises | abstract specification |
| `LimiterProofs` | theorems about `Limiter`, and that it implements `Buckets` | proofs |
| `Session` | queue, writer and closing of one connection, with the handler's `write` and cleanup | state machine |
| `SessionProofs` | theorems about `Session` | proofs |
| `Hub` | the map of maps, its tokens and its mutex | state machine |
| `Directory` | what the hub promises | abstract specification |
| `HubProofs` | theorems about `Hub`, and that it implements `Directory` | proofs |
| `Messages` | decoding and validation of messages, and the calls made with them | state machine |
| `Config` | `Load`, `main` and the defaults of `Handler` | state machine |
| `InputProofs` | theorems about `Config` and `Messages` | proofs |
| `Client` | one page against a room | state machine over `RoomOps` |
| `ClientProofs` | theorems about `Client` | proofs |
| `MCRoom`, `MCRegistry`, `MCService`, `MCDelivery`, `MCClient`, `MCConfig` | symmetry, instances and bounds for TLC | |

### From code to model

`RoomOps` is the heart. A room is a record with the fields of `Room`
(`participants`, `votes`, `revealed`, `average`, `roleAverages`, `hasVotes`,
`ownerToken`, `owner` for `ownerParticipantID`, `index` for `reconnectIndex`). A method is
an operator: `AfterVote(r, i, value, submit)` is the room after `Vote`, with the
purge every method starts with (`AfterPurge`) and the reveal at its end
(`RevealIfComplete`) inside. Where Go's iteration over a map decides who becomes
lead (`promoteFirstConnectedLocked`), the operator gives the set of possible
rooms (`PromoteAny`).

`Room` joins as `Registry.Join` does, by `AddConnectionWithToken` with a new
participant ID and a new connection ID each time (`ws` draws both); without a
token this is `AddConnection`. `Add` is not modelled: it gives everybody the empty
connection ID, and only tests call it. Participants that came by `Add` share that
connection, so `ConnectionsAreOwned` and what rests on it say nothing of them. The
server calls neither `Add`, `AddConnection` nor `Remove`; the last is modelled.

Abstractions:

* A connection is a model value that also stands for the fresh random values it
  draws: the connection ID, the participant ID it proposes and the token minted
  for it. Each is drawn once per connection. The SHA-256 of a token stands for
  the token; a token a request carries is one that was issued, or none. Guessing
  is not modelled.
* Names are dropped; a request is `valid` or not. A role is a model value,
  `None` is the observer's empty role.
* Cards and averages are integers, in tenths. The sum's floating-point error
  is not modelled.
* Time is a `Tick` that ages the disconnected up to `Retention`, at which point
  they are expired (`>= reconnectRetention`), and counts reservations down to 0.
  Reservations and participants share the clock.
* A read of a room that keeps no state (`State`, `IsEmpty`) is an operator used
  in guards and properties; `Snapshot` and `String` are the same data again.
* The error of the system's random source in `newReconnectToken` is left out.

`Registry` adds `pending` and `live`, the domain of the Go map `rooms`. Its
variable `rooms` keeps dropped rooms too, because a handler that holds a
`*Room` goes on using it after the registry has dropped it, as in the code.

`Service` gives each handler a program counter over its calls (`Accept`,
`JoinRoom`, `Register`, `ClosePrevious`, `Serve`, then `Unregister`,
`LeaveRoom`, `CleanUp`); the header of the module lists the phases. A cancelled
context, a peer that leaves, a failed ping and a full outbound queue all become
`Disconnect`, which only makes the next read fail: a message read before is
still served. What it sends is in `Delivery`.

`Delivery` extends `Service`: each of its actions is one of `Service` with what
it does to the messages, or a step of sending. A handler that has changed its
room goes through `Snapshot` (`rm.State()`), `Collect` (the lock of `Broadcast`)
and a `Send` for each sender; a joiner first hands the state to its own client
(`Hand`). Every message carries the whole state, so a message is only whether
its state is still the present one: `Outdate` takes that away from everything
read or sent when `State` of the room changes. What becomes of a message in the
queue of its connection is the business of `Session`.

`Session` is one connection: `Enqueue`, `Close` and `Run` of `session.go`, the
closure `write`, the goroutine around `Run` and the deferred calls of `ws`, each
at the grain of what other goroutines can see. `sync.Once` makes a second caller
of `Close` wait, which is why `FlagClosed` and `CloseDone` are two steps. The
WebSocket library is outside: `Conn.Close` sends a close frame, after which
nothing else is written, and returns in bounded time with the connection closed;
a read or write that fails or whose context ends closes the connection.

`Hub` has the map of maps with the tokens, and a lock that readers share.
Directory has a flat map that compares connections, as `Service` and `Delivery`
do: `IsDirectory` is what justifies them.

A handler that replaces the connection in the hub and closes it (`Replaced`) goes
through the same steps as one that finds it too slow. `Session` has one
connection; two handlers that close each other's are not in one model.

`Messages` sees a message as its type and the kind of value of each field. A nil
pointer that `ws` dereferences would be a call with `Nil` for the name.
`Config` sees settings likewise, as signs and whether they parse, and the file as
one document of known fields or something else (`form`): `Load` refuses a file
that it cannot read, that has an unknown field or a value of another type, and one
with a second document.

`Client` is one page and what it needs of the server: the room is that of
`RoomOps`, and each connection, the host's too, has a handler that goes through
the steps of `ws` one by one: `AcceptJoin` (`Registry.Join`), `Register`,
`ClosePrevious`, `ReadOwnState` and `Hand` (the greeting), `ReadState` and
`Broadcast`, `Serve`, and on its way out `Unregister`, `LeaveRoom`,
`DeleteIfEmpty`, the announcement of the departure and `Close`. So two connections
of the page may join, register, greet and leave in any order, a broadcast may
overtake the greeting, and an older state may arrive last. A message that the rate
limiter refuses is answered with an error, if the session still writes it, and
ends the connection (`RefuseMessage`); a message of the page is always valid, and
what the room refuses is passed over. `Broadcast` copies the senders and calls them
in one step: the page listens to one socket at a time, and `Delivery` has the
steps apart. What the page shows of the room is therefore a state that the room
had, not always its last (`LastWordIsCurrent` below), and no property says more.

Messages in both directions, opening and breaking sockets, the timer and the room
request are steps of their own. A connection that breaks is noticed by the server
and by the page in either order; until the page notices, its `readyState` is OPEN
and what it sends is lost. Its browser may have made the room, and then sends the
owner's token (`key`). The host is a second participant, there from the start,
that votes, resets and leaves. A socket whose join nobody read stands for the next
one that the page opens (`Gone`). Sounds, the countdown, `onerror` (which is
followed by `onclose`) and messages that do not parse are left out.

`Limiter` counts tokens in fractions of the refill of one tick. The defaults that
`newKeyedLimiter` and `allow` put in for parameters of 0 or less are taken as
applied, and floating-point rounding is left out.

## 3. What the runs check

| Run | Instance | States | Question |
|---|---|---|---|
| `room` | 3 connections, 2 clients, 2 roles, cards 0.5 and 3, room for 2, retention 1 | 19 763 | do lead, tokens, connections, votes and capacity agree in every state, what may one call never do, and does the room implement `Round`? |
| `room_ready` | the same | violation | is a round always revealed when every voter is ready? |
| `registry` | 3 connections, 3 room IDs, limit 2, reservations live 2 ticks | 48 064 | limit, no loss of an occupied room, IDs go one way |
| `service` | 3 connections, 2 at a time, 1 room, room for 2 | 341 660 | do room, hub and registry stay consistent between the calls of the handlers? |
| `service_live` | 2 connections, no symmetry, fair | 34 740 | do empty rooms disappear and cancelled connections end? |
| `delivery` | 2 connections, 1 room | 228 000 | is everybody told the present state? |
| `session` | queue of 2, 2 other handlers, 3 messages, fair | 56 865 | is what was accepted delivered in order, do slow clients go, do all goroutines end? |
| `hub` | 2 connections, 2 rooms, 2 participants, 1 broadcast, fair | 54 992 | is the hub the directory it is taken for, and does a sender that never returns block anybody? |
| `client` | 2 sockets, 1 card, room for 2, fair | 637 966 | does the page know its seat, and come back? |
| `limiter` | 3 addresses, table of 2, burst 2 | 264 441 | does forgetting an idle bucket change any answer? |
| `messages` | every message | 345 621 | is what is accepted the protocol? |
| `config` | every pair of settings, every kind of file | 330 259 | does the program start with what was said, or not at all? |

Why the bounds are enough. Three connections let one participant be replaced and
replaced again while another one takes the lead, the owner returns on a third,
and with room for two the capacity is reached by connected and by disconnected
participants alike. Retention 1 makes a disconnected participant pass through
both states, waiting and expired; every comparison in the code is against that
one bound. Two cards whose mean is not a whole number of tenths exercise the
rounding, two clients and two roles all comparisons of clients and roles. In the
registry three IDs against a limit of two let an ID be refused, expire and be
dropped while others hold the places. The service uses one client, role and
card, for what they tell apart is checked by `Room`; its interest is in the
handlers of one room: two at a time (`MaxConnections`), which may serve the same
participant, and a third that comes when one of them has ended. The table of the
limiter is smaller than the number of addresses, so it is full while others ask,
and the clock runs past the expiry of a bucket. In the session a queue of two is
full while the writer pings and a third message is refused, to the handler itself
or to another one, while the third handler takes the place of the connection in
the hub and closes it. Two connections in `delivery` are two handlers
that broadcast at the same time, to each other and to themselves, and one that
replaces the other. Two connections in `hub` have the same place,
where one replaces the other, or places in one room or in two. With one socket that the server reads, the user, the host and the clock
act twice together (`MaxActs`), in any order, and the page reconnects by sockets
that fail before they have joined as often as it likes. With two sockets `MCClient` has
less besides: a page without the owner's token acts once, a page that has it only
joins and reconnects, and the host looks on; this is where one socket breaks while
the other one joins, where one is opened by hand while the other is asked for, and
where the steps of two handlers of one participant come in any order. `ComesBack`
has these bounds; `PageKnowsItsSeat` and `NothingIsSentOffline` are proved without
any of them. One message at a time to the page on each socket (`MaxInbox`) and one
to the server still lets every message cross every other event. `Messages` needs no bound but the kinds of values. `Config` starts with
anything said of all settings; `MCConfig` (`TwoAreSaid`) lets two of them differ
from `config.yaml`, so that one may be refused while the other is replaced, or the
file be of another kind. Symmetry is used for safety and
not in the runs with liveness properties, and model values that the specification
treats alike are permuted only.

Deadlock. The specifications with a clock let time pass for ever (`Tick`), so
TLC's deadlock check holds trivially there; that no handler waits for another for
ever is what `CancelledConnectionsEnd` says, and `BroadcastsEnd`,
`EndedConnectionsLeaveNothing` and `SlowSendersBlockNobody` say it of the
goroutines of a connection and of the lock of the hub. In `Session`, `Hub`,
`Messages`, `MCConfig` and `Client` a run really ends (the connection has gone, the
bound on messages or sockets is reached, the program serves), and the check for
deadlock is off.

`MCServiceRooms.cfg` is not among the runs: it checks on the service what `room`
and `hub` check on one room and on the hub alone, before it was proved (2
connections, 2 rooms, 61 422 states; with 3 connections and 1 room, 2 044 111).
`RoomsAreInOrder`: every room satisfies `RoomOK` and its capacity.
`RoomsKeepTheirWord`: no step of any handler, request or clock falsifies a result
or an identity in any room. `RoomsChangeFromWithin`: what a room shows changes
only by a handler that joins it, serves a message in it or leaves it.
`EveryRoomIsARound`, which TLC takes in the form `EveryStepIsARounds`: each room
refines `Round`. `HubIsADirectory`: the hub of the service refines `Directory`.

### Properties

* `OneConnectedLead`, `TokensIdentify`, `ConnectionsAreOwned` (where every join
  brings a connection ID of its own), `VotesMatchParticipants`,
  `OnlySubmittedCardsAreShown`, `WithinCapacity`: the agreements of a room.
* `RevealIsHonest` (the averages and `hasVotes` are those of the cards everybody
  sees), `ResultStands` (nothing but a reset alters a revealed result),
  `IdentityIsKept` (only the owner takes an identity over from another client),
  `ImplementsRound` (the room refines `Round` under the mapping `TableOf`, the
  cards that are face down with their roles).
* `WithinRoomLimit`, `OccupiedRoomsAreLive`, `RoomIdsAreNotReused` (a reservation
  waits until it expires or becomes a room, whatever joins are refused, and no ID
  goes back).
* `ConnectedAreServed`, `HubAgrees` (no entry outlives its handler, and when
  nothing is under way none is missing), `EmptyRoomsAreBeingDeleted`, `OnlyItsOwnCleanupDisconnects`: consistency of
  room, hub, registry and handlers, between any two of their calls.
* `EmptyRoomsDisappear`, `CancelledConnectionsEnd`: liveness.
* `EverybodyWasTold`: when all is quiet every client has been sent the present
  state.
* `AcceptedAreOnTheirWay` (what a connection accepted is delivered, being written
  and queued, in this order and without a gap); `EndedConnectionsLeaveNothing`
  (a slow client is one whose connection ends), `AcceptedArrive`,
  `BroadcastsEnd`: liveness of a session.
* `HubTypeOK` (no room is kept without connections), `ReplacedAreClosed`,
  `IsDirectory` (`Hub` refines `Directory`), `SlowSendersBlockNobody`.
* `PageKnowsItsSeat` (once everything has been delivered, page and room agree on
  who the user is, and the token in the storage opens that seat),
  `NothingIsSentOffline`, `ComesBack`: the page.
* `PurgeIsInvisible` (`Limiter` refines `Buckets`): refilling at use and
  forgetting idle addresses change no answer, and a full table refuses only
  addresses that have used nothing.
* `ValidIsWellFormed` (validate accepts exactly the messages that `README.md`
  describes, stated on the text), `CallsSayWhatWasSent` (no nil is dereferenced,
  no token that was sent passes for none).
* `ServesWithSafeLimits`, `DoesWhatWasSaid` (a program that serves has read one
  document of known fields and does what it and the environment say; one that does
  not start has a reason): the configuration. `DoesWhatWasSaid` leaves open what a
  0 in the environment means for the limit of rooms (`Disputed`), for the documents
  disagree; see `ZeroIsNoLimit` in section 4.

What `Average` computes is compared with the nearest tenth, halves up, and 0 for no
cards, by the assumption `AverageIsRounded` of `MCRoom`, for up to four cards;
`RevealIsHonest` says which cards it is computed of.

Every property is broken by a mutant of the code named in `PROJECT.json`; the
mutated operators stand next to the originals and are marked as such.

### Fairness

`Service` assumes weak fairness of each step a handler takes by itself
(`Step`): failing to read a join message (the read has a timeout), registering,
closing the previous connection, noticing a cancelled context, and the three
calls of the cleanup. Each is a goroutine's next statement: Go's scheduler runs
every runnable goroutine, the mutexes are held for bounded times, and the reads
are bounded by contexts and timeouts. Nothing is assumed about clients,
requests over HTTP or the clock.

`Session` assumes weak fairness of every step of the writer, of the handler and
of whoever sends, for the same reasons: a write and a ping have a timeout, and
the library bounds the wait in `Conn.Close`. For the cases of `select` it assumes
strong fairness: Go chooses among the ready cases at random, so a case that is
ready again and again is taken some time.

`Hub` assumes weak fairness of the critical sections and of giving back the read
lock, and that a writer that waits keeps new readers out, as `sync.RWMutex`
documents. It assumes nothing of senders: they may never return.

`Client` assumes weak fairness of the browser (timers go off, closings are noticed,
messages that have arrived are handled) and of the end of a room request, and
strong fairness of three things that may fail: the request is answered, the page's
socket opens, and its join is read. Each may fail any number of times, but not for
ever while it is tried again and again, which is what a server that is reachable at
all amounts to. Nothing is assumed of the user, the host, the clock, the other
steps of the handlers or the network.

## 4. Where the code does not do what is said of it

* `room_ready`: `RemoveConnection`, `Remove` and a return as observer take a
  voter away without looking whether the round is complete now. Everybody left
  has submitted and the cards stay face down until somebody votes again,
  although `README.md` promises the estimate "when every voter is ready".

Eight more sentences of the repository are stated in the modules they are about.
Each has a configuration of its own, which is not among the runs above, and TLC
refutes it:

* `OccupiedRoomsHaveALead` (`MCServiceLead.cfg`): the last participant loses the
  lead when it disconnects. If it reconnects with its token before the old handler
  calls `DeleteIfEmpty`, it comes back without the lead, and nobody in the room
  can reset it ("lead-controlled reset").
* `ServedAreConnected` (`MCServiceZombie.cfg`): joining the room and registering
  in the hub are two steps. If two connections of one participant take them in
  opposite orders, the older one closes the newer one, whose cleanup disconnects
  the participant; the older handler is served on although the room does not know
  its participant any more ("replaced by a newer connection").
* `ZeroIsNoLimit` (`MCRegistryZero.cfg`): `docker/README.md` says that 0 disables
  the limit of rooms; `config.Load` and `NewRegistry` make 100 of it, as
  `README.md` says.
* `LastWordIsCurrent` (`MCDeliveryLast.cfg`): two handlers change the room and read
  its state in one order and send in the other. Everybody's page shows the older
  state until the room changes again ("real-time" voting and reveal).
* `ConfirmedVoteCounts` (`MCClientReturn.cfg`): a vote is taken back when its
  connection breaks. The page keeps "Vote submitted" after the reconnection and
  the button disabled, while the room waits for the vote.
* `ConfirmedCardIsPlayed` (`MCClientCard.cfg`): a second card, sent while another
  voter completes the round, is refused, and the page shows it as submitted
  because the first one is.
* `VotersCanBeReady` (`MCClientSeats.cfg`): Join can be pressed again while the
  first socket joins. The first seat stays in the room, and nobody can vote from
  it.
* `SendingIsUnderWay` (`MCClientSending.cfg`): `tryReconnect` continues after its
  request although the page has connected by hand, replaces that socket, and the
  vote pending on it is shown as being sent for ever, with all buttons disabled.

Before the reveal `hasVotes` may be set while no vote is left: `Vote` without
submission deletes a vote and leaves it as it was. No document says it must not,
and the reveal computes it anew (`RevealIsHonest`).

## 5. What is proved

Each theorem below holds for every value of the constants that satisfies the
named assumptions, and for executions of any length. The two columns are the
theorem and the property of a run that it states, or in parentheses what it says
beyond the runs.

| Module | Theorem | Property |
|---|---|---|
| `RoomProofs` | `TypeCorrectness` | `TypeOK` |
| | `LeadIsUnique` | `OneConnectedLead` |
| | `TokensAreIdentities` | `TokensIdentify` |
| | `ConnectionsHaveOneOwner` | `ConnectionsAreOwned` |
| | `VotesAreSubmitted` | `VotesMatchParticipants` |
| | `NoCardLeaks` | `OnlySubmittedCardsAreShown` |
| | `CapacityHolds` | `WithinCapacity` |
| | `ResultsStand` | `ResultStands` |
| | `IdentitiesAreKept` | `IdentityIsKept` |
| | `RevealsAreHonest` | `RevealIsHonest` |
| | `RoomImplementsRound` | `ImplementsRound` |
| `ServiceProofs` | `RegistryTypeCorrectness` | `RegistryTypeOK` |
| | `RoomLimitHolds` | `WithinRoomLimit` |
| | `NobodyLosesTheRoom` | `OccupiedRoomsAreLive` |
| | `RoomIdsMoveForward` | `RoomIdsAreNotReused` |
| | `ServiceTypeCorrectness` | `ServiceTypeOK` |
| | `NobodyIsLeftBehind` | `ConnectedAreServed` |
| | `HubAgreesWithRooms` | `HubAgrees` |
| | `NoEmptyRoomLeaks` | `EmptyRoomsAreBeingDeleted` |
| | `LateCleanupsAreHarmless` | `OnlyItsOwnCleanupDisconnects` |
| | `OthersChangeNothing` | (`RoomsChangeFromWithin`) |
| | `EveryRoomKeepsItsWord` | (`RoomsKeepTheirWord`) |
| | `EveryRoomIsInOrder` | (`RoomsAreInOrder`, always) |
| | `TheServicePlaysRounds` | (`EveryRoomIsARound`: `Service` refines `Round` in each room) |
| | `TheHubIsADirectory` | (`HubIsADirectory`: `Service` refines `Directory`) |
| | `DeliveryImplementsService` | (`Delivery` refines `Service`) |
| | `NobodyMissesAChange` | `EverybodyWasTold` |
| `HubProofs` | `HubTypeCorrect` | `HubTypeOK` |
| | `ReplacedClose` | `ReplacedAreClosed` |
| | `ImplementsDirectory` | `IsDirectory` |
| `LimiterProofs` | `ForgettingIsInvisible` | `PurgeIsInvisible` |
| | `TableIsBounded` | (the table has at most `MaxEntries` buckets) |
| `SessionProofs` | `SessionTypeCorrect` | `SessionTypeOK` |
| | `AcceptedAreNotLost` | `AcceptedAreOnTheirWay` |
| `ClientProofs` | `PageAndRoomAgree` | `PageKnowsItsSeat` |
| | `NoVoteHangsOffline` | `NothingIsSentOffline` |
| `InputProofs` | `LimitsAreSafe` | `ServesWithSafeLimits` |
| | `WhatWasSaidIsDone` | `DoesWhatWasSaid` |
| | `ProtocolIsAccepted` | `ValidIsWellFormed` |
| | `NothingIsLostInDecoding` | `CallsSayWhatWasSent` |

Assumptions, each named where its constants are declared: `NoneAssumption` (the
zero value is none of the others), `LimitAssumption` (cards are natural numbers,
capacity and retention positive: `newRoom` rejects negative cards and both limits
default to positive ones), `RegistryAssumption` (any configured limit of rooms, a
positive default and lifetime), `ServiceAssumption` (at least one connection is
admitted, no room has the empty ID), `LimiterAssumption`, `SessionAssumption` and
`ClientAssumption` (positive sizes; the names that play special parts are apart).
Each inductive invariant was an invariant of a TLC run on the instance of its
component before it was proved.

### Rooms

The inductive invariant is `IInv`: the connections that have drawn their names are
connections, and `RoomOK(room, used)` holds, the conjunction of `RoomTyped`,
`LeadAgrees`, `IndexAgrees`, `ConnsAgree`, `VotesAgree` and `CardsAgree`. None of
them is inductive alone. A new token or connection differs from all older ones
because everything in the room was drawn by a connection in `used`, which
`RoomTyped` carries; the token that a reconnection presents is the current token
of the identity it opens because of `IndexAgrees`; a reveal makes no unsubmitted
card visible because before it only the connected have a card (`VotesAgree`) and
all of those who vote have submitted (`Complete`), and it stays so because of
`CardsAgree`.

The proof follows the shape of `RoomOps`, and so does `RoomOpsProofs`, on which
the proofs of the registry, the service and the page rest too. For each operator
one lemma states the fields it writes (`...Fields`) and one that it preserves
`RoomOK` (`...OK`); for joins the invariant moves from the connections `U` to
`U \cup {c}`. Three kinds of leaving and voting share `OneChangedOK`, about a
change to one participant and its vote. The calls are compositions, so their
lemmas cite those of their operators, and `NextIInv` has one step for each action.

What a call does beyond that is proved of calls as such, so that it holds wherever
a room is called. `RoomCall(s, r, U)` says that one of the methods, or time, takes
room `r` to `s`, `U` being the connections that have drawn their names.
`CallCases` cuts every call in two: the purge every method starts with, to a room
`t`, and one of five things done to `t`: nothing, an arrival (`Admitted`), a
departure (`Departed`), a vote or a skip (`Moved`) or a reset. From these cases
follow

* `CallKeeps`: a result stands until a reset, and an identity changes hands only to
  the owner it belongs to (`Stands`, `KeepsIdentity`);
* `CallKeepsItsWord` with `RevealedHonestly`: a call that reveals shows what it
  counted (`Honest`), since the cards everybody sees after a reveal are those that
  the reveal counted (`FaceUpAreCounted`);
* `CallSmall`: the set of participants grows only in `Enrolled`, which a join
  reaches only when the room is not `Full`;
* `CallIsRound`: on `TableOf(r)`, the cards that are face down with their roles, a
  call does nothing (`SameRound`), takes a card back, puts one down, turns all up,
  or clears.

`NextIsCall` says that every step of `Room` is a call, and the theorems of
`RoomProofs` follow.

### Registry

`RInv` is `RegistryTypeOK`, `RoomsOK` (every room made so far is `RoomOK`, those
that were dropped too, for a handler may still call them), `PlacesOK` (finitely
many rooms and reservations, within the limit) and `OccupiedRoomsAreLive`. That
invariant stays true because a call from outside the registry reaches only the
connected participants of a room, and the join that brings somebody in makes the
room live in the same critical section.

### Handlers and messages

`SvInv` is stated on the seats of a room, the connection of each connected
participant: `CallsKeepSeats`, `AdmitSeats` and `RemoveConnectionSeats` say all
that the calls do to them. Beside `RInv` and the types of the handlers
(`HandlersOK`) it has `SeatedAreServed` (a seat is held by a handler that is on
its way in or serving and knows it), `HubEntriesAreServed`, `ReadersAreReached` (a
handler that reads is in the hub, or cancelled, or replaced by a handler that is
about to cancel it) and `UnseatedAreBeingDeleted` (a live room without seats has
a handler that is about to delete it). The third alternative of
`ReadersAreReached` is what makes it inductive: registering and closing the
previous connection are two steps. `LateCleanupsAreHarmless` follows from
`SeatedAreServed`: a cleanup that comes late finds another connection in its seat.

`DeliveryImplementsService` shows that every step of `Delivery` is one of
`Service` or leaves its variables alone, so `SvInv` holds there. `DInv` adds
`ToldOrOwed`: whoever is served and has not been sent the present state is being
closed, or is owed it by a handler of its room that has still to read the state
(`Announces`), or has read the present one and will send it there (`Brings`). When
all is quiet nobody owes anything, which is `EverybodyWasTold`.

What was proved of one room holds of all rooms of the service at once.
`StepsAreCalls`: with `SvInv`, a step of the service leaves a room as it is or is a
`RoomCall` of it, and if that changes what the room shows, a handler joins it,
serves in it or leaves it (`ServingCalls`, `LeavingCalls`, `JoiningCalls`; a join
that reaches another room only purges that one). Hence `OthersChangeNothing`,
`EveryRoomKeepsItsWord` (`CallKeeps`, `CallReveals`), `EveryRoomIsInOrder`
(`CallSmall`, and `RInv` for the rest) and `TheServicePlaysRounds`
(`CallIsRound`; a room that is created is a new round, `NewRoomIsNewRound`, and one
that has not been created shows an empty table, the initial state of `Round`).
`TheHubIsADirectory` maps the entries of the hub to the flat map of `Directory`:
`Register` is its `Add` (`RegisterIsAdd`) and `Unregister` its `Leave`
(`UnregisterIsLeave`), which takes the connection out of every place: by `SvInv` a
handler knows its room and its participant, and its connection is nowhere else.
Together with `ImplementsDirectory` this joins the nested maps and tokens of
`hub.go` to what the handlers rely on: both implement the same `Directory`. By
`DeliveryImplementsService` all of it holds while messages go out.

### Hub

It assumes `NoneAssumption` alone. Its `IInv` adds to the types `EntriesAgree` (an
entry is that of a live connection of that place and has its token),
`TokensDiffer`, `DoomedAreGone` and `GoneAreDoomed`. A token tells a connection
from its successor because `nextToken` is above every token dealt out, which is
why the bound of `token` is in `HubTypeOK`; hence `TokenTellsWho`: the comparison
of tokens in `RemoveConnection` is the comparison of connections in `Directory`.
`ReplacedAreClosed` needs `DoomedAreGone` for those that are gone and were doomed
before: they stay so because no connection is added twice. `PutChangesOne` and
`DropTakesOne` say what writing the nested maps does to the flat one, and each
action that writes them maps to one action of `Directory`; all others stutter.

### Limiters

`LInv` types the buckets. The step that matters is arithmetic: a bucket is
forgotten only when it has been idle for longer than `Expiry`, which is at least
twice the time it takes to fill (`FullAndExpiry`), so a bucket that is missing and
one that is full have the same `Level`. Charging after the purge is then charging
before it, and a step of `Limiter` one of `Buckets` (`StepIsPromised`).

### Session

The type invariant is not inductive by itself: `MoreMessages` is looked at before
a message is counted, so the bound of `sent` needs those that are about to be
queued (`HeldCounted`). `AcceptedAreNotLost` has the invariant `WayOK`: as long as
the link is open, what was delivered, what is being written and the queue, one
after the other, are what was accepted, in order.

### Page

`CInv` has, beside the types, `WiresOK` and `HubOK` (nothing passes through a socket
that was never open, and the hub sends to nobody who has not joined) and
`RoomOK(room, Drawn)`, `Drawn` being the connections whose join was read:

* `TokensOpen`: the token that a join handed out opens the seat of its handler for
  as long as the room has the participant on that connection. It stays so because
  the token of a connected participant outlives the purge (`PurgeUnlocks`), no call
  but a join writes the index otherwise (`CallsKeepIndex`), and a join leaves the
  tokens of others alone.
* `LettersOK`: what a handler has drafted or sent on a socket is a greeting with
  that handler's participant and token, or says nothing of who reads it.
* `PageTold`: once its handler has greeted it, the page on an open socket has taken
  over that participant and that token, or the greeting is still on its way.

When all is delivered the greeting has been taken, and with `TokensOpen` that is
`PageKnowsItsSeat`. No order of the handlers' steps matters for it, because the
page reads one socket and its greeting is the only message there that names
anybody; that other messages overtake it, or that another handler's state arrives
last, does no harm. The number of sockets, of messages on the way to the page
(`MaxInbox`) and of acts is arbitrary in the proof; on the way to the server there
is one message for each socket, the bound that the model has.
`NothingIsSentOffline` is inductive by itself.

### Input

`InputProofs` is about `Config` and `Messages`, which share nothing. For
the settings the invariant is `CInv`, which says for each stage of the start what
has become of each setting: what was said in the file, what is left of it after
the environment, what `Load` accepted and what it put in its place (`Loaded`), and
what is built of that (`Built`); past `Decode` the file is one document of known
fields. No setting depends on another, so TLC's
pairs of settings are enough to see a mistake, and the proof is for all settings
at a time. `LoadRefuses` says that Load refuses exactly what is not `Sensible`, and
`MeaningIsSafe` that what is `Sensible` is safe once it is built.

For the messages `ValidMeansWellFormed` compares `validate` after `UnmarshalJSON`
with the protocol on the text, by the cases of the type (`JoinBody`, `OtherBody`):
this is the whole content of `ProtocolIsAccepted`. `MInv` adds to it that what is
being handled was decoded from a message, so that each call has the fields which
its type requires.

## 6. What is only model-checked

* Liveness, for fairness and `ENABLED` are out of the prover's reach:
  `EmptyRoomsDisappear`, `CancelledConnectionsEnd`, `AcceptedArrive`,
  `BroadcastsEnd`, `EndedConnectionsLeaveNothing`, `SlowSendersBlockNobody` and
  `ComesBack`.
* What the sums in `Average` compute: they are folds over sets, and what a
  recursive definition computes for every input needs an induction that the
  provers cannot instantiate. The proofs about reveals say that the average is
  that of the right cards, whatever `Average` is.

## 7. What is not modelled, and the plan

Not modelled: static files, the decoding of POST bodies, CORS and other headers,
the form that creates a room, page layout, sounds: pure I/O or data. An orderly
stop of the process is not in the code. The host is passed on as it is.
`Session.Write` and `Session.Ping` have no caller in the server.

Two hazards are in the models and have no property, for nothing in the
repository says what should happen: the error reply to a message that is refused
may be lost (`Session`), and a page whose token has expired keeps it and is
refused whenever it joins (`Client`). Leaving while the room request is under way
(`Client`) makes the page connect once more; how long it lives after that is up
to the browser.

Everything that was planned is on disk: every safety invariant, action property
and refinement that a run checks is a theorem, and what is not is listed in
section 6. Worth doing next: the copying of the senders in `Client` as it is in
`Delivery`, and the session's queue as the channel of both.

## 8. Running the checks

In this directory, with `tlc` and `tlapm` on the path:

    tlc -workers 4 -config MCRoom.cfg MCRoom.tla
    for m in RoomOps Room Service Hub Limiter Session Client Input; do
        tlapm ${m}Proofs.tla
    done

and likewise for every run in `PROJECT.json`.
