------------------------------- MODULE Client -------------------------------
(***************************************************************************)
(* One browser page and the service (frontend/src/app/app.component.ts     *)
(* with the buttons that app.component.html enables): the page opens       *)
(* sockets, joins, votes and reconnects, and keeps its own idea of the     *)
(* room and of the user's vote.  Another participant, the host, is in the  *)
(* room from the start.  What the page only displays (reconnectStatus, the *)
(* seconds, the error of a socket that is about to close) is left out.     *)
(*                                                                         *)
(* Each connection has a handler on the server (ws in                      *)
(* backend/pkg/httpapi/server.go), which goes through these phases; what   *)
(* the other handlers do comes in between:                                 *)
(*                                                                         *)
(*   waiting      it waits for the join message                            *)
(*   joined       the room has taken it in                                 *)
(*   registered   the hub has too, and told it whose place it took         *)
(*   greeting     that connection is closed; it owes its client the state  *)
(*   handing      it has read the state for its client                     *)
(*   announcing   it owes everybody the state                              *)
(*   resetting    it owes everybody the state of the new round             *)
(*   collecting   it has read the state for everybody                      *)
(*   serving      it reads messages                                        *)
(*   closing      the deferred cleanup has begun                           *)
(*   unregistered the hub has forgotten the connection                     *)
(*   removed      the room has disconnected the participant                *)
(*   ended        the connection has yet to be closed                      *)
(*   done                                                                  *)
(*                                                                         *)
(* up and down are the messages on their way; a connection that breaks is  *)
(* noticed by each end in its own time.  The hub copies its senders and    *)
(* calls them one after the other (Delivery has these steps); the page     *)
(* listens to one socket at a time, so here a broadcast is one step.       *)
(***************************************************************************)
EXTENDS RoomOps, Sequences

CONSTANTS
    Host,       \* the connection of the other participant
    HostClient, \* and its client
    Page,       \* the client of the page
    Role,       \* the role that the user picked
    Keys,       \* the owner tokens that the page may have stored
    MaxInbox    \* messages on their way to the page that a socket holds

ASSUME ClientAssumption ==
    /\ Host \in Conns
    /\ {HostClient, Page} \subseteq Clients /\ HostClient # Page
    /\ Role \in Roles
    /\ Keys \subseteq {OwnerToken, None}
    /\ MaxInbox \in Nat \ {0}

Sockets == Conns \ {Host}

\* The page
VARIABLES
    mode,       \* "join" or "game"; the page of a room is never in "create"
    socket,     \* this.socket
    timer,      \* reconnectTimer is set
    fetch,      \* the room request of tryReconnect
    leaving,
    rejected,   \* connectionRejected
    unavailable,\* roomUnavailable
    vote,       \* voteStatus
    selected,
    selfId,
    view,       \* this.room, once a message has set it
    stored,     \* the reconnect token in the storage of the browser
    key         \* the owner token there, if this browser made the room

\* The server
VARIABLES
    room,       \* the room
    live,       \* it is in the registry
    hub,        \* from a participant to the connection to send to
    phase,      \* where the handler of a connection is
    served,     \* the participant it serves
    previous,   \* the connection it replaced in the hub and has to close
    draft       \* the message it has made of the state it read

\* The network
VARIABLES
    wire,       \* the connection behind a socket
    presented,  \* the token that the join on a socket carries
    up, down    \* the messages on their way to the server and to the page

reconnectVars == <<timer, fetch, leaving, rejected, unavailable>>
voteVars == <<vote, selected>>
storyVars == <<mode, selfId, view, stored>>
pageVars == <<reconnectVars, voteVars, storyVars, socket, key>>
roomVars == <<room, live>>
handlerVars == <<hub, phase, served, previous, draft>>
netVars == <<wire, presented, up, down>>
vars == <<pageVars, roomVars, handlerVars, netVars>>

Asks(client, token, owner) ==
    [ client |-> client, token |-> token, owner |-> owner, role |-> Role, valid |-> TRUE ]

\* The page has loaded, with no token of a seat in its storage. (Bound: the
\* sockets that are closed from the start are never used.)
Init ==
    /\ mode = "join" /\ socket = None
    /\ timer = FALSE /\ fetch = "none"
    /\ leaving = FALSE /\ rejected = FALSE /\ unavailable = FALSE
    /\ vote = "idle" /\ selected = None
    /\ selfId = None /\ view = None /\ stored = None
    /\ key \in Keys
    /\ room = AfterAddConnection(NewRoom(OwnerToken), Host, Asks(HostClient, None, None))
    /\ live = TRUE
    /\ hub = [ i \in {Host} |-> Host ]
    /\ phase = [ c \in Conns |-> IF c = Host THEN "serving" ELSE "waiting" ]
    /\ served = [ c \in Conns |-> IF c = Host THEN Host ELSE None ]
    /\ previous = [ c \in Conns |-> None ]
    /\ draft = [ c \in Conns |-> None ]
    /\ wire \in [ Sockets -> {"unused", "closed"} ]
    /\ presented = [ s \in Sockets |-> None ]
    /\ up = [ s \in Sockets |-> <<>> ]
    /\ down = [ s \in Sockets |-> <<>> ]

-----------------------------------------------------------------------------
(* Connecting *)

Unused == { s \in Sockets : wire[s] = "unused" }

\* connect: the storage is read now, and the join is sent once it is open.
\* The socket that was there before, if any, is not closed.
Connect ==
    /\ Unused # {}
    /\ socket' = CHOOSE s \in Unused : TRUE
    /\ wire' = [ wire EXCEPT ![socket'] = "connecting" ]
    /\ presented' = [ presented EXCEPT ![socket'] = stored ]
    /\ timer' = FALSE
    /\ leaving' = FALSE
    /\ rejected' = FALSE
    /\ UNCHANGED <<voteVars, storyVars, unavailable, key, roomVars, handlerVars, up, down>>

\* The button stays enabled while the join is under way.
Join ==
    /\ mode = "join" /\ ~ unavailable
    /\ Connect
    /\ UNCHANGED fetch

\* reconnect: it does nothing for a user who is leaving, or a second time.
Reconnect == timer' = (timer \/ ~ leaving)

StopReconnect == timer' = FALSE

\* The timer goes off and tryReconnect asks for the room. (Bound: one
\* request is under way at a time.)
TimerFires ==
    /\ timer /\ fetch = "none"
    /\ timer' = FALSE
    /\ fetch' = IF leaving THEN "none" ELSE "asked"
    /\ UNCHANGED <<leaving, rejected, unavailable,
                   voteVars, storyVars, socket, key, roomVars, handlerVars, netVars>>

\* The server finds the room.
Answer ==
    /\ fetch = "asked" /\ live
    /\ fetch' = "found"
    /\ UNCHANGED <<timer, leaving, rejected, unavailable,
                   voteVars, storyVars, socket, key, roomVars, handlerVars, netVars>>

\* Mutant: a failed request is the end of it.
FetchFailsForGood ==
    /\ fetch = "asked"
    /\ fetch' = "none"
    /\ UNCHANGED <<timer, leaving, rejected, unavailable,
                   voteVars, storyVars, socket, key, roomVars, handlerVars, netVars>>

FetchFails ==
    /\ fetch = "asked"
    /\ fetch' = "none"
    /\ Reconnect
    /\ UNCHANGED <<leaving, rejected, unavailable,
                   voteVars, storyVars, socket, key, roomVars, handlerVars, netVars>>

\* showRoomUnavailable
FetchMisses ==
    /\ fetch = "asked" /\ ~ live
    /\ fetch' = "none"
    /\ StopReconnect
    /\ unavailable' = TRUE
    /\ UNCHANGED <<leaving, rejected,
                   voteVars, storyVars, socket, key, roomVars, handlerVars, netVars>>

\* tryReconnect goes on without looking at what has happened in between.
FetchFinds ==
    /\ fetch = "found"
    /\ fetch' = "none"
    /\ Connect

\* A message to the server.
Ask(type, card) == [ type |-> type, card |-> card ]

\* onopen: a socket that is no longer this.socket never sends its join.
OnOpen(s) ==
    /\ wire[s] = "connecting"
    /\ wire' = [ wire EXCEPT ![s] = "open" ]
    /\ IF socket = s
       THEN up' = [ up EXCEPT ![s] = Append(@, Ask("join", None)) ]
       ELSE UNCHANGED up
    /\ UNCHANGED <<reconnectVars, voteVars, storyVars, socket, key, roomVars, handlerVars, presented, down>>

Pending == {"sending", "skipping"}

\* Mutant: a vote on its way stays on its way.
VoteOnItsWay == vote

\* A vote on its way is given up with the connection.
VoteGivenUp == IF vote \in Pending THEN "idle" ELSE vote

ForgetSocket == vote' = VoteGivenUp /\ socket' = None

\* The end of a socket. One whose join was never read has drawn no name on
\* the server and stands for the next socket of the page.
Gone(s) == IF wire[s] # "closed" /\ phase[s] = "waiting" /\ up[s] = <<>>
           THEN "unused" ELSE "closed"

\* onclose, after what the server sent before it closed.
OnClose(s) ==
    /\ wire[s] \in {"failed", "broken"} /\ down[s] = <<>>
    /\ wire' = [ wire EXCEPT ![s] = Gone(s) ]
    /\ IF socket = s
       THEN /\ ForgetSocket
            /\ IF rejected THEN UNCHANGED timer ELSE Reconnect
       ELSE UNCHANGED <<socket, vote, timer>>
    /\ UNCHANGED <<fetch, leaving, rejected, unavailable, selected, storyVars, key,
                   roomVars, handlerVars, presented, up, down>>

-----------------------------------------------------------------------------
(* What the server sends *)

\* What a message shows of the room, as far as the page acts on it: the
\* seats of its own client, and whether the round is revealed.
Shown(r) ==
    [ seats    |-> [ i \in { j \in Connected(r) : r.participants[j].client = Page } |->
                       [ role      |-> r.participants[i].role,
                         lead      |-> r.participants[i].lead,
                         submitted |-> r.participants[i].submitted,
                         skipped   |-> r.participants[i].skipped ] ],
      revealed |-> r.revealed ]

News(type) == [ type |-> type, state |-> Shown(room), self |-> None, token |-> None ]

\* The token that the join on socket s hands out.
Issued(s) == Issues(s, Asks(Page, presented[s], key))

Greeting(s) ==
    [ type |-> "room_state", state |-> Shown(room), self |-> served[s], token |-> Issued(s) ]

ErrorMessage == [ type |-> "error", state |-> None, self |-> None, token |-> None ]

\* The page's own participant in a state.
Seated(state, i) == i \in DOMAIN state.seats
Seat(state, i) == state.seats[i]

Confirms(m) ==
    /\ Seated(m.state, selfId)
    /\ Seat(m.state, selfId).submitted
    /\ vote = IF Seat(m.state, selfId).skipped THEN "skipping" ELSE "sending"

\* handleEvent, on an error
HandleError ==
    /\ rejected' = TRUE
    /\ StopReconnect
    /\ vote' = "idle"
    /\ UNCHANGED <<selected, storyVars>>

\* handleEvent, on any message with a state. The own seat is looked up
\* before self is taken over.
HandleState(m) ==
    /\ vote' = IF m.type = "voting_reset" THEN "idle"
               ELSE IF Confirms(m) THEN IF vote = "skipping" THEN "skipped" ELSE "confirmed"
               ELSE vote
    /\ selected' = IF m.type = "voting_reset" \/ (vote = "skipping" /\ vote' = "skipped")
                   THEN None ELSE selected
    /\ view' = m.state
    /\ selfId' = IF m.self # None THEN m.self ELSE selfId
    /\ stored' = IF m.token # None THEN m.token ELSE stored
    /\ mode' = "game"
    /\ UNCHANGED <<timer, rejected>>

\* Mutant: messages on a socket that was given up are taken as well.
OnAnyMessage(s) ==
    /\ down[s] # <<>>
    /\ down' = [ down EXCEPT ![s] = Tail(@) ]
    /\ IF Head(down[s]).type = "error" THEN HandleError ELSE HandleState(Head(down[s]))
    /\ UNCHANGED <<socket, fetch, leaving, unavailable, key, roomVars, handlerVars,
                   wire, presented, up>>

OnMessage(s) ==
    /\ down[s] # <<>>
    /\ down' = [ down EXCEPT ![s] = Tail(@) ]
    /\ IF socket # s
       THEN UNCHANGED <<timer, rejected, voteVars, storyVars>>
       ELSE IF Head(down[s]).type = "error" THEN HandleError ELSE HandleState(Head(down[s]))
    /\ UNCHANGED <<socket, fetch, leaving, unavailable, key, roomVars, handlerVars,
                   wire, presented, up>>

-----------------------------------------------------------------------------
(* What the user does *)

\* The seat the page shows as the user's: me().
Me == IF view # None /\ selfId # None /\ Seated(view, selfId)
      THEN Seat(view, selfId)
      ELSE [ role |-> None, lead |-> FALSE ]

\* The cards and the vote buttons, which are there for voters.
Voting == mode = "game" /\ ~ unavailable /\ Me.role # None /\ ~ view.revealed

SelectCard(card) ==
    /\ Voting /\ vote \notin Pending
    /\ selected' = card
    /\ vote' = "idle"
    /\ UNCHANGED <<reconnectVars, storyVars, socket, key, roomVars, handlerVars, netVars>>

\* send: what is sent on a connection that is broken is lost.
Sent(m) == up' = IF wire[socket] = "open" THEN [ up EXCEPT ![socket] = Append(@, m) ] ELSE up

\* The bound on the messages to the server.
MoreToSend == \A s \in Sockets : up[s] = <<>>

\* readyState is OPEN until the browser notices that the connection is broken.
Sends    == socket # None /\ wire[socket] \in {"open", "broken"}
NotSends == ~ (socket # None /\ wire[socket] = "open")

Submit(m, to) ==
    /\ \/ Sends /\ Sent(m) /\ vote' = to
       \/ NotSends /\ UNCHANGED <<up, vote>>
    /\ UNCHANGED <<reconnectVars, selected, storyVars, socket, key, roomVars, handlerVars, wire, presented, down>>

Vote ==
    /\ Voting /\ selected # None /\ vote = "idle" /\ MoreToSend
    /\ Submit(Ask("vote_submitted", selected), "sending")

SkipVote ==
    /\ Voting /\ vote = "idle" /\ MoreToSend
    /\ Submit(Ask("vote_skipped", None), "skipping")

Reset ==
    /\ mode = "game" /\ ~ unavailable /\ Me.lead /\ MoreToSend
    /\ \/ Sends /\ Sent(Ask("reset", None))
       \/ NotSends /\ UNCHANGED up
    /\ selected' = None
    /\ vote' = "idle"
    /\ UNCHANGED <<reconnectVars, storyVars, socket, key, roomVars, handlerVars,
                   wire, presented, down>>

\* The connections of S break. One that never opened has failed.
Broken(S) ==
    [ s \in Sockets |-> IF s \notin S THEN wire[s]
                        ELSE IF wire[s] = "connecting" THEN "failed"
                        ELSE IF wire[s] = "open" THEN "broken" ELSE wire[s] ]

\* leave: the socket is closed, and the browser begins to load another page.
Leave ==
    /\ mode = "game" \/ unavailable
    /\ leaving' = TRUE
    /\ StopReconnect
    /\ wire' = Broken({socket})
    /\ socket' = None
    /\ UNCHANGED <<fetch, rejected, unavailable, voteVars, storyVars, key,
                   roomVars, handlerVars, presented, up, down>>

\* The page is loaded again, or the room's link opened again after leave.
Reload ==
    /\ mode' = "join" /\ unavailable' = ~ live
    /\ socket' = None
    /\ timer' = FALSE /\ fetch' = "none"
    /\ leaving' = FALSE /\ rejected' = FALSE
    /\ vote' = "idle" /\ selected' = None
    /\ selfId' = None /\ view' = None
    /\ wire' = [ s \in Sockets |-> Gone(s) ]
    /\ down' = [ s \in Sockets |-> <<>> ]
    /\ UNCHANGED <<stored, key, roomVars, handlerVars, presented, up>>

-----------------------------------------------------------------------------
(* The handlers of the connections *)

\* The handler of s reads the next message. What had arrived before the
\* connection broke can still be read.
Takes(s) == up[s] # <<>> /\ up' = [ up EXCEPT ![s] = Tail(@) ]

Goto(c, from, to) ==
    /\ phase[c] = from
    /\ phase' = [ phase EXCEPT ![c] = to ]

\* A join that is refused, because of the room or of the token.
RefuseJoin(s) ==
    /\ Takes(s) /\ Goto(s, "waiting", "done")
    /\ ~ live \/ JoinError(AfterPurge(room), Asks(Page, presented[s], key)) # "none"
    /\ room' = IF live THEN AfterPurge(room) ELSE room
    /\ down' = [ down EXCEPT ![s] = IF wire[s] = "open" THEN Append(@, ErrorMessage) ELSE @ ]
    /\ wire' = Broken({s})
    /\ UNCHANGED <<pageVars, live, hub, served, previous, draft, presented>>

\* Registry.Join
AcceptJoin(s) ==
    LET q == Asks(Page, presented[s], key) IN
    /\ Takes(s) /\ Goto(s, "waiting", "joined")
    /\ live /\ JoinError(AfterPurge(room), q) = "none"
    /\ room' = AfterAddConnection(room, s, q)
    /\ served' = [ served EXCEPT ![s] = JoinsAs(AfterPurge(room), s, q) ]
    /\ UNCHANGED <<pageVars, live, hub, previous, draft, wire, presented, down>>

\* Hub.AddConnection
Register(s) ==
    LET i == served[s] IN
    /\ Goto(s, "joined", "registered")
    /\ hub' = Put(hub, i, s)
    /\ previous' = [ previous EXCEPT ![s] = IF i \in DOMAIN hub THEN hub[i] ELSE None ]
    /\ UNCHANGED <<pageVars, roomVars, served, draft, netVars>>

ClosePrevious(s) ==
    /\ Goto(s, "registered", "greeting")
    /\ wire' = Broken({previous[s]})
    /\ previous' = [ previous EXCEPT ![s] = None ]
    /\ UNCHANGED <<pageVars, roomVars, hub, served, draft, presented, up, down>>

\* Room.State, for the message m.
Reads(c, from, to, m) ==
    /\ Goto(c, from, to)
    /\ draft' = [ draft EXCEPT ![c] = m ]
    /\ UNCHANGED <<pageVars, roomVars, hub, served, previous, netVars>>

ReadOwnState(s) == Reads(s, "greeting", "handing", Greeting(s))

ReadState(c) ==
    \/ Reads(c, "announcing", "collecting", News("room_state"))
    \/ Reads(c, "resetting", "collecting", News("voting_reset"))

\* Enqueue, for every socket in S: a client that is too slow, or whose
\* session has ended, is disconnected.
Enqueue(S, m) ==
    LET takes == { s \in S : phase[s] # "closing" /\ Len(down[s]) < MaxInbox } IN
    /\ down' = [ s \in Sockets |-> IF s \in takes /\ wire[s] = "open"
                                   THEN Append(down[s], m) ELSE down[s] ]
    /\ wire' = Broken(S \ takes)

\* write: the greeting goes to the own client alone.
Hand(s) ==
    /\ Goto(s, "handing", "announcing")
    /\ Enqueue({s}, draft[s])
    /\ draft' = [ draft EXCEPT ![s] = None ]
    /\ UNCHANGED <<pageVars, roomVars, hub, served, previous, presented, up>>

\* Hub.Broadcast. A handler that has cleaned up is through with it.
Broadcast(c) ==
    /\ Goto(c, "collecting", IF served[c] = None THEN "ended" ELSE "serving")
    /\ Enqueue(Sockets \cap { hub[i] : i \in DOMAIN hub }, draft[c])
    /\ draft' = [ draft EXCEPT ![c] = None ]
    /\ UNCHANGED <<pageVars, roomVars, hub, served, previous, presented, up>>

\* A message that the handler of c acts on. Only what the room does not
\* refuse is announced.
Handles(c, m) ==
    LET r == AfterPurge(room)  i == served[c] IN
    \/ /\ m.type = "reset"
       /\ room' = AfterReset(room, i)
       /\ Goto(c, "serving", IF MayReset(r, i) THEN "resetting" ELSE "serving")
    \/ /\ m.type = "vote_skipped"
       /\ room' = AfterSkipVote(room, i)
       /\ Goto(c, "serving", IF MayVote(r, i) THEN "announcing" ELSE "serving")
    \/ /\ m.type = "vote_submitted"
       /\ room' = AfterVote(room, i, m.card, TRUE)
       /\ Goto(c, "serving", IF MayVote(r, i) THEN "announcing" ELSE "serving")

Serve(s) ==
    /\ Takes(s) /\ Handles(s, Head(up[s]))
    /\ UNCHANGED <<pageVars, live, hub, served, previous, draft, wire, presented, down>>

\* The rate limiter refuses a message. The page is told if the session
\* still writes it before it ends.
RefuseMessage(s) ==
    /\ Takes(s) /\ Goto(s, "serving", "closing")
    /\ Enqueue({s}, ErrorMessage) \/ UNCHANGED <<down, wire>>
    /\ UNCHANGED <<pageVars, roomVars, hub, served, previous, draft, presented>>

ReadFails(s) ==
    /\ wire[s] \in {"broken", "closed"}
    /\ Goto(s, "serving", "closing")
    /\ up' = [ up EXCEPT ![s] = <<>> ]
    /\ UNCHANGED <<pageVars, roomVars, hub, served, previous, draft, wire, presented, down>>

\* Hub.RemoveConnection
Unregister(c) ==
    /\ Goto(c, "closing", "unregistered")
    /\ hub' = IF served[c] \in DOMAIN hub /\ hub[served[c]] = c
              THEN Drop(hub, served[c]) ELSE hub
    /\ UNCHANGED <<pageVars, roomVars, served, previous, draft, netVars>>

\* Room.RemoveConnection. If it is not for this connection that is all.
LeaveRoom(c) ==
    /\ Goto(c, "unregistered", IF Removes(room, served[c], c) THEN "removed" ELSE "ended")
    /\ room' \in AfterRemoveConnection(room, served[c], c)
    /\ served' = [ served EXCEPT ![c] = None ]
    /\ UNCHANGED <<pageVars, live, hub, previous, draft, netVars>>

\* Registry.DeleteIfEmpty
DeleteIfEmpty(c) ==
    /\ Goto(c, "removed", "announcing")
    /\ room' = IF live THEN AfterPurge(room) ELSE room
    /\ live' = (live /\ ~ IsEmpty(room))
    /\ UNCHANGED <<pageVars, hub, served, previous, draft, netVars>>

\* The last of the deferred calls.
Close(s) ==
    /\ Goto(s, "ended", "done")
    /\ wire' = Broken({s})
    /\ up' = [ up EXCEPT ![s] = <<>> ]
    /\ UNCHANGED <<pageVars, roomVars, hub, served, previous, draft, presented, down>>

\* JoinTimeout: a socket that the page has opened and given up.
TimeOut(s) ==
    /\ wire[s] = "open" /\ phase[s] = "waiting" /\ up[s] = <<>>
    /\ wire' = Broken({s})
    /\ UNCHANGED <<pageVars, roomVars, handlerVars, presented, up, down>>

\* The network fails, and what is on its way is lost.
Lose(s) ==
    /\ wire[s] \in {"connecting", "open"}
    /\ wire' = Broken({s})
    /\ up' = [ up EXCEPT ![s] = <<>> ]
    /\ down' = [ down EXCEPT ![s] = <<>> ]
    /\ UNCHANGED <<pageVars, roomVars, handlerVars, presented>>

\* The host votes, resets, or leaves for good.
HostActs ==
    /\ \E m \in { Ask("vote_submitted", card) : card \in Cards } \cup {Ask("reset", None)} :
          Handles(Host, m)
    /\ UNCHANGED <<pageVars, live, hub, served, previous, draft, netVars>>

HostLeaves ==
    /\ Goto(Host, "serving", "closing")
    /\ UNCHANGED <<pageVars, roomVars, hub, served, previous, draft, netVars>>

Tick ==
    /\ room' = AfterTick(room)
    /\ UNCHANGED <<pageVars, live, handlerVars, netVars>>

-----------------------------------------------------------------------------

\* What the page and the network do of themselves, and the joins.
PageNext ==
    \/ Join \/ TimerFires \/ Answer \/ FetchFails \/ FetchMisses \/ FetchFinds
    \/ \E s \in Sockets : OnOpen(s) \/ OnClose(s) \/ OnMessage(s) \/ TimeOut(s) \/ Lose(s)
    \/ \E card \in Cards : SelectCard(card)

HandlersNext ==
    \/ \E s \in Sockets :
          \/ RefuseJoin(s) \/ AcceptJoin(s) \/ Register(s) \/ ClosePrevious(s)
          \/ ReadOwnState(s) \/ Hand(s) \/ Serve(s) \/ RefuseMessage(s) \/ ReadFails(s)
          \/ Close(s)
    \/ \E c \in Conns :
          ReadState(c) \/ Broadcast(c) \/ Unregister(c) \/ LeaveRoom(c) \/ DeleteIfEmpty(c)

UserActs == Vote \/ SkipVote \/ Reset \/ Leave \/ Reload

OthersAct == HostActs \/ HostLeaves \/ Tick

Next == PageNext \/ HandlersNext \/ UserActs \/ OthersAct

Spec == Init /\ [][Next]_vars

PageStep ==
    \/ TimerFires \/ FetchFinds
    \/ \E s \in Sockets : OnClose(s) \/ OnMessage(s)

\* Timers go off, closings are noticed, messages come through and requests
\* end; and not every request, every socket and every join fails.
Fairness ==
    /\ WF_vars(PageStep)
    /\ WF_vars(Answer \/ FetchFails \/ FetchMisses)
    /\ SF_vars(Answer \/ FetchMisses)
    /\ SF_vars(socket # None /\ OnOpen(socket))
    /\ SF_vars(socket # None /\ (AcceptJoin(socket) \/ RefuseJoin(socket)))

FairSpec == Spec /\ Fairness

-----------------------------------------------------------------------------

\* Nothing is on its way between the page and the server, and no handler of
\* the page's has anything left to do.
Settled ==
    /\ fetch = "none" /\ ~ timer
    /\ \A s \in Sockets : /\ wire[s] \in {"unused", "open", "closed"}
                          /\ up[s] = <<>> /\ down[s] = <<>>
                          /\ phase[s] \in {"waiting", "serving", "done"}

\* The handler of c serves a participant that the room has on c.
Holds(c) ==
    /\ served[c] \in Connected(room)
    /\ room.participants[served[c]].conn = c

\* The page is in the room.
InGame == Settled /\ socket # None /\ Holds(socket)

(***************************************************************************)
(* The page and the server agree on who the user is, and the token in the  *)
(* storage opens that very seat: sockets that were given up, tokens read   *)
(* too early or replaced, greetings overtaken by broadcasts and messages   *)
(* lost with a connection confuse neither.                                 *)
(***************************************************************************)
PageKnowsItsSeat ==
    InGame =>
        /\ mode = "game"
        /\ selfId = served[socket]
        /\ stored \in DOMAIN room.index /\ room.index[stored] = selfId

(***************************************************************************)
(* No vote is on its way on a page without a connection, whichever way the *)
(* connection went.                                                        *)
(***************************************************************************)
NothingIsSentOffline == socket = None /\ ~ leaving => vote \notin Pending

\* The bound on the sockets that joined stops the page.
OutOfSockets == Unused = {} /\ socket = None

(***************************************************************************)
(* A page that lost its connection in the game comes back: it is served    *)
(* again, or it says that it cannot be; however often the requests, the    *)
(* sockets and the joins of its attempts fail on the way there.            *)
(***************************************************************************)
ComesBack ==
    (mode = "game" /\ socket = None)
        ~> \/ socket # None /\ served[socket] # None
           \/ rejected \/ unavailable
           \/ leaving \/ mode = "join"
           \/ OutOfSockets

-----------------------------------------------------------------------------
(* What the repository says and the code does not do *)

\* The page is in the room, and the host's handler has nothing to tell it.
ToldAll == InGame /\ phase[Host] \in {"serving", "ended"}

(***************************************************************************)
(* "Vote submitted" (app.component.html): the room has the vote that the   *)
(* page shows as submitted.                                                *)
(***************************************************************************)
ConfirmedVoteCounts ==
    ToldAll /\ vote = "confirmed" => room.participants[selfId].submitted

(***************************************************************************)
(* The same, for a page that lost no connection: the card that it marks as *)
(* submitted is the one that the room has for it.                          *)
(***************************************************************************)
ConfirmedCardIsPlayed ==
    ToldAll /\ vote = "confirmed" /\ room.participants[selfId].submitted
        => room.participants[selfId].selected = selected

(***************************************************************************)
(* "Sending your vote" (app.component.html): it is being sent. Once        *)
(* everything has been delivered no vote is on its way any more, unless    *)
(* the round was revealed before it came.                                  *)
(***************************************************************************)
SendingIsUnderWay == ToldAll /\ vote \in Pending => room.revealed

(***************************************************************************)
(* "when every voter is ready" (README.md): a voter of this page that the  *)
(* room waits for is the user's seat on the page.                          *)
(***************************************************************************)
VotersCanBeReady ==
    ToldAll => \A i \in Voters(room) :
        room.participants[i].client = Page => i = selfId

=============================================================================
