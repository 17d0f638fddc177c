------------------------------ MODULE Messages ------------------------------
(***************************************************************************)
(* What the server makes of the text of a WebSocket message: UnmarshalJSON *)
(* turns the JSON object into pointers and flags, validate checks them in  *)
(* the order of the source, and ws dereferences the pointers and calls the *)
(* registry or the room (server.go, incomingMessage and Server.ws).        *)
(*                                                                         *)
(* A text is one of three things: no JSON at all, JSON that is not one     *)
(* object of the known fields, or an object.  The object gives each field  *)
(* one of a few kinds of value: what validate and the handler can tell     *)
(* apart, and nothing more.                                                *)
(***************************************************************************)
EXTENDS Naturals

VARIABLES
    phase,  \* "join": before the first message; "serving"; "closed"
    text,   \* the message that was read and not yet looked at, or NoText
    call    \* the call to the registry or the room that is being made, or NoCall

vars == <<phase, text, call>>

Nil     == "nil"
NoText  == [kind |-> "none"]
NoCall  == [op |-> "none"]

\* The JSON values of a string field: "null", a value of another type, the
\* white space that TrimSpace takes away, up to 128 bytes, and more than that.
Strings  == {"absent", "null", "wrong", "blank", "text", "long"}
\* Names and roles meet no bound of length here: the room has its own.
Names    == Strings \ {"long"}
Numbers  == {"absent", "null", "wrong", "number"}
StringFields == {"name", "role", "client_id", "reconnect_token", "owner_token"}
Fields   == StringFields \union {"value"}
Votes    == {"vote_selected", "vote_submitted"}
\* No type and a null type are decoded as the empty string.
Types    == Votes \union {"", "wrong", "join", "vote_skipped", "reset", "other"}

Objects ==
    [kind : {"object"}, type : Types, name : Names, role : Names, client_id : Strings,
     reconnect_token : Strings, owner_token : Strings, value : Numbers]

\* "garbage" is no JSON: wsjson.Read fails before UnmarshalJSON is called.
\* "foreign" is null, an array, or an object with a field nobody knows.
Texts == Objects \union [kind : {"garbage", "foreign"}]

(***************************************************************************)
(* UnmarshalJSON, optionalString, optionalNumber and hasField: an absent   *)
(* field and a null are both a nil pointer, and only the flag tells them   *)
(* apart.  A value of the wrong type leaves the message undecoded.         *)
(***************************************************************************)
Undecoded(t) == t.kind = "foreign" \/ t.type = "wrong" \/ \E f \in Fields : t[f] = "wrong"
Optional(v)  == IF v \in {"absent", "null"} THEN Nil ELSE v

Decoded(t) ==
    IF Undecoded(t)
    THEN [failed |-> TRUE]
    ELSE [failed |-> FALSE, type |-> t.type,
          at  |-> [f \in Fields |-> Optional(t[f])],
          set |-> [f \in Fields |-> t[f] # "absent"]]

(***************************************************************************)
(* validate(first)                                                         *)
(***************************************************************************)
TrimSpace(v) == IF v = "blank" THEN "" ELSE v

\* Mutant: the length is taken before the white space is cut off.
UnusableUntrimmed(m, f) == m.at[f] # Nil /\ m.at[f] \in {"", "long"}

\* Mutant: a second join is not refused.
MisplacedFirst(m, first) == first /\ m.type # "join"

Inconsistent(m) == \E f \in Fields : m.set[f] # (m.at[f] # Nil)
Misplaced(m, first) == first # (m.type = "join")

Nulls(m, fs)       == \E f \in fs : m.set[f] /\ m.at[f] = Nil
NameMissing(m)     == m.at["name"] = Nil \/ TrimSpace(m.at["name"]) = ""
ClientIdMissing(m) == m.at["client_id"] = Nil \/ TrimSpace(m.at["client_id"]) = ""
ValueUnexpected(m) == m.set["value"]
\* The check of client_id, reconnect_token and owner_token.
Unusable(m, f)     == m.at[f] # Nil /\ TrimSpace(m.at[f]) \in {"", "long"}
ValueMissing(m)    == ~m.set["value"] \/ m.at["value"] = Nil
Strays(m, fs)      == \E f \in fs : m.set[f]

BadJoin(m) ==
    \/ NameMissing(m)
    \/ ClientIdMissing(m)
    \/ Nulls(m, {"role", "client_id", "reconnect_token", "owner_token"})
    \/ ValueUnexpected(m)
    \/ \E f \in {"client_id", "reconnect_token", "owner_token"} : Unusable(m, f)

BadBody(m) ==
    \/ m.type = "join" /\ BadJoin(m)
    \/ m.type \in Votes /\ (ValueMissing(m) \/ Strays(m, StringFields))
    \/ m.type \in {"vote_skipped", "reset"} /\ Strays(m, Fields)
    \/ m.type = "other"

Valid(m, first) ==
    /\ ~m.failed
    /\ ~Inconsistent(m)
    /\ m.type # ""
    /\ ~Misplaced(m, first)
    /\ ~BadBody(m)

(***************************************************************************)
(* The handler                                                             *)
(***************************************************************************)
Init == phase = "join" /\ text = NoText /\ call = NoCall

Read ==
    /\ phase \in {"join", "serving"} /\ text = NoText /\ call = NoCall
    /\ text' \in {t \in Texts : t.kind # "garbage"}
    /\ UNCHANGED <<phase, call>>

\* wsjson.Read returns an error: no JSON, the end of the connection, the
\* deadline of the first message.
ReadFails ==
    /\ phase \in {"join", "serving"} /\ text = NoText /\ call = NoCall
    /\ phase' = "closed"
    /\ UNCHANGED <<text, call>>

\* The bucket is asked before the message is looked at, and not for the first.
RateExceeded ==
    /\ phase = "serving" /\ text # NoText
    /\ phase' = "closed" /\ text' = NoText
    /\ UNCHANGED call

Refuse ==
    /\ phase \in {"join", "serving"} /\ text # NoText
    /\ ~Valid(Decoded(text), phase = "join")
    /\ phase' = "closed" /\ text' = NoText
    /\ UNCHANGED call

\* ws takes *in.Name without a look at the pointer: a nil one is a panic, here
\* a call with Nil for the name.  The other pointers are looked at, and a nil
\* one is the empty string.
OrEmpty(p) == IF p = Nil THEN "" ELSE TrimSpace(p)

Join ==
    /\ phase = "join" /\ text # NoText
    /\ LET m == Decoded(text) IN
         /\ Valid(m, TRUE)
         /\ call' = [op |-> "Join", of |-> text,
                     name |-> TrimSpace(m.at["name"]), role |-> OrEmpty(m.at["role"]),
                     client_id |-> OrEmpty(m.at["client_id"]),
                     reconnect_token |-> OrEmpty(m.at["reconnect_token"]),
                     owner_token |-> OrEmpty(m.at["owner_token"])]
    /\ text' = NoText
    /\ UNCHANGED phase

Dispatch(op, types) ==
    /\ phase = "serving" /\ text # NoText
    /\ LET m == Decoded(text) IN
         /\ Valid(m, FALSE)
         /\ m.type \in types
         /\ call' = [op |-> op, of |-> text,
                     value |-> m.at["value"], submit |-> m.type = "vote_submitted"]
    /\ text' = NoText
    /\ UNCHANGED phase

Vote     == Dispatch("Vote", Votes)
SkipVote == Dispatch("SkipVote", {"vote_skipped"})
Reset    == Dispatch("Reset", {"reset"})

\* The registry refuses the newcomer, or the call is over and the handler
\* reads the next message.  A room that refuses a vote is not reported.
JoinRefused ==
    /\ call.op = "Join"
    /\ phase' = "closed" /\ call' = NoCall
    /\ UNCHANGED text

Return ==
    /\ call # NoCall
    /\ phase' = "serving" /\ call' = NoCall
    /\ UNCHANGED text

Next ==
    \/ Read \/ ReadFails \/ RateExceeded \/ Refuse
    \/ Join \/ Vote \/ SkipVote \/ Reset \/ JoinRefused \/ Return

Spec == Init /\ [][Next]_vars

(***************************************************************************)
(* Properties                                                              *)
(***************************************************************************)
\* The protocol as the README tells it (README.md:89-91), on the text: which
\* fields a message of each type must have, and may have, with a usable value.
Usable(v) == v \in {"text", "number"}
Required(type) ==
    CASE type = "join" -> {"name", "client_id"}
      [] type \in Votes -> {"value"}
      [] OTHER -> {}
Allowed(type) ==
    Required(type) \union
    (IF type = "join" THEN {"role", "reconnect_token", "owner_token"} ELSE {})

WellFormed(t, first) ==
    /\ t.kind = "object"
    /\ t.type \in (IF first THEN {"join"} ELSE Votes \union {"vote_skipped", "reset"})
    /\ \A f \in Fields :
         \/ f \in Allowed(t.type) /\ Usable(t[f])
         \/ f \notin Required(t.type) /\ t[f] = "absent"
         \/ f = "role" /\ t.type = "join" /\ t[f] = "blank"

\* Fields decoded to pointers and flags and checked one by one accept exactly
\* the messages of the protocol: none is let through because a null looks like
\* an absent field, and none that a client may send is refused.
ValidIsWellFormed ==
    text # NoText => (Valid(Decoded(text), phase = "join") <=> WellFormed(text, phase = "join"))

\* What the registry and the room are given is what the client wrote: a token
\* that was sent never arrives as "no token", which would let a reconnection
\* pass for a newcomer, and a vote always has its number (server.go, ws).
CallsSayWhatWasSent ==
    /\ call.op = "Join" =>
         /\ call.name = "text" /\ call.client_id = "text"
         /\ \A f \in {"reconnect_token", "owner_token"} :
              (call[f] = "") <=> (call.of[f] = "absent")
    /\ call.op = "Vote" =>
         /\ call.value = "number"
         /\ call.of.type \in Votes
         /\ call.submit <=> call.of.type = "vote_submitted"
    /\ call.op \in {"SkipVote", "Reset"} => call.value = Nil
=============================================================================
