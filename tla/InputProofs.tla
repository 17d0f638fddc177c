---------------------------- MODULE InputProofs -----------------------------
(***************************************************************************)
(* What comes from outside: the settings that the program starts with      *)
(* (Config) and the messages that it is sent (Messages).  The proof about  *)
(* the settings is for whatever the file and the environment say of all of *)
(* them, and goes with a setting from where it is said to where it is      *)
(* used; the one about messages is for every message and for executions of *)
(* any length.                                                             *)
(***************************************************************************)
EXTENDS Config, Messages, TLAPS

-----------------------------------------------------------------------------
(* The way of one setting *)

\* The value v of setting s after Load, when Load does not refuse it.
Loaded(s, v) ==
    IF /\ s \in (Counts \ {"max_message_bytes"}) \cup Rates
       /\ NotPositive(v)
    THEN "default" ELSE v

\* And after main.
Built(s, v) ==
    IF s \in Durations THEN Parsed(v)
    ELSE IF s = "max_message_bytes" /\ NotPositive(v) THEN "default"
    ELSE Loaded(s, v)

\* Load can read the values of all settings.
Reads(f) == \A s \in Numeric : f[s] # "bad"

\* Load refuses exactly the values that cannot be used.
LEMMA LoadRefuses ==
    ASSUME NEW s \in Settings, c[s] \in Said(s), s \in Numeric => c[s] # "bad"
    PROVE  /\ Refuses(s) <=> ~ Sensible(s, c[s])
           /\ Defaulted(s) = Loaded(s, c[s])
<1>1. Defaulted(s) = Loaded(s, c[s])
  BY DEF Defaulted, Loaded
<1>2. CASE s \in Counts
  BY <1>1, <1>2 DEF Refuses, Sensible, Said, Counts, Rates, Caps, Ports, Durations,
        Origins, Numeric
<1>3. CASE s \in Rates
  BY <1>1, <1>3 DEF Refuses, Sensible, Said, Counts, Rates, Caps, Ports, Durations,
        Origins, Numeric, Loaded, NotPositive
<1>4. CASE s \in Caps
  BY <1>1, <1>4 DEF Refuses, Sensible, Said, Counts, Rates, Caps, Ports, Durations,
        Origins, Numeric
<1>5. CASE s \in Durations
  BY <1>1, <1>5 DEF Refuses, Sensible, Said, Counts, Rates, Caps, Ports, Durations,
        Origins, Numeric, Parsed, NotPositive
<1>6. CASE s \in Origins
  BY <1>1, <1>6 DEF Refuses, Sensible, Said, Counts, Rates, Caps, Ports, Durations,
        Origins, Numeric
<1>7. CASE s \in Ports
  BY <1>1, <1>7 DEF Refuses, Sensible, Said, Counts, Rates, Caps, Ports, Durations,
        Origins, Numeric
<1> QED
  BY <1>1, <1>2, <1>3, <1>4, <1>5, <1>6, <1>7 DEF Settings, Numeric

\* The defaults of Handler, and those before, give a usable value its meaning.
LEMMA MeaningIsSafe ==
    ASSUME NEW s \in Settings, NEW v \in Said(s), Sensible(s, v)
    PROVE  /\ Meant(s, v) =
                IF /\ s \in Counts \cup Rates
                            \cup (Durations \ {"read_header_timeout", "http_write_timeout"})
                   /\ NotPositive(Built(s, v))
                THEN "default" ELSE Built(s, v)
           /\ s \in Counts \cup Rates \cup Durations =>
                Meant(s, v) \in {"positive", "default"}
           /\ s \in Caps => Meant(s, v) \in {"zero", "positive"}
           /\ s \in Origins => Meant(s, v) # "bad"
<1>1. CASE s \in Counts
  BY <1>1 DEF Meant, Sensible, Said, Counts, Rates, Caps, Ports, Durations, Origins,
        Built, Loaded, NotPositive
<1>2. CASE s \in Rates
  BY <1>2 DEF Meant, Sensible, Said, Counts, Rates, Caps, Ports, Durations, Origins,
        Built, Loaded, NotPositive
<1>3. CASE s \in Caps
  BY <1>3 DEF Meant, Sensible, Said, Counts, Rates, Caps, Ports, Durations, Origins,
        Built, Loaded, NotPositive
<1>4. CASE s \in Durations
  BY <1>4 DEF Meant, Sensible, Said, Counts, Rates, Caps, Ports, Durations, Origins,
        Built, Parsed, NotPositive
<1>5. CASE s \in Origins
  BY <1>5 DEF Meant, Sensible, Said, Counts, Rates, Caps, Ports, Durations, Origins,
        Built, Loaded, NotPositive
<1>6. CASE s \in Ports
  BY <1>6 DEF Meant, Sensible, Said, Counts, Rates, Caps, Ports, Durations, Origins,
        Built, Loaded, NotPositive
<1> QED
  BY <1>1, <1>2, <1>3, <1>4, <1>5, <1>6 DEF Settings, Numeric

-----------------------------------------------------------------------------
(* The start of the program *)

\* What has become of the settings at each stage.
CInv ==
    /\ stage \in {"file", "environment", "check", "main", "handler", "serving", "failed"}
    /\ \A s \in Settings : file[s] \in Said(s) /\ env[s] \in Said(s) \cup {Unset}
    /\ stage \notin {"file", "failed"} => form = "document"
    /\ stage \in {"file", "environment"} => c = file
    /\ stage \in {"environment", "check"} => Reads(file)
    /\ stage = "check" => Reads(env) /\ \A s \in Settings : c[s] = Wish(s)
    /\ stage \in {"main", "handler", "serving"} =>
          \A s \in Settings : Sensible(s, Wish(s))
    /\ stage = "main" => \A s \in Settings : c[s] = Loaded(s, Wish(s))
    /\ stage = "handler" => \A s \in Settings : c[s] = Built(s, Wish(s))
    /\ stage = "serving" => \A s \in Settings : c[s] = Meant(s, Wish(s))
    /\ stage = "failed" =>
          \/ form # "document"
          \/ \E s \in Settings :
                ~ Sensible(s, Wish(s)) \/ (s \in Numeric /\ file[s] = "bad")

LEMMA InitCInv == ConfigInit => CInv
BY DEF ConfigInit, CInv

\* What was said of a setting is one of the values that can be said of it.
LEMMA WishIsSaid ==
    ASSUME CInv, NEW s \in Settings
    PROVE  Wish(s) \in Said(s)
BY DEF CInv, Wish

\* A number that does not parse cannot be used.
LEMMA BadIsUnusable ==
    ASSUME NEW s \in Numeric
    PROVE  s \in Settings /\ ~ Sensible(s, "bad")
BY DEF Sensible, Settings, Numeric, Counts, Rates, Caps, Ports, Durations, Origins

LEMMA NextCInv == CInv /\ [ConfigNext]_configVars => CInv'
<1> SUFFICES ASSUME CInv, [ConfigNext]_configVars
             PROVE  CInv'
  OBVIOUS
<1> DEFINE Kept == UNCHANGED <<form, file, env>>
<1>1. Kept => \A s \in Settings : Wish(s)' = Wish(s)
  BY DEF Wish
<1>2. CASE Decode
  <2>0. CASE form # "document"
    <3>1. stage' = "failed" /\ Kept
      BY <1>2, <2>0 DEF Decode, Fail, saidVars
    <3> QED
      BY <2>0, <3>1 DEF CInv
  <2>1. CASE \E s \in Numeric : file[s] = "bad"
    <3>1. stage' = "failed" /\ Kept
      BY <1>2, <2>1 DEF Decode, Fail, saidVars
    <3>2. PICK s \in Numeric : file[s] = "bad"
      BY <2>1
    <3>3. s \in Settings
      BY DEF Settings
    <3> QED
      BY <3>1, <3>2, <3>3 DEF CInv
  <2>2. CASE form = "document" /\ ~ \E s \in Numeric : file[s] = "bad"
    <3>1. stage' = "environment" /\ Kept /\ c' = file
      BY <1>2, <2>2 DEF Decode, Goes, saidVars
    <3> QED
      BY <2>2, <3>1 DEF CInv, Reads
  <2> QED
    BY <2>0, <2>1, <2>2
<1>3. CASE ApplyEnvironment
  <2>1. CASE \E s \in Numeric : env[s] = "bad"
    <3>1. stage' = "failed" /\ Kept
      BY <1>3, <2>1 DEF ApplyEnvironment, Fail, saidVars
    <3>2. PICK s \in Numeric : env[s] = "bad"
      BY <2>1
    <3>3. Wish(s) = "bad"
      BY <3>2 DEF Wish, Unset
    <3>4. s \in Settings /\ ~ Sensible(s, Wish(s)')
      BY <1>1, <3>1, <3>3, BadIsUnusable
    <3> QED
      BY <3>1, <3>4 DEF CInv
  <2>2. CASE ~ \E s \in Numeric : env[s] = "bad"
    <3>1. stage = "environment" /\ stage' = "check" /\ Kept
      BY <1>3, <2>2 DEF ApplyEnvironment, Goes, saidVars
    <3>2. c' = [ s \in Settings |-> Override(s) ]
      BY <1>3, <2>2 DEF ApplyEnvironment
    <3>3. \A s \in Settings : Override(s) = Wish(s)
      BY <3>1 DEF CInv, Override, Wish
    <3>4. \A s \in Settings : c'[s] = Wish(s)'
      BY <1>1, <3>1, <3>2, <3>3
    <3> QED
      BY <2>2, <3>1, <3>4 DEF CInv, Reads
  <2> QED
    BY <2>1, <2>2
<1>4. CASE Check
  <2>0. ASSUME NEW s \in Settings
        PROVE  /\ Refuses(s) <=> ~ Sensible(s, Wish(s))
               /\ Defaulted(s) = Loaded(s, Wish(s))
    <3>1. c[s] = Wish(s) /\ Reads(file) /\ Reads(env)
      BY <1>4, <2>0 DEF Check, CInv
    <3>2. s \in Numeric => c[s] # "bad"
      BY <3>1 DEF Reads, Wish
    <3>3. c[s] \in Said(s)
      BY <3>1, WishIsSaid
    <3> QED
      BY <3>1, <3>2, <3>3, LoadRefuses
  <2>1. CASE \E s \in Settings : Refuses(s)
    <3>1. stage' = "failed" /\ Kept
      BY <1>4, <2>1 DEF Check, Fail, saidVars
    <3>2. PICK s \in Settings : ~ Sensible(s, Wish(s))
      BY <2>0, <2>1
    <3>3. ~ Sensible(s, Wish(s)')
      BY <1>1, <3>1, <3>2
    <3> QED
      BY <3>1, <3>3 DEF CInv
  <2>2. CASE ~ \E s \in Settings : Refuses(s)
    <3>1. stage = "check" /\ stage' = "main" /\ Kept
      BY <1>4, <2>2 DEF Check, Goes, saidVars
    <3>2. c' = [ s \in Settings |-> Defaulted(s) ]
      BY <1>4, <2>2 DEF Check
    <3>3. \A s \in Settings : Sensible(s, Wish(s)') /\ c'[s] = Loaded(s, Wish(s)')
      BY <1>1, <2>0, <2>2, <3>1, <3>2
    <3> QED
      BY <3>1, <3>3 DEF CInv
  <2> QED
    BY <2>1, <2>2
<1>5. CASE BuildServer
  <2>1. stage = "main" /\ stage' = "handler" /\ Kept
    BY <1>5 DEF BuildServer, Goes, saidVars
  <2>2. ASSUME NEW s \in Settings
        PROVE  c'[s] = Built(s, Wish(s)')
    <3>1. c[s] = Loaded(s, Wish(s))
      BY <2>1 DEF CInv
    <3>2. s \in Durations => Loaded(s, Wish(s)) = Wish(s)
      BY DEF Loaded, Counts, Rates, Durations
    <3>3. s = "max_message_bytes" => Loaded(s, Wish(s)) = Wish(s)
      BY DEF Loaded, Rates
    <3>4. c'[s] = CASE s \in Durations -> Parsed(c[s])
                    [] s = "max_message_bytes" /\ NotPositive(c[s]) -> "default"
                    [] OTHER -> c[s]
      BY <1>5 DEF BuildServer
    <3>5. s \in Durations => s # "max_message_bytes"
      BY DEF Durations
    <3>6. c'[s] = Built(s, Wish(s))
      BY <3>1, <3>2, <3>3, <3>4, <3>5 DEF Built
    <3> QED
      BY <1>1, <2>1, <3>6
  <2>3. \A s \in Settings : Sensible(s, Wish(s)')
    BY <1>1, <2>1 DEF CInv
  <2> QED
    BY <2>1, <2>2, <2>3 DEF CInv
<1>6. CASE Handler
  <2>1. stage = "handler" /\ stage' = "serving" /\ Kept
    BY <1>6 DEF Handler, Goes, saidVars
  <2>2. ASSUME NEW s \in Settings
        PROVE  c'[s] = Meant(s, Wish(s)')
    <3>1. c[s] = Built(s, Wish(s)) /\ Sensible(s, Wish(s))
      BY <2>1 DEF CInv
    <3>2. Wish(s) \in Said(s)
      BY WishIsSaid
    <3>3. c'[s] = Meant(s, Wish(s))
      BY <1>6, <3>1, <3>2, MeaningIsSafe DEF Handler
    <3> QED
      BY <1>1, <2>1, <3>3
  <2>3. \A s \in Settings : Sensible(s, Wish(s)')
    BY <1>1, <2>1 DEF CInv
  <2> QED
    BY <2>1, <2>2, <2>3 DEF CInv
<1>7. CASE UNCHANGED configVars
  BY <1>1, <1>7 DEF configVars, saidVars, CInv, Reads
<1> QED
  BY <1>2, <1>3, <1>4, <1>5, <1>6, <1>7 DEF ConfigNext

LEMMA StartInvariance == ConfigSpec => []CInv
BY InitCInv, NextCInv, PTL DEF ConfigSpec

(***************************************************************************)
(* A server that serves has no limit that stops it, whatever the file and  *)
(* the environment say of whichever settings: what Load, main and Handler  *)
(* refuse and replace leaves no gap between them.                          *)
(***************************************************************************)
THEOREM LimitsAreSafe == ConfigSpec => []ServesWithSafeLimits
<1>1. CInv => ServesWithSafeLimits
  <2> SUFFICES ASSUME CInv, stage = "serving"
               PROVE  ServesWithSafeLimits
    BY DEF ServesWithSafeLimits
  <2>1. ASSUME NEW s \in Settings
        PROVE  /\ s \in Counts \cup Rates \cup Durations => c[s] \in {"positive", "default"}
               /\ s \in Caps => c[s] \in {"zero", "positive"}
               /\ s \in Origins => c[s] # "bad"
    <3>1. c[s] = Meant(s, Wish(s)) /\ Sensible(s, Wish(s))
      BY DEF CInv
    <3>2. Wish(s) \in Said(s)
      BY WishIsSaid
    <3> QED
      BY <3>1, <3>2, MeaningIsSafe
  <2> QED
    BY <2>1 DEF ServesWithSafeLimits, Settings, Numeric
<1> QED
  BY <1>1, StartInvariance, PTL

(***************************************************************************)
(* A program that serves has read one document of known fields and does    *)
(* what was said, the environment before the file, of all settings at a    *)
(* time, but for a limit of 0 rooms, on which the documents disagree; and  *)
(* where it does not start, the file is of another kind or something that  *)
(* was said cannot be used.                                                *)
(***************************************************************************)
THEOREM WhatWasSaidIsDone == ConfigSpec => []DoesWhatWasSaid
<1>1. CInv => DoesWhatWasSaid
  BY DEF CInv, DoesWhatWasSaid
<1> QED
  BY <1>1, StartInvariance, PTL

-----------------------------------------------------------------------------
(* One message *)

Decodable == { t \in Objects : ~ Undecoded(t) }

\* An object has a value of the right kind in each of its fields.
LEMMA FieldsOfObject ==
    ASSUME NEW t \in Objects
    PROVE  /\ t.kind = "object"
           /\ t.type \in Types
           /\ \A f \in StringFields : t[f] \in Strings
           /\ t["name"] \in Names /\ t["role"] \in Names
           /\ t["value"] \in Numbers
BY DEF Objects, StringFields, Names

\* UnmarshalJSON: a nil pointer is an absent field or a null, and the flag is
\* not set for the former.
LEMMA DecodedFields ==
    ASSUME NEW t \in Decodable
    PROVE  LET m == Decoded(t) IN
           /\ m.failed = FALSE
           /\ m.type = t.type /\ t.type # "wrong"
           /\ \A f \in Fields :
                /\ t[f] # "wrong"
                /\ m.at[f] = IF t[f] \in {"absent", "null"} THEN Nil ELSE t[f]
                /\ m.set[f] = (t[f] # "absent")
                /\ m.at[f] = Nil <=> t[f] \in {"absent", "null"}
<1>1. ~ Undecoded(t) /\ t \in Objects
  BY DEF Decodable
<1>2. \A f \in Fields : t[f] # "wrong" /\ t[f] # Nil
  BY <1>1, FieldsOfObject DEF Undecoded, Fields, Strings, Numbers, Nil
<1>3. Decoded(t) =
        [failed |-> FALSE, type |-> t.type,
         at  |-> [f \in Fields |-> Optional(t[f])],
         set |-> [f \in Fields |-> t[f] # "absent"]]
  BY <1>1 DEF Decoded
<1>4. t.type # "wrong"
  BY <1>1 DEF Undecoded
<1> QED
  BY <1>2, <1>3, <1>4 DEF Optional

\* The first three checks of validate: no field is null, and the message has a
\* type that may come now.
LEMMA Acceptable ==
    ASSUME NEW t \in Decodable, NEW first \in BOOLEAN
    PROVE  Valid(Decoded(t), first) <=>
             /\ \A f \in Fields : t[f] # "null"
             /\ t.type # ""
             /\ first <=> t.type = "join"
             /\ ~ BadBody(Decoded(t))
<1> DEFINE m == Decoded(t)
<1>1. /\ m.failed = FALSE
      /\ m.type = t.type
      /\ \A f \in Fields : m.set[f] = (t[f] # "absent")
      /\ \A f \in Fields : m.at[f] = Nil <=> t[f] \in {"absent", "null"}
  BY DecodedFields
<1> HIDE DEF m
<1>2. Inconsistent(m) <=> \E f \in Fields : t[f] = "null"
  BY <1>1 DEF Inconsistent
<1>3. Misplaced(m, first) <=> ~ (first <=> t.type = "join")
  BY <1>1 DEF Misplaced
<1> QED
  BY <1>1, <1>2, <1>3 DEF Valid, m

\* The checks of a join, once no field is null.
LEMMA JoinBody ==
    ASSUME NEW t \in Decodable, \A f \in Fields : t[f] # "null", t.type = "join"
    PROVE  ~ BadBody(Decoded(t)) <=>
             /\ t["name"] = "text"
             /\ t["client_id"] = "text"
             /\ t["role"] \in {"absent", "blank", "text"}
             /\ \A f \in {"reconnect_token", "owner_token"} : t[f] \in {"absent", "text"}
             /\ t["value"] = "absent"
<1> DEFINE m == Decoded(t)
<1>1. /\ m.type = t.type
      /\ \A f \in Fields :
           /\ t[f] # "wrong"
           /\ m.at[f] = IF t[f] = "absent" THEN Nil ELSE t[f]
           /\ m.set[f] = (t[f] # "absent")
           /\ m.at[f] = Nil <=> t[f] = "absent"
  BY DecodedFields
<1>2. /\ \A f \in StringFields : t[f] \in {"absent", "blank", "text", "long"}
      /\ t["name"] \in {"absent", "blank", "text"}
      /\ t["role"] \in {"absent", "blank", "text"}
      /\ t["value"] \in {"absent", "number"}
  BY <1>1, FieldsOfObject
     DEF Decodable, StringFields, Fields, Strings, Names, Numbers
<1> HIDE DEF m
<1>3. NameMissing(m) <=> t["name"] # "text"
  BY <1>1, <1>2 DEF NameMissing, TrimSpace, Fields, StringFields
<1>4. ClientIdMissing(m) <=> t["client_id"] \in {"absent", "blank"}
  BY <1>1, <1>2 DEF ClientIdMissing, TrimSpace, Fields, StringFields
<1>5. ~ Nulls(m, {"role", "client_id", "reconnect_token", "owner_token"})
  BY <1>1 DEF Nulls, Fields, StringFields
<1>6. ValueUnexpected(m) <=> t["value"] # "absent"
  BY <1>1 DEF ValueUnexpected, Fields
<1>7. ASSUME NEW f \in {"client_id", "reconnect_token", "owner_token"}
      PROVE  Unusable(m, f) <=> t[f] \in {"blank", "long"}
  BY <1>1, <1>2 DEF Unusable, TrimSpace, Fields, StringFields
<1>8. BadBody(m) <=> BadJoin(m)
  BY <1>1 DEF BadBody, Votes
<1> QED
  BY <1>2, <1>3, <1>4, <1>5, <1>6, <1>7, <1>8 DEF BadJoin, StringFields, m

\* The checks of the other messages.
LEMMA OtherBody ==
    ASSUME NEW t \in Decodable, \A f \in Fields : t[f] # "null", t.type # "join", t.type # ""
    PROVE  ~ BadBody(Decoded(t)) <=>
             \/ /\ t.type \in Votes
                /\ t["value"] = "number"
                /\ \A f \in StringFields : t[f] = "absent"
             \/ /\ t.type \in {"vote_skipped", "reset"}
                /\ \A f \in Fields : t[f] = "absent"
<1> DEFINE m == Decoded(t)
<1>1. /\ m.type = t.type /\ t.type # "wrong"
      /\ \A f \in Fields :
           /\ t[f] # "wrong"
           /\ m.set[f] = (t[f] # "absent")
           /\ m.at[f] = Nil <=> t[f] = "absent"
  BY DecodedFields
<1>2. t["value"] \in {"absent", "number"} /\ t.type \in Types
  BY <1>1, FieldsOfObject DEF Decodable, Fields, Numbers
<1> HIDE DEF m
<1>3. ValueMissing(m) <=> t["value"] # "number"
  BY <1>1, <1>2 DEF ValueMissing, Fields
<1>4. /\ Strays(m, StringFields) <=> \E f \in StringFields : t[f] # "absent"
      /\ Strays(m, Fields) <=> \E f \in Fields : t[f] # "absent"
  BY <1>1 DEF Strays, Fields
<1> QED
  BY <1>1, <1>2, <1>3, <1>4 DEF BadBody, Votes, Types, m

\* What the README says of the messages, type by type.
LEMMA WellFormedMessages ==
    ASSUME NEW t \in Objects, NEW first \in BOOLEAN
    PROVE  WellFormed(t, first) <=>
             \/ /\ first /\ t.type = "join"
                /\ t["name"] = "text"
                /\ t["client_id"] = "text"
                /\ t["role"] \in {"absent", "blank", "text"}
                /\ \A f \in {"reconnect_token", "owner_token"} : t[f] \in {"absent", "text"}
                /\ t["value"] = "absent"
             \/ /\ ~ first /\ t.type \in Votes
                /\ t["value"] = "number"
                /\ \A f \in StringFields : t[f] = "absent"
             \/ /\ ~ first /\ t.type \in {"vote_skipped", "reset"}
                /\ \A f \in Fields : t[f] = "absent"
<1>1. /\ t.kind = "object"
      /\ \A f \in StringFields : t[f] # "number"
      /\ t["value"] # "text"
  BY FieldsOfObject DEF Strings, Numbers
<1>2. CASE t.type = "join"
  <2>1. /\ Required(t.type) = {"name", "client_id"}
        /\ Allowed(t.type) = {"name", "client_id", "role", "reconnect_token", "owner_token"}
    BY <1>2 DEF Required, Allowed, Votes
  <2> QED
    BY <1>1, <1>2, <2>1 DEF WellFormed, Usable, Fields, StringFields, Votes
<1>3. CASE t.type \in Votes
  <2>1. t.type # "join" /\ Required(t.type) = {"value"} /\ Allowed(t.type) = {"value"}
    BY <1>3 DEF Required, Allowed, Votes
  <2> QED
    BY <1>1, <1>3, <2>1 DEF WellFormed, Usable, Fields, StringFields, Votes
<1>4. CASE t.type \notin Votes \cup {"join"}
  <2>1. Required(t.type) = {} /\ Allowed(t.type) = {}
    BY <1>4 DEF Required, Allowed
  <2> QED
    BY <1>1, <1>4, <2>1 DEF WellFormed, Fields, StringFields, Votes
<1> QED
  BY <1>2, <1>3, <1>4

LEMMA ValidMeansWellFormed ==
    ASSUME NEW t \in Texts, t.kind # "garbage", NEW first \in BOOLEAN
    PROVE  Valid(Decoded(t), first) <=> WellFormed(t, first)
<1>1. CASE t.kind = "foreign"
  <2>1. Decoded(t).failed = TRUE
    BY <1>1 DEF Decoded, Undecoded
  <2> QED
    BY <1>1, <2>1 DEF Valid, WellFormed
<1>2. CASE t.kind # "foreign"
  <2>1. t \in Objects
    BY <1>2 DEF Texts
  <2>2. CASE Undecoded(t)
    <3>1. ~ Valid(Decoded(t), first)
      BY <2>2 DEF Decoded, Valid
    <3>2. t.type = "wrong" \/ \E f \in Fields : t[f] = "wrong"
      BY <1>2, <2>2 DEF Undecoded
    <3>3. ~ WellFormed(t, first)
      BY <3>2 DEF WellFormed, Usable, Votes
    <3> QED
      BY <3>1, <3>3
  <2>3. CASE ~ Undecoded(t)
    <3> DEFINE Accepts == Valid(Decoded(t), first)
               Nullless == \A f \in Fields : t[f] # "null"
    <3>1. t \in Decodable
      BY <2>1, <2>3 DEF Decodable
    <3>2. Accepts <=> /\ Nullless
                      /\ t.type # ""
                      /\ first <=> t.type = "join"
                      /\ ~ BadBody(Decoded(t))
      BY <3>1, Acceptable
    <3> HIDE DEF Accepts
    <3>3. WellFormed(t, first) => Nullless /\ t.type # ""
      BY DEF WellFormed, Usable, Votes
    <3> HIDE DEF Nullless
    <3>4. CASE t.type = "join"
      <4> DEFINE Body == /\ t["name"] = "text"
                         /\ t["client_id"] = "text"
                         /\ t["role"] \in {"absent", "blank", "text"}
                         /\ \A f \in {"reconnect_token", "owner_token"} :
                               t[f] \in {"absent", "text"}
                         /\ t["value"] = "absent"
      <4>1. Nullless => (~ BadBody(Decoded(t)) <=> Body)
        BY <3>1, <3>4, JoinBody DEF Nullless
      <4>2. WellFormed(t, first) <=> first /\ Body
        BY <2>1, <3>4, WellFormedMessages DEF Votes
      <4> HIDE DEF Body
      <4> QED
        BY <3>2, <3>3, <3>4, <4>1, <4>2 DEF Accepts
    <3>5. CASE t.type # "join"
      <4> DEFINE Body == \/ /\ t.type \in Votes
                            /\ t["value"] = "number"
                            /\ \A f \in StringFields : t[f] = "absent"
                         \/ /\ t.type \in {"vote_skipped", "reset"}
                            /\ \A f \in Fields : t[f] = "absent"
      <4>1. Nullless /\ t.type # "" => (~ BadBody(Decoded(t)) <=> Body)
        BY <3>1, <3>5, OtherBody DEF Nullless
      <4>2. WellFormed(t, first) <=> ~ first /\ Body
        BY <2>1, <3>5, WellFormedMessages DEF Votes
      <4> HIDE DEF Body
      <4> QED
        BY <3>2, <3>3, <3>5, <4>1, <4>2 DEF Accepts
    <3> QED
      BY <3>4, <3>5
  <2> QED
    BY <2>2, <2>3
<1> QED
  BY <1>1, <1>2

-----------------------------------------------------------------------------
(* The messages of a connection *)

MInv ==
    /\ phase \in {"join", "serving", "closed"}
    /\ text # NoText => text \in Texts /\ text.kind # "garbage"
    /\ CallsSayWhatWasSent

\* A message that validate accepts was an object.
LEMMA AcceptedIsObject ==
    ASSUME NEW t \in Texts, t.kind # "garbage", NEW first \in BOOLEAN,
           Valid(Decoded(t), first)
    PROVE  t \in Decodable /\ WellFormed(t, first)
<1>1. WellFormed(t, first)
  BY ValidMeansWellFormed
<1>2. t \in Objects
  BY <1>1 DEF WellFormed, Texts
<1>3. ~ Undecoded(t)
  BY DEF Valid, Decoded
<1> QED
  BY <1>1, <1>2, <1>3 DEF Decodable

\* ws takes a join apart.
LEMMA JoinSaysWhatWasSent ==
    ASSUME MInv, Join
    PROVE  CallsSayWhatWasSent'
<1> DEFINE t == text
           m == Decoded(t)
<1>1. t \in Texts /\ t.kind # "garbage" /\ Valid(m, TRUE)
  BY DEF MInv, Join
<1>2. t \in Decodable /\ WellFormed(t, TRUE)
  BY <1>1, AcceptedIsObject
<1>3. /\ t["name"] = "text" /\ t["client_id"] = "text"
      /\ \A f \in {"reconnect_token", "owner_token"} : t[f] \in {"absent", "text"}
  <2>1. t \in Objects
    BY <1>2 DEF Decodable
  <2> QED
    BY <1>2, <2>1, WellFormedMessages
<1>4. \A f \in Fields : m.at[f] = IF t[f] \in {"absent", "null"} THEN Nil ELSE t[f]
  BY <1>2, DecodedFields
<1>5. call' = [op |-> "Join", of |-> t,
               name |-> TrimSpace(m.at["name"]), role |-> OrEmpty(m.at["role"]),
               client_id |-> OrEmpty(m.at["client_id"]),
               reconnect_token |-> OrEmpty(m.at["reconnect_token"]),
               owner_token |-> OrEmpty(m.at["owner_token"])]
  BY DEF Join
<1> HIDE DEF t, m
<1>6. call'.name = "text" /\ call'.client_id = "text"
  BY <1>3, <1>4, <1>5 DEF TrimSpace, OrEmpty, Nil, Fields, StringFields
<1>7. /\ call'.reconnect_token = "" <=> call'.of.reconnect_token = "absent"
      /\ call'.owner_token = "" <=> call'.of.owner_token = "absent"
  BY <1>3, <1>4, <1>5 DEF TrimSpace, OrEmpty, Nil, Fields, StringFields
<1> QED
  BY <1>5, <1>6, <1>7 DEF CallsSayWhatWasSent

\* And every other message.
LEMMA DispatchSaysWhatWasSent ==
    ASSUME MInv, NEW op \in {"Vote", "SkipVote", "Reset"}, NEW types,
           op = "Vote" => types = Votes,
           op # "Vote" => types \subseteq {"vote_skipped", "reset"},
           Dispatch(op, types)
    PROVE  CallsSayWhatWasSent'
<1> DEFINE t == text
           m == Decoded(t)
<1>1. t \in Texts /\ t.kind # "garbage" /\ Valid(m, FALSE) /\ m.type \in types
  BY DEF MInv, Dispatch
<1>2. t \in Decodable /\ WellFormed(t, FALSE)
  BY <1>1, AcceptedIsObject
<1>3. /\ m.type = t.type
      /\ \A f \in Fields : m.at[f] = IF t[f] \in {"absent", "null"} THEN Nil ELSE t[f]
  BY <1>2, DecodedFields
<1>4. call' = [op |-> op, of |-> t, value |-> m.at["value"], submit |-> m.type = "vote_submitted"]
  BY DEF Dispatch
<1> HIDE DEF m
<1>5. t \in Objects
  BY <1>2 DEF Decodable
<1> HIDE DEF t
<1>6. /\ t.type \in Votes => t["value"] = "number"
      /\ t.type \notin Votes => t["value"] = "absent"
  <2>1. \/ /\ t.type \in Votes
           /\ t["value"] = "number"
        \/ /\ t.type \in {"vote_skipped", "reset"}
           /\ \A f \in Fields : t[f] = "absent"
    BY <1>2, <1>5, WellFormedMessages
  <2> QED
    BY <2>1 DEF Fields, Votes
<1>7. CASE op = "Vote"
  <2>1. t.type \in Votes /\ m.at["value"] = "number"
    BY <1>1, <1>3, <1>6, <1>7 DEF Fields
  <2> QED
    BY <1>3, <1>4, <1>7, <2>1 DEF CallsSayWhatWasSent
<1>8. CASE op # "Vote"
  <2>1. m.at["value"] = Nil
    BY <1>1, <1>3, <1>6, <1>8 DEF Fields, Votes
  <2> QED
    BY <1>4, <1>8, <2>1 DEF CallsSayWhatWasSent
<1> QED
  BY <1>7, <1>8

LEMMA InitMInv == Init => MInv
BY DEF Init, MInv, CallsSayWhatWasSent, NoCall

LEMMA NextMInv == MInv /\ [Next]_vars => MInv'
<1> SUFFICES ASSUME MInv, [Next]_vars
             PROVE  MInv'
  OBVIOUS
<1>1. ASSUME UNCHANGED call
      PROVE  CallsSayWhatWasSent'
  BY <1>1 DEF MInv, CallsSayWhatWasSent
<1>2. ASSUME call' = NoCall
      PROVE  CallsSayWhatWasSent'
  BY <1>2 DEF CallsSayWhatWasSent, NoCall
<1>3. CASE Read
  BY <1>1, <1>3 DEF Read, MInv
<1>4. CASE ReadFails \/ RateExceeded \/ Refuse
  BY <1>1, <1>4 DEF ReadFails, RateExceeded, Refuse, MInv
<1>5. CASE Join
  <2>1. phase' = phase /\ text' = NoText
    BY <1>5 DEF Join
  <2> QED
    BY <1>5, <2>1, JoinSaysWhatWasSent DEF MInv
<1>6. CASE Vote \/ SkipVote \/ Reset
  <2>1. CallsSayWhatWasSent'
    BY <1>6, DispatchSaysWhatWasSent DEF Vote, SkipVote, Reset
  <2>2. phase' = phase /\ text' = NoText
    BY <1>6 DEF Vote, SkipVote, Reset, Dispatch
  <2> QED
    BY <2>1, <2>2 DEF MInv
<1>7. CASE JoinRefused \/ Return
  BY <1>2, <1>7 DEF JoinRefused, Return, MInv
<1>8. CASE UNCHANGED vars
  BY <1>1, <1>8 DEF vars, MInv
<1> QED
  BY <1>3, <1>4, <1>5, <1>6, <1>7, <1>8 DEF Next

LEMMA MessageInvariance == Spec => []MInv
BY InitMInv, NextMInv, PTL DEF Spec

(***************************************************************************)
(* validate accepts exactly the messages that the README describes: no     *)
(* field is let through because a null or white space looks like something *)
(* else, and nothing that a client may send is refused.                    *)
(***************************************************************************)
THEOREM ProtocolIsAccepted == Spec => []ValidIsWellFormed
<1>1. MInv => ValidIsWellFormed
  <2> SUFFICES ASSUME MInv, text # NoText
               PROVE  Valid(Decoded(text), phase = "join")
                        <=> WellFormed(text, phase = "join")
    BY DEF ValidIsWellFormed
  <2>1. text \in Texts /\ text.kind # "garbage"
    BY DEF MInv
  <2> QED
    BY <2>1, ValidMeansWellFormed
<1> QED
  BY <1>1, MessageInvariance, PTL

(***************************************************************************)
(* The registry and the room are called with what the client wrote: no nil *)
(* pointer is dereferenced, a vote has its number, and a token that was    *)
(* sent does not arrive as none.                                           *)
(***************************************************************************)
THEOREM NothingIsLostInDecoding == Spec => []CallsSayWhatWasSent
<1>1. MInv => CallsSayWhatWasSent
  BY DEF MInv
<1> QED
  BY <1>1, MessageInvariance, PTL

=============================================================================
