------------------------------- MODULE Config -------------------------------
(***************************************************************************)
(* The start of the program: config.Load reads the YAML file, lets the     *)
(* environment override it, and validates the result; main hands it to the *)
(* server, whose Handler fills in what is still missing                    *)
(* (backend/pkg/config/config.go, backend/cmd/server/main.go, server.go).  *)
(*                                                                         *)
(* A value is what the code tells apart: its sign, and for the texts of    *)
(* durations and origins whether they parse.  "default" is the value that  *)
(* the code puts in the place of a missing one.  The host is passed on as  *)
(* it is and left out.                                                     *)
(***************************************************************************)
Counts ==
    {"create_rate", "max_concurrent", "max_participants", "max_connections",
     "message_burst", "outbound_queue", "max_message_bytes"}
Rates     == {"message_rate"}
Caps      == {"max_roles", "max_story_points"}
Ports     == {"port"}
Durations == {"ping_interval", "read_header_timeout", "http_write_timeout", "pending_ttl",
              "join_timeout", "ws_write_timeout"}
Origins   == {"cors_origins"}
Numeric   == Counts \cup Rates \cup Caps \cup Ports
Settings  == Numeric \cup Durations \cup Origins

\* What YAML or a variable may say.  A number that is missing in the file is
\* zero, a text that is missing is empty; "bad" does not parse.
Said(s) ==
    CASE s \in Counts \cup Caps \cup Ports -> {"negative", "zero", "positive", "bad"}
      [] s \in Rates -> {"negative", "zero", "positive", "bad", "nan", "inf", "-inf"}
      [] s \in Durations -> {"empty", "negative", "zero", "positive", "bad"}
      [] s \in Origins -> {"empty", "positive", "bad"}

Unset == "unset"

\* What Load finds at the path. A document that is malformed is no YAML, has an
\* unknown field or a value of another type; an empty one says nothing of any
\* setting.
Forms == {"document", "unreadable", "malformed", "two documents"}

VARIABLES
    stage,  \* "file", "environment", "check", "main", "handler", "serving", "failed"
    form,   \* what kind of file there is
    file,   \* what config.yaml says
    env,    \* what the environment says, or Unset
    c       \* the Config, and from main on the fields of the Server

saidVars == <<form, file, env>>
configVars == <<stage, saidVars, c>>

Values == UNION { Said(s) : s \in Settings }

ConfigInit ==
    /\ stage = "file"
    /\ form \in Forms
    /\ file \in [ Settings -> Values ]
    /\ env \in [ Settings -> Values \cup {Unset} ]
    /\ \A s \in Settings : file[s] \in Said(s) /\ env[s] \in Said(s) \cup {Unset}
    /\ c = file

Fail == stage' = "failed" /\ UNCHANGED <<saidVars, c>>
Goes(to) == stage' = to /\ UNCHANGED saidVars

(***************************************************************************)
(* Load                                                                    *)
(***************************************************************************)
\* There must be one document of known fields, and it is decoded with their
\* types; a duration is still a text then.
Decode ==
    /\ stage = "file"
    /\ IF form # "document" \/ \E s \in Numeric : file[s] = "bad"
       THEN Fail
       ELSE Goes("environment") /\ c' = file

\* Mutant: the environment says what the file leaves open.
FileFirst(s) == IF env[s] = Unset \/ c[s] = "positive" THEN c[s] ELSE env[s]

Override(s) == IF env[s] = Unset THEN c[s] ELSE env[s]

ApplyEnvironment ==
    /\ stage = "environment"
    /\ IF \E s \in Numeric : env[s] = "bad"
       THEN Fail
       ELSE Goes("check") /\ c' = [ s \in Settings |-> Override(s) ]

NotPositive(v) == v \in {"negative", "zero", "-inf"}

\* The durations of an empty text are the defaults of the accessors.
Parsed(v) == IF v = "empty" THEN "default" ELSE v

\* The byte limit is left to its accessor.
Defaulted(s) ==
    IF s \in (Counts \ {"max_message_bytes"}) \cup Rates /\ NotPositive(c[s])
    THEN "default" ELSE c[s]

\* Mutant: the file is validated, and what the environment says is not.
RefusesFile(s) ==
    \/ s \in Durations /\ (file[s] = "bad" \/ NotPositive(file[s]))
    \/ s \in Rates /\ file[s] \in {"nan", "inf"}
    \/ s \in Caps /\ file[s] = "negative"
    \/ s \in Origins /\ file[s] = "bad"

\* NaN is not <= 0 and reaches the test for finite rates.
Refuses(s) ==
    \/ s \in Durations /\ (Parsed(c[s]) = "bad" \/ NotPositive(Parsed(c[s])))
    \/ s \in Rates /\ Defaulted(s) \in {"nan", "inf"}
    \/ s \in Caps /\ c[s] = "negative"
    \/ s \in Origins /\ c[s] = "bad"

Check ==
    /\ stage = "check"
    /\ IF \E s \in Settings : Refuses(s)
       THEN Fail
       ELSE Goes("main") /\ c' = [ s \in Settings |-> Defaulted(s) ]

(***************************************************************************)
(* main and Server.Handler                                                 *)
(***************************************************************************)
BuildServer ==
    /\ stage = "main"
    /\ Goes("handler")
    /\ c' = [ s \in Settings |->
                CASE s \in Durations -> Parsed(c[s])
                  [] s = "max_message_bytes" /\ NotPositive(c[s]) -> "default"
                  [] OTHER -> c[s] ]

\* NewRegistry does so for the rooms and participants.  The timeouts of HTTP,
\* the caps and the origins have no default here.
Handler ==
    /\ stage = "handler"
    /\ Goes("serving")
    /\ c' = [ s \in Settings |->
                IF /\ s \in Counts \cup Rates
                            \cup (Durations \ {"read_header_timeout", "http_write_timeout"})
                   /\ NotPositive(c[s])
                THEN "default" ELSE c[s] ]

ConfigNext == Decode \/ ApplyEnvironment \/ Check \/ BuildServer \/ Handler

ConfigSpec == ConfigInit /\ [][ConfigNext]_configVars

(***************************************************************************)
(* Properties                                                              *)
(***************************************************************************)
\* A server that serves has no limit that stops it: no slot, queue, bucket or
\* room of size zero in which everybody waits, no ticker of a period that
\* panics, no rate that is not a number (README.md:81).
ServesWithSafeLimits ==
    stage = "serving" =>
        /\ \A s \in Counts \cup Rates \cup Durations : c[s] \in {"positive", "default"}
        /\ \A s \in Caps : c[s] \in {"zero", "positive"}
        /\ \A s \in Origins : c[s] # "bad"

\* What the operator wants, whether it can be had, and what it stands for.
Wish(s) == IF env[s] # Unset THEN env[s] ELSE file[s]
Sensible(s, v) ==
    CASE s \in Counts \cup Ports -> v # "bad"
      [] s \in Rates -> v \notin {"bad", "nan", "inf"}
      [] s \in Caps -> v \in {"zero", "positive"}
      [] s \in Durations -> v \in {"empty", "positive"}
      [] s \in Origins -> v # "bad"
Meant(s, v) ==
    CASE v = "positive" -> v
      [] s \in Caps \cup Ports \cup Origins -> v
      [] OTHER -> "default"

\* docker/README.md:33 says that 0 disables the limit, README.md:81 that it
\* keeps its default (ZeroIsNoLimit in Registry shows which it is).
Disputed(s) == s = "max_concurrent" /\ env[s] = "zero"

\* What the operator said is what the program does: the environment before
\* the file (docker/README.md:49), and only a number that is missing or not
\* positive becomes a default (README.md:81). It starts from one document of
\* known fields alone (config_test.go:44), and where it does not start, that is
\* missing or something that was said cannot be used. What a limit of 0 rooms
\* means is left open.
DoesWhatWasSaid ==
    /\ stage = "serving" =>
         /\ form = "document"
         /\ \A s \in Settings :
               /\ Sensible(s, Wish(s))
               /\ Disputed(s) \/ c[s] = Meant(s, Wish(s))
    /\ stage = "failed" =>
         \/ form # "document"
         \/ \E s \in Settings : ~Sensible(s, Wish(s)) \/ (s \in Numeric /\ file[s] = "bad")

=============================================================================
