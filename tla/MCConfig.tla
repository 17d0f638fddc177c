------------------------------ MODULE MCConfig ------------------------------
(* Config for TLC: two settings, whichever they are, are said differently   *)
(* than config.yaml has them, in the file and in the environment; or the    *)
(* file is not what Load expects.                                           *)
EXTENDS Config

Saying(s, v, t, w, else) ==
    [ x \in Settings |-> CASE x = s -> v [] x = t -> w [] OTHER -> else ]

\* Two settings are said of in any way.
TwoSettings ==
    /\ form = "document"
    /\ \E s, t \in Settings :
         /\ \E v \in Said(s), w \in Said(t) : file = Saying(s, v, t, w, "positive")
         /\ \E v \in Said(s) \cup {Unset}, w \in Said(t) \cup {Unset} :
               env = Saying(s, v, t, w, Unset)

OtherFile ==
    /\ form \in Forms
    /\ file = [ s \in Settings |-> "positive" ]
    /\ env = [ s \in Settings |-> Unset ]

\* Some of the states of ConfigInit.
TwoAreSaid ==
    /\ stage = "file"
    /\ TwoSettings \/ OtherFile
    /\ c = file

TwoSpec == TwoAreSaid /\ [][ConfigNext]_configVars

=============================================================================
