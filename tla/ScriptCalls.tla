----------------------------- MODULE ScriptCalls -----------------------------
(***************************************************************************)
(* What the external decryptor promises those who call its hooks at once   *)
(* (scripts/README.md, the JSON protocol): every call ends once, with the   *)
(* script's answer to that very request or with an error, whatever becomes  *)
(* of the other calls and of the process behind them.  How often a process  *)
(* is started is not to be seen.                                            *)
(***************************************************************************)
CONSTANT Call           \* calls of a hook, one request each

VARIABLES asked,        \* the calls that have begun
          handled,      \* the calls whose request the script has worked on
          outcome       \* what each call has returned

scVars == <<asked, handled, outcome>>

Outcomes == {"none", "answered", "failed"}

TypeOK_SC ==
  /\ asked \subseteq Call
  /\ handled \subseteq asked
  /\ outcome \in [Call -> Outcomes]

InitSC ==
  /\ asked = {} /\ handled = {}
  /\ outcome = [c \in Call |-> "none"]

Ask(c) ==
  /\ c \notin asked
  /\ asked' = asked \union {c}
  /\ UNCHANGED <<handled, outcome>>

\* The script may work on a request whose caller has given up, and on one that
\* was sent again to a new process.
Handle(c) ==
  /\ c \in asked
  /\ handled' = handled \union {c}
  /\ UNCHANGED <<asked, outcome>>

Return(c, kind) ==
  /\ c \in asked /\ outcome[c] = "none"
  /\ kind = "answered" => c \in handled
  /\ outcome' = [outcome EXCEPT ![c] = kind]
  /\ UNCHANGED <<asked, handled>>

NextSC == \E c \in Call : \/ Ask(c) \/ Handle(c)
                          \/ \E kind \in Outcomes \ {"none"} : Return(c, kind)

SpecSC == InitSC /\ [][NextSC]_scVars
=============================================================================
