---------------------------- MODULE OneTimeCodes ----------------------------
(***************************************************************************)
(* What one-time passwords promise.  A code is live from its issue until   *)
(* it is retired or accepted, and never again.  A request is accepted with *)
(* a code that was live at a time during the request, and ends that code.  *)
(***************************************************************************)
CONSTANTS
  Codes,    \* codes that may be issued
  Requests  \* verifications served at the same time

VARIABLES
  issued,   \* the codes issued so far
  live,     \* those that can be accepted
  waiting,  \* the verifications that are not decided
  open      \* [Requests -> the codes it may be accepted with]

codeVars == <<issued, live, waiting, open>>

Init ==
  /\ issued = {}
  /\ live = {}
  /\ waiting = {}
  /\ open = [r \in Requests |-> {}]

\* A request may lose codes at any time; only an issue may add one.
Narrowed(undecided) ==
  /\ open' \in [Requests -> SUBSET Codes]
  /\ \A r \in Requests : open'[r] \subseteq IF r \in undecided THEN open[r] ELSE {}

Issue(c) ==
  /\ c \notin issued
  /\ issued' = issued \cup {c}
  /\ live' = live \cup {c}
  /\ open' \in [Requests -> SUBSET Codes]
  /\ \A r \in Requests : open'[r] \subseteq IF r \in waiting THEN open[r] \cup {c} ELSE {}
  /\ UNCHANGED waiting

Retire(dead) ==
  /\ live' = live \ dead
  /\ Narrowed(waiting)
  /\ UNCHANGED <<issued, waiting>>

Begin(r) ==
  /\ r \notin waiting
  /\ waiting' = waiting \cup {r}
  /\ \E codes \in SUBSET live : open' = [open EXCEPT ![r] = codes]
  /\ UNCHANGED <<issued, live>>

Accept(r, c) ==
  /\ r \in waiting
  /\ c \in open[r]
  /\ live' = live \ {c}
  /\ waiting' = waiting \ {r}
  /\ Narrowed(waiting')
  /\ UNCHANGED issued

Refuse(r) ==
  /\ r \in waiting
  /\ waiting' = waiting \ {r}
  /\ Narrowed(waiting')
  /\ UNCHANGED <<issued, live>>

Next ==
  \/ \E c \in Codes : Issue(c)
  \/ \E dead \in SUBSET Codes : Retire(dead)
  \/ \E r \in Requests : Begin(r) \/ Refuse(r) \/ \E c \in Codes : Accept(r, c)

Spec == Init /\ [][Next]_codeVars
=============================================================================
