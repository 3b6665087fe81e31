----------------------------- MODULE OneShotCalls -----------------------------
(***************************************************************************)
(* What a remote call promises its caller, without ids, tables, routes,     *)
(* deadlines or connections that are replaced: a call that was made is      *)
(* answered once and then over; it ends without an answer only when its     *)
(* caller has left, or if it is one that outlives its way back.             *)
(***************************************************************************)
EXTENDS Naturals

CONSTANTS Call,      \* one call, until nothing remembers it
          Caller,
          By,        \* the caller of a call
          Unsafe     \* calls that may end without an answer

VARIABLES phase,     \* of a call: idle, open, over
          answers,   \* how many answers it got
          here       \* the callers that are there

callVars == <<phase, answers, here>>

CallInit ==
  /\ phase = [r \in Call |-> "idle"]
  /\ answers = [r \in Call |-> 0]
  /\ here = {}

\* Nobody comes back to the calls of an earlier life.
Enter(c) ==
  /\ \A r \in Call : By[r] = c => phase[r] = "idle"
  /\ here' = here \cup {c}
  /\ UNCHANGED <<phase, answers>>

Leave(c) ==
  /\ here' = here \ {c}
  /\ UNCHANGED <<phase, answers>>

Ask(r) ==
  /\ phase[r] = "idle" /\ By[r] \in here
  /\ phase' = [phase EXCEPT ![r] = "open"]
  /\ UNCHANGED <<answers, here>>

\* A call may be refused on the spot.
Answer(r) ==
  /\ phase[r] \in {"idle", "open"} /\ By[r] \in here /\ answers[r] = 0
  /\ phase' = [phase EXCEPT ![r] = "over"]
  /\ answers' = [answers EXCEPT ![r] = 1]
  /\ UNCHANGED here

Drop(S) ==
  /\ \A r \in S : phase[r] = "open" /\ (By[r] \notin here \/ r \in Unsafe)
  /\ phase' = [r \in Call |-> IF r \in S THEN "over" ELSE phase[r]]
  /\ UNCHANGED <<answers, here>>

Forget(r) ==
  /\ phase[r] = "over"
  /\ phase' = [phase EXCEPT ![r] = "idle"]
  /\ answers' = [answers EXCEPT ![r] = 0]
  /\ UNCHANGED here

CallNext ==
  \/ \E c \in Caller : Enter(c) \/ Leave(c)
  \/ \E r \in Call : Ask(r) \/ Answer(r) \/ Forget(r)
  \/ \E S \in SUBSET Call : Drop(S)

CallSpec == CallInit /\ [][CallNext]_callVars
=============================================================================
