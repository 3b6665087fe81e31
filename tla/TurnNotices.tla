----------------------------- MODULE TurnNotices -----------------------------
(***************************************************************************)
(* What the notifications of agent turns promise their recipient, without   *)
(* statuses, timers, tables or candidates: a run is told of after its end,  *)
(* by one call at a time, not again while that is remembered, and with      *)
(* words that were said for this run only, whatever becomes of the others.  *)
(***************************************************************************)
CONSTANTS Run, NoRun,
          Word,      \* what the agent says; every word once
          Generic,   \* words that nobody has said
          Call       \* who makes the calls

VARIABLES ended,     \* the runs that have ended
          said,      \* the words that were said
          waiting,   \* words that are not for any run yet
          kept,      \* of a run: the words that may be told with it
          call,      \* the run a call under way is about, and its words
          told       \* the runs whose notice is remembered

wordVars == <<said, waiting, kept>>
callVars == <<call, told>>
noticeVars == <<ended, wordVars, callVars>>

NoCall == [run |-> NoRun, text |-> {}]

NoticeInit ==
  /\ ended = {} /\ said = {} /\ waiting = {} /\ told = {}
  /\ kept = [r \in Run |-> {}]
  /\ call = [c \in Call |-> NoCall]

RunEnds ==
  /\ \E r \in Run : ended' = ended \cup {r}
  /\ UNCHANGED <<wordVars, callVars>>

\* Words come, wait, find their run or are dropped: a word is in one place, and
\* what is with a run came there from outside or from those that waited.
WordsMove ==
  LET new == said' \ said IN
  /\ said \subseteq said' /\ said' \subseteq Word
  /\ waiting' \subseteq waiting \cup new
  /\ kept' \in [Run -> SUBSET Word]
  /\ \A r \in Run : /\ kept'[r] \subseteq kept[r] \cup waiting \cup new
                    /\ kept'[r] \cap waiting' = {}
                    /\ \A q \in Run \ {r} : kept'[r] \cap kept'[q] = {}

Gather == WordsMove /\ UNCHANGED <<ended, callVars>>

Begin(c, r, text) ==
  /\ r \in ended \ told
  /\ text # {} /\ text \cap Word \subseteq kept[r]
  /\ call[c] = NoCall
  /\ \A d \in Call : call[d].run # r
  /\ call' = [call EXCEPT ![c] = [run |-> r, text |-> text]]
  /\ UNCHANGED <<ended, wordVars, told>>

\* A call that fails may be made again.
Finish(c) ==
  /\ call[c] # NoCall
  /\ told' \in {told, told \cup {call[c].run}}
  /\ call' = [call EXCEPT ![c] = NoCall]
  /\ UNCHANGED <<ended, wordVars>>

Forget(r) ==
  /\ r \in told
  /\ told' = told \ {r}
  /\ UNCHANGED <<ended, wordVars, call>>

\* Everything is forgotten, but not what was said and what has ended.
ForgetAll ==
  /\ call' = [c \in Call |-> NoCall]
  /\ told' = {}
  /\ WordsMove
  /\ UNCHANGED ended

NoticeNext ==
  \/ RunEnds \/ Gather \/ ForgetAll
  \/ \E r \in Run : Forget(r)
  \/ \E c \in Call : \/ Finish(c)
                     \/ \E r \in Run, text \in SUBSET (Word \cup {Generic}) : Begin(c, r, text)

NoticeSpec == NoticeInit /\ [][NoticeNext]_noticeVars
=============================================================================
