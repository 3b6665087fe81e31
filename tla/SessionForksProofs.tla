-------------------------- MODULE SessionForksProofs --------------------------
(***************************************************************************)
(* Machine-checked proofs about SessionForks, for any number of             *)
(* conversations, copy requests and bodies.                                 *)
(***************************************************************************)
EXTENDS SessionForks, TLAPS

\* Only what was requested is sent to a runtime, and has a source. Histories
\* only grow.
RequestsKnown ==
  /\ \A f \in Fork : state[f] # "none" => /\ source[f] \in Topic
                                          /\ srcRev[f] <= rev[source[f]]
  /\ \A f \in frames : state[f] # "none"
  /\ \A f \in Fork : state[f] = "none" => cloned[f] = 0

\* A runtime clones no earlier than the server copied and reports only clones it
\* has made: if the source is as it was copied, both have the same history.
ClonesAreLater ==
  \A f \in Fork :
    /\ ack[f] # "none" => cloned[f] # 0
    /\ cloned[f] # 0 => srcRev[f] < cloned[f] /\ cloned[f] <= rev[source[f]] + 1

ForksInv ==
  /\ TypeOK /\ FenceMatches /\ AnswersAgree /\ UnreadyCopiesStayAsMade
  /\ RequestsKnown /\ ClonesAreLater /\ ReadyCopiesAgree

LEMMA InitForksInv == Init => ForksInv
BY ForksAssumption
DEF Init, ForksAssumption, ForksInv, TypeOK, FenceMatches, AnswersAgree,
    UnreadyCopiesStayAsMade, RequestsKnown, ClonesAreLater, ReadyCopiesAgree,
    Topic, Final

USE DEF Final, Closed, Topic, rowVars, topicVars, agentVars, runtimeVars

----------------------------------------------------------------------------
(* The conversations.                                                      *)

\* What is written into a conversation neither reaches an undecided copy nor
\* takes history away from a source.
LEMMA WriteKeepsInv ==
  ASSUME ForksInv, NEW t \in Topic, WriteMessage(t)
  PROVE  ForksInv'
<1> USE ForksAssumption DEF ForksAssumption, ForksInv, WriteMessage, Refuses
<1>1. TypeOK'
  BY DEF TypeOK
<1>2. FenceMatches' /\ AnswersAgree'
  BY DEF FenceMatches, AnswersAgree
<1>3. UnreadyCopiesStayAsMade'
  BY DEF FenceMatches, UnreadyCopiesStayAsMade, TypeOK
<1>4. \A u \in Topic : rev[u] \in Nat /\ rev'[u] \in Nat /\ rev[u] <= rev'[u]
  BY DEF TypeOK
<1>5. RequestsKnown'
  BY <1>4 DEF RequestsKnown, TypeOK
<1>6. ClonesAreLater'
  BY <1>4 DEF ClonesAreLater, RequestsKnown, TypeOK
<1>7. ReadyCopiesAgree'
  BY DEF ReadyCopiesAgree
<1> QED
  BY <1>1, <1>2, <1>3, <1>5, <1>6, <1>7

\* Deletions, members and bodies touch neither the rows nor any history.
LEMMA SurroundingsKeepInv ==
  ASSUME ForksInv,
         \/ \E t \in Topic : Disband(t) \/ ShareChanges(t)
         \/ \E b \in Body : Rebind(b)
  PROVE  ForksInv'
<1> USE ForksAssumption DEF ForksAssumption, ForksInv, Turn
<1>1. /\ fence' \in [Topic -> {"none", "plain", "pending", "gone"} \cup Final]
      /\ \A t \in Topic : fence'[t] \in {fence[t], "gone"}
      /\ bound' \in Body /\ shared' \subseteq Topic /\ turns' \in 0 .. MaxTurns
      /\ UNCHANGED <<rowVars, aged, rev, runtimeVars, told>>
  BY DEF TypeOK, Disband, ShareChanges, Rebind
<1>2. TypeOK'
  BY <1>1 DEF TypeOK
<1>3. FenceMatches' /\ AnswersAgree' /\ UnreadyCopiesStayAsMade'
  BY <1>1 DEF FenceMatches, AnswersAgree, UnreadyCopiesStayAsMade
<1>4. RequestsKnown' /\ ClonesAreLater' /\ ReadyCopiesAgree'
  BY <1>1 DEF RequestsKnown, ClonesAreLater, ReadyCopiesAgree
<1> QED
  BY <1>2, <1>3, <1>4

----------------------------------------------------------------------------
(* The life of a copy.                                                     *)

LEMMA CreateKeepsInv ==
  ASSUME ForksInv, NEW f \in Fork, NEW t \in Topic, Create(f, t)
  PROVE  ForksInv'
<1> USE ForksAssumption DEF ForksAssumption, ForksInv, Create, Dispatch
<1>1. TypeOK'
  BY DEF TypeOK
<1>2. t # f
  BY DEF FenceMatches
<1>3. rev[t] \in Nat
  BY DEF TypeOK
<1>4. FenceMatches' /\ AnswersAgree' /\ UnreadyCopiesStayAsMade'
  BY DEF FenceMatches, AnswersAgree, UnreadyCopiesStayAsMade, TypeOK
<1>5. RequestsKnown'
  BY <1>3 DEF RequestsKnown, TypeOK
<1>6. ClonesAreLater'
  BY DEF ClonesAreLater, RequestsKnown, TypeOK
<1>7. ReadyCopiesAgree'
  BY DEF ReadyCopiesAgree, TypeOK
<1> QED
  BY <1>1, <1>4, <1>5, <1>6, <1>7

\* A decided copy is answered as it was decided.
LEMMA RetryKeepsInv ==
  ASSUME ForksInv, NEW f \in Fork, Retry(f)
  PROVE  ForksInv'
<1> USE ForksAssumption DEF ForksAssumption, ForksInv, Retry, Dispatch
<1>1. TypeOK'
  BY DEF TypeOK
<1>2. FenceMatches' /\ UnreadyCopiesStayAsMade' /\ ClonesAreLater' /\ ReadyCopiesAgree'
  BY DEF FenceMatches, UnreadyCopiesStayAsMade, ClonesAreLater, ReadyCopiesAgree
<1>3. AnswersAgree'
  BY DEF AnswersAgree, TypeOK
<1>4. RequestsKnown'
  BY DEF RequestsKnown
<1> QED
  BY <1>1, <1>2, <1>3, <1>4

LEMMA RuntimeKeepsInv ==
  ASSUME ForksInv, NEW f \in Fork, Clone(f) \/ Ignore(f)
  PROVE  ForksInv'
<1> USE ForksAssumption DEF ForksAssumption, ForksInv
<1>1. state[f] # "none" /\ source[f] \in Topic /\ rev[source[f]] \in 0 .. MaxRev
  BY DEF Clone, Ignore, RequestsKnown, TypeOK
<1>2. TypeOK'
  BY <1>1 DEF Clone, Ignore, TypeOK
<1>3. FenceMatches' /\ AnswersAgree' /\ UnreadyCopiesStayAsMade'
  BY DEF Clone, Ignore, FenceMatches, AnswersAgree, UnreadyCopiesStayAsMade
<1>4. RequestsKnown'
  BY <1>1 DEF Clone, Ignore, RequestsKnown, TypeOK
<1>5. ClonesAreLater'
  BY <1>1 DEF Clone, Ignore, ClonesAreLater, RequestsKnown, TypeOK
<1>6. ReadyCopiesAgree'
  <2>1. \A g \in Fork : state[g] = "ready" => cloned'[g] = cloned[g]
    BY DEF Clone, Ignore, ReadyCopiesAgree, TypeOK
  <2> QED
    BY <2>1 DEF Clone, Ignore, ReadyCopiesAgree
<1> QED
  BY <1>2, <1>3, <1>4, <1>5, <1>6

\* Whoever decides a copy decides one nobody has decided, and its fence with it.
LEMMA DecideKeepsRows ==
  ASSUME ForksInv, NEW f \in Fork, NEW s \in Final, Undecided(f), Decide(f, s),
         told' = told \/ Answer(f, s),
         UNCHANGED <<source, srcRev, bodyOf, aged, rev, agentVars, frames, cloned>>
  PROVE  /\ state' \in [Fork -> {"none", "pending"} \cup Final]
         /\ fence' \in [Topic -> {"none", "plain", "pending", "gone"} \cup Final]
         /\ told' \in [Fork -> SUBSET Final]
         /\ FenceMatches' /\ AnswersAgree' /\ UnreadyCopiesStayAsMade' /\ RequestsKnown'
<1> USE ForksAssumption DEF ForksAssumption, ForksInv, Undecided, Decide, Answer
<1>1. /\ state' \in [Fork -> {"none", "pending"} \cup Final]
      /\ fence' \in [Topic -> {"none", "plain", "pending", "gone"} \cup Final]
      /\ told' \in [Fork -> SUBSET Final]
  BY DEF TypeOK
<1>2. FenceMatches'
  BY DEF FenceMatches, TypeOK
<1>3. AnswersAgree'
  <2>1. told[f] = {}
    BY DEF AnswersAgree, TypeOK
  <2> QED
    BY <2>1 DEF AnswersAgree, TypeOK
<1>4. UnreadyCopiesStayAsMade' /\ RequestsKnown'
  BY DEF UnreadyCopiesStayAsMade, RequestsKnown, TypeOK
<1> QED
  BY <1>1, <1>2, <1>3, <1>4

\* Cancellation and expiry only fail copies that were pending.
LEMMA FailingKeepsInv ==
  ASSUME ForksInv, NEW f \in Fork, Cancel(f) \/ Expire(f)
  PROVE  ForksInv'
<1> USE ForksAssumption DEF ForksInv
<1>1. CASE Undecided(f)
  <2>1. /\ Decide(f, "failed") /\ (told' = told \/ Answer(f, "failed"))
        /\ UNCHANGED <<source, srcRev, bodyOf, aged, rev, agentVars, runtimeVars>>
    BY <1>1 DEF Cancel, Expire
  <2>2. /\ state' \in [Fork -> {"none", "pending"} \cup Final]
        /\ fence' \in [Topic -> {"none", "plain", "pending", "gone"} \cup Final]
        /\ told' \in [Fork -> SUBSET Final]
        /\ FenceMatches' /\ AnswersAgree' /\ UnreadyCopiesStayAsMade' /\ RequestsKnown'
    BY <1>1, <2>1, DecideKeepsRows
  <2>3. TypeOK'
    BY <2>1, <2>2 DEF TypeOK
  <2>4. ClonesAreLater'
    BY <2>1 DEF ClonesAreLater
  <2>5. ReadyCopiesAgree'
    BY <2>1 DEF ReadyCopiesAgree, Decide, TypeOK
  <2> QED
    BY <2>2, <2>3, <2>4, <2>5
<1>2. CASE ~Undecided(f)
  <2>1. /\ state[f] \in Final /\ Answer(f, state[f])
        /\ UNCHANGED <<rowVars, aged, topicVars, agentVars, runtimeVars>>
    BY <1>2 DEF Cancel, Expire, Undecided, TypeOK
  <2>2. TypeOK' /\ AnswersAgree'
    BY <2>1 DEF TypeOK, AnswersAgree, Answer
  <2>3. FenceMatches' /\ UnreadyCopiesStayAsMade' /\ RequestsKnown' /\ ClonesAreLater'
        /\ ReadyCopiesAgree'
    BY <2>1 DEF FenceMatches, UnreadyCopiesStayAsMade, RequestsKnown, ClonesAreLater,
                ReadyCopiesAgree
  <2> QED
    BY <2>2, <2>3
<1> QED
  BY <1>1, <1>2

\* An acknowledged copy whose source is as it was copied was cloned from just
\* that history; every other acknowledgement fails it.
LEMMA CompleteKeepsInv ==
  ASSUME ForksInv, NEW f \in Fork, Complete(f)
  PROVE  ForksInv'
<1> USE ForksAssumption DEF ForksInv
<1>1. /\ ack' \in [Fork -> {"none"} \cup Final]
      /\ \A g \in Fork : ack'[g] # "none" => ack[g] # "none"
      /\ UNCHANGED <<source, srcRev, bodyOf, aged, rev, agentVars, frames, cloned>>
  BY DEF Complete, TypeOK
<1>2. ClonesAreLater'
  BY <1>1 DEF ClonesAreLater
<1>3. state[f] # "none"
  BY DEF Complete, ClonesAreLater, RequestsKnown
<1>4. CASE Undecided(f)
  <2>1. PICK s \in Final : /\ s = "ready" => SourceKept(f)
                           /\ Decide(f, s) /\ Answer(f, s)
    BY <1>4 DEF Complete
  <2>2. /\ state' \in [Fork -> {"none", "pending"} \cup Final]
        /\ fence' \in [Topic -> {"none", "plain", "pending", "gone"} \cup Final]
        /\ told' \in [Fork -> SUBSET Final]
        /\ FenceMatches' /\ AnswersAgree' /\ UnreadyCopiesStayAsMade' /\ RequestsKnown'
    BY <1>1, <1>4, <2>1, DecideKeepsRows
  <2>3. TypeOK'
    BY <1>1, <2>2 DEF TypeOK
  <2>4. s = "ready" => cloned[f] = srcRev[f] + 1
    <3>1. cloned[f] # 0 /\ srcRev[f] < cloned[f] /\ cloned[f] <= rev[source[f]] + 1
      BY DEF Complete, ClonesAreLater
    <3>2. srcRev[f] \in Nat /\ cloned[f] \in Nat
      BY DEF TypeOK, ForksAssumption
    <3> QED
      BY <2>1, <3>1, <3>2 DEF SourceKept
  <2>5. ReadyCopiesAgree'
    BY <1>1, <2>1, <2>4 DEF ReadyCopiesAgree, Decide, TypeOK
  <2> QED
    BY <1>2, <2>2, <2>3, <2>5
<1>5. CASE ~Undecided(f)
  <2>1. /\ state[f] \in Final /\ Answer(f, state[f]) /\ UNCHANGED <<state, fence>>
    BY <1>3, <1>5 DEF Complete, Undecided, TypeOK
  <2>2. TypeOK' /\ AnswersAgree'
    BY <1>1, <2>1 DEF TypeOK, AnswersAgree, Answer
  <2>3. FenceMatches' /\ UnreadyCopiesStayAsMade' /\ RequestsKnown' /\ ReadyCopiesAgree'
    BY <1>1, <2>1 DEF FenceMatches, UnreadyCopiesStayAsMade, RequestsKnown, ReadyCopiesAgree
  <2> QED
    BY <1>2, <2>2, <2>3
<1> QED
  BY <1>4, <1>5

LEMMA AckTimeoutKeepsInv ==
  ASSUME ForksInv, NEW f \in Fork, AckTimeout(f)
  PROVE  ForksInv'
BY DEF AckTimeout, ForksInv, TypeOK, FenceMatches, AnswersAgree,
       UnreadyCopiesStayAsMade, RequestsKnown, ClonesAreLater, ReadyCopiesAgree

\* Nothing that was decided is decided again.
LEMMA DecidedStays ==
  ASSUME ForksInv, [Next]_vars
  PROVE  \A f \in Fork : state[f] \in Final => state'[f] = state[f]
<1> USE DEF ForksInv, TypeOK
<1>1. ASSUME NEW f \in Fork, NEW s \in Final, Undecided(f), Decide(f, s)
      PROVE  \A g \in Fork : state[g] \in Final => state'[g] = state[g]
  BY <1>1 DEF Undecided, Decide
<1>2. ASSUME NEW f \in Fork, Cancel(f) \/ Complete(f) \/ Expire(f)
      PROVE  \A g \in Fork : state[g] \in Final => state'[g] = state[g]
  BY <1>1, <1>2 DEF Cancel, Complete, Expire
<1>3. ASSUME NEW f \in Fork, NEW t \in Topic, Create(f, t)
      PROVE  \A g \in Fork : state[g] \in Final => state'[g] = state[g]
  BY <1>3 DEF Create
<1>4. ASSUME UNCHANGED state
      PROVE  \A g \in Fork : state[g] \in Final => state'[g] = state[g]
  BY <1>4
<1> QED
  BY <1>2, <1>3, <1>4
  DEF Next, TopicStep, ForkStep, WriteMessage, Disband, ShareChanges, Rebind, Retry, Clone,
      Ignore, AckTimeout, vars

\* Whoever is answered is answered how the copy was decided, at the latest by the
\* same step.
LEMMA AnswersDecision ==
  ASSUME ForksInv, [Next]_vars
  PROVE  \A f \in Fork : \/ told'[f] = told[f]
                         \/ state'[f] \in Final /\ told'[f] = told[f] \cup {state'[f]}
<1> USE DEF ForksInv, TypeOK
<1> DEFINE Answered(g) == \/ told'[g] = told[g]
                          \/ state'[g] \in Final /\ told'[g] = told[g] \cup {state'[g]}
<1>1. ASSUME NEW f \in Fork, NEW s \in Final, Answer(f, s), state'[f] = s
      PROVE  \A g \in Fork : Answered(g)
  BY <1>1 DEF Answer
<1>2. ASSUME NEW f \in Fork, Cancel(f) PROVE \A g \in Fork : Answered(g)
  <2>1. PICK s \in Final : Answer(f, s) /\ state'[f] = s
    BY <1>2 DEF Cancel, Undecided, Decide
  <2> QED BY <1>1, <2>1
<1>3. ASSUME NEW f \in Fork, Complete(f) PROVE \A g \in Fork : Answered(g)
  <2>1. state[f] # "none"
    BY <1>3 DEF Complete, ClonesAreLater, RequestsKnown
  <2>2. PICK s \in Final : Answer(f, s) /\ state'[f] = s
    BY <1>3, <2>1 DEF Complete, Undecided, Decide
  <2> QED BY <1>1, <2>2
<1>4. ASSUME NEW f \in Fork, Retry(f) PROVE \A g \in Fork : Answered(g)
  <2>1. UNCHANGED told \/ (state[f] \in Final /\ Answer(f, state[f]) /\ UNCHANGED state)
    BY <1>4 DEF Retry, Answer
  <2> QED BY <1>1, <2>1
<1>5. ASSUME UNCHANGED told PROVE \A g \in Fork : Answered(g)
  BY <1>5
<1> QED
  BY <1>2, <1>3, <1>4, <1>5
  DEF Next, TopicStep, ForkStep, WriteMessage, Disband, ShareChanges, Rebind, Create, Clone,
      Ignore, AckTimeout, Expire, vars

LEMMA NextForksInv ==
  ASSUME ForksInv, [Next]_vars
  PROVE  ForksInv'
<1>1. CASE \E t \in Topic : TopicStep(t)
  BY <1>1, WriteKeepsInv, SurroundingsKeepInv DEF TopicStep
<1>2. CASE \E b \in Body : Rebind(b)
  BY <1>2, SurroundingsKeepInv
<1>3. ASSUME NEW f \in Fork, ForkStep(f) PROVE ForksInv'
  BY <1>3, CreateKeepsInv, RetryKeepsInv, RuntimeKeepsInv, FailingKeepsInv,
     CompleteKeepsInv, AckTimeoutKeepsInv DEF ForkStep
<1>4. CASE UNCHANGED vars
  BY <1>4 DEF vars, ForksInv, TypeOK, FenceMatches, AnswersAgree,
     UnreadyCopiesStayAsMade, RequestsKnown, ClonesAreLater, ReadyCopiesAgree
<1> QED
  BY <1>1, <1>2, <1>3, <1>4 DEF Next

----------------------------------------------------------------------------
(* The theorems.                                                           *)

\* The inductive invariant holds in every reachable state.
THEOREM ForksInvariant == Spec => []ForksInv
<1>1. Init => ForksInv
  BY InitForksInv
<1>2. ForksInv /\ [Next]_vars => ForksInv'
  BY NextForksInv
<1> QED
  BY <1>1, <1>2, PTL DEF Spec

\* Every variable keeps its type.
THEOREM ForksTypeCorrect == Spec => []TypeOK
<1>1. ForksInv => TypeOK
  BY DEF ForksInv
<1> QED
  BY <1>1, ForksInvariant, PTL

\* The history of a ready copy is the one its runtime cloned, whatever is
\* written, deleted and repeated while the copy is made (CompleteSessionFork).
THEOREM ForksReadyCopiesAgree == Spec => []ReadyCopiesAgree
<1>1. ForksInv => ReadyCopiesAgree
  BY DEF ForksInv
<1> QED
  BY <1>1, ForksInvariant, PTL

\* The conversation's fence follows the request's row.
THEOREM ForksFenceMatches == Spec => []FenceMatches
<1>1. ForksInv => FenceMatches
  BY DEF ForksInv
<1> QED
  BY <1>1, ForksInvariant, PTL

\* Cancellation, acknowledgement and reaper decide a copy once, and everyone is
\* answered that decision.
THEOREM ForksAnswersAgree == Spec => []AnswersAgree
<1>1. ForksInv => AnswersAgree
  BY DEF ForksInv
<1> QED
  BY <1>1, ForksInvariant, PTL

\* A step decides a copy nobody has decided, or decides nothing, and whoever it
\* answers gets the decision.
LEMMA StepRefinesDecision ==
  ASSUME ForksInv, ForksInv', [Next]_vars
  PROVE  [Decision!DecisionNext]_(Decision!decisionVars)
<1> DEFINE outcome == [f \in Fork |-> IF state[f] \in Final THEN state[f] ELSE "open"]
<1>1. told \in [Fork -> SUBSET Final] /\ told' \in [Fork -> SUBSET Final]
  BY DEF ForksInv, TypeOK
<1>2. outcome' \in [Fork -> Final \cup {"open"}]
  OBVIOUS
<1>3. \A f \in Fork : state[f] \in Final => state'[f] = state[f]
  BY DecidedStays
<1>4. \A f \in Fork : told'[f] = told[f] \/ (state'[f] \in Final /\ told'[f] = told[f] \cup {state'[f]})
  BY AnswersDecision
<1>5. \A f \in Fork : Decision!Stays(f) \/ Decision!Decides(f)
  BY <1>3 DEF Decision!Stays, Decision!Decides
<1>6. \A f \in Fork : Decision!Silent(f) \/ Decision!Answers(f)
  BY <1>4 DEF Decision!Silent, Decision!Answers
<1> QED
  BY <1>1, <1>2, <1>5, <1>6 DEF Decision!DecisionNext

\* SessionForks implements SingleDecision: cancellation, acknowledgement, retry
\* and reaper, each in its own transaction, decide every copy once between them.
THEOREM ForksImplementDecision == Spec => ImplementsDecision
<1>1. Init => Decision!DecisionInit
  BY DEF Init, Decision!DecisionInit
<1>2. ForksInv /\ ForksInv' /\ [Next]_vars => [Decision!DecisionNext]_(Decision!decisionVars)
  BY StepRefinesDecision
<1> QED
  BY <1>1, <1>2, ForksInvariant, PTL DEF Spec, ImplementsDecision, Decision!DecisionSpec

\* Nothing is written into a copy that is not ready.
THEOREM ForksStayAsMade == Spec => []UnreadyCopiesStayAsMade
<1>1. ForksInv => UnreadyCopiesStayAsMade
  BY DEF ForksInv
<1> QED
  BY <1>1, ForksInvariant, PTL
=============================================================================
