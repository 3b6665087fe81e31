---------------------------- MODULE PushTurnsProofs ----------------------------
(***************************************************************************)
(* Machine-checked proofs about PushTurns, for any number of runs, messages *)
(* and delivering goroutines.                                               *)
(***************************************************************************)
EXTENDS PushTurns, TLAPS

\* A goroutine that delivers works for a run; during its call the run's push is
\* recorded as being under way. An idle one holds nothing.
CouriersRecorded ==
  \A c \in Courier :
    /\ courier[c].does = "idle" => courier[c] = Idle
    /\ courier[c].does # "idle" => courier[c].run \in Run
    /\ courier[c].does = "sending" => courier[c].run \in inFlight

\* A turn ends by the committed end of its run.
TerminalsEnded == \A r \in terminal : Ended(r)

\* No word is anywhere before it is observed.
WordsArrived ==
  /\ pending \subseteq arrived
  /\ \A m \in Msg : \A r \in Run : Holds(r, m) => m \in arrived

PushInv ==
  /\ TypeOK /\ CouriersRecorded /\ OnePushPerRun
  /\ TerminalsEnded /\ NoEarlyPush
  /\ WordsArrived /\ WordsHaveOneRun

LEMMA InitPushInv == Init => PushInv
BY PushAssumption
DEF Init, PushAssumption, PushInv, TypeOK, CouriersRecorded, OnePushPerRun,
    TerminalsEnded, NoEarlyPush, WordsArrived, WordsHaveOneRun, Holds, Ended, Idle,
    Status, Time, Text

USE DEF turnVars, scopeVars, deliveryVars, Idle

\* Where words only disappear from, or stay, they keep having one run.
LEMMA FewerWords ==
  ASSUME WordsArrived, WordsHaveOneRun,
         arrived \subseteq arrived', pending' \subseteq pending,
         \A r \in Run : \A m \in Msg : Holds(r, m)' => Holds(r, m)
  PROVE  WordsArrived' /\ WordsHaveOneRun'
BY DEF WordsArrived, WordsHaveOneRun

\* What is not between two steps of the goroutines does not concern them.
LEMMA SameCouriers ==
  ASSUME CouriersRecorded, OnePushPerRun, NoEarlyPush,
         UNCHANGED deliveryVars, sent \subseteq sent'
  PROVE  CouriersRecorded' /\ OnePushPerRun' /\ NoEarlyPush'
BY DEF CouriersRecorded, OnePushPerRun, NoEarlyPush, Ended

----------------------------------------------------------------------------
(* Statuses.                                                               *)

LEMMA CommitKeepsInv ==
  ASSUME PushInv, NEW r \in Run, NEW ends \in BOOLEAN, NEW t \in Time, Commit(r, ends, t)
  PROVE  PushInv'
<1> USE DEF PushInv, Commit
<1>1. TypeOK'
  BY DEF TypeOK, Status
<1>2. CouriersRecorded' /\ OnePushPerRun' /\ NoEarlyPush'
  BY SameCouriers
<1>3. TerminalsEnded'
  BY DEF TerminalsEnded, Ended
<1>4. WordsArrived' /\ WordsHaveOneRun'
  BY DEF WordsArrived, WordsHaveOneRun, Holds
<1> QED
  BY <1>1, <1>2, <1>3, <1>4

\* The words that waited are with no run, so that they may join any.
LEMMA AttachedKeepsWords ==
  ASSUME PushInv, NEW r \in Run, Attached(r), UNCHANGED <<arrived, courier>>
  PROVE  WordsArrived' /\ WordsHaveOneRun'
<1> USE DEF PushInv, Attached
<1>1. words' = IF pending = {} THEN words ELSE [words EXCEPT ![r] = pending]
  BY DEF TypeOK
<1>2. ASSUME NEW m \in Msg, NEW q \in Run, Holds(q, m)'
      PROVE  Holds(q, m) \/ (q = r /\ m \in pending)
  BY <1>1, <1>2 DEF Holds, TypeOK
<1>3. WordsArrived'
  BY <1>2 DEF WordsArrived
<1>4. WordsHaveOneRun'
  BY <1>2 DEF WordsHaveOneRun
<1> QED
  BY <1>3, <1>4

LEMMA ObserveKeepsInv ==
  ASSUME PushInv, NEW s \in sent, Observe(s)
  PROVE  PushInv'
<1> USE DEF PushInv, Observe
<1>0. s.run \in Run /\ s.time \in Time /\ Time \subseteq 0 .. MaxTime
  BY PushAssumption DEF TypeOK, Status, Time, PushAssumption
<1>1. CouriersRecorded' /\ OnePushPerRun' /\ NoEarlyPush'
  BY SameCouriers
<1>2. WordsArrived' /\ WordsHaveOneRun'
  <2>1. CASE Attached(s.run)
    BY <1>0, <2>1, AttachedKeepsWords
  <2>2. CASE UNCHANGED <<words, pending>>
    BY <2>2 DEF WordsArrived, WordsHaveOneRun, Holds
  <2> QED
    BY <2>1, <2>2 DEF Progress, End, Ignored
<1>3. words' \in [Run -> SUBSET Text] /\ pending' \subseteq Msg
  BY <1>0 DEF TypeOK, Progress, End, Ignored, Attached, Text
<1>4. CASE ~s.ends /\ Progress(s.run, s.time)
  <2>1. TypeOK'
    <3>1. /\ tracked' = tracked \cup {s.run} /\ superseded' \subseteq tracked'
          /\ current' \in tracked' \cup {NoRun} /\ currentAt' \in 0 .. MaxTime
          /\ UNCHANGED <<terminal, settling, owed, outcome>>
      BY <1>0, <1>4 DEF TypeOK, Progress, Tracks
    <3>2. updated' \in [Run -> 0 .. MaxTime]
      BY <1>0, <1>4 DEF TypeOK, Progress
    <3> QED
      BY <1>0, <1>3, <3>1, <3>2 DEF TypeOK
  <2>2. TerminalsEnded'
    BY <1>4 DEF TerminalsEnded, Ended, Progress
  <2> QED
    BY <1>1, <1>2, <2>1, <2>2
<1>5. CASE s.ends /\ End(s.run, s.time)
  <2>1. TypeOK'
    <3>1. /\ tracked' = tracked \cup {s.run} /\ terminal' = terminal \cup {s.run}
          /\ settling' = settling \cup {s.run} /\ UNCHANGED superseded
          /\ current' \in tracked' \cup {NoRun} /\ currentAt' \in 0 .. MaxTime
          /\ owed' \subseteq Run
      BY <1>0, <1>5 DEF TypeOK, End, Tracks, Rearm
    <3>2. /\ updated' \in [Run -> 0 .. MaxTime]
          /\ outcome' \in [Run -> {"none", "told", "failed"}]
      BY <1>0, <1>5 DEF TypeOK, End, Rearm
    <3> QED
      BY <1>0, <1>3, <3>1, <3>2 DEF TypeOK
  <2>2. TerminalsEnded'
    BY <1>5 DEF TerminalsEnded, Ended, End
  <2> QED
    BY <1>1, <1>2, <2>1, <2>2
<1>6. CASE Ignored(s)
  <2>1. TypeOK'
    BY <1>0, <1>6 DEF TypeOK, Ignored
  <2>2. TerminalsEnded'
    BY <1>6 DEF TerminalsEnded, Ended, Ignored
  <2> QED
    BY <1>1, <1>2, <2>1, <2>2
<1> QED
  BY <1>4, <1>5, <1>6

\* The general text is no word of the agent.
LEMMA AddFallbackKeepsInv ==
  ASSUME PushInv, NEW r \in Run, AddFallback(r)
  PROVE  PushInv'
<1> USE DEF PushInv, AddFallback
<1>1. CouriersRecorded' /\ OnePushPerRun' /\ NoEarlyPush'
  BY SameCouriers
<1>2. TypeOK'
  BY DEF TypeOK, Rearm, Text
<1>3. TerminalsEnded'
  BY DEF TerminalsEnded, Ended
<1>4. \A q \in Run : \A m \in Msg : Holds(q, m)' => Holds(q, m)
  BY PushAssumption DEF PushAssumption, Holds, TypeOK
<1>5. WordsArrived' /\ WordsHaveOneRun'
  BY <1>4, FewerWords
<1> QED
  BY <1>1, <1>2, <1>3, <1>5

----------------------------------------------------------------------------
(* Messages.                                                               *)

\* A new word is held by no run yet.
LEMMA SayKeepsInv ==
  ASSUME PushInv, NEW m \in Msg, NEW tag \in Run \cup {NoRun}, Say(m, tag)
  PROVE  PushInv'
<1> DEFINE r == RunOf(tag)
<1> USE DEF PushInv
<1>1. /\ m \notin arrived /\ arrived' = arrived \cup {m}
      /\ UNCHANGED <<sent, terminal, superseded, updated, current, currentAt, owed,
                     deliveryVars>>
  BY DEF Say
<1>2. r \in Run \cup {NoRun}
  BY DEF RunOf, TypeOK
<1>3. \/ r = NoRun /\ pending' = pending \cup {m}
         /\ UNCHANGED <<tracked, words, settling, outcome>>
      \/ r \in Run /\ Tracks(r) /\ pending' = pending
         /\ words' = [words EXCEPT ![r] = (@ \ {Summary}) \cup {m}]
         /\ \/ r \in terminal /\ Rearm(r)
            \/ UNCHANGED <<settling, outcome>>
      \/ UNCHANGED <<tracked, words, settling, pending, outcome>>
  BY <1>2 DEF Say, Rearms, Settles
<1> HIDE DEF r
<1>4. TypeOK'
  BY <1>1, <1>3 DEF TypeOK, Tracks, Rearm, Text
<1>5. CouriersRecorded' /\ OnePushPerRun' /\ NoEarlyPush'
  BY <1>1, SameCouriers
<1>6. TerminalsEnded'
  BY <1>1 DEF TerminalsEnded, Ended
<1>7. ASSUME NEW n \in Msg, NEW q \in Run, Holds(q, n)'
      PROVE  Holds(q, n) \/ (n = m /\ q = r /\ r \in Run /\ pending' = pending)
  BY <1>1, <1>3, <1>7 DEF Holds, TypeOK
<1>8. pending' \subseteq pending \cup {m}
  BY <1>3
<1>9. WordsArrived'
  BY <1>1, <1>7, <1>8 DEF WordsArrived
<1>10. WordsHaveOneRun'
  BY <1>1, <1>7, <1>8 DEF WordsHaveOneRun, WordsArrived
<1> QED
  BY <1>4, <1>5, <1>6, <1>9, <1>10

LEMMA WorkKeepsInv ==
  ASSUME PushInv, NEW tag \in Run \cup {NoRun}, Work(tag)
  PROVE  PushInv'
<1> USE DEF PushInv, Work
<1>1. CouriersRecorded' /\ OnePushPerRun' /\ NoEarlyPush'
  BY SameCouriers
<1>2. TypeOK'
  BY DEF TypeOK
<1>3. TerminalsEnded'
  BY DEF TerminalsEnded, Ended
<1>4. \A q \in Run : \A m \in Msg : Holds(q, m)' => Holds(q, m)
  BY DEF Holds, TypeOK
<1>5. WordsArrived' /\ WordsHaveOneRun'
  BY <1>4, FewerWords
<1> QED
  BY <1>1, <1>2, <1>3, <1>5

----------------------------------------------------------------------------
(* Delivery.                                                               *)

\* The goroutine takes a copy of the words of one run, under that run's name.
LEMMA SettleKeepsInv ==
  ASSUME PushInv, NEW c \in Courier, NEW r \in Run, Settle(c, r)
  PROVE  PushInv'
<1> USE DEF PushInv, Settle, Settles
<1>1. TypeOK'
  BY DEF TypeOK
<1>2. \A d \in Courier : courier'[d] \in {courier[d], [does |-> "taken", run |-> r, text |-> words[r]]}
  BY DEF TypeOK
<1>3. CouriersRecorded'
  BY <1>2 DEF CouriersRecorded
<1>4. OnePushPerRun'
  BY <1>2 DEF OnePushPerRun
<1>5. TerminalsEnded' /\ NoEarlyPush'
  BY <1>2 DEF TerminalsEnded, NoEarlyPush, Ended
<1>6. \A q \in Run : \A m \in Msg : Holds(q, m)' => Holds(q, m)
  BY <1>2 DEF Holds
<1>7. WordsArrived' /\ WordsHaveOneRun'
  BY <1>6, FewerWords
<1> QED
  BY <1>1, <1>3, <1>4, <1>5, <1>7

\* A step within deliverOnce: the goroutine goes on with the same words.
LEMMA GoesKeepsWords ==
  ASSUME PushInv, NEW c \in Courier, NEW label \in {"taken", "sending", "sent"},
         Goes(c, label), courier[c].does # "idle",
         UNCHANGED <<sent, arrived, turnVars, scopeVars, owed>>
  PROVE  /\ \A d \in Courier :
              /\ courier'[d].run = courier[d].run /\ courier'[d].text = courier[d].text
              /\ courier'[d].does = IF d = c THEN label ELSE courier[d].does
         /\ courier' \in [Courier -> [does : {"idle", "taken", "sending", "sent"},
                                      run : Run \cup {NoRun}, text : SUBSET Text]]
         /\ TerminalsEnded' /\ NoEarlyPush' /\ WordsArrived' /\ WordsHaveOneRun'
<1> USE DEF PushInv
<1>1. \A d \in Courier :
        /\ courier'[d].run = courier[d].run /\ courier'[d].text = courier[d].text
        /\ courier'[d].does = IF d = c THEN label ELSE courier[d].does
  BY DEF Goes, TypeOK
<1>2. courier' \in [Courier -> [does : {"idle", "taken", "sending", "sent"},
                                run : Run \cup {NoRun}, text : SUBSET Text]]
  BY DEF Goes, TypeOK
<1>3. TerminalsEnded' /\ NoEarlyPush'
  BY <1>1 DEF TerminalsEnded, NoEarlyPush, Ended
<1>4. \A q \in Run : \A m \in Msg : Holds(q, m)' => Holds(q, m)
  BY <1>1 DEF Holds
<1>5. WordsArrived' /\ WordsHaveOneRun'
  BY <1>4, FewerWords
<1> QED
  BY <1>1, <1>2, <1>3, <1>5

\* A push begins only while none of the run is under way or remembered.
LEMMA StartKeepsInv ==
  ASSUME PushInv, NEW c \in Courier, Start(c)
  PROVE  PushInv'
<1> USE DEF PushInv
<1>1. courier[c].does = "taken" /\ courier[c].run \in Run
  BY DEF Start, CouriersRecorded
<1>2. CASE MayStart(courier[c].run)
  <2>1. /\ Goes(c, "sending") /\ inFlight' = inFlight \cup {courier[c].run}
        /\ UNCHANGED <<sent, arrived, turnVars, scopeVars, owed, delivered, outcome>>
    BY <1>2 DEF Start
  <2>2. /\ \A d \in Courier :
             /\ courier'[d].run = courier[d].run /\ courier'[d].text = courier[d].text
             /\ courier'[d].does = IF d = c THEN "sending" ELSE courier[d].does
        /\ TerminalsEnded' /\ NoEarlyPush' /\ WordsArrived' /\ WordsHaveOneRun'
    BY <1>1, <2>1, GoesKeepsWords
  <2>3. TypeOK'
    BY <1>1, <2>1, GoesKeepsWords DEF TypeOK
  <2>4. CouriersRecorded'
    BY <1>1, <2>1, <2>2 DEF CouriersRecorded, Goes, TypeOK
  <2>5. OnePushPerRun'
    BY <1>2, <2>1, <2>2 DEF OnePushPerRun, CouriersRecorded, MayStart
  <2> QED
    BY <2>2, <2>3, <2>4, <2>5
<1>3. CASE ~MayStart(courier[c].run)
  <2>1. /\ Goes(c, "sent")
        /\ UNCHANGED <<sent, arrived, turnVars, scopeVars, owed, inFlight, delivered, outcome>>
    BY <1>3 DEF Start
  <2>2. /\ \A d \in Courier :
             /\ courier'[d].run = courier[d].run /\ courier'[d].text = courier[d].text
             /\ courier'[d].does = IF d = c THEN "sent" ELSE courier[d].does
        /\ TerminalsEnded' /\ NoEarlyPush' /\ WordsArrived' /\ WordsHaveOneRun'
    BY <1>1, <2>1, GoesKeepsWords
  <2>3. TypeOK'
    BY <1>1, <2>1, GoesKeepsWords DEF TypeOK
  <2>4. CouriersRecorded'
    BY <1>1, <2>1, <2>2 DEF CouriersRecorded, Goes, TypeOK
  <2>5. OnePushPerRun'
    BY <2>1, <2>2 DEF OnePushPerRun
  <2> QED
    BY <2>2, <2>3, <2>4, <2>5
<1> QED
  BY <1>2, <1>3

\* The call ends, or is not made. No other goroutine was in a call for the run.
LEMMA AnswerKeepsInv ==
  ASSUME PushInv, NEW c \in Courier, Refuse(c) \/ Send(c) \/ SendFails(c)
  PROVE  PushInv'
<1> USE DEF PushInv
<1>1. /\ courier[c].does \in {"taken", "sending"} /\ courier[c].run \in Run
      /\ Goes(c, "sent")
      /\ outcome' \in [Run -> {"none", "told", "failed"}]
      /\ UNCHANGED <<sent, arrived, turnVars, scopeVars, owed>>
  BY DEF Refuse, Send, SendFails, CouriersRecorded, Results, TypeOK
<1>2. \/ UNCHANGED <<inFlight, delivered>>
      \/ /\ courier[c].does = "sending"
         /\ inFlight' = inFlight \ {courier[c].run}
         /\ delivered' \in {delivered, delivered \cup {courier[c].run}}
  BY DEF Refuse, Send, SendFails
<1>3. /\ \A d \in Courier :
           /\ courier'[d].run = courier[d].run /\ courier'[d].text = courier[d].text
           /\ courier'[d].does = IF d = c THEN "sent" ELSE courier[d].does
      /\ TerminalsEnded' /\ NoEarlyPush' /\ WordsArrived' /\ WordsHaveOneRun'
  BY <1>1, GoesKeepsWords
<1>4. TypeOK'
  BY <1>1, <1>2, GoesKeepsWords DEF TypeOK
<1>5. CouriersRecorded'
  BY <1>1, <1>2, <1>3 DEF CouriersRecorded, OnePushPerRun, Goes, TypeOK
<1>6. OnePushPerRun'
  BY <1>2, <1>3 DEF OnePushPerRun
<1> QED
  BY <1>3, <1>4, <1>5, <1>6

LEMMA FinishKeepsInv ==
  ASSUME PushInv, NEW c \in Courier, Finish(c)
  PROVE  PushInv'
<1> USE DEF PushInv, Finish
<1>1. TypeOK'
  BY DEF TypeOK
<1>2. \A d \in Courier : courier'[d] = IF d = c THEN Idle ELSE courier[d]
  BY DEF TypeOK
<1>3. CouriersRecorded'
  BY <1>2 DEF CouriersRecorded
<1>4. OnePushPerRun'
  BY <1>2 DEF OnePushPerRun
<1>5. TerminalsEnded' /\ NoEarlyPush'
  BY <1>2 DEF TerminalsEnded, NoEarlyPush, Ended
<1>6. \A q \in Run : words'[q] \subseteq words[q]
  BY DEF TypeOK
<1>7. \A q \in Run : \A m \in Msg : Holds(q, m)' => Holds(q, m)
  BY <1>2, <1>6 DEF Holds
<1>8. WordsArrived' /\ WordsHaveOneRun'
  BY <1>7, FewerWords
<1> QED
  BY <1>1, <1>3, <1>4, <1>5, <1>8

----------------------------------------------------------------------------
(* Forgetting.                                                             *)

LEMMA ForgetKeepsInv ==
  ASSUME PushInv,
         (\E r \in Run : ForgetTurn(r) \/ ForgetDelivery(r)) \/ ForgetPending
  PROVE  PushInv'
<1> USE DEF PushInv
<1>1. TypeOK'
  BY PushAssumption
  DEF PushAssumption, TypeOK, ForgetTurn, ForgetDelivery, ForgetPending, Results
<1>2. /\ terminal' \subseteq terminal /\ delivered' \subseteq delivered
      /\ pending' \subseteq pending
      /\ UNCHANGED <<sent, arrived, inFlight, courier>>
  BY DEF ForgetTurn, ForgetDelivery, ForgetPending
<1>3. CouriersRecorded' /\ OnePushPerRun'
  BY <1>2 DEF CouriersRecorded, OnePushPerRun
<1>4. TerminalsEnded' /\ NoEarlyPush'
  BY <1>2 DEF TerminalsEnded, NoEarlyPush, Ended
<1>5. \A q \in Run : words'[q] \subseteq words[q]
  BY DEF ForgetTurn, ForgetDelivery, ForgetPending, TypeOK
<1>6. \A q \in Run : \A m \in Msg : Holds(q, m)' => Holds(q, m)
  BY <1>2, <1>5 DEF Holds
<1>7. WordsArrived' /\ WordsHaveOneRun'
  BY <1>2, <1>6, FewerWords
<1> QED
  BY <1>1, <1>3, <1>4, <1>7

LEMMA RestartKeepsInv ==
  ASSUME PushInv, Restart
  PROVE  PushInv'
<1> USE PushAssumption DEF PushAssumption, PushInv, Restart
<1>1. TypeOK'
  BY DEF TypeOK
<1>2. CouriersRecorded' /\ OnePushPerRun' /\ TerminalsEnded' /\ NoEarlyPush'
  BY DEF CouriersRecorded, OnePushPerRun, TerminalsEnded, NoEarlyPush
<1>3. WordsArrived' /\ WordsHaveOneRun'
  BY DEF WordsArrived, WordsHaveOneRun, Holds
<1> QED
  BY <1>1, <1>2, <1>3

\* The conjunction is inductive: every reachable state satisfies it, for any
\* number of runs, words and goroutines.
THEOREM PushInvariant == Spec => []PushInv
<1>1. Init => PushInv
  BY InitPushInv
<1>2. PushInv /\ [Next]_vars => PushInv'
  <2> SUFFICES ASSUME PushInv, [Next]_vars PROVE PushInv'
    OBVIOUS
  <2>1. CASE UNCHANGED vars
    BY <2>1
    DEF vars, PushInv, TypeOK, CouriersRecorded, OnePushPerRun, TerminalsEnded,
        NoEarlyPush, WordsArrived, WordsHaveOneRun, Holds, Ended
  <2>2. CASE \E r \in Run, ends \in BOOLEAN, t \in Time : Commit(r, ends, t)
    BY <2>2, CommitKeepsInv
  <2>3. CASE \E s \in sent : Observe(s)
    BY <2>3, ObserveKeepsInv
  <2>4. CASE \E m \in Msg, tag \in Run \cup {NoRun} : Say(m, tag)
    BY <2>4, SayKeepsInv
  <2>5. CASE \E tag \in Run \cup {NoRun} : Work(tag)
    BY <2>5, WorkKeepsInv
  <2>6. CASE \E r \in Run : AddFallback(r)
    BY <2>6, AddFallbackKeepsInv
  <2>7. CASE (\E r \in Run : ForgetTurn(r) \/ ForgetDelivery(r)) \/ ForgetPending
    BY <2>7, ForgetKeepsInv
  <2>8. CASE \E c \in Courier, r \in Run : Settle(c, r)
    BY <2>8, SettleKeepsInv
  <2>9. CASE \E c \in Courier : Start(c)
    BY <2>9, StartKeepsInv
  <2>10. CASE \E c \in Courier : Refuse(c) \/ Send(c) \/ SendFails(c)
    BY <2>10, AnswerKeepsInv
  <2>11. CASE \E c \in Courier : Finish(c)
    BY <2>11, FinishKeepsInv
  <2>12. CASE Restart
    BY <2>12, RestartKeepsInv
  <2> QED
    BY <2>1, <2>2, <2>3, <2>4, <2>5, <2>6, <2>7, <2>8, <2>9, <2>10, <2>11, <2>12
    DEF Next, Delivers
<1> QED
  BY <1>1, <1>2, PTL DEF Spec

----------------------------------------------------------------------------
(* What it gives.                                                          *)

\* Every table of the coordinator keeps its type: only a tracked turn is terminal,
\* superseded or current, and only an ended one has a settle timer.
THEOREM PushTypeCorrect == Spec => []TypeOK
<1>1. PushInv => TypeOK
  BY DEF PushInv
<1> QED
  BY <1>1, PushInvariant, PTL

\* No two goroutines push one run at a time, and none pushes it again while its
\* push is remembered.
THEOREM PushOnePerRun == Spec => []OnePushPerRun
<1>1. PushInv => OnePushPerRun
  BY DEF PushInv
<1> QED
  BY <1>1, PushInvariant, PTL

\* What is pushed under a run's name, the run has ended.
THEOREM PushNotEarly == Spec => []NoEarlyPush
<1>1. PushInv => NoEarlyPush
  BY DEF PushInv
<1> QED
  BY <1>1, PushInvariant, PTL

\* A word is pushed with at most one run, whatever order statuses and messages
\* come in.
THEOREM PushWordsHaveOneRun == Spec => []WordsHaveOneRun
<1>1. PushInv => WordsHaveOneRun
  BY DEF PushInv
<1> QED
  BY <1>1, PushInvariant, PTL

\* No step of any handler, timer or goroutine empties the candidate of an ended turn
\* that is neither pushed nor forgotten.
THEOREM PushEndedTurnsKeepWords == Spec => EndedTurnsKeepWords
<1> DEFINE Keep == \A r \in Run : r \in terminal /\ words[r] # {} /\ words'[r] = {}
                     => r \in delivered \/ r \notin terminal'
<1>1. PushInv /\ [Next]_vars => [Keep]_vars
  <2> SUFFICES ASSUME PushInv, Next, NEW r \in Run,
                      r \in terminal, words[r] # {}, words'[r] = {}
               PROVE  r \in delivered \/ r \notin terminal'
    OBVIOUS
  <2> USE DEF PushInv
  <2>1. CASE words' = words
    BY <2>1
  <2>2. CASE \E q \in Run : Attached(q)
    BY <2>2 DEF Attached, TypeOK
  <2>3. CASE \E m \in Msg, tag \in Run \cup {NoRun} : Say(m, tag)
    <3> PICK m \in Msg, tag \in Run \cup {NoRun} : Say(m, tag)
      BY <2>3
    <3> DEFINE q == RunOf(tag)
    <3>1. words' = words \/ words' = [words EXCEPT ![q] = (@ \ {Summary}) \cup {m}]
      BY DEF Say
    <3> HIDE DEF q
    <3>2. m \in words'[r] \/ words'[r] = words[r]
      <4>1. CASE q = r
        BY <3>1, <4>1 DEF TypeOK
      <4>2. CASE q # r
        BY <3>1, <4>2 DEF TypeOK
      <4> QED
        BY <4>1, <4>2
    <3> QED
      BY <3>2
  <2>4. CASE \E tag \in Run \cup {NoRun} : Work(tag)
    BY <2>4 DEF Work, TypeOK
  <2>5. CASE \E q \in Run : AddFallback(q)
    BY <2>5 DEF AddFallback, TypeOK
  <2>6. CASE \E q \in Run : ForgetTurn(q)
    BY <2>6 DEF ForgetTurn, TypeOK
  <2>7. CASE \E c \in Courier : Finish(c)
    BY <2>7 DEF Finish, Discards, TypeOK
  <2>8. CASE Restart
    BY <2>8 DEF Restart
  <2>9. CASE \E s \in sent : Observe(s)
    <3> PICK s \in sent : Observe(s)
      BY <2>9
    <3>1. s.run \in Run
      BY DEF TypeOK, Status
    <3>2. Attached(s.run) \/ words' = words
      BY DEF Observe, Progress, End, Ignored
    <3> QED
      BY <2>1, <2>2, <3>1, <3>2
  <2> QED
    BY <2>1, <2>3, <2>4, <2>5, <2>6, <2>7, <2>8, <2>9
    DEF Next, Delivers, Commit, ForgetDelivery, ForgetPending, Settle, Start, Refuse,
        Send, SendFails
<1> QED
  BY <1>1, PushInvariant, PTL DEF Spec, EndedTurnsKeepWords

----------------------------------------------------------------------------
(* Nobody waits for nobody.                                                *)

\* A goroutine has taken words.
CouriersHaveWords ==
  \A c \in Courier : courier[c].does # "idle" => courier[c].text # {}

\* A goroutine has the candidate as it is, and once its call is over, or was left
\* to another one, the run's push is remembered.
Carried(r) ==
  \E c \in Courier : /\ courier[c].run = r /\ courier[c].text = words[r]
                     /\ courier[c].does = "sent" => r \in delivered

MindedOK ==
  \A r \in terminal : words[r] # {} =>
    r \in settling \/ r \in inFlight \/ outcome[r] # "none" \/ Carried(r)

MindInv == CouriersHaveWords /\ MindedOK

\* Where goroutines stay as they are, a turn whose words, end or outcome change has
\* to settle.
LEMMA SettlingMinds ==
  ASSUME MindInv, UNCHANGED deliveryVars,
         \A r \in terminal' : words'[r] # {} =>
           \/ r \in settling'
           \/ /\ r \in terminal /\ words'[r] = words[r] /\ outcome'[r] = outcome[r]
              /\ r \in settling => r \in settling'
  PROVE  MindInv'
<1>1. CouriersHaveWords'
  BY DEF MindInv, CouriersHaveWords
<1>2. MindedOK'
  BY DEF MindInv, MindedOK, Carried
<1> QED
  BY <1>1, <1>2 DEF MindInv

LEMMA StatusMinds ==
  ASSUME PushInv, MindInv,
         \/ \E r \in Run, ends \in BOOLEAN, t \in Time : Commit(r, ends, t)
         \/ \E s \in sent : Observe(s)
         \/ \E r \in Run : AddFallback(r)
  PROVE  MindInv'
<1> USE DEF PushInv
<1>1. CASE \E r \in Run, ends \in BOOLEAN, t \in Time : Commit(r, ends, t)
  BY <1>1, SettlingMinds DEF Commit
<1>2. ASSUME NEW s \in sent, Observe(s) PROVE MindInv'
  <2>1. s.run \in Run
    BY DEF TypeOK, Status
  <2>2. CASE Progress(s.run, s.time)
    <3>1. /\ s.run \notin terminal /\ UNCHANGED <<terminal, settling, outcome>>
          /\ \A r \in Run \ {s.run} : words'[r] = words[r]
      BY <2>1, <2>2 DEF Progress, Attached, TypeOK
    <3> QED
      BY <1>2, <3>1, SettlingMinds DEF Observe, TypeOK
  <2>3. CASE End(s.run, s.time)
    <3>1. /\ terminal' = terminal \cup {s.run} /\ settling' = settling \cup {s.run}
          /\ \A r \in Run \ {s.run} : words'[r] = words[r] /\ outcome'[r] = outcome[r]
      BY <2>1, <2>3 DEF End, Rearm, Attached, TypeOK
    <3> QED
      BY <1>2, <3>1, SettlingMinds DEF Observe, TypeOK
  <2>4. CASE Ignored(s)
    BY <1>2, <2>4, SettlingMinds DEF Observe, Ignored
  <2> QED
    BY <1>2, <2>2, <2>3, <2>4 DEF Observe
<1>3. ASSUME NEW q \in Run, AddFallback(q) PROVE MindInv'
  <2>1. /\ UNCHANGED <<terminal, deliveryVars>> /\ settling \subseteq settling'
        /\ \A r \in Run : r \in settling' \/ (words'[r] = words[r] /\ outcome'[r] = outcome[r])
    BY <1>3 DEF AddFallback, Rearm, TypeOK
  <2> QED
    BY <2>1, SettlingMinds DEF TypeOK
<1> QED
  BY <1>1, <1>2, <1>3

LEMMA MessageMinds ==
  ASSUME PushInv, MindInv,
         \/ \E m \in Msg, tag \in Run \cup {NoRun} : Say(m, tag)
         \/ \E tag \in Run \cup {NoRun} : Work(tag)
  PROVE  MindInv'
<1> USE DEF PushInv
<1>1. ASSUME NEW m \in Msg, NEW tag \in Run \cup {NoRun}, Say(m, tag) PROVE MindInv'
  <2> DEFINE q == RunOf(tag)
  <2>1. /\ UNCHANGED <<terminal, deliveryVars>>
        /\ \/ UNCHANGED <<words, settling, outcome>>
           \/ /\ words' = [words EXCEPT ![q] = (@ \ {Summary}) \cup {m}]
              /\ \/ q \in terminal /\ Rearm(q)
                 \/ q \notin terminal /\ UNCHANGED <<settling, outcome>>
    BY <1>1 DEF Say, Rearms, Settles
  <2> HIDE DEF q
  <2>2. \A r \in terminal' : \/ r \in settling'
                             \/ /\ words'[r] = words[r] /\ outcome'[r] = outcome[r]
                                /\ r \in settling => r \in settling'
    BY <2>1 DEF Rearm, TypeOK
  <2> QED
    BY <2>1, <2>2, SettlingMinds
<1>2. ASSUME NEW tag \in Run \cup {NoRun}, Work(tag) PROVE MindInv'
  <2>1. /\ UNCHANGED <<terminal, settling, outcome, deliveryVars>>
        /\ \A r \in terminal : words'[r] = words[r]
    BY <1>2 DEF Work, TypeOK
  <2> QED
    BY <2>1, SettlingMinds
<1> QED
  BY <1>1, <1>2

\* The timer hands the candidate over as it is.
LEMMA SettleMinds ==
  ASSUME PushInv, MindInv, NEW c \in Courier, NEW q \in Run, Settle(c, q)
  PROVE  MindInv'
<1> USE DEF PushInv
<1>1. /\ UNCHANGED <<terminal, words, inFlight, delivered, outcome>>
      /\ settling' = settling \ {q} /\ courier[c] = Idle
  BY DEF Settle
<1>2. \A d \in Courier \ {c} : courier'[d] = courier[d]
  BY DEF Settle, TypeOK
<1>3. words[q] # {} => courier'[c] = [does |-> "taken", run |-> q, text |-> words[q]]
  BY DEF Settle, TypeOK
<1>4. words[q] = {} => courier' = courier
  BY DEF Settle
<1>5. CouriersHaveWords'
  BY <1>2, <1>3, <1>4 DEF MindInv, CouriersHaveWords
<1>6. ASSUME NEW r \in terminal, words[r] # {}, Carried(r) PROVE Carried(r)'
  <2>1. PICK d \in Courier : /\ courier[d].run = r /\ courier[d].text = words[r]
                             /\ courier[d].does = "sent" => r \in delivered
    BY <1>6 DEF Carried
  <2>2. d # c
    BY <1>1, <1>6, <2>1
  <2> QED
    BY <1>1, <1>2, <2>1, <2>2 DEF Carried
<1>7. words[q] # {} => Carried(q)'
  BY <1>1, <1>3 DEF Carried
<1>8. MindedOK'
  BY <1>1, <1>6, <1>7 DEF MindInv, MindedOK
<1> QED
  BY <1>5, <1>8 DEF MindInv

\* A goroutine that finds a push under way leaves its words to that one.
LEMMA StartMinds ==
  ASSUME PushInv, MindInv, NEW c \in Courier, Start(c)
  PROVE  MindInv'
<1> USE DEF PushInv
<1>1. /\ courier[c].does = "taken" /\ courier[c].run \in Run
      /\ UNCHANGED <<sent, arrived, turnVars, scopeVars, owed, delivered, outcome>>
      /\ inFlight \subseteq inFlight'
  BY DEF Start, CouriersRecorded
<1>2. PICK label \in {"sending", "sent"} :
        /\ Goes(c, label)
        /\ label = "sent" => courier[c].run \in delivered \cup inFlight
  BY DEF Start, MayStart
<1>3. \A d \in Courier :
        /\ courier'[d].run = courier[d].run /\ courier'[d].text = courier[d].text
        /\ courier'[d].does = IF d = c THEN label ELSE courier[d].does
  BY <1>1, <1>2, GoesKeepsWords
<1>4. CouriersHaveWords'
  BY <1>1, <1>3 DEF MindInv, CouriersHaveWords
<1>5. ASSUME NEW r \in terminal, Carried(r), r \notin inFlight PROVE Carried(r)'
  <2>1. PICK d \in Courier : /\ courier[d].run = r /\ courier[d].text = words[r]
                             /\ courier[d].does = "sent" => r \in delivered
    BY <1>5 DEF Carried
  <2>2. courier'[d].does = "sent" => r \in delivered
    BY <1>2, <1>3, <1>5, <2>1
  <2> QED
    BY <1>1, <1>3, <2>1, <2>2 DEF Carried
<1>6. MindedOK'
  BY <1>1, <1>5 DEF MindInv, MindedOK
<1> QED
  BY <1>4, <1>6 DEF MindInv

\* A push that is over, whatever became of it, has an outcome.
LEMMA AnswerMinds ==
  ASSUME PushInv, MindInv, NEW c \in Courier, Refuse(c) \/ Send(c) \/ SendFails(c)
  PROVE  MindInv'
<1> USE DEF PushInv
<1>1. /\ courier[c].does # "idle" /\ courier[c].run \in Run
      /\ Goes(c, "sent")
      /\ UNCHANGED <<sent, arrived, turnVars, scopeVars, owed>>
      /\ outcome'[courier[c].run] # "none"
      /\ \A r \in Run \ {courier[c].run} :
           /\ outcome'[r] = outcome[r]
           /\ r \in inFlight' <=> r \in inFlight
      /\ delivered \subseteq delivered'
  BY DEF Refuse, Send, SendFails, CouriersRecorded, Results, TypeOK
<1>2. \A d \in Courier :
        /\ courier'[d].run = courier[d].run /\ courier'[d].text = courier[d].text
        /\ courier'[d].does = IF d = c THEN "sent" ELSE courier[d].does
  BY <1>1, GoesKeepsWords
<1>3. CouriersHaveWords'
  BY <1>1, <1>2 DEF MindInv, CouriersHaveWords
<1>4. ASSUME NEW r \in terminal, r # courier[c].run, Carried(r) PROVE Carried(r)'
  BY <1>1, <1>2, <1>4 DEF Carried
<1>5. MindedOK'
  BY <1>1, <1>4 DEF MindInv, MindedOK, TypeOK
<1> QED
  BY <1>3, <1>5 DEF MindInv

\* A goroutine that leaves words behind had others.
LEMMA FinishMinds ==
  ASSUME PushInv, MindInv, NEW c \in Courier, Finish(c)
  PROVE  MindInv'
<1> USE DEF PushInv
<1> DEFINE q == courier[c].run
<1>1. /\ courier[c].does = "sent" /\ q \in Run
      /\ UNCHANGED <<terminal, tracked, settling, inFlight, delivered, outcome>>
      /\ words' = [words EXCEPT ![q] = IF q \in tracked /\ @ = courier[c].text /\ Discards(q)
                                       THEN {} ELSE @]
  BY DEF Finish, CouriersRecorded
<1>2. \A d \in Courier : courier'[d] = IF d = c THEN Idle ELSE courier[d]
  BY DEF Finish, TypeOK
<1>3. CouriersHaveWords'
  BY <1>2 DEF MindInv, CouriersHaveWords
<1>4. ASSUME NEW r \in terminal, words'[r] # {}, Carried(r) PROVE Carried(r)'
  <2>1. PICK d \in Courier : /\ courier[d].run = r /\ courier[d].text = words[r]
                             /\ courier[d].does = "sent" => r \in delivered
    BY <1>4 DEF Carried
  <2>2. words'[r] = words[r]
    BY <1>1, <1>4 DEF TypeOK
  <2>3. d # c
    <3> SUFFICES ASSUME d = c PROVE words'[q] = {}
      BY <1>4, <2>1
    <3> QED
      BY <1>1, <1>4, <2>1 DEF Discards, TypeOK
  <2> QED
    BY <1>1, <1>2, <2>1, <2>2, <2>3 DEF Carried
<1>5. ASSUME NEW r \in terminal, words'[r] # {} PROVE words[r] # {}
  BY <1>1, <1>5 DEF TypeOK
<1>6. MindedOK'
  BY <1>1, <1>4, <1>5 DEF MindInv, MindedOK
<1> QED
  BY <1>3, <1>6 DEF MindInv

LEMMA ForgetMinds ==
  ASSUME PushInv, MindInv,
         \/ \E r \in Run : ForgetTurn(r) \/ ForgetDelivery(r)
         \/ ForgetPending \/ Restart
  PROVE  MindInv'
<1> USE DEF PushInv
<1>1. ASSUME NEW q \in Run, ForgetTurn(q) PROVE MindInv'
  <2>1. \A r \in terminal' :
          /\ r \in terminal /\ words'[r] = words[r] /\ outcome'[r] = outcome[r]
          /\ r \in settling => r \in settling'
    BY <1>1 DEF ForgetTurn, Results, TypeOK
  <2> QED
    BY <1>1, <2>1, SettlingMinds DEF ForgetTurn
<1>2. ASSUME NEW q \in Run, ForgetDelivery(q) PROVE MindInv'
  <2>1. /\ UNCHANGED <<turnVars, inFlight, courier, outcome>>
        /\ delivered' = delivered \ {q} /\ \A c \in Courier : courier[c].run # q
    BY <1>2 DEF ForgetDelivery
  <2>2. CouriersHaveWords'
    BY <2>1 DEF MindInv, CouriersHaveWords
  <2>3. MindedOK'
    BY <2>1 DEF MindInv, MindedOK, Carried
  <2> QED
    BY <2>2, <2>3 DEF MindInv
<1>3. CASE ForgetPending
  BY <1>3, SettlingMinds DEF ForgetPending
<1>4. CASE Restart
  BY <1>4 DEF Restart, MindInv, MindedOK, CouriersHaveWords
<1> QED
  BY <1>1, <1>2, <1>3, <1>4

\* What every reachable state knows of ended turns and of the goroutines.
THEOREM PushMindInvariant == Spec => []MindInv
<1>1. Init => MindInv
  BY DEF Init, MindInv, MindedOK, CouriersHaveWords
<1>2. PushInv /\ MindInv /\ [Next]_vars => MindInv'
  <2> SUFFICES ASSUME PushInv, MindInv, [Next]_vars PROVE MindInv'
    OBVIOUS
  <2>1. CASE UNCHANGED vars
    BY <2>1, SettlingMinds DEF vars
  <2>2. CASE \E c \in Courier : \/ \E r \in Run : Settle(c, r)
                                \/ Delivers(c) \/ Refuse(c) \/ SendFails(c)
    BY <2>2, SettleMinds, StartMinds, AnswerMinds, FinishMinds DEF Delivers
  <2> QED
    BY <2>1, <2>2, StatusMinds, MessageMinds, ForgetMinds DEF Next
<1> QED
  BY <1>1, <1>2, PushInvariant, PTL DEF Spec

\* An ended turn with something to say always has somebody who will tell it, or an
\* outcome: with fair timers and goroutines, it is told or fails.
THEOREM PushEndedTurnsAreMinded == Spec => []EndedTurnsAreMinded
<1>1. MindInv => EndedTurnsAreMinded
  BY DEF MindInv, MindedOK, Carried, EndedTurnsAreMinded
<1> QED
  BY <1>1, PushMindInvariant, PTL

----------------------------------------------------------------------------
(* The refinement of TurnNotices.                                          *)

Kept == [r \in Run |-> {m \in Msg : Holds(r, m)}]
Calls == [c \in Courier |-> IF courier[c].does = "sending"
                            THEN [run |-> courier[c].run, text |-> courier[c].text]
                            ELSE [run |-> NoRun, text |-> {}]]
EndedRuns == {r \in Run : Ended(r)}
AbstractVars == <<EndedRuns, arrived, pending, Kept, Calls, delivered>>

\* Words that come to a run have just been said, or waited.
LEMMA WordsMoveOn ==
  ASSUME PushInv, PushInv', arrived \subseteq arrived',
         pending' \subseteq pending \cup (arrived' \ arrived),
         \A r \in Run : \A m \in Msg :
           Holds(r, m)' => Holds(r, m) \/ m \in pending \cup (arrived' \ arrived)
  PROVE  Notices!WordsMove
<1>1. arrived' \subseteq Msg
  BY DEF PushInv, TypeOK
<1>2. \A r \in Run : Kept[r] = {m \in Msg : Holds(r, m)} /\ Kept'[r] = {m \in Msg : Holds(r, m)'}
  BY DEF Kept
<1>3. \A r \in Run : Kept'[r] \subseteq Kept[r] \cup pending \cup (arrived' \ arrived)
  BY <1>2
<1>4. \A r \in Run : /\ Kept'[r] \cap pending' = {}
                     /\ \A q \in Run \ {r} : Kept'[r] \cap Kept'[q] = {}
  BY <1>2 DEF PushInv, WordsHaveOneRun
<1>5. Kept' \in [Run -> SUBSET Msg]
  BY DEF Kept
<1> QED
  BY <1>1, <1>3, <1>4, <1>5 DEF Notices!WordsMove, Kept

\* What only moves words is a step of the recipient's words, or none.
LEMMA GatherStep ==
  ASSUME PushInv, PushInv', UNCHANGED <<sent, deliveryVars>>, arrived \subseteq arrived',
         pending' \subseteq pending \cup (arrived' \ arrived),
         \A r \in Run : \A m \in Msg :
           Holds(r, m)' => Holds(r, m) \/ m \in pending \cup (arrived' \ arrived)
  PROVE  Notices!NoticeNext
<1>1. EndedRuns' = EndedRuns /\ Calls' = Calls
  BY DEF EndedRuns, Ended, Calls
<1>2. Notices!Gather
  BY <1>1, WordsMoveOn DEF Notices!Gather, Notices!callVars, EndedRuns, Calls
<1> QED
  BY <1>2 DEF Notices!NoticeNext

LEMMA StatusNotices ==
  ASSUME PushInv, PushInv',
         \/ \E r \in Run, ends \in BOOLEAN, t \in Time : Commit(r, ends, t)
         \/ \E s \in sent : Observe(s)
         \/ \E r \in Run : AddFallback(r)
  PROVE  Notices!NoticeNext \/ UNCHANGED AbstractVars
<1>1. ASSUME NEW r \in Run, NEW ends \in BOOLEAN, NEW t \in Time, Commit(r, ends, t)
      PROVE  Notices!NoticeNext \/ UNCHANGED AbstractVars
  <2>1. EndedRuns' = IF ends THEN EndedRuns \cup {r} ELSE EndedRuns
    <3> DEFINE new == [run |-> r, ends |-> ends, time |-> t]
    <3>1. sent' = sent \cup {new} /\ new.run = r /\ new.ends = ends
      BY <1>1 DEF Commit
    <3> HIDE DEF new
    <3>2. ASSUME NEW q \in Run PROVE Ended(q)' <=> Ended(q) \/ (ends /\ q = r)
      BY <3>1 DEF Ended
    <3> QED
      BY <3>2 DEF EndedRuns
  <2>2. UNCHANGED <<arrived, pending, Kept, Calls, delivered>>
    BY <1>1 DEF Commit, Kept, Holds, Calls
  <2>3. CASE ends
    <3>1. Notices!RunEnds
      BY <2>1, <2>2, <2>3
      DEF Notices!RunEnds, Notices!wordVars, Notices!callVars, EndedRuns, Kept, Calls
    <3> QED
      BY <3>1 DEF Notices!NoticeNext
  <2> QED
    BY <2>1, <2>2, <2>3 DEF AbstractVars
<1>2. ASSUME NEW s \in sent, Observe(s) PROVE Notices!NoticeNext
  <2>1. s.run \in Run
    BY DEF PushInv, TypeOK, Status
  <2>2. /\ Attached(s.run) \/ UNCHANGED <<words, pending>>
        /\ UNCHANGED <<sent, arrived, deliveryVars>>
    BY <1>2 DEF Observe, Progress, End, Ignored
  <2>3. \A r \in Run : \A m \in Msg : Holds(r, m)' => Holds(r, m) \/ m \in pending
    BY <2>1, <2>2 DEF Attached, Holds, PushInv, TypeOK
  <2>4. pending' \subseteq pending
    BY <2>2 DEF Attached
  <2> QED
    BY <2>2, <2>3, <2>4, GatherStep
<1>3. ASSUME NEW q \in Run, AddFallback(q) PROVE Notices!NoticeNext
  <2>1. \A r \in Run : \A m \in Msg : Holds(r, m)' => Holds(r, m)
    BY <1>3, PushAssumption DEF PushAssumption, AddFallback, Holds, PushInv, TypeOK
  <2> QED
    BY <1>3, <2>1, GatherStep DEF AddFallback
<1> QED
  BY <1>1, <1>2, <1>3

LEMMA MessageNotices ==
  ASSUME PushInv, PushInv',
         \/ \E m \in Msg, tag \in Run \cup {NoRun} : Say(m, tag)
         \/ \E tag \in Run \cup {NoRun} : Work(tag)
  PROVE  Notices!NoticeNext
<1> USE DEF PushInv
<1>1. ASSUME NEW m \in Msg, NEW tag \in Run \cup {NoRun}, Say(m, tag)
      PROVE  Notices!NoticeNext
  <2> DEFINE q == RunOf(tag)
  <2>1. /\ m \notin arrived /\ arrived' = arrived \cup {m}
        /\ UNCHANGED <<sent, deliveryVars>>
        /\ pending' \subseteq pending \cup {m}
        /\ words' = words \/ words' = [words EXCEPT ![q] = (@ \ {Summary}) \cup {m}]
    BY <1>1 DEF Say
  <2> HIDE DEF q
  <2>2. \A r \in Run : \A n \in Msg : Holds(r, n)' => Holds(r, n) \/ n = m
    BY <2>1 DEF Holds, TypeOK
  <2> QED
    BY <2>1, <2>2, GatherStep
<1>2. ASSUME NEW tag \in Run \cup {NoRun}, Work(tag) PROVE Notices!NoticeNext
  <2>1. \A r \in Run : \A m \in Msg : Holds(r, m)' => Holds(r, m)
    BY <1>2 DEF Work, Holds, TypeOK
  <2>2. pending' \subseteq pending
    BY <1>2 DEF Work
  <2> QED
    BY <1>2, <2>1, <2>2, GatherStep DEF Work
<1> QED
  BY <1>1, <1>2

\* Timers and the ends of deliveries only pass words on, or drop them.
LEMMA CopyNotices ==
  ASSUME PushInv, PushInv', NEW c \in Courier,
         (\E r \in Run : Settle(c, r)) \/ Finish(c)
  PROVE  Notices!NoticeNext
<1> USE DEF PushInv
<1>1. /\ UNCHANGED <<sent, arrived, pending, inFlight, delivered>>
      /\ \A r \in Run : words'[r] \subseteq words[r]
  BY DEF Settle, Finish, TypeOK
<1>2. \A d \in Courier :
        \/ courier'[d] \in {courier[d], Idle}
        \/ \E r \in Run : courier'[d] = [does |-> "taken", run |-> r, text |-> words[r]]
  BY DEF Settle, Finish, TypeOK
<1>3. courier[c].does # "sending" /\ courier'[c].does # "sending"
  BY DEF Settle, Finish, TypeOK
<1>4. \A d \in Courier \ {c} : courier'[d] = courier[d]
  BY DEF Settle, Finish, TypeOK
<1>5. ASSUME NEW r \in Run, NEW m \in Msg, Holds(r, m)' PROVE Holds(r, m)
  <2>1. CASE m \in words'[r]
    BY <1>1, <2>1 DEF Holds
  <2>2. ASSUME NEW d \in Courier, courier'[d].run = r, m \in courier'[d].text
        PROVE  Holds(r, m)
    <3>1. CASE courier'[d] = courier[d]
      BY <2>2, <3>1 DEF Holds
    <3>2. CASE courier'[d] # courier[d]
      <4>1. PICK q \in Run : courier'[d] = [does |-> "taken", run |-> q, text |-> words[q]]
        BY <1>2, <2>2, <3>2, PushAssumption DEF PushAssumption
      <4>2. q = r /\ m \in words[q]
        BY <2>2, <4>1
      <4> QED
        BY <4>2 DEF Holds
    <3> QED
      BY <3>1, <3>2
  <2> QED
    BY <1>5, <2>1, <2>2 DEF Holds
<1>6. EndedRuns' = EndedRuns /\ Calls' = Calls
  BY <1>1, <1>3, <1>4 DEF EndedRuns, Ended, Calls
<1>7. Notices!Gather
  BY <1>1, <1>5, <1>6, WordsMoveOn DEF Notices!Gather, Notices!callVars, EndedRuns, Calls
<1> QED
  BY <1>7 DEF Notices!NoticeNext

\* The goroutine's steps around the call. The words it carries are kept for its run.
LEMMA CallNotices ==
  ASSUME PushInv, MindInv, NEW c \in Courier,
         Start(c) \/ Refuse(c) \/ Send(c) \/ SendFails(c)
  PROVE  Notices!NoticeNext \/ UNCHANGED AbstractVars
<1> USE DEF PushInv
<1>0. PICK q \in Run, t \in SUBSET (Msg \cup {Summary}) :
        courier[c].run = q /\ courier[c].text = t
  BY DEF Start, Refuse, Send, SendFails, CouriersRecorded, TypeOK, Text
<1>1. /\ courier[c].does \in {"taken", "sending"}
      /\ UNCHANGED <<sent, arrived, turnVars, scopeVars, owed>>
  BY DEF Start, Refuse, Send, SendFails
<1>2. PICK label \in {"sending", "sent"} : Goes(c, label) /\ (label = "sending" => Start(c))
  BY DEF Start, Refuse, Send, SendFails
<1>3. \A d \in Courier :
        /\ courier'[d].run = courier[d].run /\ courier'[d].text = courier[d].text
        /\ courier'[d].does = IF d = c THEN label ELSE courier[d].does
  BY <1>0, <1>1, <1>2, GoesKeepsWords
<1>4. EndedRuns' = EndedRuns /\ Kept' = Kept /\ UNCHANGED <<arrived, pending>>
  BY <1>1, <1>3 DEF EndedRuns, Ended, Kept, Holds
<1>5. CASE label = "sending"
  <2>1. /\ courier[c].does = "taken" /\ q \notin delivered \cup inFlight
        /\ delivered' = delivered
    BY <1>0, <1>2, <1>5 DEF Start, MayStart, Goes, TypeOK
  <2>2. Calls' = [Calls EXCEPT ![c] = [run |-> q, text |-> t]]
    BY <1>0, <1>3, <1>5 DEF Calls
  <2>3. Calls[c] = [run |-> NoRun, text |-> {}]
    BY <2>1 DEF Calls
  <2>4. \A d \in Courier : Calls[d].run # q
    BY <1>0, <1>1, <2>1, PushAssumption DEF Calls, CouriersRecorded, PushAssumption
  <2>5. t # {} /\ t \cap Msg \subseteq Kept[q]
    BY <1>0, <1>1 DEF MindInv, CouriersHaveWords, Kept, Holds
  <2>6. q \in EndedRuns \ delivered
    BY <1>0, <1>1, <2>1 DEF EndedRuns, NoEarlyPush
  <2>7. Notices!Begin(c, q, t)
    BY <1>4, <2>1, <2>2, <2>3, <2>4, <2>5, <2>6
    DEF Notices!Begin, Notices!NoCall, Notices!wordVars, Calls, Kept, EndedRuns
  <2> QED
    BY <2>7 DEF Notices!NoticeNext
<1>6. CASE label = "sent" /\ courier[c].does = "taken"
  <2>1. delivered' = delivered /\ Calls' = Calls
    BY <1>3, <1>6 DEF Start, Refuse, Send, SendFails, Calls
  <2> QED
    BY <1>4, <2>1 DEF AbstractVars
<1>7. CASE label = "sent" /\ courier[c].does = "sending"
  <2>1. delivered' \in {delivered, delivered \cup {q}}
    BY <1>0, <1>7 DEF Start, Refuse, Send, SendFails
  <2>2. Calls' = [Calls EXCEPT ![c] = [run |-> NoRun, text |-> {}]]
    BY <1>0, <1>3, <1>7 DEF Calls
  <2>3. Calls[c] = [run |-> q, text |-> t] /\ Calls[c] # [run |-> NoRun, text |-> {}]
    BY <1>0, <1>1, <1>7, PushAssumption DEF Calls, PushAssumption
  <2>4. Notices!Finish(c)
    BY <1>4, <2>1, <2>2, <2>3
    DEF Notices!Finish, Notices!NoCall, Notices!wordVars, Calls, Kept, EndedRuns
  <2> QED
    BY <2>4 DEF Notices!NoticeNext
<1> QED
  BY <1>1, <1>2, <1>5, <1>6, <1>7

LEMMA ForgetNotices ==
  ASSUME PushInv, PushInv',
         \/ \E r \in Run : ForgetTurn(r) \/ ForgetDelivery(r)
         \/ ForgetPending \/ Restart
  PROVE  Notices!NoticeNext
<1> USE DEF PushInv
<1>1. ASSUME (\E r \in Run : ForgetTurn(r)) \/ ForgetPending PROVE Notices!NoticeNext
  <2>1. \A r \in Run : \A m \in Msg : Holds(r, m)' => Holds(r, m)
    BY <1>1 DEF ForgetTurn, ForgetPending, Holds, TypeOK
  <2> QED
    BY <1>1, <2>1, GatherStep DEF ForgetTurn, ForgetPending
<1>2. ASSUME NEW r \in Run, ForgetDelivery(r) PROVE Notices!NoticeNext
  <2>1. UNCHANGED <<EndedRuns, arrived, pending, Kept, Calls>>
    BY <1>2 DEF ForgetDelivery, EndedRuns, Ended, Kept, Holds, Calls
  <2>2. Notices!Forget(r)
    BY <1>2, <2>1
    DEF ForgetDelivery, Notices!Forget, Notices!wordVars, EndedRuns, Kept, Calls
  <2> QED
    BY <2>2 DEF Notices!NoticeNext
<1>3. CASE Restart
  <2>1. \A r \in Run : \A m \in Msg : ~Holds(r, m)'
    BY <1>3, PushAssumption DEF Restart, Holds, PushAssumption
  <2>2. Notices!WordsMove
    BY <1>3, <2>1, WordsMoveOn DEF Restart
  <2>3. EndedRuns' = EndedRuns /\ Calls' = [c \in Courier |-> [run |-> NoRun, text |-> {}]]
    BY <1>3 DEF Restart, EndedRuns, Ended, Calls
  <2>4. Notices!ForgetAll
    BY <1>3, <2>2, <2>3
    DEF Restart, Notices!ForgetAll, Notices!NoCall, EndedRuns, Calls
  <2> QED
    BY <2>4 DEF Notices!NoticeNext
<1> QED
  BY <1>1, <1>2, <1>3

\* For any runs, words and goroutines: one notice of a run at a time, after its end,
\* with words that were never with another run.
THEOREM PushImplementsNotices == Spec => ImplementsNotices
<1>1. Init => Notices!NoticeInit
  BY PushAssumption
  DEF PushAssumption, Init, Notices!NoticeInit, Notices!NoCall, Ended, Holds
<1>2. PushInv /\ PushInv' /\ MindInv /\ [Next]_vars => [Notices!NoticeNext]_(Notices!noticeVars)
  <2> SUFFICES ASSUME PushInv, PushInv', MindInv, [Next]_vars
               PROVE  Notices!NoticeNext \/ UNCHANGED AbstractVars
    BY DEF AbstractVars, EndedRuns, Kept, Calls, Notices!noticeVars, Notices!wordVars,
           Notices!callVars
  <2>1. CASE UNCHANGED vars
    BY <2>1 DEF vars, AbstractVars, EndedRuns, Ended, Kept, Holds, Calls
  <2>2. CASE \E c \in Courier : \/ \E r \in Run : Settle(c, r)
                                \/ Delivers(c) \/ Refuse(c) \/ SendFails(c)
    BY <2>2, CopyNotices, CallNotices DEF Delivers
  <2> QED
    BY <2>1, <2>2, StatusNotices, MessageNotices, ForgetNotices DEF Next
<1> QED
  BY <1>1, <1>2, PushInvariant, PushMindInvariant, PTL
  DEF Spec, ImplementsNotices, Notices!NoticeSpec
=============================================================================
