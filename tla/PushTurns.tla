------------------------------- MODULE PushTurns -------------------------------
(***************************************************************************)
(* Notifications of agent turns (push_notification_turns.go and, for native *)
(* devices, native_push_tasks.go): the coordinator gathers the words an     *)
(* agent says during a run and pushes them once, shortly after the run has  *)
(* ended. Statuses and messages of one run are handled by different         *)
(* goroutines and come in any order.                                        *)
(*                                                                          *)
(* One agent, one topic, one recipient: runs share nothing across topics    *)
(* but the limits of the tables, and recipients are handled one by one. A   *)
(* candidate is the set of its words; as every message comes once, the set  *)
(* is also what identifies it.                                              *)
(***************************************************************************)
EXTENDS Naturals

CONSTANTS
  Run, NoRun,
  Msg,       \* visible messages
  Summary,   \* the generic text of a native fallback
  Courier,   \* bound: goroutines that deliver at a time
  MaxTime    \* bound: event times

ASSUME PushAssumption ==
  /\ NoRun \notin Run
  /\ Summary \notin Msg
  /\ MaxTime \in Nat

VARIABLES
  sent,        \* statuses the ledger has committed: each is observed, perhaps
               \* more than once, perhaps late
  arrived,     \* messages that were observed
  tracked,     \* trackedTurns
  terminal, superseded, updated,   \* of a tracked turn
  words,       \* its candidate; {}: none
  settling,    \* its settle timer is running
  current,     \* currentRuns of the conversation
  currentAt,
  pending,     \* pendingByScope: words that belong to no run yet
  owed,        \* runs whose handler has yet to add a native fallback
  inFlight, delivered,
  courier,     \* a goroutine in deliverTurnCandidates
  outcome      \* of a turn: whether a push was sent, or failed since the turn was last
               \* rearmed (history)

turnVars == <<tracked, terminal, superseded, updated, words, settling>>
scopeVars == <<current, currentAt, pending>>
deliveryVars == <<inFlight, delivered, courier>>
vars == <<sent, arrived, turnVars, scopeVars, owed, deliveryVars, outcome>>

Time == 1..MaxTime
Text == Msg \cup {Summary}
Status == [run : Run, ends : BOOLEAN, time : Time]
Idle == [does |-> "idle", run |-> NoRun, text |-> {}]

TypeOK ==
  /\ sent \subseteq Status /\ arrived \subseteq Msg
  /\ tracked \subseteq Run
  /\ terminal \subseteq tracked /\ superseded \subseteq tracked /\ settling \subseteq terminal
  /\ updated \in [Run -> 0..MaxTime]
  /\ words \in [Run -> SUBSET Text]
  /\ current \in tracked \cup {NoRun} /\ currentAt \in 0..MaxTime
  /\ pending \subseteq Msg /\ owed \subseteq Run
  /\ inFlight \subseteq Run /\ delivered \subseteq Run
  /\ outcome \in [Run -> {"none", "told", "failed"}]
  /\ courier \in [Courier -> [does : {"idle", "taken", "sending", "sent"},
                              run : Run \cup {NoRun}, text : SUBSET Text]]

Init ==
  /\ sent = {} /\ arrived = {}
  /\ tracked = {} /\ terminal = {} /\ superseded = {} /\ settling = {}
  /\ updated = [r \in Run |-> 0]
  /\ words = [r \in Run |-> {}]
  /\ current = NoRun /\ currentAt = 0
  /\ pending = {} /\ owed = {}
  /\ inFlight = {} /\ delivered = {}
  /\ courier = [c \in Courier |-> Idle]
  /\ outcome = [r \in Run |-> "none"]

\* The turn's settle timer starts, from the beginning if it is running.
Rearm(r) ==
  /\ settling' = settling \cup {r}
  /\ outcome' = [outcome EXCEPT ![r] = IF @ = "failed" THEN "none" ELSE @]

----------------------------------------------------------------------------
(* Statuses.                                                               *)

\* A status of the agent is committed. Later ones have later times, and after the
\* end of a run the ledger accepts no progress of it.
Commit(r, ends, t) ==
  /\ \A s \in sent : s.time < t
  /\ ends \/ \A s \in sent : ~(s.run = r /\ s.ends)
  /\ sent' = sent \cup {[run |-> r, ends |-> ends, time |-> t]}
  /\ UNCHANGED <<arrived, turnVars, scopeVars, owed, deliveryVars, outcome>>

\* Mutant of Attached: the words stay behind for the next run as well.
AttachedCopy(r) ==
  /\ words' = [words EXCEPT ![r] = IF pending = {} THEN @ ELSE pending]
  /\ UNCHANGED pending

\* attachPendingLocked: what waited for a run replaces the run's candidate.
Attached(r) ==
  /\ words' = [words EXCEPT ![r] = IF pending = {} THEN @ ELSE pending]
  /\ pending' = {}

Tracks(r) == tracked' = tracked \cup {r}

\* observeStatus of a run that goes on.
Progress(r, t) ==
  /\ r \notin terminal /\ updated[r] <= t
  /\ Tracks(r)
  /\ updated' = [updated EXCEPT ![r] = t]
  /\ IF r \notin superseded /\ (current \in {NoRun, r} \/ currentAt <= t)
     THEN /\ superseded' = superseded \cup ({current} \ {NoRun, r})
          /\ current' = r /\ currentAt' = t
          /\ Attached(r)
     ELSE UNCHANGED <<superseded, words, scopeVars>>
  /\ UNCHANGED <<terminal, settling, owed, outcome>>

\* observeStatus of a run that has ended: its words settle before they are pushed.
\* Then, if it was completed or failed, notifyNativeTaskStatus.
End(r, t) ==
  /\ updated[r] <= t
  /\ Tracks(r)
  /\ updated' = [updated EXCEPT ![r] = t]
  /\ terminal' = terminal \cup {r}
  /\ Rearm(r)
  /\ IF current \in {NoRun, r}
     THEN current' = r /\ currentAt' = t /\ Attached(r)
     ELSE UNCHANGED <<words, scopeVars>>
  /\ owed' \in {owed, owed \cup {r}}
  /\ UNCHANGED superseded

\* Nothing more is done with an outdated status, with progress that has expired or
\* comes after the end, or when the table is full of other conversations' turns.
Ignored(s) ==
  /\ s.time < updated[s.run] \/ ~s.ends \/ s.run \notin tracked
  /\ owed' \in (IF s.ends THEN {owed, owed \cup {s.run}} ELSE {owed})
  /\ UNCHANGED <<turnVars, scopeVars, outcome>>

Observe(s) ==
  /\ s \in sent
  /\ \/ ~s.ends /\ Progress(s.run, s.time)
     \/ s.ends /\ End(s.run, s.time)
     \/ Ignored(s)
  /\ UNCHANGED <<sent, arrived, deliveryVars>>

\* addNativeStatusFallback: an ended turn without words is told of in general terms.
AddFallback(r) ==
  /\ r \in owed
  /\ owed' = owed \ {r}
  /\ IF r \in terminal \ (superseded \cup delivered) /\ words[r] = {}
     THEN /\ words' = [words EXCEPT ![r] = {Summary}]
          /\ Rearm(r)
     ELSE UNCHANGED <<words, settling, outcome>>
  /\ UNCHANGED <<sent, arrived, tracked, terminal, superseded, updated, scopeVars, deliveryVars>>

----------------------------------------------------------------------------
(* Messages.                                                               *)

\* Words without a run belong to the current one, unless its push is on its way.
RunOf(tag) ==
  IF tag # NoRun THEN tag
  ELSE IF current \in terminal /\ current \in inFlight \cup delivered THEN NoRun
  ELSE current

\* Only an ended turn settles.
Settles(r) == r \in terminal

\* Mutant of Rearms: a late message waits for a push that may be over.
RearmsNever(r) == FALSE

\* A late message makes an ended turn settle again.
Rearms(r) == Settles(r)

\* observeVisibleMessageBody. A full table takes no new turn and no new words.
Say(m, tag) ==
  LET r == RunOf(tag) IN
  /\ m \notin arrived
  /\ arrived' = arrived \cup {m}
  /\ \/ /\ r = NoRun
        /\ pending' = pending \cup {m}
        /\ UNCHANGED <<tracked, words, settling, outcome>>
     \/ /\ r # NoRun
        /\ Tracks(r)
        /\ words' = [words EXCEPT ![r] = (@ \ {Summary}) \cup {m}]
        /\ IF Rearms(r) THEN Rearm(r)
                         ELSE UNCHANGED <<settling, outcome>>
        /\ UNCHANGED pending
     \/ /\ IF r = NoRun THEN pending = {} ELSE r \notin tracked
        /\ UNCHANGED <<tracked, words, settling, pending, outcome>>
  /\ UNCHANGED <<sent, terminal, superseded, updated, current, currentAt, owed, deliveryVars>>

\* resetVisibleTailAtWorkingBoundary: the agent goes on working, what it has said
\* so far was no answer.
Work(tag) ==
  LET r == IF tag = NoRun THEN current ELSE tag IN
  /\ pending' = IF tag = NoRun THEN {} ELSE pending
  /\ words' = IF r \in tracked \ terminal THEN [words EXCEPT ![r] = {}] ELSE words
  /\ UNCHANGED <<sent, arrived, tracked, terminal, superseded, updated, settling,
                 current, currentAt, owed, deliveryVars, outcome>>

----------------------------------------------------------------------------
(* Delivery.                                                               *)

Results(r, how) == outcome' = [outcome EXCEPT ![r] = how]
Goes(c, label) == courier' = [courier EXCEPT ![c].does = label]

\* deliverSettledTurn: a goroutine takes a copy of the candidate.
Settle(c, r) ==
  /\ r \in settling /\ Settles(r)
  /\ courier[c] = Idle
  /\ settling' = settling \ {r}
  /\ courier' = IF words[r] = {} THEN courier
                ELSE [courier EXCEPT ![c] = [does |-> "taken", run |-> r, text |-> words[r]]]
  /\ UNCHANGED <<sent, arrived, tracked, terminal, superseded, updated, words, scopeVars,
                 owed, inFlight, delivered, outcome>>

MayStart(r) == r \notin delivered \cup inFlight

\* deliverOnce, up to the call. A full table refuses (Refuse).
Start(c) ==
  LET r == courier[c].run IN
  /\ courier[c].does = "taken"
  /\ IF MayStart(r)
     THEN inFlight' = inFlight \cup {r} /\ Goes(c, "sending")
     ELSE UNCHANGED inFlight /\ Goes(c, "sent")
  /\ UNCHANGED <<sent, arrived, turnVars, scopeVars, owed, delivered, outcome>>

Refuse(c) ==
  /\ courier[c].does = "taken"
  /\ Goes(c, "sent")
  /\ Results(courier[c].run, "failed")
  /\ UNCHANGED <<sent, arrived, turnVars, scopeVars, owed, inFlight, delivered>>

\* The push is queued, or is not.
Send(c) ==
  /\ courier[c].does = "sending"
  /\ inFlight' = inFlight \ {courier[c].run}
  /\ delivered' = delivered \cup {courier[c].run}
  /\ Goes(c, "sent")
  /\ Results(courier[c].run, "told")
  /\ UNCHANGED <<sent, arrived, turnVars, scopeVars, owed>>

SendFails(c) ==
  /\ courier[c].does = "sending"
  /\ inFlight' = inFlight \ {courier[c].run}
  /\ Goes(c, "sent")
  /\ Results(courier[c].run, "failed")
  /\ UNCHANGED <<sent, arrived, turnVars, scopeVars, owed, delivered>>

\* Mutant of Discards: the candidate goes, whatever became of the push.
DiscardsAlways(r) == TRUE

Discards(r) == r \in delivered

\* deliverTurnCandidates after the call: a candidate that is told of is dropped.
Finish(c) ==
  LET r == courier[c].run IN
  /\ courier[c].does = "sent"
  /\ words' = [words EXCEPT ![r] = IF r \in tracked /\ @ = courier[c].text /\ Discards(r)
                                   THEN {} ELSE @]
  /\ courier' = [courier EXCEPT ![c] = Idle]
  /\ UNCHANGED <<sent, arrived, tracked, terminal, superseded, updated, settling, scopeVars,
                 owed, inFlight, delivered, outcome>>

----------------------------------------------------------------------------
(* Forgetting.                                                             *)

\* removeTurnLocked, ten minutes after the end, or when an active turn expires.
ForgetTurn(r) ==
  /\ r \in tracked
  /\ \A c \in Courier : courier[c].run # r
  /\ tracked' = tracked \ {r}
  /\ terminal' = terminal \ {r} /\ superseded' = superseded \ {r} /\ settling' = settling \ {r}
  /\ updated' = [updated EXCEPT ![r] = 0] /\ Results(r, "none")
  /\ words' = [words EXCEPT ![r] = {}]
  /\ current' = IF current = r THEN NoRun ELSE current
  /\ currentAt' = IF current = r THEN 0 ELSE currentAt
  /\ UNCHANGED <<sent, arrived, pending, owed, deliveryVars>>

\* Words that waited for a run for six hours.
ForgetPending ==
  /\ pending # {}
  /\ pending' = {}
  /\ UNCHANGED <<sent, arrived, turnVars, current, currentAt, owed, deliveryVars, outcome>>

\* The record of a push, ten minutes after it: its goroutine has finished.
ForgetDelivery(r) ==
  /\ r \in delivered
  /\ \A c \in Courier : courier[c].run # r
  /\ delivered' = delivered \ {r}
  /\ UNCHANGED <<sent, arrived, turnVars, scopeVars, owed, inFlight, courier, outcome>>

\* The process restarts; everything was in its memory.
Restart ==
  /\ tracked' = {} /\ terminal' = {} /\ superseded' = {} /\ settling' = {}
  /\ updated' = [r \in Run |-> 0]
  /\ words' = [r \in Run |-> {}]
  /\ current' = NoRun /\ currentAt' = 0
  /\ pending' = {} /\ owed' = {} /\ outcome' = [r \in Run |-> "none"]
  /\ inFlight' = {} /\ delivered' = {}
  /\ courier' = [c \in Courier |-> Idle]
  /\ UNCHANGED <<sent, arrived>>

----------------------------------------------------------------------------
Delivers(c) == Start(c) \/ Send(c) \/ Finish(c)

Next ==
  \/ \E r \in Run, ends \in BOOLEAN, t \in Time : Commit(r, ends, t)
  \/ \E s \in sent : Observe(s)
  \/ \E m \in Msg, tag \in Run \cup {NoRun} : Say(m, tag)
  \/ \E tag \in Run \cup {NoRun} : Work(tag)
  \/ \E r \in Run : AddFallback(r) \/ ForgetTurn(r) \/ ForgetDelivery(r)
  \/ \E c \in Courier : \/ \E r \in Run : Settle(c, r)
                        \/ Delivers(c) \/ Refuse(c) \/ SendFails(c)
  \/ ForgetPending \/ Restart

Spec == Init /\ [][Next]_vars

\* Timers fire and goroutines run. (Strong: only the bound on couriers makes a
\* timer wait.)
FairSpec ==
  /\ Spec
  /\ \A r \in Run : SF_vars(\E c \in Courier : Settle(c, r))
  /\ \A c \in Courier : WF_vars(Delivers(c))

----------------------------------------------------------------------------
(* Properties.                                                             *)

\* A run is pushed once while its push is remembered, though its timer fires again
\* during the call, its end is reported again and late messages come.
OnePushPerRun ==
  \A c \in Courier : courier[c].does = "sending" =>
    /\ courier[c].run \notin delivered
    /\ \A d \in Courier \ {c} : courier[d].does = "sending" => courier[d].run # courier[c].run

Ended(r) == \E s \in sent : s.run = r /\ s.ends

\* What is pushed under a run's name, the run has ended: late or early statuses of
\* other runs do not trigger it.
NoEarlyPush == \A c \in Courier : courier[c].does # "idle" => Ended(courier[c].run)

\* Where words are gathered: in a turn, or on their way to the recipient.
Holds(r, m) == m \in words[r] \/ \E c \in Courier : courier[c].run = r /\ m \in courier[c].text

\* Words belong to one run: whatever order statuses and messages come in, none is
\* pushed with two runs, and none that waits for its run is with another already.
WordsHaveOneRun ==
  \A m \in Msg : \A r \in Run : Holds(r, m) =>
    m \notin pending /\ \A q \in Run \ {r} : ~Holds(q, m)

\* The words of an ended turn stay until the turn is pushed or forgotten: a push
\* that fails, or is skipped because another is under way, drops nothing.
EndedTurnsKeepWords ==
  [][\A r \in Run : r \in terminal /\ words[r] # {} /\ words'[r] = {}
       => r \in delivered \/ r \notin terminal']_vars

\* An ended turn that has something to say is told of, unless a push of it failed
\* and neither its end was reported again nor anything said since: no timer, no
\* late message and no repeated end is lost to a race.
EndedTurnsAreTold ==
  \A r \in Run : (r \in terminal /\ words[r] # {})
    ~> (words[r] = {} \/ r \notin terminal \/ outcome[r] # "none")

\* The notices of TurnNotices: its calls are the pushes under way, and the words
\* kept for a run are those of its candidate and of the goroutines' copies.
Notices == INSTANCE TurnNotices
             WITH Word <- Msg, Generic <- Summary, Call <- Courier,
                  ended <- {r \in Run : Ended(r)}, said <- arrived, waiting <- pending,
                  kept <- [r \in Run |-> {m \in Msg : Holds(r, m)}],
                  call <- [c \in Courier |->
                             IF courier[c].does = "sending"
                             THEN [run |-> courier[c].run, text |-> courier[c].text]
                             ELSE [run |-> NoRun, text |-> {}]],
                  told <- delivered

\* In whatever order statuses, messages, timers and answers come, the recipient is
\* told of a run after its end, not twice at a time nor while it is remembered, and
\* with words that were never with another run, even if they were dropped since.
ImplementsNotices == Notices!NoticeSpec

\* An ended turn with something to say never waits for nobody: its timer runs, a
\* goroutine has its candidate as it is, its push is under way, or its push was
\* sent or has failed. No timer is consumed by a copy of words that have changed.
EndedTurnsAreMinded ==
  \A r \in terminal : words[r] # {} =>
    \/ r \in settling \/ r \in inFlight \/ outcome[r] # "none"
    \/ \E c \in Courier : courier[c].run = r /\ courier[c].text = words[r]
=============================================================================
