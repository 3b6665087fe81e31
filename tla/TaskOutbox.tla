------------------------------ MODULE TaskOutbox ------------------------------
(***************************************************************************)
(* Delivery of task statuses: the run ledger of one topic and its outbox   *)
(* (db/taskstatus/ledger.go), the dispatcher of every node                 *)
(* (conversation_task_delivery.go), and the conversation list of one web    *)
(* client, fed by those frames and by REST snapshots (sidepanel-view.jsx).  *)
(*                                                                          *)
(* rev counts the revisions of the topic's aggregate; an outbox event is    *)
(* named by the revision it was written with. Timestamps are compared only: *)
(* 2k is the instant of revision k, 2k+1 any instant between it and the     *)
(* next one.                                                                *)
(***************************************************************************)
EXTENDS Naturals, FiniteSets

CONSTANTS
  Run, Node,
  NoRun, NoNode,
  Limit,         \* events a dispatcher claims at a time (32 in the code)
  MaxRev,        \* bound: revisions of the aggregate
  MaxFaults      \* bound: failed calls, crashes, claims that lapse under a running node

ASSUME OutboxAssumption ==
  /\ NoRun \notin Run
  /\ NoNode \notin Node
  /\ Limit \in Nat \ {0}
  /\ MaxRev \in Nat /\ MaxFaults \in Nat

VARIABLES
  state,    \* conversation_task_runs.state; "lapsed": past its expires_at
  at,       \* the revision that last wrote a run: the order of event_updated_at
  rev,      \* revisions of the topic's aggregate so far
  faults,   \* how many of the faults have happened
  outbox,   \* conversation_task_status_outbox
  holder,   \* the node whose claim token an event carries
  due,      \* the events whose available_at is past
  step,     \* what a node's dispatcher does next with its first event
  batch,    \* the claimed events a dispatcher still has to deal with
  loaded,   \* the aggregate it has reloaded
  told,     \* the newest timestamp ever published for the topic
  online,   \* the client's WebSocket is open
  view,     \* the status its conversation list shows
  seen,     \* the runs its list has shown as finished (history)
  rest,     \* its conversation request: "none", "asked" or "answered"
  reply,    \* what the request was answered
  touched   \* a live update was applied since the request was made

ledgerVars   == <<state, at, rev>>
outboxVars   == <<outbox, holder, due>>
dispatchVars == <<step, batch, loaded>>
restVars     == <<rest, reply, touched>>
viewVars     == <<online, view, seen, restVars>>
vars == <<faults, ledgerVars, outboxVars, dispatchVars, told, viewVars>>

Event == 1..MaxRev
Nothing == [run |-> NoRun, state |-> "none", stamp |-> 0]
Status == [run : Run \cup {NoRun}, state : {"none", "idle", "active", "ended"},
           stamp : 0..(2 * MaxRev + 1)]

TypeOK ==
  /\ state \in [Run -> {"unknown", "active", "lapsed", "ended"}]
  /\ at \in [Run -> 0..MaxRev] /\ rev \in 0..MaxRev
  /\ outbox \subseteq 1..rev /\ due \subseteq outbox
  /\ holder \in [Event -> Node \cup {NoNode}] /\ faults \in 0..MaxFaults
  /\ step \in [Node -> {"reload", "stamp", "fanout", "complete"}]
  /\ batch \in [Node -> SUBSET (1..rev)]
  /\ loaded \in [Node -> Status] /\ told \in 0..(2 * MaxRev + 1)
  /\ online \in BOOLEAN /\ view \in Status
  /\ rest \in {"none", "asked", "answered"} /\ reply \in Status
  /\ touched \in BOOLEAN /\ seen \subseteq Run

Init ==
  /\ state = [r \in Run |-> "unknown"]
  /\ at = [r \in Run |-> 0]
  /\ rev = 0
  /\ outbox = {} /\ due = {} /\ faults = 0
  /\ holder = [e \in Event |-> NoNode]
  /\ step = [n \in Node |-> "reload"]
  /\ batch = [n \in Node |-> {}]
  /\ loaded = [n \in Node |-> Nothing]
  /\ told = 0
  /\ online = FALSE /\ view = Nothing /\ seen = {}
  /\ rest = "none" /\ reply = Nothing /\ touched = FALSE

----------------------------------------------------------------------------
(* The ledger.                                                             *)

\* One more of the faults that are bounded.
Fault == faults < MaxFaults /\ faults' = faults + 1

\* Active runs come first, so a completion of one hides no other.
Candidates ==
  LET active == {r \in Run : state[r] = "active"}
  IN IF active # {} THEN active ELSE {r \in Run : state[r] = "ended"}

\* The timestamp of a summary: the run's or the aggregate's, the later one.
Revision(r) == 2 * rev

\* What Summaries and aggregate select; Nothing: every run has expired.
Summary ==
  IF Candidates = {} THEN Nothing
  ELSE LET best == CHOOSE r \in Candidates : \A s \in Candidates : at[s] <= at[r]
       IN [run |-> best, state |-> state[best], stamp |-> Revision(best)]

\* ValidateConversationTaskStatusTransition: late progress resurrects no run.
MayWrite(r, s) == state[r] = "ended" => s = "ended"

\* Upsert, and recovery's MarkStale: the run, the aggregate's revision and the
\* outbox event are one transaction.
Write(r, s) ==
  /\ rev < MaxRev
  /\ MayWrite(r, s)
  /\ state' = [state EXCEPT ![r] = s]
  /\ rev' = rev + 1
  /\ at' = [at EXCEPT ![r] = rev']
  /\ outbox' = outbox \cup {rev'}
  /\ due' = due \cup {rev'}
  /\ UNCHANGED <<faults, holder, dispatchVars, told, viewVars>>

\* expires_at passes; nothing is written and no revision is made.
Lapse(r) ==
  /\ state[r] = "active"
  /\ state' = [state EXCEPT ![r] = "lapsed"]
  /\ UNCHANGED <<faults, at, rev, outboxVars, dispatchVars, told, viewVars>>

----------------------------------------------------------------------------
(* What the client makes of a status.                                      *)

SameRun(s, t) == s.run # NoRun /\ s.run = t.run

\* compareTaskStatusUpdated(s, t) < 0, for two statuses that are there.
Older(s, t) == s # Nothing /\ t # Nothing /\ s.stamp < t.stamp

\* A status that would reopen a run shown as finished.
Reopens(s, t) == SameRun(s, t) /\ t.state = "ended" /\ s.state # "ended"

\* The list shows s from now on.
Show(s) ==
  /\ view' = s
  /\ seen' = IF s.state = "ended" THEN seen \cup {s.run} ELSE seen

\* The handler of live task_status frames. What a frame waits for on its way,
\* it waits for in its dispatcher here: frames of one connection keep their order.
Receive(s) ==
  IF ~online \/ Older(s, view) \/ Reopens(s, view)
  THEN UNCHANGED <<view, seen, touched>>
  ELSE Show(s) /\ touched' = (rest # "none")

----------------------------------------------------------------------------
(* The dispatchers.                                                        *)

Current(n) == CHOOSE e \in batch[n] : \A f \in batch[n] : e <= f

\* The dispatcher is done with its first event, delivered or not.
Skip(n) ==
  /\ batch' = [batch EXCEPT ![n] = @ \ {Current(n)}]
  /\ step' = [step EXCEPT ![n] = "reload"]
  /\ loaded' = [loaded EXCEPT ![n] = Nothing]

\* ClaimEvents: the first events that are due, under a token of this call.
Claim(n) ==
  /\ batch[n] = {} /\ due # {}
  /\ LET claimed == {e \in due : Cardinality({f \in due : f < e}) < Limit}
     IN /\ batch' = [batch EXCEPT ![n] = claimed]
        /\ holder' = [e \in Event |-> IF e \in claimed THEN n ELSE holder[e]]
        /\ due' = due \ claimed
  /\ UNCHANGED <<faults, ledgerVars, outbox, step, loaded, told, viewVars>>

\* Mutant of ClaimLapses: a claim is for ever.
NeverLapses(e) == FALSE

\* The 30 s of a claim pass, after a crash or under a slow node.
ClaimLapses(e) ==
  /\ e \in outbox \ due
  /\ IF holder[e] # NoNode /\ e \in batch[holder[e]]
     THEN Fault
     ELSE UNCHANGED faults
  /\ due' = due \cup {e}
  /\ UNCHANGED <<ledgerVars, outbox, holder, dispatchVars, told, viewVars>>

\* Each attempt reloads the aggregate; without one it says "idle".
Reload(n) ==
  /\ batch[n] # {} /\ step[n] = "reload"
  /\ IF Summary = Nothing
     THEN /\ step' = [step EXCEPT ![n] = "stamp"]
          /\ UNCHANGED loaded
     ELSE /\ step' = [step EXCEPT ![n] = "fanout"]
          /\ loaded' = [loaded EXCEPT ![n] = Summary]
  /\ UNCHANGED <<faults, ledgerVars, outboxVars, batch, told, viewVars>>

\* The idle status carries time.Now(), read after the query.
StampIdle(n) ==
  /\ step[n] = "stamp"
  /\ step' = [step EXCEPT ![n] = "fanout"]
  /\ loaded' = [loaded EXCEPT ![n] = [run |-> NoRun, state |-> "idle", stamp |-> 2 * rev + 1]]
  /\ UNCHANGED <<faults, ledgerVars, outboxVars, batch, told, viewVars>>

\* A frame published for the topic, to a client whose connection may be open.
Publish(frame) ==
  /\ told' = IF frame.stamp > told THEN frame.stamp ELSE told
  /\ Receive(frame)

\* fanoutTaskStatusEvent resolves the recipients, then broadcasts.
Fanout(n) ==
  /\ step[n] = "fanout"
  /\ Publish(loaded[n])
  /\ step' = [step EXCEPT ![n] = "complete"]
  /\ UNCHANGED <<faults, ledgerVars, outboxVars, batch, loaded, online, rest, reply>>

\* Mutant of GiveUp: an error of the fanout is logged only.
GoOn(n) ==
  /\ step' = [step EXCEPT ![n] = "complete"]
  /\ UNCHANGED <<batch, loaded>>

\* An error leaves the event to a later claim.
GiveUp(n) == Skip(n)

\* A lookup or the publication fails; a publication that timed out may have
\* reached its subscribers.
FanoutFails(n) ==
  /\ Fault
  /\ step[n] \in {"reload", "fanout"} /\ batch[n] # {}
  /\ \/ UNCHANGED <<told, view, seen, touched>>
     \/ step[n] = "fanout" /\ Publish(loaded[n])
  /\ GiveUp(n)
  /\ UNCHANGED <<ledgerVars, outboxVars, online, rest, reply>>

\* CompleteEvent deletes the event if it still carries the dispatcher's token.
Complete(n) ==
  /\ step[n] = "complete"
  /\ LET gone == {e \in {Current(n)} : holder[e] = n}
     IN /\ outbox' = outbox \ gone
        /\ due' = due \ gone
        /\ holder' = [e \in Event |-> IF e \in gone THEN NoNode ELSE holder[e]]
  /\ Skip(n)
  /\ UNCHANGED <<faults, ledgerVars, told, viewVars>>

\* The deletion fails, or is committed with its answer lost (Complete).
CompleteFails(n) ==
  /\ Fault
  /\ step[n] = "complete"
  /\ Skip(n)
  /\ UNCHANGED <<ledgerVars, outboxVars, told, viewVars>>

Crash(n) ==
  /\ Fault
  /\ batch[n] # {}
  /\ batch' = [batch EXCEPT ![n] = {}]
  /\ step' = [step EXCEPT ![n] = "reload"]
  /\ loaded' = [loaded EXCEPT ![n] = Nothing]
  /\ UNCHANGED <<ledgerVars, outboxVars, told, viewVars>>

----------------------------------------------------------------------------
(* The client.                                                             *)

\* requestConversations: a request under way is shared by those who ask again.
Ask ==
  IF rest = "none" THEN rest' = "asked" /\ touched' = FALSE
                   ELSE UNCHANGED <<rest, touched>>

\* ws_open refreshes the list.
ComeOnline ==
  /\ ~online
  /\ online' = TRUE
  /\ Ask
  /\ UNCHANGED <<faults, ledgerVars, outboxVars, dispatchVars, told, view, seen, reply>>

GoOffline ==
  /\ online
  /\ online' = FALSE
  /\ UNCHANGED <<faults, ledgerVars, outboxVars, dispatchVars, told, view, seen, restVars>>

\* The page gets the focus, becomes visible, or is loaded.
Refresh ==
  /\ rest = "none"
  /\ Ask
  /\ UNCHANGED <<faults, ledgerVars, outboxVars, dispatchVars, told, online, view, seen, reply>>

\* The conversation list is read.
Answer ==
  /\ rest = "asked"
  /\ rest' = "answered"
  /\ reply' = Summary
  /\ UNCHANGED <<faults, ledgerVars, outboxVars, dispatchVars, told, online, view, seen, touched>>

\* Mutant of Keeps: only the timestamps are compared.
KeepsNewer == Older(reply, view)

\* reconcileConversationTaskStatuses: when what the list shows stays.
Keeps == touched \/ Older(reply, view) \/ Reopens(reply, view)

\* applyConversations.
Apply ==
  /\ rest = "answered"
  /\ IF Keeps THEN UNCHANGED <<view, seen>> ELSE Show(reply)
  /\ rest' = "none" /\ reply' = Nothing /\ touched' = FALSE
  /\ UNCHANGED <<faults, ledgerVars, outboxVars, dispatchVars, told, online>>

RequestFails ==
  /\ Fault
  /\ rest # "none"
  /\ rest' = "none" /\ reply' = Nothing /\ touched' = FALSE
  /\ UNCHANGED <<ledgerVars, outboxVars, dispatchVars, told, online, view, seen>>

----------------------------------------------------------------------------
NodeProgress(n) ==
  Claim(n) \/ Reload(n) \/ StampIdle(n) \/ Fanout(n) \/ Complete(n)

NodeStep(n) ==
  NodeProgress(n) \/ FanoutFails(n) \/ CompleteFails(n) \/ Crash(n)

ClientStep ==
  \/ ComeOnline \/ GoOffline \/ Refresh \/ Answer \/ Apply \/ RequestFails

Next ==
  \/ \E r \in Run : (\E s \in {"active", "ended"} : Write(r, s)) \/ Lapse(r)
  \/ \E e \in Event : ClaimLapses(e)
  \/ \E n \in Node : NodeStep(n)
  \/ ClientStep

Spec == Init /\ [][Next]_vars

\* Claims lapse, dispatchers run (on a ticker of one second), requests end.
Fairness ==
  /\ \A e \in Event : WF_vars(ClaimLapses(e))
  /\ \A n \in Node : WF_vars(NodeProgress(n))
  /\ WF_vars(Answer \/ Apply)

FairSpec == Spec /\ Fairness

----------------------------------------------------------------------------
(* Properties.                                                             *)

\* An outbox event disappears only after the topic was broadcast as it was at
\* that event's revision, or later: no crash, failed fanout or lapsed claim
\* loses a notification (dispatchConversationTaskStatusEvents).
EventsAreTold == \A e \in 1..rev : e \in outbox \/ told >= 2 * e

\* What is shown is never newer than the ledger, and a run shown as finished is
\* finished there: frames and snapshots invent nothing.
ShownIsReal ==
  /\ view.stamp <= 2 * rev + 1
  /\ view.state = "ended" => state[view.run] = "ended"

\* A conversation that has shown a run as finished never shows that run as
\* active again, whatever other runs or an idle topic it shows in between, and
\* in whatever order frames and REST replies come.
NoRevival == view.state = "active" => view.run \notin seen

\* The list never goes back to an older revision of the topic, by a live frame
\* or by a REST reply. (A topic without any unexpired run is shown without.)
ViewMovesForward ==
  [][view' # Nothing => view'.stamp >= view.stamp]_vars

\* Whatever dispatchers, claims, lost answers, frames and list requests do, the
\* client has the feed of StatusFeed: its watcher is the conversation list, and
\* what is owed are the events of the outbox.
Feed == INSTANCE StatusFeed
          WITH Blank <- Nothing, revision <- rev,
               begun <- {r \in Run : state[r] # "unknown"},
               over <- {r \in Run : state[r] = "ended"},
               owed <- outbox, shown <- view, past <- seen

ImplementsFeed == Feed!FeedSpec

\* Every event is told and removed in the end, however often nodes crash.
OutboxDrains == \A e \in Event : (e \in outbox) ~> (e \notin outbox)

ShowsActive(r) == view.run = r /\ view.state = "active"

\* A client that is connected while a run is active, and stays connected, does
\* not go on showing the run as active once it has ended.
WatchedRunsSettle ==
  \A r \in Run :
    [](state[r] = "active" /\ online
       => <>(~online) \/ ~<>[](state[r] = "ended" /\ ShowsActive(r)))
=============================================================================
