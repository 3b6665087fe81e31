----------------------------- MODULE StatusFeed -----------------------------
(***************************************************************************)
(* What the delivery of task statuses promises to whoever watches a topic,  *)
(* without tables, claims, nodes, frames or requests: what is recorded is   *)
(* announced before it is struck off, and what the watcher sees was said of *)
(* the topic, comes in order, and never brings an ended run back.           *)
(*                                                                          *)
(* 2k is the instant of revision k, 2k+1 any instant before the next one.   *)
(***************************************************************************)
EXTENDS Naturals

CONSTANTS Run,
          Status,   \* records of a run, a state and the stamp of an instant
          Blank     \* what is shown of a topic nobody has heard of

VARIABLES revision,  \* of the topic
          begun,     \* the runs that were recorded
          over,      \* the runs that were recorded as ended
          owed,      \* the revisions still to be announced
          told,      \* the newest instant that was announced
          shown,     \* what the watcher sees
          past       \* the runs it has seen end

topicVars == <<revision, begun, over>>
watchVars == <<shown, past>>
feedVars == <<topicVars, owed, told, watchVars>>

FeedInit ==
  /\ revision = 0 /\ begun = {} /\ over = {}
  /\ owed = {} /\ told = 0
  /\ shown = Blank /\ past = {}

\* What has ended stays ended.
Record(r, ends) ==
  /\ r \in over => ends
  /\ revision' = revision + 1
  /\ begun' = begun \cup {r}
  /\ over' = IF ends THEN over \cup {r} ELSE over
  /\ owed' = owed \cup {revision'}
  /\ UNCHANGED <<told, watchVars>>

\* Nothing is said of what has not happened, and a run that has ended is called
\* active only by what is older than the present revision.
Credible(s) ==
  /\ s.stamp <= 2 * revision + 1
  /\ s.state = "ended" => s.run \in over
  /\ s.state = "active" => s.run \in begun /\ (s.run \in over => s.stamp < 2 * revision)

\* The watcher goes on to s: forward, and not back to a run it has seen end; it
\* sees nothing again only if it has seen nothing end.
Watch(s) ==
  /\ Credible(s)
  /\ s # Blank => s.stamp >= shown.stamp
  /\ s = Blank => past = {}
  /\ s.state = "active" => s.run \notin past
  /\ shown' = s
  /\ past' = IF s.state = "ended" THEN past \cup {s.run} ELSE past

\* Everyone is told, and this watcher may hear of it.
Announce(s) ==
  /\ Credible(s) /\ s # Blank
  /\ told' = IF s.stamp > told THEN s.stamp ELSE told
  /\ Watch(s) \/ UNCHANGED watchVars
  /\ UNCHANGED <<topicVars, owed>>

\* The watcher asks for itself.
LookUp(s) ==
  /\ Watch(s)
  /\ UNCHANGED <<topicVars, owed, told>>

\* A revision is struck off once it, or a later one, was announced.
StrikeOff(e) ==
  /\ e \in owed /\ told >= 2 * e
  /\ owed' = owed \ {e}
  /\ UNCHANGED <<topicVars, told, watchVars>>

FeedNext ==
  \/ \E r \in Run, ends \in BOOLEAN : Record(r, ends)
  \/ \E s \in Status : Announce(s) \/ LookUp(s)
  \/ \E e \in owed : StrikeOff(e)

FeedSpec == FeedInit /\ [][FeedNext]_feedVars
=============================================================================
