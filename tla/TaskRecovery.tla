----------------------------- MODULE TaskRecovery -----------------------------
(***************************************************************************)
(* Recovery of the task runs a disconnected bot leaves behind               *)
(* (conversation_task_status.go): the one-shot timer a teardown schedules,  *)
(* the periodic reaper of every node, and the compare-and-set of the run    *)
(* ledger, against a bot that reconnects on any node, publishes at any      *)
(* time, and nodes that crash.                                              *)
(*                                                                          *)
(* Connections are those of HubConnections, of one body, reduced to what    *)
(* recovery looks at: the lease, the durable generation, h.clients.         *)
(*                                                                          *)
(* Times and generations are only ever compared, with a value a recovery    *)
(* job has read before, so a job carries the outcome: fresh[j] says that    *)
(* the generation it read is still the bot's, quiet[j] which runs have not  *)
(* been written since its cutoff.                                           *)
(***************************************************************************)
CONSTANTS Node, Conn, NodeOf, Run,
          Unnamed,       \* the runs whose statuses carry no run_id
          NoConn,
          CallsMayFail   \* TRUE: database calls may return errors

ASSUME RecoveryAssumption ==
  /\ NodeOf \in [Conn -> Node]
  /\ Unnamed \subseteq Run
  /\ Node \cap Conn = {}
  /\ NoConn \notin Conn
  /\ CallsMayFail \in BOOLEAN

\* A job is the recovery timer of a connection's teardown, or a node's reaper.
Job == Conn \cup Node
HomeOf(j) == IF j \in Conn THEN NodeOf[j] ELSE j

VARIABLES
  conn,    \* where a connection is in its registration or teardown
  lease,   \* the connection in the body lease
  job,     \* what a recovery job does next
  fresh,   \* the generation a job has read is still the bot's
  quiet,   \* the runs not updated since a job's cutoff
  todo,    \* the runs a job has listed and not looked at yet
  state,   \* conversation_task_runs.state
  aged     \* runs whose updated_at is the grace period ago, or more

connVars == <<conn, lease>>
jobVars  == <<job, fresh, quiet, todo>>
runVars  == <<state, aged>>
vars == <<connVars, jobVars, runVars>>

Active == {"active", "lapsed"}   \* running or waiting; lapsed: past expires_at
Final  == {"ended", "stale"}     \* stale: written by recovery, not by the bot

TypeOK ==
  /\ conn \in [Conn -> {"off", "acquired", "current", "bumped", "on", "rejected",
                        "removed", "dropped", "released", "timed"}]
  /\ lease \in Conn \cup {NoConn}
  /\ job \in [Job -> {"off", "wait", "check", "list", "read", "mark"}]
  /\ fresh \in [Job -> BOOLEAN]
  /\ quiet \in [Job -> SUBSET Run]
  /\ todo \in [Job -> SUBSET Run]
  /\ state \in [Run -> {"idle"} \cup Active \cup Final]
  /\ aged \subseteq Run

Init ==
  /\ conn = [c \in Conn |-> "off"]
  /\ lease = NoConn
  /\ job = [j \in Job |-> "off"]
  /\ fresh = [j \in Job |-> FALSE]
  /\ quiet = [j \in Job |-> {}]
  /\ todo = [j \in Job |-> {}]
  /\ state = [r \in Run |-> "idle"]
  /\ aged = {}

Move(c, label) == conn' = [conn EXCEPT ![c] = label]
Step(j, label) == job' = [job EXCEPT ![j] = label]

\* A job's goroutine, or one sweep, is over; what it had read is forgotten.
JobEnds(j) ==
  /\ Step(j, "off")
  /\ fresh' = [fresh EXCEPT ![j] = FALSE]
  /\ quiet' = [quiet EXCEPT ![j] = {}]
  /\ todo' = [todo EXCEPT ![j] = {}]

----------------------------------------------------------------------------
(* The bot's connections.                                                  *)

\* The handshake takes the lease, from a connection of the same body too.
Acquire(c) ==
  /\ conn[c] = "off"
  /\ job[c] = "off"
  /\ lease' = c
  /\ Move(c, "acquired")
  /\ UNCHANGED <<jobVars, runVars>>

CheckCurrent(c) ==
  /\ conn[c] = "acquired"
  /\ Move(c, IF lease = c THEN "current" ELSE "rejected")
  /\ UNCHANGED <<lease, jobVars, runVars>>

\* Mutant of NewGeneration: the bump is visible to this node's jobs only.
LocalGeneration(c) ==
  fresh' = [j \in Job |-> fresh[j] /\ HomeOf(j) # NodeOf[c]]

\* A new generation: no value read before is the bot's any more.
NewGeneration(c) == fresh' = [j \in Job |-> FALSE]

\* The generation is durable before the connection is accepted. A failed call
\* rejects the connection, whether or not it was committed.
Bump(c) ==
  /\ conn[c] = "current"
  /\ \/ Move(c, "bumped") /\ NewGeneration(c)
     \/ CallsMayFail /\ Move(c, "rejected") /\ (NewGeneration(c) \/ UNCHANGED fresh)
  /\ UNCHANGED <<lease, job, quiet, todo, runVars>>

\* addRegisteredClient replaces the node's previous connection of the body;
\* nothing is scheduled for that one.
Accept(c) ==
  /\ conn[c] = "bumped"
  /\ conn' = [d \in Conn |-> CASE d = c -> "on"
                               [] d # c /\ conn[d] = "on" /\ NodeOf[d] = NodeOf[c] -> "off"
                               [] OTHER -> conn[d]]
  /\ UNCHANGED <<lease, jobVars, runVars>>

\* Hub.Run takes the connection out of h.clients, or a full buffer does.
Remove(c) ==
  /\ conn[c] = "on"
  /\ Move(c, "removed") \/ Move(c, "dropped")
  /\ UNCHANGED <<lease, jobVars, runVars>>

\* Mutant of Release: the owner recorded in the lease is not compared.
ReleaseAny(c) ==
  /\ conn[c] \in {"removed", "dropped", "rejected"}
  /\ lease' = NoConn
  /\ Move(c, IF conn[c] = "removed" THEN "released" ELSE "off")
  /\ UNCHANGED <<jobVars, runVars>>

\* Only the teardown in Hub.Run goes on to schedule a recovery.
Release(c) ==
  /\ conn[c] \in {"removed", "dropped", "rejected"}
  /\ lease' = IF lease = c THEN NoConn ELSE lease
  /\ Move(c, IF conn[c] = "removed" THEN "released" ELSE "off")
  /\ UNCHANGED <<jobVars, runVars>>

\* disconnectedAt is taken: every run has been written before now ...
NoteDisconnect(c) ==
  /\ conn[c] = "released"
  /\ Move(c, "timed")
  /\ quiet' = [quiet EXCEPT ![c] = Run]
  /\ UNCHANGED <<lease, job, fresh, todo, runVars>>

\* ... then the generation is read and the timer starts. When the read fails,
\* the node's own copy is used, which may be an older one.
Schedule(c) ==
  /\ conn[c] = "timed"
  /\ Move(c, "off")
  /\ Step(c, "wait")
  /\ fresh' \in {[fresh EXCEPT ![c] = b] : b \in {TRUE, ~CallsMayFail}}
  /\ UNCHANGED <<lease, quiet, todo, runVars>>

\* The lease of a connection without a session runs out.
LeaseExpires ==
  /\ lease # NoConn
  /\ conn[lease] \in {"off", "released", "timed"}
  /\ lease' = NoConn
  /\ UNCHANGED <<conn, jobVars, runVars>>

----------------------------------------------------------------------------
(* The run ledger.                                                         *)

\* A write sets updated_at: the run is not older than anybody's cutoff.
Written(r) ==
  /\ quiet' = [j \in Job |-> quiet[j] \ {r}]
  /\ aged' = aged \ {r}

\* The bot publishes a status, by WebSocket or HTTP; a finished run may only be
\* finished again.
Publish(r, s) ==
  /\ state[r] \in Final => s \in Final
  /\ state' = [state EXCEPT ![r] = s]
  /\ Written(r)
  /\ UNCHANGED <<connVars, job, fresh, todo>>

\* Time passes: the grace period since the last update, the run's expiry.
Age(r) ==
  /\ state[r] \in Active
  /\ r \notin aged
  /\ aged' = aged \cup {r}
  /\ UNCHANGED <<connVars, jobVars, state>>

Lapse(r) ==
  /\ state[r] = "active"
  /\ state' = [state EXCEPT ![r] = "lapsed"]
  /\ UNCHANGED <<connVars, jobVars, aged>>

\* Mutant of MayMark: the row is not looked at again under the lock.
MayMarkListed(j, r) == r \notin Unnamed /\ fresh[j] /\ state[r] \in Active

\* MarkStale refuses an empty run id; under the locks of the generation and the
\* topic, the generation is the one the job has read, the run is active and not
\* newer than its cutoff.
MayMark(j, r) ==
  r \notin Unnamed /\ fresh[j] /\ state[r] \in Active /\ r \in quiet[j]

Mark(j, r) ==
  /\ todo' = [todo EXCEPT ![j] = @ \ {r}]
  /\ IF MayMark(j, r)
       THEN state' = [state EXCEPT ![r] = "stale"] /\ Written(r)
       ELSE UNCHANGED <<state, quiet, aged>>

\* The call fails, and the run is left to the next sweep.
MarkFails(j, r) ==
  /\ CallsMayFail
  /\ todo' = [todo EXCEPT ![j] = @ \ {r}]
  /\ UNCHANGED <<state, quiet, aged>>

\* Mutant of Listed: the query's comparison with the cutoff is reversed.
ListedNewer(j) == {r \in Run \ quiet[j] : state[r] = "active"}

\* Active, unexpired runs that were last updated before the cutoff.
Listed(j) == {r \in quiet[j] : state[r] = "active"}

----------------------------------------------------------------------------
(* Is the bot offline, as seen from node n?                                *)

\* IsOnline or botOnlineElsewhere: a lease of the node itself says nothing.
SeenOnline(n) ==
  \/ \E c \in Conn : NodeOf[c] = n /\ conn[c] = "on"
  \/ lease # NoConn /\ NodeOf[lease] # n

----------------------------------------------------------------------------
(* The timer of a disconnected connection.                                 *)

\* After the grace period it goes on if the generation has not changed. (A read
\* that fails compares the node's own copy.) A registration takes less than the
\* grace period, so one that is still on its way was bumped after the schedule.
Fire(c) ==
  /\ job[c] = "wait"
  /\ \A r \in quiet[c] : state[r] \in Active => r \in aged
  /\ fresh[c] => \A d \in Conn : conn[d] # "bumped"
  /\ fresh[c] \/ CallsMayFail
  /\ Step(c, "check")
  /\ UNCHANGED <<connVars, fresh, quiet, todo, runVars>>

TimerGivesUp(c) ==
  /\ \/ job[c] = "wait" /\ (~fresh[c] \/ CallsMayFail)
     \/ job[c] = "check" /\ SeenOnline(NodeOf[c])
     \/ job[c] = "list" /\ CallsMayFail
     \/ job[c] = "mark" /\ todo[c] = {}
  /\ JobEnds(c)
  /\ UNCHANGED <<connVars, runVars>>

TimerChecks(c) ==
  /\ job[c] = "check"
  /\ ~SeenOnline(NodeOf[c])
  /\ Step(c, "list")
  /\ UNCHANGED <<connVars, fresh, quiet, todo, runVars>>

TimerLists(c) ==
  /\ job[c] = "list"
  /\ Step(c, "mark")
  /\ todo' = [todo EXCEPT ![c] = Listed(c)]
  /\ UNCHANGED <<connVars, fresh, quiet, runVars>>

TimerMarks(c) ==
  /\ job[c] = "mark"
  /\ \E r \in todo[c] : Mark(c, r) \/ MarkFails(c, r)
  /\ UNCHANGED <<connVars, job, fresh>>

----------------------------------------------------------------------------
(* The reaper of a node.                                                   *)

\* The cutoff is the grace period ago.
Sweep(n) ==
  /\ job[n] = "off"
  /\ Step(n, "list")
  /\ quiet' = [quiet EXCEPT ![n] = aged]
  /\ UNCHANGED <<connVars, fresh, todo, runVars>>

ReaperLists(n) ==
  /\ job[n] = "list"
  /\ Step(n, "check")
  /\ todo' = [todo EXCEPT ![n] = Listed(n)]
  /\ UNCHANGED <<connVars, fresh, quiet, runVars>>

\* Of each listed run: is its bot (here: the one bot) online?
ReaperChecks(n) ==
  /\ job[n] = "check"
  /\ todo[n] # {}
  /\ IF SeenOnline(n)
       THEN /\ \E r \in todo[n] : todo' = [todo EXCEPT ![n] = @ \ {r}]
            /\ UNCHANGED job
       ELSE Step(n, "read") /\ UNCHANGED todo
  /\ UNCHANGED <<connVars, fresh, quiet, runVars>>

\* If not, the generation its mark will be fenced with is read now.
ReaperReads(n) ==
  /\ job[n] = "read"
  /\ Step(n, "mark")
  /\ fresh' = [fresh EXCEPT ![n] = TRUE]
  /\ UNCHANGED <<connVars, quiet, todo, runVars>>

ReaperMarks(n) ==
  /\ job[n] = "mark"
  /\ \E r \in todo[n] : Mark(n, r)
  /\ Step(n, "check")
  /\ UNCHANGED <<connVars, fresh>>

SweepEnds(n) ==
  /\ job[n] = "check"
  /\ todo[n] = {}
  /\ JobEnds(n)
  /\ UNCHANGED <<connVars, runVars>>

\* One of the sweep's calls fails: the listing, the read of the generation
\* (the node's own copy may be outdated), the mark. The next sweep retries.
ReaperFails(n) ==
  /\ CallsMayFail
  /\ \/ job[n] = "list" /\ JobEnds(n)
     \/ /\ job[n] = "read"
        /\ Step(n, "mark")
        /\ fresh' = [fresh EXCEPT ![n] = FALSE]
        /\ UNCHANGED <<quiet, todo>>
     \/ /\ job[n] = "mark"
        /\ \E r \in todo[n] : todo' = [todo EXCEPT ![n] = @ \ {r}]
        /\ Step(n, "check")
        /\ UNCHANGED <<fresh, quiet>>
  /\ UNCHANGED <<connVars, runVars>>

\* A process dies with its connections, timers and sweeps, and starts again. A
\* lease kept in its memory dies with it, one in Redis does not.
Crash(n) ==
  LET lost(j) == HomeOf(j) = n IN
  /\ conn' = [c \in Conn |-> IF lost(c) THEN "off" ELSE conn[c]]
  /\ job' = [j \in Job |-> IF lost(j) THEN "off" ELSE job[j]]
  /\ todo' = [j \in Job |-> IF lost(j) THEN {} ELSE todo[j]]
  /\ fresh' = [j \in Job |-> fresh[j] /\ ~lost(j)]
  /\ quiet' = [j \in Job |-> IF lost(j) THEN {} ELSE quiet[j]]
  /\ \/ UNCHANGED lease
     \/ \E c \in Conn : lost(c) /\ lease = c /\ lease' = NoConn
  /\ UNCHANGED runVars

----------------------------------------------------------------------------
Timer(c) == Fire(c) \/ TimerChecks(c) \/ TimerLists(c) \/ TimerMarks(c) \/ TimerGivesUp(c)

Reaper(n) ==
  \/ Sweep(n) \/ ReaperLists(n) \/ ReaperChecks(n)
  \/ ReaperReads(n) \/ ReaperMarks(n) \/ SweepEnds(n)

\* Neither a crash nor a failing call of a sweep.
Orderly ==
  \/ \E c \in Conn :
       \/ Acquire(c) \/ CheckCurrent(c) \/ Bump(c) \/ Accept(c) \/ Remove(c)
       \/ Release(c) \/ NoteDisconnect(c) \/ Schedule(c) \/ Timer(c)
  \/ LeaseExpires
  \/ \E r \in Run : Age(r) \/ Lapse(r) \/ \E s \in {"idle", "active", "ended"} : Publish(r, s)
  \/ \E n \in Node : Reaper(n)

Next == Orderly \/ \E n \in Node : ReaperFails(n) \/ Crash(n)

Spec == Init /\ [][Next]_vars

\* Reapers sweep for ever, leases run out, time passes.
Fairness ==
  /\ \A n \in Node : WF_vars(Reaper(n))
  /\ \A r \in Run : WF_vars(Age(r))
  /\ WF_vars(LeaseExpires)

FairSpec == Spec /\ Fairness
----------------------------------------------------------------------------
(* What must hold.                                                         *)

Connected == \E c \in Conn : conn[c] = "on" /\ lease = c

\* "An old timer can never recover a fresh generation" (botConnectionEpoch): as
\* long as a timer's marks would succeed, no connection of the bot is registered
\* under the lease, however reconnections, on any node, race with the timer.
TimersSpareConnected ==
  \A c \in Conn : job[c] \in {"list", "mark"} /\ fresh[c] => ~Connected

\* Only a run without an update for the grace period is marked, whatever has
\* been published between the listing and the mark.
RecoveredWasQuiet ==
  [][\A r \in Run : state[r] # "stale" /\ state'[r] = "stale" => r \in aged]_vars

Offline == \A c \in Conn : conn[c] = "off"

\* The reaper complements the timers: once processes stop crashing and its calls
\* succeed, an active run does not outlive its grace period while its bot is
\* offline, though crashes, displacements and full buffers lose the timers. A run
\* without an id is exempt: it is listed by every sweep and marked by none.
AbandonedRunsEnd ==
  <>[][Orderly]_vars
  => \A r \in Run \ Unnamed :
       (Offline /\ state[r] = "active" /\ r \in aged)
         ~> (~Offline \/ state[r] # "active" \/ r \notin aged)

\* The connections without a session (any more).
Over ==
  {c \in Conn : conn[c] \notin {"acquired", "current", "bumped", "on"}}

\* The lease of ExclusiveLease, with one body. Every session renews its lease, so
\* it runs out only once its holder's session has ended.
Lease == INSTANCE ExclusiveLease
           WITH holder <- lease, ended <- Over, Body <- {"body"},
                BodyOf <- [c \in Conn |-> "body"], LegacyBody <- {}, Unreliable <- {}

\* The lease the recovery looks at is the one the Hub keeps: connections displace
\* each other, and it comes back only after its holder's session, however late
\* teardowns, timeouts and crashes come. Recoveries neither take nor return it.
ImplementsExclusiveLease == Lease!LeaseSpec
=============================================================================
