-------------------------- MODULE TaskRecoveryProofs --------------------------
(***************************************************************************)
(* Machine-checked proofs about TaskRecovery, for any number of nodes,      *)
(* connections and runs, with or without failing calls.                     *)
(***************************************************************************)
EXTENDS TaskRecovery, TLAPS

USE RecoveryAssumption

\* A timer that has fired and passed its grace period.
Fired == {"check", "list", "mark"}

\* One job per connection identifier: a teardown's timer starts when the
\* connection is over.
OneJobPerConn == \A c \in Conn : conn[c] # "off" => job[c] = "off"

\* No connection that was given its generation before a fired timer read it is
\* still on its way into the Hub.
SettledBeforeFire ==
  \A c \in Conn : job[c] \in Fired /\ fresh[c] => \A d \in Conn : conn[d] # "bumped"

\* What the cutoff of a fired timer, or of a reaper, lets through is aged.
CutoffsAreAged ==
  \A j \in Job : j \in Node \/ job[j] \in Fired
    => \A r \in quiet[j] : state[r] \in Active => r \in aged

\* The inductive invariant.
RecoveryInv ==
  /\ TypeOK
  /\ OneJobPerConn
  /\ SettledBeforeFire
  /\ TimersSpareConnected
  /\ CutoffsAreAged

\* Initially no job has anything to do.
LEMMA InitRecoveryInv == Init => RecoveryInv
  BY DEF Init, RecoveryInv, TypeOK, OneJobPerConn, SettledBeforeFire, Fired,
         TimersSpareConnected, CutoffsAreAged, Job

\* Every step of a connection keeps the invariant.
LEMMA ConnKeepsInv ==
  ASSUME RecoveryInv, NEW c \in Conn,
         \/ Acquire(c) \/ CheckCurrent(c) \/ Bump(c) \/ Accept(c) \/ Remove(c)
         \/ Release(c) \/ NoteDisconnect(c) \/ Schedule(c)
  PROVE  RecoveryInv'
<1> USE DEF RecoveryInv, TypeOK, OneJobPerConn, SettledBeforeFire, Fired, Job,
            TimersSpareConnected, Connected, CutoffsAreAged, Active, Final,
            Move, Step, jobVars, runVars
<1>1. CASE Acquire(c) BY <1>1 DEF Acquire
<1>2. CASE CheckCurrent(c) BY <1>2 DEF CheckCurrent
<1>3. CASE Bump(c)
  <2>1. conn' \in [Conn -> {"off", "acquired", "current", "bumped", "on", "rejected",
                            "removed", "dropped", "released", "timed"}]
        /\ conn'[c] \in {"bumped", "rejected"} /\ job[c] = "off"
        /\ \A d \in Conn \ {c} : conn'[d] = conn[d]
    BY <1>3 DEF Bump
  <2>2. CASE NewGeneration(c)
    BY <1>3, <2>1, <2>2 DEF Bump, NewGeneration
  <2>3. CASE conn'[c] = "rejected" /\ UNCHANGED fresh
    BY <1>3, <2>1, <2>3 DEF Bump
  <2> QED BY <1>3, <2>2, <2>3 DEF Bump
<1>4. CASE Accept(c) BY <1>4 DEF Accept
<1>5. CASE Remove(c) BY <1>5 DEF Remove
<1>6. CASE Release(c) BY <1>6 DEF Release
<1>7. CASE NoteDisconnect(c) BY <1>7 DEF NoteDisconnect
<1>8. CASE Schedule(c)
  <2>1. /\ conn[c] = "timed" /\ conn' = [conn EXCEPT ![c] = "off"]
        /\ job' = [job EXCEPT ![c] = "wait"]
        /\ UNCHANGED <<lease, quiet, todo, state, aged>>
    BY <1>8 DEF Schedule
  <2>2. PICK b \in BOOLEAN : fresh' = [fresh EXCEPT ![c] = b]
    BY <1>8 DEF Schedule
  <2>3. TypeOK' BY <2>1, <2>2
  <2>4. OneJobPerConn' BY <2>1
  <2>5. SettledBeforeFire' BY <2>1, <2>2
  <2>6. TimersSpareConnected' BY <2>1, <2>2
  <2>7. CutoffsAreAged' BY <2>1
  <2> QED BY <2>3, <2>4, <2>5, <2>6, <2>7
<1> QED BY <1>1, <1>2, <1>3, <1>4, <1>5, <1>6, <1>7, <1>8

\* So does every step of a timer.
LEMMA TimerKeepsInv ==
  ASSUME RecoveryInv, NEW c \in Conn, Timer(c)
  PROVE  RecoveryInv'
<1> USE DEF RecoveryInv, TypeOK, OneJobPerConn, SettledBeforeFire, Fired, Job,
            TimersSpareConnected, Connected, CutoffsAreAged, Active, Final,
            Step, JobEnds, connVars, runVars
<1>1. CASE Fire(c) BY <1>1 DEF Fire
<1>2. CASE TimerChecks(c) BY <1>2 DEF TimerChecks, SeenOnline, HomeOf
<1>3. CASE TimerLists(c) BY <1>3 DEF TimerLists, Listed
<1>4. CASE TimerMarks(c)
  BY <1>4 DEF TimerMarks, Mark, MarkFails, MayMark, Written
<1>5. CASE TimerGivesUp(c) BY <1>5 DEF TimerGivesUp
<1> QED BY <1>1, <1>2, <1>3, <1>4, <1>5 DEF Timer

\* And every step of a reaper.
LEMMA ReaperKeepsInv ==
  ASSUME RecoveryInv, NEW n \in Node, Reaper(n) \/ ReaperFails(n)
  PROVE  RecoveryInv'
<1> USE DEF RecoveryInv, TypeOK, OneJobPerConn, SettledBeforeFire, Fired, Job,
            TimersSpareConnected, Connected, CutoffsAreAged, Active, Final,
            Step, JobEnds, connVars, runVars
<1>1. CASE Sweep(n) BY <1>1 DEF Sweep
<1>2. CASE ReaperLists(n) BY <1>2 DEF ReaperLists, Listed
<1>3. CASE ReaperChecks(n) BY <1>3 DEF ReaperChecks
<1>4. CASE ReaperReads(n) BY <1>4 DEF ReaperReads
<1>5. CASE ReaperMarks(n)
  <2>1. job[n] = "mark" /\ n \notin Conn /\ fresh' = fresh /\ conn' = conn /\ lease' = lease
        /\ job' = [job EXCEPT ![n] = "check"]
    BY <1>5 DEF ReaperMarks
  <2>2. PICK r \in todo[n] : Mark(n, r)
    BY <1>5 DEF ReaperMarks
  <2>3. TypeOK' BY <2>1, <2>2 DEF Mark, Written
  <2>4. CutoffsAreAged' BY <2>1, <2>2 DEF Mark, Written
  <2> QED BY <2>1, <2>3, <2>4
<1>6. CASE SweepEnds(n) BY <1>6 DEF SweepEnds
<1>7. CASE ReaperFails(n)
  <2>1. n \notin Conn /\ conn' = conn /\ lease' = lease /\ state' = state /\ aged' = aged
    BY <1>7 DEF ReaperFails
  <2>2. CASE job[n] = "list" /\ JobEnds(n) BY <2>1, <2>2
  <2>3. CASE /\ Step(n, "mark")
             /\ fresh' = [fresh EXCEPT ![n] = FALSE]
             /\ UNCHANGED <<quiet, todo>>
    BY <2>1, <2>3
  <2>4. CASE /\ \E r \in todo[n] : todo' = [todo EXCEPT ![n] = @ \ {r}]
             /\ Step(n, "check")
             /\ UNCHANGED <<fresh, quiet>>
    BY <2>1, <2>4
  <2> QED BY <1>7, <2>2, <2>3, <2>4 DEF ReaperFails
<1> QED BY <1>1, <1>2, <1>3, <1>4, <1>5, <1>6, <1>7 DEF Reaper

\* And everything else.
LEMMA NextRecoveryInv == RecoveryInv /\ [Next]_vars => RecoveryInv'
<1> SUFFICES ASSUME RecoveryInv, [Next]_vars PROVE RecoveryInv'
  OBVIOUS
<1> USE DEF RecoveryInv, TypeOK, OneJobPerConn, SettledBeforeFire, Fired, Job,
            TimersSpareConnected, Connected, CutoffsAreAged, Active, Final,
            connVars, jobVars, runVars
<1>1. CASE LeaseExpires BY <1>1 DEF LeaseExpires
<1>2. ASSUME NEW r \in Run, Age(r) \/ Lapse(r) PROVE RecoveryInv'
  BY <1>2 DEF Age, Lapse
<1>3. ASSUME NEW r \in Run, NEW s \in {"idle", "active", "ended"}, Publish(r, s)
      PROVE  RecoveryInv'
  BY <1>3 DEF Publish, Written
<1>4. ASSUME NEW n \in Node, Crash(n) PROVE RecoveryInv'
  BY <1>4 DEF Crash, HomeOf
<1>5. CASE UNCHANGED vars BY <1>5 DEF vars
<1> QED BY <1>1, <1>2, <1>3, <1>4, <1>5, ConnKeepsInv, TimerKeepsInv, ReaperKeepsInv
    DEF Next, Orderly

\* The strengthened invariant holds in every reachable state.
THEOREM RecoveryInvariant == Spec => []RecoveryInv
<1> QED BY InitRecoveryInv, NextRecoveryInv, PTL DEF Spec

\* Every variable keeps its type.
THEOREM RecoveryTypeCorrect == Spec => []TypeOK
<1>1. RecoveryInv => TypeOK BY DEF RecoveryInv
<1> QED BY <1>1, RecoveryInvariant, PTL

\* A timer never gets at the runs of a bot that is registered under its lease.
THEOREM RecoverySparesConnected == Spec => []TimersSpareConnected
<1>1. RecoveryInv => TimersSpareConnected BY DEF RecoveryInv
<1> QED BY <1>1, RecoveryInvariant, PTL

\* Only a run without an update for the grace period is recovered.
THEOREM RecoveryMarksQuiet == Spec => RecoveredWasQuiet
<1>1. ASSUME RecoveryInv, [Next]_vars
      PROVE  \A r \in Run : state[r] # "stale" /\ state'[r] = "stale" => r \in aged
  <2> USE <1>1 DEF RecoveryInv, TypeOK, CutoffsAreAged, Fired, Job
  <2>1. ASSUME NEW j \in Job, NEW q \in Run, Mark(j, q), j \in Node \/ job[j] = "mark"
        PROVE  \A r \in Run : state[r] # "stale" /\ state'[r] = "stale" => r \in aged
    BY <2>1 DEF Mark, MayMark
  <2>2. ASSUME NEW c \in Conn, TimerMarks(c)
        PROVE  \A r \in Run : state[r] # "stale" /\ state'[r] = "stale" => r \in aged
    BY <2>1, <2>2 DEF TimerMarks, MarkFails
  <2>3. ASSUME NEW n \in Node, ReaperMarks(n)
        PROVE  \A r \in Run : state[r] # "stale" /\ state'[r] = "stale" => r \in aged
    BY <2>1, <2>3 DEF ReaperMarks
  <2>4. ASSUME NEW r \in Run, NEW s \in {"idle", "active", "ended"}, Publish(r, s)
        PROVE  \A q \in Run : state[q] # "stale" /\ state'[q] = "stale" => q \in aged
    BY <2>4 DEF Publish
  <2>5. ASSUME NEW r \in Run, Lapse(r)
        PROVE  \A q \in Run : state[q] # "stale" /\ state'[q] = "stale" => q \in aged
    BY <2>5 DEF Lapse
  <2>6. CASE UNCHANGED state BY <2>6
  <2> QED
    BY <2>2, <2>3, <2>4, <2>5, <2>6
    DEF Next, Orderly, vars, runVars, Timer, Reaper, Acquire, CheckCurrent, Bump, Accept, Remove,
        Release, NoteDisconnect, Schedule, Fire, TimerChecks, TimerLists, TimerGivesUp,
        LeaseExpires, Age, Sweep, ReaperLists, ReaperChecks, ReaperReads, SweepEnds,
        ReaperFails, Crash
<1> QED BY <1>1, RecoveryInvariant, PTL DEF Spec, RecoveredWasQuiet

----------------------------------------------------------------------------
(* The lease of the model is the one of the Hub's model.                   *)

\* Nothing happens to the lease, or to the sessions.
LeaseStutters == UNCHANGED <<lease, Over>>

\* Every step of a connection is a step of the abstract lease, or leaves it alone.
LEMMA ConnRefinesLease ==
  ASSUME RecoveryInv, NEW c \in Conn,
         \/ Acquire(c) \/ CheckCurrent(c) \/ Bump(c) \/ Accept(c) \/ Remove(c)
         \/ Release(c) \/ NoteDisconnect(c) \/ Schedule(c)
  PROVE  Lease!LeaseNext \/ LeaseStutters
<1> USE DEF RecoveryInv, TypeOK, Over, LeaseStutters, Move
<1>1. CASE Acquire(c)
  <2>1. Over' = Over \ {c} BY <1>1 DEF Acquire
  <2>2. lease # NoConn => Lease!MayDisplace(lease, c) BY DEF Lease!MayDisplace
  <2>3. Lease!Grant(c) BY <1>1, <2>1, <2>2 DEF Acquire, Lease!Grant
  <2> QED BY <2>3 DEF Lease!LeaseNext
<1>2. CASE CheckCurrent(c) \/ Bump(c) \/ Remove(c)
  <2>1. lease' = lease BY <1>2 DEF CheckCurrent, Bump, Remove
  <2>2. Over' = Over \/ Over' = Over \cup {c} BY <1>2 DEF CheckCurrent, Bump, Remove
  <2>3. ASSUME Over' = Over \cup {c} PROVE Lease!End({c})
    BY <2>1, <2>3 DEF Lease!End
  <2> QED BY <2>1, <2>2, <2>3 DEF Lease!LeaseNext
<1>3. CASE Accept(c)
  <2> DEFINE replaced == {d \in Conn : d # c /\ conn[d] = "on" /\ NodeOf[d] = NodeOf[c]}
  <2>1. lease' = lease BY <1>3 DEF Accept
  <2>2. Over' = Over \cup replaced BY <1>3 DEF Accept
  <2>3. replaced \in SUBSET Conn OBVIOUS
  <2>4. PICK S \in SUBSET Conn : Over' = Over \cup S BY <2>2, <2>3
  <2>5. Lease!End(S) BY <2>1, <2>4 DEF Lease!End
  <2> QED BY <2>5 DEF Lease!LeaseNext
<1>4. CASE Release(c)
  <2>1. Over' = Over /\ c \in Over BY <1>4 DEF Release
  <2>2. lease' = lease \/ (lease = c /\ lease' = NoConn) BY <1>4 DEF Release
  <2>3. ASSUME lease = c, lease' = NoConn PROVE Lease!Release(c)
    BY <2>1, <2>3 DEF Lease!Release
  <2> QED BY <2>1, <2>2, <2>3 DEF Lease!LeaseNext
<1>5. CASE NoteDisconnect(c) \/ Schedule(c) BY <1>5 DEF NoteDisconnect, Schedule
<1> QED BY <1>1, <1>2, <1>3, <1>4, <1>5

\* So is every other step: timers, reapers and the run ledger leave it alone.
LEMMA StepRefinesLease ==
  ASSUME RecoveryInv, [Next]_vars
  PROVE  Lease!LeaseNext \/ LeaseStutters
<1> USE DEF RecoveryInv, TypeOK, Over, LeaseStutters, connVars
<1>1. ASSUME NEW c \in Conn, Timer(c) PROVE LeaseStutters
  BY <1>1 DEF Timer, Fire, TimerChecks, TimerLists, TimerMarks, TimerGivesUp
<1>2. CASE LeaseExpires
  <2>1. lease \in Conn /\ Lease!Release(lease) BY <1>2 DEF LeaseExpires, Lease!Release
  <2> QED BY <2>1 DEF Lease!LeaseNext
<1>3. ASSUME NEW r \in Run,
             Age(r) \/ Lapse(r) \/ \E s \in {"idle", "active", "ended"} : Publish(r, s)
      PROVE  LeaseStutters
  BY <1>3 DEF Age, Lapse, Publish
<1>4. ASSUME NEW n \in Node, Reaper(n) \/ ReaperFails(n) PROVE LeaseStutters
  BY <1>4 DEF Reaper, Sweep, ReaperLists, ReaperChecks, ReaperReads, ReaperMarks,
              SweepEnds, ReaperFails
<1>5. ASSUME NEW n \in Node, Crash(n) PROVE Lease!LeaseNext
  <2> DEFINE lost == {c \in Conn : NodeOf[c] = n}
  <2>1. Over' = Over \cup lost BY <1>5 DEF Crash, HomeOf
  <2>2. lease' = lease \/ (lease' = NoConn /\ lease \in lost) BY <1>5 DEF Crash, HomeOf
  <2>3. Lease!End(lost) BY <2>1, <2>2 DEF Lease!End
  <2> QED BY <2>3 DEF Lease!LeaseNext
<1>6. CASE UNCHANGED vars BY <1>6 DEF vars
<1> QED BY <1>1, <1>2, <1>3, <1>4, <1>5, <1>6, ConnRefinesLease DEF Next, Orderly

\* The recovery works against the lease the Hub keeps (HubConnections implements
\* the same abstract lease): it comes back only after its holder's session, never
\* by the late teardown of another one, nor because a timer or a reaper looked at it.
THEOREM RecoveryImplementsExclusiveLease == Spec => ImplementsExclusiveLease
<1>1. Init => Lease!LeaseInit
  BY DEF Init, Lease!LeaseInit, Over
<1>2. RecoveryInv /\ [Next]_vars => [Lease!LeaseNext]_(Lease!leaseVars)
  BY StepRefinesLease DEF Lease!leaseVars, LeaseStutters, Over
<1> QED BY <1>1, <1>2, RecoveryInvariant, PTL
        DEF Spec, ImplementsExclusiveLease, Lease!LeaseSpec
=============================================================================
