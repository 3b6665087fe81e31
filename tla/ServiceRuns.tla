------------------------------ MODULE ServiceRuns ------------------------------
(***************************************************************************)
(* The runs of service agents: rows of service_runs, claimed under a lease  *)
(* by workers that poll (service-run-worker), or executed by the platform   *)
(* itself, which forwards a run to a bot or to an endpoint; the reaper that *)
(* collects expired leases; the receipts; and the ledger of ended runs with *)
(* its charges at the relay.                                                *)
(*                                                                          *)
(* Every store method is one transaction on the row, hence one action. An   *)
(* executor's view of the row can be out of date at any of them.            *)
(***************************************************************************)
EXTENDS Integers, FiniteSets

CONSTANTS
  Run, Session, Worker,
  KindOf,        \* of a session: runner.type of the definition it is pinned to
  Placements,    \* the sessions the runs may be created in
  Node, HomeOf,  \* platform processes; the one that dispatches a run
  MaxAttempts,   \* 3 in ReapExpiredServiceRuns
  MaxInflight,   \* runs of the bot at once (tuning.MaxInflight)
  Nobody, NoRun,
  CallsMayFail,  \* TRUE: a call may fail, before or after having taken effect
  CountsMayFail  \* TRUE: so may the count of the admission gate

Kind == {"worker", "bot", "external"}

ASSUME ServiceAssumption ==
  /\ KindOf \in [Session -> Kind]
  /\ Placements \subseteq [Run -> Session]
  /\ HomeOf \in [Run -> Node]
  /\ MaxAttempts \in Nat \ {0} /\ MaxInflight \in Nat \ {0}
  /\ Nobody \notin Worker \cup Node
  /\ Worker \cap Node = {}
  /\ NoRun \notin Run
  /\ IsFiniteSet(Run) /\ IsFiniteSet(Node)
  /\ CountsMayFail \in BOOLEAN

VARIABLES
  state,     \* service_runs.state ("none": no such row)
  session,   \* service_runs.session_id
  owner,     \* instance_id: a worker, or the process that forwards the run
  lapsed,    \* lease_expires_at is in the past
  attempts,
  old,       \* created more than two minutes ago
  finished,  \* finished_at is not null
  receipt,   \* the status in service_run_receipts ("none": no such row)
  at, on,    \* a worker: where executeRun is, and with which run
  task,      \* the platform's goroutine for a run
  ledger,    \* service_run_ledger.billing_state ("none": no such row)
  billed,    \* service_run_ledger.status
  late,      \* finished too long ago for the sweep that would handle the run next
  paid,      \* external: the relay has booked the run's charge
  sweep      \* the ledger writer of a process: what it does, for which run

rowVars  == <<state, session, owner, lapsed, attempts, old, finished, receipt>>
execVars == <<at, on, task>>
billVars == <<ledger, billed, late, paid, sweep>>
vars == <<rowVars, execVars, billVars>>

Final  == {"completed", "awaiting", "failed"}
Active == {"submitted", "running"}
Resting == [does |-> "rest", run |-> NoRun, as |-> "none"]

TypeOK ==
  /\ state \in [Run -> {"none", "orphaned"} \cup Active \cup Final]
  /\ session \in [Run -> Session]
  /\ owner \in [Run -> Worker \cup Node \cup {Nobody}]
  /\ lapsed \in [Run -> BOOLEAN]
  /\ attempts \in [Run -> 0 .. MaxAttempts]
  /\ old \in [Run -> BOOLEAN]
  /\ finished \in [Run -> BOOLEAN]
  /\ receipt \in [Run -> {"none"} \cup Final]
  /\ at \in [Worker -> {"idle", "claimed", "working", "done", "failed", "retry"}]
  /\ on \in [Worker -> Run \cup {NoRun}]
  /\ task \in [Run -> {"none", "dispatched", "admitted", "busy", "working"}]
  /\ ledger \in [Run -> {"none", "closed", "pending", "charged", "refused"}]
  /\ billed \in [Run -> {"none"} \cup Final]
  /\ late \in [Run -> BOOLEAN]
  /\ paid \in [Run -> BOOLEAN]
  /\ sweep \in [Node -> [does : {"rest", "record", "charge", "mark", "refuse"},
                         run : Run \cup {NoRun}, as : {"none"} \cup Final]]

Init ==
  /\ state = [r \in Run |-> "none"]
  /\ session \in Placements
  /\ owner = [r \in Run |-> Nobody]
  /\ lapsed = [r \in Run |-> FALSE]
  /\ attempts = [r \in Run |-> 0]
  /\ old = [r \in Run |-> FALSE]
  /\ finished = [r \in Run |-> FALSE]
  /\ receipt = [r \in Run |-> "none"]
  /\ at = [w \in Worker |-> "idle"]
  /\ on = [w \in Worker |-> NoRun]
  /\ task = [r \in Run |-> "none"]
  /\ ledger = [r \in Run |-> "none"]
  /\ billed = [r \in Run |-> "none"]
  /\ late = [r \in Run |-> FALSE]
  /\ paid = [r \in Run |-> FALSE]
  /\ sweep = [n \in Node |-> Resting]

KindOfRun(r) == KindOf[session[r]]

----------------------------------------------------------------------------
(* The store's transactions.                                               *)

\* CreateServiceRunIdempotent: one unfinished run per session (an orphaned one
\* does not count); the platform dispatches what it executes itself. A repeated
\* client_token returns the existing row and changes nothing.
Create(r) ==
  /\ state[r] = "none"
  /\ \A q \in Run : session[q] = session[r] => state[q] \notin Active
  /\ state' = [state EXCEPT ![r] = "submitted"]
  /\ task' = [task EXCEPT ![r] = IF KindOfRun(r) = "worker" THEN "none" ELSE "dispatched"]
  /\ UNCHANGED <<session, owner, lapsed, attempts, old, finished, receipt, at, on, billVars>>

\* The row becomes running, held by i under a new lease.
Holds(r, i) ==
  /\ state' = [state EXCEPT ![r] = "running"]
  /\ owner' = [owner EXCEPT ![r] = i]
  /\ lapsed' = [lapsed EXCEPT ![r] = FALSE]
  /\ UNCHANGED <<session, old, finished, receipt>>

\* The row ends in a final state; its receipt is inserted in the same transaction,
\* ON CONFLICT DO NOTHING (insertServiceRunReceiptTx).
Receipt(r, final) == IF receipt[r] = "none" THEN final ELSE receipt[r]

Ends(r, final) ==
  /\ state' = [state EXCEPT ![r] = final]
  /\ owner' = [owner EXCEPT ![r] = Nobody]
  /\ lapsed' = [lapsed EXCEPT ![r] = FALSE]
  /\ finished' = [finished EXCEPT ![r] = TRUE]
  /\ receipt' = [receipt EXCEPT ![r] = Receipt(r, final)]
  /\ UNCHANGED <<session, attempts, old>>

\* (mutant) completes whatever is not completed yet
CompleteUnchecked(r, final) == state[r] # "none" /\ Ends(r, final)

\* CompleteServiceRun and AwaitServiceRunInput: whoever calls, a running row ends.
CompleteRow(r, final) == state[r] = "running" /\ Ends(r, final)

\* A row it refuses: not running, and not the replay of the same result.
Conflict(r, final) == state[r] \notin {"running", final}

\* (mutant) fails a row in whatever state
FailUnchecked(r, retryable) ==
  IF retryable THEN UNCHANGED rowVars ELSE Ends(r, "failed")

\* FailServiceRun: a row that is neither running nor submitted is left alone.
FailRow(r, retryable) ==
  \/ state[r] \in Active /\ ~retryable /\ Ends(r, "failed")
  \/ /\ state[r] \in Active /\ retryable
     /\ state' = [state EXCEPT ![r] = "orphaned"]
     /\ owner' = [owner EXCEPT ![r] = Nobody]
     /\ lapsed' = [lapsed EXCEPT ![r] = FALSE]
     /\ UNCHANGED <<session, attempts, old, finished, receipt>>
  \/ state[r] \notin Active /\ UNCHANGED rowVars

\* RenewServiceLease.
Owns(i, r) == state[r] = "running" /\ owner[r] = i
RenewRow(r) ==
  /\ lapsed' = [lapsed EXCEPT ![r] = FALSE]
  /\ UNCHANGED <<state, session, owner, attempts, old, finished, receipt>>

\* (mutant) only collects expired leases
ReapLeases ==
  LET expired(r) == state[r] = "running" /\ lapsed[r]
      lost(r) == expired(r) /\ (KindOfRun(r) = "bot" \/ attempts[r] >= MaxAttempts)
  IN
  /\ \E r \in Run : expired(r)
  /\ state' = [r \in Run |-> IF lost(r) THEN "failed" ELSE IF expired(r) THEN "orphaned" ELSE state[r]]
  /\ owner' = [r \in Run |-> IF expired(r) THEN Nobody ELSE owner[r]]
  /\ lapsed' = [r \in Run |-> lapsed[r] /\ ~expired(r)]
  /\ receipt' = [r \in Run |-> IF lost(r) THEN Receipt(r, "failed") ELSE receipt[r]]
  /\ UNCHANGED <<session, attempts, old, finished, execVars, billVars>>

\* ReapExpiredServiceRuns, one transaction over all rows. It does not write
\* finished_at.
Reap ==
  LET expired(r) == state[r] = "running" /\ lapsed[r]
      unclaimed(r) == state[r] = "submitted" /\ old[r]
      lost(r) == expired(r) /\ (KindOfRun(r) = "bot" \/ attempts[r] >= MaxAttempts)
      fails(r) == lost(r) \/ unclaimed(r)
  IN
  /\ \E r \in Run : expired(r) \/ unclaimed(r)
  /\ state' = [r \in Run |-> IF fails(r) THEN "failed"
                             ELSE IF expired(r) THEN "orphaned" ELSE state[r]]
  /\ owner' = [r \in Run |-> IF expired(r) THEN Nobody ELSE owner[r]]
  /\ lapsed' = [r \in Run |-> lapsed[r] /\ ~expired(r)]
  /\ receipt' = [r \in Run |-> IF fails(r) THEN Receipt(r, "failed") ELSE receipt[r]]
  /\ UNCHANGED <<session, attempts, old, finished, execVars, billVars>>

\* Two minutes pass without anybody starting a run.
GrowsOld(r) ==
  /\ state[r] = "submitted" /\ ~old[r]
  /\ old' = [old EXCEPT ![r] = TRUE]
  /\ UNCHANGED <<state, session, owner, lapsed, attempts, finished, receipt, execVars, billVars>>

\* A lease runs out: nobody renews it, or its holder stalls.
LeaseLapses(r) ==
  /\ state[r] = "running" /\ ~lapsed[r]
  /\ lapsed' = [lapsed EXCEPT ![r] = TRUE]
  /\ UNCHANGED <<state, session, owner, attempts, old, finished, receipt, execVars, billVars>>

----------------------------------------------------------------------------
(* Workers.                                                                *)

Goes(w, label) ==
  /\ at' = [at EXCEPT ![w] = label]
  /\ on' = [on EXCEPT ![w] = IF label = "idle" THEN NoRun ELSE @]
  /\ UNCHANGED task

\* (mutant) a takeover is not counted
ClaimUncounted(w, r) ==
  /\ at[w] = "idle" /\ KindOfRun(r) = "worker" /\ state[r] \in {"submitted", "orphaned"}
  /\ Holds(r, w)
  /\ at' = [at EXCEPT ![w] = "claimed"] /\ on' = [on EXCEPT ![w] = r]
  /\ UNCHANGED <<attempts, task, billVars>>

\* claimServiceRuns for a worker that asks for one run; its answer may be lost.
Claim(w, r) ==
  /\ at[w] = "idle"
  /\ KindOfRun(r) = "worker"
  /\ state[r] \in {"submitted", "orphaned"}
  /\ Holds(r, w)
  /\ attempts' = [attempts EXCEPT ![r] = IF @ < MaxAttempts THEN @ + 1 ELSE @]
  /\ \/ at' = [at EXCEPT ![w] = "claimed"] /\ on' = [on EXCEPT ![w] = r]
     \/ CallsMayFail /\ UNCHANGED <<at, on>>
  /\ UNCHANGED <<task, billVars>>

\* Renew before anything else; without the lease the run is skipped.
FirstRenewal(w) ==
  /\ at[w] = "claimed"
  /\ \/ Owns(w, on[w]) /\ RenewRow(on[w]) /\ Goes(w, "working")
     \/ (CallsMayFail \/ ~Owns(w, on[w])) /\ UNCHANGED rowVars /\ Goes(w, "idle")
  /\ UNCHANGED billVars

\* The heartbeat; one failed renewal kills the command, which then counts as a
\* command that exited with an error.
Heartbeat(w) ==
  /\ at[w] = "working"
  /\ \/ Owns(w, on[w]) /\ RenewRow(on[w]) /\ UNCHANGED execVars
     \/ (CallsMayFail \/ ~Owns(w, on[w])) /\ UNCHANGED rowVars /\ Goes(w, "failed")
  /\ UNCHANGED billVars

\* The command succeeds, fails (or is killed, or is missing), or could not be
\* started before the deadline or the shutdown of the worker.
CommandEnds(w) ==
  /\ at[w] = "working"
  /\ \E label \in {"done", "failed", "retry"} : Goes(w, label)
  /\ UNCHANGED <<rowVars, billVars>>

\* completeRun; when the call fails or is refused, failRun(retryable).
ReportDone(w) ==
  /\ at[w] = "done"
  /\ \/ CompleteRow(on[w], "completed") /\ Goes(w, "idle")
     \/ state[on[w]] = "completed" /\ UNCHANGED rowVars /\ Goes(w, "idle")
     \/ (CallsMayFail \/ Conflict(on[w], "completed")) /\ UNCHANGED rowVars /\ Goes(w, "retry")
     \/ CallsMayFail /\ CompleteRow(on[w], "completed") /\ Goes(w, "retry")
  /\ UNCHANGED billVars

\* failRun, tried once. It names the run, not the instance.
ReportFailure(w) ==
  /\ at[w] \in {"failed", "retry"}
  /\ FailRow(on[w], at[w] = "retry") \/ (CallsMayFail /\ UNCHANGED rowVars)
  /\ Goes(w, "idle")
  /\ UNCHANGED billVars

WorkerDies(w) ==
  /\ at[w] # "idle"
  /\ Goes(w, "idle")
  /\ UNCHANGED <<rowVars, billVars>>

----------------------------------------------------------------------------
(* Runs the platform executes: ServiceBotRunner.execute and                *)
(* ServiceExternalRunner.execute.                                          *)

Proceeds(r, label) ==
  /\ task' = [task EXCEPT ![r] = label]
  /\ UNCHANGED <<at, on>>

\* The bot is gone, not its owner's or offline: the run fails before it starts.
BotRefused(r) ==
  /\ task[r] = "dispatched" /\ KindOfRun(r) = "bot"
  /\ FailRow(r, FALSE) \/ (CallsMayFail /\ UNCHANGED rowVars)
  /\ Proceeds(r, "none")
  /\ UNCHANGED billVars

RunningBots == {q \in Run : state[q] = "running" /\ KindOfRun(q) = "bot"}

\* (mutant) no lock around the check and the start
NoLock(n) == n \in Node

\* lockAgentAdmission: checked and started under a lock of the process.
Unlocked(n) == \A q \in Run : HomeOf[q] = n => task[q] # "admitted"

\* The admission gate counts the bot's other running runs; a count that fails
\* lets the run pass.
Admit(r) ==
  /\ task[r] = "dispatched" /\ KindOfRun(r) = "bot"
  /\ Unlocked(HomeOf[r])
  /\ \/ CountsMayFail /\ Proceeds(r, "admitted")
     \/ Proceeds(r, IF Cardinality(RunningBots \ {r}) < MaxInflight THEN "admitted" ELSE "busy")
  /\ UNCHANGED <<rowVars, billVars>>

\* failRetryable, although nobody retries the run of a bot.
BusyReply(r) ==
  /\ task[r] = "busy"
  /\ FailRow(r, TRUE) \/ (CallsMayFail /\ UNCHANGED rowVars)
  /\ Proceeds(r, "none")
  /\ UNCHANGED billVars

\* StartServiceRun, only from submitted; when it errs, nobody executes the run.
StartTask(r) ==
  /\ task[r] = (IF KindOfRun(r) = "bot" THEN "admitted" ELSE "dispatched")
  /\ \/ /\ state[r] = "submitted"
        /\ Holds(r, HomeOf[r]) /\ UNCHANGED attempts
        /\ Proceeds(r, "working") \/ (CallsMayFail /\ Proceeds(r, "none"))
     \/ /\ state[r] # "submitted" \/ CallsMayFail
        /\ UNCHANGED rowVars
        /\ Proceeds(r, "none")
  /\ UNCHANGED billVars

\* keepLeaseAlive of a bot's run.
TaskRenews(r) ==
  /\ task[r] = "working" /\ KindOfRun(r) = "bot"
  /\ Owns(HomeOf[r], r)
  /\ RenewRow(r)
  /\ UNCHANGED <<execVars, billVars>>

\* The answer arrives, or a failure: the row ends, unless it was reaped before.
TaskEnds(r) ==
  /\ task[r] = "working"
  /\ \/ CompleteRow(r, "completed")
     \/ KindOfRun(r) = "external" /\ CompleteRow(r, "awaiting")
     \/ state[r] # "running" /\ UNCHANGED rowVars
     \/ FailRow(r, FALSE)
     \/ CallsMayFail /\ UNCHANGED rowVars
  /\ Proceeds(r, "none")
  /\ UNCHANGED billVars

\* The endpoint says "running", or takes so long that the context the failure
\* would be stored with has expired: nothing is stored.
EndpointSilent(r) ==
  /\ task[r] = "working" /\ KindOfRun(r) = "external"
  /\ Proceeds(r, "none")
  /\ UNCHANGED <<rowVars, billVars>>

\* RecoverPending: an external run nobody has started is dispatched again.
Redispatch(r) ==
  /\ task[r] = "none" /\ KindOfRun(r) = "external"
  /\ state[r] = "submitted" /\ attempts[r] = 0
  /\ Proceeds(r, "dispatched")
  /\ UNCHANGED <<rowVars, billVars>>

\* A platform process restarts: its goroutines and sweeps are gone.
PlatformDies(n) ==
  /\ task' = [r \in Run |-> IF HomeOf[r] = n THEN "none" ELSE task[r]]
  /\ sweep' = [sweep EXCEPT ![n] = Resting]
  /\ UNCHANGED <<rowVars, at, on, ledger, billed, late, paid>>

----------------------------------------------------------------------------
(* The ledger writer's sweeps: rows are listed, then handled one by one.   *)

Billing(n, does, r, as) == sweep' = [sweep EXCEPT ![n] = [does |-> does, run |-> r, as |-> as]]
Rests(n) == sweep' = [sweep EXCEPT ![n] = Resting]

\* (mutant) forgets the runs that await input
ListEnded(n, r) ==
  /\ sweep[n].does = "rest"
  /\ state[r] \in {"completed", "failed"} /\ finished[r] /\ ledger[r] = "none" /\ ~late[r]
  /\ Billing(n, "record", r, state[r])
  /\ UNCHANGED <<rowVars, execVars, ledger, billed, late, paid>>

\* ListBillableServiceRuns: ended, with a finished_at of the last 48 hours, and
\* without a ledger row.
ListBillable(n, r) ==
  /\ sweep[n].does = "rest"
  /\ state[r] \in Final /\ finished[r] /\ ledger[r] = "none" /\ ~late[r]
  /\ Billing(n, "record", r, state[r])
  /\ UNCHANGED <<rowVars, execVars, ledger, billed, late, paid>>

\* Time passes: 48 hours since finished_at without a ledger row, or seven days
\* with a charge still to come. A row is inserted within the 20 s of its sweep,
\* so that it starts inside the second window.
WindowPasses(r) ==
  /\ finished[r] /\ ledger[r] \in {"none", "pending"} /\ ~late[r]
  /\ late' = [late EXCEPT ![r] = TRUE]
  /\ UNCHANGED <<rowVars, execVars, ledger, billed, paid, sweep>>

\* r is settled, or inside the window of the sweep that comes next.
OnTime(r) == late' = [late EXCEPT ![r] = FALSE]

\* RecordServiceRunLedger, ON CONFLICT DO NOTHING; free, settled and self calls
\* (resolveBillingState) need no charge.
Record(n) ==
  LET r == sweep[n].run IN
  /\ sweep[n].does = "record"
  /\ \/ /\ ledger[r] = "none"
        /\ \E as \in {"closed", "pending"} : ledger' = [ledger EXCEPT ![r] = as]
        /\ billed' = [billed EXCEPT ![r] = sweep[n].as]
        /\ OnTime(r)
     \/ ledger[r] # "none" /\ UNCHANGED <<ledger, billed, late>>
  /\ Rests(n)
  /\ UNCHANGED <<rowVars, execVars, paid>>

\* ListPendingCreditLedger: finished in the last seven days. (A pending row has a
\* payer, the account of the session, and an amount: see resolveBillingState.)
ListPending(n, r) ==
  /\ sweep[n].does = "rest"
  /\ ledger[r] = "pending" /\ ~late[r]
  /\ Billing(n, "charge", r, "none")
  /\ UNCHANGED <<rowVars, execVars, ledger, billed, late, paid>>

\* ChargeUser with the run's id: booked once, however often it is asked for.
Charge(n) ==
  LET r == sweep[n].run IN
  /\ sweep[n].does = "charge"
  /\ paid' = [paid EXCEPT ![r] = TRUE]
  /\ Billing(n, "mark", r, "none")
  /\ UNCHANGED <<rowVars, execVars, ledger, billed, late>>

\* The relay refuses for good (4xx), which it does only to a charge it has not booked.
Refuse(n) ==
  LET r == sweep[n].run IN
  /\ sweep[n].does = "charge" /\ ~paid[r]
  /\ Billing(n, "refuse", r, "none")
  /\ UNCHANGED <<rowVars, execVars, ledger, billed, late, paid>>

\* MarkServiceRunLedgerState, only from pending_credit.
MarkLedger(n) ==
  LET r == sweep[n].run IN
  /\ sweep[n].does \in {"mark", "refuse"}
  /\ \/ /\ ledger[r] = "pending"
        /\ ledger' = [ledger EXCEPT ![r] = IF sweep[n].does = "mark" THEN "charged" ELSE "refused"]
        /\ OnTime(r)
     \/ ledger[r] # "pending" /\ UNCHANGED <<ledger, late>>
  /\ Rests(n)
  /\ UNCHANGED <<rowVars, execVars, billed, paid>>

\* (mutant) a lost answer of the relay counts as a refusal
SweepGivesUp(n) ==
  /\ CallsMayFail
  /\ sweep[n].does = "charge"
  /\ paid' \in {paid, [paid EXCEPT ![sweep[n].run] = TRUE]}
  /\ Billing(n, "refuse", sweep[n].run, "none")
  /\ UNCHANGED <<rowVars, execVars, ledger, billed, late>>

\* A call of a sweep fails; a charge may have been booked all the same.
SweepFails(n) ==
  /\ CallsMayFail
  /\ sweep[n].does # "rest"
  /\ \/ UNCHANGED paid
     \/ sweep[n].does = "charge" /\ paid' = [paid EXCEPT ![sweep[n].run] = TRUE]
  /\ Rests(n)
  /\ UNCHANGED <<rowVars, execVars, ledger, billed, late>>

----------------------------------------------------------------------------
WorkerStep(w) ==
  \/ FirstRenewal(w) \/ Heartbeat(w) \/ CommandEnds(w)
  \/ ReportDone(w) \/ ReportFailure(w) \/ WorkerDies(w)

TaskStep(r) ==
  \/ BotRefused(r) \/ Admit(r) \/ BusyReply(r) \/ StartTask(r) \/ TaskRenews(r)
  \/ TaskEnds(r) \/ EndpointSilent(r) \/ Redispatch(r)

SweepActs(n) ==
  \/ Record(n) \/ Charge(n) \/ Refuse(n) \/ MarkLedger(n)
  \/ \E r \in Run : ListBillable(n, r) \/ ListPending(n, r)

SweepStep(n) == SweepActs(n) \/ SweepFails(n)

\* No platform process dies, and no call of a sweep fails.
Orderly ==
  \/ \E r \in Run : Create(r) \/ GrowsOld(r) \/ LeaseLapses(r) \/ WindowPasses(r) \/ TaskStep(r)
  \/ Reap
  \/ \E w \in Worker : WorkerStep(w) \/ \E r \in Run : Claim(w, r)
  \/ \E n \in Node : SweepActs(n)

Next == Orderly \/ \E n \in Node : SweepFails(n) \/ PlatformDies(n)

Spec == Init /\ [][Next]_vars

\* An executor that would still report the end of the run, or renew its lease.
Executed(r) == task[r] = "working" \/ \E w \in Worker : on[w] = r /\ Owns(w, r)

WorkerActs(w) == FirstRenewal(w) \/ CommandEnds(w) \/ ReportDone(w) \/ ReportFailure(w)
TaskActs(r) == BotRefused(r) \/ Admit(r) \/ BusyReply(r) \/ StartTask(r) \/ TaskEnds(r)

\* Commands and answers have deadlines, some worker polls, the reaper and the
\* sweeps run, time passes. Nothing is assumed of creations and renewals.
Fairness ==
  /\ WF_vars(Reap)
  /\ \A r \in Run :
       /\ WF_vars(GrowsOld(r))
       /\ WF_vars(~Executed(r) /\ LeaseLapses(r))
       /\ WF_vars(TaskActs(r))
       /\ WF_vars(\E w \in Worker : Claim(w, r))
  /\ \A w \in Worker : WF_vars(WorkerActs(w))
  /\ \A n \in Node : WF_vars(SweepStep(n))

FairSpec == Spec /\ Fairness
----------------------------------------------------------------------------
(* What must hold.                                                         *)

\* A run has a receipt exactly when it has ended, and the receipt tells how:
\* whichever of its executors, a late one, a replay or the reaper ended it, none
\* of the others changes the outcome afterwards.
ReceiptTellsOutcome ==
  \A r \in Run : receipt[r] = IF state[r] \in Final THEN state[r] ELSE "none"

\* A ledger row was written for a run that has ended, with the outcome it has.
BilledAsEnded ==
  \A r \in Run : ledger[r] # "none" => state[r] \in Final /\ billed[r] = state[r]

\* Workers, late or replaced, the platform's forwarder and the reaper end a run
\* once between them; the caller's receipt and the ledger, which a sweep writes
\* from a row it read earlier, tell that one outcome.
Decision ==
  INSTANCE SingleDecision
    WITH Item <- Run, Outcome <- Final, Open <- "open",
         outcome <- [r \in Run |-> IF state[r] \in Final THEN state[r] ELSE "open"],
         told <- [r \in Run |-> {receipt[r], billed[r]} \ {"none"}]

ImplementsDecision == Decision!DecisionSpec

\* With one ledger writer, the caller's money and the ledger agree but for the
\* mark that is still to come: what is marked charged was booked, and what was
\* booked is not counted as owed for good (charge_failed) or as free of charge.
ChargesAgree ==
  Cardinality(Node) = 1 =>
    \A r \in Run : /\ ledger[r] = "charged" => paid[r]
                  /\ paid[r] => ledger[r] \in {"pending", "charged"}

\* The admission gates of several processes share no lock: each of them but one
\* can let one run too many pass, and no more.
InflightBounded ==
  ~CountsMayFail => Cardinality(RunningBots) <= MaxInflight + Cardinality(Node) - 1

\* No session stays busy: a run that is submitted or running ends or is given
\* up, whatever crashes, stalls and lost calls come in between.
ActiveRunsMoveOn == \A r \in Run : state[r] \in Active ~> state[r] \notin Active

\* A run of a worker comes to an end although workers die, stall and lose their
\* leases, unless it is handed back as retryable again and again.
WorkerRunsConclude ==
  <>[][\A w \in Worker : ~(at[w] = "retry" /\ ReportFailure(w) /\ state' # state)]_vars
  => \A r \in Run : state[r] # "none" /\ KindOfRun(r) = "worker" ~> state[r] \in Final

\* Once processes stop crashing and the calls of the sweeps succeed, a run that
\* was given a finished_at is billed, and charged or refused, unless a window
\* passes first: 48 hours until it is billed, seven days until it is charged.
FinishedRunsAreSettled ==
  <>[][Orderly]_vars
  => \A r \in Run : finished[r] /\ ~late[r]
                     ~> ledger[r] \in {"closed", "charged", "refused"} \/ late[r]
=============================================================================
