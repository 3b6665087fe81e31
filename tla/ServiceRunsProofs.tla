--------------------------- MODULE ServiceRunsProofs ---------------------------
(***************************************************************************)
(* Machine-checked proofs about ServiceRuns, for any number of runs,        *)
(* sessions, workers and processes, with or without failing calls.          *)
(***************************************************************************)
EXTENDS ServiceRuns, FiniteSetTheorems, TLAPS

USE DEF Kind, Final, Active

\* finished_at is only ever written to a row that ends.
FinishedEnded == \A r \in Run : finished[r] => state[r] \in Final

\* What the rows of service_runs and service_run_receipts satisfy.
RowOK ==
  /\ state \in [Run -> {"none", "orphaned"} \cup Active \cup Final]
  /\ session \in [Run -> Session]
  /\ owner \in [Run -> Worker \cup Node \cup {Nobody}]
  /\ lapsed \in [Run -> BOOLEAN]
  /\ attempts \in [Run -> 0 .. MaxAttempts]
  /\ old \in [Run -> BOOLEAN]
  /\ finished \in [Run -> BOOLEAN]
  /\ receipt \in [Run -> {"none"} \cup Final]
  /\ ReceiptTellsOutcome
  /\ FinishedEnded

\* What the executors satisfy: a busy worker has a run.
ExecOK ==
  /\ at \in [Worker -> {"idle", "claimed", "working", "done", "failed", "retry"}]
  /\ on \in [Worker -> Run \cup {NoRun}]
  /\ task \in [Run -> {"none", "dispatched", "admitted", "busy", "working"}]
  /\ \A w \in Worker : at[w] # "idle" => on[w] \in Run

\* What the ledger and its writers satisfy: a writer that is about to record a
\* run has listed it as ended, and has its outcome.
BillOK ==
  /\ ledger \in [Run -> {"none", "closed", "pending", "charged", "refused"}]
  /\ billed \in [Run -> {"none"} \cup Final]
  /\ late \in [Run -> BOOLEAN]
  /\ paid \in [Run -> BOOLEAN]
  /\ sweep \in [Node -> [does : {"rest", "record", "charge", "mark", "refuse"},
                         run : Run \cup {NoRun}, as : {"none"} \cup Final]]
  /\ BilledAsEnded
  /\ \A r \in Run : ledger[r] = "none" => billed[r] = "none"
  /\ \A n \in Node :
       /\ sweep[n].does # "rest" => sweep[n].run \in Run
       /\ sweep[n].does = "record" =>
            state[sweep[n].run] \in Final /\ sweep[n].as = state[sweep[n].run]

ServiceInv == RowOK /\ ExecOK /\ BillOK

\* An ended run stays as it is, and no run changes its session.
Kept ==
  /\ session' = session
  /\ \A r \in Run : state[r] \in Final => state'[r] = state[r]

\* Initially there are no rows.
LEMMA InitServiceInv == Init => ServiceInv
<1> SUFFICES ASSUME Init PROVE ServiceInv
  OBVIOUS
<1> USE ServiceAssumption DEF Init, ServiceAssumption
<1>1. RowOK BY DEF RowOK, ReceiptTellsOutcome, FinishedEnded
<1>2. ExecOK BY DEF ExecOK
<1>3. BillOK BY DEF BillOK, BilledAsEnded, Resting
<1> QED BY <1>1, <1>2, <1>3 DEF ServiceInv

----------------------------------------------------------------------------
(* The store's transactions keep the rows consistent.                      *)

\* A row ends once.
LEMMA EndsKeepsRows ==
  ASSUME RowOK, NEW r \in Run, NEW final \in Final, state[r] \in Active, Ends(r, final)
  PROVE  RowOK' /\ Kept
<1> USE DEF RowOK, Ends
<1>1. receipt[r] = "none" BY DEF ReceiptTellsOutcome
<1>2. Receipt(r, final) = final BY <1>1 DEF Receipt
<1>3. receipt' = [receipt EXCEPT ![r] = final] BY <1>2
<1>4. ReceiptTellsOutcome' BY <1>3 DEF ReceiptTellsOutcome
<1>5. FinishedEnded' BY DEF FinishedEnded
<1>6. owner' \in [Run -> Worker \cup Node \cup {Nobody}] BY DEF Ends
<1> HIDE DEF Ends
<1>7. state' = [state EXCEPT ![r] = final] /\ session' = session
  BY DEF Ends
<1>8. lapsed' \in [Run -> BOOLEAN] /\ finished' \in [Run -> BOOLEAN]
      /\ attempts' = attempts /\ old' = old
  BY DEF Ends
<1> QED BY <1>3, <1>4, <1>5, <1>6, <1>7, <1>8 DEF Kept

\* A complete or await call ends a running row.
LEMMA CompleteKeepsRows ==
  ASSUME RowOK, NEW r \in Run, NEW final \in Final, CompleteRow(r, final)
  PROVE  RowOK' /\ Kept
  BY EndsKeepsRows DEF CompleteRow

\* A row that becomes running, of those that have not ended.
LEMMA HoldsKeepsRows ==
  ASSUME RowOK, NEW r \in Run, NEW i \in Worker \cup Node, state[r] \notin Final,
         Holds(r, i), attempts' \in [Run -> 0 .. MaxAttempts]
  PROVE  RowOK' /\ Kept
<1> USE DEF RowOK, Holds
<1>1. ReceiptTellsOutcome' BY DEF ReceiptTellsOutcome
<1>2. FinishedEnded' BY DEF FinishedEnded
<1> QED BY <1>1, <1>2 DEF Kept

\* A fail call ends the row, gives it up, or leaves it alone.
LEMMA FailKeepsRows ==
  ASSUME RowOK, NEW r \in Run, NEW retryable \in BOOLEAN, FailRow(r, retryable)
  PROVE  RowOK' /\ Kept
<1>1. CASE state[r] \in Active /\ ~retryable /\ Ends(r, "failed")
  BY <1>1, EndsKeepsRows
<1>2. CASE /\ state[r] \in Active /\ retryable
           /\ state' = [state EXCEPT ![r] = "orphaned"]
           /\ owner' = [owner EXCEPT ![r] = Nobody]
           /\ lapsed' = [lapsed EXCEPT ![r] = FALSE]
           /\ UNCHANGED <<session, attempts, old, finished, receipt>>
  <2>1. ReceiptTellsOutcome' BY <1>2 DEF RowOK, ReceiptTellsOutcome
  <2>2. FinishedEnded' BY <1>2 DEF RowOK, FinishedEnded
  <2> QED BY <1>2, <2>1, <2>2 DEF RowOK, Kept
<1>3. CASE state[r] \notin Active /\ UNCHANGED rowVars
  BY <1>3 DEF rowVars, RowOK, ReceiptTellsOutcome, FinishedEnded, Kept
<1> QED BY <1>1, <1>2, <1>3 DEF FailRow

\* A renewal only moves the lease.
LEMMA RenewKeepsRows ==
  ASSUME RowOK, NEW r \in Run, RenewRow(r)
  PROVE  RowOK' /\ Kept
  BY DEF RenewRow, RowOK, ReceiptTellsOutcome, FinishedEnded, Kept

\* The reaper ends rows, and gives rows up, that have not ended.
LEMMA ReapKeepsRows ==
  ASSUME RowOK, Reap
  PROVE  RowOK' /\ Kept
<1> DEFINE expired(r) == state[r] = "running" /\ lapsed[r]
           unclaimed(r) == state[r] = "submitted" /\ old[r]
           lost(r) == expired(r) /\ (KindOfRun(r) = "bot" \/ attempts[r] >= MaxAttempts)
           fails(r) == lost(r) \/ unclaimed(r)
<1>1. /\ state' = [r \in Run |-> IF fails(r) THEN "failed"
                                 ELSE IF expired(r) THEN "orphaned" ELSE state[r]]
      /\ owner' = [r \in Run |-> IF expired(r) THEN Nobody ELSE owner[r]]
      /\ lapsed' = [r \in Run |-> lapsed[r] /\ ~expired(r)]
      /\ receipt' = [r \in Run |-> IF fails(r) THEN Receipt(r, "failed") ELSE receipt[r]]
      /\ UNCHANGED <<session, attempts, old, finished>>
  BY DEF Reap
<1>2. \A r \in Run : fails(r) => state[r] \in Active
  OBVIOUS
<1>3. \A r \in Run : expired(r) => state[r] = "running"
  OBVIOUS
<1> HIDE DEF fails, expired
<1>4. \A r \in Run : fails(r) => Receipt(r, "failed") = "failed"
  BY <1>2 DEF RowOK, ReceiptTellsOutcome, Receipt
<1>5. ReceiptTellsOutcome' BY <1>1, <1>2, <1>3, <1>4 DEF RowOK, ReceiptTellsOutcome
<1>6. FinishedEnded' BY <1>1, <1>2, <1>3 DEF RowOK, FinishedEnded
<1>7. Kept BY <1>1, <1>2, <1>3 DEF RowOK, Kept
<1>8. state' \in [Run -> {"none", "orphaned"} \cup Active \cup Final] BY <1>1 DEF RowOK
<1>9. owner' \in [Run -> Worker \cup Node \cup {Nobody}] BY <1>1 DEF RowOK
<1>10. lapsed' \in [Run -> BOOLEAN] BY <1>1 DEF RowOK, expired
<1>11. receipt' \in [Run -> {"none"} \cup Final] BY <1>1, <1>4 DEF RowOK
<1> QED BY <1>1, <1>5, <1>6, <1>7, <1>8, <1>9, <1>10, <1>11 DEF RowOK

\* Nothing that leaves the rows alone disturbs what they satisfy.
LEMMA SameRows ==
  ASSUME RowOK, UNCHANGED rowVars
  PROVE  RowOK' /\ Kept
  BY DEF rowVars, RowOK, ReceiptTellsOutcome, FinishedEnded, Kept

----------------------------------------------------------------------------
(* The steps of the system, for the rows.                                  *)

\* A claim takes a submitted or orphaned row, at most MaxAttempts times counted.
LEMMA ClaimKeepsRows ==
  ASSUME RowOK, NEW w \in Worker, NEW r \in Run, Claim(w, r)
  PROVE  RowOK' /\ Kept
<1> USE ServiceAssumption DEF ServiceAssumption
<1>1. Holds(r, w) /\ state[r] \notin Final BY DEF Claim
<1>2. attempts \in [Run -> 0 .. MaxAttempts] BY DEF RowOK
<1>3. attempts' = [attempts EXCEPT ![r] = IF @ < MaxAttempts THEN @ + 1 ELSE @] BY DEF Claim
<1>4. attempts' \in [Run -> 0 .. MaxAttempts] BY <1>2, <1>3
<1> QED BY <1>1, <1>4, HoldsKeepsRows

\* A worker's step works on the row of the run it has.
LEMMA WorkerKeepsRows ==
  ASSUME ServiceInv, NEW w \in Worker, WorkerStep(w)
  PROVE  RowOK' /\ Kept
<1>1. RowOK /\ (at[w] # "idle" => on[w] \in Run) BY DEF ServiceInv, ExecOK
<1>2. CASE UNCHANGED rowVars BY <1>1, <1>2, SameRows
<1>3. CASE at[w] # "idle" /\ RenewRow(on[w]) BY <1>1, <1>3, RenewKeepsRows
<1>4. CASE at[w] # "idle" /\ CompleteRow(on[w], "completed")
  BY <1>1, <1>4, CompleteKeepsRows
<1>5. CASE at[w] # "idle" /\ FailRow(on[w], at[w] = "retry")
  <2>1. (at[w] = "retry") \in BOOLEAN OBVIOUS
  <2> QED BY <1>1, <1>5, <2>1, FailKeepsRows
<1>6. FirstRenewal(w) => UNCHANGED rowVars \/ (at[w] # "idle" /\ RenewRow(on[w]))
  BY DEF FirstRenewal
<1>7. Heartbeat(w) => UNCHANGED rowVars \/ (at[w] # "idle" /\ RenewRow(on[w]))
  BY DEF Heartbeat
<1>8. CommandEnds(w) \/ WorkerDies(w) => UNCHANGED rowVars BY DEF CommandEnds, WorkerDies
<1>9. ReportDone(w) =>
        UNCHANGED rowVars \/ (at[w] # "idle" /\ CompleteRow(on[w], "completed"))
  BY DEF ReportDone
<1>10. ReportFailure(w) =>
        UNCHANGED rowVars \/ (at[w] # "idle" /\ FailRow(on[w], at[w] = "retry"))
  BY DEF ReportFailure
<1> QED BY <1>2, <1>3, <1>4, <1>5, <1>6, <1>7, <1>8, <1>9, <1>10 DEF WorkerStep

\* A step of the platform's goroutine for a run works on that run's row.
LEMMA TaskKeepsRows ==
  ASSUME RowOK, NEW r \in Run, TaskStep(r)
  PROVE  RowOK' /\ Kept
<1>1. CASE UNCHANGED rowVars BY <1>1, SameRows
<1>2. CASE RenewRow(r) BY <1>2, RenewKeepsRows
<1>3. CASE \E final \in Final : CompleteRow(r, final) BY <1>3, CompleteKeepsRows
<1>4. CASE FailRow(r, TRUE) \/ FailRow(r, FALSE) BY <1>4, FailKeepsRows
<1>5. CASE state[r] = "submitted" /\ Holds(r, HomeOf[r]) /\ UNCHANGED attempts
  <2>1. attempts' \in [Run -> 0 .. MaxAttempts] BY <1>5 DEF RowOK
  <2>2. HomeOf[r] \in Worker \cup Node BY ServiceAssumption DEF ServiceAssumption
  <2> QED BY <1>5, <2>1, <2>2, HoldsKeepsRows
<1>6. BotRefused(r) \/ BusyReply(r) =>
        UNCHANGED rowVars \/ FailRow(r, TRUE) \/ FailRow(r, FALSE)
  BY DEF BotRefused, BusyReply
<1>7. Admit(r) \/ EndpointSilent(r) \/ Redispatch(r) => UNCHANGED rowVars
  BY DEF Admit, EndpointSilent, Redispatch
<1>8. StartTask(r) =>
        UNCHANGED rowVars \/ (state[r] = "submitted" /\ Holds(r, HomeOf[r]) /\ UNCHANGED attempts)
  BY DEF StartTask
<1>9. TaskRenews(r) => RenewRow(r) BY DEF TaskRenews
<1>10. TaskEnds(r) =>
        \/ UNCHANGED rowVars \/ FailRow(r, FALSE)
        \/ CompleteRow(r, "completed") \/ CompleteRow(r, "awaiting")
  BY DEF TaskEnds
<1> QED BY <1>1, <1>2, <1>3, <1>4, <1>5, <1>6, <1>7, <1>8, <1>9, <1>10 DEF TaskStep

\* Every step keeps what the rows satisfy, and every ended row as it is.
LEMMA RowStep == ServiceInv /\ [Next]_vars => RowOK' /\ Kept
<1> SUFFICES ASSUME ServiceInv, [Next]_vars PROVE RowOK' /\ Kept
  OBVIOUS
<1>0. RowOK BY DEF ServiceInv
<1>1. CASE \E r \in Run : Create(r)
  <2> PICK r \in Run : Create(r) BY <1>1
  <2>1. /\ state[r] = "none" /\ state' = [state EXCEPT ![r] = "submitted"]
        /\ UNCHANGED <<session, owner, lapsed, attempts, old, finished, receipt>>
    BY DEF Create
  <2> QED BY <1>0, <2>1 DEF RowOK, ReceiptTellsOutcome, FinishedEnded, Kept
<1>2. CASE \E r \in Run : GrowsOld(r) \/ LeaseLapses(r)
  BY <1>0, <1>2 DEF GrowsOld, LeaseLapses, RowOK, ReceiptTellsOutcome, FinishedEnded, Kept
<1>3. CASE \E r \in Run : TaskStep(r) BY <1>0, <1>3, TaskKeepsRows
<1>4. CASE Reap BY <1>0, <1>4, ReapKeepsRows
<1>5. CASE \E w \in Worker : WorkerStep(w) BY <1>5, WorkerKeepsRows
<1>6. CASE \E w \in Worker, r \in Run : Claim(w, r) BY <1>0, <1>6, ClaimKeepsRows
<1>7. CASE \E n \in Node : SweepStep(n) \/ PlatformDies(n)
  <2>1. UNCHANGED rowVars
    BY <1>7 DEF SweepStep, SweepActs, PlatformDies, Record, Charge, Refuse, MarkLedger, SweepFails,
                ListBillable, ListPending
  <2> QED BY <1>0, <2>1, SameRows
<1>8. CASE \E r \in Run : WindowPasses(r) BY <1>0, <1>8, SameRows DEF WindowPasses
<1>9. CASE UNCHANGED vars BY <1>0, <1>9, SameRows DEF vars
<1> QED BY <1>1, <1>2, <1>3, <1>4, <1>5, <1>6, <1>7, <1>8, <1>9 DEF Next, Orderly, SweepStep

----------------------------------------------------------------------------
(* The steps of the system, for the executors.                             *)

\* A worker that goes on keeps its run, and one that goes idle drops it.
LEMMA GoesKeepsExecs ==
  ASSUME ExecOK, NEW w \in Worker, at[w] # "idle", Goes(w, "idle") \/
         (\E label \in {"working", "done", "failed", "retry"} : Goes(w, label))
  PROVE  ExecOK'
<1>1. CASE Goes(w, "idle") BY <1>1 DEF ExecOK, Goes
<1>2. ASSUME NEW label \in {"working", "done", "failed", "retry"}, Goes(w, label)
      PROVE  ExecOK'
  BY <1>2 DEF ExecOK, Goes
<1> QED BY <1>1, <1>2

LEMMA ExecStep == ServiceInv /\ [Next]_vars => ExecOK'
<1> SUFFICES ASSUME ServiceInv, [Next]_vars PROVE ExecOK'
  OBVIOUS
<1>0. ExecOK BY DEF ServiceInv
<1>1. CASE UNCHANGED execVars BY <1>0, <1>1 DEF execVars, ExecOK
<1>2. ASSUME NEW w \in Worker, WorkerStep(w) PROVE ExecOK'
  <2>1. \/ UNCHANGED execVars
        \/ /\ at[w] # "idle"
           /\ Goes(w, "idle") \/ (\E label \in {"working", "done", "failed", "retry"} : Goes(w, label))
    BY <1>2 DEF WorkerStep, FirstRenewal, Heartbeat, CommandEnds, ReportDone, ReportFailure, WorkerDies
  <2> QED BY <1>0, <1>1, <2>1, GoesKeepsExecs
<1>3. ASSUME NEW w \in Worker, NEW r \in Run, Claim(w, r) PROVE ExecOK'
  BY <1>0, <1>3 DEF ExecOK, Claim
<1>4. ASSUME NEW r \in Run, TaskStep(r) \/ Create(r) PROVE ExecOK'
  <2>1. \/ UNCHANGED execVars
        \/ \E label \in {"none", "dispatched", "admitted", "busy", "working"} : Proceeds(r, label)
    BY <1>4 DEF TaskStep, Create, BotRefused, Admit, BusyReply, StartTask, TaskRenews, TaskEnds,
                EndpointSilent, Redispatch, Proceeds, execVars
  <2>2. CASE \E label \in {"none", "dispatched", "admitted", "busy", "working"} : Proceeds(r, label)
    BY <1>0, <2>2 DEF ExecOK, Proceeds
  <2> QED BY <1>1, <2>1, <2>2
<1>5. ASSUME NEW n \in Node, PlatformDies(n) PROVE ExecOK'
  BY <1>0, <1>5 DEF ExecOK, PlatformDies
<1>6. ASSUME NEW n \in Node, SweepStep(n) PROVE UNCHANGED execVars
  BY <1>6 DEF SweepStep, SweepActs, Record, Charge, Refuse, MarkLedger, SweepFails, ListBillable,
              ListPending
<1>7. (\E r \in Run : GrowsOld(r) \/ LeaseLapses(r) \/ WindowPasses(r)) \/ Reap \/ UNCHANGED vars
      => UNCHANGED execVars
  BY DEF GrowsOld, LeaseLapses, WindowPasses, Reap, vars
<1> QED BY <1>1, <1>2, <1>3, <1>4, <1>5, <1>6, <1>7 DEF Next, Orderly, SweepStep

----------------------------------------------------------------------------
(* The steps of the system, for the ledger.                                *)

\* A step that leaves ledger and sweeps alone cannot falsify them, since ended
\* runs stay as they are.
LEMMA SameBills ==
  ASSUME ServiceInv, Kept, UNCHANGED <<ledger, billed, paid>>, late' \in [Run -> BOOLEAN],
         \/ UNCHANGED sweep
         \/ \E n \in Node : Rests(n)
  PROVE  BillOK'
<1>1. BillOK BY DEF ServiceInv
<1>2. BilledAsEnded' BY <1>1 DEF BillOK, BilledAsEnded, Kept
<1>3. CASE UNCHANGED sweep BY <1>1, <1>2, <1>3 DEF BillOK, Kept
<1>4. CASE \E n \in Node : Rests(n)
  <2> PICK n \in Node : Rests(n) BY <1>4
  <2>1. sweep' = [sweep EXCEPT ![n] = Resting] BY DEF Rests
  <2> QED BY <1>1, <1>2, <2>1 DEF BillOK, Kept, Resting
<1> QED BY <1>3, <1>4

\* A writer of the ledger records what it has listed.
LEMMA SweepKeepsBills ==
  ASSUME ServiceInv, NEW n \in Node, SweepStep(n)
  PROVE  BillOK'
<1> USE DEF BillOK
<1>0. BillOK /\ state \in [Run -> {"none", "orphaned"} \cup Active \cup Final]
  BY DEF ServiceInv, RowOK
<1>1. UNCHANGED state
  BY DEF SweepStep, SweepActs, Record, Charge, Refuse, MarkLedger, SweepFails, ListBillable, ListPending,
         rowVars
<1>2. ASSUME NEW r \in Run, ListBillable(n, r) PROVE BillOK'
  <2>1. state[r] \in Final /\ sweep' = [sweep EXCEPT ![n] = [does |-> "record", run |-> r, as |-> state[r]]]
        /\ UNCHANGED <<ledger, billed, late, paid>>
    BY <1>2 DEF ListBillable, Billing
  <2> QED BY <1>0, <1>1, <2>1 DEF BilledAsEnded
<1>3. ASSUME NEW r \in Run, ListPending(n, r) PROVE BillOK'
  <2>1. sweep' = [sweep EXCEPT ![n] = [does |-> "charge", run |-> r, as |-> "none"]]
        /\ UNCHANGED <<ledger, billed, late, paid>>
    BY <1>3 DEF ListPending, Billing
  <2> QED BY <1>0, <1>1, <2>1 DEF BilledAsEnded
<1>4. CASE Record(n)
  <2> DEFINE r == sweep[n].run
  <2>1. r \in Run /\ state[r] \in Final /\ sweep[n].as = state[r] BY <1>0, <1>4 DEF Record
  <2>2. /\ sweep' = [sweep EXCEPT ![n] = Resting] /\ UNCHANGED paid
        /\ late' \in [Run -> BOOLEAN]
    BY <1>0, <1>4 DEF Record, Rests, OnTime
  <2>3. CASE /\ \E as \in {"closed", "pending"} : ledger' = [ledger EXCEPT ![r] = as]
             /\ billed' = [billed EXCEPT ![r] = sweep[n].as]
    <3> PICK as \in {"closed", "pending"} : ledger' = [ledger EXCEPT ![r] = as] BY <2>3
    <3> HIDE DEF r
    <3>1. BilledAsEnded' BY <1>0, <1>1, <2>1, <2>3 DEF BilledAsEnded
    <3>2. ledger' \in [Run -> {"none", "closed", "pending", "charged", "refused"}]
      BY <1>0
    <3>3. billed' \in [Run -> {"none"} \cup Final] BY <1>0, <2>1, <2>3
    <3>4. \A q \in Run : ledger'[q] = "none" => billed'[q] = "none"
      BY <1>0, <2>1, <2>3
    <3> QED BY <1>0, <1>1, <2>2, <3>1, <3>2, <3>3, <3>4 DEF Resting
  <2>4. CASE UNCHANGED <<ledger, billed>>
    BY <1>0, <1>1, <2>2, <2>4 DEF BilledAsEnded, Resting
  <2> QED BY <1>4, <2>3, <2>4 DEF Record
<1>5. CASE Charge(n) \/ Refuse(n)
  <2> DEFINE r == sweep[n].run
  <2>1. r \in Run BY <1>0, <1>5 DEF Charge, Refuse
  <2>2. /\ \E does \in {"mark", "refuse"} : sweep' = [sweep EXCEPT ![n] = [does |-> does, run |-> r, as |-> "none"]]
        /\ UNCHANGED <<ledger, billed, late>> /\ (UNCHANGED paid \/ paid' = [paid EXCEPT ![r] = TRUE])
    BY <1>5 DEF Charge, Refuse, Billing
  <2> PICK does \in {"mark", "refuse"} : sweep' = [sweep EXCEPT ![n] = [does |-> does, run |-> r, as |-> "none"]]
    BY <2>2
  <2> HIDE DEF r
  <2>3. BilledAsEnded' BY <1>0, <1>1, <2>2 DEF BilledAsEnded
  <2>4. paid' \in [Run -> BOOLEAN] BY <1>0, <2>2
  <2>5. sweep' \in [Node -> [does : {"rest", "record", "charge", "mark", "refuse"},
                             run : Run \cup {NoRun}, as : {"none"} \cup Final]]
    BY <1>0, <2>1
  <2>6. \A m \in Node :
          /\ sweep'[m].does # "rest" => sweep'[m].run \in Run
          /\ sweep'[m].does = "record" =>
               state[sweep'[m].run] \in Final /\ sweep'[m].as = state[sweep'[m].run]
    BY <1>0, <2>1
  <2> QED BY <1>0, <1>1, <2>2, <2>3, <2>4, <2>5, <2>6
<1>6. CASE MarkLedger(n)
  <2> DEFINE r == sweep[n].run
  <2>1. r \in Run BY <1>0, <1>6 DEF MarkLedger
  <2>2. /\ sweep' = [sweep EXCEPT ![n] = Resting] /\ UNCHANGED <<billed, paid>>
        /\ late' \in [Run -> BOOLEAN]
    BY <1>0, <1>6 DEF MarkLedger, Rests, OnTime
  <2>3. UNCHANGED ledger \/ (ledger[r] = "pending" /\ \E as \in {"charged", "refused"} : ledger' = [ledger EXCEPT ![r] = as])
    BY <1>6 DEF MarkLedger
  <2> QED BY <1>0, <1>1, <2>1, <2>2, <2>3 DEF BilledAsEnded, Resting
<1>7. CASE SweepFails(n)
  <2> DEFINE r == sweep[n].run
  <2>1. r \in Run BY <1>0, <1>7 DEF SweepFails
  <2>2. /\ sweep' = [sweep EXCEPT ![n] = Resting] /\ UNCHANGED <<ledger, billed, late>>
        /\ UNCHANGED paid \/ paid' = [paid EXCEPT ![r] = TRUE]
    BY <1>7 DEF SweepFails, Rests
  <2> QED BY <1>0, <1>1, <2>1, <2>2 DEF BilledAsEnded, Resting
<1> QED BY <1>2, <1>3, <1>4, <1>5, <1>6, <1>7 DEF SweepStep, SweepActs

LEMMA BillStep == ServiceInv /\ [Next]_vars => BillOK'
<1> SUFFICES ASSUME ServiceInv, [Next]_vars PROVE BillOK'
  OBVIOUS
<1>1. Kept BY RowStep
<1>0. late \in [Run -> BOOLEAN] BY DEF ServiceInv, BillOK
<1>2. CASE UNCHANGED billVars BY <1>0, <1>1, <1>2, SameBills DEF billVars
<1>3. ASSUME NEW n \in Node, PlatformDies(n) PROVE BillOK'
  BY <1>0, <1>1, <1>3, SameBills DEF PlatformDies, Rests
<1>4. ASSUME NEW n \in Node, SweepStep(n) PROVE BillOK'
  BY <1>4, SweepKeepsBills
<1>5. (\E r \in Run : Create(r) \/ GrowsOld(r) \/ LeaseLapses(r)) \/ Reap \/ UNCHANGED vars
      => UNCHANGED billVars
  BY DEF Create, GrowsOld, LeaseLapses, Reap, vars
<1>6. ASSUME NEW r \in Run, TaskStep(r) PROVE UNCHANGED billVars
  BY <1>6 DEF TaskStep, BotRefused, Admit, BusyReply, StartTask, TaskRenews, TaskEnds,
              EndpointSilent, Redispatch
<1>7. ASSUME NEW w \in Worker, WorkerStep(w) \/ \E r \in Run : Claim(w, r)
      PROVE  UNCHANGED billVars
  BY <1>7 DEF WorkerStep, FirstRenewal, Heartbeat, CommandEnds, ReportDone, ReportFailure,
              WorkerDies, Claim
<1>8. ASSUME NEW r \in Run, WindowPasses(r) PROVE BillOK'
  BY <1>0, <1>1, <1>8, SameBills DEF WindowPasses
<1> QED BY <1>2, <1>3, <1>4, <1>5, <1>6, <1>7, <1>8 DEF Next, Orderly, SweepStep

----------------------------------------------------------------------------
(* The theorems.                                                           *)

\* ServiceInv is inductive.
THEOREM ServiceInvariant == Spec => []ServiceInv
<1>1. ServiceInv /\ [Next]_vars => ServiceInv'
  BY RowStep, ExecStep, BillStep DEF ServiceInv
<1> QED BY <1>1, InitServiceInv, PTL DEF Spec

\* Every variable keeps its type, whatever crashes and lost calls do; in
\* particular attempts stays within the bound the reaper compares it with.
THEOREM ServiceTypeCorrect == Spec => []TypeOK
<1>1. ServiceInv => TypeOK BY DEF ServiceInv, RowOK, ExecOK, BillOK, TypeOK
<1> QED BY <1>1, ServiceInvariant, PTL

\* A run has a receipt exactly when it has ended, and its receipt tells how,
\* whichever executor, replay or reaper comes late.
THEOREM ServiceReceiptTellsOutcome == Spec => []ReceiptTellsOutcome
<1>1. ServiceInv => ReceiptTellsOutcome BY DEF ServiceInv, RowOK
<1> QED BY <1>1, ServiceInvariant, PTL

\* What the ledger says of a run is how the run has ended.
THEOREM ServiceBilledAsEnded == Spec => []BilledAsEnded
<1>1. ServiceInv => BilledAsEnded BY DEF ServiceInv, BillOK
<1> QED BY <1>1, ServiceInvariant, PTL

\* No step changes the outcome of a run that has ended.
THEOREM ServiceOutcomesStay ==
  Spec => [][\A r \in Run : state[r] \in Final => state'[r] = state[r]]_vars
<1>1. ServiceInv /\ [Next]_vars
      => [\A r \in Run : state[r] \in Final => state'[r] = state[r]]_vars
  BY RowStep DEF Kept
<1> QED BY <1>1, ServiceInvariant, PTL DEF Spec

\* ServiceRuns implements SingleDecision: executors, replays and the reaper end
\* every run once between them, and receipt and ledger tell that outcome.
THEOREM ServiceImplementsDecision == Spec => ImplementsDecision
<1>1. Init => Decision!DecisionInit
  BY DEF Init, Decision!DecisionInit
<1>2. ServiceInv /\ ServiceInv' /\ [Next]_vars => [Decision!DecisionNext]_(Decision!decisionVars)
  <2> SUFFICES ASSUME ServiceInv, ServiceInv', [Next]_vars
               PROVE  Decision!DecisionNext
    OBVIOUS
  <2> DEFINE outcome == [r \in Run |-> IF state[r] \in Final THEN state[r] ELSE "open"]
             told == [r \in Run |-> {receipt[r], billed[r]} \ {"none"}]
  <2>1. outcome' \in [Run -> Final \cup {"open"}]
    OBVIOUS
  <2>2. told' \in [Run -> SUBSET Final]
    BY DEF ServiceInv, RowOK, BillOK
  <2>3. \A r \in Run : told[r] = IF state[r] \in Final THEN {state[r]} ELSE {}
    BY DEF ServiceInv, RowOK, BillOK, ReceiptTellsOutcome, BilledAsEnded
  <2>4. \A r \in Run : told'[r] = IF state'[r] \in Final THEN {state'[r]} ELSE {}
    BY DEF ServiceInv, RowOK, BillOK, ReceiptTellsOutcome, BilledAsEnded
  <2>5. \A r \in Run : state[r] \in Final => state'[r] = state[r]
    BY RowStep DEF Kept
  <2> HIDE DEF told
  <2>6. \A r \in Run : Decision!Stays(r) \/ Decision!Decides(r)
    BY <2>5 DEF Decision!Stays, Decision!Decides
  <2>7. \A r \in Run : told'[r] = told[r] \/ (outcome'[r] \in Final /\ told'[r] = told[r] \cup {outcome'[r]})
    BY <2>3, <2>4, <2>5
  <2>8. \A r \in Run : Decision!Silent(r) \/ Decision!Answers(r)
    BY <2>7 DEF Decision!Silent, Decision!Answers, told
  <2> QED BY <2>1, <2>2, <2>6, <2>8 DEF Decision!DecisionNext, told
<1> QED
  BY <1>1, <1>2, ServiceInvariant, PTL DEF Spec, ImplementsDecision, Decision!DecisionSpec

----------------------------------------------------------------------------
(* The charges, with one ledger writer.                                    *)

\* What a sweep is about to do agrees with the ledger and with the relay.
ChargeOK ==
  (\A m, n \in Node : m = n) =>
    /\ \A r \in Run : /\ ledger[r] = "charged" => paid[r]
                      /\ paid[r] => ledger[r] \in {"pending", "charged"}
    /\ \A n \in Node :
         /\ sweep[n].does \in {"charge", "mark", "refuse"} => ledger[sweep[n].run] = "pending"
         /\ sweep[n].does = "mark" => paid[sweep[n].run]
         /\ sweep[n].does = "refuse" => ~paid[sweep[n].run]

\* A step of the one ledger writer keeps them in agreement.
LEMMA SweepKeepsCharges ==
  ASSUME BillOK, ChargeOK, NEW n \in Node, \A m \in Node : m = n, SweepStep(n)
  PROVE  ChargeOK'
<1>0. /\ \A r \in Run : /\ ledger[r] = "charged" => paid[r]
                        /\ paid[r] => ledger[r] \in {"pending", "charged"}
      /\ sweep[n].does \in {"charge", "mark", "refuse"} => ledger[sweep[n].run] = "pending"
      /\ sweep[n].does = "mark" => paid[sweep[n].run]
      /\ sweep[n].does = "refuse" => ~paid[sweep[n].run]
      /\ sweep[n].does # "rest" => sweep[n].run \in Run
      /\ sweep \in [Node -> [does : {"rest", "record", "charge", "mark", "refuse"},
                             run : Run \cup {NoRun}, as : {"none"} \cup Final]]
      /\ ledger \in [Run -> {"none", "closed", "pending", "charged", "refused"}]
      /\ paid \in [Run -> BOOLEAN]
  BY DEF BillOK, ChargeOK
<1> SUFFICES
      /\ \A r \in Run : /\ ledger'[r] = "charged" => paid'[r]
                        /\ paid'[r] => ledger'[r] \in {"pending", "charged"}
      /\ sweep'[n].does \in {"charge", "mark", "refuse"} => ledger'[sweep'[n].run] = "pending"
      /\ sweep'[n].does = "mark" => paid'[sweep'[n].run]
      /\ sweep'[n].does = "refuse" => ~paid'[sweep'[n].run]
  BY DEF ChargeOK
<1>1. ASSUME NEW r \in Run, ListBillable(n, r) \/ ListPending(n, r)
      PROVE  UNCHANGED <<ledger, paid>> /\ sweep'[n].does \in {"record", "charge"}
             /\ (sweep'[n].does = "charge" => sweep'[n].run = r /\ ledger[r] = "pending")
  BY <1>0, <1>1 DEF ListBillable, ListPending, Billing
<1>2. CASE Record(n)
  <2>1. sweep'[n].does = "rest" /\ UNCHANGED paid BY <1>0, <1>2 DEF Record, Rests, Resting
  <2>2. UNCHANGED ledger \/ (ledger[sweep[n].run] = "none"
          /\ \E as \in {"closed", "pending"} : ledger' = [ledger EXCEPT ![sweep[n].run] = as])
    BY <1>2 DEF Record
  <2> QED BY <1>0, <2>1, <2>2
<1>3. CASE Charge(n)
  <2>1. /\ sweep[n].does = "charge" /\ UNCHANGED ledger
        /\ paid' = [paid EXCEPT ![sweep[n].run] = TRUE]
        /\ sweep'[n].does = "mark" /\ sweep'[n].run = sweep[n].run
    BY <1>0, <1>3 DEF Charge, Billing
  <2> QED BY <1>0, <2>1
<1>4. CASE Refuse(n)
  <2>1. /\ sweep[n].does = "charge" /\ UNCHANGED <<ledger, paid>> /\ ~paid[sweep[n].run]
        /\ sweep'[n].does = "refuse" /\ sweep'[n].run = sweep[n].run
    BY <1>0, <1>4 DEF Refuse, Billing
  <2> QED BY <1>0, <2>1
<1>5. CASE MarkLedger(n)
  <2>1. /\ sweep[n].does \in {"mark", "refuse"} /\ UNCHANGED paid
        /\ sweep'[n].does = "rest"
    BY <1>0, <1>5 DEF MarkLedger, Rests, Resting
  <2>2. ledger' = [ledger EXCEPT ![sweep[n].run] =
                     IF sweep[n].does = "mark" THEN "charged" ELSE "refused"]
    BY <1>0, <1>5, <2>1 DEF MarkLedger
  <2> QED BY <1>0, <2>1, <2>2
<1>6. CASE SweepFails(n)
  <2>1. /\ UNCHANGED ledger /\ sweep'[n].does = "rest"
        /\ UNCHANGED paid \/ (sweep[n].does = "charge" /\ paid' = [paid EXCEPT ![sweep[n].run] = TRUE])
    BY <1>0, <1>6 DEF SweepFails, Rests, Resting
  <2> QED BY <1>0, <2>1
<1> QED BY <1>0, <1>1, <1>2, <1>3, <1>4, <1>5, <1>6 DEF SweepStep, SweepActs

\* No other step touches the ledger or the relay.
LEMMA ChargeStep == BillOK /\ ChargeOK /\ [Next]_vars => ChargeOK'
<1> SUFFICES ASSUME BillOK, ChargeOK, [Next]_vars PROVE ChargeOK'
  OBVIOUS
<1>1. CASE UNCHANGED billVars BY <1>1 DEF billVars, ChargeOK
<1>2. ASSUME NEW n \in Node, PlatformDies(n) PROVE ChargeOK'
  <2>1. sweep' = [sweep EXCEPT ![n] = Resting] /\ UNCHANGED <<ledger, paid>>
    BY <1>2 DEF PlatformDies
  <2> QED BY <2>1 DEF ChargeOK, BillOK, Resting
<1>3. ASSUME NEW n \in Node, SweepStep(n) PROVE ChargeOK'
  <2>1. CASE \A k, m \in Node : k = m BY <1>3, <2>1, SweepKeepsCharges
  <2>2. CASE ~(\A k, m \in Node : k = m) BY <2>2 DEF ChargeOK
  <2> QED BY <2>1, <2>2
<1>5. (\E r \in Run : Create(r) \/ GrowsOld(r) \/ LeaseLapses(r)) \/ Reap \/ UNCHANGED vars
      => UNCHANGED billVars
  BY DEF Create, GrowsOld, LeaseLapses, Reap, vars
<1>6. ASSUME NEW r \in Run, TaskStep(r) PROVE UNCHANGED billVars
  BY <1>6 DEF TaskStep, BotRefused, Admit, BusyReply, StartTask, TaskRenews, TaskEnds,
              EndpointSilent, Redispatch
<1>7. ASSUME NEW w \in Worker, WorkerStep(w) \/ \E r \in Run : Claim(w, r)
      PROVE  UNCHANGED billVars
  BY <1>7 DEF WorkerStep, FirstRenewal, Heartbeat, CommandEnds, ReportDone, ReportFailure,
              WorkerDies, Claim
<1>8. ASSUME NEW r \in Run, WindowPasses(r) PROVE ChargeOK'
  BY <1>8 DEF WindowPasses, ChargeOK
<1> QED BY <1>1, <1>2, <1>3, <1>5, <1>6, <1>7, <1>8 DEF Next, Orderly, SweepStep

\* With one ledger writer, what is marked charged was booked, and what was booked
\* is marked charged or still to be charged, although the answers of the relay
\* and the marks may be lost.
THEOREM ServiceChargesAgree == Spec => []ChargesAgree
<1>1. Init => ChargeOK BY DEF Init, ChargeOK, Resting
<1>2. ServiceInv /\ ChargeOK /\ [Next]_vars => ChargeOK'
  BY ChargeStep DEF ServiceInv
<1>3. ChargeOK => ChargesAgree
  <2> SUFFICES ASSUME ChargeOK, Cardinality(Node) = 1
               PROVE  \A m, n \in Node : m = n
    BY DEF ChargeOK, ChargesAgree
  <2> QED BY FS_Singleton, ServiceAssumption DEF ServiceAssumption
<1> QED BY <1>1, <1>2, <1>3, ServiceInvariant, PTL DEF Spec

----------------------------------------------------------------------------
(* The admission gates: the runs that are running or have been let pass.   *)

Admitted == {r \in Run : task[r] = "admitted"}
LetIn == RunningBots \cup Admitted

\* A process has let one run pass at most that has not started yet.
OnePerNode ==
  /\ \A r \in Admitted : KindOfRun(r) = "bot"
  /\ \A q, r \in Admitted : HomeOf[q] = HomeOf[r] => q = r

Bound == MaxInflight + Cardinality(Node) - 1
FewLetIn == ~CountsMayFail => Cardinality(LetIn) <= Bound

\* A row ends, is given up or renewed without any row starting to run.
NoneStarts == \A q \in Run : state'[q] = "running" => state[q] = "running"

LEMMA EndsStartNone ==
  ASSUME RowOK, NEW r \in Run, NEW final \in Final,
         CompleteRow(r, final) \/ FailRow(r, TRUE) \/ FailRow(r, FALSE) \/ RenewRow(r)
         \/ UNCHANGED rowVars
  PROVE  NoneStarts
<1> USE DEF RowOK
<1>1. CASE CompleteRow(r, final) BY <1>1 DEF CompleteRow, Ends, NoneStarts
<1>2. CASE FailRow(r, TRUE) \/ FailRow(r, FALSE) BY <1>2 DEF FailRow, Ends, NoneStarts, rowVars
<1>3. CASE RenewRow(r) \/ UNCHANGED rowVars BY <1>3 DEF RenewRow, rowVars, NoneStarts
<1> QED BY <1>1, <1>2, <1>3

\* Steps of others than the platform's goroutines let nothing in.
LEMMA OthersLetNoneIn ==
  ASSUME ServiceInv, [Next]_vars, ~\E r \in Run : TaskStep(r)
  PROVE  /\ \A q \in Run : task'[q] = "admitted" => task[q] = "admitted"
         /\ \A q \in Run : state'[q] = "running" => state[q] = "running" \/ KindOfRun(q) = "worker"
<1>0. RowOK /\ ExecOK BY DEF ServiceInv
<1>1. ASSUME NEW w \in Worker, WorkerStep(w) PROVE UNCHANGED task /\ NoneStarts
  <2>1. at[w] # "idle" => on[w] \in Run BY <1>0 DEF ExecOK
  <2>2. UNCHANGED task
    BY <1>1 DEF WorkerStep, FirstRenewal, Heartbeat, CommandEnds, ReportDone, ReportFailure,
                WorkerDies, Goes, execVars
  <2>3. \/ UNCHANGED rowVars
        \/ /\ at[w] # "idle"
           /\ \/ RenewRow(on[w]) \/ CompleteRow(on[w], "completed")
              \/ FailRow(on[w], TRUE) \/ FailRow(on[w], FALSE)
    <3>1. ReportFailure(w) => UNCHANGED rowVars \/ (at[w] # "idle" /\ (FailRow(on[w], TRUE) \/ FailRow(on[w], FALSE)))
      <4>1. CASE at[w] = "retry" BY <4>1 DEF ReportFailure, FailRow
      <4>2. CASE at[w] # "retry" BY <4>2 DEF ReportFailure, FailRow
      <4> QED BY <4>1, <4>2
    <3> QED BY <1>1, <3>1 DEF WorkerStep, FirstRenewal, Heartbeat, CommandEnds, ReportDone, WorkerDies
  <2>4. UNCHANGED rowVars => NoneStarts BY DEF rowVars, NoneStarts
  <2> QED BY <1>0, <2>1, <2>2, <2>3, <2>4, EndsStartNone
<1>2. ASSUME NEW w \in Worker, NEW r \in Run, Claim(w, r)
      PROVE  UNCHANGED task /\ KindOfRun(r) = "worker"
             /\ \A q \in Run : state'[q] = "running" => state[q] = "running" \/ q = r
  BY <1>0, <1>2 DEF Claim, Holds, RowOK
<1>3. ASSUME NEW r \in Run, Create(r)
      PROVE  NoneStarts /\ \A q \in Run : task'[q] = "admitted" => task[q] = "admitted"
  <2>1. state' = [state EXCEPT ![r] = "submitted"]
        /\ \E t \in {"none", "dispatched"} : task' = [task EXCEPT ![r] = t]
    BY <1>3 DEF Create
  <2> QED BY <1>0, <2>1 DEF RowOK, ExecOK, NoneStarts
<1>4. Reap => UNCHANGED task /\ NoneStarts BY <1>0 DEF Reap, execVars, NoneStarts, RowOK
<1>5. ASSUME NEW n \in Node, PlatformDies(n)
      PROVE  NoneStarts /\ \A q \in Run : task'[q] = "admitted" => task[q] = "admitted"
  BY <1>0, <1>5 DEF PlatformDies, rowVars, NoneStarts, ExecOK
<1>6. ASSUME NEW n \in Node, SweepStep(n) PROVE UNCHANGED task /\ UNCHANGED state
  BY <1>6 DEF SweepStep, SweepActs, Record, Charge, Refuse, MarkLedger, SweepFails, ListBillable,
              ListPending, rowVars, execVars
<1>7. (\E r \in Run : GrowsOld(r) \/ LeaseLapses(r) \/ WindowPasses(r)) \/ UNCHANGED vars
      => UNCHANGED task /\ UNCHANGED state
  BY DEF GrowsOld, LeaseLapses, WindowPasses, vars, execVars, rowVars
<1> QED BY <1>1, <1>2, <1>3, <1>4, <1>5, <1>6, <1>7 DEF Next, Orderly, SweepStep, NoneStarts

\* A goroutine lets in a run of its own that it counted, or starts one it let in.
LEMMA TaskLetsIn ==
  ASSUME ServiceInv, OnePerNode, NEW r \in Run, TaskStep(r)
  PROVE  \/ LetIn' \subseteq LetIn /\ Admitted' \subseteq Admitted
         \/ /\ KindOfRun(r) = "bot" /\ Unlocked(HomeOf[r])
            /\ UNCHANGED RunningBots /\ Admitted' = Admitted \cup {r}
            /\ CountsMayFail \/ Cardinality(RunningBots \ {r}) < MaxInflight
<1>0. RowOK /\ ExecOK BY DEF ServiceInv
<1>1. UNCHANGED session /\ \A q \in Run : q # r => task'[q] = task[q]
  <2>1. Kept BY <1>0, TaskKeepsRows
  <2> QED BY <1>0, <2>1 DEF Kept, TaskStep, BotRefused, Admit, BusyReply, StartTask, TaskRenews,
          TaskEnds, EndpointSilent, Redispatch, Proceeds, ExecOK, execVars
<1>2. CASE Admit(r)
  <2>1. UNCHANGED RunningBots BY <1>1, <1>2 DEF Admit, rowVars, RunningBots, KindOfRun
  <2>2. task'[r] = "admitted" \/ task'[r] = "busy" BY <1>0, <1>2 DEF Admit, Proceeds, ExecOK
  <2>3. CASE task'[r] = "busy"
    BY <1>1, <2>1, <2>3 DEF LetIn, Admitted
  <2>4. CASE task'[r] = "admitted"
    <3>1. Admitted' = Admitted \cup {r} BY <1>1, <2>4 DEF Admitted
    <3>2. CountsMayFail \/ Cardinality(RunningBots \ {r}) < MaxInflight
      <4>1. SUFFICES ASSUME ~CountsMayFail PROVE Cardinality(RunningBots \ {r}) < MaxInflight
        OBVIOUS
      <4>2. Proceeds(r, IF Cardinality(RunningBots \ {r}) < MaxInflight THEN "admitted" ELSE "busy")
        BY <1>2, <4>1 DEF Admit
      <4> QED BY <1>0, <2>4, <4>2 DEF Proceeds, ExecOK
    <3> QED BY <1>2, <2>1, <3>1, <3>2 DEF Admit
  <2> QED BY <2>2, <2>3, <2>4
<1>3. CASE StartTask(r)
  <2>1. task'[r] # "admitted" BY <1>0, <1>3 DEF StartTask, Proceeds, ExecOK
  <2>2. \A q \in Run : state'[q] = "running" => state[q] = "running" \/ q = r
    BY <1>0, <1>3 DEF StartTask, Holds, rowVars, RowOK
  <2>3. KindOfRun(r) = "bot" => r \in Admitted BY <1>3 DEF StartTask, Admitted
  <2> QED BY <1>1, <2>1, <2>2, <2>3 DEF LetIn, Admitted, RunningBots, KindOfRun
<1>4. CASE ~Admit(r) /\ ~StartTask(r)
  <2>1. \/ UNCHANGED rowVars \/ FailRow(r, TRUE) \/ FailRow(r, FALSE) \/ RenewRow(r)
        \/ CompleteRow(r, "completed") \/ CompleteRow(r, "awaiting")
    BY <1>4 DEF TaskStep, BotRefused, BusyReply, TaskRenews, TaskEnds, EndpointSilent, Redispatch
  <2>2. NoneStarts BY <1>0, <2>1, EndsStartNone
  <2>3. task'[r] = "admitted" => task[r] = "admitted"
    BY <1>0, <1>4 DEF TaskStep, BotRefused, BusyReply, TaskRenews, TaskEnds, EndpointSilent,
         Redispatch, Proceeds, execVars, ExecOK
  <2> QED BY <1>1, <2>2, <2>3 DEF LetIn, Admitted, RunningBots, KindOfRun, NoneStarts
<1> QED BY <1>2, <1>3, <1>4

\* Runs that no two of have the same process are as many as the processes at most.
LEMMA OnePerNodeFew ==
  ASSUME NEW A \in SUBSET Run, \A q, r \in A : HomeOf[q] = HomeOf[r] => q = r
  PROVE  IsFiniteSet(A) /\ Cardinality(A) <= Cardinality(Node)
<1> USE ServiceAssumption DEF ServiceAssumption
<1>1. IsFiniteSet(A) BY FS_Subset
<1>2. Cardinality(A) \in Nat /\ Cardinality(Node) \in Nat BY <1>1, FS_CardinalityType
<1>3. SUFFICES ASSUME Cardinality(Node) < Cardinality(A) PROVE FALSE
  BY <1>1, <1>2
<1> DEFINE f == [r \in A |-> HomeOf[r]]
<1>4. f \in [A -> Node] OBVIOUS
<1>5. \E q, r \in A : q # r /\ f[q] = f[r]
  <2> HIDE DEF f
  <2> QED BY <1>1, <1>3, <1>4, FS_PigeonHole
<1> QED BY <1>5

\* The step that lets a run in keeps the bound: the others it counted are fewer
\* than MaxInflight, and the runs let in number at most one per process.
LEMMA InflightStep == ServiceInv /\ OnePerNode /\ FewLetIn /\ [Next]_vars => OnePerNode' /\ FewLetIn'
<1> SUFFICES ASSUME ServiceInv, OnePerNode, FewLetIn, [Next]_vars PROVE OnePerNode' /\ FewLetIn'
  OBVIOUS
<1> USE ServiceAssumption DEF ServiceAssumption
<1>1. UNCHANGED session BY RowStep DEF Kept
<1>2. IsFiniteSet(LetIn) BY FS_Subset DEF LetIn, RunningBots, Admitted
<1>3. CASE LetIn' \subseteq LetIn /\ Admitted' \subseteq Admitted
  <2>1. OnePerNode' BY <1>1, <1>3 DEF OnePerNode, KindOfRun
  <2>2. Cardinality(LetIn') <= Cardinality(LetIn) /\ IsFiniteSet(LetIn') BY <1>2, <1>3, FS_Subset
  <2>3. Cardinality(LetIn) \in Nat /\ Cardinality(LetIn') \in Nat /\ Cardinality(Node) \in Nat
    BY <1>2, <2>2, FS_CardinalityType
  <2>4. FewLetIn' BY <2>2, <2>3 DEF FewLetIn, Bound
  <2> QED BY <2>1, <2>4
<1>4. ASSUME NEW r \in Run, KindOfRun(r) = "bot", Unlocked(HomeOf[r]),
             UNCHANGED RunningBots, Admitted' = Admitted \cup {r},
             CountsMayFail \/ Cardinality(RunningBots \ {r}) < MaxInflight
      PROVE  OnePerNode' /\ FewLetIn'
  <2>1. OnePerNode' BY <1>1, <1>4 DEF OnePerNode, KindOfRun, Unlocked, Admitted
  <2>2. IsFiniteSet(Admitted') /\ Cardinality(Admitted') <= Cardinality(Node)
    <3>1. Admitted' \in SUBSET Run BY DEF Admitted
    <3>2. \A q, s \in Admitted' : HomeOf[q] = HomeOf[s] => q = s BY <2>1 DEF OnePerNode
    <3> QED BY <3>1, <3>2, OnePerNodeFew
  <2>3. LetIn' = (RunningBots \ {r}) \cup Admitted' BY <1>4 DEF LetIn
  <2>4. IsFiniteSet(RunningBots \ {r}) BY FS_Subset DEF RunningBots
  <2>5. Cardinality(LetIn') <= Cardinality(RunningBots \ {r}) + Cardinality(Admitted')
    <3>1. IsFiniteSet((RunningBots \ {r}) \cap Admitted') BY <2>4, FS_Subset
    <3>2. /\ Cardinality((RunningBots \ {r}) \cap Admitted') \in Nat
          /\ Cardinality(RunningBots \ {r}) \in Nat /\ Cardinality(Admitted') \in Nat
      BY <2>2, <2>4, <3>1, FS_CardinalityType
    <3>3. Cardinality(LetIn') = Cardinality(RunningBots \ {r}) + Cardinality(Admitted')
                                 - Cardinality((RunningBots \ {r}) \cap Admitted')
      BY <2>2, <2>3, <2>4, FS_Union
    <3> QED BY <3>2, <3>3
  <2>6. /\ Cardinality(LetIn') \in Nat /\ Cardinality(RunningBots \ {r}) \in Nat
        /\ Cardinality(Admitted') \in Nat /\ Cardinality(Node) \in Nat
    <3>1. IsFiniteSet(LetIn') BY <2>2, <2>3, <2>4, FS_Union
    <3> QED BY <2>2, <2>4, <3>1, FS_CardinalityType
  <2>7. FewLetIn' BY <1>4, <2>2, <2>5, <2>6 DEF FewLetIn, Bound
  <2> QED BY <2>1, <2>7
<1>5. ASSUME NEW r \in Run, TaskStep(r) PROVE OnePerNode' /\ FewLetIn'
  BY <1>3, <1>4, <1>5, TaskLetsIn
<1>6. CASE ~\E r \in Run : TaskStep(r)
  <2>1. Admitted' \subseteq Admitted BY <1>6, OthersLetNoneIn DEF Admitted
  <2>2. LetIn' \subseteq LetIn
    BY <1>1, <1>6, <2>1, OthersLetNoneIn DEF LetIn, RunningBots, KindOfRun
  <2> QED BY <1>3, <2>1, <2>2
<1> QED BY <1>5, <1>6

\* The processes count a bot's running runs each under a lock of its own: unless
\* a count fails, at most one run per process but the first exceeds MaxInflight.
THEOREM ServiceInflightBounded == Node # {} => (Spec => []InflightBounded)
<1> SUFFICES ASSUME Node # {} PROVE Spec => []InflightBounded
  OBVIOUS
<1> USE ServiceAssumption DEF ServiceAssumption
<1>0. IsFiniteSet(LetIn) BY FS_Subset DEF LetIn, RunningBots, Admitted
<1>1. Init => OnePerNode /\ FewLetIn
  <2> SUFFICES ASSUME Init PROVE OnePerNode /\ FewLetIn
    OBVIOUS
  <2>1. LetIn = {} /\ Admitted = {} BY DEF Init, LetIn, RunningBots, Admitted
  <2>2. Cardinality(LetIn) = 0 BY <2>1, FS_EmptySet
  <2>3. Cardinality(Node) \in Nat /\ Cardinality(Node) # 0
    BY FS_CardinalityType, FS_EmptySet
  <2> QED BY <2>1, <2>2, <2>3 DEF OnePerNode, FewLetIn, Bound
<1>2. FewLetIn => InflightBounded
  <2>1. Cardinality(RunningBots) <= Cardinality(LetIn) /\ IsFiniteSet(RunningBots)
    BY <1>0, FS_Subset DEF LetIn
  <2>2. /\ Cardinality(RunningBots) \in Nat /\ Cardinality(LetIn) \in Nat
        /\ Cardinality(Node) \in Nat
    BY <1>0, <2>1, FS_CardinalityType
  <2> QED BY <2>1, <2>2 DEF FewLetIn, Bound, InflightBounded
<1> QED BY <1>1, <1>2, InflightStep, ServiceInvariant, PTL DEF Spec
=============================================================================
