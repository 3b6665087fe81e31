--------------------------- MODULE TaskOutboxProofs ---------------------------
(***************************************************************************)
(* Machine-checked proofs about TaskOutbox, for any number of runs, nodes,  *)
(* revisions and faults.                                                    *)
(***************************************************************************)
EXTENDS TaskOutbox, WellFoundedInduction, TLAPS

\* The statuses that are shown, or may yet be.
Known == {view, reply} \cup {loaded[n] : n \in Node}

\* What a status read at this revision can say.
Reads(s) ==
  /\ s \in Status /\ s.stamp <= 2 * rev + 1
  /\ s.state = "ended" => s.run \in Run /\ state[s.run] = "ended" /\ s.stamp = 2 * rev
  /\ s.state = "active" => s.run \in Run /\ state[s.run] = "active"

\* Of a run that has ended, every "active" still known is older than the
\* present revision, than every "ended", and than what shows once that was seen.
StatusesOK ==
  /\ \A s \in Known :
        /\ s.stamp <= 2 * rev + 1
        /\ s.state = "ended" => s.run \in Run /\ state[s.run] = "ended"
        /\ s.state = "active" =>
             /\ s.run \in Run /\ state[s.run] # "unknown"
             /\ state[s.run] = "ended" => s.stamp < 2 * rev
  /\ \A s, t \in Known :
        s.state = "active" /\ t.state = "ended" /\ s.run = t.run => s.stamp < t.stamp
  /\ \A s \in Known : s.state = "active" /\ s.run \in seen => s.stamp < view.stamp
  /\ seen # {} => view # Nothing
  /\ \A r \in seen : state[r] = "ended"

\* What a dispatcher is about to publish, or has, covers its current event.
DispatchOK ==
  \A n \in Node :
    /\ step[n] # "reload" => batch[n] # {}
    /\ step[n] = "fanout" => loaded[n] # Nothing /\ loaded[n].stamp >= 2 * Current(n)
    /\ step[n] = "complete" => told >= 2 * Current(n)

\* An empty reply stays unused if a run was seen to end since it was asked for.
ReplyOK == rest = "answered" /\ reply = Nothing /\ ~touched => seen = {}

OutboxInv == TypeOK /\ EventsAreTold /\ StatusesOK /\ DispatchOK /\ ReplyOK

----------------------------------------------------------------------------
(* Least and greatest elements.                                            *)

LEMMA LeastExists ==
  ASSUME NEW S \in SUBSET Nat, S # {}
  PROVE  \E m \in S : \A x \in S : m <= x
<1>1. PICK m \in S : \A x \in S : ~(<<x, m>> \in OpToRel(<, Nat))
  BY NatLessThanWellFounded, WFMin
<1>2. \A x \in S : m <= x
  <2> SUFFICES ASSUME NEW x \in S PROVE m <= x
    OBVIOUS
  <2>1. x \in Nat /\ m \in Nat
    OBVIOUS
  <2>2. ~(x < m)
    BY <1>1, <2>1 DEF OpToRel
  <2> QED
    BY <2>1, <2>2
<1> QED
  BY <1>2

LEMMA GreatestExists ==
  ASSUME NEW S, S # {}, NEW f \in [S -> Nat], NEW b \in Nat, \A x \in S : f[x] <= b
  PROVE  \E m \in S : \A x \in S : f[x] <= f[m]
<1> DEFINE T == {b - f[x] : x \in S}
<1>1. T \in SUBSET Nat /\ T # {}
  OBVIOUS
<1>2. PICK t \in T : \A y \in T : t <= y
  BY <1>1, LeastExists
<1>3. PICK m \in S : t = b - f[m]
  OBVIOUS
<1>4. \A x \in S : f[x] <= f[m]
  <2> SUFFICES ASSUME NEW x \in S PROVE f[x] <= f[m]
    OBVIOUS
  <2>1. t <= b - f[x]
    BY <1>2
  <2>2. f[x] \in Nat /\ f[m] \in Nat /\ f[m] <= b
    OBVIOUS
  <2> HIDE DEF T
  <2> QED
    BY <1>3, <2>1, <2>2
<1> QED
  BY <1>4

\* A dispatcher with work has a first event.
LEMMA CurrentIsClaimed ==
  ASSUME TypeOK, NEW n \in Node, batch[n] # {}
  PROVE  Current(n) \in batch[n] /\ Current(n) \in 1..rev
<1>1. batch[n] \in SUBSET Nat /\ batch[n] \subseteq 1..rev
  BY DEF TypeOK
<1>2. \E e \in batch[n] : \A f \in batch[n] : e <= f
  BY <1>1, LeastExists
<1>3. Current(n) \in batch[n]
  BY <1>2 DEF Current
<1> QED
  BY <1>1, <1>3

\* What the ledger answers is true of it; without runs it answers nothing.
LEMMA SummaryReads ==
  ASSUME TypeOK
  PROVE  /\ Reads(Summary)
         /\ Summary # Nothing => Summary.stamp = 2 * rev
         /\ Summary = Nothing => \A r \in Run : state[r] # "ended"
<1> DEFINE best == CHOOSE r \in Candidates : \A s \in Candidates : at[s] <= at[r]
<1>1. CASE Candidates = {}
  <2>1. Summary = Nothing
    BY <1>1 DEF Summary
  <2>2. \A r \in Run : state[r] # "ended"
    BY <1>1 DEF Candidates
  <2>3. Reads(Nothing)
    BY OutboxAssumption DEF Reads, Nothing, Status, TypeOK, OutboxAssumption
  <2> QED
    BY <2>1, <2>2, <2>3
<1>2. CASE Candidates # {}
  <2>1. Candidates \subseteq Run /\ \A r \in Candidates : state[r] \in {"active", "ended"}
    BY DEF Candidates
  <2>2. \E m \in Candidates : \A s \in Candidates : at[s] <= at[m]
    <3> DEFINE f == [s \in Candidates |-> at[s]]
    <3>1. f \in [Candidates -> Nat] /\ \A x \in Candidates : f[x] <= MaxRev
      BY <2>1, OutboxAssumption DEF TypeOK, OutboxAssumption
    <3>2. \E m \in Candidates : \A x \in Candidates : f[x] <= f[m]
      BY <1>2, <3>1, GreatestExists, OutboxAssumption DEF OutboxAssumption
    <3> QED
      BY <3>2
  <2>3. best \in Candidates
    BY <2>2
  <2>4. Summary = [run |-> best, state |-> state[best], stamp |-> 2 * rev]
    BY <1>2 DEF Summary, Revision
  <2> HIDE DEF best
  <2>5. Summary # Nothing
    BY <2>1, <2>3, <2>4 DEF Nothing
  <2>6. Reads(Summary)
    BY <2>1, <2>3, <2>4, OutboxAssumption DEF Reads, Status, TypeOK, OutboxAssumption
  <2> QED
    BY <2>4, <2>5, <2>6
<1> QED
  BY <1>1, <1>2

----------------------------------------------------------------------------
(* What the steps do to the statuses that are known.                       *)

LEMMA ForgettingKeeps ==
  ASSUME StatusesOK, Known' \subseteq Known \cup {Nothing},
         UNCHANGED <<state, rev, view, seen>>, TypeOK
  PROVE  StatusesOK'
BY OutboxAssumption DEF StatusesOK, Nothing, TypeOK, OutboxAssumption

LEMMA ReadingKeeps ==
  ASSUME StatusesOK, TypeOK, NEW x, Reads(x), Known' \subseteq Known \cup {x},
         UNCHANGED <<state, rev, view, seen>>
  PROVE  StatusesOK'
<1>1. \A s \in Known : s \in Status
  BY DEF Known, TypeOK
<1>2. rev \in Nat /\ x.stamp \in Nat /\ \A s \in Known : s.stamp \in Nat
  BY <1>1, OutboxAssumption DEF TypeOK, Reads, Status, OutboxAssumption
<1> QED
  BY <1>1, <1>2 DEF StatusesOK, Reads

LEMMA ShowingKeeps ==
  ASSUME StatusesOK, TypeOK, NEW x \in Known, Show(x), ~Older(x, view),
         x = Nothing => seen = {}, Known' \subseteq Known \cup {Nothing},
         UNCHANGED <<state, rev>>
  PROVE  StatusesOK'
<1>1. \A s \in Known : s \in Status /\ s.stamp \in Nat
  BY OutboxAssumption DEF Known, TypeOK, Status, OutboxAssumption
<1>2. view' = x /\ view \in Known /\ rev \in Nat
  BY DEF Show, Known, TypeOK
<1>3. seen # {} => x.stamp >= view.stamp
  BY <1>1, <1>2 DEF StatusesOK, Older
<1>4. seen' \subseteq seen \cup (IF x.state = "ended" THEN {x.run} ELSE {})
  BY DEF Show
<1>5. \A s \in Known' : s.state = "active" => s \in Known
  BY DEF Nothing
<1>6. \A s \in Known' : s.state = "active" /\ s.run \in seen' => s.stamp < view'.stamp
  <2> SUFFICES ASSUME NEW s \in Known, s.state = "active", s.run \in seen'
               PROVE  s.stamp < x.stamp
    BY <1>2, <1>5
  <2>1. CASE s.run \in seen
    BY <1>1, <1>2, <1>3, <2>1 DEF StatusesOK
  <2>2. CASE s.run \notin seen
    BY <1>4, <2>2 DEF StatusesOK
  <2> QED
    BY <2>1, <2>2
<1>7. seen' # {} => view' # Nothing
  BY <1>2, <1>4 DEF Nothing
<1>8. \A r \in seen' : state'[r] = "ended"
  BY <1>4 DEF StatusesOK
<1>9. \A s \in Known' :
        /\ s.stamp <= 2 * rev' + 1
        /\ s.state = "ended" => s.run \in Run /\ state'[s.run] = "ended"
        /\ s.state = "active" =>
             /\ s.run \in Run /\ state'[s.run] # "unknown"
             /\ state'[s.run] = "ended" => s.stamp < 2 * rev'
  BY <1>2 DEF StatusesOK, Nothing
<1>10. \A s, t \in Known' :
        s.state = "active" /\ t.state = "ended" /\ s.run = t.run => s.stamp < t.stamp
  BY DEF StatusesOK, Nothing
<1> QED
  BY <1>6, <1>7, <1>8, <1>9, <1>10 DEF StatusesOK

LEMMA WritingKeeps ==
  ASSUME StatusesOK, TypeOK, NEW r \in Run, NEW s \in {"active", "ended"}, Write(r, s)
  PROVE  StatusesOK'
<1>1. Known' = Known
  BY DEF Write, Known, dispatchVars, viewVars, restVars
<1>2. \A x \in Known : x \in Status /\ x.stamp \in Nat
  BY OutboxAssumption DEF Known, TypeOK, Status, OutboxAssumption
<1>3. rev \in Nat /\ rev' = rev + 1
  BY DEF TypeOK, Write
<1>4. \A q \in Run : /\ state[q] = "ended" => state'[q] = "ended"
                     /\ state[q] # "unknown" => state'[q] # "unknown"
  BY DEF Write, MayWrite, TypeOK
<1>5. \A x \in Known : x.stamp <= 2 * rev' + 1 /\ x.stamp < 2 * rev'
  BY <1>2, <1>3 DEF StatusesOK
<1>6. seen \subseteq Run /\ UNCHANGED <<view, seen>>
  BY DEF TypeOK, Write, viewVars
<1> QED
  BY <1>1, <1>4, <1>5, <1>6 DEF StatusesOK

----------------------------------------------------------------------------
(* Every step keeps OutboxInv.                                             *)

LEMMA InitHolds == Init => OutboxInv
<1> SUFFICES ASSUME Init PROVE OutboxInv
  OBVIOUS
<1> USE OutboxAssumption DEF OutboxAssumption, Nothing, Status, Event
<1>1. TypeOK
  <2>1. 0 \in 0..MaxRev /\ 0 \in 0..MaxFaults /\ 0 \in 0..(2 * MaxRev + 1)
    OBVIOUS
  <2>2. Nothing \in Status
    BY <2>1
  <2>3. holder \in [Event -> Node \cup {NoNode}]
    BY DEF Init
  <2> HIDE DEF Nothing, Status, Event
  <2> QED
    BY <2>1, <2>2, <2>3 DEF Init, TypeOK
<1>2. EventsAreTold
  BY DEF Init, EventsAreTold
<1>3. StatusesOK
  BY DEF Init, StatusesOK, Known
<1>4. DispatchOK /\ ReplyOK
  BY DEF Init, DispatchOK, ReplyOK
<1> QED
  BY <1>1, <1>2, <1>3, <1>4 DEF OutboxInv

LEMMA LedgerKeeps ==
  ASSUME OutboxInv, NEW r \in Run,
         (\E s \in {"active", "ended"} : Write(r, s)) \/ Lapse(r)
  PROVE  OutboxInv'
<1>1. CASE \E s \in {"active", "ended"} : Write(r, s)
  <2>1. PICK s \in {"active", "ended"} : Write(r, s)
    BY <1>1
  <2>2. TypeOK'
    BY <2>1, OutboxAssumption
       DEF OutboxInv, TypeOK, Write, dispatchVars, viewVars, restVars, Event, OutboxAssumption
  <2>3. EventsAreTold'
    BY <2>1 DEF OutboxInv, TypeOK, EventsAreTold, Write
  <2>4. StatusesOK'
    BY <2>1, WritingKeeps DEF OutboxInv
  <2>5. DispatchOK'
    BY <2>1 DEF OutboxInv, DispatchOK, Write, dispatchVars, Current
  <2>6. ReplyOK'
    BY <2>1 DEF OutboxInv, ReplyOK, Write, viewVars, restVars
  <2> QED
    BY <2>2, <2>3, <2>4, <2>5, <2>6 DEF OutboxInv
<1>2. CASE Lapse(r)
  <2>1. TypeOK'
    BY <1>2 DEF OutboxInv, TypeOK, Lapse, outboxVars, dispatchVars, viewVars, restVars
  <2>2. EventsAreTold'
    BY <1>2 DEF OutboxInv, EventsAreTold, Lapse, outboxVars
  <2>3. StatusesOK'
    <3>1. UNCHANGED <<rev, view, seen>> /\ Known' = Known
      BY <1>2 DEF Lapse, Known, dispatchVars, viewVars, restVars
    <3>2. \A q \in Run : /\ state'[q] = "ended" <=> state[q] = "ended"
                         /\ state[q] # "unknown" => state'[q] # "unknown"
      BY <1>2 DEF OutboxInv, TypeOK, Lapse
    <3>3. seen \subseteq Run
      BY DEF OutboxInv, TypeOK
    <3> QED
      BY <3>1, <3>2, <3>3 DEF OutboxInv, StatusesOK
  <2>4. DispatchOK' /\ ReplyOK'
    BY <1>2 DEF OutboxInv, DispatchOK, ReplyOK, Lapse, dispatchVars, viewVars, restVars, Current
  <2> QED
    BY <2>1, <2>2, <2>3, <2>4 DEF OutboxInv
<1> QED
  BY <1>1, <1>2

\* Claims, and their lapse, move no status.
LEMMA ClaimKeeps ==
  ASSUME OutboxInv,
         (\E n \in Node : Claim(n)) \/ (\E e \in Event : ClaimLapses(e))
  PROVE  OutboxInv'
<1>1. /\ UNCHANGED <<ledgerVars, outbox, step, loaded, told, viewVars>>
      /\ \A n \in Node : step[n] # "reload" => batch'[n] = batch[n]
  BY DEF Claim, ClaimLapses, dispatchVars, OutboxInv, DispatchOK, TypeOK
<1>2. TypeOK'
  <2>1. CASE \E n \in Node : Claim(n)
    <3>1. PICK n \in Node, claimed \in SUBSET due :
            /\ batch' = [batch EXCEPT ![n] = claimed]
            /\ holder' = [e \in Event |-> IF e \in claimed THEN n ELSE holder[e]]
            /\ due' = due \ claimed
            /\ faults' = faults
      BY <2>1 DEF Claim
    <3>2. holder' \in [Event -> Node \cup {NoNode}]
      BY <3>1 DEF OutboxInv, TypeOK
    <3>3. batch' \in [Node -> SUBSET (1..rev)] /\ due' \subseteq outbox
      BY <3>1 DEF OutboxInv, TypeOK
    <3> QED
      BY <1>1, <3>1, <3>2, <3>3 DEF OutboxInv, TypeOK, ledgerVars, viewVars, restVars
  <2>2. CASE \E e \in Event : ClaimLapses(e)
    BY <2>2, <1>1, OutboxAssumption
       DEF OutboxInv, TypeOK, ClaimLapses, Fault, dispatchVars, ledgerVars, viewVars, restVars,
           OutboxAssumption
  <2> QED
    BY <2>1, <2>2
<1>3. EventsAreTold'
  BY <1>1 DEF OutboxInv, EventsAreTold, ledgerVars
<1>4. StatusesOK'
  BY <1>1 DEF OutboxInv, StatusesOK, Known, ledgerVars, viewVars, restVars
<1>5. DispatchOK' /\ ReplyOK'
  BY <1>1 DEF OutboxInv, DispatchOK, ReplyOK, viewVars, restVars, Current
<1> QED
  BY <1>2, <1>3, <1>4, <1>5 DEF OutboxInv

\* A dispatcher loads what it is going to publish.
LEMMA LoadKeeps ==
  ASSUME OutboxInv, NEW n \in Node, Reload(n) \/ StampIdle(n)
  PROVE  OutboxInv'
<1> DEFINE idle == [run |-> NoRun, state |-> "idle", stamp |-> 2 * rev + 1]
<1>1. TypeOK /\ UNCHANGED <<faults, ledgerVars, outboxVars, batch, told, viewVars>>
  BY DEF OutboxInv, Reload, StampIdle
<1>2. batch[n] # {} /\ Current(n) \in 1..rev
  BY <1>1, CurrentIsClaimed DEF OutboxInv, DispatchOK, Reload, StampIdle
<1>3. PICK x : /\ Reads(x)
               /\ \/ loaded' = loaded /\ step' = [step EXCEPT ![n] = "stamp"]
                  \/ /\ loaded' = [loaded EXCEPT ![n] = x]
                     /\ step' = [step EXCEPT ![n] = "fanout"]
                     /\ x # Nothing /\ x.stamp >= 2 * rev
  <2>1. CASE Reload(n)
    BY <1>1, <2>1, SummaryReads, OutboxAssumption DEF Reload, TypeOK, OutboxAssumption
  <2>2. CASE StampIdle(n)
    <3>1. Reads(idle) /\ idle # Nothing /\ idle.stamp >= 2 * rev
      BY <1>1, OutboxAssumption DEF Reads, Status, Nothing, TypeOK, OutboxAssumption
    <3> QED
      BY <2>2, <3>1 DEF StampIdle
  <2> QED
    BY <2>1, <2>2
<1> HIDE DEF idle
<1>4. TypeOK'
  BY <1>1, <1>3 DEF TypeOK, Reads, ledgerVars, outboxVars, viewVars, restVars
<1>5. EventsAreTold'
  BY <1>1 DEF OutboxInv, EventsAreTold, ledgerVars, outboxVars
<1>6. StatusesOK'
  <2>1. Known' \subseteq Known \cup {x} /\ UNCHANGED <<state, rev, view, seen>>
    BY <1>1, <1>3 DEF Known, TypeOK, ledgerVars, viewVars, restVars
  <2> QED
    BY <1>1, <1>3, <2>1, ReadingKeeps DEF OutboxInv
<1>7. DispatchOK'
  <2>1. x.stamp >= 2 * rev => x.stamp >= 2 * Current(n)
    BY <1>1, <1>2, <1>3, OutboxAssumption DEF TypeOK, Reads, Status, OutboxAssumption
  <2>2. \A m \in Node : m # n => step'[m] = step[m] /\ loaded'[m] = loaded[m]
    BY <1>1, <1>3 DEF TypeOK
  <2>3. \A m \in Node : Current(m)' = Current(m)
    BY <1>1 DEF Current
  <2>4. \/ step'[n] = "stamp"
        \/ step'[n] = "fanout" /\ loaded'[n] # Nothing /\ loaded'[n].stamp >= 2 * Current(n)
    BY <1>1, <1>3, <2>1 DEF TypeOK
  <2> QED
    BY <1>1, <1>2, <2>2, <2>3, <2>4 DEF OutboxInv, DispatchOK
<1>8. ReplyOK'
  BY <1>1 DEF OutboxInv, ReplyOK, viewVars, restVars
<1> QED
  BY <1>4, <1>5, <1>6, <1>7, <1>8 DEF OutboxInv

\* A frame is published: the client shows it, or keeps what it shows.
LEMMA PublishShows ==
  ASSUME OutboxInv, NEW n \in Node, step[n] = "fanout", Publish(loaded[n]),
         UNCHANGED <<state, rev, online, rest, reply>>,
         loaded' \in [Node -> Status], \A m \in Node : loaded'[m] \in {loaded[m], Nothing}
  PROVE  /\ StatusesOK' /\ ReplyOK'
         /\ view' \in Status /\ seen' \subseteq Run /\ touched' \in BOOLEAN
         /\ told' \in 0..(2 * MaxRev + 1)
         /\ told' >= told /\ told' >= loaded[n].stamp
<1>1. loaded[n] \in Known /\ loaded[n] \in Status /\ loaded[n] # Nothing
  BY DEF OutboxInv, TypeOK, Known, DispatchOK
<1>2. Known' \subseteq {view', reply, Nothing} \cup {loaded[m] : m \in Node}
  BY DEF Known
<1>3. /\ told' \in 0..(2 * MaxRev + 1)
      /\ told' >= told /\ told' >= loaded[n].stamp
  BY <1>1, OutboxAssumption DEF Publish, OutboxInv, TypeOK, Status, OutboxAssumption
<1>4. CASE UNCHANGED <<view, seen, touched>>
  <2>1. Known' \subseteq Known \cup {Nothing}
    BY <1>2, <1>4 DEF Known
  <2>2. StatusesOK'
    BY <1>4, <2>1, ForgettingKeeps DEF OutboxInv
  <2> QED
    BY <1>3, <1>4, <2>2 DEF OutboxInv, ReplyOK, TypeOK
<1>5. CASE /\ ~Older(loaded[n], view) /\ Show(loaded[n])
           /\ touched' = (rest # "none")
  <2>1. Known' \subseteq Known \cup {Nothing}
    BY <1>1, <1>2, <1>5 DEF Known, Show
  <2>2. StatusesOK'
    BY <1>1, <1>5, <2>1, ShowingKeeps DEF OutboxInv
  <2>3. ReplyOK'
    BY <1>5 DEF ReplyOK
  <2>4. view' \in Status /\ seen' \subseteq Run /\ touched' \in BOOLEAN
    BY <1>1, <1>5 DEF Show, OutboxInv, TypeOK, StatusesOK
  <2> QED
    BY <1>3, <2>2, <2>3, <2>4
<1> QED
  BY <1>4, <1>5 DEF Publish, Receive

LEMMA FanoutKeeps ==
  ASSUME OutboxInv, NEW n \in Node, Fanout(n)
  PROVE  OutboxInv'
<1>1. /\ step[n] = "fanout" /\ Publish(loaded[n])
      /\ step' = [step EXCEPT ![n] = "complete"]
      /\ UNCHANGED <<faults, ledgerVars, outboxVars, batch, loaded, online, rest, reply>>
  BY DEF Fanout
<1>2. /\ StatusesOK' /\ ReplyOK'
      /\ view' \in Status /\ seen' \subseteq Run /\ touched' \in BOOLEAN
      /\ told' \in 0..(2 * MaxRev + 1) /\ told' >= told /\ told' >= loaded[n].stamp
  BY <1>1, PublishShows DEF OutboxInv, TypeOK, ledgerVars
<1>3. TypeOK'
  BY <1>1, <1>2 DEF OutboxInv, TypeOK, ledgerVars, outboxVars
<1>4. told \in Nat /\ told' \in Nat /\ loaded[n].stamp \in Nat /\ rev \in Nat
  BY <1>2, OutboxAssumption DEF OutboxInv, TypeOK, Status, OutboxAssumption
<1>5. EventsAreTold'
  BY <1>1, <1>2, <1>4 DEF OutboxInv, EventsAreTold, ledgerVars, outboxVars
<1>6. DispatchOK'
  <2> SUFFICES ASSUME NEW m \in Node
               PROVE  /\ step'[m] # "reload" => batch[m] # {}
                      /\ step'[m] = "fanout" => loaded[m] # Nothing /\ loaded[m].stamp >= 2 * Current(m)
                      /\ step'[m] = "complete" => told' >= 2 * Current(m)
    BY <1>1 DEF DispatchOK, Current
  <2>1. batch[m] # {} => Current(m) \in Nat
    BY CurrentIsClaimed DEF OutboxInv, TypeOK
  <2>2. m # n => step'[m] = step[m]
    BY <1>1 DEF OutboxInv, TypeOK
  <2> QED
    BY <1>1, <1>2, <1>4, <2>1, <2>2 DEF OutboxInv, DispatchOK
<1> QED
  BY <1>2, <1>3, <1>5, <1>6 DEF OutboxInv

\* A dispatcher leaves its first event, or all it had.
LEMMA LeavingKeepsDispatch ==
  ASSUME OutboxInv, NEW n \in Node, step' = [step EXCEPT ![n] = "reload"],
         \A m \in Node : m # n => batch'[m] = batch[m],
         loaded' = [loaded EXCEPT ![n] = Nothing],
         told' \in Nat, told' >= told
  PROVE  DispatchOK' /\ Known' \subseteq {view', reply', Nothing} \cup {loaded[m] : m \in Node}
<1>1. \A m \in Node : m # n => step'[m] = step[m] /\ loaded'[m] = loaded[m]
                               /\ Current(m)' = Current(m)
  BY DEF OutboxInv, TypeOK, Current
<1>2. step'[n] = "reload" /\ loaded'[n] = Nothing
  BY DEF OutboxInv, TypeOK
<1>3. told \in Nat
  BY OutboxAssumption DEF OutboxInv, TypeOK, OutboxAssumption
<1>4. \A m \in Node : batch[m] # {} => Current(m) \in Nat
  BY CurrentIsClaimed DEF OutboxInv, TypeOK
<1>5. DispatchOK'
  BY <1>1, <1>2, <1>3, <1>4 DEF OutboxInv, DispatchOK
<1>6. Known' \subseteq {view', reply', Nothing} \cup {loaded[m] : m \in Node}
  BY <1>1, <1>2 DEF Known
<1> QED
  BY <1>5, <1>6

\* Leaving an event without telling anything, with or without deleting it.
LEMMA LeavingKeeps ==
  ASSUME OutboxInv, NEW n \in Node, faults' \in 0..MaxFaults,
         step' = [step EXCEPT ![n] = "reload"],
         batch' \in [Node -> SUBSET (1..rev)],
         \A m \in Node : m # n => batch'[m] = batch[m],
         loaded' = [loaded EXCEPT ![n] = Nothing],
         UNCHANGED <<ledgerVars, told, viewVars>>,
         due' \subseteq outbox', outbox' \subseteq outbox,
         \A e \in outbox : e \in outbox' \/ told >= 2 * e,
         holder' \in [Event -> Node \cup {NoNode}]
  PROVE  OutboxInv'
<1>1. UNCHANGED <<state, at, rev, view, seen, rest, reply, touched, online>>
  BY DEF ledgerVars, viewVars, restVars
<1>2. told \in Nat /\ Nothing \in Status
  BY OutboxAssumption DEF OutboxInv, TypeOK, OutboxAssumption, Nothing, Status
<1>3. DispatchOK' /\ Known' \subseteq {view', reply', Nothing} \cup {loaded[m] : m \in Node}
  <2>1. told' \in Nat /\ told' >= told
    BY <1>2
  <2> QED
    BY <2>1, LeavingKeepsDispatch
<1>4. StatusesOK'
  <2>1. Known' \subseteq Known \cup {Nothing}
    BY <1>1, <1>3 DEF Known
  <2> QED
    BY <1>1, <2>1, ForgettingKeeps DEF OutboxInv
<1>5. TypeOK'
  BY <1>1, <1>2 DEF OutboxInv, TypeOK
<1>6. EventsAreTold'
  BY <1>1 DEF OutboxInv, EventsAreTold
<1>7. ReplyOK'
  BY <1>1 DEF OutboxInv, ReplyOK
<1> QED
  BY <1>3, <1>4, <1>5, <1>6, <1>7 DEF OutboxInv

LEMMA FaultCounts ==
  ASSUME TypeOK, Fault
  PROVE  faults' \in 0..MaxFaults
BY OutboxAssumption DEF TypeOK, Fault, OutboxAssumption

LEMMA SkipLeaves ==
  ASSUME TypeOK, NEW n \in Node, Skip(n)
  PROVE  /\ step' = [step EXCEPT ![n] = "reload"]
         /\ batch' \in [Node -> SUBSET (1..rev)]
         /\ \A m \in Node : m # n => batch'[m] = batch[m]
         /\ loaded' = [loaded EXCEPT ![n] = Nothing]
BY DEF TypeOK, Skip

LEMMA CompleteKeeps ==
  ASSUME OutboxInv, NEW n \in Node, Complete(n)
  PROVE  OutboxInv'
<1>1. PICK gone \in SUBSET {Current(n)} :
        /\ outbox' = outbox \ gone /\ due' = due \ gone
        /\ holder' = [e \in Event |-> IF e \in gone THEN NoNode ELSE holder[e]]
  <2> DEFINE gone == {e \in {Current(n)} : holder[e] = n}
  <2>1. gone \in SUBSET {Current(n)}
    OBVIOUS
  <2>2. /\ outbox' = outbox \ gone /\ due' = due \ gone
        /\ holder' = [e \in Event |-> IF e \in gone THEN NoNode ELSE holder[e]]
    BY DEF Complete
  <2> HIDE DEF gone
  <2> QED
    BY <2>1, <2>2
<1>2. holder' \in [Event -> Node \cup {NoNode}]
  BY <1>1 DEF OutboxInv, TypeOK
<1>3. told >= 2 * Current(n)
  BY DEF Complete, OutboxInv, DispatchOK
<1>4. faults' \in 0..MaxFaults /\ UNCHANGED <<ledgerVars, told, viewVars>>
  BY DEF Complete, OutboxInv, TypeOK
<1>5. due' \subseteq outbox'
  BY <1>1 DEF OutboxInv, TypeOK
<1> QED
  BY <1>1, <1>2, <1>3, <1>4, <1>5, SkipLeaves, LeavingKeeps DEF Complete, OutboxInv

LEMMA FailureKeeps ==
  ASSUME OutboxInv, NEW n \in Node, CompleteFails(n) \/ Crash(n)
  PROVE  OutboxInv'
<1>1. faults' \in 0..MaxFaults
  BY FaultCounts DEF CompleteFails, Crash, OutboxInv
<1>2. UNCHANGED <<ledgerVars, outboxVars, told, viewVars>>
  BY DEF CompleteFails, Crash
<1>3. /\ step' = [step EXCEPT ![n] = "reload"]
      /\ batch' \in [Node -> SUBSET (1..rev)]
      /\ \A m \in Node : m # n => batch'[m] = batch[m]
      /\ loaded' = [loaded EXCEPT ![n] = Nothing]
  BY SkipLeaves DEF CompleteFails, Crash, OutboxInv, TypeOK
<1>4. /\ due' \subseteq outbox' /\ outbox' = outbox
      /\ holder' \in [Event -> Node \cup {NoNode}]
  BY <1>2 DEF outboxVars, OutboxInv, TypeOK
<1> QED
  BY <1>1, <1>2, <1>3, <1>4, LeavingKeeps

LEMMA FanoutFailsKeeps ==
  ASSUME OutboxInv, NEW n \in Node, FanoutFails(n)
  PROVE  OutboxInv'
<1>1. /\ faults' \in 0..MaxFaults
      /\ UNCHANGED <<ledgerVars, outboxVars, online, rest, reply>>
  BY FaultCounts DEF FanoutFails, OutboxInv
<1>2. /\ step' = [step EXCEPT ![n] = "reload"]
      /\ batch' \in [Node -> SUBSET (1..rev)]
      /\ \A m \in Node : m # n => batch'[m] = batch[m]
      /\ loaded' = [loaded EXCEPT ![n] = Nothing]
  BY SkipLeaves DEF FanoutFails, GiveUp, OutboxInv
<1>3. CASE UNCHANGED <<told, view, seen, touched>>
  <2>1. UNCHANGED <<ledgerVars, told, viewVars>>
    BY <1>1, <1>3 DEF viewVars, restVars
  <2>2. /\ due' \subseteq outbox' /\ outbox' = outbox
        /\ holder' \in [Event -> Node \cup {NoNode}]
    BY <1>1 DEF outboxVars, OutboxInv, TypeOK
  <2> QED
    BY <1>1, <1>2, <2>1, <2>2, LeavingKeeps
<1>4. CASE step[n] = "fanout" /\ Publish(loaded[n])
  <2>1. /\ loaded' \in [Node -> Status]
        /\ \A m \in Node : loaded'[m] \in {loaded[m], Nothing}
    BY <1>2, OutboxAssumption DEF OutboxInv, TypeOK, Nothing, Status, OutboxAssumption
  <2>2. /\ StatusesOK' /\ ReplyOK'
        /\ view' \in Status /\ seen' \subseteq Run /\ touched' \in BOOLEAN
        /\ told' \in 0..(2 * MaxRev + 1) /\ told' >= told
    BY <1>1, <1>4, <2>1, PublishShows DEF ledgerVars
  <2>3. told \in Nat /\ told' \in Nat /\ rev \in Nat
    BY <2>2, OutboxAssumption DEF OutboxInv, TypeOK, OutboxAssumption
  <2>4. TypeOK'
    BY <1>1, <1>2, <2>1, <2>2 DEF OutboxInv, TypeOK, ledgerVars, outboxVars
  <2>5. EventsAreTold'
    BY <1>1, <2>2, <2>3 DEF OutboxInv, EventsAreTold, ledgerVars, outboxVars
  <2>6. DispatchOK'
    BY <1>2, <2>2, <2>3, LeavingKeepsDispatch
  <2> QED
    BY <2>2, <2>4, <2>5, <2>6 DEF OutboxInv
<1> QED
  BY <1>3, <1>4 DEF FanoutFails

----------------------------------------------------------------------------
(* The client's own steps.                                                 *)

\* Nothing but the client changes, and what it shows stays.
LEMMA WaitingKeeps ==
  ASSUME OutboxInv,
         ComeOnline \/ GoOffline \/ Refresh \/ RequestFails
  PROVE  OutboxInv'
<1>1. UNCHANGED <<ledgerVars, outboxVars, dispatchVars, told, view, seen>>
  BY DEF ComeOnline, GoOffline, Refresh, RequestFails, restVars
<1>2. /\ faults' \in 0..MaxFaults /\ online' \in BOOLEAN /\ touched' \in BOOLEAN
      /\ rest' \in {"none", "asked", "answered"} /\ reply' \in {reply, Nothing}
      /\ rest' = "answered" => rest = "answered" /\ UNCHANGED <<reply, touched>>
  BY FaultCounts DEF ComeOnline, GoOffline, Refresh, RequestFails, Ask, OutboxInv, TypeOK, restVars
<1>3. Nothing \in Status
  BY OutboxAssumption DEF OutboxAssumption, Nothing, Status
<1>4. TypeOK'
  BY <1>1, <1>2, <1>3 DEF OutboxInv, TypeOK, ledgerVars, outboxVars, dispatchVars
<1>5. StatusesOK'
  <2>1. Known' \subseteq Known \cup {Nothing} /\ UNCHANGED <<state, rev, view, seen>>
    BY <1>1, <1>2 DEF Known, ledgerVars, dispatchVars
  <2> QED
    BY <2>1, ForgettingKeeps DEF OutboxInv
<1>6. EventsAreTold' /\ DispatchOK'
  BY <1>1 DEF OutboxInv, EventsAreTold, DispatchOK, ledgerVars, outboxVars, dispatchVars, Current
<1>7. ReplyOK'
  BY <1>1, <1>2 DEF OutboxInv, ReplyOK
<1> QED
  BY <1>4, <1>5, <1>6, <1>7 DEF OutboxInv

LEMMA AnswerKeeps ==
  ASSUME OutboxInv, Answer
  PROVE  OutboxInv'
<1>1. /\ rest' = "answered" /\ reply' = Summary
      /\ UNCHANGED <<faults, ledgerVars, outboxVars, dispatchVars, told, online, view, seen, touched>>
  BY DEF Answer
<1>2. Reads(Summary) /\ (Summary = Nothing => \A r \in Run : state[r] # "ended")
  BY SummaryReads DEF OutboxInv
<1>3. TypeOK'
  BY <1>1, <1>2 DEF OutboxInv, TypeOK, Reads, ledgerVars, outboxVars, dispatchVars
<1>4. StatusesOK'
  <2>1. Known' \subseteq Known \cup {Summary} /\ UNCHANGED <<state, rev, view, seen>>
    BY <1>1 DEF Known, ledgerVars, dispatchVars
  <2> QED
    BY <1>2, <2>1, ReadingKeeps DEF OutboxInv
<1>5. EventsAreTold' /\ DispatchOK'
  BY <1>1 DEF OutboxInv, EventsAreTold, DispatchOK, ledgerVars, outboxVars, dispatchVars, Current
<1>6. ReplyOK'
  BY <1>1, <1>2 DEF OutboxInv, TypeOK, StatusesOK, ReplyOK
<1> QED
  BY <1>3, <1>4, <1>5, <1>6 DEF OutboxInv

LEMMA ApplyKeeps ==
  ASSUME OutboxInv, Apply
  PROVE  OutboxInv'
<1>1. /\ rest = "answered" /\ rest' = "none" /\ reply' = Nothing /\ touched' = FALSE
      /\ UNCHANGED <<faults, ledgerVars, outboxVars, dispatchVars, told, online>>
  BY DEF Apply
<1>2. StatusesOK'
  <2>1. CASE Keeps
    <3>1. Known' \subseteq Known \cup {Nothing} /\ UNCHANGED <<state, rev, view, seen>>
      BY <1>1, <2>1 DEF Known, ledgerVars, dispatchVars, Apply
    <3> QED
      BY <3>1, ForgettingKeeps DEF OutboxInv
  <2>2. CASE ~Keeps
    <3>1. Show(reply) /\ ~Older(reply, view) /\ (reply = Nothing => seen = {})
      BY <1>1, <2>2 DEF Apply, Keeps, OutboxInv, ReplyOK
    <3>2. Known' \subseteq Known \cup {Nothing} /\ UNCHANGED <<state, rev>> /\ reply \in Known
      BY <1>1, <3>1 DEF Known, ledgerVars, dispatchVars, Show
    <3> QED
      BY <3>1, <3>2, ShowingKeeps DEF OutboxInv
  <2> QED
    BY <2>1, <2>2
<1>3. TypeOK'
  <2>1. view' \in Status /\ seen' \subseteq Run
    BY DEF Apply, Show, OutboxInv, TypeOK, StatusesOK, Known
  <2>2. Nothing \in Status
    BY OutboxAssumption DEF OutboxAssumption, Nothing, Status
  <2> QED
    BY <1>1, <2>1, <2>2 DEF OutboxInv, TypeOK, ledgerVars, outboxVars, dispatchVars
<1>4. EventsAreTold' /\ DispatchOK'
  BY <1>1 DEF OutboxInv, EventsAreTold, DispatchOK, ledgerVars, outboxVars, dispatchVars, Current
<1>5. ReplyOK'
  BY <1>1 DEF ReplyOK
<1> QED
  BY <1>2, <1>3, <1>4, <1>5 DEF OutboxInv

----------------------------------------------------------------------------
LEMMA StepKeeps ==
  ASSUME OutboxInv, [Next]_vars
  PROVE  OutboxInv'
<1>1. ASSUME NEW r \in Run, (\E s \in {"active", "ended"} : Write(r, s)) \/ Lapse(r)
      PROVE  OutboxInv'
  BY <1>1, LedgerKeeps
<1>2. ASSUME NEW e \in Event, ClaimLapses(e)
      PROVE  OutboxInv'
  BY <1>2, ClaimKeeps
<1>3. ASSUME NEW n \in Node, NodeStep(n)
      PROVE  OutboxInv'
  BY <1>3, ClaimKeeps, LoadKeeps, FanoutKeeps, FanoutFailsKeeps, CompleteKeeps, FailureKeeps
     DEF NodeStep, NodeProgress
<1>4. CASE ClientStep
  BY <1>4, WaitingKeeps, AnswerKeeps, ApplyKeeps DEF ClientStep
<1>5. CASE UNCHANGED vars
  <2>1. UNCHANGED <<faults, ledgerVars, outboxVars, dispatchVars, told, online, view, seen, rest,
                    reply, touched>>
    BY <1>5 DEF vars, viewVars, restVars
  <2>2. TypeOK' /\ EventsAreTold' /\ ReplyOK' /\ StatusesOK'
    BY <2>1 DEF OutboxInv, TypeOK, EventsAreTold, ReplyOK, StatusesOK, Known, ledgerVars,
                outboxVars, dispatchVars
  <2>3. DispatchOK'
    BY <2>1 DEF OutboxInv, DispatchOK, ledgerVars, outboxVars, dispatchVars, Current
  <2> QED
    BY <2>2, <2>3 DEF OutboxInv
<1> QED
  BY <1>1, <1>2, <1>3, <1>4, <1>5 DEF Next

\* The inductive invariant of the ledger, the dispatchers and the client's list
\* (db/taskstatus/ledger.go, conversation_task_delivery.go, sidepanel-view.jsx).
THEOREM OutboxInvariant == Spec => []OutboxInv
<1>1. OutboxInv /\ [Next]_vars => OutboxInv'
  BY StepKeeps
<1> QED
  BY InitHolds, <1>1, PTL DEF Spec

\* Type correctness of every variable of TaskOutbox.
THEOREM OutboxTypeCorrect == Spec => []TypeOK
<1>1. OutboxInv => TypeOK
  BY DEF OutboxInv
<1> QED
  BY OutboxInvariant, <1>1, PTL

\* An outbox event disappears only after the topic was broadcast at its revision
\* or a later one (dispatchConversationTaskStatusEvents), whatever fails.
THEOREM OutboxEventsAreTold == Spec => []EventsAreTold
<1>1. OutboxInv => EventsAreTold
  BY DEF OutboxInv
<1> QED
  BY OutboxInvariant, <1>1, PTL

\* The list shows no status the ledger did not have, and no run as finished
\* that is not.
THEOREM OutboxShownIsReal == Spec => []ShownIsReal
<1>1. OutboxInv => ShownIsReal
  BY DEF OutboxInv, StatusesOK, ShownIsReal, Known
<1> QED
  BY OutboxInvariant, <1>1, PTL

\* A run the list has shown as finished is never shown as active again.
THEOREM OutboxNoRevival == Spec => []NoRevival
<1>1. OutboxInv => NoRevival
  <2> SUFFICES ASSUME OutboxInv, view.state = "active", view.run \in seen PROVE FALSE
    BY DEF NoRevival
  <2>1. view.stamp < view.stamp
    BY DEF OutboxInv, StatusesOK, Known
  <2>2. view.stamp \in Nat
    BY OutboxAssumption DEF OutboxInv, TypeOK, Status, OutboxAssumption
  <2> QED
    BY <2>1, <2>2
<1> QED
  BY OutboxInvariant, <1>1, PTL

\* No step takes the list back to an older revision of the topic.
THEOREM OutboxViewMovesForward == Spec => ViewMovesForward
<1>1. OutboxInv /\ [Next]_vars => [view' # Nothing => view'.stamp >= view.stamp]_vars
  <2> SUFFICES ASSUME OutboxInv, [Next]_vars, view' # Nothing
               PROVE  view'.stamp >= view.stamp
    OBVIOUS
  <2>1. view.stamp \in Nat /\ (view = Nothing => view.stamp = 0)
    BY OutboxAssumption DEF OutboxInv, TypeOK, Status, Nothing, OutboxAssumption
  <2>2. view'.stamp \in Nat
    BY StepKeeps, OutboxAssumption DEF OutboxInv, TypeOK, Status, OutboxAssumption
  <2>3. \/ view' = view
        \/ ~Older(view', view)
    BY DEF Next, vars, viewVars, Write, Lapse, ClaimLapses, NodeStep, NodeProgress, Claim, Reload,
           StampIdle, Fanout, FanoutFails, Complete, CompleteFails, Crash, Publish, Receive, Show,
           ClientStep, ComeOnline, GoOffline, Refresh, Answer, Apply, RequestFails, Keeps
  <2> QED
    BY <2>1, <2>2, <2>3 DEF Older
<1> QED
  BY OutboxInvariant, <1>1, PTL DEF Spec, ViewMovesForward

----------------------------------------------------------------------------
(* TaskOutbox implements StatusFeed.                                       *)

\* What is known is credible.
LEMMA KnownIsCredible ==
  ASSUME OutboxInv, NEW s \in Known
  PROVE  Feed!Credible(s)
BY DEF OutboxInv, StatusesOK, Feed!Credible

\* To show what is known, and not older, is a step of the watcher.
LEMMA ShowingIsWatching ==
  ASSUME OutboxInv, NEW s \in Known, Show(s), ~Older(s, view), s = Nothing => seen = {}
  PROVE  Feed!Watch(s)
<1>1. s \in Status /\ view \in Status /\ s.stamp \in Nat /\ view.stamp \in Nat
  BY OutboxAssumption DEF OutboxInv, Known, TypeOK, Status, OutboxAssumption
<1>2. s # Nothing => s.stamp >= view.stamp
  BY <1>1 DEF Older, Nothing
<1>3. s.state = "active" => s.run \notin seen
  <2> SUFFICES ASSUME s.state = "active", s.run \in seen PROVE FALSE
    OBVIOUS
  <2>1. s.stamp < view.stamp /\ s # Nothing
    BY DEF OutboxInv, StatusesOK, Nothing
  <2> QED
    BY <1>1, <1>2, <2>1
<1> QED
  BY <1>2, <1>3, KnownIsCredible DEF Feed!Watch, Show

\* A frame that is published is an announcement.
LEMMA PublishAnnounces ==
  ASSUME OutboxInv, NEW n \in Node, step[n] = "fanout", Publish(loaded[n]),
         UNCHANGED <<ledgerVars, outboxVars>>
  PROVE  Feed!FeedNext
<1>1. loaded[n] \in Known /\ loaded[n] \in Status /\ loaded[n] # Nothing
  BY DEF OutboxInv, TypeOK, Known, DispatchOK
<1>2. Feed!Watch(loaded[n]) \/ UNCHANGED <<view, seen>>
  BY <1>1, ShowingIsWatching DEF Publish, Receive
<1>3. Feed!Announce(loaded[n])
  BY <1>1, <1>2, KnownIsCredible
     DEF Feed!Announce, Publish, Feed!topicVars, Feed!watchVars, ledgerVars, outboxVars
<1> QED
  BY <1>1, <1>3 DEF Feed!FeedNext

LEMMA WriteRecords ==
  ASSUME OutboxInv, NEW r \in Run, NEW s \in {"active", "ended"}, Write(r, s)
  PROVE  Feed!FeedNext
<1>1. state \in [Run -> {"unknown", "active", "lapsed", "ended"}]
  BY DEF OutboxInv, TypeOK
<1>2. {q \in Run : state'[q] # "unknown"} = {q \in Run : state[q] # "unknown"} \cup {r}
  BY <1>1 DEF Write
<1>3. {q \in Run : state'[q] = "ended"} =
        IF s = "ended" THEN {q \in Run : state[q] = "ended"} \cup {r}
                       ELSE {q \in Run : state[q] = "ended"}
  BY <1>1 DEF Write, MayWrite
<1>4. Feed!Record(r, s = "ended")
  BY <1>2, <1>3 DEF Feed!Record, Write, MayWrite, Feed!watchVars, viewVars
<1>5. (s = "ended") \in BOOLEAN
  OBVIOUS
<1> QED
  BY <1>4, <1>5 DEF Feed!FeedNext

LEMMA LapseIsUnseen ==
  ASSUME OutboxInv, NEW r \in Run, Lapse(r)
  PROVE  UNCHANGED Feed!feedVars
<1>1. state \in [Run -> {"unknown", "active", "lapsed", "ended"}]
  BY DEF OutboxInv, TypeOK
<1>2. /\ {q \in Run : state'[q] # "unknown"} = {q \in Run : state[q] # "unknown"}
      /\ {q \in Run : state'[q] = "ended"} = {q \in Run : state[q] = "ended"}
  BY <1>1 DEF Lapse
<1> QED
  BY <1>2 DEF Lapse, Feed!feedVars, Feed!topicVars, Feed!watchVars, outboxVars, viewVars

LEMMA CompleteStrikesOff ==
  ASSUME OutboxInv, NEW n \in Node, Complete(n)
  PROVE  Feed!FeedNext \/ UNCHANGED Feed!feedVars
<1>1. UNCHANGED <<state, rev, told, view, seen>>
  BY DEF Complete, ledgerVars, viewVars
<1>2. told >= 2 * Current(n)
  BY DEF Complete, OutboxInv, DispatchOK
<1>3. outbox' = outbox \/ outbox' = outbox \ {Current(n)}
  BY DEF Complete
<1>4. CASE outbox' = outbox
  BY <1>1, <1>4 DEF Feed!feedVars, Feed!topicVars, Feed!watchVars
<1>5. CASE outbox' = outbox \ {Current(n)} /\ Current(n) \in outbox
  <2>1. Feed!StrikeOff(Current(n))
    BY <1>1, <1>2, <1>5 DEF Feed!StrikeOff, Feed!topicVars, Feed!watchVars
  <2> QED
    BY <1>5, <2>1 DEF Feed!FeedNext
<1> QED
  BY <1>3, <1>4, <1>5

LEMMA ApplyLooksUp ==
  ASSUME OutboxInv, Apply
  PROVE  Feed!FeedNext \/ UNCHANGED Feed!feedVars
<1>1. UNCHANGED <<state, rev, outbox, told>>
  BY DEF Apply, ledgerVars, outboxVars
<1>2. CASE Keeps
  BY <1>1, <1>2 DEF Apply, Feed!feedVars, Feed!topicVars, Feed!watchVars
<1>3. CASE ~Keeps
  <2>1. Show(reply) /\ ~Older(reply, view) /\ (reply = Nothing => seen = {})
    BY <1>3 DEF Apply, Keeps, OutboxInv, ReplyOK
  <2>2. reply \in Known /\ reply \in Status
    BY DEF Known, OutboxInv, TypeOK
  <2>3. Feed!LookUp(reply)
    BY <1>1, <2>1, <2>2, ShowingIsWatching DEF Feed!LookUp, Feed!topicVars
  <2> QED
    BY <2>2, <2>3 DEF Feed!FeedNext
<1> QED
  BY <1>2, <1>3

LEMMA StepFeeds ==
  ASSUME OutboxInv, [Next]_vars
  PROVE  [Feed!FeedNext]_(Feed!feedVars)
<1>1. CASE \E r \in Run : (\E s \in {"active", "ended"} : Write(r, s)) \/ Lapse(r)
  BY <1>1, WriteRecords, LapseIsUnseen
<1>2. CASE \E n \in Node : Fanout(n)
  BY <1>2, PublishAnnounces DEF Fanout
<1>3. CASE \E n \in Node : FanoutFails(n) /\ step[n] = "fanout" /\ Publish(loaded[n])
  BY <1>3, PublishAnnounces DEF FanoutFails
<1>4. CASE \E n \in Node : Complete(n)
  BY <1>4, CompleteStrikesOff
<1>5. CASE Apply
  BY <1>5, ApplyLooksUp
<1>6. CASE UNCHANGED <<state, rev, outbox, told, view, seen>>
  BY <1>6 DEF Feed!feedVars, Feed!topicVars, Feed!watchVars
<1>7. CASE \/ \E e \in Event : ClaimLapses(e)
           \/ \E n \in Node : \/ Claim(n) \/ Reload(n) \/ StampIdle(n)
                            \/ CompleteFails(n) \/ Crash(n)
           \/ \E n \in Node : FanoutFails(n) /\ UNCHANGED <<told, view, seen, touched>>
           \/ ComeOnline \/ GoOffline \/ Refresh \/ Answer \/ RequestFails
           \/ UNCHANGED vars
  BY <1>6, <1>7
     DEF ClaimLapses, Claim, Reload, StampIdle, CompleteFails, Crash, FanoutFails, ComeOnline,
         GoOffline, Refresh, Answer, RequestFails, vars, ledgerVars, outboxVars, viewVars
<1> QED
  BY <1>1, <1>2, <1>3, <1>4, <1>5, <1>7
     DEF Next, NodeStep, NodeProgress, ClientStep, FanoutFails

\* TaskOutbox implements StatusFeed: no crash, lost claim, failed fanout or late
\* answer loses an announcement, and none brings the conversation list out of order
\* or an ended run back (conversation_task_delivery.go, sidepanel-view.jsx).
THEOREM OutboxImplementsFeed == Spec => ImplementsFeed
<1>1. Init => Feed!FeedInit
  BY DEF Init, Feed!FeedInit
<1>2. OutboxInv /\ [Next]_vars => [Feed!FeedNext]_(Feed!feedVars)
  BY StepFeeds
<1> QED
  BY <1>1, <1>2, OutboxInvariant, PTL DEF Spec, ImplementsFeed, Feed!FeedSpec
=============================================================================
