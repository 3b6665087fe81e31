----------------------------- MODULE SessionForks -----------------------------
(***************************************************************************)
(* Copies of agent conversations (session_fork.go, session_fork_reaper.go,  *)
(* db/sessionfork/store.go): the server copies the messages at once, the    *)
(* bot's runtime clones its local session when it is told to, and its       *)
(* acknowledgement, the user's cancellation and the reaper decide what       *)
(* becomes of the copy.                                                     *)
(*                                                                          *)
(* A request and the conversation it creates have one name. Each of the     *)
(* store's operations is one transaction that locks the rows it reads.      *)
(***************************************************************************)
EXTENDS Naturals

CONSTANTS
  Source,   \* conversations that are no copies
  Fork,     \* copy requests, and their target conversations
  Body,     \* bot bodies
  NoBody, NoTopic,
  MaxRev,   \* bound: messages written to a conversation
  MaxTurns  \* bound: deletions, changes of members and of the agent's body

Topic == Source \cup Fork

ASSUME ForksAssumption ==
  /\ Source \cap Fork = {}
  /\ NoTopic \notin Topic
  /\ NoBody \notin Body
  /\ MaxRev \in Nat /\ MaxTurns \in Nat

VARIABLES
  state,    \* session_forks.state; "none": no such request yet
  source,   \* source_topic_id
  srcRev,   \* source_revision: the history that was copied
  bodyOf,   \* body_id: the body the agent was bound to
  aged,     \* requests older than the acknowledgement timeout
  fence,    \* topics.fork_state; "plain": empty; "none", "gone": no such topic
  rev,      \* topics.history_revision, of a copy: since it was made
  bound,    \* bot_config.body_id of the agent
  shared,   \* conversations of the user and the agent, and of nobody else
  turns,    \* how often the world around the copies has changed
  frames,   \* session_fork frames on their way to the runtime
  cloned,   \* the source history of the runtime's clone, plus one; 0: none
  ack,      \* what the runtime still has to report: "none", "ready", "failed"
  told      \* the final states the user and the runtime were answered (history)

rowVars     == <<state, source, srcRev, bodyOf>>
topicVars   == <<fence, rev>>
agentVars   == <<bound, shared, turns>>
runtimeVars == <<frames, cloned, ack>>
vars == <<rowVars, aged, topicVars, agentVars, runtimeVars, told>>

Final == {"ready", "failed"}
Closed == {"pending", "failed"}   \* fork states that refuse messages and copies

TypeOK ==
  /\ state \in [Fork -> {"none", "pending"} \cup Final]
  /\ source \in [Fork -> Topic \cup {NoTopic}]
  /\ srcRev \in [Fork -> 0..MaxRev]
  /\ bodyOf \in [Fork -> Body \cup {NoBody}]
  /\ aged \subseteq Fork
  /\ fence \in [Topic -> {"none", "plain", "pending", "gone"} \cup Final]
  /\ rev \in [Topic -> 0..MaxRev]
  /\ bound \in Body /\ shared \subseteq Topic /\ turns \in 0..MaxTurns
  /\ frames \subseteq Fork
  /\ cloned \in [Fork -> 0..(MaxRev + 1)]
  /\ ack \in [Fork -> {"none"} \cup Final]
  /\ told \in [Fork -> SUBSET Final]

Init ==
  /\ state = [f \in Fork |-> "none"]
  /\ source = [f \in Fork |-> NoTopic]
  /\ srcRev = [f \in Fork |-> 0]
  /\ bodyOf = [f \in Fork |-> NoBody]
  /\ aged = {}
  /\ fence = [t \in Topic |-> IF t \in Source THEN "plain" ELSE "none"]
  /\ rev = [t \in Topic |-> 0]
  /\ bound \in Body /\ shared = Source /\ turns = 0
  /\ frames = {}
  /\ cloned = [f \in Fork |-> 0]
  /\ ack = [f \in Fork |-> "none"]
  /\ told = [f \in Fork |-> {}]

----------------------------------------------------------------------------
(* The conversations around a copy.                                        *)

\* The trigger on messages, whatever path writes them.
Refuses(t) == fence[t] \in Closed

WriteMessage(t) ==
  /\ fence[t] \notin {"none", "gone"} /\ ~Refuses(t)
  /\ rev[t] < MaxRev
  /\ rev' = [rev EXCEPT ![t] = @ + 1]
  /\ UNCHANGED <<rowVars, aged, fence, agentVars, runtimeVars, told>>

Turn == turns < MaxTurns /\ turns' = turns + 1

\* A group is deleted with its messages and its topic.
Disband(t) ==
  /\ Turn
  /\ fence[t] \notin {"none", "gone"}
  /\ fence' = [fence EXCEPT ![t] = "gone"]
  /\ shared' = shared \ {t}
  /\ UNCHANGED <<rowVars, aged, rev, bound, runtimeVars, told>>

\* Somebody joins or leaves, or the friendship with the agent ends or begins.
ShareChanges(t) ==
  /\ Turn
  /\ fence[t] \notin {"none", "gone"}
  /\ shared' = IF t \in shared THEN shared \ {t} ELSE shared \cup {t}
  /\ UNCHANGED <<rowVars, aged, topicVars, bound, runtimeVars, told>>

Rebind(b) ==
  /\ Turn
  /\ bound' = b /\ b # bound
  /\ UNCHANGED <<rowVars, aged, topicVars, shared, runtimeVars, told>>

----------------------------------------------------------------------------
(* The user's requests.                                                    *)

\* dispatchSessionFork sends a frame if the right body is connected.
Dispatch(f, body) ==
  \/ UNCHANGED frames
  \/ bound = body /\ frames' = frames \cup {f}

\* CreateSessionFork: the source is locked and checked, its messages are copied,
\* and the copy is fenced, in one transaction; then the runtime is told.
Create(f, t) ==
  /\ state[f] = "none"
  /\ fence[t] \notin Closed \cup {"none", "gone"}
  /\ t \in shared
  /\ state' = [state EXCEPT ![f] = "pending"]
  /\ source' = [source EXCEPT ![f] = t]
  /\ srcRev' = [srcRev EXCEPT ![f] = rev[t]]
  /\ bodyOf' = [bodyOf EXCEPT ![f] = bound]
  /\ fence' = [fence EXCEPT ![f] = "pending"]
  /\ shared' = shared \cup {f}
  /\ Dispatch(f, bound)
  /\ UNCHANGED <<aged, rev, bound, turns, cloned, ack, told>>

\* The same request again: a pending copy is dispatched again, a decided one is
\* answered as it is.
Retry(f) ==
  /\ state[f] # "none"
  /\ IF state[f] = "pending"
     THEN Dispatch(f, bodyOf[f]) /\ UNCHANGED told
     ELSE told' = [told EXCEPT ![f] = @ \cup {state[f]}] /\ UNCHANGED frames
  /\ UNCHANGED <<rowVars, aged, topicVars, agentVars, cloned, ack>>

\* Mutant of Decide: the row is decided, the topic keeps its fence.
DecideRow(f, s) ==
  /\ state' = [state EXCEPT ![f] = s]
  /\ UNCHANGED fence

\* The row and the topic's fork_state change together.
Decide(f, s) ==
  /\ state' = [state EXCEPT ![f] = s]
  /\ fence' = [fence EXCEPT ![f] = IF @ = "gone" THEN @ ELSE s]

Answer(f, s) == told' = [told EXCEPT ![f] = @ \cup {s}]

\* Mutant of Undecided: whoever comes last decides.
Undecidedly(f) == state[f] # "none"

Undecided(f) == state[f] = "pending"

\* CancelSessionFork: what is decided stays.
Cancel(f) ==
  /\ state[f] # "none"
  /\ IF Undecided(f)
     THEN Decide(f, "failed") /\ Answer(f, "failed")
     ELSE Answer(f, state[f]) /\ UNCHANGED <<state, fence>>
  /\ UNCHANGED <<source, srcRev, bodyOf, aged, rev, agentVars, runtimeVars>>

----------------------------------------------------------------------------
(* The runtime, as the server sees it.                                     *)

\* It clones its session as it is now, once, and will report how that went.
Clone(f) ==
  /\ f \in frames
  /\ frames' = frames \ {f}
  /\ IF cloned[f] = 0
     THEN /\ cloned' = [cloned EXCEPT ![f] = rev[source[f]] + 1]
          /\ \E s \in Final : ack' = [ack EXCEPT ![f] = s]
     ELSE UNCHANGED <<cloned, ack>>
  /\ UNCHANGED <<rowVars, aged, topicVars, agentVars, told>>

\* The frame is lost, or the runtime is too old to know it.
Ignore(f) ==
  /\ f \in frames
  /\ frames' = frames \ {f}
  /\ UNCHANGED <<rowVars, aged, topicVars, agentVars, cloned, ack, told>>

\* Mutant of SourceKept: the acknowledgement is believed.
SourceExists(f) == fence[source[f]] # "gone"

\* The source is as it was copied, the agent is bound as it was.
SourceKept(f) ==
  /\ fence[source[f]] \notin Closed \cup {"gone"}
  /\ rev[source[f]] = srcRev[f]
  /\ source[f] \in shared /\ bound = bodyOf[f]

TargetKept(f) ==
  /\ fence[f] = "pending" /\ rev[f] = 0
  /\ f \in shared /\ bound = bodyOf[f]

\* CompleteSessionFork, answered; the answer may be lost and the report sent
\* again, which changes nothing any more.
Complete(f) ==
  /\ ack[f] # "none"
  /\ IF Undecided(f)
     THEN \E s \in Final :
            /\ s = "ready" <=> (ack[f] = "ready" /\ SourceKept(f) /\ TargetKept(f))
            /\ Decide(f, s) /\ Answer(f, s)
     ELSE Answer(f, state[f]) /\ UNCHANGED <<state, fence>>
  /\ ack' \in {ack, [ack EXCEPT ![f] = "none"]}
  /\ UNCHANGED <<source, srcRev, bodyOf, aged, rev, agentVars, frames, cloned>>

----------------------------------------------------------------------------
(* The reaper.                                                             *)

AckTimeout(f) ==
  /\ state[f] = "pending" /\ f \notin aged
  /\ aged' = aged \cup {f}
  /\ UNCHANGED <<rowVars, topicVars, agentVars, runtimeVars, told>>

\* Mutant of Expire: only copies whose runtime was told are waited for.
ExpireTold(f) ==
  /\ f \in aged /\ Undecided(f) /\ cloned[f] # 0
  /\ Decide(f, "failed")
  /\ UNCHANGED <<source, srcRev, bodyOf, aged, rev, agentVars, runtimeVars, told>>

\* ExpireSessionForks fails what nobody has decided; nobody is answered.
Expire(f) ==
  /\ f \in aged /\ Undecided(f)
  /\ Decide(f, "failed")
  /\ UNCHANGED <<source, srcRev, bodyOf, aged, rev, agentVars, runtimeVars, told>>

----------------------------------------------------------------------------
TopicStep(t) == WriteMessage(t) \/ Disband(t) \/ ShareChanges(t)

ForkStep(f) ==
  \/ \E t \in Topic : Create(f, t)
  \/ Retry(f) \/ Cancel(f)
  \/ Clone(f) \/ Ignore(f) \/ Complete(f)
  \/ AckTimeout(f) \/ Expire(f)

Next ==
  \/ \E t \in Topic : TopicStep(t)
  \/ \E b \in Body : Rebind(b)
  \/ \E f \in Fork : ForkStep(f)

Spec == Init /\ [][Next]_vars

\* Time passes and the reaper runs; nothing is asked of the runtime or the user.
Fairness == \A f \in Fork : WF_vars(AckTimeout(f)) /\ WF_vars(Expire(f))

FairSpec == Spec /\ Fairness

----------------------------------------------------------------------------
(* Properties.                                                             *)

\* A ready copy is whole: the history the server copied is the one the runtime
\* cloned, although messages come, runtimes are slow and requests are repeated.
ReadyCopiesAgree ==
  \A f \in Fork : state[f] = "ready" => cloned[f] = srcRev[f] + 1

\* The row and the conversation say the same of a copy, unless the conversation
\* was deleted: no copy is writable that has failed, or closed that is ready.
FenceMatches ==
  \A f \in Fork : fence[f] \in {state[f], "gone"}

\* Everyone who was answered an outcome was answered the same one, and it holds:
\* a cancellation, a late acknowledgement and the reaper do not overrule another.
AnswersAgree ==
  \A f \in Fork : told[f] \subseteq {state[f]}

\* The user's cancellation, the runtime's report and the reaper decide a copy
\* once between them, and whoever is answered, however late, gets that decision.
Decision ==
  INSTANCE SingleDecision
    WITH Item <- Fork, Outcome <- Final, Open <- "open",
         outcome <- [f \in Fork |-> IF state[f] \in Final THEN state[f] ELSE "open"]

ImplementsDecision == Decision!DecisionSpec

\* No message gets into a copy that is not ready.
UnreadyCopiesStayAsMade ==
  \A f \in Fork : state[f] # "ready" => rev[f] = 0

\* A copy does not stay pending when its runtime never answers.
PendingForksEnd ==
  \A f \in Fork : (state[f] = "pending") ~> (state[f] \in Final)
=============================================================================
