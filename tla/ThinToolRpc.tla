----------------------------- MODULE ThinToolRpc -----------------------------
(***************************************************************************)
(* Thin-tool RPC (thin_tool_rpc.go): a requester's connection asks the      *)
(* connection bound to a device to run a tool, and is answered by the       *)
(* device's result, by a timeout, or by the replacement of the device's     *)
(* connection. The pending table lives in the memory of the requesters'     *)
(* node; the device may be bound to a connection of that node or, with the  *)
(* shared runtime, of another one.                                          *)
(*                                                                          *)
(* A member of Req is one request message from its arrival until nothing    *)
(* remembers it, so two members with one id are an id that was used again.  *)
(* Authorisation is left out except where it is repeated before forwarding. *)
(***************************************************************************)
EXTENDS Naturals, FiniteSets

CONSTANTS Req, Id, IdOf,
          Requester, From,  \* requester connections; the one a request came on
          Device,           \* connections that announce the (one) target device
          Local,            \* those of the requesters' node
          Connector,        \* those opened with a device connector's token
          Shell,            \* execute_shell under a grant: 310 s, not 120 s
          Modes,            \* the deployments considered: {FALSE}, {TRUE} or both
          MaxPerRequester, MaxPerDevice,
          NoConn, NoReq

Conn == Requester \cup Device

ASSUME ThinAssumption ==
  /\ IdOf \in [Req -> Id]
  /\ From \in [Req -> Requester]
  /\ Local \subseteq Device /\ Connector \subseteq Device
  /\ Requester \cap Device = {}
  /\ Shell \subseteq Req
  /\ Modes \subseteq BOOLEAN
  /\ MaxPerRequester \in Nat /\ MaxPerDevice \in Nat
  /\ NoConn \notin Conn
  /\ NoReq \notin Req

VARIABLES
  shared,      \* TRUE: device routes in Redis, two nodes; never changes
  life,        \* a connection: off, on (in h.clients), removed, gone
  byConn,      \* device connections found by id (h.clientsByConn)
  bound,       \* device connections that carry the device's identity
  route,       \* the connection findDeviceRPCTarget returns
  touching,    \* connections about to write that route for the device they carry
  cancelling,  \* replaced device connections whose requests are to be cancelled
  pc,          \* where the handler of a request is
  target,      \* the route the handler selected
  pending,     \* the router's table
  age,         \* of a pending request: fresh, late (its route lapsed), expired
  delivered,   \* requests the device's connection has received
  claim,       \* the pending entry a result handler has looked up
  resultOf,    \* the request whose result that handler carries
  outbox,      \* answers for entries taken from the table, not sent yet
  answered     \* answers the requester was sent

connVars == <<shared, life, byConn, bound, route, touching, cancelling>>
handlerVars == <<pc, target>>
resultVars == <<delivered, claim, resultOf>>
answerVars == <<outbox, answered>>
rpcVars == <<handlerVars, pending, age, resultVars, answerVars>>
vars == <<connVars, rpcVars>>

PC == {"idle", "add", "checkRequester", "checkTarget", "forward", "done"}

InHandler(r) == pc[r] \notin {"idle", "done"}

\* of: the request whose result this is; NoReq for a timeout or a replacement.
\* lapsed: the requester's route in the entry was no longer valid.
Notice == [req : Req, of : Req \cup {NoReq}, lapsed : BOOLEAN]

TypeOK ==
  /\ shared \in BOOLEAN
  /\ life \in [Conn -> {"off", "on", "removed", "gone"}]
  /\ byConn \subseteq Device /\ bound \subseteq Device
  /\ touching \subseteq Device /\ cancelling \subseteq Device
  /\ route \in Device \cup {NoConn}
  /\ pc \in [Req -> PC]
  /\ target \in [Req -> Device \cup {NoConn}]
  /\ \A r \in Req : InHandler(r) => target[r] \in Device
  /\ pending \subseteq Req /\ delivered \subseteq Req
  /\ age \in [Req -> {"fresh", "late", "expired"}]
  /\ claim \in [Device -> Req \cup {NoReq}]
  /\ resultOf \in [Device -> Req \cup {NoReq}]
  /\ outbox \subseteq Notice
  /\ answered \in [Req -> Nat]

Init ==
  /\ shared \in Modes
  /\ life = [c \in Conn |-> "off"]
  /\ byConn = {} /\ bound = {} /\ touching = {} /\ cancelling = {}
  /\ route = NoConn
  /\ pc = [r \in Req |-> "idle"]
  /\ target = [r \in Req |-> NoConn]
  /\ pending = {} /\ delivered = {}
  /\ age = [r \in Req |-> "fresh"]
  /\ claim = [c \in Device |-> NoReq]
  /\ resultOf = [c \in Device |-> NoReq]
  /\ outbox = {}
  /\ answered = [r \in Req |-> 0]

Goto(r, label) == pc' = [pc EXCEPT ![r] = label]

Unexpired == {r \in pending : age[r] # "expired"}

\* Entries leave the table, their deadlines with them.
Take(S) ==
  /\ pending' = pending \ S
  /\ age' = [r \in Req |-> IF r \in S THEN "fresh" ELSE age[r]]

Notices(S) == {[req |-> r, of |-> NoReq, lapsed |-> r \in Shell /\ age[r] # "fresh"] : r \in S}

----------------------------------------------------------------------------
(* Connections.                                                            *)

\* Nothing but the index of displaced connections remembers c.
Unreferenced(c) ==
  /\ \A r \in Req : pc[r] # "idle" => From[r] # c /\ target[r] # c
  /\ c \notin bound \cup touching \cup cancelling
  /\ route # c
  /\ c \in Device => claim[c] = NoReq

Connect(c) ==
  /\ \/ life[c] = "off"
     \/ life[c] = "gone" /\ Unreferenced(c)
  /\ c \in Device \ Local => shared
  /\ life' = [life EXCEPT ![c] = "on"]
  /\ byConn' = IF c \in Device THEN byConn \cup {c} ELSE byConn
  /\ UNCHANGED <<shared, bound, route, touching, cancelling, rpcVars>>

\* removeClient: a closed socket or a full send buffer.
Disconnect(c) ==
  /\ life[c] = "on"
  /\ life' = [life EXCEPT ![c] = "removed"]
  /\ byConn' = byConn \ {c}
  /\ UNCHANGED <<shared, bound, route, touching, cancelling, rpcVars>>

\* addRegisteredClient: a connection of the same body takes c's place in
\* h.clients; the connection index keeps c.
Displace(c) ==
  /\ life[c] = "on"
  /\ life' = [life EXCEPT ![c] = "removed"]
  /\ UNCHANGED <<shared, byConn, bound, route, touching, cancelling, rpcVars>>

\* Teardown of a requester: its requests are dropped without an answer.
CancelByRequester(c) ==
  /\ c \in Requester
  /\ life[c] = "removed"
  /\ life' = [life EXCEPT ![c] = "gone"]
  /\ Take({r \in pending : From[r] = c})
  /\ UNCHANGED <<shared, byConn, bound, route, touching, cancelling, handlerVars, resultVars,
                 answerVars>>

\* Teardown of a device connection. Only a displaced one has its requests
\* cancelled, afterwards; those of a disconnected one are left to time out.
UnbindDevice(c) ==
  /\ c \in Device
  /\ life[c] = "removed"
  /\ life' = [life EXCEPT ![c] = "gone"]
  /\ bound' = bound \ {c}
  /\ route' = IF c \in bound /\ route = c THEN NoConn ELSE route
  /\ cancelling' = IF c \in byConn THEN cancelling \cup {c} ELSE cancelling
  /\ UNCHANGED <<shared, byConn, touching, rpcVars>>

SameNode(c, d) == c \in Local <=> d \in Local

\* Mutant of BindDevice: the replaced connection's requests are forgotten.
BindWithoutCancel(c) ==
  /\ life[c] # "off"
  /\ bound' = {d \in bound : ~SameNode(c, d)} \cup {c}
  /\ route' = c
  /\ UNCHANGED <<shared, life, byConn, touching, cancelling, rpcVars>>

\* A hi frame binds the device to c in place of the node's previous connection.
\* The read pump of a connection under teardown may still handle one.
BindDevice(c) ==
  /\ life[c] # "off"
  /\ bound' = {d \in bound : ~SameNode(c, d)} \cup {c}
  /\ route' = c
  /\ cancelling' = cancelling \cup {d \in bound : SameNode(c, d) /\ d # c}
  /\ UNCHANGED <<shared, life, byConn, touching, rpcVars>>

\* touchBoundDevice reads, without a lock, which device the connection carries...
TouchReads(c) ==
  /\ shared
  /\ c \in bound \ touching
  /\ touching' = touching \cup {c}
  /\ UNCHANGED <<shared, life, byConn, bound, route, cancelling, rpcVars>>

\* ... and rebinds its route, whatever has become of the connection meanwhile.
TouchWrites(c) ==
  /\ c \in touching
  /\ touching' = touching \ {c}
  /\ route' = c
  /\ UNCHANGED <<shared, life, byConn, bound, cancelling, rpcVars>>

RouteExpires ==
  /\ shared /\ route # NoConn
  /\ route' = NoConn
  /\ UNCHANGED <<shared, life, byConn, bound, touching, cancelling, rpcVars>>

CancelByTarget(c) ==
  LET hit == {r \in pending : target[r] = c /\ c \in Local} IN
  /\ c \in cancelling
  /\ cancelling' = cancelling \ {c}
  /\ Take(hit)
  /\ outbox' = outbox \cup Notices(hit)
  /\ UNCHANGED <<shared, life, byConn, bound, route, touching, handlerVars, resultVars,
                 answered>>

----------------------------------------------------------------------------
(* Taking an entry.                                                        *)

\* Mutant of FinishMatching: the entry is recognised by its request id alone.
FinishById(p) == {q \in pending : IdOf[q] = IdOf[p]}

\* finishMatching takes the entry that was observed, or nothing: connections,
\* routes and both times must agree.
FinishMatching(p) == pending \cap {p}

----------------------------------------------------------------------------
(* handleThinToolRPCRequest.                                               *)

\* A result sent straight to the requester's connection.
Reply(r) ==
  answered' = [answered EXCEPT ![r] = IF life[From[r]] = "on" THEN @ + 1 ELSE @]

\* A route is worth selecting when its connection can be found; what Redis says
\* of another node's connection may be out of date.
RouteConnected(c) == c \in byConn \/ c \notin Local

\* A message dispatched after its connection's teardown has begun takes the same
\* steps as one dispatched just before.
Receive(r) ==
  /\ pc[r] = "idle"
  /\ life[From[r]] = "on"
  /\ \A q \in Req : From[q] = From[r] => ~InHandler(q)
  /\ IF route # NoConn /\ RouteConnected(route)
       THEN /\ target' = [target EXCEPT ![r] = route]
            /\ Goto(r, "add")
            /\ UNCHANGED answered
       ELSE /\ Goto(r, "done")
            /\ Reply(r)
            /\ UNCHANGED target
  /\ UNCHANGED <<connVars, pending, age, resultVars, outbox>>

HasRoom(r) ==
  /\ Cardinality({q \in Unexpired : From[q] = From[r]}) < MaxPerRequester
  /\ Cardinality(Unexpired) < MaxPerDevice

Add(r) ==
  /\ pc[r] = "add"
  /\ IF HasRoom(r) /\ \A q \in pending : IdOf[q] # IdOf[r]
       THEN /\ pending' = pending \cup {r}
            /\ Goto(r, "checkRequester")
            /\ UNCHANGED answered
       ELSE /\ Goto(r, "done")
            /\ Reply(r)
            /\ UNCHANGED pending
  /\ UNCHANGED <<connVars, target, age, resultVars, outbox>>

\* Mutant of CheckRequester: the requester was checked before it was added.
SkipRequesterCheck(r) ==
  /\ pc[r] = "checkRequester"
  /\ Goto(r, "checkTarget")
  /\ UNCHANGED <<connVars, target, pending, age, resultVars, answerVars>>

\* The requester may have gone, and its requests been cancelled, before this
\* one was added.
CheckRequester(r) ==
  /\ pc[r] = "checkRequester"
  /\ IF life[From[r]] = "on"
       THEN Goto(r, "checkTarget") /\ UNCHANGED <<pending, age>>
       ELSE Goto(r, "done") /\ Take(FinishMatching(r))
  /\ UNCHANGED <<connVars, target, resultVars, answerVars>>

\* Mutant of GiveUp: the answer is sent whoever has taken the entry.
GiveUpRegardless(r) ==
  /\ Goto(r, "done")
  /\ Take(FinishMatching(r))
  /\ Reply(r)

\* finishMatching, and an answer when the entry was still there.
GiveUp(r) ==
  /\ Goto(r, "done")
  /\ Take(FinishMatching(r))
  /\ IF FinishMatching(r) # {} THEN Reply(r) ELSE UNCHANGED answered

\* The device may have been bound to another connection, or the authorisation
\* withdrawn, since the route was selected.
CheckTarget(r) ==
  /\ pc[r] = "checkTarget"
  /\ \/ route = target[r] /\ Goto(r, "forward") /\ UNCHANGED <<pending, age, answered>>
     \/ GiveUp(r)
  /\ UNCHANGED <<connVars, target, resultVars, outbox>>

\* A local target is found or not, and a found one may drop the frame; a remote
\* one gets it through Redis, which may fail before or after publishing it.
Forward(r) ==
  /\ pc[r] = "forward"
  /\ \/ /\ RouteConnected(target[r])
        /\ Goto(r, "done")
        /\ UNCHANGED <<pending, age, answered>>
     \/ /\ target[r] \notin Local \cap byConn
        /\ GiveUp(r)
  /\ delivered' \in {delivered} \cup
       (IF life[target[r]] = "on" THEN {delivered \cup {r}} ELSE {})
  /\ UNCHANGED <<connVars, target, claim, resultOf, outbox>>

----------------------------------------------------------------------------
(* handleThinToolRPCResult, on the node of the device's connection.        *)

\* get: an unexpired entry with the result's request id, for this connection,
\* which must still carry the device, or have authenticated as it. The table of
\* another node than the requester's has no entry.
ResultGet(c) ==
  /\ life[c] # "off"
  /\ claim[c] = NoReq
  /\ c \in Local
  /\ c \in bound \cup Connector
  /\ \E r \in delivered, p \in Unexpired :
       /\ target[r] = c
       /\ IdOf[p] = IdOf[r]
       /\ target[p] = c
       /\ claim' = [claim EXCEPT ![c] = p]
       /\ resultOf' = [resultOf EXCEPT ![c] = r]
  /\ UNCHANGED <<connVars, handlerVars, pending, age, delivered, answerVars>>

ResultFinish(c) ==
  LET p == claim[c] IN
  /\ p # NoReq
  /\ Take(FinishMatching(p))
  /\ outbox' = IF FinishMatching(p) = {} THEN outbox
                ELSE outbox \cup {[req |-> p, of |-> resultOf[c], lapsed |-> FALSE]}
  /\ claim' = [claim EXCEPT ![c] = NoReq]
  /\ resultOf' = [resultOf EXCEPT ![c] = NoReq]
  /\ UNCHANGED <<connVars, handlerVars, delivered, answered>>

----------------------------------------------------------------------------
(* Deadlines and answers.                                                  *)

\* An ordinary request expires well within the lifetime of the route recorded
\* with it (300 s); a shell request (310 s) outlives that route.
TimePasses(r) ==
  /\ r \in pending
  /\ age' = [age EXCEPT ![r] = IF r \in Shell /\ @ = "fresh" THEN "late" ELSE "expired"]
  /\ age[r] # "expired"
  /\ UNCHANGED <<connVars, handlerVars, pending, resultVars, answerVars>>

\* Mutant of Expire: the table is swept and nobody is told.
ExpireSilently ==
  /\ Unexpired # pending
  /\ Take(pending \ Unexpired)
  /\ UNCHANGED <<connVars, handlerVars, resultVars, answerVars>>

\* The sweep of the one-second ticker.
Expire ==
  /\ Unexpired # pending
  /\ Take(pending \ Unexpired)
  /\ outbox' = outbox \cup Notices(pending \ Unexpired)
  /\ UNCHANGED <<connVars, handlerVars, resultVars, answered>>

\* A notice goes by the route recorded with the request, if that is still
\* valid; a result falls back to the requester's connection.
Deliver(m) ==
  /\ m \in outbox
  /\ outbox' = outbox \ {m}
  /\ answered' = [answered EXCEPT ![m.req] =
                    IF life[From[m.req]] = "on" /\ ~m.lapsed THEN @ + 1 ELSE @]
  /\ UNCHANGED <<connVars, handlerVars, pending, age, resultVars>>

\* Nothing remembers the request but, maybe, the device: a member of Req may
\* stand for a new message.
Recycle(r) ==
  /\ pc[r] = "done"
  /\ r \notin pending
  /\ \A m \in outbox : m.req # r /\ m.of # r
  /\ \A c \in Device : claim[c] # r /\ resultOf[c] # r
  /\ Goto(r, "idle")
  /\ target' = [target EXCEPT ![r] = NoConn]
  /\ delivered' = delivered \ {r}
  /\ answered' = [answered EXCEPT ![r] = 0]
  /\ UNCHANGED <<connVars, pending, age, claim, resultOf, outbox>>

----------------------------------------------------------------------------
Handle(r) == Add(r) \/ CheckRequester(r) \/ CheckTarget(r) \/ Forward(r)

Next ==
  \/ \E c \in Conn :
       Connect(c) \/ Disconnect(c) \/ CancelByRequester(c) \/ UnbindDevice(c)
  \/ \E c \in Device :
       \/ Displace(c) \/ BindDevice(c) \/ TouchReads(c) \/ TouchWrites(c)
       \/ CancelByTarget(c) \/ ResultGet(c) \/ ResultFinish(c)
  \/ RouteExpires
  \/ \E r \in Req : Receive(r) \/ Handle(r) \/ TimePasses(r) \/ Recycle(r)
  \/ Expire
  \/ \E m \in outbox : Deliver(m)

Spec == Init /\ [][Next]_vars

\* Handlers and teardowns run to their end, time passes, the ticker ticks.
Fairness ==
  /\ \A r \in Req : WF_vars(Handle(r)) /\ WF_vars(TimePasses(r))
  /\ WF_vars(Expire)
  /\ \A m \in Notice : WF_vars(Deliver(m))

FairSpec == Spec /\ Fairness
----------------------------------------------------------------------------
(* What must hold.                                                         *)

\* A request gets at most one answer: the result, the timeout sweep, the
\* cancellation of a replaced target and the handler's own failure paths
\* compete for its entry (finishMatching, expire, cancelByRoute).
AtMostOneAnswer ==
  /\ \A r \in Req : answered[r] <= 1
  /\ \A m, n \in outbox : m.req = n.req => m = n
  /\ \A m \in outbox : answered[m.req] = 0

\* The request is answered, or something is still going to answer it.
Accounted(r) ==
  \/ pc[r] \in {"idle", "add"}
  \/ r \in pending
  \/ \E m \in outbox : m.req = r
  \/ answered[r] > 0
  \/ life[From[r]] # "on"

\* No request within the default deadline is dropped while its requester is
\* connected, whoever takes its entry and however an id is used again.
OrdinaryRequestsAccounted == \A r \in Req \ Shell : Accounted(r)

\* Somebody is still going to answer the request.
Open(r) == pc[r] = "add" \/ r \in pending \/ \E m \in outbox : m.req = r

Phase(r) == IF pc[r] = "idle" THEN "idle" ELSE IF Open(r) THEN "open" ELSE "over"

\* To the requester all of this is one call that is answered once, or dropped
\* because it is gone itself, however ids are used again and whoever competes
\* for the entry; only a shell request may outlive its way back.
Calls ==
  INSTANCE OneShotCalls
    WITH Call <- Req, Caller <- Requester, By <- From, Unsafe <- Shell,
         phase <- [r \in Req |-> Phase(r)], answers <- answered,
         here <- {c \in Requester : life[c] = "on"}

ImplementsCalls == Calls!CallSpec

\* A requester that has been torn down leaves nothing in the table, even if it
\* was torn down in the middle of its own request handler.
NoOrphanPending ==
  \A r \in pending :
    life[From[r]] = "gone" => pc[r] = "checkRequester"

\* Nothing keeps waiting for a connection that has been replaced: either the
\* handler has yet to look again, or the cancellation has yet to come. (With the
\* process-local registry; a disconnected target is left to the timeout.)
ReplacedTargetDrained ==
  ~shared => \A r \in pending :
    \/ pc[r] \in {"checkRequester", "checkTarget"}
    \/ target[r] \in bound \cup cancelling
    \/ target[r] \notin byConn

\* Every request of a connected requester is answered in the end.
EventuallyAnswered ==
  \A r \in Req \ Shell :
    (pc[r] # "idle" /\ life[From[r]] = "on")
      ~> (answered[r] > 0 \/ life[From[r]] # "on")
=============================================================================
