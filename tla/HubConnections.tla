--------------------------- MODULE HubConnections ---------------------------
(***************************************************************************)
(* Bot WebSocket sessions of one bot account: the handshake of ServeWS, the *)
(* body lease (bot_body_lease.go, or its Redis form), registration in the   *)
(* Hub, replacement of a connection of the same body, takeover by the       *)
(* platform's official cloud-worker body, teardown, owner-authorised        *)
(* transfer of the durable binding, node crashes.                           *)
(*                                                                          *)
(* Every shared access of a handshake is a step of its own: it is a         *)
(* goroutine that reads the database, then the lease, then takes h.mu, and  *)
(* any other handshake, read pump or Hub.Run iteration can run in between.  *)
(*                                                                          *)
(* A lease record is determined by its connection id (ids are random and    *)
(* the record always carries that connection's body and node), so the lease *)
(* is the identifier of the connection that holds it.                       *)
(***************************************************************************)
CONSTANTS Node, Conn, Body,
          NodeOf,         \* the node a connection dials
          BodyOf,         \* the body it announces
          LegacyBody,     \* bodies of the form legacy:<uid>
          OfficialBody,   \* the body the platform mints for a cloud worker
          NoConn, NoBody,
          Shared,         \* TRUE: Redis runtime; FALSE: one node, leases in memory
          CallsMayFail,   \* TRUE: database calls and upgrades may return errors
          Flaky           \* nodes that may fail to reach Redis, a whole TTL long

ASSUME HubAssumption ==
  /\ NodeOf \in [Conn -> Node]
  /\ BodyOf \in [Conn -> Body]
  /\ LegacyBody \subseteq Body
  /\ OfficialBody \in Body \ LegacyBody
  /\ NoConn \notin Conn
  /\ NoBody \notin Body
  /\ Shared \in BOOLEAN /\ CallsMayFail \in BOOLEAN
  /\ Flaky \subseteq Node
  /\ ~Shared => Flaky = {} /\ \A m, n \in Node : m = n

VARIABLES
  pc,         \* where the connection's goroutine is
  open,       \* the WebSocket is not closed
  clients,    \* h.clients[botUID] of every node (a connection is on one node)
  byConn,     \* h.clientsByConn of every node
  releasing,  \* removed from the Hub, lease and route not released yet
  stale,      \* connections a registration has displaced and not cleaned up yet
  holder,     \* the connection in the lease record
  routes,     \* connections whose runtime route is stored in Redis
  binding,    \* bot_config.body_id
  official,   \* bot_config.cloud_official_body_id
  transfer    \* body of a transfer request that has passed its checks

vars == <<pc, open, clients, byConn, releasing, stale, holder, routes,
          binding, official, transfer>>

hubVars == <<clients, byConn, releasing, stale, routes>>
dbVars  == <<binding, official, transfer>>

Handshake == {"lookup", "repair", "takeover", "await", "bind", "precheck",
              "acquire", "current", "bump", "add", "finish", "reject"}
PC == Handshake \cup {"idle", "running", "exiting", "gone"}

TypeOK ==
  /\ pc \in [Conn -> PC]
  /\ open \in [Conn -> BOOLEAN]
  /\ clients \subseteq Conn /\ byConn \subseteq Conn
  /\ releasing \subseteq Conn /\ routes \subseteq Conn
  /\ stale \in [Conn -> SUBSET Conn]
  /\ holder \in Conn \cup {NoConn}
  /\ binding \in Body \cup {NoBody}
  /\ official \in {OfficialBody, NoBody}
  /\ transfer \in Body \cup {NoBody}

Init ==
  /\ pc = [c \in Conn |-> "idle"]
  /\ open = [c \in Conn |-> FALSE]
  /\ clients = {} /\ byConn = {} /\ releasing = {} /\ routes = {}
  /\ stale = [c \in Conn |-> {}]
  /\ holder = NoConn
  /\ binding = NoBody /\ official = NoBody /\ transfer = NoBody

----------------------------------------------------------------------------
(* The lease manager.                                                      *)

\* Any single Redis call of c's node may fail. (Within one transaction a failed
\* read leaves no connection to write on.)
RedisMayFail(c) == NodeOf[c] \in Flaky

Legacy(c) == BodyOf[c] \in LegacyBody

\* Mutant of Conflicts: a lease counts only once its connection is registered.
ConflictsOnceRegistered(c) == holder \in clients /\ BodyOf[holder] # BodyOf[c]

\* Another body's live lease stands in c's way.
Conflicts(c) ==
  /\ holder # NoConn
  /\ BodyOf[holder] # BodyOf[c]
  /\ ~(Legacy(holder) /\ ~Legacy(c))

IsCurrent(c) == holder = c

\* Mutant of LeaseAfterRelease: the record is not compared.
ReleaseAny(c) == NoConn

\* release(uid, body, connection): only the connection named in the record.
LeaseAfterRelease(c) == IF holder = c THEN NoConn ELSE holder

\* A Redis call may also fail, and then the record stays.
LeaseReleases(c) ==
  {LeaseAfterRelease(c)} \cup (IF RedisMayFail(c) THEN {holder} ELSE {})

\* A session's own route, and what is left of the routes when its node clears
\* those of D and binds those of B: each of these writes may fail.
OwnRoute(c) == IF Shared THEN {c} ELSE {}

RoutesAfter(c, D, B) ==
  {(routes \ D) \cup B} \cup
    (IF RedisMayFail(c) THEN {(routes \ S) \cup T : S \in SUBSET D, T \in SUBSET B}
                        ELSE {})

SameNode(c, d) == NodeOf[c] = NodeOf[d]

Goto(c, label) == pc' = [pc EXCEPT ![c] = label]

At(c, label) == pc[c] = label

----------------------------------------------------------------------------
(* The handshake, one action per shared access.                            *)

\* A dial whose identifier nothing remembers.
Dial(c) ==
  /\ At(c, "idle")
  /\ Goto(c, "lookup")
  /\ UNCHANGED <<open, holder, hubVars, dbVars>>

\* GetCloudWorkerOfficialBodyID.
LookupOfficial(c) ==
  /\ At(c, "lookup")
  /\ \/ official = NoBody /\ Goto(c, "bind")
     \/ official # NoBody /\ official = BodyOf[c] /\ Goto(c, "repair")
     \/ official # NoBody /\ official # BodyOf[c] /\ Goto(c, "idle")
  /\ UNCHANGED <<open, holder, hubVars, dbVars>>

\* A failed lookup counts as unmanaged.
LookupFails(c) ==
  /\ At(c, "lookup")
  /\ CallsMayFail
  /\ Goto(c, "bind")
  /\ UNCHANGED <<open, holder, hubVars, dbVars>>

\* The official runtime repairs a drifted durable binding, or is turned away.
RepairBinding(c) ==
  /\ At(c, "repair")
  /\ Goto(c, "takeover")
  /\ binding' = BodyOf[c]
  /\ UNCHANGED <<open, holder, hubVars, official, transfer>>

RepairFails(c) ==
  /\ At(c, "repair")
  /\ CallsMayFail
  /\ Goto(c, "idle")
  /\ UNCHANGED <<open, holder, hubVars, dbVars>>

\* Mutant of Takeover: waits for the conflict to clear without closing anything.
TakeoverOnlyWaits(c) ==
  /\ At(c, "takeover")
  /\ Goto(c, IF Conflicts(c) THEN "await" ELSE "precheck")
  /\ UNCHANGED <<open, holder, hubVars, dbVars>>

\* The official runtime closes a foreign holder it can see on its own node. A
\* lease that cannot be read does not conflict.
Takeover(c) ==
  /\ At(c, "takeover")
  /\ \/ /\ Conflicts(c)
        /\ Goto(c, "await")
        /\ open' = IF holder \in byConn /\ SameNode(holder, c)
                     THEN [open EXCEPT ![holder] = FALSE] ELSE open
     \/ /\ ~Conflicts(c) \/ RedisMayFail(c)
        /\ Goto(c, "precheck")
        /\ UNCHANGED open
  /\ UNCHANGED <<holder, hubVars, dbVars>>

\* The bounded wait ends when the conflict is gone or its deadline passes.
AwaitRelease(c) ==
  /\ At(c, "await")
  /\ Goto(c, "precheck")
  /\ UNCHANGED <<open, holder, hubVars, dbVars>>

\* An unmanaged bot: first body binds, a bound bot accepts only its body, and
\* a legacy connection only an unbound bot.
BindBody(c) ==
  /\ At(c, "bind")
  /\ binding' = IF binding = NoBody /\ ~Legacy(c) THEN BodyOf[c] ELSE binding
  /\ Goto(c, IF binding' = IF Legacy(c) THEN NoBody ELSE BodyOf[c]
                THEN "precheck" ELSE "idle")
  /\ UNCHANGED <<open, holder, hubVars, official, transfer>>

\* The update or the read after it fails.
BindBodyFails(c) ==
  /\ At(c, "bind")
  /\ CallsMayFail
  /\ binding' \in {binding} \cup (IF binding = NoBody /\ ~Legacy(c)
                                  THEN {BodyOf[c]} ELSE {})
  /\ Goto(c, "idle")
  /\ UNCHANGED <<open, holder, hubVars, official, transfer>>

Precheck(c) ==
  /\ At(c, "precheck")
  /\ \/ Conflicts(c) /\ Goto(c, "idle")
     \/ (~Conflicts(c) \/ RedisMayFail(c)) /\ Goto(c, "acquire")
  /\ UNCHANGED <<open, holder, hubVars, dbVars>>

UpgradeFails(c) ==
  /\ At(c, "acquire")
  /\ CallsMayFail
  /\ Goto(c, "idle")
  /\ UNCHANGED <<open, holder, hubVars, dbVars>>

\* After the upgrade: take the lease or close the socket. A failed Redis call
\* closes it too, whether or not the record was written.
AcquireLease(c) ==
  /\ At(c, "acquire")
  /\ \/ /\ ~Conflicts(c)
        /\ holder' = c
        /\ Goto(c, "current")
        /\ open' = [open EXCEPT ![c] = TRUE]
     \/ /\ Conflicts(c)
        /\ Goto(c, "gone")
        /\ UNCHANGED <<open, holder>>
     \/ /\ RedisMayFail(c)
        /\ holder' \in {holder} \cup (IF Conflicts(c) THEN {} ELSE {c})
        /\ Goto(c, "gone")
        /\ UNCHANGED open
  /\ UNCHANGED <<hubVars, dbVars>>

\* registerClient first asks whether the lease is still this connection's.
CheckCurrent(c) ==
  /\ At(c, "current")
  /\ \/ IsCurrent(c) /\ Goto(c, "bump") /\ UNCHANGED open
     \/ /\ ~IsCurrent(c) \/ RedisMayFail(c)
        /\ Goto(c, "reject")
        /\ open' = [open EXCEPT ![c] = FALSE]
  /\ UNCHANGED <<holder, hubVars, dbVars>>

\* The connection generation must be persisted before the client is accepted.
BumpGeneration(c) ==
  /\ At(c, "bump")
  /\ Goto(c, "add")
  /\ UNCHANGED <<open, holder, hubVars, dbVars>>

BumpFails(c) ==
  /\ At(c, "bump")
  /\ CallsMayFail
  /\ Goto(c, "reject")
  /\ open' = [open EXCEPT ![c] = FALSE]
  /\ UNCHANGED <<holder, hubVars, dbVars>>

\* Mutant of Displaced: only legacy clients make way.
DisplacedLegacyOnly(c) == {d \in clients : SameNode(c, d) /\ Legacy(d) /\ ~Legacy(c)}

\* Clients of the same node that c displaces: its own body, or a legacy one.
Displaced(c) ==
  {d \in clients : /\ SameNode(c, d)
                   /\ \/ BodyOf[d] = BodyOf[c]
                      \/ Legacy(d) /\ ~Legacy(c)}

AddClient(c) ==
  /\ At(c, "add")
  /\ clients' = (clients \ Displaced(c)) \cup {c}
  /\ byConn' = byConn \cup {c}
  /\ stale' = [stale EXCEPT ![c] = Displaced(c)]
  /\ Goto(c, "finish")
  /\ UNCHANGED <<open, holder, releasing, routes, dbVars>>

\* Mutant of FinishRegister: the newcomer's own route is never bound.
FinishWithoutBind(c) ==
  /\ At(c, "finish")
  /\ open' = [d \in Conn |-> open[d] /\ d \notin stale[c]]
  /\ routes' = routes \ stale[c]
  /\ stale' = [stale EXCEPT ![c] = {}]
  /\ Goto(c, "running")
  /\ UNCHANGED <<holder, clients, byConn, releasing, dbVars>>

\* Close the displaced connections, drop their routes, bind one's own.
FinishRegister(c) ==
  /\ At(c, "finish")
  /\ open' = [d \in Conn |-> open[d] /\ d \notin stale[c]]
  /\ routes' \in RoutesAfter(c, stale[c], OwnRoute(c))
  /\ stale' = [stale EXCEPT ![c] = {}]
  /\ Goto(c, "running")
  /\ UNCHANGED <<holder, clients, byConn, releasing, dbVars>>

\* Mutant of RejectRelease: the refused connection keeps the lease.
RejectKeeps(c) ==
  /\ At(c, "reject")
  /\ Goto(c, "gone")
  /\ UNCHANGED <<open, holder, hubVars, dbVars>>

\* ServeWS gives the lease back when registerClient refused.
RejectRelease(c) ==
  /\ At(c, "reject")
  /\ holder' \in LeaseReleases(c)
  /\ Goto(c, "gone")
  /\ UNCHANGED <<open, hubVars, dbVars>>

\* A call of the handshake other than to Redis fails.
CallFails(c) ==
  \/ LookupFails(c) \/ RepairFails(c) \/ BindBodyFails(c)
  \/ UpgradeFails(c) \/ BumpFails(c)

Proceeds(c) ==
  \/ LookupOfficial(c) \/ RepairBinding(c) \/ Takeover(c) \/ AwaitRelease(c)
  \/ BindBody(c) \/ Precheck(c) \/ AcquireLease(c) \/ CheckCurrent(c)
  \/ BumpGeneration(c) \/ AddClient(c) \/ FinishRegister(c) \/ RejectRelease(c)

ServeWS(c) == Proceeds(c) \/ CallFails(c)

----------------------------------------------------------------------------
(* The life and the end of a session.                                      *)

\* The peer goes away, or the read deadline passes.
PeerCloses(c) ==
  /\ open[c]
  /\ open' = [open EXCEPT ![c] = FALSE]
  /\ UNCHANGED <<pc, holder, hubVars, dbVars>>

\* Any frame or pong: rebind the route (and renew the lease: see RenewalsFail).
Touch(c) ==
  /\ At(c, "running")
  /\ routes' \in RoutesAfter(c, {}, OwnRoute(c))
  /\ UNCHANGED <<pc, open, clients, byConn, releasing, stale, holder, dbVars>>

\* Mutant of PumpExits: the pump returns without telling the Hub.
PumpExitsSilently(c) ==
  /\ At(c, "running")
  /\ ~open[c]
  /\ Goto(c, "gone")
  /\ UNCHANGED <<open, holder, hubVars, dbVars>>

\* ReadMessage fails on a closed socket; the deferred send hands c to Hub.Run.
PumpExits(c) ==
  /\ At(c, "running")
  /\ ~open[c]
  /\ Goto(c, "exiting")
  /\ UNCHANGED <<open, holder, hubVars, dbVars>>

\* Mutant of RemoveClient: the id index is cleaned, the client set is not.
RemoveFromIndexOnly(c) ==
  /\ clients' = clients
  /\ byConn' = IF c \in clients THEN byConn \ {c} ELSE byConn
  /\ releasing' = IF c \in clients THEN releasing \cup {c} ELSE releasing

\* removeClient: only a connection still in h.clients is removed.
RemoveClient(c) ==
  /\ clients' = clients \ {c}
  /\ byConn' = IF c \in clients THEN byConn \ {c} ELSE byConn
  /\ releasing' = IF c \in clients THEN releasing \cup {c} ELSE releasing

HubUnregisters(c) ==
  /\ At(c, "exiting")
  /\ RemoveClient(c)
  /\ Goto(c, "gone")
  /\ UNCHANGED <<open, holder, stale, routes, dbVars>>

\* disconnectClient: a full send buffer drops a client.
DropClient(c) ==
  /\ c \in clients
  /\ RemoveClient(c)
  /\ open' = [open EXCEPT ![c] = FALSE]
  /\ UNCHANGED <<pc, holder, stale, routes, dbVars>>

\* What follows a successful removal: release the lease, clear the route.
ReleaseSession(c) ==
  /\ c \in releasing
  /\ releasing' = releasing \ {c}
  /\ holder' \in LeaseReleases(c)
  /\ routes' \in RoutesAfter(c, {c}, {})
  /\ UNCHANGED <<pc, open, clients, byConn, stale, dbVars>>

\* A running pump renews the lease on every frame and pong, well inside its
\* time to live; a handshake and a teardown take less.
Served(c) == At(c, "running") \/ pc[c] \in Handshake \/ At(c, "exiting") \/ c \in releasing

\* Only a record no session is working for runs out...
LeaseExpires ==
  /\ Shared
  /\ holder # NoConn
  /\ ~Served(holder)
  /\ holder' = NoConn
  /\ UNCHANGED <<pc, open, hubVars, dbVars>>

RouteExpires(c) ==
  /\ c \in routes
  /\ ~At(c, "running")
  /\ routes' = routes \ {c}
  /\ UNCHANGED <<pc, open, clients, byConn, releasing, stale, holder, dbVars>>

\* ... unless its node stalls, or its renewals fail, until it does.
RenewalsFail(c) ==
  /\ RedisMayFail(c)
  /\ \/ holder = c /\ holder' = NoConn /\ UNCHANGED routes
     \/ c \in routes /\ routes' = routes \ {c} /\ UNCHANGED holder
  /\ UNCHANGED <<pc, open, clients, byConn, releasing, stale, dbVars>>

\* An identifier nothing refers to any more may stand for a fresh connection.
Recycle(c) ==
  /\ At(c, "gone")
  /\ c \notin clients \cup byConn \cup releasing \cup routes
  /\ holder # c
  /\ \A d \in Conn : c \notin stale[d]
  /\ Goto(c, "idle")
  /\ open' = [open EXCEPT ![c] = FALSE]
  /\ UNCHANGED <<holder, hubVars, dbVars>>

\* A process dies: its goroutines, maps and (process-local) leases are gone.
Crash(n) ==
  LET lost == {c \in Conn : NodeOf[c] = n} IN
  /\ pc' = [c \in Conn |-> IF c \in lost /\ pc[c] # "idle" THEN "gone" ELSE pc[c]]
  /\ open' = [c \in Conn |-> open[c] /\ c \notin lost]
  /\ clients' = clients \ lost
  /\ byConn' = byConn \ lost
  /\ releasing' = releasing \ lost
  /\ stale' = [c \in Conn |-> IF c \in lost THEN {} ELSE stale[c]]
  /\ holder' = IF Shared THEN holder ELSE NoConn
  /\ transfer' \in {NoBody} \cup (IF Shared THEN {transfer} ELSE {})
  /\ UNCHANGED <<routes, binding, official>>

----------------------------------------------------------------------------
(* The durable binding's other writers.                                    *)

\* BotBodyStatus(n).Active: the lease names a client registered on n.
ActiveOn(n) ==
  /\ holder # NoConn
  /\ holder \in clients
  /\ NodeOf[holder] = n

TransferCheck(n, b) ==
  /\ transfer = NoBody
  /\ b \notin LegacyBody
  /\ official = NoBody
  /\ ~(ActiveOn(n) /\ BodyOf[holder] # b) \/ n \in Flaky
  /\ transfer' = b
  /\ UNCHANGED <<pc, open, holder, hubVars, binding, official>>

TransferCommit ==
  /\ transfer # NoBody
  /\ transfer' = NoBody
  /\ \/ binding' = transfer
     \/ CallsMayFail /\ UNCHANGED binding
  /\ UNCHANGED <<pc, open, holder, hubVars, official>>

\* SetCloudWorkerOfficialBodyID records or clears the platform's body.
SetOfficial(b) ==
  /\ official # b
  /\ official' = b
  /\ UNCHANGED <<pc, open, holder, hubVars, binding, transfer>>

----------------------------------------------------------------------------
\* No process dies, and no call of a handshake fails but for those to Redis.
Orderly ==
  \/ \E c \in Conn :
       \/ Dial(c) \/ Proceeds(c) \/ PeerCloses(c) \/ Touch(c) \/ PumpExits(c)
       \/ HubUnregisters(c) \/ DropClient(c) \/ ReleaseSession(c)
       \/ RouteExpires(c) \/ RenewalsFail(c) \/ Recycle(c)
  \/ LeaseExpires
  \/ \E n \in Node, b \in Body : TransferCheck(n, b)
  \/ TransferCommit
  \/ \E b \in {OfficialBody, NoBody} : SetOfficial(b)

Next == Orderly \/ (\E c \in Conn : CallFails(c)) \/ (\E n \in Node : Crash(n))

Spec == Init /\ [][Next]_vars

\* Goroutines that can run do run, TTLs elapse, and the official runtime keeps
\* dialling: the worker's reconnect loop never gives up.
Fairness ==
  /\ \A c \in Conn :
       /\ WF_vars(ServeWS(c)) /\ WF_vars(PumpExits(c))
       /\ WF_vars(HubUnregisters(c)) /\ WF_vars(ReleaseSession(c))
       /\ WF_vars(RouteExpires(c)) /\ WF_vars(Recycle(c))
       /\ BodyOf[c] = OfficialBody => WF_vars(Dial(c))
  /\ WF_vars(LeaseExpires)

FairSpec == Spec /\ Fairness
----------------------------------------------------------------------------
(* What must hold.                                                         *)

\* Reconnecting with the same body never leaves two registered clients of that
\* body on a node (registerClient and addRegisteredClient displace the old one).
OneClientPerBody ==
  \A c, d \in clients : SameNode(c, d) /\ BodyOf[c] = BodyOf[d] => c = d

\* Presence is never stuck: whatever is registered still has a goroutine that
\* will unregister it, and can be found by its connection id.
ClientsAreServed ==
  \A c \in clients : pc[c] \in {"finish", "running", "exiting"} /\ c \in byConn

\* Other nodes can reach every registered, running client of a node that
\* reaches Redis: displacing and tearing down its predecessors never takes the
\* route of the newcomer.
LiveClientIsRouted ==
  Shared => \A c \in clients :
    At(c, "running") /\ ~RedisMayFail(c) => c \in routes

HasSession(c) == c \in clients \/ pc[c] \in {"current", "bump", "add"}

\* The lease discipline, stated without the Hub (module ExclusiveLease).
Lease == INSTANCE ExclusiveLease WITH
           ended <- {c \in Conn : ~HasSession(c)},
           Unreliable <- {c \in Conn : RedisMayFail(c)}

ImplementsExclusiveLease == Lease!LeaseSpec

\* A client whose socket is closed leaves the Hub.
ClosedClientLeaves ==
  \A c \in Conn : (c \in clients /\ ~open[c]) ~> c \notin clients

\* A registration has displaced the client that holds the lease: two handshakes
\* of one body registered in the opposite order of their acquires. The holder's
\* teardown will find nothing to remove, and release nothing; in memory, where no
\* lease runs out, it stays until the process ends.
Overtaken == ~Shared /\ \E c \in Conn : holder \in stale[c]

\* A lease whose holder has no session comes back, whichever call failed and
\* whoever was refused after taking it, as long as no holder is overtaken.
Orphaned == holder # NoConn /\ ~HasSession(holder)

OrphanLeaseComesBack == []~Overtaken => (Orphaned ~> ~Orphaned)

\* "take the active lease over from any foreign holder": once the platform has
\* minted the official body for good, processes stop crashing and calls failing,
\* its runtime gets registered, again after every disconnection; from any holder,
\* that is, but one that was overtaken.
OfficialTakesOver ==
  /\ []~Overtaken
  /\ <>[][Orderly /\ official' = OfficialBody]_vars
  => []<>(\E c \in clients : BodyOf[c] = OfficialBody)
=============================================================================
