------------------------ MODULE HubConnectionsProofs ------------------------
(***************************************************************************)
(* Machine-checked proofs about HubConnections, for any number of nodes,    *)
(* bodies and connections, either lease store, and any failures of it.      *)
(***************************************************************************)
EXTENDS HubConnections, TLAPS

\* A connection some registration displaced, or whose removal is being
\* finished, has left h.clients and cannot come back under the same id.
Departed == {"finish", "running", "exiting", "gone"}

DepartedStayOut ==
  /\ \A c \in Conn : \A d \in stale[c] : d \notin clients /\ pc[d] \in Departed
  /\ \A d \in releasing : d \notin clients /\ pc[d] \in Departed

\* The inductive invariant: the three safety invariants of the runs need to
\* know that what teardown is still working on is out of the Hub.
HubInv ==
  /\ TypeOK
  /\ ClientsAreServed
  /\ DepartedStayOut
  /\ OneClientPerBody
  /\ LiveClientIsRouted

USE HubAssumption

\* Initially nothing is connected.
LEMMA InitHubInv == Init => HubInv
  BY DEF Init, HubInv, TypeOK, PC, Handshake, ClientsAreServed, DepartedStayOut,
         OneClientPerBody, LiveClientIsRouted, SameNode

\* A failing call of a handshake ends it, or sends it on to the binding; of what
\* is shared it can change the durable binding only.
LEMMA CallFailsEffect ==
  ASSUME NEW c \in Conn, CallFails(c)
  PROVE  /\ pc[c] \in {"lookup", "repair", "bind", "acquire", "bump"}
         /\ \E label \in {"bind", "idle", "reject"} : Goto(c, label)
         /\ open' = open \/ open' = [open EXCEPT ![c] = FALSE]
         /\ binding' \in {binding, BodyOf[c]}
         /\ UNCHANGED <<holder, hubVars, official, transfer>>
<1> USE DEF At, Goto, dbVars
<1>1. CASE LookupFails(c) BY <1>1 DEF LookupFails
<1>2. CASE RepairFails(c) BY <1>2 DEF RepairFails
<1>3. CASE BindBodyFails(c) BY <1>3 DEF BindBodyFails
<1>4. CASE UpgradeFails(c) BY <1>4 DEF UpgradeFails
<1>5. CASE BumpFails(c) BY <1>5 DEF BumpFails
<1> QED BY <1>1, <1>2, <1>3, <1>4, <1>5 DEF CallFails

\* Every step keeps the types.
LEMMA NextTypeOK == TypeOK /\ [Next]_vars => TypeOK'
<1> SUFFICES ASSUME TypeOK, [Next]_vars PROVE TypeOK'
  OBVIOUS
<1> USE DEF TypeOK, PC, Handshake, Goto, At, hubVars, dbVars
<1>1. ASSUME NEW c \in Conn, ServeWS(c) PROVE TypeOK'
  <2>1. CASE LookupOfficial(c) BY <2>1 DEF LookupOfficial
  <2>2. CASE RepairBinding(c) BY <2>2 DEF RepairBinding
  <2>3. CASE Takeover(c) BY <2>3 DEF Takeover
  <2>4. CASE AwaitRelease(c) BY <2>4 DEF AwaitRelease
  <2>5. CASE BindBody(c) BY <2>5 DEF BindBody
  <2>6. CASE Precheck(c) BY <2>6 DEF Precheck
  <2>7. CASE AcquireLease(c) BY <2>7 DEF AcquireLease
  <2>8. CASE CheckCurrent(c) BY <2>8 DEF CheckCurrent
  <2>9. CASE BumpGeneration(c) BY <2>9 DEF BumpGeneration
  <2>10. CASE AddClient(c) BY <2>10 DEF AddClient, Displaced
  <2>11. CASE FinishRegister(c) BY <2>11 DEF FinishRegister, RoutesAfter, OwnRoute
  <2>12. CASE RejectRelease(c)
    BY <2>12 DEF RejectRelease, LeaseReleases, LeaseAfterRelease
  <2>13. CASE CallFails(c)
    <3>1. /\ \E label \in {"bind", "idle", "reject"} : pc' = [pc EXCEPT ![c] = label]
          /\ open' = open \/ open' = [open EXCEPT ![c] = FALSE]
          /\ binding' = binding \/ binding' = BodyOf[c]
          /\ UNCHANGED <<holder, clients, byConn, releasing, stale, routes, official, transfer>>
      BY <2>13, CallFailsEffect
    <3>2. pc' \in [Conn -> PC] /\ open' \in [Conn -> BOOLEAN] BY <3>1
    <3>3. binding' \in Body \cup {NoBody} BY <3>1, HubAssumption
    <3> QED BY <3>1, <3>2, <3>3
  <2> QED BY <1>1, <2>1, <2>2, <2>3, <2>4, <2>5, <2>6, <2>7, <2>8, <2>9,
             <2>10, <2>11, <2>12, <2>13 DEF ServeWS, Proceeds
<1>2. ASSUME NEW c \in Conn,
             Dial(c) \/ PeerCloses(c) \/ Touch(c) \/ PumpExits(c)
               \/ RouteExpires(c) \/ Recycle(c)
      PROVE TypeOK'
  <2>1. CASE Dial(c) BY <2>1 DEF Dial
  <2>2. CASE PeerCloses(c) BY <2>2 DEF PeerCloses
  <2>3. CASE Touch(c) BY <2>3 DEF Touch, RoutesAfter, OwnRoute
  <2>4. CASE PumpExits(c) BY <2>4 DEF PumpExits
  <2>5. CASE RouteExpires(c) BY <2>5 DEF RouteExpires
  <2>6. CASE Recycle(c) BY <2>6 DEF Recycle
  <2> QED BY <1>2, <2>1, <2>2, <2>3, <2>4, <2>5, <2>6
<1>3. ASSUME NEW c \in Conn, HubUnregisters(c) \/ DropClient(c) PROVE TypeOK'
  BY <1>3 DEF HubUnregisters, DropClient, RemoveClient
<1>4. ASSUME NEW c \in Conn, ReleaseSession(c) PROVE TypeOK'
  BY <1>4 DEF ReleaseSession, LeaseReleases, LeaseAfterRelease, RoutesAfter
<1>5. CASE LeaseExpires BY <1>5 DEF LeaseExpires
<1>6. ASSUME NEW n \in Node, Crash(n) PROVE TypeOK'
  BY <1>6 DEF Crash
<1>7. ASSUME NEW n \in Node, NEW b \in Body, TransferCheck(n, b) PROVE TypeOK'
  BY <1>7 DEF TransferCheck
<1>8. CASE TransferCommit BY <1>8 DEF TransferCommit
<1>9. ASSUME NEW b \in {OfficialBody, NoBody}, SetOfficial(b) PROVE TypeOK'
  BY <1>9 DEF SetOfficial
<1>10. CASE UNCHANGED vars BY <1>10 DEF vars
<1>11. ASSUME NEW c \in Conn, RenewalsFail(c) PROVE TypeOK'
  BY <1>11 DEF RenewalsFail
<1> QED BY <1>1, <1>2, <1>3, <1>4, <1>5, <1>6, <1>7, <1>8, <1>9, <1>10, <1>11
    DEF Next, Orderly, ServeWS

\* Every step keeps the invariant: nothing that is being torn down is (or gets
\* back) in h.clients, so no cleanup can hit a live client's index or route.
LEMMA NextHubInv == HubInv /\ [Next]_vars => HubInv'
<1> SUFFICES ASSUME HubInv, [Next]_vars PROVE HubInv'
  OBVIOUS
<1>t. TypeOK /\ TypeOK'
  BY NextTypeOK DEF HubInv
<1> USE <1>t DEF HubInv
<1> DEFINE Rest == /\ ClientsAreServed' /\ DepartedStayOut'
                   /\ OneClientPerBody' /\ LiveClientIsRouted'
<1> SUFFICES Rest
  OBVIOUS
<1> USE DEF TypeOK, ClientsAreServed, DepartedStayOut, Departed,
            OneClientPerBody, LiveClientIsRouted, SameNode, Goto, At, hubVars, dbVars
<1>1. ASSUME NEW c \in Conn, ServeWS(c) PROVE Rest
  <2>1. CASE LookupOfficial(c) BY <2>1 DEF LookupOfficial
  <2>2. CASE RepairBinding(c) BY <2>2 DEF RepairBinding
  <2>3. CASE Takeover(c) BY <2>3 DEF Takeover
  <2>4. CASE AwaitRelease(c) BY <2>4 DEF AwaitRelease
  <2>5. CASE BindBody(c) BY <2>5 DEF BindBody
  <2>6. CASE Precheck(c) BY <2>6 DEF Precheck
  <2>7. CASE AcquireLease(c) BY <2>7 DEF AcquireLease
  <2>8. CASE CheckCurrent(c) BY <2>8 DEF CheckCurrent
  <2>9. CASE BumpGeneration(c) BY <2>9 DEF BumpGeneration
  <2>10. CASE AddClient(c) BY <2>10 DEF AddClient, Displaced
  <2>11. CASE FinishRegister(c) BY <2>11 DEF FinishRegister, RoutesAfter, OwnRoute
  <2>12. CASE RejectRelease(c) BY <2>12 DEF RejectRelease
  <2>13. CASE CallFails(c) BY <2>13, CallFailsEffect
  <2> QED BY <1>1, <2>1, <2>2, <2>3, <2>4, <2>5, <2>6, <2>7, <2>8, <2>9,
             <2>10, <2>11, <2>12, <2>13 DEF ServeWS, Proceeds
<1>2. ASSUME NEW c \in Conn,
             Dial(c) \/ PeerCloses(c) \/ Touch(c) \/ PumpExits(c)
               \/ RouteExpires(c) \/ Recycle(c)
      PROVE Rest
  <2>1. CASE Dial(c) BY <2>1 DEF Dial
  <2>2. CASE PeerCloses(c) BY <2>2 DEF PeerCloses
  <2>3. CASE Touch(c) BY <2>3 DEF Touch, RoutesAfter, OwnRoute
  <2>4. CASE PumpExits(c) BY <2>4 DEF PumpExits
  <2>5. CASE RouteExpires(c) BY <2>5 DEF RouteExpires
  <2>6. CASE Recycle(c) BY <2>6 DEF Recycle
  <2> QED BY <1>2, <2>1, <2>2, <2>3, <2>4, <2>5, <2>6
<1>3. ASSUME NEW c \in Conn, HubUnregisters(c) \/ DropClient(c) PROVE Rest
  <2>1. CASE HubUnregisters(c) BY <2>1 DEF HubUnregisters, RemoveClient
  <2>2. CASE DropClient(c) BY <2>2 DEF DropClient, RemoveClient
  <2> QED BY <1>3, <2>1, <2>2
<1>4. ASSUME NEW c \in Conn, ReleaseSession(c) PROVE Rest
  BY <1>4 DEF ReleaseSession, RoutesAfter
<1>5. CASE LeaseExpires BY <1>5 DEF LeaseExpires
<1>6. ASSUME NEW n \in Node, Crash(n) PROVE Rest
  BY <1>6 DEF Crash
<1>7. ASSUME NEW n \in Node, NEW b \in Body, TransferCheck(n, b) PROVE Rest
  BY <1>7 DEF TransferCheck
<1>8. CASE TransferCommit BY <1>8 DEF TransferCommit
<1>9. ASSUME NEW b \in {OfficialBody, NoBody}, SetOfficial(b) PROVE Rest
  BY <1>9 DEF SetOfficial
<1>10. CASE UNCHANGED vars BY <1>10 DEF vars
<1>11. ASSUME NEW c \in Conn, RenewalsFail(c) PROVE Rest
  BY <1>11 DEF RenewalsFail
<1> QED BY <1>1, <1>2, <1>3, <1>4, <1>5, <1>6, <1>7, <1>8, <1>9, <1>10, <1>11
    DEF Next, Orderly, ServeWS

\* The strengthened invariant holds in every reachable state.
THEOREM HubInvariant == Spec => []HubInv
<1> QED BY InitHubInv, NextHubInv, PTL DEF Spec

\* Every variable keeps its type.
THEOREM HubTypeCorrect == Spec => []TypeOK
<1>1. HubInv => TypeOK BY DEF HubInv
<1> QED BY <1>1, HubInvariant, PTL

\* However handshakes of one body interleave, a node registers at most one.
THEOREM HubOneClientPerBody == Spec => []OneClientPerBody
<1>1. HubInv => OneClientPerBody BY DEF HubInv
<1> QED BY <1>1, HubInvariant, PTL

\* A registered connection always has a goroutine left to unregister it.
THEOREM HubClientsAreServed == Spec => []ClientsAreServed
<1>1. HubInv => ClientsAreServed BY DEF HubInv
<1> QED BY <1>1, HubInvariant, PTL

\* A registered, running client is reachable from the other nodes.
THEOREM HubLiveClientIsRouted == Spec => []LiveClientIsRouted
<1>1. HubInv => LiveClientIsRouted BY DEF HubInv
<1> QED BY <1>1, HubInvariant, PTL

----------------------------------------------------------------------------
(* The Hub implements the exclusive lease.                                 *)

Over == {c \in Conn : ~HasSession(c)}

LeaseStutters == holder' = holder /\ Over' = Over

\* Initially nobody holds the lease and no session exists.
LEMMA LeaseInitRefined == Init => Lease!LeaseInit
  BY DEF Init, Lease!LeaseInit, HasSession

\* A handshake step takes the lease as the abstract lease allows, ends a
\* session, gives back a lease whose session is over, or does not touch it.
LEMMA HandshakeRefinesLease ==
  ASSUME HubInv, NEW c \in Conn, ServeWS(c)
  PROVE  Lease!LeaseNext \/ LeaseStutters
<1> USE DEF HubInv, TypeOK, ClientsAreServed, HasSession, Over, LeaseStutters,
            Goto, At, hubVars, dbVars
<1>1. CASE LookupOfficial(c) BY <1>1 DEF LookupOfficial
<1>2. CASE RepairBinding(c) BY <1>2 DEF RepairBinding
<1>3. CASE Takeover(c) BY <1>3 DEF Takeover
<1>4. CASE AwaitRelease(c) BY <1>4 DEF AwaitRelease
<1>5. CASE BindBody(c) BY <1>5 DEF BindBody
<1>6. CASE Precheck(c) BY <1>6 DEF Precheck
<1>7. CASE AcquireLease(c)
  <2>1. CASE holder' = holder /\ Over' = Over BY <2>1
  <2>2. CASE /\ holder' = c /\ ~Conflicts(c)
             /\ \/ pc' = [pc EXCEPT ![c] = "current"]
                \/ pc' = [pc EXCEPT ![c] = "gone"] /\ RedisMayFail(c)
    <3>1. holder # NoConn => Lease!MayDisplace(holder, c)
      BY <2>2 DEF Conflicts, Legacy, Lease!MayDisplace
    <3>2. \/ Over' = Over \ {c}
          \/ RedisMayFail(c) /\ Over' = Over
      <4>1. CASE pc' = [pc EXCEPT ![c] = "current"]
        <5>1. clients' = clients BY <1>7 DEF AcquireLease
        <5>2. \A d \in Conn : HasSession(d)' <=> HasSession(d) \/ d = c
          BY <4>1, <5>1
        <5> QED BY <5>2
      <4>2. CASE pc' = [pc EXCEPT ![c] = "gone"] /\ RedisMayFail(c)
        <5>1. clients' = clients BY <1>7 DEF AcquireLease
        <5>2. \A d \in Conn : HasSession(d)' <=> HasSession(d)
          BY <1>7, <4>2, <5>1 DEF AcquireLease
        <5> QED BY <4>2, <5>2
      <4> QED BY <2>2, <4>1, <4>2
    <3>3. Lease!Grant(c)
      BY <2>2, <3>1, <3>2 DEF Lease!Grant
    <3> QED BY <3>3 DEF Lease!LeaseNext
  <2> QED BY <1>7, <2>1, <2>2 DEF AcquireLease
<1>8. CASE CheckCurrent(c)
  <2>1. holder' = holder BY <1>8 DEF CheckCurrent
  <2>2. Over' = Over \/ Over' = Over \cup {c} BY <1>8 DEF CheckCurrent
  <2>3. ASSUME Over' = Over \cup {c} PROVE Lease!End({c})
    BY <2>1, <2>3 DEF Lease!End
  <2> QED BY <2>1, <2>2, <2>3 DEF Lease!LeaseNext
<1>9. CASE BumpGeneration(c) BY <1>9 DEF BumpGeneration
<1>10. CASE AddClient(c)
  <2>1. holder' = holder BY <1>10 DEF AddClient
  <2>2. Over' = Over \cup Displaced(c) BY <1>10 DEF AddClient, Displaced
  <2>3. Displaced(c) \in SUBSET Conn BY DEF Displaced
  <2>4. PICK S \in SUBSET Conn : Over' = Over \cup S BY <2>2, <2>3
  <2>5. Lease!End(S) BY <2>1, <2>4 DEF Lease!End
  <2> QED BY <2>5 DEF Lease!LeaseNext
<1>11. CASE FinishRegister(c) BY <1>11 DEF FinishRegister
<1>12. CASE RejectRelease(c)
  <2>1. Over' = Over /\ c \in Over BY <1>12 DEF RejectRelease
  <2>2. holder' = holder \/ (holder = c /\ holder' = NoConn)
    BY <1>12 DEF RejectRelease, LeaseReleases, LeaseAfterRelease
  <2>3. ASSUME holder = c, holder' = NoConn PROVE Lease!Release(c)
    BY <2>1, <2>3 DEF Lease!Release
  <2> QED BY <2>1, <2>2, <2>3 DEF Lease!LeaseNext
<1>13. CASE CallFails(c)
  <2>1. holder' = holder BY <1>13, CallFailsEffect
  <2>2. Over' = Over \/ Over' = Over \cup {c} BY <1>13, CallFailsEffect
  <2>3. ASSUME Over' = Over \cup {c} PROVE Lease!End({c})
    BY <2>1, <2>3 DEF Lease!End
  <2> QED BY <2>1, <2>2, <2>3 DEF Lease!LeaseNext
<1> QED BY <1>1, <1>2, <1>3, <1>4, <1>5, <1>6, <1>7, <1>8, <1>9, <1>10, <1>11,
           <1>12, <1>13 DEF ServeWS, Proceeds

\* Every step of the Hub is a step of the abstract lease or leaves it alone.
LEMMA StepRefinesLease ==
  ASSUME HubInv, [Next]_vars
  PROVE  Lease!LeaseNext \/ LeaseStutters
<1> USE DEF HubInv, TypeOK, ClientsAreServed, HasSession, Over, LeaseStutters,
            Goto, At, hubVars, dbVars
<1>1. ASSUME NEW c \in Conn, ServeWS(c) PROVE Lease!LeaseNext \/ LeaseStutters
  BY <1>1, HandshakeRefinesLease
<1>2. ASSUME NEW c \in Conn,
             Dial(c) \/ PeerCloses(c) \/ Touch(c) \/ PumpExits(c)
               \/ RouteExpires(c) \/ Recycle(c)
      PROVE LeaseStutters
  <2>1. CASE Dial(c) BY <2>1 DEF Dial
  <2>2. CASE PeerCloses(c) BY <2>2 DEF PeerCloses
  <2>3. CASE Touch(c) BY <2>3 DEF Touch, RoutesAfter, OwnRoute
  <2>4. CASE PumpExits(c) BY <2>4 DEF PumpExits
  <2>5. CASE RouteExpires(c) BY <2>5 DEF RouteExpires
  <2>6. CASE Recycle(c) BY <2>6 DEF Recycle
  <2> QED BY <1>2, <2>1, <2>2, <2>3, <2>4, <2>5, <2>6
<1>3. ASSUME NEW c \in Conn, HubUnregisters(c) \/ DropClient(c)
      PROVE Lease!LeaseNext \/ LeaseStutters
  <2>1. holder' = holder BY <1>3 DEF HubUnregisters, DropClient
  <2>2. Over' = Over \cup {c} \/ Over' = Over
    BY <1>3 DEF HubUnregisters, DropClient, RemoveClient
  <2>3. ASSUME Over' = Over \cup {c} PROVE Lease!End({c})
    BY <2>1, <2>3 DEF Lease!End
  <2> QED BY <2>1, <2>2, <2>3 DEF Lease!LeaseNext
<1>4. ASSUME NEW c \in Conn, ReleaseSession(c)
      PROVE Lease!LeaseNext \/ LeaseStutters
  <2>1. Over' = Over /\ c \in Over
    BY <1>4 DEF ReleaseSession, DepartedStayOut, Departed
  <2>2. holder' = holder \/ (holder = c /\ holder' = NoConn)
    BY <1>4 DEF ReleaseSession, LeaseReleases, LeaseAfterRelease
  <2>3. ASSUME holder = c, holder' = NoConn PROVE Lease!Release(c)
    BY <2>1, <2>3 DEF Lease!Release
  <2> QED BY <2>1, <2>2, <2>3 DEF Lease!LeaseNext
<1>5. CASE LeaseExpires
  <2>1. Over' = Over /\ holder \in Over BY <1>5 DEF LeaseExpires, Served, Handshake
  <2>2. Lease!Release(holder) BY <1>5, <2>1 DEF LeaseExpires, Lease!Release
  <2>3. holder \in Conn BY <1>5 DEF LeaseExpires
  <2> QED BY <2>2, <2>3 DEF Lease!LeaseNext
<1>6. ASSUME NEW n \in Node, Crash(n) PROVE Lease!LeaseNext \/ LeaseStutters
  <2> DEFINE lost == {c \in Conn : NodeOf[c] = n}
  <2>1. Over' = Over \cup lost BY <1>6 DEF Crash
  <2>2. holder' = holder \/ (holder' = NoConn /\ holder \in lost)
    BY <1>6 DEF Crash
  <2>3. Lease!End(lost) BY <2>1, <2>2 DEF Lease!End
  <2> QED BY <2>3 DEF Lease!LeaseNext
<1>7. ASSUME NEW n \in Node, NEW b \in Body, TransferCheck(n, b)
      PROVE LeaseStutters
  BY <1>7 DEF TransferCheck
<1>8. CASE TransferCommit BY <1>8 DEF TransferCommit
<1>9. ASSUME NEW b \in {OfficialBody, NoBody}, SetOfficial(b) PROVE LeaseStutters
  BY <1>9 DEF SetOfficial
<1>10. CASE UNCHANGED vars BY <1>10 DEF vars
<1>11. ASSUME NEW c \in Conn, RenewalsFail(c)
       PROVE Lease!LeaseNext \/ LeaseStutters
  <2>1. Over' = Over BY <1>11 DEF RenewalsFail
  <2>2. holder' = holder \/ (holder = c /\ holder' = NoConn)
    BY <1>11 DEF RenewalsFail
  <2>3. ASSUME holder = c, holder' = NoConn PROVE Lease!Expire
    BY <1>11, <2>1, <2>3 DEF Lease!Expire, RenewalsFail
  <2> QED BY <2>1, <2>2, <2>3 DEF Lease!LeaseNext
<1> QED BY <1>1, <1>2, <1>3, <1>4, <1>5, <1>6, <1>7, <1>8, <1>9, <1>10, <1>11
    DEF Next, Orderly, ServeWS

\* Whatever fails, crashes or races, the lease is displaced only by the same
\* body (or an explicit body displacing a legacy one), and given back only
\* after its holder's session is over, or while its node cannot renew it.
THEOREM HubImplementsExclusiveLease == Spec => ImplementsExclusiveLease
<1>1. Init => Lease!LeaseInit BY LeaseInitRefined
<1>2. HubInv /\ [Next]_vars => [Lease!LeaseNext]_(Lease!leaseVars)
  BY StepRefinesLease DEF Lease!leaseVars, LeaseStutters, Over
<1> QED BY <1>1, <1>2, HubInvariant, PTL
        DEF Spec, ImplementsExclusiveLease, Lease!LeaseSpec
=============================================================================
