-------------------------- MODULE ThinToolRpcProofs --------------------------
(***************************************************************************)
(* Machine-checked proofs about ThinToolRpc, for any number of requests,    *)
(* ids and connections, both deployments and all limits.                    *)
(***************************************************************************)
EXTENDS ThinToolRpc, TLAPS

USE ThinAssumption DEF Conn

\* A request in the table has not been answered and nobody has claimed it; one
\* that is not in the table yet has left no trace.
OpenEntries ==
  /\ \A r \in pending : /\ pc[r] \notin {"idle", "add"}
                        /\ answered[r] = 0
                        /\ \A m \in outbox : m.req # r
  /\ \A r \in Req : pc[r] \in {"idle", "add"} =>
       /\ answered[r] = 0
       /\ \A m \in outbox : m.req # r

\* A connection that has never been there has sent nothing.
NobodyAway == \A r \in Req : life[From[r]] = "off" => pc[r] = "idle"

\* Only the route of a shell request can lapse before its answer is due.
LapsedIsShell == \A m \in outbox : m.lapsed => m.req \in Shell

\* Nothing refers to a device connection that has never been there, and without
\* the shared runtime all of them are local and the route is a bound one.
TargetsKnown ==
  /\ route # NoConn => life[route] # "off"
  /\ \A c \in bound \cup touching \cup cancelling : life[c] # "off"
  /\ \A r \in Req : target[r] # NoConn => life[target[r]] # "off"
  /\ ~shared => /\ touching = {}
                /\ route \in bound \cup {NoConn}
                /\ \A c \in Device : life[c] # "off" => c \in Local

\* What a sweep or a cancellation puts in the outbox: for each entry one notice.
LEMMA NoticesAreNotices ==
  ASSUME NEW S, S \subseteq Req PROVE Notices(S) \subseteq Notice
<1> SUFFICES ASSUME NEW r \in S
             PROVE [req |-> r, of |-> NoReq,
                    lapsed |-> r \in Shell /\ age[r] # "fresh"] \in Notice
  BY Zenon DEF Notices
<1>1. (r \in Shell /\ age[r] # "fresh") \in BOOLEAN
  BY Zenon
<1> HIDE DEF Notices
<1> DEFINE b == r \in Shell /\ age[r] # "fresh"
<1>2. b \in BOOLEAN
  BY <1>1
<1> HIDE DEF b
<1>3. [req |-> r, of |-> NoReq, lapsed |-> b] \in Notice
  BY <1>2 DEF Notice
<1> QED BY <1>3 DEF b

LEMMA NoticesCover ==
  ASSUME NEW S, S \subseteq Req
  PROVE  /\ \A r \in S : \E m \in Notices(S) : m.req = r
         /\ \A m \in Notices(S) : m.lapsed => m.req \in Shell
<1>1. ASSUME NEW r \in S PROVE \E m \in Notices(S) : m.req = r
  <2> DEFINE m == [req |-> r, of |-> NoReq, lapsed |-> r \in Shell /\ age[r] # "fresh"]
  <2>1. m \in Notices(S) BY Zenon DEF Notices
  <2>2. m.req = r BY Zenon
  <2> QED BY <2>1, <2>2
<1>2. ASSUME NEW m \in Notices(S), m.lapsed PROVE m.req \in Shell
  <2>1. PICK r \in S : m = [req |-> r, of |-> NoReq,
                           lapsed |-> r \in Shell /\ age[r] # "fresh"]
    BY Zenon DEF Notices
  <2>2. m.req = r /\ m.lapsed = (r \in Shell /\ age[r] # "fresh")
    BY <2>1, Zenon
  <2> QED BY <1>2, <2>2
<1> QED BY <1>1, <1>2

\* Every step keeps the types.
LEMMA ThinNextTypeOK == TypeOK /\ [Next]_vars => TypeOK'
<1> SUFFICES ASSUME TypeOK, [Next]_vars PROVE TypeOK'
  OBVIOUS
<1> USE DEF TypeOK, PC, Notice, connVars, handlerVars, resultVars, answerVars, rpcVars,
            Goto, InHandler
<1>1. ASSUME NEW c \in Conn, Connect(c) PROVE TypeOK'
  BY <1>1 DEF Connect
<1>2. ASSUME NEW c \in Conn, Disconnect(c) PROVE TypeOK'
  BY <1>2 DEF Disconnect
<1>3. ASSUME NEW c \in Conn, CancelByRequester(c) PROVE TypeOK'
  BY <1>3 DEF CancelByRequester, Take
<1>4. ASSUME NEW c \in Conn, UnbindDevice(c) PROVE TypeOK'
  BY <1>4 DEF UnbindDevice
<1>5. ASSUME NEW c \in Device, Displace(c) PROVE TypeOK'
  BY <1>5 DEF Displace
<1>6. ASSUME NEW c \in Device, BindDevice(c) PROVE TypeOK'
  BY <1>6 DEF BindDevice, SameNode
<1>7. ASSUME NEW c \in Device, TouchReads(c) \/ TouchWrites(c) PROVE TypeOK'
  BY <1>7 DEF TouchReads, TouchWrites
<1>8. ASSUME NEW c \in Device, CancelByTarget(c) PROVE TypeOK'
  <2> DEFINE hit == {r \in pending : target[r] = c /\ c \in Local}
  <2>1. outbox' \subseteq Notice
    BY <1>8, NoticesAreNotices, hit \subseteq Req DEF CancelByTarget
  <2> QED BY <1>8, <2>1 DEF CancelByTarget, Take
<1>9. ASSUME NEW c \in Device, ResultGet(c) PROVE TypeOK'
  BY <1>9 DEF ResultGet, Unexpired
<1>10. ASSUME NEW c \in Device, ResultFinish(c) PROVE TypeOK'
  <2>1. claim[c] \in Req /\ resultOf[c] \in Req \cup {NoReq}
    BY <1>10 DEF ResultFinish
  <2>2. outbox' \subseteq Notice
    <3> DEFINE m == [req |-> claim[c], of |-> resultOf[c], lapsed |-> FALSE]
    <3>1. m \in Notice BY <2>1
    <3>2. outbox' \subseteq outbox \cup {m} BY <1>10 DEF ResultFinish
    <3> QED BY <3>1, <3>2
  <2>3. pending' \subseteq Req /\ age' \in [Req -> {"fresh", "late", "expired"}]
    BY <1>10 DEF ResultFinish, Take
  <2>4. claim' \in [Device -> Req \cup {NoReq}] /\ resultOf' \in [Device -> Req \cup {NoReq}]
    BY <1>10 DEF ResultFinish
  <2> QED BY <1>10, <2>2, <2>3, <2>4 DEF ResultFinish
<1>11. ASSUME NEW r \in Req, Receive(r) PROVE TypeOK'
  BY <1>11 DEF Receive, Reply
<1>12. ASSUME NEW r \in Req, Add(r) PROVE TypeOK'
  BY <1>12 DEF Add, Reply
<1>13. ASSUME NEW r \in Req, CheckRequester(r) PROVE TypeOK'
  BY <1>13 DEF CheckRequester, FinishMatching, Take
<1>14. ASSUME NEW r \in Req, CheckTarget(r) PROVE TypeOK'
  BY <1>14 DEF CheckTarget, GiveUp, FinishMatching, Take, Reply
<1>15. ASSUME NEW r \in Req, Forward(r) PROVE TypeOK'
  BY <1>15 DEF Forward, GiveUp, FinishMatching, Take, Reply
<1>16. ASSUME NEW r \in Req, TimePasses(r) PROVE TypeOK'
  BY <1>16 DEF TimePasses
<1>17. ASSUME NEW r \in Req, Recycle(r) PROVE TypeOK'
  BY <1>17 DEF Recycle
<1>18. CASE RouteExpires
  BY <1>18 DEF RouteExpires
<1>19. CASE Expire
  <2>1. outbox' \subseteq Notice
    BY <1>19, NoticesAreNotices, pending \ Unexpired \subseteq Req DEF Expire
  <2> QED BY <1>19, <2>1 DEF Expire, Take
<1>20. ASSUME NEW m \in outbox, Deliver(m) PROVE TypeOK'
  BY <1>20 DEF Deliver
<1>21. CASE UNCHANGED vars
  BY <1>21 DEF vars
<1> QED
  BY <1>1, <1>2, <1>3, <1>4, <1>5, <1>6, <1>7, <1>8, <1>9, 
     <1>10, <1>11, <1>12, <1>13, <1>14, <1>15, <1>16, <1>17, <1>18, 
     <1>19, <1>20, <1>21
     DEF Next, Handle

\* Whoever takes an entry is the only one to answer it.
LEMMA NextOnce == TypeOK /\ OpenEntries /\ AtMostOneAnswer /\ [Next]_vars
        => (OpenEntries /\ AtMostOneAnswer)'
<1> SUFFICES ASSUME TypeOK /\ OpenEntries
        /\ AtMostOneAnswer, [Next]_vars PROVE (OpenEntries /\ AtMostOneAnswer)'
  OBVIOUS
<1>t. TypeOK /\ TypeOK'
  BY ThinNextTypeOK
<1> USE <1>t
<1> USE DEF TypeOK, PC, Notice, connVars, handlerVars, resultVars, answerVars, rpcVars,
            Goto, InHandler, OpenEntries, AtMostOneAnswer
<1> DEFINE Goal == (OpenEntries /\ AtMostOneAnswer)'
<1> SUFFICES Goal
  OBVIOUS
<1>1. ASSUME NEW c \in Conn, Connect(c) PROVE Goal
  BY <1>1 DEF Connect
<1>2. ASSUME NEW c \in Conn, Disconnect(c) PROVE Goal
  BY <1>2 DEF Disconnect
<1>3. ASSUME NEW c \in Conn, CancelByRequester(c) PROVE Goal
  BY <1>3 DEF CancelByRequester, Take
<1>4. ASSUME NEW c \in Conn, UnbindDevice(c) PROVE Goal
  BY <1>4 DEF UnbindDevice
<1>5. ASSUME NEW c \in Device, Displace(c) PROVE Goal
  BY <1>5 DEF Displace
<1>6. ASSUME NEW c \in Device, BindDevice(c) PROVE Goal
  BY <1>6 DEF BindDevice, SameNode
<1>7. ASSUME NEW c \in Device, TouchReads(c) \/ TouchWrites(c) PROVE Goal
  BY <1>7 DEF TouchReads, TouchWrites
<1>8. ASSUME NEW c \in Device, CancelByTarget(c) PROVE Goal
  BY <1>8 DEF CancelByTarget, Take, Notices
<1>9. ASSUME NEW c \in Device, ResultGet(c) PROVE Goal
  BY <1>9 DEF ResultGet, Unexpired
<1>10. ASSUME NEW c \in Device, ResultFinish(c) PROVE Goal
  BY <1>10 DEF ResultFinish, FinishMatching, Take
<1>11. ASSUME NEW r \in Req, Receive(r) PROVE Goal
  BY <1>11 DEF Receive, Reply
<1>12. ASSUME NEW r \in Req, Add(r) PROVE Goal
  BY <1>12 DEF Add, Reply
<1>13. ASSUME NEW r \in Req, CheckRequester(r) PROVE Goal
  BY <1>13 DEF CheckRequester, FinishMatching, Take
<1>14. ASSUME NEW r \in Req, CheckTarget(r) PROVE Goal
  BY <1>14 DEF CheckTarget, GiveUp, FinishMatching, Take, Reply
<1>15. ASSUME NEW r \in Req, Forward(r) PROVE Goal
  BY <1>15 DEF Forward, GiveUp, FinishMatching, Take, Reply
<1>16. ASSUME NEW r \in Req, TimePasses(r) PROVE Goal
  BY <1>16 DEF TimePasses
<1>17. ASSUME NEW r \in Req, Recycle(r) PROVE Goal
  BY <1>17 DEF Recycle
<1>18. CASE RouteExpires
  BY <1>18 DEF RouteExpires
<1>19. CASE Expire
  BY <1>19 DEF Expire, Take, Notices, Unexpired
<1>20. ASSUME NEW m \in outbox, Deliver(m) PROVE Goal
  BY <1>20 DEF Deliver
<1>21. CASE UNCHANGED vars
  BY <1>21 DEF vars
<1> QED
  BY <1>1, <1>2, <1>3, <1>4, <1>5, <1>6, <1>7, <1>8, <1>9, 
     <1>10, <1>11, <1>12, <1>13, <1>14, <1>15, <1>16, <1>17, <1>18, 
     <1>19, <1>20, <1>21
     DEF Next, Handle

\* A requester's teardown and its own request handler meet in the table.
LEMMA NextOrphan == TypeOK /\ OpenEntries /\ NoOrphanPending /\ [Next]_vars
        => (NoOrphanPending)'
<1> SUFFICES ASSUME TypeOK /\ OpenEntries
        /\ NoOrphanPending, [Next]_vars PROVE (NoOrphanPending)'
  OBVIOUS
<1>t. TypeOK /\ TypeOK'
  BY ThinNextTypeOK
<1> USE <1>t
<1> USE DEF TypeOK, PC, Notice, connVars, handlerVars, resultVars, answerVars, rpcVars,
            Goto, InHandler, OpenEntries, NoOrphanPending
<1> DEFINE Goal == (NoOrphanPending)'
<1> SUFFICES Goal
  OBVIOUS
<1>1. ASSUME NEW c \in Conn, Connect(c) PROVE Goal
  BY <1>1 DEF Connect
<1>2. ASSUME NEW c \in Conn, Disconnect(c) PROVE Goal
  BY <1>2 DEF Disconnect
<1>3. ASSUME NEW c \in Conn, CancelByRequester(c) PROVE Goal
  BY <1>3 DEF CancelByRequester, Take
<1>4. ASSUME NEW c \in Conn, UnbindDevice(c) PROVE Goal
  BY <1>4 DEF UnbindDevice
<1>5. ASSUME NEW c \in Device, Displace(c) PROVE Goal
  BY <1>5 DEF Displace
<1>6. ASSUME NEW c \in Device, BindDevice(c) PROVE Goal
  BY <1>6 DEF BindDevice, SameNode
<1>7. ASSUME NEW c \in Device, TouchReads(c) \/ TouchWrites(c) PROVE Goal
  BY <1>7 DEF TouchReads, TouchWrites
<1>8. ASSUME NEW c \in Device, CancelByTarget(c) PROVE Goal
  BY <1>8 DEF CancelByTarget, Take, Notices
<1>9. ASSUME NEW c \in Device, ResultGet(c) PROVE Goal
  BY <1>9 DEF ResultGet, Unexpired
<1>10. ASSUME NEW c \in Device, ResultFinish(c) PROVE Goal
  BY <1>10 DEF ResultFinish, FinishMatching, Take
<1>11. ASSUME NEW r \in Req, Receive(r) PROVE Goal
  BY <1>11 DEF Receive, Reply
<1>12. ASSUME NEW r \in Req, Add(r) PROVE Goal
  BY <1>12 DEF Add, Reply
<1>13. ASSUME NEW r \in Req, CheckRequester(r) PROVE Goal
  BY <1>13 DEF CheckRequester, FinishMatching, Take
<1>14. ASSUME NEW r \in Req, CheckTarget(r) PROVE Goal
  BY <1>14 DEF CheckTarget, GiveUp, FinishMatching, Take, Reply
<1>15. ASSUME NEW r \in Req, Forward(r) PROVE Goal
  BY <1>15 DEF Forward, GiveUp, FinishMatching, Take, Reply
<1>16. ASSUME NEW r \in Req, TimePasses(r) PROVE Goal
  BY <1>16 DEF TimePasses
<1>17. ASSUME NEW r \in Req, Recycle(r) PROVE Goal
  BY <1>17 DEF Recycle
<1>18. CASE RouteExpires
  BY <1>18 DEF RouteExpires
<1>19. CASE Expire
  BY <1>19 DEF Expire, Take, Notices, Unexpired
<1>20. ASSUME NEW m \in outbox, Deliver(m) PROVE Goal
  BY <1>20 DEF Deliver
<1>21. CASE UNCHANGED vars
  BY <1>21 DEF vars
<1> QED
  BY <1>1, <1>2, <1>3, <1>4, <1>5, <1>6, <1>7, <1>8, <1>9, 
     <1>10, <1>11, <1>12, <1>13, <1>14, <1>15, <1>16, <1>17, <1>18, 
     <1>19, <1>20, <1>21
     DEF Next, Handle

\* An ordinary entry is only taken by somebody who answers it.
LEMMA NextAccounted == TypeOK /\ OpenEntries /\ NobodyAway /\ LapsedIsShell
        /\ OrdinaryRequestsAccounted /\ [Next]_vars => (NobodyAway /\ LapsedIsShell
        /\ OrdinaryRequestsAccounted)'
<1> SUFFICES ASSUME TypeOK /\ OpenEntries /\ NobodyAway /\ LapsedIsShell
        /\ OrdinaryRequestsAccounted, [Next]_vars PROVE (NobodyAway /\ LapsedIsShell
        /\ OrdinaryRequestsAccounted)'
  OBVIOUS
<1>t. TypeOK /\ TypeOK'
  BY ThinNextTypeOK
<1> USE <1>t
<1> USE DEF TypeOK, PC, Notice, connVars, handlerVars, resultVars, answerVars, rpcVars,
            Goto, InHandler, OpenEntries, NobodyAway, LapsedIsShell,
            OrdinaryRequestsAccounted, Accounted, Unreferenced
<1> DEFINE Goal == (NobodyAway /\ LapsedIsShell /\ OrdinaryRequestsAccounted)'
<1> SUFFICES Goal
  OBVIOUS
<1>1. ASSUME NEW c \in Conn, Connect(c) PROVE Goal
  BY <1>1 DEF Connect
<1>2. ASSUME NEW c \in Conn, Disconnect(c) PROVE Goal
  BY <1>2 DEF Disconnect
<1>3. ASSUME NEW c \in Conn, CancelByRequester(c) PROVE Goal
  BY <1>3 DEF CancelByRequester, Take
<1>4. ASSUME NEW c \in Conn, UnbindDevice(c) PROVE Goal
  BY <1>4 DEF UnbindDevice
<1>5. ASSUME NEW c \in Device, Displace(c) PROVE Goal
  BY <1>5 DEF Displace
<1>6. ASSUME NEW c \in Device, BindDevice(c) PROVE Goal
  BY <1>6 DEF BindDevice, SameNode
<1>7. ASSUME NEW c \in Device, TouchReads(c) \/ TouchWrites(c) PROVE Goal
  BY <1>7 DEF TouchReads, TouchWrites
<1>8. ASSUME NEW c \in Device, CancelByTarget(c) PROVE Goal
  <2> DEFINE hit == {r \in pending : target[r] = c /\ c \in Local}
  <2>0. hit \subseteq Req
    OBVIOUS
  <2>1. /\ outbox' = outbox \cup Notices(hit)
        /\ pending' = pending \ hit
        /\ UNCHANGED <<life, pc, answered>>
    BY <1>8 DEF CancelByTarget, Take
  <2>2. LapsedIsShell'
    BY <2>0, <2>1, NoticesCover
  <2>3. ASSUME NEW q \in Req, Accounted(q) PROVE Accounted(q)'
    <3>1. CASE q \in hit
      <4>1. PICK m \in Notices(hit) : m.req = q
        BY <3>1, <2>0, NoticesCover
      <4> QED BY <4>1, <2>1
    <3>2. CASE q \notin hit
      BY <2>1, <2>3, <3>2
    <3> QED BY <3>1, <3>2
  <2> QED BY <2>1, <2>2, <2>3
<1>9. ASSUME NEW c \in Device, ResultGet(c) PROVE Goal
  BY <1>9 DEF ResultGet, Unexpired
<1>10. ASSUME NEW c \in Device, ResultFinish(c) PROVE Goal
  <2> DEFINE p == claim[c]
  <2> DEFINE n == [req |-> p, of |-> resultOf[c], lapsed |-> FALSE]
  <2>1. /\ pending' = pending \ {p}
        /\ outbox' = IF p \in pending THEN outbox \cup {n} ELSE outbox
        /\ UNCHANGED <<life, pc, answered>>
    BY <1>10 DEF ResultFinish, Take, FinishMatching
  <2>2. n.req = p /\ n.lapsed = FALSE
    OBVIOUS
  <2>3. LapsedIsShell'
    BY <2>1, <2>2
  <2>4. ASSUME NEW q \in Req, Accounted(q) PROVE Accounted(q)'
    <3>1. CASE q = p /\ p \in pending
      <4>1. n \in outbox' BY <3>1, <2>1
      <4>2. n.req = q BY <3>1, <2>2
      <4> HIDE DEF n
      <4> QED BY <4>1, <4>2
    <3>2. CASE ~(q = p /\ p \in pending)
      BY <2>1, <2>4, <3>2
    <3> QED BY <3>1, <3>2
  <2> QED BY <2>1, <2>3, <2>4
<1>11. ASSUME NEW r \in Req, Receive(r) PROVE Goal
  BY <1>11 DEF Receive, Reply
<1>12. ASSUME NEW r \in Req, Add(r) PROVE Goal
  BY <1>12 DEF Add, Reply
<1>13. ASSUME NEW r \in Req, CheckRequester(r) PROVE Goal
  BY <1>13 DEF CheckRequester, FinishMatching, Take
<1>14. ASSUME NEW r \in Req, CheckTarget(r) PROVE Goal
  BY <1>14 DEF CheckTarget, GiveUp, FinishMatching, Take, Reply
<1>15. ASSUME NEW r \in Req, Forward(r) PROVE Goal
  BY <1>15 DEF Forward, GiveUp, FinishMatching, Take, Reply
<1>16. ASSUME NEW r \in Req, TimePasses(r) PROVE Goal
  BY <1>16 DEF TimePasses
<1>17. ASSUME NEW r \in Req, Recycle(r) PROVE Goal
  BY <1>17 DEF Recycle
<1>18. CASE RouteExpires
  BY <1>18 DEF RouteExpires
<1>19. CASE Expire
  <2> DEFINE hit == pending \ Unexpired
  <2>0. hit \subseteq Req
    OBVIOUS
  <2>1. /\ outbox' = outbox \cup Notices(hit)
        /\ pending' = pending \ hit
        /\ UNCHANGED <<life, pc, answered>>
    BY <1>19 DEF Expire, Take
  <2>2. LapsedIsShell'
    BY <2>0, <2>1, NoticesCover
  <2>3. ASSUME NEW q \in Req, Accounted(q) PROVE Accounted(q)'
    <3>1. CASE q \in hit
      <4>1. PICK m \in Notices(hit) : m.req = q
        BY <3>1, <2>0, NoticesCover
      <4> QED BY <4>1, <2>1
    <3>2. CASE q \notin hit
      BY <2>1, <2>3, <3>2
    <3> QED BY <3>1, <3>2
  <2> QED BY <2>1, <2>2, <2>3
<1>20. ASSUME NEW m \in outbox, Deliver(m) PROVE Goal
  BY <1>20 DEF Deliver
<1>21. CASE UNCHANGED vars
  BY <1>21 DEF vars
<1> QED
  BY <1>1, <1>2, <1>3, <1>4, <1>5, <1>6, <1>7, <1>8, <1>9, 
     <1>10, <1>11, <1>12, <1>13, <1>14, <1>15, <1>16, <1>17, <1>18, 
     <1>19, <1>20, <1>21
     DEF Next, Handle

\* A replaced connection is drained.
LEMMA NextDrained == TypeOK /\ OpenEntries /\ TargetsKnown /\ ReplacedTargetDrained
        /\ [Next]_vars => (TargetsKnown /\ ReplacedTargetDrained)'
<1> SUFFICES ASSUME TypeOK /\ OpenEntries /\ TargetsKnown
        /\ ReplacedTargetDrained, [Next]_vars PROVE (TargetsKnown
        /\ ReplacedTargetDrained)'
  OBVIOUS
<1>t. TypeOK /\ TypeOK'
  BY ThinNextTypeOK
<1> USE <1>t
<1> USE DEF TypeOK, PC, Notice, connVars, handlerVars, resultVars, answerVars, rpcVars,
            Goto, InHandler, OpenEntries, TargetsKnown, ReplacedTargetDrained,
            Unreferenced, SameNode
<1> DEFINE Goal == (TargetsKnown /\ ReplacedTargetDrained)'
<1> SUFFICES Goal
  OBVIOUS
<1>1. ASSUME NEW c \in Conn, Connect(c) PROVE Goal
  BY <1>1 DEF Connect
<1>2. ASSUME NEW c \in Conn, Disconnect(c) PROVE Goal
  BY <1>2 DEF Disconnect
<1>3. ASSUME NEW c \in Conn, CancelByRequester(c) PROVE Goal
  BY <1>3 DEF CancelByRequester, Take
<1>4. ASSUME NEW c \in Conn, UnbindDevice(c) PROVE Goal
  BY <1>4 DEF UnbindDevice
<1>5. ASSUME NEW c \in Device, Displace(c) PROVE Goal
  BY <1>5 DEF Displace
<1>6. ASSUME NEW c \in Device, BindDevice(c) PROVE Goal
  BY <1>6 DEF BindDevice, SameNode
<1>7. ASSUME NEW c \in Device, TouchReads(c) \/ TouchWrites(c) PROVE Goal
  BY <1>7 DEF TouchReads, TouchWrites
<1>8. ASSUME NEW c \in Device, CancelByTarget(c) PROVE Goal
  BY <1>8 DEF CancelByTarget, Take, Notices
<1>9. ASSUME NEW c \in Device, ResultGet(c) PROVE Goal
  BY <1>9 DEF ResultGet, Unexpired
<1>10. ASSUME NEW c \in Device, ResultFinish(c) PROVE Goal
  BY <1>10 DEF ResultFinish, FinishMatching, Take
<1>11. ASSUME NEW r \in Req, Receive(r) PROVE Goal
  <2>1. /\ pending' = pending /\ UNCHANGED <<connVars>>
        /\ pc' = [pc EXCEPT ![r] = pc'[r]] /\ pc'[r] # "idle"
        /\ target' \in {target, [target EXCEPT ![r] = route]}
        /\ r \notin pending
    BY <1>11 DEF Receive
  <2>2. /\ route # NoConn => life[route] # "off"
        /\ \A q \in Req : target'[q] # NoConn => life[target'[q]] # "off"
    <3>1. CASE target' = target
      BY <2>1, <3>1, <1>11 DEF Receive
    <3>2. CASE target' = [target EXCEPT ![r] = route]
      BY <2>1, <3>2
    <3> QED BY <2>1, <3>1, <3>2
  <2>t. TargetsKnown'
    BY <2>1, <2>2
  <2>3. ReplacedTargetDrained'
    BY <2>1
  <2> QED BY <2>t, <2>3
<1>12. ASSUME NEW r \in Req, Add(r) PROVE Goal
  BY <1>12 DEF Add, Reply
<1>13. ASSUME NEW r \in Req, CheckRequester(r) PROVE Goal
  BY <1>13 DEF CheckRequester, FinishMatching, Take
<1>14. ASSUME NEW r \in Req, CheckTarget(r) PROVE Goal
  BY <1>14 DEF CheckTarget, GiveUp, FinishMatching, Take, Reply
<1>15. ASSUME NEW r \in Req, Forward(r) PROVE Goal
  BY <1>15 DEF Forward, GiveUp, FinishMatching, Take, Reply
<1>16. ASSUME NEW r \in Req, TimePasses(r) PROVE Goal
  BY <1>16 DEF TimePasses
<1>17. ASSUME NEW r \in Req, Recycle(r) PROVE Goal
  BY <1>17 DEF Recycle
<1>18. CASE RouteExpires
  BY <1>18 DEF RouteExpires
<1>19. CASE Expire
  BY <1>19 DEF Expire, Take, Notices, Unexpired
<1>20. ASSUME NEW m \in outbox, Deliver(m) PROVE Goal
  BY <1>20 DEF Deliver
<1>21. CASE UNCHANGED vars
  BY <1>21 DEF vars
<1> QED
  BY <1>1, <1>2, <1>3, <1>4, <1>5, <1>6, <1>7, <1>8, <1>9, 
     <1>10, <1>11, <1>12, <1>13, <1>14, <1>15, <1>16, <1>17, <1>18, 
     <1>19, <1>20, <1>21
     DEF Next, Handle

\* The inductive invariant.
ThinInv ==
  /\ TypeOK
  /\ OpenEntries /\ AtMostOneAnswer
  /\ NoOrphanPending
  /\ NobodyAway /\ LapsedIsShell /\ OrdinaryRequestsAccounted
  /\ TargetsKnown /\ ReplacedTargetDrained

\* Initially nothing is asked, bound or answered.
LEMMA InitThinInv == Init => ThinInv
  BY DEF Init, ThinInv, TypeOK, PC, InHandler, OpenEntries, AtMostOneAnswer,
         NoOrphanPending, NobodyAway, LapsedIsShell, OrdinaryRequestsAccounted,
         Accounted, TargetsKnown, ReplacedTargetDrained

LEMMA NextThinInv == ThinInv /\ [Next]_vars => ThinInv'
  BY ThinNextTypeOK, NextOnce, NextOrphan, NextAccounted, NextDrained DEF ThinInv

\* Every reachable state satisfies the inductive invariant.
THEOREM ThinInvariant == Spec => []ThinInv
  BY InitThinInv, NextThinInv, PTL DEF Spec

\* Type correctness.
THEOREM ThinTypeCorrect == Spec => []TypeOK
<1>1. ThinInv => TypeOK BY DEF ThinInv
<1> QED BY <1>1, ThinInvariant, PTL

\* Result, timeout, cancellation and failure paths answer a request only once.
THEOREM ThinAtMostOneAnswer == Spec => []AtMostOneAnswer
<1>1. ThinInv => AtMostOneAnswer BY DEF ThinInv
<1> QED BY <1>1, ThinInvariant, PTL

\* No ordinary request of a connected requester leaves the table unanswered.
THEOREM ThinOrdinaryAccounted == Spec => []OrdinaryRequestsAccounted
<1>1. ThinInv => OrdinaryRequestsAccounted BY DEF ThinInv
<1> QED BY <1>1, ThinInvariant, PTL

\* A requester's teardown leaves nothing of it in the table.
THEOREM ThinNoOrphanPending == Spec => []NoOrphanPending
<1>1. ThinInv => NoOrphanPending BY DEF ThinInv
<1> QED BY <1>1, ThinInvariant, PTL

\* Nothing keeps waiting for a replaced connection.
THEOREM ThinReplacedTargetDrained == Spec => []ReplacedTargetDrained
<1>1. ThinInv => ReplacedTargetDrained BY DEF ThinInv
<1> QED BY <1>1, ThinInvariant, PTL

----------------------------------------------------------------------------
(* What the requester sees.                                                *)

\* Nothing the requester could notice.
LEMMA CallStutters ==
  ASSUME \A r \in Req : Phase(r)' = Phase(r), answered' = answered,
         \A c \in Requester : life'[c] = "on" <=> life[c] = "on"
  PROVE  UNCHANGED Calls!callVars
BY DEF Calls!callVars

\* A request that is open ends: with an answer, or because its requester is gone,
\* or because it is a shell request whose way back has lapsed.
LEMMA CallEnds ==
  ASSUME TypeOK, NEW r \in Req, Phase(r) = "open", Phase(r)' = "over", answered[r] = 0,
         \A q \in Req \ {r} : Phase(q)' = Phase(q), life' = life,
         \/ life[From[r]] = "on" /\ answered' = [answered EXCEPT ![r] = @ + 1]
         \/ (life[From[r]] # "on" \/ r \in Shell) /\ answered' = answered
  PROVE  Calls!CallNext
<1> DEFINE phase == [q \in Req |-> Phase(q)]
<1>1. phase' = [phase EXCEPT ![r] = "over"] /\ phase[r] = "open"
  OBVIOUS
<1>2. phase' = [q \in Req |-> IF q \in {r} THEN "over" ELSE phase[q]]
  OBVIOUS
<1>3. From[r] \in Requester
  OBVIOUS
<1> HIDE DEF phase
<1>4. CASE life[From[r]] = "on" /\ answered' = [answered EXCEPT ![r] = @ + 1]
  <2>1. answered' = [answered EXCEPT ![r] = 1]
    BY <1>4 DEF TypeOK
  <2>2. Calls!Answer(r)
    BY <1>1, <1>3, <1>4, <2>1 DEF Calls!Answer, phase
  <2> QED
    BY <2>2 DEF Calls!CallNext
<1>5. CASE (life[From[r]] # "on" \/ r \in Shell) /\ answered' = answered
  <2>1. Calls!Drop({r})
    BY <1>1, <1>2, <1>5 DEF Calls!Drop, phase
  <2> QED
    BY <2>1 DEF Calls!CallNext
<1> QED
  BY <1>4, <1>5

\* Whoever takes the entry of a request leaves the others' alone.
LEMMA GiveUpEndsCall ==
  ASSUME ThinInv, NEW r \in Req, pc[r] \in {"checkTarget", "forward"}, GiveUp(r),
         UNCHANGED <<life, outbox>>
  PROVE  [Calls!CallNext]_(Calls!callVars)
<1> USE DEF ThinInv, TypeOK, OpenEntries, GiveUp, Goto, FinishMatching, Take
<1>1. \A q \in Req \ {r} : Phase(q)' = Phase(q)
  BY DEF Phase, Open
<1>2. CASE r \in pending
  <2>1. Phase(r) = "open" /\ Phase(r)' = "over" /\ answered[r] = 0
    BY <1>2 DEF Phase, Open
  <2>2. \/ life[From[r]] = "on" /\ answered' = [answered EXCEPT ![r] = @ + 1]
        \/ life[From[r]] # "on" /\ answered' = answered
    BY <1>2 DEF Reply
  <2> QED
    BY <1>1, <2>1, <2>2, CallEnds
<1>3. CASE r \notin pending
  <2>1. Phase(r)' = Phase(r) /\ answered' = answered
    BY <1>3 DEF Phase, Open
  <2> QED
    BY <1>1, <2>1, CallStutters
<1> QED
  BY <1>2, <1>3

\* The steps of the request's handler.
LEMMA HandlerStepsCalls ==
  ASSUME ThinInv, NEW r \in Req, Receive(r) \/ Handle(r)
  PROVE  [Calls!CallNext]_(Calls!callVars)
<1> USE DEF ThinInv, TypeOK, OpenEntries, connVars, resultVars, answerVars, Goto
<1> DEFINE phase == [q \in Req |-> Phase(q)]
<1>1. CASE Receive(r)
  <2>1. \A q \in Req \ {r} : Phase(q)' = Phase(q)
    BY <1>1 DEF Receive, Phase, Open
  <2>2. Phase(r) = "idle" /\ answered[r] = 0 /\ life' = life /\ life[From[r]] = "on"
        /\ From[r] \in Requester
    BY <1>1 DEF Receive, Phase
  <2>3. \/ Phase(r)' = "open" /\ answered' = answered
        \/ Phase(r)' = "over" /\ answered' = [answered EXCEPT ![r] = 1]
    BY <1>1 DEF Receive, Reply, Phase, Open
  <2>4. phase[r] = "idle" /\ phase' = [phase EXCEPT ![r] = Phase(r)']
    BY <2>1, <2>2
  <2> HIDE DEF phase
  <2>5. Calls!Ask(r) \/ Calls!Answer(r)
    BY <2>2, <2>3, <2>4 DEF Calls!Ask, Calls!Answer, phase
  <2> QED
    BY <2>5 DEF Calls!CallNext
<1>2. CASE Add(r)
  <2>1. \A q \in Req \ {r} : Phase(q)' = Phase(q)
    BY <1>2 DEF Add, Phase, Open
  <2>2. Phase(r) = "open" /\ answered[r] = 0 /\ life' = life
    BY <1>2 DEF Add, Phase, Open
  <2>3. CASE Phase(r)' = "open" /\ answered' = answered
    BY <2>1, <2>2, <2>3, CallStutters
  <2>4. CASE Phase(r)' = "over" /\ Reply(r)
    <3>1. \/ life[From[r]] = "on" /\ answered' = [answered EXCEPT ![r] = @ + 1]
          \/ life[From[r]] # "on" /\ answered' = answered
      BY <2>4 DEF Reply
    <3> QED
      BY <2>1, <2>2, <2>4, <3>1, CallEnds
  <2>5. (Phase(r)' = "open" /\ answered' = answered) \/ (Phase(r)' = "over" /\ Reply(r))
    BY <1>2 DEF Add, Phase, Open
  <2> QED
    BY <2>3, <2>4, <2>5
<1>3. CASE CheckRequester(r)
  <2>1. \A q \in Req \ {r} : Phase(q)' = Phase(q)
    BY <1>3 DEF CheckRequester, FinishMatching, Take, Phase, Open
  <2>2. life' = life /\ answered' = answered
    BY <1>3 DEF CheckRequester
  <2>3. CASE r \in pending /\ life[From[r]] # "on"
    <3>1. Phase(r) = "open" /\ Phase(r)' = "over" /\ answered[r] = 0
      BY <1>3, <2>3 DEF CheckRequester, FinishMatching, Take, Phase, Open
    <3> QED
      BY <2>1, <2>2, <2>3, <3>1, CallEnds
  <2>4. CASE ~(r \in pending /\ life[From[r]] # "on")
    <3>1. Phase(r)' = Phase(r)
      BY <1>3, <2>4 DEF CheckRequester, FinishMatching, Take, Phase, Open
    <3> QED
      BY <2>1, <2>2, <3>1, CallStutters
  <2> QED
    BY <2>3, <2>4
<1>4. CASE CheckTarget(r)
  <2>1. CASE Goto(r, "forward") /\ UNCHANGED <<pending, age, answered>>
    <3>1. \A q \in Req : Phase(q)' = Phase(q)
      BY <1>4, <2>1 DEF CheckTarget, Phase, Open
    <3> QED
      BY <1>4, <2>1, <3>1, CallStutters DEF CheckTarget
  <2>2. CASE GiveUp(r)
    BY <1>4, <2>2, GiveUpEndsCall DEF CheckTarget
  <2> QED
    BY <1>4, <2>1, <2>2 DEF CheckTarget
<1>5. CASE Forward(r)
  <2>1. CASE Goto(r, "done") /\ UNCHANGED <<pending, age, answered>>
    <3>1. \A q \in Req : Phase(q)' = Phase(q)
      BY <1>5, <2>1 DEF Forward, Phase, Open
    <3> QED
      BY <1>5, <2>1, <3>1, CallStutters DEF Forward
  <2>2. CASE GiveUp(r)
    BY <1>5, <2>2, GiveUpEndsCall DEF Forward
  <2> QED
    BY <1>5, <2>1, <2>2 DEF Forward
<1> QED
  BY <1>1, <1>2, <1>3, <1>4, <1>5 DEF Handle

\* Whoever takes entries from the table to answer them later keeps them open.
LEMMA TakersKeepOpen ==
  ASSUME ThinInv, NEW S \in SUBSET pending,
         Take(S), UNCHANGED <<life, pc, answered>>, outbox \subseteq outbox',
         \A m \in outbox' \ outbox : m.req \in S,
         \A r \in S : \E m \in outbox' : m.req = r
  PROVE  UNCHANGED Calls!callVars
<1>1. ASSUME NEW r \in Req PROVE Open(r)' <=> Open(r)
  BY DEF Open, Take
<1>2. \A r \in Req : Phase(r)' = Phase(r)
  BY <1>1 DEF Phase
<1> QED
  BY <1>2, CallStutters

LEMMA AnswererStepsCalls ==
  ASSUME ThinInv,
         \/ \E c \in Device : CancelByTarget(c) \/ ResultFinish(c)
         \/ Expire
  PROVE  UNCHANGED Calls!callVars
<1> USE DEF ThinInv, TypeOK
<1>1. ASSUME NEW S \in SUBSET pending, Take(S), outbox' = outbox \cup Notices(S),
             UNCHANGED <<life, pc, answered>>
      PROVE  UNCHANGED Calls!callVars
  <2>1. S \subseteq Req
    OBVIOUS
  <2>2. \A r \in S : \E m \in Notices(S) : m.req = r
    BY <2>1, NoticesCover
  <2>3. ASSUME NEW m \in Notices(S) PROVE m.req \in S
    <3>1. PICK r \in S : m = [req |-> r, of |-> NoReq,
                             lapsed |-> r \in Shell /\ age[r] # "fresh"]
      BY Zenon DEF Notices
    <3> QED
      BY <3>1
  <2> QED
    BY <1>1, <2>2, <2>3, TakersKeepOpen
<1>2. ASSUME NEW c \in Device, CancelByTarget(c) PROVE UNCHANGED Calls!callVars
  <2> DEFINE hit == {r \in pending : target[r] = c /\ c \in Local}
  <2>1. Take(hit) /\ outbox' = outbox \cup Notices(hit) /\ UNCHANGED <<life, pc, answered>>
    BY <1>2 DEF CancelByTarget, handlerVars
  <2>2. hit \in SUBSET pending
    OBVIOUS
  <2> HIDE DEF hit
  <2> QED
    BY <1>1, <2>1, <2>2
<1>3. CASE Expire
  <2> DEFINE hit == pending \ Unexpired
  <2>1. Take(hit) /\ outbox' = outbox \cup Notices(hit) /\ UNCHANGED <<life, pc, answered>>
    BY <1>3 DEF Expire, connVars, handlerVars
  <2>2. hit \in SUBSET pending
    OBVIOUS
  <2> HIDE DEF hit
  <2> QED
    BY <1>1, <2>1, <2>2
<1>4. ASSUME NEW c \in Device, ResultFinish(c) PROVE UNCHANGED Calls!callVars
  <2> DEFINE p == claim[c]
             n == [req |-> p, of |-> resultOf[c], lapsed |-> FALSE]
  <2>1. Take(pending \cap {p}) /\ UNCHANGED <<life, pc, answered>>
        /\ outbox' = IF pending \cap {p} = {} THEN outbox ELSE outbox \cup {n}
    BY <1>4 DEF ResultFinish, FinishMatching, connVars, handlerVars
  <2>2. n.req = p
    OBVIOUS
  <2> HIDE DEF n, p
  <2>3. pending \cap {p} \in SUBSET pending
    OBVIOUS
  <2> QED
    BY <2>1, <2>2, <2>3, TakersKeepOpen
<1> QED
  BY <1>2, <1>3, <1>4

\* An answer reaches the requester, or finds it gone.
LEMMA DeliveryStepsCalls ==
  ASSUME ThinInv, NEW m \in outbox, Deliver(m)
  PROVE  Calls!CallNext
<1> USE DEF ThinInv, TypeOK, OpenEntries, AtMostOneAnswer, LapsedIsShell, connVars, handlerVars
<1> PICK r \in Req : m.req = r
  BY DEF Notice
<1>1. outbox' = outbox \ {m} /\ UNCHANGED <<life, pc, pending>>
  BY DEF Deliver
<1>2. ASSUME NEW q \in Req, q # r PROVE Phase(q)' = Phase(q)
  <2>1. Open(q)' <=> Open(q)
    BY <1>1, <1>2 DEF Open
  <2> QED
    BY <1>1, <2>1 DEF Phase
<1>3. Phase(r) = "open" /\ Phase(r)' = "over" /\ answered[r] = 0
  <2>1. pc[r] \notin {"idle", "add"} /\ r \notin pending /\ answered[r] = 0
    OBVIOUS
  <2>2. \A k \in outbox' : k.req # r
    BY <1>1
  <2> QED
    BY <1>1, <2>1, <2>2 DEF Phase, Open
<1>4. \/ life[From[r]] = "on" /\ answered' = [answered EXCEPT ![r] = @ + 1]
      \/ (life[From[r]] # "on" \/ r \in Shell) /\ answered' = answered
  BY DEF Deliver
<1> QED
  BY <1>1, <1>2, <1>3, <1>4, CallEnds

\* Connections come and go; a requester that comes finds no request of its own.
LEMMA ConnStepsCalls ==
  ASSUME ThinInv, NEW c \in Conn,
         Connect(c) \/ Disconnect(c) \/ CancelByRequester(c) \/ UnbindDevice(c)
  PROVE  [Calls!CallNext]_(Calls!callVars)
<1> USE DEF ThinInv, TypeOK
<1> DEFINE here == {d \in Requester : life[d] = "on"}
<1>1. CASE Connect(c) \/ Disconnect(c) \/ UnbindDevice(c)
  <2>1. UNCHANGED <<pc, pending, outbox, answered>>
        /\ \E s \in {"on", "removed", "gone"} : life' = [life EXCEPT ![c] = s]
    BY <1>1 DEF Connect, Disconnect, UnbindDevice, rpcVars, handlerVars, answerVars
  <2>2. \A r \in Req : Phase(r)' = Phase(r)
    BY <2>1 DEF Phase, Open
  <2>3. CASE c \in Device
    <3>1. \A d \in Requester : life'[d] = life[d]
      BY <2>1, <2>3
    <3> QED
      BY <2>1, <2>2, <3>1, CallStutters
  <2>4. CASE c \in Requester /\ Connect(c)
    <3>1. \A r \in Req : From[r] = c => Phase(r) = "idle"
      BY <2>4 DEF Connect, Unreferenced, NobodyAway, Phase
    <3>2. here' = here \cup {c}
      BY <2>4 DEF Connect
    <3> HIDE DEF here
    <3>3. Calls!Enter(c)
      BY <2>1, <2>2, <3>1, <3>2 DEF Calls!Enter, here
    <3> QED
      BY <2>4, <3>3 DEF Calls!CallNext
  <2>5. CASE c \in Requester /\ Disconnect(c)
    <3>1. here' = here \ {c}
      BY <2>5 DEF Disconnect
    <3>2. Calls!Leave(c)
      BY <2>1, <2>2, <3>1 DEF Calls!Leave
    <3> QED
      BY <2>5, <3>2 DEF Calls!CallNext
  <2> QED
    BY <1>1, <2>3, <2>4, <2>5 DEF UnbindDevice
<1>2. CASE CancelByRequester(c)
  <2> DEFINE S == {r \in pending : From[r] = c}
             phase == [r \in Req |-> Phase(r)]
  <2>1. /\ c \in Requester /\ life[c] = "removed" /\ life' = [life EXCEPT ![c] = "gone"]
        /\ pending' = pending \ S /\ UNCHANGED <<pc, outbox, answered>>
    BY <1>2 DEF CancelByRequester, Take, handlerVars, answerVars
  <2>2. here' = here
    BY <2>1
  <2>3. \A r \in S : Phase(r) = "open" /\ Phase(r)' = "over" /\ From[r] \notin here
    BY <2>1 DEF Phase, Open, OpenEntries
  <2>4. \A r \in Req \ S : Phase(r)' = Phase(r)
    BY <2>1 DEF Phase, Open
  <2>5. S \in SUBSET Req
    OBVIOUS
  <2> HIDE DEF S
  <2>6. phase' = [r \in Req |-> IF r \in S THEN "over" ELSE phase[r]]
        /\ \A r \in S : phase[r] = "open"
    BY <2>3, <2>4, <2>5
  <2> HIDE DEF phase
  <2>7. Calls!Drop(S)
    BY <2>1, <2>2, <2>3, <2>6 DEF Calls!Drop, phase
  <2> QED
    BY <2>5, <2>7 DEF Calls!CallNext
<1> QED
  BY <1>1, <1>2

\* The rest of the system does not concern the requester.
LEMMA OthersStutterCalls ==
  ASSUME ThinInv,
         \/ \E c \in Device : \/ Displace(c) \/ BindDevice(c) \/ TouchReads(c) \/ TouchWrites(c)
                            \/ ResultGet(c)
         \/ \E r \in Req : TimePasses(r)
         \/ RouteExpires \/ UNCHANGED vars
  PROVE  UNCHANGED Calls!callVars
<1>1. /\ UNCHANGED <<pc, pending, outbox, answered>>
      /\ \A d \in Requester : life'[d] = life[d]
  BY DEF Displace, BindDevice, TouchReads, TouchWrites, ResultGet, TimePasses, RouteExpires,
         vars, connVars, rpcVars, handlerVars, resultVars, answerVars, ThinInv, TypeOK
<1>2. \A r \in Req : Phase(r)' = Phase(r)
  BY <1>1 DEF Phase, Open
<1> QED
  BY <1>1, <1>2, CallStutters

\* A request nobody remembers may be made anew.
LEMMA RecycleForgetsCall ==
  ASSUME ThinInv, NEW r \in Req, Recycle(r)
  PROVE  Calls!CallNext
<1> USE DEF ThinInv, TypeOK, Goto
<1> DEFINE phase == [q \in Req |-> Phase(q)]
<1>1. Phase(r) = "over" /\ Phase(r)' = "idle"
  BY DEF Recycle, Phase, Open
<1>2. \A q \in Req \ {r} : Phase(q)' = Phase(q)
  BY DEF Recycle, Phase, Open
<1>3. answered' = [answered EXCEPT ![r] = 0] /\ life' = life
  BY DEF Recycle, connVars
<1>4. phase[r] = "over" /\ phase' = [phase EXCEPT ![r] = "idle"]
  BY <1>1, <1>2
<1> HIDE DEF phase
<1>5. Calls!Forget(r)
  BY <1>3, <1>4 DEF Calls!Forget, phase
<1> QED
  BY <1>5 DEF Calls!CallNext

\* ThinToolRpc implements OneShotCalls: whatever ids, routes, tables and
\* connections do underneath, a request is answered once, or dropped because its
\* requester is gone or its way back has lapsed.
THEOREM ThinImplementsCalls == Spec => ImplementsCalls
<1>1. Init => Calls!CallInit
  BY DEF Init, Calls!CallInit, Phase
<1>2. ThinInv /\ [Next]_vars => [Calls!CallNext]_(Calls!callVars)
  BY HandlerStepsCalls, AnswererStepsCalls, DeliveryStepsCalls, ConnStepsCalls,
     OthersStutterCalls, RecycleForgetsCall DEF Next
<1> QED
  BY <1>1, <1>2, ThinInvariant, PTL DEF Spec, ImplementsCalls, Calls!CallSpec
=============================================================================
