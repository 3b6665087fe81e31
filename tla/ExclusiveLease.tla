--------------------------- MODULE ExclusiveLease ---------------------------
(***************************************************************************)
(* What the bot body lease promises, without connections, nodes, handshakes *)
(* or storage: one bot has at most one holder; a holder is displaced only   *)
(* by another connection of its own body, or by an explicit body when the   *)
(* holder is a legacy one; otherwise the lease comes back only once the     *)
(* holder's own session is over, unless its node cannot renew it.           *)
(***************************************************************************)
CONSTANTS Conn,        \* connection identifiers
          Body,        \* body identities
          BodyOf,      \* the body a connection speaks for
          LegacyBody,  \* the bodies named legacy:<uid>
          NoConn,      \* "nobody holds the lease"
          Unreliable   \* connections whose node may fail to reach the lease store

VARIABLES holder,   \* the connection that holds the lease, or NoConn
          ended     \* the connections that have no session (any more)

leaseVars == <<holder, ended>>

LeaseTypeOK ==
  /\ holder \in Conn \cup {NoConn}
  /\ ended \subseteq Conn

MayDisplace(c, d) ==
  \/ BodyOf[c] = BodyOf[d]
  \/ BodyOf[c] \in LegacyBody /\ BodyOf[d] \notin LegacyBody

LeaseInit ==
  /\ holder = NoConn
  /\ ended = Conn

\* A connection takes a free lease, or displaces a holder it may displace. The
\* store may have recorded it although an unreliable caller saw the call fail.
Grant(c) ==
  /\ holder # NoConn => MayDisplace(holder, c)
  /\ holder' = c
  /\ \/ ended' = ended \ {c}
     \/ c \in Unreliable /\ UNCHANGED ended

\* Sessions end; a whole process may end, and its leases with it.
End(S) ==
  /\ ended' = ended \cup S
  /\ holder' \in {holder} \cup (IF holder \in S THEN {NoConn} ELSE {})

\* The lease of a session that is over comes back: the session releases it, or
\* nobody renews it.
Release(c) ==
  /\ holder = c
  /\ c \in ended
  /\ holder' = NoConn
  /\ UNCHANGED ended

\* The renewals of a live session fail for the whole time to live.
Expire ==
  /\ holder \in Unreliable
  /\ holder' = NoConn
  /\ UNCHANGED ended

LeaseNext ==
  \/ \E c \in Conn : Grant(c) \/ Release(c)
  \/ \E S \in SUBSET Conn : End(S)
  \/ Expire

LeaseSpec == LeaseInit /\ [][LeaseNext]_leaseVars
=============================================================================
