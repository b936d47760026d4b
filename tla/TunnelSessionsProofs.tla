------------------------ MODULE TunnelSessionsProofs ------------------------
(***************************************************************************)
(* Proofs about the tunnel server, for any number of connections,          *)
(* subdomains and accounts.  Each safety property is inductive once it is  *)
(* joined with what the handlers know at each place (ClaimHeld) and with   *)
(* how much of the presence key's life a running ticker leaves             *)
(* (TickerKeepsKey).                                                       *)
(***************************************************************************)
EXTENDS TunnelSessions, TLAPS

\* From ClaimTunnel's UPDATE or INSERT on, the handler's account owns the row.
ClaimHeld ==
  \A c \in Conns : pc[c] \in {"update", "reply", "lookup", "put"} \cup InLoop =>
    owner[sub[c]] = user[c]

\* A key that no other handler's Presence.Clear removed outlives the running ticker.
TickerKeepsKey ==
  ~RedisFaults /\ ~stopping =>
    \A c \in Conns : pc[c] = "serve" =>
      \/ presence[sub[c]] >= timer[c] + (TTL - Period)
      \/ \E d \in Conns \ {c} :
           sub[d] = sub[c] /\ user[d] = user[c] /\ cleared[sub[c]] = d

(* Whatever connections, claims, replacements, faults and restarts do, tickers
   and presence keys stay within their lifetimes and every handler is at a
   step of handleConn (tunnelserver.go). *)
THEOREM TypeCorrect == Spec => []TypeOK
<1> USE NoneAssumption, ClockAssumption DEF NoneAssumption, ClockAssumption
<1>1. Init => TypeOK
  <2> SUFFICES ASSUME Init PROVE TypeOK
    OBVIOUS
  <2>1. timer \in [Conns -> 0..Period] BY DEF Init
  <2>2. presence \in [Subs -> 0..TTL] BY DEF Init
  <2>3. pc \in [Conns -> Places] BY DEF Init, Places
  <2> QED BY <2>1, <2>2, <2>3 DEF Init, TypeOK
<1>2. TypeOK /\ [Next]_vars => TypeOK'
  <2> SUFFICES ASSUME TypeOK, [Next]_vars PROVE TypeOK'
    OBVIOUS
  <2> USE DEF TypeOK, Places, InLoop, input, key
  <2>1. ASSUME NEW c \in Conns, Accept(c) PROVE TypeOK'
    BY <2>1 DEF Accept, Goto
  <2>2. ASSUME NEW c \in Conns, Handshake(c) PROVE TypeOK'
    <3>1. CASE Refuse(c) BY <3>1 DEF Refuse, HangUp, Goto
    <3>2. CASE Authenticate(c) BY <3>2 DEF Authenticate, Goto
    <3>3. CASE ClaimSelect(c) BY <3>3 DEF ClaimSelect, HangUp, Goto
    <3>4. CASE ClaimInsert(c) BY <3>4 DEF ClaimInsert, HangUp, Goto
    <3>5. CASE ClaimUpdate(c) BY <3>5 DEF ClaimUpdate, HangUp, Goto
    <3>6. CASE Reply(c) BY <3>6 DEF Reply, HangUp, Goto
    <3> QED BY <2>2, <3>1, <3>2, <3>3, <3>4, <3>5, <3>6 DEF Handshake
  <2>3. ASSUME NEW c \in Conns, Serve(c) PROVE TypeOK'
    <3>1. CASE Lookup(c) BY <3>1 DEF Lookup, Goto
    <3>2. CASE Put(c) BY <3>2 DEF Put, Goto
    <3>3. CASE FirstBeat(c) BY <3>3 DEF FirstBeat, Beat, Goto
    <3>4. CASE Heartbeat(c) BY <3>4 DEF Heartbeat, Beat
    <3>5. CASE Depart(c) BY <3>5 DEF Depart, Goto
    <3>6. CASE Clear(c) BY <3>6 DEF Clear, Goto
    <3>7. CASE Abandon(c) BY <3>7 DEF Abandon, Goto
    <3> QED BY <2>3, <3>1, <3>2, <3>3, <3>4, <3>5, <3>6, <3>7 DEF Serve
  <2>4. ASSUME NEW c \in Conns, Drop(c) PROVE TypeOK'
    BY <2>4 DEF Drop
  <2>5. CASE Tick BY <2>5 DEF Tick
  <2>6. CASE Shutdown BY <2>6 DEF Shutdown
  <2>7. CASE Restart
    <3>1. pc' \in [Conns -> Places] BY <2>7 DEF Restart
    <3>2. timer' \in [Conns -> 0..Period] BY <2>7 DEF Restart
    <3> QED BY <2>7, <3>1, <3>2 DEF Restart
  <2>8. CASE UNCHANGED vars BY <2>8 DEF vars
  <2> QED BY <2>1, <2>2, <2>3, <2>4, <2>5, <2>6, <2>7, <2>8 DEF Next
<1> QED BY <1>1, <1>2, PTL DEF Spec

-----------------------------------------------------------------------------
(* The Registry and the claims.                                            *)

\* RegisteredIsServed, RegisteredIsOwned and LiveIsRegistered, made inductive.
RegistryInv == ClaimHeld /\ LiveIsRegistered /\ RegisteredIsServed /\ RegisteredIsOwned

\* A handler keeps it before it serves (handleConn, up to LookupTunnel).
LEMMA HandshakeKeepsRegistry ==
  ASSUME TypeOK, RegistryInv, NEW c \in Conns, Accept(c) \/ Handshake(c) \/ Lookup(c)
  PROVE  RegistryInv'
<1> USE NoneAssumption DEF NoneAssumption, TypeOK, RegistryInv, ClaimHeld, LiveIsRegistered,
      RegisteredIsServed, RegisteredIsOwned, InLoop, Places, input, Goto, HangUp
<1>1. CASE Accept(c) BY <1>1 DEF Accept
<1>2. CASE Refuse(c) BY <1>2 DEF Refuse
<1>3. CASE Authenticate(c) BY <1>3 DEF Authenticate
<1>4. CASE ClaimSelect(c) BY <1>4 DEF ClaimSelect
<1>5. CASE ClaimInsert(c) BY <1>5 DEF ClaimInsert
<1>6. CASE ClaimUpdate(c) BY <1>6 DEF ClaimUpdate
<1>7. CASE Reply(c) BY <1>7 DEF Reply
<1>8. CASE Lookup(c) BY <1>8 DEF Lookup
<1> QED BY <1>1, <1>2, <1>3, <1>4, <1>5, <1>6, <1>7, <1>8 DEF Handshake

\* And while it serves: Put, the heartbeats, the wait for the end.
LEMMA ServeKeepsRegistry ==
  ASSUME TypeOK, RegistryInv, NEW c \in Conns, Serve(c)
  PROVE  RegistryInv'
<1> USE NoneAssumption DEF NoneAssumption, TypeOK, RegistryInv, ClaimHeld, LiveIsRegistered,
      RegisteredIsServed, RegisteredIsOwned, InLoop, Places, input, Goto
<1>1. CASE Lookup(c) BY <1>1, HandshakeKeepsRegistry
<1>2. CASE Put(c)
  <2>1. ClaimHeld' BY <1>2 DEF Put
  <2>2. LiveIsRegistered' BY <1>2 DEF Put
  <2>3. RegisteredIsServed' BY <1>2 DEF Put
  <2>4. RegisteredIsOwned' BY <1>2 DEF Put
  <2> QED BY <2>1, <2>2, <2>3, <2>4
<1>3. CASE FirstBeat(c) BY <1>3 DEF FirstBeat
<1>4. CASE Heartbeat(c) BY <1>4 DEF Heartbeat
<1>5. CASE Depart(c) BY <1>5 DEF Depart
<1>6. CASE Clear(c) BY <1>6 DEF Clear
<1>7. CASE Abandon(c) BY <1>7 DEF Abandon
<1> QED BY <1>1, <1>2, <1>3, <1>4, <1>5, <1>6, <1>7 DEF Serve

\* So it holds always, in any order of the handlers' steps.
LEMMA RegistrySafe == Spec => []RegistryInv
<1>1. Init => RegistryInv
  BY NoneAssumption DEF Init, RegistryInv, ClaimHeld, LiveIsRegistered,
     RegisteredIsServed, RegisteredIsOwned, InLoop
<1>2. TypeOK /\ RegistryInv /\ [Next]_vars => RegistryInv'
  <2> SUFFICES ASSUME TypeOK, RegistryInv, [Next]_vars PROVE RegistryInv'
    OBVIOUS
  <2>1. ASSUME NEW c \in Conns, Accept(c) \/ Handshake(c) PROVE RegistryInv'
    BY <2>1, HandshakeKeepsRegistry
  <2>2. ASSUME NEW c \in Conns, Serve(c) PROVE RegistryInv'
    BY <2>2, ServeKeepsRegistry
  <2> USE DEF TypeOK, RegistryInv, ClaimHeld, LiveIsRegistered,
          RegisteredIsServed, RegisteredIsOwned, InLoop, Places, input
  <2>3. ASSUME NEW c \in Conns, Drop(c) PROVE RegistryInv'
    BY <2>3 DEF Drop
  <2>4. CASE Tick BY <2>4 DEF Tick
  <2>5. CASE Shutdown BY <2>5 DEF Shutdown
  <2>6. CASE Restart BY <2>6, NoneAssumption DEF Restart
  <2>7. CASE UNCHANGED vars BY <2>7 DEF vars
  <2> QED BY <2>1, <2>2, <2>3, <2>4, <2>5, <2>6, <2>7 DEF Next
<1> QED BY <1>1, <1>2, TypeCorrect, PTL DEF Spec

\* Whatever connections come, go and restart, a session that was put and is
\* still open is the registered one (Registry.Put and Registry.Remove).
THEOREM LiveSessionIsRegistered == Spec => []LiveIsRegistered
  BY RegistrySafe, PTL DEF RegistryInv

\* No registry entry outlives the handler that will remove it.
THEOREM RegisteredSessionIsServed == Spec => []RegisteredIsServed
  BY RegistrySafe, PTL DEF RegistryInv

\* The account behind a registered session owns its tunnel (ClaimTunnel).
THEOREM RegisteredSessionIsOwned == Spec => []RegisteredIsOwned
  BY RegistrySafe, PTL DEF RegistryInv

-----------------------------------------------------------------------------
(* The tunnels table and the presence key.                                 *)

\* No interleaving of two accounts' ClaimTunnel calls moves a claimed
\* subdomain from one to the other.
THEOREM OwnershipIsFinal == Spec => OwnerIsFinal
<1>1. TypeOK /\ [Next]_vars => [\A s \in Subs : owner[s] # None => owner'[s] = owner[s]]_vars
  <2> SUFFICES ASSUME TypeOK, [Next]_vars, NEW s \in Subs, owner[s] # None
               PROVE  owner'[s] = owner[s]
    OBVIOUS
  <2>1. ASSUME NEW c \in Conns, Accept(c) \/ Drop(c) PROVE owner' = owner
    BY <2>1 DEF Accept, Drop
  <2>2. ASSUME NEW c \in Conns, Handshake(c) PROVE owner'[s] = owner[s]
    <3>1. CASE ClaimInsert(c) BY <3>1 DEF ClaimInsert, TypeOK
    <3>2. CASE ~ClaimInsert(c)
      BY <2>2, <3>2 DEF Handshake, Refuse, Authenticate, ClaimSelect, ClaimUpdate, Reply
    <3> QED BY <3>1, <3>2
  <2>3. ASSUME NEW c \in Conns, Serve(c) PROVE owner' = owner
    BY <2>3 DEF Serve, Lookup, Put, FirstBeat, Heartbeat, Depart, Clear, Abandon
  <2>4. Tick \/ Shutdown \/ Restart \/ UNCHANGED vars => owner' = owner
    BY DEF Tick, Shutdown, Restart, vars
  <2> QED BY <2>1, <2>2, <2>3, <2>4 DEF Next
<1> QED BY <1>1, TypeCorrect, PTL DEF Spec, OwnerIsFinal

\* No step of a handler or of time lets the key end before the ticker fires.
LEMMA KeySafe == Spec => []TickerKeepsKey
<1> USE ClockAssumption DEF ClockAssumption
<1>1. Init => TickerKeepsKey
  BY DEF Init, TickerKeepsKey
<1>2. TypeOK /\ TypeOK' /\ RegistryInv /\ TickerKeepsKey /\ [Next]_vars => TickerKeepsKey'
  <2> SUFFICES ASSUME TypeOK, TypeOK', RegistryInv, TickerKeepsKey, [Next]_vars
               PROVE  TickerKeepsKey'
    OBVIOUS
  <2> USE DEF TypeOK, TickerKeepsKey, input, key, Goto
  <2>1. ASSUME NEW c \in Conns, Accept(c) PROVE TickerKeepsKey'
    BY <2>1 DEF Accept
  <2>2. ASSUME NEW c \in Conns, Handshake(c) PROVE TickerKeepsKey'
    <3> USE DEF HangUp
    <3>1. CASE Refuse(c) BY <3>1 DEF Refuse
    <3>2. CASE Authenticate(c) BY <3>2 DEF Authenticate
    <3>3. CASE ClaimSelect(c) BY <3>3 DEF ClaimSelect
    <3>4. CASE ClaimInsert(c) BY <3>4 DEF ClaimInsert
    <3>5. CASE ClaimUpdate(c) BY <3>5 DEF ClaimUpdate
    <3>6. CASE Reply(c) BY <3>6 DEF Reply
    <3> QED BY <2>2, <3>1, <3>2, <3>3, <3>4, <3>5, <3>6 DEF Handshake
  <2>3. ASSUME NEW c \in Conns, Serve(c) PROVE TickerKeepsKey'
    <3>1. CASE Lookup(c) BY <3>1 DEF Lookup
    <3>2. CASE Put(c) BY <3>2 DEF Put
    <3>3. CASE FirstBeat(c) BY <3>3 DEF FirstBeat, Beat
    <3>4. CASE Heartbeat(c) BY <3>4 DEF Heartbeat, Beat
    <3>5. CASE Depart(c) BY <3>5 DEF Depart
    <3>6. CASE Clear(c)
      <4>1. \A d \in Conns : pc[d] = "serve" /\ sub[d] = sub[c] => user[d] = user[c]
        BY <3>6 DEF Clear, RegistryInv, ClaimHeld, InLoop
      <4> QED BY <3>6, <4>1 DEF Clear
    <3>7. CASE Abandon(c) BY <3>7 DEF Abandon
    <3> QED BY <2>3, <3>1, <3>2, <3>3, <3>4, <3>5, <3>6, <3>7 DEF Serve
  <2>4. ASSUME NEW c \in Conns, Drop(c) PROVE TickerKeepsKey'
    BY <2>4 DEF Drop
  <2>5. CASE Tick BY <2>5 DEF Tick
  <2>6. CASE Shutdown BY <2>6 DEF Shutdown
  <2>7. CASE Restart BY <2>7 DEF Restart
  <2>8. CASE UNCHANGED vars BY <2>8 DEF vars
  <2> QED BY <2>1, <2>2, <2>3, <2>4, <2>5, <2>6, <2>7, <2>8 DEF Next
<1> QED BY <1>1, <1>2, TypeCorrect, RegistrySafe, PTL DEF Spec

\* For every TTL longer than the heartbeat period: a serving tunnel looks
\* offline only when the Presence.Clear of another connection, of the account that
\* owns the tunnel, removed the key after the last heartbeat (heartbeatLoop).
THEOREM OnlyStaleClear == Spec => []OnlyStaleClearHides
<1>1. TypeOK /\ TickerKeepsKey => OnlyStaleClearHides
  BY ClockAssumption DEF ClockAssumption, TypeOK, TickerKeepsKey, OnlyStaleClearHides
<1> QED BY <1>1, TypeCorrect, KeySafe, PTL
=============================================================================
