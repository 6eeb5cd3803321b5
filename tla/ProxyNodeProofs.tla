--------------------------- MODULE ProxyNodeProofs ---------------------------
(***************************************************************************)
(* Proofs about ProxyNode, for any sets of connections, hosts and          *)
(* visitors and any MissLimit.  The invariants are proved together with    *)
(* facts about what each phase of Serve, and of a request, has already     *)
(* done, which make them inductive (IInv); the action property and the     *)
(* refinement of HostRouting follow from IInv.                             *)
(***************************************************************************)
EXTENDS ProxyNode, TLAPS

(* What each phase of Serve, and of a request, has already done. *)
HostRead == \A c \in Conns : serve[c] \notin {"idle", "frame", "done"} => host[c] \in Hosts
RowAfterAnnounce ==
    \A c \in Conns : serve[c] \in Handshaking \cup {"announce"} => row[c] = "none"
EndIsClosed == \A c \in Conns : serve[c] = "end" => closed[c]
EndedIsDone == \A c \in Conns : row[c] = "ended" => serve[c] = "done" /\ closed[c]
Routable == Registered \cup {"close", "end", "done"}
GoodRequest(r) == /\ r \in Request
                  /\ r.at # "idle" => r.host \in Hosts
                  /\ r.at = "sent" => /\ r.tun \in Conns
                                      /\ host[r.tun] = r.host
                                      /\ serve[r.tun] \in Routable

Typed == TypeOK /\ HostRead
Phased == RowAfterAnnounce /\ EndIsClosed /\ EndedIsDone
Routed == RegistrySound /\ DisplacedIsClosing
Served == \A v \in Visitors : GoodRequest(req[v])
IInv == Typed /\ Phased /\ Routed /\ Served

\* A visitor's step changes nothing but the request, which stays a good one.
LEMMA VisitorMoves ==
    ASSUME IInv, NEW v \in Visitors, VisitorAction(v)
    PROVE  /\ UNCHANGED <<node, byHost, serve, host, missed, closing, closed, tid, row, link>>
           /\ \E r : GoodRequest(r) /\ req' = [req EXCEPT ![v] = r]
<1> USE NoneIsNoConn, NoneIsNoHost
<1>1. GoodRequest(req[v]) /\ req[v] \in Request
  BY DEF IInv, Served, GoodRequest
<1>2. \A h \in Hosts : byHost[h] # None =>
         /\ byHost[h] \in Conns /\ host[byHost[h]] = h
         /\ serve[byHost[h]] \in Routable
  BY DEF IInv, Typed, TypeOK, Routed, RegistrySound, Routable
<1>3. ASSUME NEW h \in Hosts, Arrive(v, h)
      PROVE  \E r : GoodRequest(r) /\ req' = [req EXCEPT ![v] = r]
  BY <1>3 DEF Arrive, NoRequest, GoodRequest, Request, Answers
<1>4. ASSUME RoundTrip(v)
      PROVE  \E r : GoodRequest(r) /\ req' = [req EXCEPT ![v] = r]
  <2>1. req[v].at = "transport" /\ req[v].host \in Hosts
    BY <1>1, <1>4 DEF RoundTrip, GoodRequest
  <2>2. CASE byHost[req[v].host] = None
    BY <1>1, <1>4, <2>1, <2>2 DEF RoundTrip, GoodRequest, Request
  <2>3. CASE byHost[req[v].host] # None
    <3> DEFINE r == [req[v] EXCEPT !.at = "sent", !.tun = byHost[req[v].host]]
    <3>1. req' = [req EXCEPT ![v] = r]
      BY <1>4, <2>3 DEF RoundTrip, Send
    <3>2. GoodRequest(r)
      BY <1>1, <1>2, <2>1, <2>3 DEF GoodRequest, Request
    <3> QED BY <3>1, <3>2
  <2> QED BY <2>2, <2>3
<1>5. ASSUME NEW a \in Answers, Answer(v, a)
      PROVE  \E r : GoodRequest(r) /\ req' = [req EXCEPT ![v] = r]
  <2> DEFINE r == [req[v] EXCEPT !.at = "idle", !.answer = a]
  <2>1. GoodRequest(r)
    BY <1>1 DEF GoodRequest, Request
  <2> QED BY <1>5, <2>1 DEF Answer
<1>6. ASSUME StreamFails(v)
      PROVE  \E r : GoodRequest(r) /\ req' = [req EXCEPT ![v] = r]
  <2> DEFINE r == [req[v] EXCEPT !.at = "failed"]
  <2>1. GoodRequest(r)
    BY <1>1, <1>6 DEF StreamFails, GoodRequest, Request
  <2>2. req' = [req EXCEPT ![v] = r]
    BY <1>6 DEF StreamFails
  <2> QED BY <2>1, <2>2
<1> QED
  BY <1>3, <1>4, <1>5, <1>6
  DEF VisitorAction, Arrive, RoundTrip, Respond, StreamFails, HandleError, Answers, tunnelVars

\* Every variable keeps its type, and the host of a connection is known from
\* the moment its frame is read, at every step of the system.
LEMMA TypeStep == IInv /\ [Next]_vars => Typed'
<1> USE NoneIsNoConn, NoneIsNoHost, MissLimitPositive
    DEF Typed, TypeOK, HostRead, Phases, tunnelVars
<1> SUFFICES ASSUME IInv, [Next]_vars PROVE Typed'
  OBVIOUS
<1>0. Typed
  BY DEF IInv
<1>1. ASSUME NEW c \in Conns, Accept(c) PROVE Typed'
  BY <1>1, <1>0 DEF Accept, Goto
<1>2. ASSUME NEW c \in Conns, ReadFrame(c) PROVE Typed'
  BY <1>2, <1>0 DEF ReadFrame, Goto, Leave
<1>3. ASSUME NEW c \in Conns, Verify(c) PROVE Typed'
  BY <1>3, <1>0 DEF Verify, Goto, Leave
<1>4. ASSUME NEW c \in Conns, Ack(c) PROVE Typed'
  BY <1>4, <1>0 DEF Ack, Goto, Leave
<1>5. ASSUME NEW c \in Conns, RegSet(c) PROVE Typed'
  BY <1>5, <1>0 DEF RegSet, Goto
<1>6. ASSUME NEW c \in Conns, BackgroundClose(c) PROVE Typed'
  BY <1>6, <1>0 DEF BackgroundClose
<1>7. ASSUME NEW c \in Conns, TunnelStarted(c) PROVE Typed'
  BY <1>7, <1>0 DEF TunnelStarted, Goto
<1>8. ASSUME NEW c \in Conns, PingOk(c) PROVE Typed'
  BY <1>8, <1>0 DEF PingOk
<1>9. ASSUME NEW c \in Conns, PingMiss(c) PROVE Typed'
  BY <1>9, <1>0 DEF PingMiss, Goto, WatchReturns
<1>10. ASSUME NEW c \in Conns, WatchStops(c) PROVE Typed'
  BY <1>10, <1>0 DEF WatchStops, Goto, WatchReturns
<1>11. ASSUME NEW c \in Conns, RegDelete(c) PROVE Typed'
  BY <1>11, <1>0 DEF RegDelete, Goto
<1>12. ASSUME NEW c \in Conns, CloseTunnel(c) PROVE Typed'
  BY <1>12, <1>0 DEF CloseTunnel, Goto
<1>13. ASSUME NEW c \in Conns, TunnelEnded(c) PROVE Typed'
  BY <1>13, <1>0 DEF TunnelEnded, Goto, Leave
<1>14. ASSUME NEW c \in Conns, LoseLink(c) PROVE Typed'
  BY <1>14, <1>0 DEF LoseLink
<1>15. ASSUME NEW v \in Visitors, VisitorAction(v) PROVE Typed'
  <2>1. PICK r : GoodRequest(r) /\ req' = [req EXCEPT ![v] = r]
    BY <1>15, VisitorMoves
  <2>2. req' \in [Visitors -> Request]
    BY <1>0, <2>1 DEF GoodRequest
  <2> QED BY <1>0, <1>15, <2>2, VisitorMoves
<1>16. CASE Signal
  BY <1>16, <1>0 DEF Signal
<1>17. CASE CancelCtx
  BY <1>17, <1>0 DEF CancelCtx
<1>18. CASE ProcessGone
  <2>1. req' \in [Visitors -> Request]
    BY <1>18 DEF ProcessGone, NoRequest, Request, Answers
  <2> QED BY <1>0, <1>18, <2>1 DEF ProcessGone
<1>19. CASE Restart
  BY <1>19, <1>0 DEF Restart
<1>20. CASE UNCHANGED vars
  BY <1>20, <1>0 DEF vars
<1> QED
  BY <1>1, <1>2, <1>3, <1>4, <1>5, <1>6, <1>7, <1>8, <1>9, <1>10, <1>11, <1>12, <1>13, <1>14, <1>15, <1>16, <1>17, <1>18, <1>19, <1>20
  DEF Next, ConnAction, NodeAction

\* A row is ended only by a Serve that has closed its tunnel, as its last act,
\* and opened at its announcement.
LEMMA PhaseStep == IInv /\ [Next]_vars => Phased'
<1> USE DEF Phased, RowAfterAnnounce, Handshaking, EndIsClosed, EndedIsDone, tunnelVars
<1> SUFFICES ASSUME IInv, [Next]_vars PROVE Phased'
  OBVIOUS
<1>0. Phased /\ TypeOK
  BY DEF IInv, Typed
<1> USE DEF TypeOK
<1>1. ASSUME NEW c \in Conns, Accept(c) PROVE Phased'
  BY <1>1, <1>0 DEF Accept, Goto
<1>2. ASSUME NEW c \in Conns, ReadFrame(c) PROVE Phased'
  BY <1>2, <1>0 DEF ReadFrame, Goto, Leave
<1>3. ASSUME NEW c \in Conns, Verify(c) PROVE Phased'
  BY <1>3, <1>0 DEF Verify, Goto, Leave
<1>4. ASSUME NEW c \in Conns, Ack(c) PROVE Phased'
  BY <1>4, <1>0 DEF Ack, Goto, Leave
<1>5. ASSUME NEW c \in Conns, RegSet(c) PROVE Phased'
  BY <1>5, <1>0 DEF RegSet, Goto
<1>6. ASSUME NEW c \in Conns, BackgroundClose(c) PROVE Phased'
  BY <1>6, <1>0 DEF BackgroundClose
<1>7. ASSUME NEW c \in Conns, TunnelStarted(c) PROVE Phased'
  BY <1>7, <1>0 DEF TunnelStarted, Goto
<1>8. ASSUME NEW c \in Conns, PingOk(c) PROVE Phased'
  BY <1>8, <1>0 DEF PingOk
<1>9. ASSUME NEW c \in Conns, PingMiss(c) PROVE Phased'
  BY <1>9, <1>0 DEF PingMiss, Goto, WatchReturns
<1>10. ASSUME NEW c \in Conns, WatchStops(c) PROVE Phased'
  BY <1>10, <1>0 DEF WatchStops, Goto, WatchReturns
<1>11. ASSUME NEW c \in Conns, RegDelete(c) PROVE Phased'
  BY <1>11, <1>0 DEF RegDelete, Goto
<1>12. ASSUME NEW c \in Conns, CloseTunnel(c) PROVE Phased'
  BY <1>12, <1>0 DEF CloseTunnel, Goto
<1>13. ASSUME NEW c \in Conns, TunnelEnded(c) PROVE Phased'
  BY <1>13, <1>0 DEF TunnelEnded, Goto, Leave
<1>14. ASSUME NEW c \in Conns, LoseLink(c) PROVE Phased'
  BY <1>14, <1>0 DEF LoseLink
<1>15. ASSUME NEW v \in Visitors, VisitorAction(v) PROVE Phased'
  BY <1>0, <1>15, VisitorMoves
<1>16. CASE Signal
  BY <1>16, <1>0 DEF Signal
<1>17. CASE CancelCtx
  BY <1>17, <1>0 DEF CancelCtx
<1>18. CASE ProcessGone
  BY <1>18, <1>0 DEF ProcessGone
<1>19. CASE Restart
  BY <1>19, <1>0 DEF Restart
<1>20. CASE UNCHANGED vars
  BY <1>20, <1>0 DEF vars
<1> QED
  BY <1>1, <1>2, <1>3, <1>4, <1>5, <1>6, <1>7, <1>8, <1>9, <1>10, <1>11, <1>12, <1>13, <1>14, <1>15, <1>16, <1>17, <1>18, <1>19, <1>20
  DEF Next, ConnAction, NodeAction

\* The registry stays sound, and every displaced tunnel is closed or about to be.
LEMMA RoutingStep == IInv /\ [Next]_vars => Routed'
<1> USE NoneIsNoConn DEF Routed, RegistrySound, DisplacedIsClosing, Registered, tunnelVars
<1> SUFFICES ASSUME IInv, [Next]_vars PROVE Routed'
  OBVIOUS
<1>0. Routed /\ TypeOK /\ HostRead
  BY DEF IInv, Typed
<1> USE DEF TypeOK, HostRead
<1>1. ASSUME NEW c \in Conns, Accept(c) PROVE Routed'
  BY <1>1, <1>0 DEF Accept, Goto
<1>2. ASSUME NEW c \in Conns, ReadFrame(c) PROVE Routed'
  BY <1>2, <1>0 DEF ReadFrame, Goto, Leave
<1>3. ASSUME NEW c \in Conns, Verify(c) PROVE Routed'
  BY <1>3, <1>0 DEF Verify, Goto, Leave
<1>4. ASSUME NEW c \in Conns, Ack(c) PROVE Routed'
  BY <1>4, <1>0 DEF Ack, Goto, Leave
<1>5. ASSUME NEW c \in Conns, RegSet(c) PROVE Routed'
  BY <1>5, <1>0 DEF RegSet, Goto
<1>6. ASSUME NEW c \in Conns, BackgroundClose(c) PROVE Routed'
  BY <1>6, <1>0 DEF BackgroundClose
<1>7. ASSUME NEW c \in Conns, TunnelStarted(c) PROVE Routed'
  BY <1>7, <1>0 DEF TunnelStarted, Goto
<1>8. ASSUME NEW c \in Conns, PingOk(c) PROVE Routed'
  BY <1>8, <1>0 DEF PingOk
<1>9. ASSUME NEW c \in Conns, PingMiss(c) PROVE Routed'
  BY <1>9, <1>0 DEF PingMiss, Goto, WatchReturns
<1>10. ASSUME NEW c \in Conns, WatchStops(c) PROVE Routed'
  BY <1>10, <1>0 DEF WatchStops, Goto, WatchReturns
<1>11. ASSUME NEW c \in Conns, RegDelete(c) PROVE Routed'
  BY <1>11, <1>0 DEF RegDelete, Goto
<1>12. ASSUME NEW c \in Conns, CloseTunnel(c) PROVE Routed'
  BY <1>12, <1>0 DEF CloseTunnel, Goto
<1>13. ASSUME NEW c \in Conns, TunnelEnded(c) PROVE Routed'
  BY <1>13, <1>0 DEF TunnelEnded, Goto, Leave
<1>14. ASSUME NEW c \in Conns, LoseLink(c) PROVE Routed'
  BY <1>14, <1>0 DEF LoseLink
<1>15. ASSUME NEW v \in Visitors, VisitorAction(v) PROVE Routed'
  BY <1>0, <1>15, VisitorMoves
<1>16. CASE Signal
  BY <1>16, <1>0 DEF Signal
<1>17. CASE CancelCtx
  BY <1>17, <1>0 DEF CancelCtx
<1>18. CASE ProcessGone
  BY <1>18, <1>0 DEF ProcessGone
<1>19. CASE Restart
  BY <1>19, <1>0 DEF Restart
<1>20. CASE UNCHANGED vars
  BY <1>20, <1>0 DEF vars
<1> QED
  BY <1>1, <1>2, <1>3, <1>4, <1>5, <1>6, <1>7, <1>8, <1>9, <1>10, <1>11, <1>12, <1>13, <1>14, <1>15, <1>16, <1>17, <1>18, <1>19, <1>20
  DEF Next, ConnAction, NodeAction

\* No step of Serve or of the node makes a request a bad one.
LEMMA ServedStep == IInv /\ [Next]_vars => Served'
<1> SUFFICES ASSUME IInv, [Next]_vars PROVE Served'
  OBVIOUS
<1>0. Served /\ TypeOK
  BY DEF IInv, Typed
<1>1. ASSUME req' = req,
             \A c \in Conns : serve[c] \in Routable => serve'[c] \in Routable /\ host'[c] = host[c]
      PROVE  Served'
  BY <1>0, <1>1 DEF Served, GoodRequest
<1>2. ASSUME NEW c \in Conns, ConnAction(c) PROVE Served'
  <2>1. req' = req
    BY <1>2 DEF ConnAction, Accept, ReadFrame, Verify, Ack, RegSet, BackgroundClose, TunnelStarted,
       PingOk, PingMiss, WatchStops, RegDelete, CloseTunnel, TunnelEnded, LoseLink
  <2>2. \A d \in Conns : serve[d] \in Routable => serve'[d] \in Routable /\ host'[d] = host[d]
    BY <1>0, <1>2 DEF TypeOK, Routable, Registered, tunnelVars, ConnAction, Goto, Leave, WatchReturns,
       Accept, ReadFrame, Verify, Ack, RegSet, BackgroundClose, TunnelStarted,
       PingOk, PingMiss, WatchStops, RegDelete, CloseTunnel, TunnelEnded, LoseLink
  <2> QED BY <1>1, <2>1, <2>2
<1>3. ASSUME NEW v \in Visitors, VisitorAction(v) PROVE Served'
  <2>1. PICK r : GoodRequest(r) /\ req' = [req EXCEPT ![v] = r]
    BY <1>3, VisitorMoves
  <2>2. GoodRequest(r)' /\ \A w \in Visitors : GoodRequest(req[w])'
    BY <1>0, <1>3, <2>1, VisitorMoves DEF Served, GoodRequest, TypeOK
  <2> QED BY <2>2 DEF Served
<1>4. CASE NodeAction
  <2>1. CASE ProcessGone
    BY <2>1 DEF ProcessGone, Served, GoodRequest, NoRequest, Request, Answers
  <2>2. CASE Signal \/ CancelCtx \/ Restart
    BY <1>1, <2>2 DEF Signal, CancelCtx, Restart, tunnelVars
  <2> QED BY <1>4, <2>1, <2>2 DEF NodeAction
<1>5. CASE UNCHANGED vars
  BY <1>1, <1>5 DEF vars, tunnelVars
<1> QED
  BY <1>2, <1>3, <1>4, <1>5 DEF Next

\* The invariant is inductive: no step of a Serve goroutine, of a visitor's request,
\* of the node or of the network breaks it.
THEOREM InvStep == IInv /\ [Next]_vars => IInv'
BY TypeStep, PhaseStep, RoutingStep, ServedStep DEF IInv

\* A node that has just started, with an empty registry, satisfies the invariant.
THEOREM InvInit == Init => IInv
<1> USE NoneIsNoConn, NoneIsNoHost, MissLimitPositive
<1> SUFFICES ASSUME Init PROVE IInv
  OBVIOUS
<1>1. Typed
  <2>1. req \in [Visitors -> Request]
    BY DEF Init, NoRequest, Request, Answers
  <2> QED BY <2>1 DEF Init, Typed, TypeOK, HostRead, Phases
<1>2. Phased /\ Routed
  BY DEF Init, Phased, RowAfterAnnounce, Handshaking, EndIsClosed, EndedIsDone, Routed, RegistrySound, DisplacedIsClosing, Registered
<1>3. Served
  BY DEF Init, Served, GoodRequest, NoRequest, Request, Answers
<1> QED BY <1>1, <1>2, <1>3 DEF IInv

\* The invariant holds in every reachable state, for any number of connections, hosts
\* and visitors.
THEOREM Inductive == Spec => []IInv
BY InvInit, InvStep, PTL DEF Spec

\* Every variable keeps its type; in particular watch never counts MissLimit misses.
THEOREM TypeCorrect == Spec => []TypeOK
<1>1. IInv => TypeOK
  BY DEF IInv, Typed
<1> QED BY Inductive, <1>1, PTL

\* The registry names only verified tunnels that have not been cleaned up,
\* each under its own host.
THEOREM RegistryIsSound == Spec => []RegistrySound
<1>1. IInv => RegistrySound
  BY DEF IInv, Routed
<1> QED BY Inductive, <1>1, PTL

\* No replaced tunnel stays open.
THEOREM DisplacedTunnelsClose == Spec => []DisplacedIsClosing
<1>1. IInv => DisplacedIsClosing
  BY DEF IInv, Routed
<1> QED BY Inductive, <1>1, PTL

\* A request in flight is on a registered tunnel of its own host.
THEOREM RequestsStayOnTheirHost == Spec => []RequestOnOwnHost
<1>1. IInv => RequestOnOwnHost
  BY DEF IInv, Served, GoodRequest, Routable, RequestOnOwnHost
<1> QED BY Inductive, <1>1, PTL

\* The Control Plane never records the end of a tunnel that is still serving:
\* the goroutine that ended the row has left, so the registry cannot name it.
THEOREM EndedRowsDoNotServe == Spec => []EndedRowNotServing
<1>1. IInv => EndedRowNotServing
  BY NoneIsNoConn
  DEF IInv, Phased, EndedIsDone, Routed, RegistrySound, Registered, EndedRowNotServing
<1> QED BY Inductive, <1>1, PTL

\* The late cleanup of a replaced tunnel never takes its successor's route.
THEOREM OnlyOwnCleanup == Spec => OnlyOwnCleanupUnroutes
<1>1. ASSUME IInv, [Next]_vars, NEW h \in Hosts, byHost[h] # None, byHost'[h] = None
      PROVE  serve[byHost[h]] = "delete" \/ node' = "down"
  <2> USE <1>1, NoneIsNoConn
  <2>1. TypeOK /\ HostRead
    BY DEF IInv, Typed
  <2>2. CASE \E c \in Conns : RegSet(c)
    BY <2>1, <2>2 DEF RegSet, TypeOK
  <2>3. CASE \E c \in Conns : RegDelete(c)
    BY <2>1, <2>3 DEF RegDelete, Goto, TypeOK
  <2>4. CASE ProcessGone
    BY <2>4 DEF ProcessGone
  <2>5. CASE byHost' = byHost
    BY <2>5
  <2>6. CASE \E v \in Visitors : VisitorAction(v)
    BY <2>5, <2>6, VisitorMoves
  <2>7. (\E c \in Conns : RegSet(c)) \/ (\E c \in Conns : RegDelete(c)) \/ ProcessGone
          \/ byHost' = byHost \/ \E v \in Visitors : VisitorAction(v)
    BY DEF Next, ConnAction, NodeAction, Accept, ReadFrame, Verify, Ack, BackgroundClose,
       TunnelStarted, PingOk, PingMiss, WatchStops, CloseTunnel, TunnelEnded, LoseLink,
       Signal, CancelCtx, Restart, vars, tunnelVars
  <2> QED BY <2>2, <2>3, <2>4, <2>5, <2>6, <2>7
<1>2. IInv /\ [Next]_vars => [\A h \in Hosts : byHost[h] # None /\ byHost'[h] = None =>
                                serve[byHost[h]] = "delete" \/ node' = "down"]_vars
  BY <1>1
<1> QED BY Inductive, <1>2, PTL DEF Spec, OnlyOwnCleanupUnroutes

\* A node that has just started is an initial state of HostRouting: nothing is routed.
LEMMA RoutingInit == Init => Routing!Init
BY DEF Init, Routing!Init, life, Handshaking

\* Every step of the proxy node is a step of HostRouting or changes nothing
\* HostRouting sees.
LEMMA RoutingRefined == IInv /\ IInv' /\ [Next]_vars => [Routing!Next]_(Routing!vars)
<1> USE NoneIsNoConn DEF Handshaking, Registered, life, Goto, Leave, tunnelVars
<1> SUFFICES ASSUME IInv, IInv', [Next]_vars PROVE [Routing!Next]_(Routing!vars)
  OBVIOUS
<1>0. TypeOK /\ HostRead /\ RegistrySound /\ RowAfterAnnounce
  BY DEF IInv, Typed, Routed, Phased
<1> USE <1>0 DEF TypeOK
<1>1. ASSUME NEW c \in Conns, RegSet(c) PROVE Routing!Attach(c, host[c]) /\ host[c] \in Hosts
  BY <1>1 DEF RegSet, HostRead, Routing!Attach
<1>2. ASSUME NEW c \in Conns, RegDelete(c) PROVE Routing!Detach(c)
  <2>1. serve[c] = "delete" /\ serve' = [serve EXCEPT ![c] = "close"] /\ row' = row
    BY <1>2 DEF RegDelete
  <2>2. byHost' = [h \in Hosts |-> IF byHost[h] = c THEN None ELSE byHost[h]]
    <3>1. host[c] \in Hosts /\ \A h \in Hosts : byHost[h] = c => h = host[c]
      BY <2>1 DEF RegistrySound, HostRead
    <3> QED BY <1>2, <3>1 DEF RegDelete
  <2>3. life' = [life EXCEPT ![c] = "gone"]
    BY <2>1
  <2> QED BY <2>1, <2>2, <2>3 DEF Routing!Detach
<1>3. ASSUME NEW c \in Conns, ReadFrame(c) \/ Verify(c) \/ Ack(c)
      PROVE  Routing!Refuse(c) \/ UNCHANGED Routing!vars
  BY <1>3 DEF Routing!vars, ReadFrame, Verify, Ack, Routing!Refuse
<1>4. ASSUME NEW c \in Conns, TunnelStarted(c)
      PROVE  Routing!OpenRecord(c) \/ UNCHANGED Routing!vars
  BY <1>4 DEF Routing!vars, TunnelStarted, RowAfterAnnounce, Routing!OpenRecord
<1>5. ASSUME NEW c \in Conns, TunnelEnded(c)
      PROVE  Routing!CloseRecord(c) \/ UNCHANGED Routing!vars
  BY <1>5 DEF Routing!vars, TunnelEnded, Routing!CloseRecord
<1>6. ASSUME ProcessGone PROVE Routing!Reset
  <2> DEFINE unseen == {c \in Conns : serve[c] = "idle"}
  <2>1. unseen \in SUBSET {c \in Conns : life[c] = "new"}
    OBVIOUS
  <2>2. life' = [c \in Conns |-> IF c \in unseen THEN "new" ELSE "gone"]
    BY <1>6 DEF ProcessGone
  <2> QED BY <1>6, <2>1, <2>2 DEF ProcessGone, Routing!Reset
<1>7. ASSUME NEW c \in Conns,
             \/ Accept(c) \/ BackgroundClose(c) \/ PingOk(c) \/ PingMiss(c)
             \/ WatchStops(c) \/ CloseTunnel(c) \/ LoseLink(c)
      PROVE  UNCHANGED Routing!vars
  BY <1>7 DEF Routing!vars, Accept, BackgroundClose, PingOk, PingMiss, WatchReturns, WatchStops, CloseTunnel, LoseLink
<1>8. ASSUME (\E v \in Visitors : VisitorAction(v)) \/ Signal \/ CancelCtx \/ Restart \/ UNCHANGED vars
      PROVE  UNCHANGED Routing!vars
  BY <1>8, VisitorMoves DEF Routing!vars, Signal, CancelCtx, Restart, vars
<1> HIDE <1>0 DEF TypeOK, life, Handshaking, Registered, Goto, Leave, tunnelVars
<1>9. (\E c \in Conns : ConnAction(c)) => Routing!Next \/ UNCHANGED Routing!vars
  BY <1>1, <1>2, <1>3, <1>4, <1>5, <1>7 DEF ConnAction, Routing!Next
<1> QED
  BY <1>6, <1>8, <1>9 DEF Next, NodeAction, Routing!Next

\* The proxy node keeps HostRouting's promise.
THEOREM RoutingImplemented == Spec => ImplementsRouting
BY RoutingInit, RoutingRefined, Inductive, PTL DEF Spec, ImplementsRouting, Routing!Spec

==============================================================================
