------------------------------ MODULE ProxyNode ------------------------------
(***************************************************************************)
(* One proxy node: a Serve goroutine for each sidecar connection, the      *)
(* registry of hosts they share with the visitors' requests, the           *)
(* background Close of a replaced tunnel, the rows of table tunnels that   *)
(* the Control Plane keeps, and the node's own shutdown and crash.         *)
(*                                                                         *)
(* A connection c in Conns is one TLS connection from a sidecar; what the  *)
(* sidecar, the network and the Control Plane answer is chosen             *)
(* nondeterministically.  Data that no property tells apart (tokens,       *)
(* device and user ids, HTTP headers and bodies) is left out.              *)
(***************************************************************************)
EXTENDS Naturals

CONSTANTS Conns,      \* sidecar connections, over the node's restarts
          Hosts,      \* public hostnames
          Visitors,   \* visitors, each with one request at a time
          None,
          MissLimit   \* consecutive missed pings that end a tunnel: 3 in watch

ASSUME NoneIsNoConn == None \notin Conns
ASSUME NoneIsNoHost == None \notin Hosts
ASSUME MissLimitPositive == MissLimit \in Nat \ {0}

VARIABLES
    node,     \* "up", "deaf" (no TLS listener), "draining", "stopping", "down"
    byHost,   \* Registry.byHost: the connection registered for a host, or None
    serve,    \* where the connection's Serve goroutine is
    host,     \* frame.Host of the connection, None until it is read
    missed,   \* watch's count of consecutive missed pings
    closing,  \* connections with a `go prev.Close()` not yet run
    closed,   \* Tunnel.Close has run: ClientConn and channel closed
    link,     \* whether the connection still carries what the sidecar answers
    tid,      \* whether Serve holds the id TunnelStarted returned
    row,      \* the connection's row of table tunnels: "none", "open", "ended"
    req       \* the visitors' requests

tunnelVars == <<byHost, serve, host, missed, closing, closed, tid, row>>
vars == <<node, tunnelVars, link, req>>

Registered == {"announce", "watch", "delete"}   \* after Reg.Set, before Reg.Delete
Phases == {"idle", "frame", "verify", "ack", "register", "announce", "watch",
           "delete", "close", "end", "done"}
Answers == {"ok", "holding", "badgateway"}
Request == [at : {"idle", "transport", "sent", "failed"}, host : Hosts \cup {None},
            tun : Conns \cup {None}, answer : Answers \cup {None}]
NoRequest == [at |-> "idle", host |-> None, tun |-> None, answer |-> None]

TypeOK == /\ node \in {"up", "deaf", "draining", "stopping", "down"}
          /\ byHost \in [Hosts -> Conns \cup {None}]
          /\ serve \in [Conns -> Phases]
          /\ host \in [Conns -> Hosts \cup {None}]
          /\ missed \in [Conns -> 0..(MissLimit - 1)]
          /\ closing \in SUBSET Conns
          /\ closed \in [Conns -> BOOLEAN]
          /\ link \in [Conns -> {"up", "lost"}]
          /\ tid \in [Conns -> BOOLEAN]
          /\ row \in [Conns -> {"none", "open", "ended"}]
          /\ req \in [Visitors -> Request]

Init == /\ node = "up"
        /\ byHost = [h \in Hosts |-> None]
        /\ serve = [c \in Conns |-> "idle"]
        /\ host = [c \in Conns |-> None]
        /\ missed = [c \in Conns |-> 0]
        /\ closing = {}
        /\ closed = [c \in Conns |-> FALSE]
        /\ link = [c \in Conns |-> "up"]
        /\ tid = [c \in Conns |-> FALSE]
        /\ row = [c \in Conns |-> "none"]
        /\ req = [v \in Visitors |-> NoRequest]

CtxLive == node \in {"up", "draining"}   \* the context main passes to Serve

-----------------------------------------------------------------------------
(* Serve: one action per call it makes.                                    *)

Goto(c, from, to) == /\ node # "down"
                     /\ serve[c] = from
                     /\ serve' = [serve EXCEPT ![c] = to]

\* Serve returns: its deferred tlsConn.Close ends the connection.
Leave(c, from) == /\ Goto(c, from, "done")
                  /\ link' = [link EXCEPT ![c] = "lost"]

\* Accept, TLS handshake and `go Serve`.  The listener is never closed: it
\* accepts while the node drains too, until the context is cancelled.
Accept(c) == /\ CtxLive
             /\ Goto(c, "idle", "frame")
             /\ UNCHANGED <<node, byHost, host, missed, closing, closed, link, tid, row, req>>

ReadFrame(c) == \/ \E h \in Hosts :
                     /\ Goto(c, "frame", "verify")
                     /\ host' = [host EXCEPT ![c] = h]
                     /\ UNCHANGED <<node, byHost, missed, closing, closed, link, tid, row, req>>
                \/ /\ Leave(c, "frame")      \* BAD_FRAME, or the 10 s deadline
                   /\ UNCHANGED <<node, byHost, host, missed, closing, closed, tid, row, req>>

\* The Control Plane's verdict; a cancelled context is VERIFY_UNAVAILABLE.
Verify(c) == /\ \/ CtxLive /\ Goto(c, "verify", "ack") /\ UNCHANGED link
                \/ Leave(c, "verify")
             /\ UNCHANGED <<node, byHost, host, missed, closing, closed, tid, row, req>>

\* The acknowledgement and NewClientConn: either may fail.
Ack(c) == /\ \/ Goto(c, "ack", "register") /\ UNCHANGED link
             \/ Leave(c, "ack")
          /\ UNCHANGED <<node, byHost, host, missed, closing, closed, tid, row, req>>

\* Faulty variant: the replaced tunnel is left alone.
RegSetNoClose(c) ==
    /\ Goto(c, "register", "announce")
    /\ byHost' = [byHost EXCEPT ![host[c]] = c]
    /\ UNCHANGED <<node, host, missed, closing, closed, link, tid, row, req>>

\* Registry.Set: one critical section; the replaced tunnel is closed by a
\* goroutine of its own.
RegSet(c) ==
    /\ Goto(c, "register", "announce")
    /\ closing' = IF byHost[host[c]] = None THEN closing ELSE closing \cup {byHost[host[c]]}
    /\ byHost' = [byHost EXCEPT ![host[c]] = c]
    /\ UNCHANGED <<node, host, missed, closed, link, tid, row, req>>

\* `go prev.Close()` gets to run.
BackgroundClose(c) == /\ node # "down"
                      /\ c \in closing
                      /\ closing' = closing \ {c}
                      /\ closed' = [closed EXCEPT ![c] = TRUE]
                      /\ UNCHANGED <<node, byHost, serve, host, missed, link, tid, row, req>>

\* TunnelStarted: the row is made and its id returned; or it is made and the
\* answer is lost; or the call fails.  Serve ignores the error.
TunnelStarted(c) ==
    /\ Goto(c, "announce", "watch")
    /\ \/ /\ CtxLive
          /\ row' = [row EXCEPT ![c] = "open"]
          /\ tid' = [tid EXCEPT ![c] = TRUE]
       \/ row' = [row EXCEPT ![c] = "open"] /\ UNCHANGED tid
       \/ UNCHANGED <<row, tid>>
    /\ UNCHANGED <<node, byHost, host, missed, closing, closed, link, req>>

\* Faulty variant: cleanup without Reg.Delete.
WatchReturnsNoDelete(c) == Goto(c, "watch", "close") /\ missed' = [missed EXCEPT ![c] = 0]

WatchReturns(c) == /\ Goto(c, "watch", "delete")
                   /\ missed' = [missed EXCEPT ![c] = 0]   \* the local variable is gone

\* watch: a ping answered, and a ping missed; the ping of a cancelled context fails.
PingOk(c) == /\ CtxLive /\ serve[c] = "watch"
             /\ link[c] = "up" /\ ~closed[c]
             /\ missed' = [missed EXCEPT ![c] = 0]
             /\ UNCHANGED <<node, byHost, serve, host, closing, closed, link, tid, row, req>>

\* Faulty variant: a limit that only resets the count.
PingMissForgives(c) ==
    /\ Goto(c, "watch", "watch")
    /\ missed' = [missed EXCEPT ![c] = (missed[c] + 1) % MissLimit]
    /\ UNCHANGED <<node, byHost, host, closing, closed, link, tid, row, req>>

PingMiss(c) ==
    /\ \/ /\ missed[c] + 1 < MissLimit
          /\ Goto(c, "watch", "watch")
          /\ missed' = [missed EXCEPT ![c] = missed[c] + 1]
       \/ missed[c] + 1 >= MissLimit /\ WatchReturns(c)
    /\ UNCHANGED <<node, byHost, host, closing, closed, link, tid, row, req>>

\* watch: the tunnel was closed by Set, or the context was cancelled.
WatchStops(c) == /\ closed[c] \/ ~CtxLive
                 /\ WatchReturns(c)
                 /\ UNCHANGED <<node, byHost, host, closing, closed, link, tid, row, req>>

\* Faulty variants: delete whoever has the host, and the comparison inverted.
RegDeleteInverted(c) ==
    /\ Goto(c, "delete", "close")
    /\ byHost' = IF byHost[host[c]] # c THEN [byHost EXCEPT ![host[c]] = None] ELSE byHost
    /\ UNCHANGED <<node, host, missed, closing, closed, link, tid, row, req>>
RegDeleteAny(c) ==
    /\ Goto(c, "delete", "close")
    /\ byHost' = [byHost EXCEPT ![host[c]] = None]
    /\ UNCHANGED <<node, host, missed, closing, closed, link, tid, row, req>>

\* Registry.Delete: only if the host is still this tunnel's.
RegDelete(c) ==
    /\ Goto(c, "delete", "close")
    /\ byHost' = IF byHost[host[c]] = c THEN [byHost EXCEPT ![host[c]] = None] ELSE byHost
    /\ UNCHANGED <<node, host, missed, closing, closed, link, tid, row, req>>

CloseTunnel(c) == /\ Goto(c, "close", "end")
                  /\ closed' = [closed EXCEPT ![c] = TRUE]
                  /\ UNCHANGED <<node, byHost, host, missed, closing, link, tid, row, req>>

\* TunnelEnded, only with an id; its failure is ignored and never retried.
\* The Control Plane ends a row once (WHERE ended_at IS NULL).
TunnelEnded(c) ==
    /\ Leave(c, "end")
    /\ \/ tid[c] /\ row[c] = "open" /\ row' = [row EXCEPT ![c] = "ended"]
       \/ UNCHANGED row
    /\ UNCHANGED <<node, byHost, host, missed, closing, closed, tid, req>>

\* What Serve does next, the answered pings and the misses of a sound link apart.
ServeStep(c) == \/ ReadFrame(c) \/ Verify(c) \/ Ack(c) \/ RegSet(c) \/ TunnelStarted(c)
                \/ (link[c] = "lost" \/ closed[c]) /\ PingMiss(c)
                \/ WatchStops(c) \/ RegDelete(c) \/ CloseTunnel(c) \/ TunnelEnded(c)

-----------------------------------------------------------------------------
(* The visitors' side: Forwarder.ServeHTTP and the transport it plugs in.  *)

Send(v, c) == req' = [req EXCEPT ![v] = [@ EXCEPT !.at = "sent", !.tun = c]]
Answer(v, a) == req' = [req EXCEPT ![v] = [@ EXCEPT !.at = "idle", !.answer = a]]

\* ServeHTTP: no tunnel, no transport.  A request without a Host header is
\* refused before anything is looked up and is left out.
Arrive(v, h) == /\ node \in {"up", "deaf"}
                /\ req[v].at = "idle"
                /\ \/ /\ byHost[h] = None
                      /\ req' = [req EXCEPT ![v] = [NoRequest EXCEPT !.host = h, !.answer = "holding"]]
                   \/ /\ byHost[h] # None
                      /\ req' = [req EXCEPT ![v] = [NoRequest EXCEPT !.host = h, !.at = "transport"]]
                /\ UNCHANGED <<node, tunnelVars, link>>

\* Faulty variant: any connection that claims the host will do.
RoundTripUnregistered(v) ==
    /\ node # "down" /\ req[v].at = "transport"
    /\ \E c \in Conns : host[c] = req[v].host /\ Send(v, c)
    /\ UNCHANGED <<node, tunnelVars, link>>

\* RoundTrip looks the tunnel up again: it may have gone, or be another one.
RoundTrip(v) == /\ node # "down" /\ req[v].at = "transport"
                /\ \/ /\ byHost[req[v].host] = None
                      /\ req' = [req EXCEPT ![v].at = "failed"]
                   \/ /\ byHost[req[v].host] # None
                      /\ Send(v, byHost[req[v].host])
                /\ UNCHANGED <<node, tunnelVars, link>>

\* The sidecar's answer: the local app's, or the 502 the sidecar makes itself.
Respond(v) == /\ node # "down" /\ req[v].at = "sent"
              /\ link[req[v].tun] = "up" /\ ~closed[req[v].tun]
              /\ Answer(v, "ok")
              /\ UNCHANGED <<node, tunnelVars, link>>

\* The stream fails: the ClientConn was closed, or the transport's own idle
\* ping found the link lost, or the sidecar reset it.
StreamFails(v) == /\ node # "down" /\ req[v].at = "sent"
                  /\ req' = [req EXCEPT ![v].at = "failed"]
                  /\ UNCHANGED <<node, tunnelVars, link>>

\* Faulty variant: wait for a tunnel instead of answering the holding page.
HandleErrorWaits(v) ==
    /\ node # "down" /\ req[v].at = "failed"
    /\ \/ /\ byHost[req[v].host] = None
          /\ req' = [req EXCEPT ![v] = [@ EXCEPT !.at = "transport", !.tun = None]]
       \/ byHost[req[v].host] # None /\ Answer(v, "badgateway")
    /\ UNCHANGED <<node, tunnelVars, link>>

\* handleError: the holding page if the host has no tunnel now, else a 502.
HandleError(v) == /\ node # "down" /\ req[v].at = "failed"
                  /\ \/ byHost[req[v].host] = None /\ Answer(v, "holding")
                     \/ byHost[req[v].host] # None /\ Answer(v, "badgateway")
                  /\ UNCHANGED <<node, tunnelVars, link>>

VisitorStep(v) == \/ RoundTrip(v) \/ Respond(v) \/ HandleError(v)
                  \/ req[v].at = "sent"
                     /\ (link[req[v].tun] = "lost" \/ closed[req[v].tun]) /\ StreamFails(v)

-----------------------------------------------------------------------------
(* The node, and the network.                                              *)

\* SIGTERM: publicSrv.Shutdown takes no new visitor and waits, 10 s at most.
Signal == /\ node \in {"up", "deaf"}
          /\ node' = IF node = "up" THEN "draining" ELSE "stopping"
          /\ UNCHANGED <<tunnelVars, link, req>>

\* cancel(): main returns without waiting for the Serve goroutines.
CancelCtx == /\ node = "draining"
             /\ node' = "stopping"
             /\ UNCHANGED <<tunnelVars, link, req>>

\* The process is gone: main returned, or it crashed.  Its goroutines, its
\* registry and its connections go with it; the Control Plane's rows stay.
ProcessGone == /\ node # "down"
               /\ node' = "down"
               /\ byHost' = [h \in Hosts |-> None]
               /\ serve' = [c \in Conns |-> IF serve[c] = "idle" THEN "idle" ELSE "done"]
               /\ link' = [c \in Conns |-> IF serve[c] = "idle" THEN link[c] ELSE "lost"]
               /\ missed' = [c \in Conns |-> 0]
               /\ closing' = {}
               /\ req' = [v \in Visitors |-> NoRequest]
               /\ UNCHANGED <<host, closed, tid, row>>

\* A new process; when tls.Listen fails it cancels the context and stays.
Restart == /\ node = "down"
           /\ node' \in {"up", "deaf"}
           /\ UNCHANGED <<tunnelVars, link, req>>

\* A link lost before registration shows as a failed step of Serve, or here.
LoseLink(c) == /\ serve[c] \in Registered
               /\ link' = [link EXCEPT ![c] = "lost"]
               /\ UNCHANGED <<node, tunnelVars, req>>

ConnAction(c) ==
    \/ Accept(c) \/ ReadFrame(c) \/ Verify(c) \/ Ack(c) \/ RegSet(c)
    \/ BackgroundClose(c) \/ TunnelStarted(c) \/ PingOk(c) \/ PingMiss(c)
    \/ WatchStops(c) \/ RegDelete(c) \/ CloseTunnel(c) \/ TunnelEnded(c)
    \/ LoseLink(c)
VisitorAction(v) ==
    \/ \E h \in Hosts : Arrive(v, h)
    \/ RoundTrip(v) \/ Respond(v) \/ StreamFails(v) \/ HandleError(v)
NodeAction == Signal \/ CancelCtx \/ ProcessGone \/ Restart

Next == \/ \E c \in Conns : ConnAction(c)
        \/ \E v \in Visitors : VisitorAction(v)
        \/ NodeAction

Spec == Init /\ [][Next]_vars

\* Goroutines and requests that can go on do; pings of a lost link time out.
\* Nothing is assumed of the node's operator, of the sidecars or of the network.
Fairness == /\ \A c \in Conns : WF_vars(ServeStep(c)) /\ WF_vars(BackgroundClose(c))
            /\ \A v \in Visitors : WF_vars(VisitorStep(v))

FairSpec == Spec /\ Fairness

-----------------------------------------------------------------------------
(* Correctness.                                                            *)

\* The registry names only tunnels whose Serve is between Set and Delete, and
\* under their own host: a request is never routed to a connection that has
\* already been cleaned up, or by a connection that was never verified.
RegistrySound ==
    \A h \in Hosts : byHost[h] # None =>
        host[byHost[h]] = h /\ serve[byHost[h]] \in Registered

\* A tunnel that lost its host to a newer one is closed or about to be: no
\* replaced tunnel is left open, watched and unreachable (Registry.Set).
DisplacedIsClosing ==
    \A c \in Conns : serve[c] \in Registered =>
        byHost[host[c]] = c \/ c \in closing \/ closed[c]

\* The Control Plane never records the end of a tunnel that visitors are still
\* routed to, or that is still open (the order of Serve's cleanup).
EndedRowNotServing ==
    \A c \in Conns : row[c] = "ended" => closed[c] /\ \A h \in Hosts : byHost[h] # c

\* A request in flight is on a tunnel that was verified and registered for the
\* request's own host, although the two lookups may find different tunnels.
RequestOnOwnHost ==
    \A v \in Visitors : req[v].at = "sent" =>
        LET c == req[v].tun
        IN  host[c] = req[v].host /\ serve[c] \in Registered \cup {"close", "end", "done"}

\* A host loses its tunnel only to that tunnel's own cleanup, or with the whole
\* node: the late cleanup of a replaced tunnel does not take its successor down
\* ("we'd race with Set during a quick reconnect").
OnlyOwnCleanupUnroutes ==
    [][\A h \in Hosts : byHost[h] # None /\ byHost'[h] = None =>
           serve[byHost[h]] = "delete" \/ node' = "down"]_vars

\* Every session is routed to one host, once, and its record ends after it.
Handshaking == {"idle", "frame", "verify", "ack", "register"}
life == [c \in Conns |-> IF serve[c] \in Handshaking THEN "new"
                         ELSE IF serve[c] \in Registered THEN "up" ELSE "gone"]
Routing == INSTANCE HostRouting
             WITH Sessions <- Conns, route <- byHost, rec <- row
ImplementsRouting == Routing!Spec

\* A tunnel that lost its link, or its host to a newer tunnel, is torn down to
\* the end, the registry entry included: watch gives the link up after MissLimit
\* pings, and sees the Close of a replacement.
BrokenTunnelEnds ==
    \A c \in Conns : serve[c] = "watch" /\ (link[c] = "lost" \/ byHost[host[c]] # c)
                       ~> serve[c] = "done"

\* Every visitor gets an answer once the tunnel that has the request is lost or
\* closed; only a sidecar that is there and silent can keep a request waiting.
VisitorAnswered ==
    \A v \in Visitors :
        req[v].at # "idle" ~> \/ req[v].at = "idle"
                              \/ /\ req[v].at = "sent"
                                 /\ link[req[v].tun] = "up" /\ ~closed[req[v].tun]
==============================================================================
