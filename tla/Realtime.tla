------------------------------- MODULE Realtime -------------------------------
(***************************************************************************)
(* The dashboard's WebSocket (lib/websocket.ts) and the hub at its other   *)
(* end.  A tab keeps one global `socket', the one created last, but the    *)
(* events of an earlier one, close and error, still arrive and act on the  *)
(* global; the hub learns later that a client is gone.                     *)
(***************************************************************************)
EXTENDS Naturals, Sequences

CONSTANTS MaxSockets,   \* bound: sockets a tab creates
          MaxEvents,    \* bound: events the server publishes
          Capacity      \* capacity of a client's channel, 64 in the code

ASSUME RealtimeBounds == {MaxSockets, MaxEvents, Capacity} \subseteq Nat

VARIABLES
    listening,   \* the dashboard page is mounted
    opened,      \* sockets created; the last one is `socket'
    ready,       \* readyState of each
    timer,       \* reconnectTimer is set
    registered,  \* sockets whose client is in the hub
    out,         \* the channel of each client, with the messages on the way
    published,   \* events published so far
    seen         \* events the listeners were called with

socketVars == <<listening, opened, ready, timer>>
hubVars == <<registered, out, published>>
realtimeVars == <<socketVars, hubVars, seen>>

Sockets == 1..MaxSockets
Live == {"connecting", "open"}

RealtimeTypeOK ==
    /\ listening \in BOOLEAN /\ opened \in 0..MaxSockets
    /\ ready \in [Sockets -> Live \union {"none", "closing", "closed"}]
    /\ \A s \in Sockets : ready[s] = "none" <=> s > opened
    /\ timer \in BOOLEAN
    /\ registered \in SUBSET (1..opened)
    /\ out \in [Sockets -> Seq(1..published)]
    /\ \A s \in Sockets : Len(out[s]) <= Capacity
    /\ published \in 0..MaxEvents
    /\ seen \in Seq(1..published)

RealtimeInit ==
    /\ listening = FALSE /\ opened = 0 /\ ready = [s \in Sockets |-> "none"] /\ timer = FALSE
    /\ registered = {} /\ out = [s \in Sockets |-> <<>>] /\ published = 0
    /\ seen = <<>>

-----------------------------------------------------------------------------
(* lib/websocket.ts.                                                       *)

\* Faulty variant: a socket that is still connecting is not taken for one.
EnsureSocketOpen ==
    IF opened > 0 /\ ready[opened] = "open"
    THEN UNCHANGED <<opened, ready>>
    ELSE /\ opened < MaxSockets /\ opened' = opened + 1
         /\ ready' = [ready EXCEPT ![opened + 1] = "connecting"]

EnsureSocket ==
    IF opened > 0 /\ ready[opened] \in Live
    THEN UNCHANGED <<opened, ready>>
    ELSE /\ opened < MaxSockets /\ opened' = opened + 1
         /\ ready' = [ready EXCEPT ![opened + 1] = "connecting"]

\* useRealtime, when the component mounts; it never closes the socket.
UseRealtime == /\ ~listening /\ listening' = TRUE
               /\ EnsureSocket
               /\ UNCHANGED <<timer, hubVars, seen>>
Unmount == /\ listening /\ listening' = FALSE
           /\ UNCHANGED <<opened, ready, timer, hubVars, seen>>

\* scheduleReconnect's timer goes off.
Reconnect == /\ timer /\ timer' = FALSE
             /\ EnsureSocket
             /\ UNCHANGED <<listening, hubVars, seen>>

\* Faulty variant: the error handler is trusted to have seen to it.
CloseEventUnlessError(s, error) ==
    /\ ready' = [ready EXCEPT ![s] = "closed",
                              ![opened] = IF error /\ opened # s /\ @ \in Live THEN "closing"
                                          ELSE IF opened = s THEN "closed" ELSE @]
    /\ timer' = (timer \/ ~error)

\* The close event of a socket, after its error event if it was not a clean close:
\* onerror closes whatever is the global socket by now, onclose arms the timer.
CloseEvent(s, error) ==
    /\ ready' = [ready EXCEPT ![s] = "closed",
                              ![opened] = IF error /\ opened # s /\ @ \in Live THEN "closing"
                                          ELSE IF opened = s THEN "closed" ELSE @]
    /\ timer' = TRUE

Closes(s, error) ==
    /\ ready[s] = "closing" \/ (ready[s] = "connecting" /\ error)
    /\ CloseEvent(s, error)
    /\ UNCHANGED <<listening, opened, hubVars, seen>>

\* onmessage: every listener gets the event, if the dashboard page is mounted.
OnMessage(s) ==
    /\ out[s] # <<>>
    /\ out' = [out EXCEPT ![s] = Tail(@)]
    /\ seen' = IF ready[s] = "open" /\ listening THEN Append(seen, Head(out[s])) ELSE seen
    /\ UNCHANGED <<socketVars, registered, published>>

-----------------------------------------------------------------------------
(* The hub, and the network.                                               *)

Upgrade(s) == /\ ready[s] = "connecting" /\ s \notin registered
              /\ ready' = [ready EXCEPT ![s] = "open"]
              /\ registered' = registered \union {s}
              /\ UNCHANGED <<listening, opened, timer, out, published, seen>>

\* The server ends, or the connection fails under an open socket.
Lose(s) == /\ ready[s] = "open" /\ ready' = [ready EXCEPT ![s] = "closing"]
           /\ UNCHANGED <<listening, opened, timer, hubVars, seen>>

\* readPump returns: the missing pong, or the closed connection, was noticed.
Unregister(s) == /\ s \in registered /\ ready[s] # "open"
                 /\ registered' = registered \ {s}
                 /\ UNCHANGED <<socketVars, out, published, seen>>

\* Faulty variant: the channel takes everything.
PublishToAll == /\ published < MaxEvents /\ published' = published + 1
                /\ out' = [s \in Sockets |-> IF s \in registered
                                             THEN Append(out[s], published') ELSE out[s]]
                /\ UNCHANGED <<socketVars, registered, seen>>

\* PublishTo never waits for a slow client: its event is dropped.
PublishTo == /\ published < MaxEvents /\ published' = published + 1
             /\ out' = [s \in Sockets |-> IF s \in registered /\ Len(out[s]) < Capacity
                                          THEN Append(out[s], published') ELSE out[s]]
             /\ UNCHANGED <<socketVars, registered, seen>>

RealtimeNext ==
    \/ UseRealtime \/ Unmount \/ Reconnect \/ PublishTo
    \/ \E s \in Sockets : \/ Upgrade(s) \/ Lose(s) \/ Unregister(s) \/ OnMessage(s)
                          \/ \E error \in BOOLEAN : Closes(s, error)

RealtimeSpec == RealtimeInit /\ [][RealtimeNext]_realtimeVars

-----------------------------------------------------------------------------
\* The dashboard is told of an event at most once and of a later one never before an
\* earlier one, over drops, reconnects and sockets that end late (ensureSocket).
EventsInOrder == \A i, j \in DOMAIN seen : i < j => seen[i] < seen[j]

\* A tab whose socket is closed has a reconnect scheduled, whichever socket's events
\* came in which order: it is never left without both (onclose, scheduleReconnect).
ReconnectArmed == opened > 0 /\ ready[opened] = "closed" => timer
=============================================================================
