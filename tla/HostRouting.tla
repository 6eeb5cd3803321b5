----------------------------- MODULE HostRouting -----------------------------
(***************************************************************************)
(* What a proxy node promises about routing, with no goroutine, lock or    *)
(* ping in sight.  A session is one sidecar connection.  It is attached to *)
(* at most one host, once; a later session for the same host displaces it; *)
(* a displaced session never gets the host back; and the Control Plane's   *)
(* record of a session is closed only after the session has lost its host. *)
(* ProxyNode implements this specification (ProxyNode!Routing).            *)
(***************************************************************************)
CONSTANTS Sessions, Hosts, None

VARIABLES route,  \* route[h]: the session serving host h, or None
          life,   \* life[s]: "new", then "up", then "gone"
          rec     \* rec[s]: the Control Plane's record: "none", "open", "ended"

vars == <<route, life, rec>>

Init == /\ route = [h \in Hosts |-> None]
        /\ life = [s \in Sessions |-> "new"]
        /\ rec = [s \in Sessions |-> "none"]

\* A new session takes the host, from whoever has it.
Attach(s, h) == /\ life[s] = "new"
                /\ life' = [life EXCEPT ![s] = "up"]
                /\ route' = [route EXCEPT ![h] = s]
                /\ UNCHANGED rec

\* A session ends: it gives up the host it still has, and no other.
Detach(s) == /\ life[s] = "up"
             /\ life' = [life EXCEPT ![s] = "gone"]
             /\ route' = [h \in Hosts |-> IF route[h] = s THEN None ELSE route[h]]
             /\ UNCHANGED rec

\* A session refused before it had a host.
Refuse(s) == /\ life[s] = "new"
             /\ life' = [life EXCEPT ![s] = "gone"]
             /\ UNCHANGED <<route, rec>>

\* The node stops: no host is served, and every session but those that had not
\* yet reached the node is gone.
Reset == /\ \E unseen \in SUBSET {s \in Sessions : life[s] = "new"} :
               life' = [s \in Sessions |-> IF s \in unseen THEN "new" ELSE "gone"]
         /\ route' = [h \in Hosts |-> None]
         /\ UNCHANGED rec

OpenRecord(s) == /\ life[s] = "up" /\ rec[s] = "none"
                 /\ rec' = [rec EXCEPT ![s] = "open"]
                 /\ UNCHANGED <<route, life>>

CloseRecord(s) == /\ life[s] = "gone" /\ rec[s] = "open"
                  /\ rec' = [rec EXCEPT ![s] = "ended"]
                  /\ UNCHANGED <<route, life>>

Next == \/ \E s \in Sessions : \/ \E h \in Hosts : Attach(s, h)
                               \/ Detach(s)
                               \/ Refuse(s)
                               \/ OpenRecord(s)
                               \/ CloseRecord(s)
        \/ Reset

Spec == Init /\ [][Next]_vars
==============================================================================
