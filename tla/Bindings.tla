------------------------------- MODULE Bindings -------------------------------
(***************************************************************************)
(* Which device may serve a host: the subdomain and device rows the API    *)
(* server writes, the live map it keeps beside them in Redis, and the      *)
(* agents that register at the proxy.  API calls run concurrently, so a    *)
(* call is a sequence of steps, one per statement it sends.                *)
(*                                                                         *)
(* A host stands for one (parent domain, prefix) pair of one user.  The    *)
(* proxy appears as a table of one device per host; ProxyNode has its      *)
(* detail.                                                                 *)
(***************************************************************************)
EXTENDS Naturals

CONSTANTS Devices, Hosts,
          Calls,         \* API calls in flight
          Agents,        \* the devices whose agents run
          None, NoRow    \* no device; no subdomain row

ASSUME NoneAndNoRowAreNoDevice == {None, NoRow} \cap Devices = {} /\ None # NoRow
ASSUME NoneIsNoCall == None \notin Calls
ASSUME AgentsAreDevices == Agents \subseteq Devices

VARIABLES
    revoked,   \* devices with a revoked_at
    bound,     \* bound_device_id of the host's subdomain row
    live,      \* Redis: live:<host>
    lock,      \* the Bind transaction that holds the row's lock
    call,      \* the API calls in flight
    gaps,      \* hosts whose row was deleted, whose key a call passed over or failed
               \* to delete, or between whose row and key a call failed
    link,      \* each agent's connection for each host, and what it met
    route      \* the proxy's registry: the device whose connection serves the host

rows == <<revoked, bound, lock>>
proxy == <<link, route>>
vars == <<rows, live, call, gaps, proxy>>

Idle == [op |-> "idle", pc |-> "idle", host |-> None, dev |-> None, orphan |-> FALSE]
Away == [pc |-> "away", late |-> FALSE, entitled |-> FALSE]

\* Past its update and before its commit, a Bind holds the row it has found.
HoldsRow(c, h) == /\ call[c].op = "bind" /\ call[c].pc \in {"set", "commit"}
                  /\ call[c].host = h /\ ~call[c].orphan

TypeOK ==
    /\ revoked \in SUBSET Devices
    /\ bound \in [Hosts -> Devices \cup {None, NoRow}]
    /\ live \in [Hosts -> Devices \cup {None}]
    /\ lock \in [Hosts -> Calls \cup {None}]
    /\ \A h \in Hosts : lock[h] # None => HoldsRow(lock[h], h)
    /\ call \in [Calls -> [op : {"idle", "bind", "unbind", "delete", "revoke"},
                           pc : {"idle", "device", "update", "set", "commit", "key", "drop", "mark", "unbind"},
                           host : Hosts \cup {None}, dev : Devices \cup {None}, orphan : BOOLEAN]]
    /\ gaps \in SUBSET Hosts
    /\ link \in [Agents -> [Hosts -> [pc : {"away", "frame", "known", "verified", "serving", "closing"},
                                      late : BOOLEAN, entitled : BOOLEAN]]]
    /\ route \in [Hosts -> Agents \cup {None}]

Init == /\ revoked = {}
        /\ bound = [h \in Hosts |-> NoRow]
        /\ live = [h \in Hosts |-> None]
        /\ lock = [h \in Hosts |-> None]
        /\ call = [c \in Calls |-> Idle]
        /\ gaps = {}
        /\ link = [a \in Agents |-> [h \in Hosts |-> Away]]
        /\ route = [h \in Hosts |-> None]

-----------------------------------------------------------------------------
(* The API calls.                                                          *)

HasRow(h) == bound[h] # NoRow
Begin(c, op, pc, h, d) ==
    /\ call[c] = Idle
    /\ call' = [call EXCEPT ![c] = [op |-> op, pc |-> pc, host |-> h, dev |-> d, orphan |-> FALSE]]
At(c, op, pc) == call[c].op = op /\ call[c].pc = pc
GoTo(c, pc) == call' = [call EXCEPT ![c].pc = pc]
Return(c) == call' = [call EXCEPT ![c] = Idle]

\* A statement on a row waits for the transaction that has locked it.
Unlocked(h) == lock[h] = None

\* The calls other than c that have read the row of h by its id lose it.
Orphans(c, h) == [x \in Calls |->
                    IF x = c THEN Idle
                    ELSE [call[x] EXCEPT !.orphan = @ \/ call[x].host = h]]

\* A connection of d for h that is up has now met a binding that entitles it.
Meets(h, d) == [a \in Agents |->
                  IF a = d /\ link[a][h].pc # "away"
                  THEN [link[a] EXCEPT ![h].entitled = TRUE] ELSE link[a]]

\* subdomains Create: the row is made, or is there already.
CreateRow(h) == /\ ~HasRow(h)
                /\ bound' = [bound EXCEPT ![h] = None]
                /\ UNCHANGED <<revoked, lock, live, call, gaps, proxy>>

\* Bind: getOwned, ...
BeginBind(c, h, d) == /\ HasRow(h)
                      /\ Begin(c, "bind", "device", h, d)
                      /\ UNCHANGED <<rows, live, gaps, proxy>>

\* ... the device must not be revoked (nor be offline), ...
BindDevice(c) == /\ At(c, "bind", "device")
                 /\ \/ call[c].dev \notin revoked /\ GoTo(c, "update")
                    \/ Return(c)
                 /\ UNCHANGED <<rows, live, gaps, proxy>>

\* Faulty variant: the row is updated outside a transaction.
BindUpdateNoTx(c) == /\ At(c, "bind", "update")
                     /\ GoTo(c, "set")
                     /\ IF call[c].orphan THEN UNCHANGED <<bound, link>>
                        ELSE /\ bound' = [bound EXCEPT ![call[c].host] = call[c].dev]
                             /\ link' = Meets(call[c].host, call[c].dev)
                     /\ UNCHANGED <<revoked, lock, live, gaps, route>>

\* ... the transaction updates the row by its id and so locks it, ...
BindUpdate(c) == /\ At(c, "bind", "update")
                 /\ GoTo(c, "set")
                 /\ IF call[c].orphan THEN UNCHANGED lock
                    ELSE /\ Unlocked(call[c].host)
                         /\ lock' = [lock EXCEPT ![call[c].host] = c]
                 /\ UNCHANGED <<revoked, bound, live, gaps, proxy>>

Unlock(c) == lock' = [h \in Hosts |-> IF lock[h] = c THEN None ELSE lock[h]]

\* Redis: a server that could not reach it when it started has no client for as long as it
\* runs and passes the keys over.  Any call may be such a server's: keys outlive servers.
SetKey(h, d) == live' = [live EXCEPT ![h] = d]
PassOver(h) == /\ gaps' = IF live[h] = None THEN gaps ELSE gaps \cup {h}
               /\ UNCHANGED live

\* The key is set, or passed over; ...
BindSetOrPass(h, d) == \/ SetKey(h, d) /\ UNCHANGED gaps
                       \/ PassOver(h)

\* ... or Set answers with an error, whether or not it has set the key.
BindSetFails(h, d) == \/ UNCHANGED <<live, gaps>>
                      \/ SetKey(h, d) /\ gaps' = gaps \cup {h}

\* Faulty variant: the transaction is left open when Redis fails.
BindSetKeepsLock(c) == /\ At(c, "bind", "set")
                       /\ \/ BindSetOrPass(call[c].host, call[c].dev) /\ GoTo(c, "commit")
                          \/ BindSetFails(call[c].host, call[c].dev) /\ Return(c)
                       /\ UNCHANGED <<rows, proxy>>

\* ... sets the live key, or rolls back when Redis fails, ...
BindSet(c) == /\ At(c, "bind", "set")
              /\ \/ BindSetOrPass(call[c].host, call[c].dev) /\ GoTo(c, "commit") /\ UNCHANGED lock
                 \/ BindSetFails(call[c].host, call[c].dev) /\ Unlock(c) /\ Return(c)
              /\ UNCHANGED <<revoked, bound, proxy>>

\* ... and commits.
BindCommit(c) == /\ At(c, "bind", "commit")
                 /\ IF call[c].orphan THEN UNCHANGED <<bound, link>>
                    ELSE /\ bound' = [bound EXCEPT ![call[c].host] = call[c].dev]
                         /\ link' = Meets(call[c].host, call[c].dev)
                 /\ Unlock(c)
                 /\ Return(c)
                 /\ UNCHANGED <<revoked, live, gaps, route>>

BeginUnbind(c, h) == /\ HasRow(h)
                     /\ Begin(c, "unbind", "update", h, None)
                     /\ UNCHANGED <<rows, live, gaps, proxy>>

UnbindUpdate(c) == /\ At(c, "unbind", "update")
                   /\ GoTo(c, "key")
                   /\ IF call[c].orphan THEN UNCHANGED bound
                      ELSE /\ Unlocked(call[c].host)
                           /\ bound' = [bound EXCEPT ![call[c].host] = None]
                   /\ UNCHANGED <<revoked, lock, live, gaps, proxy>>

\* rdb.Del, passed over or with its error dropped.
DelKey(h) == \/ SetKey(h, None) /\ UNCHANGED gaps
             \/ PassOver(h)

UnbindKey(c) == /\ At(c, "unbind", "key")
                /\ DelKey(call[c].host)
                /\ Return(c)
                /\ UNCHANGED <<rows, proxy>>

\* subdomains Delete clears the key if the row it has read was bound.
BeginDelete(c, h) == /\ HasRow(h)
                     /\ Begin(c, "delete", IF bound[h] = None THEN "drop" ELSE "key", h, None)
                     /\ UNCHANGED <<rows, live, gaps, proxy>>

DeleteKey(c) == /\ At(c, "delete", "key")
                /\ DelKey(call[c].host)
                /\ GoTo(c, "drop")
                /\ UNCHANGED <<rows, proxy>>

DeleteRow(c) == /\ At(c, "delete", "drop")
                /\ LET h == call[c].host IN
                   IF call[c].orphan
                   THEN Return(c) /\ UNCHANGED <<bound, gaps>>
                   ELSE /\ Unlocked(h)
                        /\ bound' = [bound EXCEPT ![h] = NoRow]
                        /\ call' = Orphans(c, h)
                        /\ gaps' = gaps \cup {h}
                /\ UNCHANGED <<revoked, lock, live, proxy>>

\* domains Delete: the cascade drops the row and looks at no key.
CascadeDelete(h) == /\ HasRow(h) /\ Unlocked(h)
                    /\ bound' = [bound EXCEPT ![h] = NoRow]
                    /\ call' = Orphans(None, h)
                    /\ gaps' = gaps \cup {h}
                    /\ UNCHANGED <<revoked, lock, live, proxy>>

\* devices Revoke: Get, then revoked_at, then the rows of the device.
BeginRevoke(c, d) == /\ d \notin revoked
                     /\ Begin(c, "revoke", "mark", None, d)
                     /\ UNCHANGED <<rows, live, gaps, proxy>>

RevokeMark(c) == /\ At(c, "revoke", "mark")
                 /\ revoked' = revoked \cup {call[c].dev}
                 /\ GoTo(c, "unbind")
                 /\ UNCHANGED <<bound, lock, live, gaps, proxy>>

RevokeRows(c) == /\ At(c, "revoke", "unbind")
                 /\ \A h \in Hosts : bound[h] = call[c].dev => Unlocked(h)
                 /\ bound' = [h \in Hosts |-> IF bound[h] = call[c].dev THEN None ELSE bound[h]]
                 /\ Return(c)
                 /\ UNCHANGED <<revoked, lock, live, gaps, proxy>>

\* A statement fails, or the server stops: an open transaction is rolled back, and
\* what is done outside it stays done, the live key included.
CallFails(c) == /\ call[c] # Idle
                /\ gaps' = IF At(c, "bind", "commit") \/ At(c, "unbind", "key")
                           THEN gaps \cup {call[c].host} ELSE gaps
                /\ Unlock(c)
                /\ Return(c)
                /\ UNCHANGED <<revoked, bound, live, proxy>>

-----------------------------------------------------------------------------
(* The agents at the proxy.                                                *)

Move(a, h, from, to) == /\ link[a][h].pc = from
                        /\ link' = [link EXCEPT ![a][h].pc = to]
Lose(a, h) == link' = [link EXCEPT ![a][h] = Away]

\* runOnce dials and sends its register frame; Run tries again without end.
Dial(a, h) == /\ link[a][h].pc = "away"
              /\ link' = [link EXCEPT ![a][h] =
                            [pc |-> "frame", late |-> a \in revoked, entitled |-> bound[h] = a]]
              /\ UNCHANGED <<rows, live, call, gaps, route>>

\* Faulty variant: revoked_at is not looked at.
VerifyKeyOnly(a, h) == /\ Move(a, h, "frame", "known")
                       /\ UNCHANGED <<rows, live, call, gaps, route>>

\* VerifyDevice: the device of this API key, unless it is revoked, ...
VerifyKey(a, h) == /\ IF a \in revoked THEN link[a][h].pc = "frame" /\ Lose(a, h)
                                       ELSE Move(a, h, "frame", "known")
                   /\ UNCHANGED <<rows, live, call, gaps, route>>

\* ... and the binding of the host in a query of its own.
VerifyHost(a, h) == /\ IF bound[h] = a THEN Move(a, h, "known", "verified")
                                       ELSE link[a][h].pc = "known" /\ Lose(a, h)
                    /\ UNCHANGED <<rows, live, call, gaps, route>>

\* Faulty variant: the connection that came first is kept, the other closed.
RegisterFirst(a, h) == /\ IF route[h] \in Agents
                          THEN Move(a, h, "verified", "closing") /\ UNCHANGED route
                          ELSE /\ Move(a, h, "verified", "serving")
                               /\ route' = [route EXCEPT ![h] = a]
                       /\ UNCHANGED <<rows, live, call, gaps>>

\* Registry.Set: the host's previous connection is displaced and will be closed.
Register(a, h) == /\ link[a][h].pc = "verified"
                  /\ link' = [x \in Agents |->
                                [link[x] EXCEPT ![h].pc = CASE x = a -> "serving"
                                                            [] x # a /\ x = route[h] -> "closing"
                                                            [] OTHER -> @]]
                  /\ route' = [route EXCEPT ![h] = a]
                  /\ UNCHANGED <<rows, live, call, gaps>>

CloseDisplaced(a, h) == /\ link[a][h].pc = "closing"
                        /\ Lose(a, h)
                        /\ UNCHANGED <<rows, live, call, gaps, route>>

\* The connection breaks; Registry.Delete unroutes only what is this connection's.
LinkLost(a, h) == /\ link[a][h].pc # "away"
                  /\ Lose(a, h)
                  /\ route' = [route EXCEPT ![h] = IF @ = a THEN None ELSE @]
                  /\ UNCHANGED <<rows, live, call, gaps>>

CallStep(c) == \/ \E h \in Hosts : BeginUnbind(c, h) \/ BeginDelete(c, h)
               \/ \E h \in Hosts, d \in Devices : BeginBind(c, h, d)
               \/ \E d \in Devices : BeginRevoke(c, d)
               \/ BindDevice(c) \/ BindUpdate(c) \/ BindSet(c) \/ BindCommit(c)
               \/ UnbindUpdate(c) \/ UnbindKey(c)
               \/ DeleteKey(c) \/ DeleteRow(c)
               \/ RevokeMark(c) \/ RevokeRows(c) \/ CallFails(c)

AgentStep(a, h) == \/ Dial(a, h) \/ VerifyKey(a, h) \/ VerifyHost(a, h)
                   \/ Register(a, h) \/ CloseDisplaced(a, h)

Next == \/ \E c \in Calls : CallStep(c)
        \/ \E h \in Hosts : CreateRow(h) \/ CascadeDelete(h)
        \/ \E a \in Agents, h \in Hosts : AgentStep(a, h) \/ LinkLost(a, h)

Spec == Init /\ [][Next]_vars

\* Agents retry for ever and the proxy finishes what it has accepted; nobody has to
\* call the API, and a call may be slow for ever.
FairSpec == Spec /\ \A a \in Agents, h \in Hosts : WF_vars(AgentStep(a, h))

-----------------------------------------------------------------------------
(* Correctness.                                                            *)

\* A device that serves a host was not revoked when it dialled, and its binding of
\* the host held at some time since, however calls and registrations interleave.
RouteWasEntitled ==
    \A h \in Hosts : route[h] # None =>
        LET l == link[route[h]][h] IN l.pc = "serving" /\ l.entitled /\ ~l.late

\* Bind writes the live key inside the transaction that locks the row, so the key is of
\* the Bind that committed last, however Binds and Unbinds overlap: once no call is in
\* flight a key names the bound device, but for a revoked one and for the hosts in gaps,
\* among them those whose key a server without Redis has passed over.
Quiet == \A c \in Calls : call[c] = Idle
LiveKeyIsLastBind ==
    Quiet => \A h \in Hosts \ gaps : live[h] \in {None, bound[h]} \cup revoked

\* When a binding settles and its device's connection holds, the device ends up
\* serving the host, whoever served it before or was verified meanwhile.  (Closing a
\* displaced connection is no loss: the proxy does it.)
Settled(a, h) == bound[h] = a /\ a \notin revoked
BoundDeviceServes ==
    \A a \in Agents, h \in Hosts :
        /\ <>[]Settled(a, h)
        /\ <>[][link[a][h].pc # "closing" => ~LinkLost(a, h)]_vars
        => <>[](route[h] = a)

\* devices/service.go:136: "Revoke disables a device + nukes its bindings": once no
\* Revoke of it is under way, a revoked device is not bound to a host any more.
RevokeNukesBindings ==
    [][\A h \in Hosts, d \in revoked :
           bound[h] # d /\ bound'[h] = d =>
               \E c \in Calls : call[c].op = "revoke" /\ call[c].dev = d]_vars
==============================================================================
