-------------------------------- MODULE WebData --------------------------------
(***************************************************************************)
(* The pages behind the dashboard's shell: what the query cache of one tab *)
(* shows of the server's rows, a domain, a subdomain of it and the devices.*)
(* A fetch reads the rows at the server and lands later; a mutation is     *)
(* applied at the server, lands later and invalidates the keys named in    *)
(* lib/queries.ts.  The desktop app, the DNS verifier and other tabs change *)
(* the rows at any time; the events about it (Realtime) are shown as toasts *)
(* and do not touch the cache.                                             *)
(* A page has at most one mutation under way.                              *)
(***************************************************************************)
EXTENDS Naturals

CONSTANTS Devices, None, Unknown,
          MaxChanges   \* bound: changes of the rows

ASSUME NoneIsNoDevice == {None, Unknown, "absent"} \intersect Devices = {}
ASSUME MaxChangesIsNat == MaxChanges \in Nat

VARIABLES
    domain,   \* the domain's dns_status; "none" before, "deleted" after its row
    bound,    \* its subdomain: "absent", None (detached) or the device
    devices,  \* the devices that are registered and not revoked
    changes,  \* changes of the rows so far
    page,     \* the page that is mounted
    detail,   \* dns_status in the row the details modal was opened with, "closed" without
    data,     \* [Keys -> values], Unknown before the first fetch
    fetch,    \* [Keys -> fetches]
    invalid,  \* keys that are marked invalidated
    call,     \* the mutation under way
    foreign   \* keys whose rows changed, since they were last read, in a way that
              \* does not invalidate them here, or invalidates them in vain

rows == <<domain, bound, devices, changes>>
view == <<page, detail>>
cache == <<data, fetch, invalid>>
vars == <<rows, view, cache, call, foreign>>

Keys == {"domains", "subdomains", "devices"}
Pages == {"dashboard", "domains", "devices"}
Bindings == Devices \union {"absent", None}
DomainStates == {"none", "pending", "verified", "failed", "deleted"}
HasDomain == domain \notin {"none", "deleted"}
Row(k) == CASE k = "domains" -> IF HasDomain THEN domain ELSE "none"
            [] k = "subdomains" -> bound
            [] k = "devices" -> devices
Values(k) == CASE k = "domains" -> DomainStates
               [] k = "subdomains" -> Bindings
               [] k = "devices" -> SUBSET Devices
Idle == [step |-> "idle"]
Asked == [step |-> "asked"]
Ops == {"create", "delete", "verify", "bind", "unbind", "add", "revoke"}
NoCall == [op |-> "none", dev |-> None, step |-> "idle"]

TypeOK ==
    /\ domain \in DomainStates /\ bound \in Bindings /\ devices \in SUBSET Devices
    /\ (~HasDomain => bound = "absent") /\ (bound \in Devices => bound \in devices)
    /\ changes \in 0..MaxChanges
    /\ page \in Pages /\ detail \in DomainStates \union {"closed"}
    /\ \A k \in Keys : /\ data[k] \in Values(k) \union {Unknown}
                       /\ \/ fetch[k] \in {Idle, Asked}
                          \/ fetch[k].step = "read" /\ fetch[k].row \in Values(k)
    /\ invalid \in SUBSET Keys /\ foreign \in SUBSET Keys
    /\ call \in [op : Ops \union {"none"}, dev : Devices \union {None},
                 step : {"idle", "sent", "ok", "error"}]

Init == /\ domain \in {"none", "verified"} /\ devices = Devices
        /\ bound \in IF domain = "verified" THEN {"absent", None} ELSE {"absent"}
        /\ changes = 0
        /\ page = "dashboard" /\ detail = "closed"
        /\ data = [k \in Keys |-> Unknown] /\ fetch = [k \in Keys |-> Idle]
        /\ invalid = {} /\ foreign = {}
        /\ call = NoCall

-----------------------------------------------------------------------------
(* lib/queries.ts.                                                         *)

\* The queries that a mounted component observes: BoundDevicesCell and
\* BindingsSection ask for the subdomains and the devices of a listed domain.
Observed(p, d) ==
    CASE p = "domains" -> IF d["domains"] \in {"none", Unknown} THEN {"domains"} ELSE Keys
      [] p = "devices" -> {"devices"}
      [] p = "dashboard" -> {}

\* An observer starts a fetch if there is no data, or if it is invalid or stale
\* (staleTime 30 s); due is the set of the keys that are.
Mount(p, d, f, due) ==
    [k \in Keys |-> IF /\ k \in Observed(p, d) /\ f[k] = Idle
                       /\ d[k] = Unknown \/ k \in due
                    THEN Asked ELSE f[k]]

\* A deleted domain's subdomains are a 404, which keeps the data there was.
Read(k) == /\ fetch[k] = Asked
           /\ IF k = "subdomains" /\ ~HasDomain
              THEN /\ fetch' = [fetch EXCEPT ![k] = Idle]
                   /\ foreign' = foreign \union {k}
              ELSE /\ fetch' = [fetch EXCEPT ![k] = [step |-> "read", row |-> Row(k)]]
                   /\ foreign' = foreign \ {k}
           /\ UNCHANGED <<rows, view, data, invalid, call>>

\* The data lands; a domain that is now listed has its subdomains observed.
Land(k) == /\ fetch[k].step = "read"
           /\ data' = [data EXCEPT ![k] = fetch[k].row]
           /\ invalid' = invalid \ {k}
           /\ \E stale \in IF k = "domains" THEN {{}, {"devices"}} ELSE {{}} :
                fetch' = Mount(page, data', [fetch EXCEPT ![k] = Idle], invalid' \union stale)
           /\ UNCHANGED <<rows, view, call, foreign>>

\* Faulty variant: a fetch that is under way is left to go on.
InvalidateIdle(ks) ==
    /\ invalid' = invalid \union ks
    /\ fetch' = [k \in Keys |-> IF k \in ks \intersect Observed(page, data) /\ fetch[k] = Idle
                                THEN Asked ELSE fetch[k]]

\* invalidateQueries fetches the observed keys; it cancels the fetch of one that is under
\* way only if there is data, so that a first fetch goes on, whenever it was read.
Refetched(k) == /\ k \in Observed(page, data)
                /\ fetch[k] = Idle \/ data[k] # Unknown

Invalidate(ks) ==
    /\ invalid' = invalid \union ks
    /\ fetch' = [k \in Keys |-> IF k \in ks /\ Refetched(k) THEN Asked ELSE fetch[k]]

\* The keys a mutation invalidates; ["domains"] is a prefix of the subdomains' key.
Invalidates(op) == IF op \in {"add", "revoke"} THEN {"devices"} ELSE {"domains", "subdomains"}

Mutate(op, dev) == /\ call = NoCall
                   /\ call' = [op |-> op, dev |-> dev, step |-> "sent"]
                   /\ UNCHANGED <<rows, cache, foreign>>

-----------------------------------------------------------------------------
(* The server's rows.                                                      *)

Change == changes < MaxChanges /\ changes' = changes + 1

\* Whether the server can accept the call, and what it does to the rows.
Allowed(op, dev) == CASE op = "create" -> domain = "none"
                      [] op \in {"delete", "verify"} -> HasDomain
                      [] op = "bind" -> bound # "absent" /\ dev \in devices /\ domain = "verified"
                      [] op = "unbind" -> bound # "absent"
                      [] op = "add" -> dev \notin devices
                      [] op = "revoke" -> dev \in devices
Effect(op, dev) ==
    /\ domain' = CASE op = "create" -> "pending" [] op = "delete" -> "deleted"
                    [] OTHER -> domain
    /\ bound' = CASE op = "delete" -> "absent"
                  [] op = "bind" -> dev
                  [] op = "unbind" -> None
                  [] op = "revoke" /\ bound = dev -> None
                  [] OTHER -> bound
    /\ devices' = CASE op = "add" -> devices \union {dev}
                    [] op = "revoke" -> devices \ {dev}
                    [] OTHER -> devices

Differing == {k \in Keys : Row(k)' # Row(k)}

\* The server applies the call of the page, if it may, and its answer may be lost; or it
\* refuses it, or is never reached.
Serve == /\ call.step = "sent"
         /\ \/ /\ Allowed(call.op, call.dev) /\ Change
               /\ Effect(call.op, call.dev)
               /\ \/ /\ call' = [call EXCEPT !.step = "ok"]
                     /\ foreign' = foreign \union (Differing \ Invalidates(call.op))
                  \/ /\ call' = [call EXCEPT !.step = "error"]
                     /\ foreign' = foreign \union Differing
            \/ /\ call' = [call EXCEPT !.step = "error"]
               /\ UNCHANGED <<rows, foreign>>
         /\ UNCHANGED <<view, cache>>

\* Another client: the desktop app binds, unbinds and adds the subdomain, another tab
\* does whatever this one can.
Other == /\ Change
         /\ \/ \E op \in Ops, dev \in Devices :
                 Allowed(op, dev) /\ Effect(op, dev)
            \/ /\ domain = "verified" /\ bound = "absent" /\ bound' = None
               /\ UNCHANGED <<domain, devices>>
         /\ foreign' = foreign \union Differing
         /\ UNCHANGED <<view, cache, call>>

\* The DNS verifier.
Verifier == /\ Change
            /\ domain \in {"pending", "failed"}
            /\ domain' \in {"verified", "failed"} \ {domain}
            /\ UNCHANGED <<bound, devices>>
            /\ foreign' = foreign \union Differing
            /\ UNCHANGED <<view, cache, call>>

-----------------------------------------------------------------------------
(* The pages.                                                              *)

\* A link of the sidebar.
Visit(p) == /\ p # page /\ page' = p /\ detail' = "closed"
            /\ \E stale \in SUBSET Observed(p, data) :
                 fetch' = Mount(p, data, fetch, invalid \union stale)
            /\ UNCHANGED <<rows, data, invalid, call, foreign>>

Listed == page = "domains" /\ data["domains"] \notin {"none", Unknown}

\* The details modal keeps the row it was opened with.
ShowDetails == /\ Listed /\ detail = "closed" /\ detail' = data["domains"]
               /\ UNCHANGED <<rows, page, cache, call, foreign>>
CloseDetails == /\ detail # "closed" /\ detail' = "closed"
                /\ UNCHANGED <<rows, page, cache, call, foreign>>

AddDomain == page = "domains" /\ Mutate("create", None) /\ UNCHANGED view
DeleteDomain == Listed /\ detail = "closed" /\ Mutate("delete", None) /\ UNCHANGED view
VerifyNow == Listed /\ detail # "verified" /\ Mutate("verify", None) /\ UNCHANGED view

\* The select of BindingsSection: detached, or a device of the cached list.
SelectDevice == /\ detail = "verified" /\ data["subdomains"] \notin {"absent", Unknown}
                /\ \/ Mutate("unbind", None)
                   \/ \E dev \in Devices : /\ data["devices"] # Unknown
                                           /\ dev \in data["devices"]
                                           /\ Mutate("bind", dev)
                /\ UNCHANGED view

AddDevice == /\ page = "devices" /\ \E dev \in Devices : Mutate("add", dev)
             /\ UNCHANGED view
RevokeDevice == /\ page = "devices" /\ data["devices"] # Unknown
                /\ \E dev \in data["devices"] : Mutate("revoke", dev)
                /\ UNCHANGED view

\* The mutation lands: onSuccess invalidates, an error is a toast. A created domain
\* has its modal opened. The mark on a key is taken off by the answer to a fetch that
\* has been read before and is not cancelled: a first fetch, or one that nobody observes
\* any more.
MutationDone ==
    /\ call.step \in {"ok", "error"} /\ call' = NoCall
    /\ IF call.step = "ok"
       THEN /\ Invalidate(Invalidates(call.op)) /\ UNCHANGED data
            /\ foreign' = foreign \union {k \in Invalidates(call.op) :
                                             fetch[k].step = "read" /\ ~Refetched(k)}
       ELSE UNCHANGED <<cache, foreign>>
    /\ detail' = IF call.op = "create" /\ call.step = "ok" /\ page = "domains"
                 THEN "pending" ELSE detail
    /\ UNCHANGED <<rows, page>>

-----------------------------------------------------------------------------
Next == \/ \E k \in Keys : Read(k) \/ Land(k)
        \/ Serve \/ Other \/ Verifier
        \/ \E p \in Pages : Visit(p)
        \/ ShowDetails \/ CloseDetails \/ AddDomain \/ DeleteDomain \/ VerifyNow
        \/ SelectDevice \/ AddDevice \/ RevokeDevice \/ MutationDone

Spec == Init /\ [][Next]_vars

-----------------------------------------------------------------------------
\* What an observed query shows, once no fetch of it and no mutation is under way,
\* differs from the server's rows only if somebody else changed them since they were
\* read, or a change of its own did not invalidate it: a revoke, which also unbinds,
\* a lost answer, a mark that an older answer takes off (lib/queries.ts, onSuccess).
StaleOnlyByOthers ==
    \A k \in Observed(page, data) :
        fetch[k] = Idle /\ call = NoCall /\ k \notin foreign
            => data[k] = Row(k)
=============================================================================
