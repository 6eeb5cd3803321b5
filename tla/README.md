# A verification project for osmRouter

osmRouter gives a program on a user's machine a public host name. A desktop app runs
one *agent* per host; the agent dials out to a *proxy node* and keeps a tunnel open;
visitors' requests reach the proxy node and travel down the tunnel. A *control plane*
keeps the accounts, domains, subdomains and devices, and tells the proxy node who may
serve which host. A *web dashboard* shows and edits what the control plane keeps.

This directory holds TLA+ modules translated from the source, TLC configurations that
check them on small instances, and TLAPS proofs that hold for every instance.
`PROJECT.json` maps each definition to the lines it models, lists the runs, a mutant
for every property, the findings, the hazards and the theorems.

## 1. The system

### 1.1 Components

| Component | Source | State | Operations | Modelled in |
|---|---|---|---|---|
| Tunnel registry | `proxy-node/internal/registry` | host -> tunnel, each tunnel's `closed` | `Set`, `Get`, `Delete`, `Close`, `Healthcheck` | `ProxyNode`, `HostRouting` |
| Tunnel handler | `proxy-node/internal/tunnels`, `framing` | one goroutine per connection, missed pings | `Serve`, `watch` | `ProxyNode` |
| Visitor forwarding | `proxy-node/internal/forward` | requests in flight | `ServeHTTP`, `RoundTrip`, `handleError` | `ProxyNode` |
| Proxy process, control-plane client | `cmd/proxy/main.go`, `internal/ingest` | context, drain | accept, shutdown, `Verify`, `TunnelStarted`, `TunnelEnded` | `ProxyNode` |
| Subdomains | `server/internal/subdomains` | `subdomains` rows, `live:<host>` keys in Redis | `Create`, `Bind`, `Unbind`, `Delete` | `Bindings`, `HostNames`, `WebData` |
| Devices | `server/internal/devices` | `devices` rows | `Revoke`, `Create` (modelled), `Heartbeat`, `SweepOffline` (not) | `Bindings`, `WebData` |
| Proxy ingest | `server/internal/proxyingest` | `tunnels` rows | `VerifyDevice`, `TunnelStart`, `TunnelEnd` | `Bindings`, `HostRouting`, `HostNames` |
| Accounts | `server/internal/auth` | `users`, `email_otps`, `refresh_tokens` rows | `Register`, `VerifyOTP`, `Login`, `Refresh`, `Logout`, `ForgotPassword`, `ResetPassword` | `Accounts`, `WebSession` |
| Domains and verifier | `server/internal/domains` | `domains` rows; queue, signal channel, one goroutine | `Create`, `Delete`, `Verify`, `Enqueue`, `Run`, `sweep`, `verifyOne` | `DomainVerifier`, `HostNames`, `WebData` |
| Plans and administration | `server/internal/admin`, `platform/db/migrate.go` | `plans` rows | `Plans`, `UpdatePlan` (modelled), limits at creation, `SeedPlans`, impersonation (not) | `PlanEditor` |
| WebSocket hub | `server/internal/platform/ws` | clients per user, a bounded channel each | `Register`, `Unregister`, `PublishTo`, the pumps | `Realtime` |
| Rate limiter | `server/internal/platform/ratelimit` | a bucket per key | `Allow` | not modelled |
| Sidecar manager | `mac-app/apps/desktop/main/sidecar/manager.ts` | Map of children, crash times, diagnostic mode, timers | `startTunnel`, `stopTunnel`, `stop`, watchdog, exit handling | `SidecarManager` |
| Sign-in and keychain | `main/auth`, `main/keychain` | pending flow, current user, slots, file | `begin`, `handleCallback`, `signInWithKey`, `signOut`, `setToken`, `deleteToken`, `load`, `save` | `DesktopAuth` |
| Desktop wiring, cloud client, network machine | `main/index.ts`, `main/ipc`, `main/cloud`, `main/net` | quitting, power events, IPC calls in flight | list, create, bind, unbind, suspend, resume, quit | `DesktopClient`, `SidecarManager`, `DesktopAuth` |
| Renderer | `apps/desktop/renderer` | mounted tab, rows shown, busy rows, modal | the Services and Domains tabs, sign-in | `DesktopClient` |
| Agent | `mac-app/apps/sidecar` | attempt counter, one connection | `Run`, `runOnce`, `forwardLocal` | as a peer in `Bindings` and `ProxyNode`; its own module is planned |
| Web dashboard | `web/app`, `web/lib`, `web/components` | cookies, CSRF token, query cache, one socket, forms | load, sign in and out, the mutations of `lib/queries.ts`, reconnect, plan editor, DNS guide | `WebSession`, `WebData`, `Realtime`, `PlanEditor`, `HostNames` |
| Docs, deployment, `To Upload V2` | | | | not modelled: text, configuration, a second copy of some files |

### 1.2 How they interact

* The agent sends one register frame over TLS; the proxy node's `Serve` asks the
  control plane (`POST verify-device`), acknowledges, turns the connection into an
  HTTP/2 client connection, registers it (`Registry.Set`) and watches it by pings.
* A visitor's request looks the host up in the registry twice, once in `ServeHTTP`
  and once in the transport.
* `Set` closes the tunnel it displaces in a goroutine of its own; that tunnel's
  handler then wakes up and cleans up, at any later time.
* API calls run concurrently over one PostgreSQL database. Each is a sequence of
  statements; `Bind` alone uses a transaction, and writes Redis inside it.
* A host name is a prefix and a domain joined. It is the key of the live map, the
  agent's claim and the visitor's address, and the control plane takes it apart again in
  two different ways.
* The verifier is one goroutine fed by `Enqueue` (append under a mutex, then a
  non-blocking send on a channel of capacity one) and by a ticker.
* The desktop's main process is one event loop: callbacks do not overlap, but every
  `await` lets others run. Children exit, hang and send heartbeats on their own.
* A tab of the desktop app fetches the account's rows through IPC, one cloud call after
  another; a bind is create, bind, start of the sidecar, an unbind is stop, unbind.
* The tabs of a browser share the cookies, not the memory: each has its own CSRF token,
  query cache and socket. The rows change under the cache by other tabs, the desktop app
  and the verifier; the hub's events are shown as toasts and refresh nothing.

### 1.3 What is hard, and what makes each part correct

`PROJECT.json` lists every hazard at its line. In short:

* **proxy node** - a new tunnel displaces an old one while the old one is pinged, used
  and cleaned up. Correct: the registry never routes to a tunnel that is not its
  host's or whose handler has finished; a late cleanup never unroutes its successor; a
  displaced tunnel is closed; a broken one is torn down and its visitor answered.
* **bindings** - the row in PostgreSQL and the key in Redis are written by interleaved
  calls; the answer to a verification is used later. Correct: the key is the one of
  the Bind that committed last, unless Redis failed or the server ran without it; whoever
  serves was entitled to since it dialled; a settled binding is served in the end; a
  revoked device is bound to nothing.
* **host names** - rows of different domains may join to one name, and a name splits in
  several ways. Correct: two rows share a host only if one domain lies under the
  other; whoever completes the guide in the domain's zone gets it verified and its hosts
  led to the proxy, whatever records the owners of nested domains add.
* **accounts** - a check and the write it justifies are separate statements. Correct:
  a code lets one call through; a token is exchanged twice only by calls that overlap.
* **verifier** - a wake-up between the check of the queue and the wait, a restart that
  loses the queue or leaves a row half-way, a sweep that takes only some of the rows.
  Correct: no queued id is forgotten, a verified domain stays so; a record that stays
  published gets its domain verified by the sweeps before the attempts run out, unless a
  lapse left the row 'verifying', and by the owner's asking in any case.
* **sidecar manager** - entries are keyed by domain while processes come and go.
  Correct: an entry is a process that has not been reaped; a hung child is killed;
  quitting comes to an end.
* **sign-in and keychain** - a sign-in or a sign-out is a row of awaited writes, each of
  them three file operations, between which the app may end or other handlers and deep
  links run. Correct: a flow whose callback has ended is never exchanged again, and a
  pending one is lost only to a newer one, its own callback or the end of an older one's;
  an operation that runs alone leaves a whole file at any crash, and one user's session
  in it.
* **desktop client** - binds and unbinds of several tabs overlap, any step may fail, and
  fetches land in any order, while sidecars crash, outlive their stop or are restarted
  after it. Correct: a sidecar forwards only for a row bound to this device and port,
  unless the row's last stop left it behind; what is on screen is the cloud's; a bind from
  the Domains tab takes no row from another device unseen (the Services tab does, see
  section 5).
* **browser session** - tabs rotate a cookie under each other, an account is being
  fetched while it is signed out. Correct: who fetched the token last can use it; an
  account that was signed out does not come back on screen.
* **query cache, socket, forms** - a fetch sent before a mutation lands after it; events
  of an old socket come while a new one connects; a form is re-seeded under the user's
  hands. Correct: stale rows have a cause outside the tab, or one of the named ones in it;
  events come in order and once; a closed socket is reconnected; a field nobody touched is
  what its row shows.

## 2. Modules

Each module models whole handlers, with one action per stretch of code that nothing
can interleave with: a statement sent to a database, a section under a lock, a step
between two `await`s, the sending of a fetch, its landing, and its continuation.

| Module | Models | State <-> code |
|---|---|---|
| `HostRouting` | what the proxy node promises: `route[h]`, the session that serves a host, `life[s]` and `rec[s]`, the control plane's record of it | abstract |
| `ProxyNode` | registry, `Serve`, `watch`, forwarding, shutdown and restart | a connection `c` is one `Serve` goroutine: `serve[c]` is its place in the code, `host[c]` and `tid[c]` its locals, `missed[c]` the counter of `watch`, `closed[c]` its tunnel's channel, `closing` the `go prev.Close()` not yet run; `byHost` is the registry, `row[c]` the control plane's tunnel row, `req` the visitors' requests, `link[c]` whether the network still carries the connection, `node` the process |
| `Bindings` | subdomain and device rows, Redis keys, concurrent calls, agents registering | `bound[h]` is `bound_device_id`, `live[h]` the key `live:<host>`, `lock[h]` PostgreSQL's row lock, `call[c]` a call in flight, `link`/`route` the proxy's side; `gaps` is bookkeeping: hosts whose row was deleted, or whose key a failed call, or one of a server that has no Redis client (`cmd/api/main.go:49-52`), did not write. Any call may be such a server's, as keys outlive servers, and a `Set` that fails may or may not have been applied |
| `HostNames` | names joined (`hostnameOf`, `liveMapKey`), split (`hostBoundToDevice`, `splitHost`), validated, guided and verified | a name is the sequence of its labels; `registered` and `verified` are the domain rows, `subs` the subdomain rows as <<prefix, domain>>, `records` the DNS as <<name, data>>: owners add and remove one record at a time, of the guide or of the older CNAME one, in any zone the domain lies in, or the token at the apex. `Resolves` follows the DNS: a name that exists hides the wildcard above it, a CNAME stands alone |
| `MCBindingHosts` | `Bindings` and, beside it, `HostNames`, which says when one host is one row; they share no state and are explored one at a time (`part`) | |
| `Accounts` | codes, refresh tokens, sign-up, log-in, rotation, reset | `code[c]` an `email_otps` row, `token[t]` a `refresh_tokens` row, `call[x]` a call with the row it has read |
| `DomainVerifier` | domain rows, queue, signal, `Run`, `sweep`, `verifyOne`, DNS | `status` and `attempts` are columns of the row, `older` orders the rows by `verification_attempted_at`, of which `Sweep` takes the oldest `Limit`, `queue` and `signal` the verifier's fields, `pc`, `batch` and `current` its goroutine, `handler[d]` an API handler inside `Enqueue`, `published` what DNS answers |
| `SidecarManager` | the Map of children, processes, timers, watchdog, stops, quit | `children` is the Map, `fresh` the crash times still in the window, `diagnostic` the set of that name, `watchdog` whether the interval is set, `stops` what `stopTunnel` awaits, `timers` the pending restarts; `proc[p]`, `of[p]`, `hung[p]` and `sig[p]` are the operating system's process and `child.killed` |
| `DesktopAuth` | `AuthFlow`, the safeStorage keychain with its file, the sign-in, sign-out and tunnel-start handlers | `pending` and `current` are the fields of `AuthFlow`, `cache` that of the store, `file` and `tmp` what `credentials.enc` and its `.tmp` hold, `ops[o]` a handler in flight with the slots it has left, the snapshot it writes and where its descriptor's file is by now, `tunnels` whose token the running sidecars have; `spent` (flows whose callback has ended or did not match), `alone` and `broken` are history. `LinkRefused` is the links that throw before the exchange and leave the flow pending |
| `DesktopClient` | the Services and Domains tabs, the IPC handlers, `cloud/api.ts`, sidecars as they are asked for, network state, quit | `cloud` is who a row is bound to and to which port, `proc[p]` a sidecar's process with the row and the port it forwards for, `children` the manager's Map, `timers[r]` the restarts that are due, `suspended` the sidecars a suspend's `stop()` awaits, `net` the state machine, `ui` the renderer's state (tab, rows shown, busy, modal), `calls[c]` an IPC call with its place in the chain of awaits, `older[c]` the fetches in flight that began before the one in `c` (those that fill the mounted view have an entry); `overtaken`, `excused`, `raced`, `retargeted` and `adrift` (rows whose last stop left a sidecar or a restart behind) are history |
| `WebSession` | sign-up, sign-in, sign-out, `/me`, the CSRF cookie, over several tabs | `session` and `csrf` are the cookies `osm_access` and `osm_csrf`, `token[t]` is `csrfToken` of `lib/api.ts`, `me[t]` and `failed[t]` the query `["me"]`, `fetch[t]` what the tab has under way; `last`, `crossed` and `left` are history |
| `WebData` | the query cache, its mutations and the pages that observe it | `domain`, `bound` and `devices` are the rows, `data`, `fetch` and `invalid` the cache's entries, `detail` the row the details modal was opened with, `call` the mutation under way; `foreign` is history. `Refetched` is TanStack's rule: an invalidated fetch is cancelled and asked anew only if the query has data, so that a first fetch goes on |
| `Realtime` | `lib/websocket.ts`, the hub and its pumps | `opened` numbers the sockets, the last of which is the global `socket`, `ready` is `readyState`, `timer` is `reconnectTimer`; `registered` and `out` are the hub's clients and their channels, `published` and `seen` the events sent and delivered |
| `PlanEditor` | `UpdatePlan`, `Plans` and the form that edits one plan | `plan` is the row with its `updated_at`, `copy`, `form` and `saving` are each admin's query data, fields and patch under way |
| `MCWebData` | `WebData`, `Realtime` and `PlanEditor`, the three stores of a dashboard tab; they share no state and are explored one at a time (`part`) | |
| `ProxyNodeProofs`, `AccountsProofs`, `DomainVerifierProofs`, `WebSessionProofs`, `DesktopClientProofs` | theorems about the modules they are named after | |
| `BindingHostsProofs` | theorems about `Bindings` and `HostNames` | |
| `MainProcessProofs` | theorems about `SidecarManager` and `DesktopAuth`, the two halves of the desktop's main process | |
| `DashboardProofs` | theorems about `WebData`, `Realtime`, `PlanEditor` and their composition `MCWebData` | |
| other `MC...` | instances for TLC: symmetry sets | |

Definitions whose comment says *Faulty variant* are plausible bugs of the definition below
them; no action uses them, and a run with one in place violates the property that
`PROJECT.json` ("mutants") names with it.

Bounds that appear in a guard (ids ever issued, crashes, restarts, hangs, missed
pings, clicks, changes from elsewhere) are constants of the module and named in its header.

## 3. Runs

| Run | Instance | Shows |
|---|---|---|
| `proxy_routing` | 3 connections, 1 host, no visitor, one restart | soundness of the registry, displaced tunnels close, late cleanups unroute nothing, `HostRouting` is implemented |
| `proxy_visitors` | 2 connections, 1 visitor, with fairness | requests stay on their host's tunnel, broken tunnels end, visitors are answered |
| `bindings_calls` | 3 calls, 2 devices, 1 host, no agent; 2 domains of 2 or 3 labels, 4 records | the live key is that of the last Bind; rows clash only under nested domains, `splitHost` is right exactly for two-label domains, a complete guide verifies its domain and leads its hosts here |
| `bindings_routing` | 1 call, 2 agents, 1 host, with fairness | who serves was entitled; a settled binding is served |
| `bindings_revoke` | 2 calls, 1 device | **violated**: a Bind that overlaps a Revoke binds the revoked device |
| `accounts` | 2 calls, 2 codes, 4 tokens | codes are redeemed once, exchanges of one token overlap |
| `verifier` | 2 domains, sweeps of 1, 2 attempts, one restart or failed statement, with fairness | no lost wake-up, verified stays, published gets verified by the sweeps, and by asking whatever a restart or the limit did |
| `sidecar` | 2 bindings, 2 processes, with fairness | the Map names living processes of its own, hung children are killed, quit ends |
| `desktop_auth` | 2 users, 2 operations at a time, 3 in all, 2 flows | no flow is exchanged after its callback has ended, and a pending one is lost only as named; alone, an operation leaves a whole file and one user's session |
| `desktop_client` | 1 row, 2 ports, 2 sidecars, 2 IPC calls at a time, 4 clicks, 1 change from elsewhere or restart | sidecars forward for bound rows only, but for those a stop left behind, the screen shows the cloud, no bind from the Domains tab takes another device's row unseen |
| `web_session` | 2 tabs, 2 users, 3 tokens, 4 acts, 1 lapse | who fetched the token last can use it; a signed-out account stays off the screen |
| `web_data` | 1 device, 2 changes of the rows; 3 sockets, 2 events, a channel of 1; 2 admins, 1 save | stale data has a foreign or a named cause, events in order, reconnect armed, untouched fields are those shown |

The type invariants of `ProxyNode`, `HostNames`, `DomainVerifier`, `SidecarManager` and
`WebSession` are proved and not run; every other module's is an invariant of its run, and
proved too.

### Why these bounds

Three connections for one host are the smallest number with a tunnel that serves, one
that is displaced and not yet cleaned up, and one that is about to register; hosts do
not influence each other in the registry, whose operations name one host (the
proofs cover any number). Two overlapping calls are what each check-then-write needs,
three let a third one run between two others. Domains of two and three labels are the
shortest of which one lies under another. Two domains let one be in the verifier's hand
while the other is queued, and a sweep that takes one of
them leaves one waiting, as a sweep of 20 does among more; one asks, so that the other
depends on the sweeps alone. Four records are a guide and one more, of the nested domain or
the older guide. Two processes for two bindings let one outlive its entry
while another takes it. Two sign-in operations overlap in every way two handlers can, and
a third meets what they left behind. In the desktop client a row is never read together
with another one; two ports make a re-target, two sidecars let one outlive its stop while
another is started, and four clicks are a bind, an unbind and a change of tab between
them, or a sleep. Three tokens let each tab fetch one and one of them
another. Three sockets let an early one end while the last connects, and a channel of
one event is full with the first. One save is what another admin has not fetched yet.
Every safety property of every run that passes is also proved for any number (section 4):
the bounds limit only what the runs show of liveness, and of the mutants.

### Fairness

Weak fairness is assumed only of what a running scheduler must do: a goroutine that
can step does, a timer that is due fires, a child that was killed exits, an agent
redials, the verifier's loop runs. Nobody has to call the API, publish a DNS record,
start a tunnel or quit. Where a liveness property needs the environment to settle (the
binding is not changed any more, the link holds, the record stays published), the
property says so as an assumption of its own, and the runs' mutants show that it
is not vacuous. Nothing is assumed of how long a call takes.

Strong fairness appears once, for the two cases of the verifier's `select`: Go picks
among the ready ones at random, so neither is passed over for ever.

The modules of the dashboard and of the desktop client state no fairness: what they
promise is about the states in which nothing is under way any more.

### Deadlock

Checked nowhere: every instance bounds ids, connections, calls or clicks (`CHECK_DEADLOCK
FALSE`), and where they run out the instance stops, not the program. Being stuck is
covered by the liveness properties.

## 4. Proofs

Eight modules hold theorems. Each proof has the same outline: an inductive invariant, a
lemma that it holds initially, lemmas that groups of actions preserve it, one that `Next`
does, and the temporal conclusion, from which the theorems follow. No fact is taken on
trust. The assumptions are those named in the modules, and TLC evaluates each on its run:
`None` and the other placeholders are none of the ids they stand beside, the bounds are
natural numbers, and the calls of `Accounts` and the domains of `DomainVerifier` are finite
sets (`CallsAreFinite`, `DomainsAreFinite`: requests in progress and rows of a table),
since there one counts them and the other puts them into a queue.

**`ProxyNodeProofs`**, for every set of hosts, connections and requests:

* `TypeCorrect`, `RegistryIsSound`, `DisplacedTunnelsClose`, `RequestsStayOnTheirHost`,
  `EndedRowsDoNotServe` - the invariants of the runs;
* `OnlyOwnCleanup` - the action property that a host loses its route only by the
  cleanup of its own tunnel or with the process;
* `RoutingImplemented` - `ProxyNode` implements `HostRouting`.

The invariants are not inductive. `RegistrySound` needs to know of every connection
past registration that it is either the registered one or already closed or being
closed (otherwise a displaced tunnel could be thought of as serving); the
ended rows need the order of the cleanup: a connection reported as ended is past its
`Delete`. `IInv` is the conjunction of these parts. The action property and the
refinement are step-wise: under `IInv` each action of `ProxyNode` is an action of
`HostRouting` on the mapped state or leaves it unchanged.

**`BindingHostsProofs`**, for any devices, hosts, agents and concurrent calls:
`TypeCorrect`, `LiveKeysAreLastBinds`, `RoutesWereEntitled`. That the key is the last
Bind's rests on the order of three things. `Locks`: whoever is between its update and its
commit holds the row's lock, so there is one such Bind. `Keys`: on a host whose key every
call has written that had to (the others are in `gaps`), a key that names another than the
bound device is that of the Bind about to commit, or an Unbind is on its way to delete it.
`OrphansHaveGaps`: a call whose row is gone has said so. That who is routed was entitled
needs `Met`: a device that is bound when its connection is there is entitled, one that
dialled revoked stays revoked, and what was accepted had been checked; and `Routed`: a
route is a connection that serves.

Of `HostNames`, for labels and names of any number: `NamesTypeCorrect`,
`RowsClashOnlyIfNested`, `SplitHostFinds`, `HostsLeadHere`. Here the work is in the names
and not in the steps: `SplitJoins` says that cutting a joined name at the length of its
prefix gives the row back, so that two rows of one host differ by where they are cut;
`GuideVerifies` says that a record of a guide proves something only for the domain whose
guide it is, typed into its own zone; `GuideResolves` that below a complete guide a name
either does not exist, so that the wildcard answers, or exists by a record that some
nested domain's owner has added (`HostBelow`). The invariant adds nothing but types.

**`AccountsProofs`**, for any finite number of calls and any codes, tokens and attempts:
`TypeCorrect`, `CodesRedeemedOnce`, `TokenExchangesOverlap`. The type of the attempts needs
a count: those made and the mismatches not yet written exceed the limit by less than the
calls there are (`MissesFit`), as each call in flight can write one more than the check
saw. `RedeemedIsConsumed` says that who goes on with a code has consumed it, so nobody else
can. For the tokens, `ParentIsOver` says that a token with a child is no longer live, and
`ExchangesFit` that its children and the calls about to issue one are no more than the
calls: all began before the first of them revoked it.

**`DomainVerifierProofs`**, for any finite number of domains and any bounds: `TypeCorrect`,
`WakeupsAreNotLost`, `VerifiedDomainsStay`. The lost wake-up is nearly inductive; it needs
that no handler is about a domain without a row (`NewIsUnknown`). The action property needs
`InHand`: between the read of the row and the write of the result, nobody else verifies the
domain that the goroutine has in hand. `SweepSelects` says that a limited, ordered sweep
takes domains and nothing else.

**`MainProcessProofs`**. Of `SidecarManager`, for any number of bindings and processes and
any crash limit: `TypeCorrect`, `EntriesAreUnreaped`. The type of the timers needs that no
more restarts are pending than crashes are in the window (`TimersAreFresh`), and the entry
needs that a process whose exit is still to be handled has a binding (`HasBinding`).

Of `DesktopAuth`, for any users, any number of handlers in flight and any bounds:
`AuthTypeCorrect`, `FilesStayWhole`, `SessionsStayWhole`, `CallbacksAreNotReplayed`. The
file is whole because a handler that runs alone writes to a temporary file of its own what
the cache holds (`Files`, with `FileFits` for each place in the save). The session is whole
at rest because of what is true halfway (`Halfway`): while nobody saves, the three places
agree; between two saves the file holds the cache; and the slots a handler has dealt with
hold its user, so that with none left they all do. `OneOp` says that one handler at most
is in flight while none have overlapped, which is what makes its own steps the only ones.
No flow is exchanged again because the one that is pending is the youngest and has not had
its callback end (`PendingIsUnspent`), whatever else overlaps; and what sets `pending` to
null is, by cases, its own callback, a mismatch, or the `finally` of an older flow's
(`FinallyCosts`).

**`WebSessionProofs`**, for any number of tabs, accounts, tokens and clicks:
`TypeCorrect`, `TokenIsUsable`, `SignedOutStaysClean`. `Tokens` strengthens the first:
unless two of its own fetches crossed, the document that fetched the cookie last has at
most one such fetch, and either that fetch brings the cookie's token or the tab has it.
`Clean` strengthens the second: an account a tab has left is not in the cookie, not on
screen and not in an answer on its way to the screen.

**`DashboardProofs`**, for any devices, administrators, sockets, events and bounds:

* `ShownIsStaleOnlyByOthers` - a row that was read, and data that is not marked, are the
  server's unless the mutation under way has changed them and will mark them
  (`FetchedIsRow`); what a page observes at rest has data and no mark (`ObservedIsLoaded`).
  A first fetch that the mark does not stop is in `foreign` from then on;
* `EventsStayInOrder`, `ReconnectsStayArmed` - the last socket a tab has created is the only
  one that may be alive (`LastIsLive`), and its channel holds later events than those seen
  (`ChannelsInOrder`), so that a reconnect cannot bring one twice or out of order;
* `UntouchedFieldsAreShown` - a copy of the plan is no newer than the row and equals it
  where its `updated_at` does (`PlanVersions`), so that a form is re-seeded when it has to
  be;
* `TypeCorrect` - the types of all three in the composition that the run checks; a behaviour
  of it is one of each of the three specifications (`RunIsOfTheThree`), so the theorems
  above hold of it too.

**`DesktopClientProofs`**, for any number of rows, ports, processes, IPC calls and clicks.
`TunnelsAreBound`: a bind starts its sidecar three cloud calls after it looked at the row,
so the invariant says of each place in the chain what is still true there (`Progress`):
nothing forwards for a row that is about to be unbound unless it is adrift, nor for one
being bound unless it was re-targeted; and that a row that was not raced is in the hands of
one call (`OneCall`). Sidecars that end, restarts and timeouts never add a port to those
forwarded or due for a row (`SidecarsShrink`). `TypeCorrect`,
`ScreenShowsCloud` and `NoRowIsTakenUnseen` follow from `ViewInv`. That the screen shows the
cloud at rest has to be said of the fetches in flight: unless a bind is about to have the
view fetch again (`Changing`), each row is shown as it is or a fetch will bring it, and each
fetch that will bring something older has a younger one behind it that puts it right
(`UpToDate`); this in turn needs that the fetches are ordered by when they began (`Order`).
No row is taken unseen because a row another device holds has been that device's from the
start, unless it was changed meanwhile, and was read and is shown so (`SeenAway`): who asked
to bind it had a reason to doubt the view (`TakesAreDoubted`).

Checked by TLC only: all liveness (reasoning about fairness and ENABLED is beyond the
prover), and the counterexample of `bindings_revoke`. Every safety invariant and every
action property of the other runs is a theorem.

## 5. Findings

Each is in `PROJECT.json` with the lines it quotes. One has a run that violates the quoted
claim: `Bind` may bind a device that a concurrent `Revoke` has revoked (`bindings_revoke`).
The others were met while translating:

* **desktop** - `stopTunnel` never escalates to SIGKILL; an unbind in the half second
  between a crash and its restart leaves the restart in place, so that the app forwards
  for a row it has unbound; a link that is refused leaves its sign-in pending, and the end
  of an older sign-in drops a newer one; after a suspend or a sign-out the heartbeat
  watchdog is gone; two concurrent saves of the keychain share one temporary file, so that
  one may move the other's half-written file into place; a tunnel start that has read the
  token outlives the sign-out; a browser sign-in keeps the previous key's device id; after
  a resume nothing restarts the tunnels the interface says will resume; the Services tab
  offers a binding that another device holds as if it were free or its own; the service
  scan stops at the first answer, whatever its status.
* **agent** - `ServeConn` does not end when its context is cancelled; the two back-off caps
  differ.
* **control plane** - a server that runs without Redis leaves the old key beside the new
  binding, and a `Set` whose answer is lost leaves the new key beside the old one; the
  cascade on refresh-token reuse misses an overlapping refresh; no endpoint reissues a
  sign-up code; a password reset does not end the sessions; `Revoke` clears no live key;
  the verifier's attempts last half a day and not 30 days; an admin's limit of 0
  subdomains is overwritten at the next start; `TunnelStart` looks a host up by its two
  rightmost labels and misses the domains with three.
* **dashboard** - it promises that a revoke kills tunnels; the DNS guide's records are
  right only in the domain's own zone; the details modal of a domain shows the row as it
  was when it was opened, so that its bindings do not appear when it is verified; the
  Activity card shows no event.

Seen in the code and in the models, and contradicted by no text of the repository:

* A second tab's load rotates the CSRF cookie, and the first tab's next mutation is refused;
  its sign-out is refused too, and the refusal is swallowed. (`TokenIsLastFetch` is what
  does hold.) The web client never calls the refresh endpoint, so a session ends after
  15 minutes, and a cached failure of `/me` sends the next sign-in back to the login page
  once. The socket stays open over a sign-out.
* Revoking a device leaves its bindings on screen as bound; the mark that invalidates a
  query nobody observes is lost if a fetch of it is in flight; a domain or device added
  while the page's first fetch is in flight is missing from the list, because invalidation
  does not cancel a first fetch and its older answer takes the mark off.
  (`StaleOnlyByOthers` names these causes as the exceptions.)
* A row that a restart of the server leaves 'verifying' is taken by no sweep; only its
  owner's asking gets it verified. New domains go before all others in a sweep (NULLS
  FIRST), so that a stream of them would hold the others back; the model's domains are
  finitely many.
* The plan editor rounds a price to whole rupees, and a save overwrites what another
  admin changed since the page fetched it.
* In the desktop app a revoked key leaves the user signed in with every call failing; a
  crash of the app leaves its agents running; on macOS the main process keeps a reference
  to a closed window. Two sign-ins can overlap through the reopened modal.

## 6. Not modelled, and the plan

Left out: cryptography, password rules, mail, audit rows, logging, HTTP routing tables
and middleware, CA and configuration loading, the bytes of frames and requests, the
keytar and in-memory keychains, the demonstration store and the tabs that show it, charts,
user administration and styling, documentation and deployment files, and `To Upload V2`,
a second copy of some files. They keep no state that several actors change, or
are outside the program.

Not modelled yet, in this order:

1. `AgentTunnel` - `Run`'s loop with the attempt counter, cancellation while serving, the
   host check; both back-offs as pure functions against one reference.
2. `PlanLimits` - check-then-insert of devices and domains against a plan that an
   admin and a restart (`SeedPlans`) change; device heartbeat and offline sweep.
3. The rate limiter's buckets, with the race on `tokens` and `last`.
4. Proofs: the invariants of the modules above, when they exist. What is modelled now has
   its safety proved; its liveness stays with TLC.
