----------------------------- MODULE DesktopClient -----------------------------
(***************************************************************************)
(* The desktop app from its window to the cloud: the tabs that list the    *)
(* account's rows and bind a local port to one, the IPC handlers behind    *)
(* them, the calls these make to the control plane one after another, and  *)
(* the sidecars they start and stop.  Every await lets the user, the other *)
(* calls and the account's other devices in between.                       *)
(*                                                                         *)
(* A row stands for a verified domain and its apex subdomain.  The control *)
(* plane is modelled by what the handlers ask of it, the manager of the    *)
(* sidecars (SidecarManager) by what decides which of them forward: its    *)
(* Map, its restart timers and its stops.                                  *)
(* Bounds: what the user does, what is done elsewhere or crashes, and the  *)
(* sidecars that live at once.                                             *)
(***************************************************************************)
EXTENDS Naturals, Sequences

CONSTANTS NumRows, Ports, BadPort, Calls,
          Procs,       \* processes; one that has ended is used again
          None,
          MaxActs, MaxOthers

ASSUME RowsAreNumbered == NumRows \in Nat \ {0}
ASSUME PortsAreReal == BadPort \notin Ports /\ None \notin Ports \cup {BadPort}
ASSUME NoneIsNoProc == None \notin Procs
ASSUME BoundsAreNat == MaxActs \in Nat /\ MaxOthers \in Nat

Rows == 1..NumRows

VARIABLES
    cloud,     \* the control plane: who a row is bound to, and its target_port
    proc,      \* the sidecars that live: the row and the port each forwards for
    children,  \* the manager's Map: the sidecar of a row's entry, or None
    timers,    \* the ports of the restarts that are due for a row, first to last
    suspended, \* the sidecars whose end a suspend's stop() awaits
    session,   \* whether an API key is in the keychain
    net,       \* the network state machine
    ui,        \* the window: what is mounted and what it shows
    calls,     \* the IPC calls in flight
    older,     \* per call that fills the mounted view, those of them that began before it
    acts, others,  \* bounds
    overtaken, \* history: fetches of the view that a younger one has overtaken
    excused,   \* history: rows the view has a known reason to be wrong about
    raced,     \* history: rows changed elsewhere, or by two calls at once
    retargeted,\* history: rows bound again while a sidecar of theirs was up, or due
    adrift     \* history: rows whose last stop left a sidecar, or a restart, behind

processes == <<proc, children, timers, suspended>>
history == <<overtaken, excused, raced, retargeted, adrift>>
vars == <<cloud, processes, session, net, ui, calls, older, acts, others, history>>

Owners == {"none", "free", "here", "elsewhere"}
RowStates == [own : Owners, port : Ports \cup {None}]
NoRow == [own |-> "none", port |-> None]

Idle == [kind |-> "idle", pc |-> "idle", row |-> 0, port |-> None,
         tab |-> "none", mounted |-> FALSE, asked |-> FALSE, got |-> <<>>, doubt |-> FALSE,
         child |-> None]

SeqsOf(S) == UNION {[1..n -> S] : n \in 0..NumRows}

\* An orphan has outlived the app that started it.
Gone == [row |-> 0, port |-> None, orphan |-> FALSE]
Sidecars == {Gone} \cup [row : Rows, port : Ports, orphan : BOOLEAN]

TypeOK ==
    /\ cloud \in [Rows -> RowStates]
    /\ proc \in [Procs -> Sidecars] /\ children \in [Rows -> Procs \cup {None}]
    /\ timers \in [Rows -> {<<>>} \cup UNION {[1..n -> Ports] : n \in 1..2}]
    /\ suspended \subseteq Procs
    /\ session \in BOOLEAN
    /\ net \in {"connected", "flicker", "reconnecting", "roaming", "offline"}
    /\ ui \in [tab : {"services", "domains", "other"}, booted : BOOLEAN,
               signedIn : BOOLEAN, modal : {"closed", "open", "busy"},
               shown : SeqsOf(RowStates), error : BOOLEAN, refreshing : BOOLEAN,
               busy : SUBSET Rows]
    /\ calls \in [Calls -> [kind : {"idle", "fetch", "key", "bind", "unbind"},
                            pc : {"idle", "read", "wait", "create", "bind", "spawn", "stop",
                                  "stopping", "unbind"},
                            row : 0..NumRows, port : Ports \cup {None},
                            tab : {"none", "services", "domains"},
                            mounted : BOOLEAN, asked : BOOLEAN,
                            got : SeqsOf(RowStates), doubt : BOOLEAN,
                            child : Procs \cup {None}]]
    /\ older \in [Calls -> SUBSET {c \in Calls : calls[c].kind = "fetch"}]
    /\ acts \in 0..MaxActs /\ others \in 0..MaxOthers
    /\ overtaken \subseteq Calls
    /\ excused \subseteq Rows /\ raced \subseteq Rows
    /\ retargeted \subseteq Rows /\ adrift \subseteq Rows

-----------------------------------------------------------------------------
(* The views and their fetches.                                            *)

\* A new fetch of the mounted view; signed out, Services scans and asks for no rows.
Fetch(asked) == [Idle EXCEPT !.kind = "fetch", !.pc = "read", !.mounted = TRUE, !.asked = asked]
Fetches == {c \in Calls : calls[c].kind = "fetch"}
StartFetch(c, asked) == /\ calls' = [calls EXCEPT ![c] = Fetch(asked)]
                        /\ older' = [older EXCEPT ![c] = Fetches]
NoneOlder == [c \in Calls |-> {}]

Fetching(view) == [view EXCEPT !.refreshing = TRUE, !.error = FALSE]

\* Mounting a tab forgets what the last one showed and starts its effect; a call of the
\* unmounted one goes on, but its result is dropped, and a fetch is nothing else.
Dropped == [x \in Calls |-> IF calls[x].kind = "fetch" THEN Idle
                            ELSE [calls[x] EXCEPT !.mounted = FALSE]]
Mount(c, tab, signedIn, view) ==
    LET fetching == tab = "services" \/ (tab = "domains" /\ signedIn)
        blank == [view EXCEPT !.tab = tab, !.shown = <<>>, !.error = FALSE,
                              !.refreshing = fetching, !.busy = {}]
    IN /\ Dropped[c] = Idle
       /\ ui' = blank
       /\ calls' = IF fetching THEN [Dropped EXCEPT ![c] = Fetch(signedIn)] ELSE Dropped
       /\ older' = NoneOlder
       /\ overtaken' = {} /\ excused' = {}

\* signedIn has become true: the effect of the mounted tab runs again, in the slot c.
SignedInEffect(c, view) ==
    IF view.tab = "other" \/ ui.signedIn
    THEN /\ ui' = view
         /\ calls' = [calls EXCEPT ![c] = Idle]
         /\ UNCHANGED older
    ELSE /\ ui' = Fetching(view)
         /\ StartFetch(c, TRUE)

Act == acts < MaxActs /\ acts' = acts + 1

ShowTab(c, tab) == /\ Act /\ tab # ui.tab
                   /\ Mount(c, tab, ui.signedIn, ui)
                   /\ UNCHANGED <<cloud, processes, session, net, others,
                                  raced, retargeted, adrift>>

\* Refresh, Retry, Re-scan: the first and the last are disabled while refreshing.
Refresh(c) ==
    /\ Act /\ calls[c] = Idle
    /\ \/ ui.tab = "services" /\ ~ui.refreshing
       \/ ui.tab = "domains" /\ ui.signedIn /\ (ui.error \/ (ui.shown # <<>> /\ ~ui.refreshing))
    /\ ui' = Fetching(ui)
    /\ StartFetch(c, ui.signedIn)
    /\ UNCHANGED <<cloud, processes, session, net, others, history>>

\* listBindings reads the subdomains of one domain after another; a domain whose list
\* fails is shown as if it had none.
ReadRow(c) ==
    LET r == Len(calls[c].got) + 1
    IN /\ calls[c].kind = "fetch" /\ calls[c].asked /\ r \in Rows
       /\ \/ /\ calls' = [calls EXCEPT ![c].got = Append(@, cloud[r])]
             /\ UNCHANGED excused
          \/ /\ calls' = [calls EXCEPT ![c].got = Append(@, NoRow)]
             /\ excused' = excused \cup {r}
       /\ UNCHANGED <<cloud, processes, session, net, ui, older, acts, others,
                      overtaken, raced, retargeted, adrift>>

Complete(call) == call.asked => Len(call.got) = NumRows
EndFetch(c) == /\ calls' = [calls EXCEPT ![c] = Idle]
               /\ older' = [x \in Calls |-> IF x = c THEN {} ELSE older[x] \ {c}]

\* A row component is keyed by its subdomain: one that appears replaces the placeholder,
\* and is not busy.
StillBusy(rows) == {r \in ui.busy : rows # <<>> /\ ui.shown # <<>>
                        /\ (rows[r].own = "none") = (ui.shown[r].own = "none")}

\* The result is shown, whatever has been shown since it was asked for.
Arrive(c) ==
    /\ calls[c].kind = "fetch" /\ Complete(calls[c])
    /\ ui' = [ui EXCEPT !.shown = calls[c].got, !.refreshing = FALSE,
                        !.busy = StillBusy(calls[c].got)]
    /\ overtaken' = (overtaken \cup older[c]) \ {c}
    /\ excused' = IF c \in overtaken THEN Rows ELSE excused
    /\ EndFetch(c)
    /\ UNCHANGED <<cloud, processes, session, net, acts, others,
                                  raced, retargeted, adrift>>

FetchFails(c) == /\ calls[c].kind = "fetch"
                 /\ ui' = [ui EXCEPT !.error = TRUE, !.refreshing = FALSE]
                 /\ overtaken' = overtaken \ {c}
                 /\ EndFetch(c)
                 /\ UNCHANGED <<cloud, processes, session, net, acts, others,
                                excused, raced, retargeted, adrift>>

-----------------------------------------------------------------------------
(* The sidecars.                                                           *)

\* spawnFor: the entry is the new sidecar's, whatever the Map held before.
SpawnFor(r, port, p) ==
    /\ proc[p] = Gone
    /\ proc' = [proc EXCEPT ![p] = [row |-> r, port |-> port, orphan |-> FALSE]]
    /\ children' = [children EXCEPT ![r] = p]

\* The ports a row's sidecars forward to, or will when their restart timer fires.
Forwards(r) == {proc[p].port : p \in {q \in Procs : proc[q].row = r}}
                 \cup {timers[r][i] : i \in DOMAIN timers[r]}

\* These calls of stopTunnel return.
StopsReturn(C) ==
    LET R == {calls[x].row : x \in C}
    IN /\ calls' = [x \in Calls |-> IF x \in C THEN [calls[x] EXCEPT !.pc = "unbind", !.child = None]
                                    ELSE calls[x]]
       /\ adrift' = (adrift \ R) \cup {r \in R : Forwards(r)' # {}}

\* handleExit after a crash, unless it is the third in five minutes: the 500 ms restart.
RestartDue(r, port) == /\ others < MaxOthers /\ others' = others + 1
                       /\ Len(timers[r]) < 2
                       /\ timers' = [timers EXCEPT ![r] = Append(@, port)]

\* A sidecar ends, by itself, by a crash or by a signal, and its exit is handled: the entry
\* of its row goes, whoever's it is, and the stops that await it return.  Its events name a
\* row the local store does not hold, and change nothing there or in the window.
ProcEnds(p) ==
    /\ proc[p] # Gone /\ ~proc[p].orphan
    /\ proc' = [proc EXCEPT ![p] = Gone]
    /\ children' = [children EXCEPT ![proc[p].row] = None]
    /\ suspended' = suspended \ {p}
    /\ RestartDue(proc[p].row, proc[p].port) \/ UNCHANGED <<timers, others>>
    /\ StopsReturn({x \in Calls : calls[x].child = p})
    /\ UNCHANGED <<cloud, session, net, ui, older, acts, overtaken, excused, raced, retargeted>>

OrphanEnds(p) ==
    /\ proc[p].orphan
    /\ proc' = [proc EXCEPT ![p] = Gone]
    /\ UNCHANGED <<cloud, children, timers, suspended, session, net, ui, calls, older,
                   acts, others, history>>

\* A restart looks at neither the Map nor whether the row has been stopped meanwhile.
Restarts(r, p) ==
    /\ timers[r] # <<>>
    /\ SpawnFor(r, Head(timers[r]), p)
    /\ timers' = [timers EXCEPT ![r] = Tail(@)]
    /\ UNCHANGED <<cloud, suspended, session, net, ui, calls, older, acts, others, history>>

RestartFails(r) ==
    /\ timers[r] # <<>>
    /\ timers' = [timers EXCEPT ![r] = Tail(@)]
    /\ UNCHANGED <<cloud, proc, children, suspended, session, net, ui, calls, older,
                   acts, others, history>>

\* The 5 s of a suspend's stop are over: child.killed is true since the SIGTERM, so that no
\* SIGKILL is sent, and the row's entry goes, whoever's it is.
SuspendTimeout(p) ==
    /\ p \in suspended
    /\ children' = [children EXCEPT ![proc[p].row] = None]
    /\ suspended' = suspended \ {p}
    /\ UNCHANGED <<cloud, proc, timers, session, net, ui, calls, older, acts, others, history>>

-----------------------------------------------------------------------------
(* Signing in, and the life of the app.                                    *)

\* The window has asked for the auth status; the reply and the events keep their order.
Boot(c) == /\ ~ui.booted /\ calls[c] = Idle
           /\ IF session
              THEN SignedInEffect(c, [ui EXCEPT !.booted = TRUE, !.signedIn = TRUE])
              ELSE ui' = [ui EXCEPT !.booted = TRUE] /\ UNCHANGED <<calls, older>>
           /\ UNCHANGED <<cloud, processes, session, net, acts, others, history>>

\* The chip in the sidebar; a click beside the modal closes it even while it is busy.
OpenModal == /\ Act /\ ~ui.signedIn /\ ui.modal = "closed"
             /\ ui' = [ui EXCEPT !.modal = "open"]
             /\ UNCHANGED <<cloud, processes, session, net, calls, older, others, history>>
CloseModal == /\ Act /\ ui.modal # "closed"
              /\ ui' = [ui EXCEPT !.modal = "closed"]
              /\ UNCHANGED <<cloud, processes, session, net, calls, older, others, history>>

SubmitKey(c) == /\ Act /\ ui.modal = "open" /\ calls[c] = Idle
                /\ ui' = [ui EXCEPT !.modal = "busy"]
                /\ calls' = [calls EXCEPT ![c] = [Idle EXCEPT !.kind = "key", !.pc = "wait"]]
                /\ UNCHANGED <<cloud, processes, session, net, older, others, history>>

\* A key that is accepted signs in and closes the modal, be it another submit's.
KeyAccepted(c) == /\ calls[c].kind = "key"
                  /\ session' = TRUE
                  /\ SignedInEffect(c, [ui EXCEPT !.signedIn = TRUE, !.modal = "closed"])
                  /\ UNCHANGED <<cloud, processes, net, acts, others, history>>
KeyRefused(c) == /\ calls[c].kind = "key"
                 /\ ui' = [ui EXCEPT !.modal = IF @ = "busy" THEN "open" ELSE @]
                 /\ calls' = [calls EXCEPT ![c] = Idle]
                 /\ UNCHANGED <<cloud, processes, session, net, older, acts, others, history>>

\* The table of the network state machine; other pairs leave the state as it is.
TRANSITION_TABLE ==
    {<<"connected", "jitter", "flicker">>,          <<"connected", "stream-closed", "reconnecting">>,
     <<"connected", "interface-change", "roaming">>, <<"connected", "os-offline", "offline">>,
     <<"flicker", "ok", "connected">>,              <<"flicker", "stream-closed", "reconnecting">>,
     <<"flicker", "os-offline", "offline">>,        <<"reconnecting", "ok", "connected">>,
     <<"reconnecting", "os-offline", "offline">>,   <<"reconnecting", "interface-change", "roaming">>,
     <<"roaming", "ok", "connected">>,              <<"roaming", "stream-closed", "reconnecting">>,
     <<"roaming", "os-offline", "offline">>,        <<"offline", "os-online", "reconnecting">>}
Signalled(state, on) ==
    {t[3] : t \in {x \in TRANSITION_TABLE : x[1] = state /\ x[2] = on}}
Signal(on) == net' = IF Signalled(net, on) = {} THEN net
                     ELSE CHOOSE to \in Signalled(net, on) : TRUE

\* The Mac goes to sleep: every sidecar in the Map is sent a SIGTERM, whose effect nobody
\* awaits, and nothing starts one again.
Suspend == /\ Act /\ net # "offline"
           /\ Signal("os-offline")
           /\ suspended' = suspended \cup ({children[r] : r \in Rows} \ {None})
           /\ UNCHANGED <<cloud, proc, children, timers, session, ui, calls, older, others, history>>
Resume == /\ net = "offline"
          /\ Signal("os-online")
          /\ UNCHANGED <<cloud, processes, session, ui, calls, older, acts, others, history>>

\* The window as main() opens it: the Services tab scans before the status is known.
Opened == [tab |-> "services", booted |-> FALSE, signedIn |-> FALSE, modal |-> "closed",
           shown |-> <<>>, error |-> FALSE, refreshing |-> TRUE, busy |-> {}]

\* The app is quit, which sends its sidecars a SIGTERM, in the middle of any call, and is
\* opened again; those that serve on are nobody's children any more.
Relaunch(c) == /\ Act
               /\ ui' = Opened
               /\ calls' = [x \in Calls |-> IF x = c THEN Fetch(FALSE) ELSE Idle]
               /\ older' = NoneOlder
               /\ \E P \in SUBSET {p \in Procs : proc[p] # Gone} :
                    proc' = [p \in Procs |-> IF p \in P THEN [proc[p] EXCEPT !.orphan = TRUE]
                                             ELSE Gone]
               /\ children' = [r \in Rows |-> None] /\ timers' = [r \in Rows |-> <<>>]
               /\ suspended' = {}
               /\ net' = "connected"
               /\ overtaken' = {} /\ excused' = {}
               /\ UNCHANGED <<cloud, session, others,
                                  raced, retargeted, adrift>>

-----------------------------------------------------------------------------
(* Binding and unbinding.                                                  *)

\* Faulty variant: the form takes any number.
ValidPortNot(p) == p \in Ports \cup {BadPort}

ValidPort(p) == p \in Ports

\* Faulty variant: Bind is offered for every row, as in the picker of Services.
BindableAny(r) == /\ ui.signedIn /\ ui.shown # <<>>
                  /\ ui.tab = "domains" => ~ui.error /\ r \notin ui.busy

\* Where the user can ask for a bind: on Domains at a row that shows no device; on
\* Services in the picker, which lists every domain.
Bindable(r) ==
    /\ ui.signedIn /\ ui.shown # <<>>
    /\ \/ ui.tab = "services"
       \/ /\ ui.tab = "domains" /\ ~ui.error /\ r \notin ui.busy
          /\ ui.shown[r].own \in {"none", "free"}

InFlight(r) == \E x \in Calls : calls[x].row = r
StartCall(c, r, call) ==
    /\ Act /\ calls[c] = Idle
    /\ calls' = [calls EXCEPT ![c] = call]
    /\ ui' = IF ui.tab = "domains" THEN [ui EXCEPT !.busy = @ \cup {r}] ELSE ui
    /\ raced' = IF InFlight(r) THEN raced \cup {r} ELSE raced
    /\ UNCHANGED <<cloud, processes, session, net, older, others, overtaken, excused, adrift>>

ClickBind(c, r, p) ==
    /\ Bindable(r) /\ ValidPort(p)
    /\ StartCall(c, r, [Idle EXCEPT !.kind = "bind", !.pc = "create", !.row = r, !.port = p,
                                    !.tab = ui.tab, !.mounted = TRUE,
                                    !.doubt = r \in excused])
    /\ retargeted' = IF Forwards(r) # {} THEN retargeted \cup {r} ELSE retargeted

ClickUnbind(c, r) ==
    /\ ui.tab = "domains" /\ ui.signedIn /\ ~ui.error /\ ui.shown # <<>>
    /\ ui.shown[r].own = "here" /\ r \notin ui.busy
    /\ StartCall(c, r, [Idle EXCEPT !.kind = "unbind", !.pc = "stop", !.row = r,
                                    !.tab = "domains", !.mounted = TRUE])
    /\ UNCHANGED retargeted

\* What a call changes in the cloud is news to a view that is not its own.
Excuse(call) == excused' = IF call.mounted THEN excused ELSE excused \cup {call.row}

\* createSubdomain: the row is made, or its target_port is changed.
CreateSubdomain(c) ==
    /\ calls[c].pc = "create"
    /\ cloud' = [cloud EXCEPT ![calls[c].row] =
                     [own |-> IF @.own = "none" THEN "free" ELSE @.own, port |-> calls[c].port]]
    /\ calls' = [calls EXCEPT ![c].pc = "bind"]
    /\ Excuse(calls[c])
    /\ UNCHANGED <<processes, session, net, ui, older, acts, others,
                   overtaken, raced, retargeted, adrift>>

\* bindSubdomain: the row is this device's, whoever had it; if it is gone the call fails.
BindSubdomain(c) ==
    /\ calls[c].pc = "bind" /\ cloud[calls[c].row].own # "none"
    /\ cloud' = [cloud EXCEPT ![calls[c].row].own = "here"]
    /\ calls' = [calls EXCEPT ![c].pc = "spawn"]
    /\ Excuse(calls[c])
    /\ UNCHANGED <<processes, session, net, ui, older, acts, others,
                   overtaken, raced, retargeted, adrift>>

Unbusy(c) == IF calls[c].mounted /\ calls[c].tab = "domains"
             THEN [ui EXCEPT !.busy = @ \ {calls[c].row}] ELSE ui

\* Faulty variant: the view is not told.
AnsweredSilently(c) == /\ ui' = Unbusy(c)
                       /\ calls' = [calls EXCEPT ![c] = Idle]
                       /\ UNCHANGED older

\* The handler has returned: onChanged fetches again, for a view that is still mounted.
Answered(c) == IF calls[c].mounted
               THEN /\ ui' = Fetching(Unbusy(c))
                    /\ StartFetch(c, TRUE)
               ELSE /\ calls' = [calls EXCEPT ![c] = Idle]
                    /\ UNCHANGED <<ui, older>>

\* Token and name are read, and the sidecar is started unless the Map has one for the row.
Spawn(c, p) == /\ calls[c].pc = "spawn" /\ children[calls[c].row] = None
               /\ SpawnFor(calls[c].row, calls[c].port, p)
               /\ Answered(c)
               /\ UNCHANGED <<cloud, timers, suspended, session, net, acts, others, history>>

\* Faulty variant: unbind leaves the sidecar to itself.
StopTunnelNot(c) ==
    /\ calls[c].pc = "stop"
    /\ calls' = [calls EXCEPT ![c].pc = "unbind"]
    /\ UNCHANGED <<cloud, processes, session, net, ui, older, acts, others, history>>

\* stopTunnel: without an entry there is nothing to do; else the SIGTERM, and its end is
\* awaited.
StopTunnel(c) ==
    /\ calls[c].pc = "stop"
    /\ UNCHANGED processes
    /\ IF children[calls[c].row] = None
       THEN StopsReturn({c})
       ELSE /\ calls' = [calls EXCEPT ![c].pc = "stopping", ![c].child = children[calls[c].row]]
            /\ UNCHANGED adrift
    /\ UNCHANGED <<cloud, session, net, ui, older, acts, others,
                   overtaken, excused, raced, retargeted>>

\* Its 5 s are over, as those of a suspend.
StopTimeout(c) ==
    /\ calls[c].pc = "stopping"
    /\ children' = [children EXCEPT ![calls[c].row] = None]
    /\ UNCHANGED <<proc, timers, suspended>>
    /\ StopsReturn({c})
    /\ UNCHANGED <<cloud, session, net, ui, older, acts, others,
                   overtaken, excused, raced, retargeted>>

UnbindSubdomain(c) ==
    /\ calls[c].pc = "unbind" /\ cloud[calls[c].row].own # "none"
    /\ cloud' = [cloud EXCEPT ![calls[c].row].own = "free"]
    /\ Answered(c)
    /\ Excuse(calls[c])
    /\ UNCHANGED <<processes, session, net, acts, others,
                   overtaken, raced, retargeted, adrift>>

\* A request fails, the device counts as offline, the row is gone, or a tunnel is running
\* already: the row shows the error, what was done stays done, and nothing is fetched.
CallFails(c) ==
    /\ calls[c].kind \in {"bind", "unbind"} /\ calls[c].pc \notin {"stop", "stopping"}
    /\ ui' = Unbusy(c)
    /\ calls' = [calls EXCEPT ![c] = Idle]
    /\ excused' = IF calls[c].kind = "bind" /\ calls[c].pc # "create"
                  THEN excused \cup {calls[c].row} ELSE excused
    /\ UNCHANGED <<cloud, processes, session, net, older, acts, others,
                   overtaken, raced, retargeted, adrift>>

\* The dashboard or another device unbinds, deletes or takes a row.
Elsewhere(r) ==
    /\ others < MaxOthers /\ others' = others + 1
    /\ \E own \in {"none", "free", "elsewhere"} \ {cloud[r].own} :
         /\ own # "none" => cloud[r].own # "none"
         /\ cloud' = [cloud EXCEPT ![r] = IF own = "none" THEN NoRow ELSE [@ EXCEPT !.own = own]]
    /\ raced' = raced \cup {r} /\ excused' = excused \cup {r}
    /\ UNCHANGED <<processes, session, net, ui, calls, older, acts,
                   overtaken, retargeted, adrift>>

-----------------------------------------------------------------------------

Init == /\ cloud \in [Rows -> {NoRow} \cup [own : {"free", "here", "elsewhere"}, port : Ports]]
        /\ proc = [p \in Procs |-> Gone] /\ children = [r \in Rows |-> None]
        /\ timers = [r \in Rows |-> <<>>] /\ suspended = {}
        /\ session \in BOOLEAN
        /\ net = "connected"
        /\ ui = Opened
        /\ \E c \in Calls : calls = [x \in Calls |-> IF x = c THEN Fetch(FALSE) ELSE Idle]
        /\ older = NoneOlder
        /\ acts = 0 /\ others = 0
        /\ overtaken = {} /\ excused = {} /\ raced = {} /\ retargeted = {} /\ adrift = {}

Next == \/ \E c \in Calls :
             \/ \E tab \in {"services", "domains", "other"} : ShowTab(c, tab)
             \/ Refresh(c) \/ ReadRow(c) \/ Arrive(c) \/ FetchFails(c)
             \/ Boot(c) \/ SubmitKey(c) \/ KeyAccepted(c) \/ KeyRefused(c) \/ Relaunch(c)
             \/ \E r \in Rows : \/ \E p \in Ports \cup {BadPort} : ClickBind(c, r, p)
                                \/ ClickUnbind(c, r)
             \/ CreateSubdomain(c) \/ BindSubdomain(c) \/ \E p \in Procs : Spawn(c, p)
             \/ StopTunnel(c) \/ StopTimeout(c) \/ UnbindSubdomain(c) \/ CallFails(c)
        \/ \E p \in Procs : ProcEnds(p) \/ OrphanEnds(p) \/ SuspendTimeout(p)
        \/ \E r \in Rows : RestartFails(r) \/ Elsewhere(r) \/ \E p \in Procs : Restarts(r, p)
        \/ OpenModal \/ CloseModal \/ Suspend \/ Resume

Spec == Init /\ [][Next]_vars

-----------------------------------------------------------------------------
(* Correctness.                                                            *)

\* handlers.ts binds first and spawns last, and stops before it unbinds: whatever call
\* fails at whatever step, no sidecar forwards for a row that is not the app's own, nor to
\* another port than the row names, and none is about to be restarted for one.  Except for
\* a row that was changed elsewhere or by two calls at once; one whose last stop left
\* something behind: a sidecar that survives its SIGTERM (manager.ts:220), has lost its
\* entry or outlived a quit, or a restart that is due (manager.ts:408); and, as to the
\* port, one that was bound again while a sidecar of it was up or due.
TunnelIsBound ==
    \A r \in Rows \ (raced \cup adrift) : Forwards(r) # {} =>
        /\ cloud[r].own = "here"
        /\ r \notin retargeted => Forwards(r) = {cloud[r].port}

\* When all is quiet, the rows on screen are the cloud's, except those changed elsewhere
\* or by a call of another tab, whose bind broke off, whose list failed, and all of them
\* once an older result has been shown after a younger one.
Quiet == \A c \in Calls : calls[c] = Idle
ShownIsCloud ==
    Quiet /\ ~ui.error /\ ui.shown # <<>> =>
        \A r \in Rows \ excused : ui.shown[r] = cloud[r]

\* CloudDomainsView.tsx:283: a bind from Domains takes no row from another device, unless
\* the row was changed elsewhere or the view had another of those reasons at the click.
NoUnseenTakeover ==
    [][\A c \in Calls :
         calls[c].pc = "bind" /\ calls'[c].pc = "spawn" /\ calls[c].tab = "domains"
           /\ cloud[calls[c].row].own = "elsewhere"
             => calls[c].doubt \/ calls[c].row \in raced]_vars
==============================================================================
