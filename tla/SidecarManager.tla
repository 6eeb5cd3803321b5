---------------------------- MODULE SidecarManager ----------------------------
(***************************************************************************)
(* The desktop app's manager of osm-agent processes: one Map entry per     *)
(* binding, restarts with a crash limit, the heartbeat watchdog, stopping  *)
(* with a 5 s timeout, and quitting the app.  JavaScript runs each handler *)
(* to its end, so a handler is an action; what lies between two of them    *)
(* (timers, exits, lines on stdout, the user) is interleaved.              *)
(*                                                                         *)
(* Time is abstract.  A heartbeat is fresh, or older than the tolerance; a *)
(* crash is inside the sliding window or has left it.  A process id is     *)
(* used again once its exit has been handled.                              *)
(***************************************************************************)
EXTENDS Naturals

CONSTANTS Procs, Domains, None,
          CrashLimit     \* options.crashLimit, 3 by default

ASSUME NoneIsNoProc == None \notin Procs
ASSUME CrashLimitPositive == CrashLimit \in Nat \ {0}

VARIABLES
    children,    \* the Map: domain -> the process of its entry, or None
    fresh,       \* crashes of the domain inside crashWindowMs, CrashLimit at most
    timers,      \* 500 ms restart timers pending for the domain
    diagnostic,  \* domains in diagnostic mode
    watchdog,    \* whether the watchdog timer is set
    stops,       \* processes some stopTunnel awaits
    quit,        \* "no", "stopping" (before-quit awaits sidecar.stop()), "gone"
    quitWait,    \* what before-quit awaits
    late,        \* domains whose entry's lastHeartbeat is older than the tolerance
    proc,        \* "none", "live", or ended with the exit event still to come:
                 \* "exited" with code 0, "crashed" with another or by a signal
    of,          \* the domain the process was spawned for
    hung,        \* the process no longer reacts: no heartbeat, no SIGTERM
    sig          \* child.killed: kill() has delivered a signal

manager == <<children, fresh, timers, diagnostic, watchdog, stops, quit, quitWait, late>>
processes == <<proc, of, hung, sig>>
vars == <<manager, processes>>

TypeOK == /\ children \in [Domains -> Procs \cup {None}]
          /\ fresh \in [Domains -> 0..CrashLimit]
          /\ timers \in [Domains -> 0..(CrashLimit - 1)]
          /\ diagnostic \in SUBSET Domains
          /\ watchdog \in BOOLEAN
          /\ stops \in SUBSET Procs
          /\ quit \in {"no", "stopping", "gone"}
          /\ quitWait \in SUBSET Procs
          /\ late \in SUBSET Domains
          /\ proc \in [Procs -> {"none", "live", "exited", "crashed"}]
          /\ of \in [Procs -> Domains \cup {None}]
          /\ {hung, sig} \subseteq [Procs -> BOOLEAN]

Init == /\ children = [d \in Domains |-> None]
        /\ fresh = [d \in Domains |-> 0]
        /\ timers = [d \in Domains |-> 0]
        /\ diagnostic = {}
        /\ watchdog = TRUE
        /\ stops = {}
        /\ quit = "no" /\ quitWait = {}
        /\ late = {}
        /\ proc = [p \in Procs |-> "none"]
        /\ of = [p \in Procs |-> None]
        /\ hung = [p \in Procs |-> FALSE]
        /\ sig = [p \in Procs |-> FALSE]

Running == quit # "gone"

\* Bound: a person who has asked the app to quit starts and retries nothing more
\* in the seconds until it is gone.
UserStays == quit = "no"
Tracked == {children[d] : d \in Domains} \ {None}
MinOf(a, b) == IF a < b THEN a ELSE b

-----------------------------------------------------------------------------
(* Starting.                                                               *)

\* spawnFor: a new process, and its entry whatever the Map held before.
Spawn(d, p) == /\ proc[p] = "none"
               /\ proc' = [proc EXCEPT ![p] = "live"]
               /\ of' = [of EXCEPT ![p] = d]
               /\ children' = [children EXCEPT ![d] = p]
               /\ late' = late \ {d}
               /\ UNCHANGED <<hung, sig>>

\* startTunnel, past its two refusals.
StartTunnel(d, p) == /\ UserStays
                     /\ d \notin diagnostic
                     /\ children[d] = None
                     /\ Spawn(d, p)
                     /\ UNCHANGED <<fresh, timers, diagnostic, watchdog, stops, quit, quitWait>>

\* A restart timer fires: it looks at neither the Map nor diagnosticMode.
RestartTimer(d, p) == /\ Running
                      /\ timers[d] > 0
                      /\ timers' = [timers EXCEPT ![d] = @ - 1]
                      /\ Spawn(d, p)
                      /\ UNCHANGED <<fresh, diagnostic, watchdog, stops, quit, quitWait>>

\* A restart whose spawn fails is logged and not tried again.
RestartFails(d) == /\ Running
                   /\ timers[d] > 0
                   /\ timers' = [timers EXCEPT ![d] = @ - 1]
                   /\ UNCHANGED <<children, fresh, diagnostic, watchdog, stops, quit, quitWait, late, processes>>

\* resetDiagnostic, from the modal.  Bound: a person is slower than the 500 ms
\* timers that may still be pending.
ResetDiagnostic(d) == /\ UserStays
                      /\ d \in diagnostic /\ timers[d] = 0
                      /\ diagnostic' = diagnostic \ {d}
                      /\ fresh' = [fresh EXCEPT ![d] = 0]
                      /\ UNCHANGED <<children, timers, watchdog, stops, quit, quitWait, late, processes>>

-----------------------------------------------------------------------------
(* The processes.                                                          *)

Ends(p, how) == /\ proc[p] = "live"
                /\ proc' = [proc EXCEPT ![p] = how]

\* A process ends: by itself, by a crash, or because it got SIGTERM.
ProcEnds(p) == /\ ~hung[p]
               /\ \E how \in {"exited", "crashed"} : Ends(p, how)
               /\ UNCHANGED <<manager, of, hung, sig>>

ProcHangs(p) == /\ proc[p] = "live"
                /\ hung' = [hung EXCEPT ![p] = TRUE]
                /\ UNCHANGED <<manager, proc, of, sig>>

\* handleStdoutLine: a heartbeat of p is credited to the domain's entry.
Heartbeat(p) == /\ Running /\ proc[p] = "live" /\ ~hung[p]
                /\ children[of[p]] # None
                /\ late' = late \ {of[p]}
                /\ UNCHANGED <<children, fresh, timers, diagnostic, watchdog, stops, quit, quitWait, processes>>

\* heartbeatToleranceMs pass without a heartbeat for the entry of d.
Overdue(d) == /\ Running /\ children[d] # None
              /\ late' = late \cup {d}
              /\ UNCHANGED <<children, fresh, timers, diagnostic, watchdog, stops, quit, quitWait, processes>>

\* handleExit after a crash, k earlier ones being still inside the window.
HandleExit(d, k) ==
    /\ fresh' = [fresh EXCEPT ![d] = MinOf(k + 1, CrashLimit)]
    /\ IF k + 1 >= CrashLimit
       THEN diagnostic' = diagnostic \cup {d} /\ UNCHANGED timers
       ELSE timers' = [timers EXCEPT ![d] = @ + 1] /\ UNCHANGED diagnostic

\* Faulty variant: the entry is left in the Map.
ForgetEntryNot(d) == UNCHANGED <<children, late>>

\* this.children.delete(domainId): the entry of the domain, whoever's it is.
ForgetEntry(d) == /\ children' = [children EXCEPT ![d] = None]
                  /\ late' = late \ {d}

\* How many earlier crashes of d the filter keeps.  One whose timer is pending is
\* 500 ms old, and the 5 minutes of the window outlast the 5 s rounds of a quit.
StillFresh(d) == IF quit = "stopping" THEN {fresh[d]}
                 ELSE MinOf(timers[d], fresh[d]) .. fresh[d]

\* The exit event: the entry goes, a stopTunnel that waits for p resolves (and
\* deletes the entry again), and handleExit.
ExitEvent(p) ==
    /\ Running /\ proc[p] \in {"exited", "crashed"}
    /\ proc' = [proc EXCEPT ![p] = "none"]
    /\ of' = [of EXCEPT ![p] = None]
    /\ hung' = [hung EXCEPT ![p] = FALSE]
    /\ sig' = [sig EXCEPT ![p] = FALSE]
    /\ ForgetEntry(of[p])
    /\ stops' = stops \ {p}
    /\ quitWait' = quitWait \ {p}
    /\ IF proc[p] = "exited"
       THEN UNCHANGED <<fresh, timers, diagnostic>>
       ELSE \E k \in StillFresh(of[p]) : HandleExit(of[p], k)
    /\ UNCHANGED <<watchdog, quit>>

\* Faulty variant: the watchdog asks instead of killing.
WatchdogTickTerm(d) ==
    /\ Running /\ watchdog /\ d \in late
    /\ sig' = [sig EXCEPT ![children[d]] = TRUE]
    /\ UNCHANGED <<manager, proc, of, hung>>

\* tickWatchdog, for one entry: SIGKILL, unless the process is gone already.
WatchdogTick(d) ==
    /\ Running /\ watchdog /\ d \in late
    /\ Ends(children[d], "crashed")
    /\ sig' = [sig EXCEPT ![children[d]] = TRUE]
    /\ UNCHANGED <<manager, of, hung>>

-----------------------------------------------------------------------------
(* Stopping.                                                               *)

Terminate(P) == /\ sig' = [p \in Procs |-> sig[p] \/ (p \in P /\ proc[p] = "live")]
                /\ stops' = stops \cup P

\* stopTunnel, up to its await: SIGTERM.
StopTunnel(d) == /\ Running
                 /\ children[d] # None
                 /\ Terminate({children[d]})
                 /\ UNCHANGED <<children, fresh, timers, diagnostic, watchdog, quit, quitWait, late,
                                proc, of, hung>>

\* Faulty variant: stopTunnel waits for the exit however long it takes.
StopTimeoutNever(p) == FALSE /\ p \in stops /\ UNCHANGED vars

\* stopTunnel's 5 s timer: SIGKILL only if !child.killed, which the SIGTERM has
\* set; then the entry of the domain goes, whoever's it is.
StopTimeout(p) ==
    /\ Running /\ p \in stops
    /\ IF ~sig[p] /\ proc[p] = "live"
       THEN Ends(p, "crashed") /\ sig' = [sig EXCEPT ![p] = TRUE]
       ELSE UNCHANGED <<proc, sig>>
    /\ stops' = stops \ {p}
    /\ quitWait' = quitWait \ {p}
    /\ ForgetEntry(of[p])
    /\ UNCHANGED <<fresh, timers, diagnostic, watchdog, quit, of, hung>>

\* stop(), on suspend and on sign-out: nothing sets the watchdog again.
StopAll == /\ Running /\ watchdog
           /\ watchdog' = FALSE
           /\ Terminate(Tracked)
           /\ UNCHANGED <<children, fresh, timers, diagnostic, quit, quitWait, late, proc, of, hung>>

\* before-quit: with children, stop() and quit again when it is done.
BeforeQuit == /\ \/ quit = "no"
                 \/ quit = "stopping" /\ quitWait = {}
              /\ IF Tracked = {}
                 THEN /\ quit' = "gone"
                      /\ UNCHANGED <<watchdog, stops, quitWait, sig>>
                 ELSE /\ quit' = "stopping"
                      /\ watchdog' = FALSE
                      /\ Terminate(Tracked)
                      /\ quitWait' = Tracked
              /\ UNCHANGED <<children, fresh, timers, diagnostic, late, proc, of, hung>>

Next == \/ \E d \in Domains :
             \/ \E p \in Procs : StartTunnel(d, p) \/ RestartTimer(d, p)
             \/ RestartFails(d) \/ ResetDiagnostic(d) \/ StopTunnel(d)
             \/ Overdue(d) \/ WatchdogTick(d)
        \/ \E p \in Procs :
             \/ ProcEnds(p) \/ ProcHangs(p) \/ Heartbeat(p)
             \/ ExitEvent(p) \/ StopTimeout(p)
        \/ StopAll \/ BeforeQuit

Spec == Init /\ [][Next]_vars

\* Node's event loop delivers exits and timers; a hung child's heartbeat becomes
\* overdue; a quit that has begun goes on.  Users and processes may do nothing.
HungEntry(d) == children[d] # None /\ hung[children[d]]
Fairness == /\ \A p \in Procs : WF_vars(ExitEvent(p)) /\ WF_vars(StopTimeout(p))
            /\ \A d \in Domains :
                 /\ WF_vars((\E p \in Procs : RestartTimer(d, p)) \/ RestartFails(d))
                 /\ WF_vars(WatchdogTick(d))
                 /\ WF_vars(HungEntry(d) /\ Overdue(d))
            /\ WF_vars(quit = "stopping" /\ BeforeQuit)

FairSpec == Spec /\ Fairness

-----------------------------------------------------------------------------
(* Correctness.                                                            *)

\* The Map never names a process whose exit has been handled, nor one of another
\* binding, although an exit and a stop delete the entry by domain only.
EntryIsUnreaped ==
    \A d \in Domains : children[d] # None =>
        proc[children[d]] # "none" /\ of[children[d]] = d

\* S9.1: while the watchdog is set, a hung child does not stay tracked for ever;
\* a second process of the same binding may keep its entry fresh.
Alone(p) == \A q \in Procs \ {p} : proc[q] = "live" /\ of[q] = of[p] => hung[q]
HungAndTracked(p) == p \in Tracked /\ proc[p] = "live" /\ hung[p] /\ Alone(p)
WatchdogKillsHung ==
    \A p \in Procs : []<>~(quit # "gone" /\ watchdog /\ HungAndTracked(p))

\* The app's quit comes to its end: before-quit asks the children to stop as often
\* as there are any, each wait is bounded, and restarts are bounded by the limit.
QuitCompletes == quit = "stopping" ~> quit = "gone"
==============================================================================
