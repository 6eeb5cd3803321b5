-------------------------- MODULE DesktopClientProofs --------------------------
(***************************************************************************)
(* Proofs about DesktopClient, for any number of rows, ports, IPC calls    *)
(* and clicks: what the sidecars forward, and what the views show.         *)
(***************************************************************************)
EXTENDS DesktopClient, TLAPS

\* Binds have a row and a port, stops have a row; an end is awaited only in "stopping".
Call == {k \in [kind : {"idle", "fetch", "key", "bind", "unbind"},
                pc : {"idle", "read", "wait", "create", "bind", "spawn", "stop", "stopping",
                      "unbind"},
                row : 0..NumRows, port : Ports \cup {None},
                tab : {"none", "services", "domains"}, mounted : BOOLEAN, asked : BOOLEAN,
                got : Seq(RowStates), doubt : BOOLEAN, child : Procs \cup {None}] :
           /\ k.pc \in {"create", "bind", "spawn"} => k.row \in Rows /\ k.port \in Ports
           /\ k.pc \in {"stop", "stopping", "unbind"} => k.row \in Rows
           /\ k.pc # "stopping" => k.child = None}
View == [tab : {"services", "domains", "other"}, booted : BOOLEAN, signedIn : BOOLEAN,
         modal : {"closed", "open", "busy"}, shown : Seq(RowStates), error : BOOLEAN,
         refreshing : BOOLEAN, busy : SUBSET Rows]

\* As much of the types as the proof needs.
Types == cloud \in [Rows -> RowStates] /\ ui \in View /\ calls \in [Calls -> Call]
Processes == /\ proc \in [Procs -> Sidecars] /\ children \in [Rows -> Procs \cup {None}]
             /\ timers \in [Rows -> Seq(Ports)] /\ \A r \in Rows : Len(timers[r]) <= 2
             /\ suspended \subseteq Procs

\* A row that was not raced has one call at most.
OneCall == \A c, d \in Calls :
    calls[c].row \in Rows \ raced /\ calls[c].row = calls[d].row => c = d

\* What a call of such a row has already done, or found, is still so.
Progress == \A c \in Calls : \A r \in Rows \ raced : calls[c].row = r =>
    /\ calls[c].pc \in {"create", "bind", "spawn"} /\ r \notin retargeted => Forwards(r) = {}
    /\ calls[c].pc \in {"bind", "spawn"} => cloud[r].port = calls[c].port
    /\ calls[c].pc = "spawn" => cloud[r].own = "here"
    /\ calls[c].pc = "unbind" /\ r \notin adrift => Forwards(r) = {}

\* The inductive invariant behind TunnelIsBound.
Inv == Types /\ Processes /\ OneCall /\ Progress /\ TunnelIsBound

-----------------------------------------------------------------------------
LEMMA Records ==
    /\ Idle \in Call /\ Idle.row = 0 /\ NoRow \in RowStates
    /\ \A asked \in BOOLEAN : Fetch(asked) \in Call /\ Fetch(asked).row = 0
    /\ \A view \in View : Fetching(view) \in View
    /\ 0 \notin Rows
<1>1. 0 \in 0..NumRows /\ 0 \notin Rows BY RowsAreNumbered DEF Rows
<1>2. <<>> \in Seq(RowStates) OBVIOUS
<1>3. Idle \in Call /\ Idle.row = 0 BY <1>1, <1>2 DEF Idle, Call
<1>4. \A asked \in BOOLEAN : Fetch(asked) \in Call /\ Fetch(asked).row = 0
  BY <1>1, <1>2 DEF Fetch, Idle, Call
<1>. QED BY <1>1, <1>3, <1>4 DEF NoRow, RowStates, Owners, Fetching, View

\* A sidecar's port, and that of a restart, are among those forwarded; nothing else is.
LEMMA ForwardsOf ==
    ASSUME NEW r \in Rows
    PROVE  /\ \A p \in Procs : proc[p].row = r => proc[p].port \in Forwards(r)
           /\ \A i \in DOMAIN timers[r] : timers[r][i] \in Forwards(r)
BY DEF Forwards

LEMMA ForwardsShrink ==
    ASSUME NEW r \in Rows,
           \A p \in Procs : proc'[p].row = r => proc'[p].port \in Forwards(r),
           \A i \in DOMAIN timers'[r] : timers'[r][i] \in Forwards(r)
    PROVE  Forwards(r)' \subseteq Forwards(r)
<1>. DEFINE F == Forwards(r)
<1>. HIDE DEF F
<1>1. /\ \A p \in Procs : proc'[p].row = r => proc'[p].port \in F
      /\ \A i \in DOMAIN timers'[r] : timers'[r][i] \in F
  BY DEF F
<1>2. Forwards(r)' \subseteq F BY <1>1 DEF Forwards
<1>. QED BY <1>2 DEF F

LEMMA InvInit == Init => Inv
<1>. SUFFICES ASSUME Init PROVE Inv OBVIOUS
<1>1. cloud \in [Rows -> RowStates] BY Records DEF Init, RowStates, Owners
<1>2. Processes
  <2>1. <<>> \in Seq(Ports) /\ Len(<<>>) = 0 OBVIOUS
  <2>. QED BY <2>1 DEF Init, Processes, Sidecars
<1>3. ui \in View BY DEF Init, Opened, View
<1>4. /\ calls \in [Calls -> Call]
      /\ \A c \in Calls : calls[c].row \notin Rows
  BY Records DEF Init
<1>5. \A r \in Rows : Forwards(r) = {} BY Records DEF Init, Forwards, Gone
<1>6. TunnelIsBound BY <1>5 DEF TunnelIsBound
<1>. QED BY <1>1, <1>2, <1>3, <1>4, <1>6 DEF Inv, Types, OneCall, Progress

\* Steps that change neither the cloud nor what is forwarded for the better: calls end, or
\* have stopped what they could, and then a row of theirs that is forwarded for is adrift.
LEMMA EndingStep ==
    ASSUME Inv, NEW R, UNCHANGED <<cloud, raced, retargeted>>,
           \A r \in Rows : Forwards(r)' \subseteq Forwards(r),
           \A r \in Rows \ adrift' : r \in R \/ r \in adrift => Forwards(r)' = {},
           \A c \in Calls : \/ calls'[c].row = 0
                            \/ /\ calls'[c].row = calls[c].row /\ calls'[c].port = calls[c].port
                               /\ \/ calls'[c].pc = calls[c].pc
                                  \/ calls'[c].pc = "stopping"
                                  \/ calls'[c].pc = "unbind" /\ calls[c].row \in R
    PROVE  OneCall' /\ Progress' /\ TunnelIsBound'
<1>0. 0 \notin Rows BY Records
<1>1. OneCall' BY <1>0 DEF Inv, OneCall
<1>2. Progress'
  <2>. SUFFICES ASSUME NEW c \in Calls, NEW r \in Rows \ raced, calls'[c].row = r
                PROVE
                  /\ calls'[c].pc \in {"create", "bind", "spawn"} /\ r \notin retargeted
                        => Forwards(r)' = {}
                  /\ calls'[c].pc \in {"bind", "spawn"} => cloud[r].port = calls'[c].port
                  /\ calls'[c].pc = "spawn" => cloud[r].own = "here"
                  /\ calls'[c].pc = "unbind" /\ r \notin adrift' => Forwards(r)' = {}
    BY DEF Progress
  <2>1. /\ calls[c].row = r /\ calls'[c].port = calls[c].port
        /\ \/ calls'[c].pc = calls[c].pc \/ calls'[c].pc = "stopping"
           \/ calls'[c].pc = "unbind" /\ r \in R
    BY <1>0
  <2>2. Forwards(r)' \subseteq Forwards(r) OBVIOUS
  <2>3. /\ calls[c].pc \in {"create", "bind", "spawn"} /\ r \notin retargeted => Forwards(r) = {}
        /\ calls[c].pc \in {"bind", "spawn"} => cloud[r].port = calls[c].port
        /\ calls[c].pc = "spawn" => cloud[r].own = "here"
        /\ calls[c].pc = "unbind" /\ r \notin adrift => Forwards(r) = {}
    BY <2>1 DEF Inv, Progress
  <2>. QED BY <2>1, <2>2, <2>3
<1>3. TunnelIsBound'
  <2>. SUFFICES ASSUME NEW r \in Rows \ (raced \cup adrift'), Forwards(r)' # {}
                PROVE  /\ cloud[r].own = "here"
                       /\ r \notin retargeted => Forwards(r)' = {cloud[r].port}
    BY DEF TunnelIsBound
  <2>1. r \notin adrift /\ Forwards(r)' \subseteq Forwards(r) OBVIOUS
  <2>2. /\ cloud[r].own = "here"
        /\ r \notin retargeted => Forwards(r) = {cloud[r].port}
    BY <2>1 DEF Inv, TunnelIsBound
  <2>. QED BY <2>1, <2>2
<1>. QED BY <1>1, <1>2, <1>3

LEMMA QuietStep ==
    ASSUME Inv, UNCHANGED <<cloud, raced, retargeted, adrift>>,
           \A r \in Rows : Forwards(r)' \subseteq Forwards(r),
           \A c \in Calls : \/ calls'[c].row = 0
                            \/ /\ calls'[c].row = calls[c].row
                               /\ calls'[c].pc = calls[c].pc /\ calls'[c].port = calls[c].port
    PROVE  OneCall' /\ Progress' /\ TunnelIsBound'
<1>. DEFINE R == {r \in Rows : r \notin adrift /\ Forwards(r)' = {}}
<1>1. \A r \in Rows \ adrift' : r \in R \/ r \in adrift => Forwards(r)' = {} OBVIOUS
<1>. HIDE DEF R
<1>. QED BY <1>1, EndingStep

\* The sidecars are as they were.
LEMMA SameProcesses ==
    ASSUME UNCHANGED processes
    PROVE  /\ Processes => Processes'
           /\ \A r \in Rows : Forwards(r)' = Forwards(r)
<1>1. UNCHANGED <<proc, children, timers, suspended>> BY DEF processes
<1>. QED BY <1>1 DEF Processes, Forwards

-----------------------------------------------------------------------------
(* The views and sign-in: no step touches the cloud, and calls only end.   *)

Ended(c, x) == calls' = [calls EXCEPT ![c] = x]

LEMMA EndStep ==
    ASSUME Inv, NEW c \in Calls, NEW x \in Call, x.row = 0, Ended(c, x),
           UNCHANGED <<cloud, processes, raced, retargeted, adrift>>, ui' \in View
    PROVE  Inv'
<1>1. calls' \in [Calls -> Call] /\ Types' BY DEF Inv, Types, Ended
<1>2. \A d \in Calls : calls'[d].row = 0 \/ calls'[d] = calls[d] BY DEF Inv, Types, Ended
<1>3. Processes' /\ \A r \in Rows : Forwards(r)' \subseteq Forwards(r)
  BY SameProcesses DEF Inv
<1>4. OneCall' /\ Progress' /\ TunnelIsBound' BY <1>2, <1>3, QuietStep
<1>. QED BY <1>1, <1>3, <1>4 DEF Inv

LEMMA SignedInStep ==
    ASSUME Inv, NEW c \in Calls, NEW view \in View, SignedInEffect(c, view),
           UNCHANGED <<cloud, processes, raced, retargeted, adrift>>
    PROVE  Inv'
<1>1. CASE view.tab = "other" \/ ui.signedIn
  BY <1>1, EndStep, Records DEF SignedInEffect, Ended
<1>2. CASE ~(view.tab = "other" \/ ui.signedIn)
  <2>1. Fetch(TRUE) \in Call /\ Fetch(TRUE).row = 0 /\ Fetching(view) \in View BY Records
  <2>2. Ended(c, Fetch(TRUE)) /\ ui' \in View BY <1>2, <2>1 DEF SignedInEffect, StartFetch, Ended
  <2>. QED BY <2>1, <2>2, EndStep
<1>. QED BY <1>1, <1>2

LEMMA ViewSteps ==
    ASSUME Inv, NEW c \in Calls,
           \/ \E tab \in {"services", "domains", "other"} : ShowTab(c, tab)
           \/ Refresh(c) \/ ReadRow(c) \/ Arrive(c) \/ FetchFails(c)
           \/ Boot(c) \/ SubmitKey(c) \/ KeyAccepted(c) \/ KeyRefused(c) \/ Relaunch(c)
    PROVE  Inv'
<1>. USE DEF Inv, Types
<1>0. Idle \in Call /\ Idle.row = 0 BY Records
<1>1. ASSUME NEW tab \in {"services", "domains", "other"}, ShowTab(c, tab) PROVE Inv'
  <2>1. ui.signedIn \in BOOLEAN /\ Fetch(ui.signedIn) \in Call /\ Fetch(ui.signedIn).row = 0
    BY Records DEF View
  <2>2. \A d \in Calls : /\ Dropped[d] \in Call
                         /\ \/ Dropped[d].row = 0
                            \/ /\ Dropped[d].row = calls[d].row
                               /\ Dropped[d].pc = calls[d].pc /\ Dropped[d].port = calls[d].port
    <3>. SUFFICES ASSUME NEW d \in Calls
                  PROVE  /\ Dropped[d] \in Call
                         /\ \/ Dropped[d].row = 0
                            \/ /\ Dropped[d].row = calls[d].row
                               /\ Dropped[d].pc = calls[d].pc /\ Dropped[d].port = calls[d].port
      OBVIOUS
    <3>1. CASE calls[d].kind = "fetch" BY <1>0, <3>1 DEF Dropped
    <3>2. CASE calls[d].kind # "fetch"
      <4>1. calls[d] \in Call OBVIOUS
      <4>2. Dropped[d] = [calls[d] EXCEPT !.mounted = FALSE] BY <3>2 DEF Dropped
      <4>. QED BY <4>1, <4>2 DEF Call
    <3>. QED BY <3>1, <3>2
  <2>3. /\ calls' \in [Calls -> Call]
        /\ \A d \in Calls : \/ calls'[d].row = 0
                            \/ /\ calls'[d].row = calls[d].row
                               /\ calls'[d].pc = calls[d].pc /\ calls'[d].port = calls[d].port
    <3>1. \/ calls' = Dropped
          \/ calls' = [Dropped EXCEPT ![c] = Fetch(ui.signedIn)]
      BY <1>1 DEF ShowTab, Mount
    <3>2. Dropped \in [Calls -> Call] BY <2>2 DEF Dropped
    <3>. QED BY <2>1, <2>2, <3>1, <3>2
  <2>4. ui' \in View
    <3>1. <<>> \in Seq(RowStates) OBVIOUS
    <3>. QED BY <1>1, <3>1 DEF ShowTab, Mount, View
  <2>5. UNCHANGED <<cloud, processes, raced, retargeted, adrift>> BY <1>1 DEF ShowTab
  <2>6. Processes' /\ \A r \in Rows : Forwards(r)' \subseteq Forwards(r)
    BY <2>5, SameProcesses
  <2>7. OneCall' /\ Progress' /\ TunnelIsBound' BY <2>3, <2>5, <2>6, QuietStep
  <2>. QED BY <2>3, <2>4, <2>5, <2>6, <2>7
<1>2. ASSUME Refresh(c) PROVE Inv'
  <2>1. Fetch(ui.signedIn) \in Call /\ Fetch(ui.signedIn).row = 0 /\ Fetching(ui) \in View
    BY Records DEF View
  <2>2. Ended(c, Fetch(ui.signedIn)) /\ ui' \in View BY <1>2, <2>1 DEF Refresh, StartFetch, Ended
  <2>. QED BY <1>2, <2>1, <2>2, EndStep DEF Refresh, history
<1>3. ASSUME ReadRow(c) PROVE Inv'
  <2>. DEFINE r == Len(calls[c].got) + 1
  <2>1. calls[c] \in Call /\ calls[c].got \in Seq(RowStates) BY DEF Call
  <2>2. cloud[r] \in RowStates /\ NoRow \in RowStates BY <1>3, Records DEF ReadRow
  <2>3. PICK x \in RowStates : calls' = [calls EXCEPT ![c].got = Append(@, x)]
    BY <1>3, <2>2 DEF ReadRow
  <2>4. Append(calls[c].got, x) \in Seq(RowStates) BY <2>1
  <2>5. /\ calls' \in [Calls -> Call]
        /\ \A d \in Calls : /\ calls'[d].row = calls[d].row
                            /\ calls'[d].pc = calls[d].pc /\ calls'[d].port = calls[d].port
    BY <2>1, <2>3, <2>4 DEF Call
  <2>6. UNCHANGED <<cloud, processes, ui, raced, retargeted, adrift>> BY <1>3 DEF ReadRow
  <2>7. Processes' /\ \A q \in Rows : Forwards(q)' \subseteq Forwards(q)
    BY <2>6, SameProcesses
  <2>8. OneCall' /\ Progress' /\ TunnelIsBound' BY <2>5, <2>6, <2>7, QuietStep
  <2>. QED BY <2>5, <2>6, <2>7, <2>8
<1>4. ASSUME Arrive(c) PROVE Inv'
  <2>1. calls[c].got \in Seq(RowStates) BY DEF Call
  <2>2. StillBusy(calls[c].got) \in SUBSET Rows BY DEF StillBusy, View
  <2>3. ui' \in View BY <1>4, <2>1, <2>2 DEF Arrive, View
  <2>4. Ended(c, Idle) BY <1>4 DEF Arrive, EndFetch, Ended
  <2>. QED BY <1>0, <1>4, <2>3, <2>4, EndStep DEF Arrive
<1>5. ASSUME FetchFails(c) PROVE Inv'
  <2>1. ui' \in View BY <1>5 DEF FetchFails, View
  <2>2. Ended(c, Idle) BY <1>5 DEF FetchFails, EndFetch, Ended
  <2>. QED BY <1>0, <1>5, <2>1, <2>2, EndStep DEF FetchFails
<1>6. ASSUME Boot(c) PROVE Inv'
  <2>1. CASE session
    <3>1. [ui EXCEPT !.booted = TRUE, !.signedIn = TRUE] \in View BY DEF View
    <3>2. SignedInEffect(c, [ui EXCEPT !.booted = TRUE, !.signedIn = TRUE])
      BY <1>6, <2>1 DEF Boot
    <3>. QED BY <1>6, <3>1, <3>2, SignedInStep DEF Boot, history
  <2>2. CASE ~session
    <3>1. ui' \in View /\ UNCHANGED <<cloud, processes, calls, raced, retargeted, adrift>>
      BY <1>6, <2>2 DEF Boot, View, history
    <3>2. Processes' /\ \A r \in Rows : Forwards(r)' \subseteq Forwards(r)
      BY <3>1, SameProcesses
    <3>3. OneCall' /\ Progress' /\ TunnelIsBound' BY <3>1, <3>2, QuietStep
    <3>. QED BY <3>1, <3>2, <3>3
  <2>. QED BY <2>1, <2>2
<1>7. ASSUME SubmitKey(c) PROVE Inv'
  <2>. DEFINE x == [Idle EXCEPT !.kind = "key", !.pc = "wait"]
  <2>1. x \in Call /\ x.row = 0 BY <1>0 DEF Call, Idle
  <2>2. ui' \in View BY <1>7 DEF SubmitKey, View
  <2>3. Ended(c, x) BY <1>7 DEF SubmitKey, Ended
  <2>. QED BY <1>7, <2>1, <2>2, <2>3, EndStep DEF SubmitKey, history
<1>8. ASSUME KeyAccepted(c) PROVE Inv'
  <2>1. [ui EXCEPT !.signedIn = TRUE, !.modal = "closed"] \in View BY DEF View
  <2>2. SignedInEffect(c, [ui EXCEPT !.signedIn = TRUE, !.modal = "closed"])
    BY <1>8 DEF KeyAccepted
  <2>. QED BY <1>8, <2>1, <2>2, SignedInStep DEF KeyAccepted, history
<1>9. ASSUME KeyRefused(c) PROVE Inv'
  <2>1. ui' \in View BY <1>9 DEF KeyRefused, View
  <2>2. Ended(c, Idle) BY <1>9 DEF KeyRefused, Ended
  <2>. QED BY <1>0, <1>9, <2>1, <2>2, EndStep DEF KeyRefused, history
<1>10. ASSUME Relaunch(c) PROVE Inv'
  <2>1. Fetch(FALSE) \in Call /\ Fetch(FALSE).row = 0 BY Records
  <2>2. calls' \in [Calls -> Call] /\ \A d \in Calls : calls'[d].row = 0
    BY <1>0, <1>10, <2>1 DEF Relaunch
  <2>3. ui' \in View BY <1>10 DEF Relaunch, Opened, View
  <2>4. /\ UNCHANGED <<cloud, raced, retargeted, adrift>>
        /\ proc' \in [Procs -> Sidecars]
        /\ \A p \in Procs : /\ proc'[p].row \in {proc[p].row, 0}
                            /\ proc'[p].row = proc[p].row => proc'[p].port = proc[p].port
        /\ children' = [r \in Rows |-> None] /\ timers' = [r \in Rows |-> <<>>]
        /\ suspended' = {}
    <3>1. PICK P \in SUBSET {p \in Procs : proc[p] # Gone} :
            proc' = [p \in Procs |-> IF p \in P THEN [proc[p] EXCEPT !.orphan = TRUE] ELSE Gone]
      BY <1>10 DEF Relaunch
    <3>2. \A p \in Procs : proc[p] \in Sidecars BY DEF Processes
    <3>3. ASSUME NEW p \in Procs
          PROVE  /\ proc'[p] \in Sidecars /\ proc'[p].row \in {proc[p].row, 0}
                 /\ proc'[p].row = proc[p].row => proc'[p].port = proc[p].port
      BY <3>1, <3>2, Records DEF Sidecars, Gone
    <3>4. proc' = [p \in Procs |-> proc'[p]] BY <3>1
    <3>. QED BY <1>10, <3>3, <3>4 DEF Relaunch
  <2>5. Processes'
    <3>1. <<>> \in Seq(Ports) /\ Len(<<>>) = 0 OBVIOUS
    <3>. QED BY <2>4, <3>1 DEF Processes
  <2>6. \A r \in Rows : Forwards(r)' \subseteq Forwards(r)
    <3>. SUFFICES ASSUME NEW r \in Rows PROVE Forwards(r)' \subseteq Forwards(r) OBVIOUS
    <3>1. \A p \in Procs : proc'[p].row = r => proc'[p].port \in Forwards(r)
      BY <2>4, ForwardsOf, Records
    <3>2. DOMAIN timers'[r] = {} BY <2>4
    <3>. QED BY <3>1, <3>2, ForwardsShrink
  <2>7. OneCall' /\ Progress' /\ TunnelIsBound' BY <2>2, <2>4, <2>6, QuietStep
  <2>. QED BY <2>2, <2>3, <2>4, <2>5, <2>7
<1>. QED BY <1>1, <1>2, <1>3, <1>4, <1>5, <1>6, <1>7, <1>8, <1>9, <1>10

-----------------------------------------------------------------------------
(* The calls at work: each changes its own row and itself, nothing else.   *)

\* What TunnelIsBound and Progress say of the row r of the call c.
RowHolds(c, r) ==
    /\ Forwards(r) # {} /\ r \notin adrift =>
         /\ cloud[r].own = "here"
         /\ r \notin retargeted => Forwards(r) = {cloud[r].port}
    /\ calls[c].row = r =>
         /\ calls[c].pc \in {"create", "bind", "spawn"} /\ r \notin retargeted => Forwards(r) = {}
         /\ calls[c].pc \in {"bind", "spawn"} => cloud[r].port = calls[c].port
         /\ calls[c].pc = "spawn" => cloud[r].own = "here"
         /\ calls[c].pc = "unbind" /\ r \notin adrift => Forwards(r) = {}

LEMMA WorkStep ==
    ASSUME Inv, Types', Processes', NEW c \in Calls, UNCHANGED <<raced, retargeted, adrift>>,
           \A d \in Calls \ {c} : calls'[d] = calls[d],
           calls'[c].row \in {calls[c].row, 0},
           \A r \in Rows : r # calls[c].row => cloud'[r] = cloud[r] /\ Forwards(r)' = Forwards(r),
           \A r \in Rows \ raced : r = calls[c].row => RowHolds(c, r)'
    PROVE  Inv'
<1>0. 0 \notin Rows BY Records
<1>1. OneCall' BY <1>0 DEF Inv, OneCall
<1>2. TunnelIsBound'
  <2>. SUFFICES ASSUME NEW r \in Rows \ (raced \cup adrift), Forwards(r)' # {}
                PROVE  /\ cloud'[r].own = "here"
                       /\ r \notin retargeted => Forwards(r)' = {cloud'[r].port}
    BY DEF TunnelIsBound
  <2>1. CASE r = calls[c].row BY <2>1 DEF RowHolds
  <2>2. CASE r # calls[c].row BY <2>2 DEF Inv, TunnelIsBound
  <2>. QED BY <2>1, <2>2
<1>3. Progress'
  <2>. SUFFICES ASSUME NEW d \in Calls, NEW r \in Rows \ raced, calls'[d].row = r
                PROVE
                  /\ calls'[d].pc \in {"create", "bind", "spawn"} /\ r \notin retargeted
                        => Forwards(r)' = {}
                  /\ calls'[d].pc \in {"bind", "spawn"} => cloud'[r].port = calls'[d].port
                  /\ calls'[d].pc = "spawn" => cloud'[r].own = "here"
                  /\ calls'[d].pc = "unbind" /\ r \notin adrift => Forwards(r)' = {}
    BY DEF Progress
  <2>1. CASE d = c BY <1>0, <2>1 DEF RowHolds
  <2>2. CASE d # c
    <3>1. calls'[d] = calls[d] /\ r # calls[c].row BY <2>2 DEF Inv, OneCall
    <3>. QED BY <3>1 DEF Inv, Progress
  <2>. QED BY <2>1, <2>2
<1>. QED BY <1>1, <1>2, <1>3 DEF Inv

\* A new call; if another one is at work on its row, the row is raced from now on.
LEMMA StartStep ==
    ASSUME Inv, NEW c \in Calls, NEW r \in Rows, NEW call \in Call, StartCall(c, r, call),
           call.row = r, call.pc \in {"create", "stop"}, retargeted \subseteq retargeted',
           call.pc = "create" /\ Forwards(r) # {} => r \in retargeted'
    PROVE  Inv'
<1>1. /\ UNCHANGED <<cloud, processes, adrift>>
      /\ calls[c] = Idle /\ calls' = [calls EXCEPT ![c] = call]
      /\ raced' = IF InFlight(r) THEN raced \cup {r} ELSE raced
  BY DEF StartCall
<1>2. Types'
  <2>1. ui' \in View BY DEF Inv, Types, StartCall, View
  <2>. QED BY <1>1, <2>1 DEF Inv, Types
<1>3. /\ calls'[c] = call /\ \A d \in Calls \ {c} : calls'[d] = calls[d]
      /\ raced \subseteq raced'
      /\ r \notin raced' => \A d \in Calls : calls[d].row # r
  BY <1>1 DEF Inv, Types, InFlight
<1>4. OneCall' BY <1>3 DEF Inv, OneCall
<1>5. Processes' /\ \A q \in Rows : Forwards(q)' = Forwards(q) BY <1>1, SameProcesses DEF Inv
<1>6. TunnelIsBound' BY <1>1, <1>3, <1>5 DEF Inv, TunnelIsBound
<1>7. Progress'
  <2>. SUFFICES ASSUME NEW d \in Calls, NEW q \in Rows \ raced', calls'[d].row = q
                PROVE
                  /\ calls'[d].pc \in {"create", "bind", "spawn"} /\ q \notin retargeted'
                        => Forwards(q)' = {}
                  /\ calls'[d].pc \in {"bind", "spawn"} => cloud'[q].port = calls'[d].port
                  /\ calls'[d].pc = "spawn" => cloud'[q].own = "here"
                  /\ calls'[d].pc = "unbind" /\ q \notin adrift' => Forwards(q)' = {}
    BY DEF Progress
  <2>1. CASE d = c BY <1>1, <1>3, <1>5, <2>1
  <2>2. CASE d # c BY <1>1, <1>3, <1>5, <2>2 DEF Inv, Progress
  <2>. QED BY <2>1, <2>2
<1>. QED BY <1>2, <1>4, <1>5, <1>6, <1>7 DEF Inv

\* A call that has returned is over, and a fetch may follow it.
LEMMA AnsweredStep ==
    ASSUME Types, NEW c \in Calls, Answered(c)
    PROVE  /\ calls' \in [Calls -> Call] /\ ui' \in View
           /\ calls'[c].row = 0 /\ \A d \in Calls \ {c} : calls'[d] = calls[d]
<1>1. /\ Fetch(TRUE) \in Call /\ Fetch(TRUE).row = 0 /\ Idle \in Call /\ Idle.row = 0
  BY Records
<1>2. Unbusy(c) \in View BY DEF Types, Unbusy, View
<1>3. Fetching(Unbusy(c)) \in View BY <1>2, Records
<1>. QED BY <1>1, <1>2, <1>3 DEF Types, Answered, StartFetch

LEMMA WorkSteps ==
    ASSUME Inv, NEW c \in Calls,
           \/ \E r \in Rows : \/ \E p \in Ports \cup {BadPort} : ClickBind(c, r, p)
                             \/ ClickUnbind(c, r)
           \/ CreateSubdomain(c) \/ BindSubdomain(c) \/ \E p \in Procs : Spawn(c, p)
           \/ UnbindSubdomain(c) \/ CallFails(c)
    PROVE  Inv'
<1>. DEFINE k == calls[c].row
<1>0. /\ Types /\ Processes /\ calls[c] \in Call /\ Idle \in Call /\ Idle.row = 0 /\ 0 \notin Rows
      /\ calls \in [Calls -> Call]
  BY Records DEF Inv, Types
<1>1. k \in Rows \ raced => RowHolds(c, k)
  BY DEF Inv, TunnelIsBound, Progress, RowHolds
<1>2. ASSUME NEW r \in Rows, NEW p \in Ports \cup {BadPort}, ClickBind(c, r, p) PROVE Inv'
  <2>. DEFINE call == [Idle EXCEPT !.kind = "bind", !.pc = "create", !.row = r, !.port = p,
                                   !.tab = ui.tab, !.mounted = TRUE, !.doubt = r \in excused]
  <2>1. /\ r \in 0..NumRows /\ p \in Ports /\ ui.tab \in {"services", "domains"}
        /\ (r \in excused) \in BOOLEAN
    <3>1. p \in Ports BY <1>2 DEF ClickBind, ValidPort
    <3>2. ui.tab \in {"services", "domains"} BY <1>2, Zenon DEF ClickBind, Bindable
    <3>. QED BY <3>1, <3>2 DEF Rows
  <2>2. call \in Call /\ call.row = r /\ call.pc = "create" BY <1>0, <2>1 DEF Call, Idle
  <2>3. /\ StartCall(c, r, call) /\ retargeted \subseteq retargeted'
        /\ Forwards(r) # {} => r \in retargeted'
    BY <1>2 DEF ClickBind
  <2>. QED BY <2>2, <2>3, StartStep
<1>3. ASSUME NEW r \in Rows, ClickUnbind(c, r) PROVE Inv'
  <2>. DEFINE call == [Idle EXCEPT !.kind = "unbind", !.pc = "stop", !.row = r,
                                   !.tab = "domains", !.mounted = TRUE]
  <2>1. r \in 0..NumRows BY DEF Rows
  <2>2. call \in Call /\ call.row = r /\ call.pc = "stop" BY <1>0, <2>1 DEF Call
  <2>3. StartCall(c, r, call) /\ retargeted \subseteq retargeted' BY <1>3 DEF ClickUnbind
  <2>. QED BY <2>2, <2>3, StartStep
<1>4. ASSUME CreateSubdomain(c) PROVE Inv'
  <2>. DEFINE row == [own |-> IF cloud[k].own = "none" THEN "free" ELSE cloud[k].own,
                      port |-> calls[c].port]
  <2>1. /\ calls[c].pc = "create" /\ cloud' = [cloud EXCEPT ![k] = row]
        /\ calls' = [calls EXCEPT ![c].pc = "bind"]
        /\ UNCHANGED <<processes, ui, raced, retargeted, adrift>>
    BY <1>4 DEF CreateSubdomain
  <2>2. k \in Rows => row \in RowStates BY <1>0 DEF Types, RowStates, Owners, Call
  <2>3. [calls[c] EXCEPT !.pc = "bind"] \in Call BY <1>0, <2>1 DEF Call
  <2>4. Types' BY <1>0, <2>1, <2>2, <2>3 DEF Types
  <2>5. calls'[c].row = k /\ calls'[c].pc = "bind" /\ calls'[c].port = calls[c].port
    BY <1>0, <2>1 DEF Call
  <2>6. k \in Rows => cloud'[k] = row BY <1>0, <2>1 DEF Types
  <2>7. Processes' /\ \A r \in Rows : Forwards(r)' = Forwards(r) BY <1>0, <2>1, SameProcesses
  <2>8. \A r \in Rows \ raced : r = k => RowHolds(c, r)'
    BY <1>1, <2>1, <2>5, <2>6, <2>7 DEF RowHolds
  <2>9. \A r \in Rows : r # k => cloud'[r] = cloud[r] BY <1>0, <2>1 DEF Types
  <2>10. \A d \in Calls \ {c} : calls'[d] = calls[d] BY <1>0, <2>1
  <2>. QED BY <2>1, <2>4, <2>5, <2>7, <2>8, <2>9, <2>10, WorkStep
<1>5. ASSUME BindSubdomain(c) PROVE Inv'
  <2>1. /\ calls[c].pc = "bind" /\ cloud' = [cloud EXCEPT ![k].own = "here"]
        /\ calls' = [calls EXCEPT ![c].pc = "spawn"]
        /\ UNCHANGED <<processes, ui, raced, retargeted, adrift>>
    BY <1>5 DEF BindSubdomain
  <2>2. k \in Rows => /\ cloud'[k].own = "here" /\ cloud'[k].port = cloud[k].port
                      /\ cloud'[k] \in RowStates
    BY <1>0, <2>1 DEF Types, RowStates, Owners
  <2>3. [calls[c] EXCEPT !.pc = "spawn"] \in Call BY <1>0, <2>1 DEF Call
  <2>4. \A r \in Rows : r # k => cloud'[r] = cloud[r] BY <1>0, <2>1 DEF Types
  <2>5. Types' BY <1>0, <2>1, <2>2, <2>3, <2>4 DEF Types
  <2>6. calls'[c].row = k /\ calls'[c].pc = "spawn" /\ calls'[c].port = calls[c].port
    BY <1>0, <2>1 DEF Call
  <2>7. Processes' /\ \A r \in Rows : Forwards(r)' = Forwards(r) BY <1>0, <2>1, SameProcesses
  <2>8. \A r \in Rows \ raced : r = k => RowHolds(c, r)'
    BY <1>1, <2>1, <2>2, <2>6, <2>7 DEF RowHolds
  <2>9. \A d \in Calls \ {c} : calls'[d] = calls[d] BY <1>0, <2>1
  <2>. QED BY <2>1, <2>4, <2>5, <2>6, <2>7, <2>8, <2>9, WorkStep
<1>6. ASSUME NEW p \in Procs, Spawn(c, p) PROVE Inv'
  <2>. DEFINE new == [row |-> k, port |-> calls[c].port, orphan |-> FALSE]
  <2>1. /\ calls[c].pc = "spawn" /\ proc[p] = Gone /\ proc' = [proc EXCEPT ![p] = new]
        /\ children' = [children EXCEPT ![k] = p] /\ UNCHANGED <<timers, suspended>>
        /\ Answered(c) /\ UNCHANGED <<cloud, raced, retargeted, adrift>>
    BY <1>6 DEF Spawn, SpawnFor, history
  <2>2. /\ calls' \in [Calls -> Call] /\ ui' \in View /\ calls'[c].row = 0
        /\ \A d \in Calls \ {c} : calls'[d] = calls[d]
    BY <1>0, <2>1, AnsweredStep
  <2>3. new \in Sidecars /\ new.row = k /\ new.port = calls[c].port /\ k \in Rows
    BY <1>0, <2>1 DEF Call, Sidecars
  <2>. HIDE DEF new
  <2>4. Processes' BY <1>0, <2>1, <2>3 DEF Processes
  <2>5. proc'[p] = new /\ \A q \in Procs \ {p} : proc'[q] = proc[q]
    BY <1>0, <2>1 DEF Processes
  <2>6. \A r \in Rows : proc[p].row # r BY <1>0, <2>1 DEF Gone
  <2>7. ASSUME NEW r \in Rows, r # k PROVE Forwards(r)' = Forwards(r)
    <3>1. \A q \in Procs : /\ proc'[q].row = r <=> proc[q].row = r
                           /\ proc[q].row = r => proc'[q] = proc[q]
      BY <2>3, <2>5, <2>6, <2>7
    <3>2. {q \in Procs : proc'[q].row = r} = {q \in Procs : proc[q].row = r} BY <3>1
    <3>3. {proc'[q].port : q \in {x \in Procs : proc'[x].row = r}}
            = {proc[q].port : q \in {x \in Procs : proc[x].row = r}}
      BY <3>1, <3>2
    <3>. QED BY <2>1, <3>3 DEF Forwards
  <2>8. ASSUME NEW r \in Rows, r = k, Forwards(r) = {} PROVE Forwards(r)' = {calls[c].port}
    <3>1. /\ \A q \in Procs : proc[q].row # r
          /\ \A i \in DOMAIN timers[r] : FALSE
      BY <2>8, ForwardsOf
    <3>2. \A q \in Procs : proc'[q].row = r <=> q = p BY <2>3, <2>5, <2>8, <3>1
    <3>3. proc'[p].port = calls[c].port /\ timers' = timers BY <2>1, <2>3, <2>5
    <3>. QED BY <3>1, <3>2, <3>3 DEF Forwards
  <2>9. \A r \in Rows \ raced : r = k => RowHolds(c, r)'
    <3>. SUFFICES ASSUME NEW r \in Rows \ raced, r = k PROVE RowHolds(c, r)' OBVIOUS
    <3>1. /\ r \notin retargeted => Forwards(r) = {}
          /\ cloud[r].port = calls[c].port /\ cloud[r].own = "here"
      BY <1>1, <2>1 DEF RowHolds
    <3>2. r \notin retargeted => Forwards(r)' = {cloud[r].port} BY <2>8, <3>1
    <3>3. calls'[c].row # r BY <1>0, <2>2
    <3>4. UNCHANGED <<cloud, retargeted, adrift>> BY <2>1
    <3>. QED BY <3>1, <3>2, <3>3, <3>4 DEF RowHolds
  <2>10. Types' BY <1>0, <2>1, <2>2 DEF Types
  <2>. QED BY <2>1, <2>2, <2>4, <2>7, <2>9, <2>10, WorkStep
<1>7. ASSUME UnbindSubdomain(c) PROVE Inv'
  <2>1. /\ calls[c].pc = "unbind" /\ cloud' = [cloud EXCEPT ![k].own = "free"]
        /\ Answered(c) /\ UNCHANGED <<processes, raced, retargeted, adrift>>
    BY <1>7 DEF UnbindSubdomain
  <2>2. /\ calls' \in [Calls -> Call] /\ ui' \in View /\ calls'[c].row = 0
        /\ \A d \in Calls \ {c} : calls'[d] = calls[d]
    BY <1>0, <2>1, AnsweredStep
  <2>3. k \in Rows => cloud'[k] \in RowStates BY <1>0, <2>1 DEF Types, RowStates, Owners
  <2>4. \A r \in Rows : r # k => cloud'[r] = cloud[r] BY <1>0, <2>1 DEF Types
  <2>5. Types' BY <1>0, <2>1, <2>2, <2>3, <2>4 DEF Types
  <2>6. Processes' /\ \A r \in Rows : Forwards(r)' = Forwards(r) BY <1>0, <2>1, SameProcesses
  <2>7. \A r \in Rows \ raced : r = k => RowHolds(c, r)'
    BY <1>0, <1>1, <2>1, <2>2, <2>6 DEF RowHolds
  <2>. QED BY <2>1, <2>2, <2>4, <2>5, <2>6, <2>7, WorkStep
<1>8. ASSUME CallFails(c) PROVE Inv'
  <2>1. ui' \in View BY <1>0, <1>8 DEF CallFails, Unbusy, Types, View
  <2>. QED BY <1>0, <1>8, <2>1, EndStep DEF CallFails, Ended
<1>. QED BY <1>2, <1>3, <1>4, <1>5, <1>6, <1>7, <1>8

-----------------------------------------------------------------------------
(* The sidecars and the stops.                                             *)

SidecarStep == \/ \E p \in Procs : ProcEnds(p) \/ OrphanEnds(p) \/ SuspendTimeout(p)
               \/ \E r \in Rows : RestartFails(r) \/ \E p \in Procs : Restarts(r, p)
StopStep == SidecarStep \/ \E c \in Calls : StopTunnel(c) \/ StopTimeout(c)

\* A stop goes on.
Stopped(k, l) ==
    /\ k.pc \in {"stop", "stopping"} /\ l.pc \in {"stopping", "unbind"}
    /\ l.kind = k.kind /\ l.row = k.row /\ l.port = k.port /\ l.tab = k.tab
    /\ l.mounted = k.mounted /\ l.asked = k.asked /\ l.got = k.got /\ l.doubt = k.doubt

LEMMA StopsReturned ==
    ASSUME Types, NEW C \in SUBSET Calls, StopsReturn(C),
           \A x \in C : calls[x].pc \in {"stop", "stopping"}
    PROVE  /\ calls' \in [Calls -> Call]
           /\ \A x \in C : Stopped(calls[x], calls'[x]) /\ calls'[x].pc = "unbind"
           /\ \A x \in Calls \ C : calls'[x] = calls[x]
           /\ adrift \subseteq Rows => adrift' \subseteq Rows
           /\ \A r \in Rows \ adrift' :
                 r \in {calls[x].row : x \in C} \/ r \in adrift => Forwards(r)' = {}
<1>1. \A x \in Calls : calls[x] \in Call BY DEF Types
<1>2. calls' = [x \in Calls |-> IF x \in C THEN [calls[x] EXCEPT !.pc = "unbind", !.child = None]
                                ELSE calls[x]]
  BY DEF StopsReturn
<1>3. ASSUME NEW x \in C
      PROVE  /\ [calls[x] EXCEPT !.pc = "unbind", !.child = None] \in Call
             /\ Stopped(calls[x], [calls[x] EXCEPT !.pc = "unbind", !.child = None])
  BY <1>1 DEF Call, Stopped
<1>4. /\ calls' \in [Calls -> Call]
      /\ \A x \in C : calls'[x] = [calls[x] EXCEPT !.pc = "unbind", !.child = None]
      /\ \A x \in Calls \ C : calls'[x] = calls[x]
  BY <1>1, <1>2, <1>3
<1>5. \A x \in C : calls'[x].pc = "unbind"
  <2>. TAKE x \in C
  <2>1. calls[x] \in Call BY <1>1
  <2>2. [calls[x] EXCEPT !.pc = "unbind", !.child = None].pc = "unbind" BY <2>1 DEF Call
  <2>. QED BY <1>4, <2>2
<1>. DEFINE R == {calls[x].row : x \in C}
<1>6. adrift' = (adrift \ R) \cup {r \in R : Forwards(r)' # {}} BY DEF StopsReturn
<1>7. R \subseteq Rows BY <1>1 DEF Call
<1>8. \A r \in Rows \ adrift' : r \in R \/ r \in adrift => Forwards(r)' = {} BY <1>6
<1>. QED BY <1>3, <1>4, <1>5, <1>6, <1>7, <1>8

\* What a stop waits for is a sidecar, and only "stopping" waits.
LEMMA AwaitsInStopping ==
    ASSUME Types, NEW p \in Procs, NEW x \in Calls, calls[x].child = p
    PROVE  calls[x].pc = "stopping"
BY NoneIsNoProc DEF Types, Call

\* Restarts and crashes: a restart that is due forwards already.
LEMMA TimersOf ==
    ASSUME Processes, NEW r \in Rows
    PROVE  /\ timers[r] \in Seq(Ports) /\ Len(timers[r]) <= 2
           /\ timers[r] # <<>> => /\ Head(timers[r]) \in Ports /\ Head(timers[r]) \in Forwards(r)
                                  /\ Tail(timers[r]) \in Seq(Ports) /\ Len(Tail(timers[r])) <= 2
                                  /\ \A i \in DOMAIN Tail(timers[r]) :
                                        Tail(timers[r])[i] \in Forwards(r)
<1>1. timers[r] \in Seq(Ports) /\ Len(timers[r]) <= 2 BY DEF Processes
<1>2. ASSUME timers[r] # <<>>
      PROVE  /\ Head(timers[r]) \in Ports /\ Head(timers[r]) = timers[r][1]
             /\ 1 \in DOMAIN timers[r]
             /\ Tail(timers[r]) \in Seq(Ports) /\ Len(Tail(timers[r])) <= 2
             /\ \A i \in DOMAIN Tail(timers[r]) : /\ i + 1 \in DOMAIN timers[r]
                                                  /\ Tail(timers[r])[i] = timers[r][i + 1]
  BY <1>1, <1>2
<1>. QED BY <1>1, <1>2, ForwardsOf

\* Of all these steps only those that restart or end a sidecar change what is forwarded,
\* and none forwards for a row, or to a port, that was not forwarded to or about to be.
LEMMA SidecarsShrink ==
    ASSUME Types, Processes, StopStep
    PROVE  Processes' /\ \A r \in Rows : Forwards(r)' \subseteq Forwards(r)
<1>0. /\ \A p \in Procs : proc[p] \in Sidecars /\ proc[p].row \in Rows \cup {0}
      /\ \A p \in Procs : proc[p] # Gone => proc[p].row \in Rows /\ proc[p].port \in Ports
      /\ Gone \in Sidecars /\ Gone.row = 0 /\ 0 \notin Rows
  BY Records DEF Processes, Sidecars, Gone
<1>1. ASSUME NEW p \in Procs, ProcEnds(p)
      PROVE  Processes' /\ \A r \in Rows : Forwards(r)' \subseteq Forwards(r)
  <2>. DEFINE k == proc[p].row
  <2>1. /\ k \in Rows /\ proc[p].port \in Ports /\ proc[p].port \in Forwards(k)
        /\ proc' = [proc EXCEPT ![p] = Gone] /\ children' = [children EXCEPT ![k] = None]
        /\ suspended' = suspended \ {p}
    BY <1>0, <1>1, ForwardsOf DEF ProcEnds
  <2>2. \/ timers' = timers
        \/ Len(timers[k]) < 2 /\ timers' = [timers EXCEPT ![k] = Append(@, proc[p].port)]
    BY <1>1 DEF ProcEnds, RestartDue
  <2>3. /\ timers' \in [Rows -> Seq(Ports)] /\ \A r \in Rows : Len(timers'[r]) <= 2
        /\ \A r \in Rows : \A i \in DOMAIN timers'[r] :
              \/ i \in DOMAIN timers[r] /\ timers'[r][i] = timers[r][i]
              \/ r = k /\ timers'[r][i] = proc[p].port
    <3>1. CASE timers' = timers
      <4>1. timers \in [Rows -> Seq(Ports)] /\ \A r \in Rows : Len(timers[r]) <= 2
        BY DEF Processes
      <4>. QED BY <3>1, <4>1
    <3>2. CASE Len(timers[k]) < 2 /\ timers' = [timers EXCEPT ![k] = Append(@, proc[p].port)]
      <4>1. /\ timers[k] \in Seq(Ports) /\ timers \in [Rows -> Seq(Ports)]
            /\ \A r \in Rows : Len(timers[r]) <= 2
        BY <2>1 DEF Processes
      <4>2. /\ timers'[k] = Append(timers[k], proc[p].port)
            /\ \A r \in Rows \ {k} : timers'[r] = timers[r]
            /\ DOMAIN timers' = Rows /\ timers' = [r \in Rows |-> timers'[r]]
        BY <2>1, <3>2, <4>1
      <4>3. /\ Append(timers[k], proc[p].port) \in Seq(Ports)
            /\ Len(Append(timers[k], proc[p].port)) <= 2
            /\ \A i \in DOMAIN Append(timers[k], proc[p].port) :
                 \/ i \in DOMAIN timers[k] /\ Append(timers[k], proc[p].port)[i] = timers[k][i]
                 \/ Append(timers[k], proc[p].port)[i] = proc[p].port
        BY <2>1, <3>2, <4>1
      <4>4. \A r \in Rows : /\ timers'[r] \in Seq(Ports) /\ Len(timers'[r]) <= 2
                            /\ \A i \in DOMAIN timers'[r] :
                                 \/ i \in DOMAIN timers[r] /\ timers'[r][i] = timers[r][i]
                                 \/ r = k /\ timers'[r][i] = proc[p].port
        <5>. TAKE r \in Rows
        <5>1. CASE r = k BY <4>2, <4>3, <5>1
        <5>2. CASE r # k BY <4>1, <4>2, <5>2
        <5>. QED BY <5>1, <5>2
      <4>. QED BY <4>2, <4>4
    <3>. QED BY <2>2, <3>1, <3>2
  <2>4. Processes' BY <1>0, <2>1, <2>3 DEF Processes
  <2>5. ASSUME NEW r \in Rows PROVE Forwards(r)' \subseteq Forwards(r)
    <3>1. \A q \in Procs : proc'[q].row = r => proc'[q].port \in Forwards(r)
      BY <1>0, <2>1, ForwardsOf DEF Processes
    <3>2. \A i \in DOMAIN timers'[r] : timers'[r][i] \in Forwards(r)
      BY <2>1, <2>3, ForwardsOf
    <3>. QED BY <3>1, <3>2, ForwardsShrink
  <2>. QED BY <2>4, <2>5
<1>2. ASSUME NEW p \in Procs, OrphanEnds(p)
      PROVE  Processes' /\ \A r \in Rows : Forwards(r)' \subseteq Forwards(r)
  <2>1. proc' = [proc EXCEPT ![p] = Gone] /\ UNCHANGED <<children, timers, suspended>>
    BY <1>2 DEF OrphanEnds
  <2>2. Processes' BY <1>0, <2>1 DEF Processes
  <2>3. ASSUME NEW r \in Rows PROVE Forwards(r)' \subseteq Forwards(r)
    BY <1>0, <2>1, ForwardsOf, ForwardsShrink DEF Processes
  <2>. QED BY <2>2, <2>3
<1>3. ASSUME NEW r \in Rows, timers[r] # <<>>, timers' = [timers EXCEPT ![r] = Tail(@)]
      PROVE  /\ timers' \in [Rows -> Seq(Ports)] /\ \A q \in Rows : Len(timers'[q]) <= 2
             /\ \A q \in Rows : \A i \in DOMAIN timers'[q] : timers'[q][i] \in Forwards(q)
  <2>1. timers'[r] = Tail(timers[r]) /\ \A q \in Rows \ {r} : timers'[q] = timers[q]
    BY <1>3 DEF Processes
  <2>2. \A q \in Rows : /\ timers'[q] \in Seq(Ports) /\ Len(timers'[q]) <= 2
                        /\ \A i \in DOMAIN timers'[q] : timers'[q][i] \in Forwards(q)
    <3>. TAKE q \in Rows
    <3>1. CASE q = r BY <1>3, <2>1, <3>1, TimersOf
    <3>2. CASE q # r BY <2>1, <3>2, TimersOf, ForwardsOf
    <3>. QED BY <3>1, <3>2
  <2>3. timers' = [q \in Rows |-> timers'[q]] BY <1>3 DEF Processes
  <2>. QED BY <2>2, <2>3
<1>4. ASSUME NEW r \in Rows, NEW p \in Procs, Restarts(r, p)
      PROVE  Processes' /\ \A q \in Rows : Forwards(q)' \subseteq Forwards(q)
  <2>. DEFINE new == [row |-> r, port |-> Head(timers[r]), orphan |-> FALSE]
  <2>1. /\ timers[r] # <<>> /\ timers' = [timers EXCEPT ![r] = Tail(@)]
        /\ proc' = [proc EXCEPT ![p] = new] /\ children' = [children EXCEPT ![r] = p]
        /\ suspended' = suspended
    BY <1>4 DEF Restarts, SpawnFor
  <2>2. /\ Head(timers[r]) \in Ports /\ Head(timers[r]) \in Forwards(r) BY <2>1, TimersOf
  <2>3. new \in Sidecars /\ new.row = r /\ new.port \in Forwards(r) BY <2>2 DEF Sidecars
  <2>. HIDE DEF new
  <2>4. Processes' BY <1>3, <2>1, <2>3 DEF Processes
  <2>5. proc'[p] = new /\ \A q \in Procs \ {p} : proc'[q] = proc[q] BY <2>1 DEF Processes
  <2>6. ASSUME NEW q \in Rows PROVE Forwards(q)' \subseteq Forwards(q)
    <3>1. \A x \in Procs : proc'[x].row = q => proc'[x].port \in Forwards(q)
      BY <2>3, <2>5, ForwardsOf
    <3>. QED BY <1>3, <2>1, <3>1, ForwardsShrink
  <2>. QED BY <2>4, <2>6
<1>5. ASSUME NEW r \in Rows, RestartFails(r)
      PROVE  Processes' /\ \A q \in Rows : Forwards(q)' \subseteq Forwards(q)
  <2>1. /\ timers[r] # <<>> /\ timers' = [timers EXCEPT ![r] = Tail(@)]
        /\ UNCHANGED <<proc, children, suspended>>
    BY <1>5 DEF RestartFails
  <2>2. Processes' BY <1>3, <2>1 DEF Processes
  <2>3. ASSUME NEW q \in Rows PROVE Forwards(q)' \subseteq Forwards(q)
    BY <1>3, <2>1, ForwardsOf, ForwardsShrink
  <2>. QED BY <2>2, <2>3
<1>6. ASSUME UNCHANGED <<proc, timers>>, suspended' \subseteq suspended,
             children' = children \/ \E r \in Rows \cup {0} : children' = [children EXCEPT ![r] = None]
      PROVE  Processes' /\ \A q \in Rows : Forwards(q)' \subseteq Forwards(q)
  BY <1>6 DEF Processes, Forwards
<1>7. ASSUME NEW p \in Procs, SuspendTimeout(p)
      PROVE  Processes' /\ \A q \in Rows : Forwards(q)' \subseteq Forwards(q)
  BY <1>0, <1>6, <1>7 DEF SuspendTimeout
<1>8. ASSUME NEW c \in Calls, StopTunnel(c) \/ StopTimeout(c)
      PROVE  Processes' /\ \A q \in Rows : Forwards(q)' \subseteq Forwards(q)
  <2>1. calls[c].pc \in {"stop", "stopping"} BY <1>8 DEF StopTunnel, StopTimeout
  <2>2. calls[c].row \in Rows BY <2>1 DEF Types, Call
  <2>. QED BY <1>6, <1>8, <2>2 DEF StopTunnel, StopTimeout, processes
<1>. QED BY <1>1, <1>2, <1>4, <1>5, <1>7, <1>8 DEF StopStep, SidecarStep

\* Stops go on; a row of one that has returned is adrift if it is forwarded for.
GoesOn ==
    /\ others' = others \/ (others < MaxOthers /\ others' = others + 1)
    /\ calls' \in [Calls -> Call]
    /\ \A c \in Calls : calls'[c] = calls[c] \/ Stopped(calls[c], calls'[c])
    /\ adrift \subseteq Rows => adrift' \subseteq Rows
    /\ \E R : /\ \A c \in Calls : calls'[c].pc # calls[c].pc =>
                    calls'[c].pc = "stopping" \/ calls[c].row \in R
              /\ \A r \in Rows \ adrift' : r \in R \/ r \in adrift => Forwards(r)' = {}

\* And none does anything else than to let stops go on.
LEMMA StopsGoOn ==
    ASSUME Types, Processes, StopStep
    PROVE  /\ UNCHANGED <<cloud, session, net, ui, older, acts,
                          overtaken, excused, raced, retargeted>>
           /\ GoesOn
<1>1. UNCHANGED <<cloud, session, net, ui, older, acts, overtaken, excused, raced, retargeted>>
  BY DEF StopStep, SidecarStep, ProcEnds, OrphanEnds, SuspendTimeout, RestartFails, Restarts,
         StopTunnel, StopTimeout, history
<1>2. ASSUME NEW C \in SUBSET Calls, StopsReturn(C),
             \A x \in C : calls[x].pc \in {"stop", "stopping"},
             others' = others \/ (others < MaxOthers /\ others' = others + 1)
      PROVE  GoesOn
  <2>. DEFINE R == {calls[x].row : x \in C}
  <2>1. /\ calls' \in [Calls -> Call]
        /\ \A x \in C : Stopped(calls[x], calls'[x])
        /\ \A x \in Calls \ C : calls'[x] = calls[x]
        /\ adrift \subseteq Rows => adrift' \subseteq Rows
        /\ \A r \in Rows \ adrift' : r \in R \/ r \in adrift => Forwards(r)' = {}
    BY <1>2, StopsReturned
  <2>2. \A x \in C : calls[x].row \in R OBVIOUS
  <2>. HIDE DEF R
  <2>. QED BY <1>2, <2>1, <2>2 DEF GoesOn
<1>3. ASSUME UNCHANGED <<adrift, others>>, calls' \in [Calls -> Call],
             \A c \in Calls : calls'[c] # calls[c] =>
                Stopped(calls[c], calls'[c]) /\ calls'[c].pc = "stopping"
      PROVE  GoesOn
  <2>. DEFINE R == {r \in Rows : r \notin adrift /\ Forwards(r)' = {}}
  <2>1. \A r \in Rows \ adrift' : r \in R \/ r \in adrift => Forwards(r)' = {} BY <1>3
  <2>. HIDE DEF R
  <2>. QED BY <1>3, <2>1 DEF GoesOn
<1>4. ASSUME NEW p \in Procs, ProcEnds(p) PROVE GoesOn
  <2>. DEFINE C == {x \in Calls : calls[x].child = p}
  <2>1. \A x \in C : calls[x].pc \in {"stop", "stopping"} BY AwaitsInStopping
  <2>2. /\ StopsReturn(C) /\ C \in SUBSET Calls
        /\ others' = others \/ (others < MaxOthers /\ others' = others + 1)
    BY <1>4 DEF ProcEnds, RestartDue
  <2>. QED BY <1>2, <2>1, <2>2
<1>5. ASSUME NEW p \in Procs, OrphanEnds(p) \/ SuspendTimeout(p) PROVE GoesOn
  <2>1. UNCHANGED <<calls, others, adrift>> BY <1>5 DEF OrphanEnds, SuspendTimeout, history
  <2>2. calls' \in [Calls -> Call] BY <2>1 DEF Types
  <2>. QED BY <1>3, <2>1, <2>2
<1>6. ASSUME NEW r \in Rows, RestartFails(r) \/ \E p \in Procs : Restarts(r, p) PROVE GoesOn
  <2>1. UNCHANGED <<calls, others, adrift>> BY <1>6 DEF RestartFails, Restarts, history
  <2>2. calls' \in [Calls -> Call] BY <2>1 DEF Types
  <2>. QED BY <1>3, <2>1, <2>2
<1>7. ASSUME NEW c \in Calls, StopTimeout(c) \/ (StopTunnel(c) /\ children[calls[c].row] = None)
      PROVE  GoesOn
  <2>1. /\ StopsReturn({c}) /\ calls[c].pc \in {"stop", "stopping"} /\ others' = others
    BY <1>7 DEF StopTimeout, StopTunnel
  <2>. QED BY <1>2, <2>1
<1>8. ASSUME NEW c \in Calls, StopTunnel(c), children[calls[c].row] # None PROVE GoesOn
  <2>. DEFINE k == [calls[c] EXCEPT !.pc = "stopping", !.child = children[calls[c].row]]
  <2>1. calls[c].pc = "stop" /\ calls' = [calls EXCEPT ![c] = k] /\ UNCHANGED <<adrift, others>>
    BY <1>8 DEF StopTunnel
  <2>2. calls[c] \in Call /\ children[calls[c].row] \in Procs \cup {None}
    BY <2>1 DEF Types, Call, Processes
  <2>3. k \in Call /\ Stopped(calls[c], k) /\ k.pc = "stopping"
    BY <2>1, <2>2 DEF Call, Stopped
  <2>. HIDE DEF k
  <2>4. /\ calls' \in [Calls -> Call] /\ calls'[c] = k
        /\ \A x \in Calls \ {c} : calls'[x] = calls[x]
    BY <2>1, <2>3 DEF Types
  <2>. QED BY <1>3, <2>1, <2>3, <2>4
<1>9. GoesOn
  <2>. QED BY <1>4, <1>5, <1>6, <1>7, <1>8 DEF StopStep, SidecarStep
<1>. QED BY <1>1, <1>9

LEMMA StopSteps ==
    ASSUME Inv, StopStep
    PROVE  Inv'
<1>1. Types /\ Processes BY DEF Inv
<1>2. /\ UNCHANGED <<cloud, ui, raced, retargeted>> /\ calls' \in [Calls -> Call]
      /\ \A c \in Calls : calls'[c] = calls[c] \/ Stopped(calls[c], calls'[c])
  BY <1>1, StopsGoOn DEF GoesOn
<1>3. PICK R : /\ \A c \in Calls : calls'[c].pc # calls[c].pc =>
                      calls'[c].pc = "stopping" \/ calls[c].row \in R
               /\ \A r \in Rows \ adrift' : r \in R \/ r \in adrift => Forwards(r)' = {}
  BY <1>1, StopsGoOn DEF GoesOn
<1>4. Processes' /\ \A r \in Rows : Forwards(r)' \subseteq Forwards(r)
  BY <1>1, SidecarsShrink
<1>5. \A c \in Calls : /\ calls'[c].row = calls[c].row /\ calls'[c].port = calls[c].port
                       /\ \/ calls'[c].pc = calls[c].pc
                          \/ calls'[c].pc = "stopping"
                          \/ calls'[c].pc = "unbind" /\ calls[c].row \in R
  BY <1>2, <1>3 DEF Stopped
<1>6. OneCall' /\ Progress' /\ TunnelIsBound' BY <1>2, <1>3, <1>4, <1>5, EndingStep
<1>. QED BY <1>1, <1>2, <1>4, <1>6 DEF Inv, Types

-----------------------------------------------------------------------------
LEMMA InvNext == Inv /\ [Next]_vars => Inv'
<1>. SUFFICES ASSUME Inv, [Next]_vars PROVE Inv' OBVIOUS
<1>1. ASSUME NEW r \in Rows, Elsewhere(r) PROVE Inv'
  <2>1. PICK x \in RowStates : cloud' = [cloud EXCEPT ![r] = x]
    <3>1. PICK own \in {"none", "free", "elsewhere"} :
            cloud' = [cloud EXCEPT ![r] = IF own = "none" THEN NoRow ELSE [@ EXCEPT !.own = own]]
      BY <1>1 DEF Elsewhere
    <3>2. cloud[r] \in RowStates BY DEF Inv, Types
    <3>3. [cloud[r] EXCEPT !.own = own] \in RowStates BY <3>2 DEF RowStates, Owners
    <3>. QED BY <3>1, <3>3, Records
  <2>2. raced' = raced \cup {r} /\ UNCHANGED <<processes, ui, calls, retargeted, adrift>>
    BY <1>1 DEF Elsewhere
  <2>3. Types' /\ \A q \in Rows \ raced' : cloud'[q] = cloud[q]
    BY <2>1, <2>2 DEF Inv, Types
  <2>4. Processes' /\ \A q \in Rows : Forwards(q)' = Forwards(q)
    BY <2>2, SameProcesses DEF Inv
  <2>5. OneCall' BY <2>2 DEF Inv, OneCall
  <2>6. Progress' BY <2>2, <2>3, <2>4 DEF Inv, Progress
  <2>7. TunnelIsBound' BY <2>2, <2>3, <2>4 DEF Inv, TunnelIsBound
  <2>. QED BY <2>3, <2>4, <2>5, <2>6, <2>7 DEF Inv
<1>2. ASSUME OpenModal \/ CloseModal \/ Suspend \/ Resume \/ UNCHANGED vars PROVE Inv'
  <2>1. /\ UNCHANGED <<cloud, proc, children, timers, calls, raced, retargeted, adrift>>
        /\ \/ suspended' = suspended
           \/ suspended' = suspended \cup ({children[r] : r \in Rows} \ {None})
        /\ \/ ui' = ui
           \/ \E m \in {"closed", "open"} : ui' = [ui EXCEPT !.modal = m]
    BY <1>2 DEF OpenModal, CloseModal, Suspend, Resume, vars, history, processes
  <2>2. Types' BY <2>1 DEF Inv, Types, View
  <2>3. Processes' BY <2>1 DEF Inv, Processes
  <2>4. \A r \in Rows : Forwards(r)' \subseteq Forwards(r) BY <2>1 DEF Forwards
  <2>5. OneCall' /\ Progress' /\ TunnelIsBound' BY <2>1, <2>4, QuietStep
  <2>. QED BY <2>2, <2>3, <2>5 DEF Inv
<1>. QED BY <1>1, <1>2, ViewSteps, WorkSteps, StopSteps DEF Next, StopStep, SidecarStep

LEMMA Inductive == Spec => []Inv
<1>. QED BY InvInit, InvNext, PTL DEF Spec

\* The app forwards only for a row that is bound to this device, and to the port the row
\* names, whatever calls fail, overlap with what the user does, or are cut short by crashes,
\* restarts, sleeps and quits (ipc/handlers.ts CLOUD_BIND_PORT and CLOUD_UNBIND, manager.ts),
\* except for rows changed elsewhere or by two calls, and rows whose stop left a sidecar or
\* a restart behind.
THEOREM TunnelsAreBound == Spec => []TunnelIsBound
<1>. QED BY Inductive, PTL DEF Inv

-----------------------------------------------------------------------------
(* What the view shows.                                                    *)

\* What a call is at goes with its kind; what a fetch has read goes with what it asks.
Placed(k) == /\ k.kind = "bind" <=> k.pc \in {"create", "bind", "spawn"}
             /\ k.kind = "unbind" <=> k.pc \in {"stop", "stopping", "unbind"}
             /\ k.kind \in {"bind", "unbind"} <=> k.row \in Rows
             /\ Len(k.got) <= NumRows /\ (k.asked \/ k.got = <<>>)
Places == \A c \in Calls : Placed(calls[c])

\* The view shows all rows or none.
Shows == Len(ui.shown) \in {0, NumRows}

\* The fetches in flight are ordered by when they began.
Order == /\ older \in [Calls -> SUBSET Fetches] /\ overtaken \subseteq Fetches
         /\ \A f, g \in Calls : f \in older[g] => g \in Fetches /\ f # g
         /\ \A f, g, h \in Calls : f \in older[g] /\ g \in older[h] => f \in older[h]

\* A fetch that has not read the row r, or has read what it is now.
Good(f, r) == r \in DOMAIN calls[f].got => calls[f].got[r] = cloud[r]
Current == Fetches \ overtaken

\* The row is shown as it is or a fetch will bring it; and if one brings something else,
\* a younger one will put it right.
UpToDate(r) ==
    /\ ui.shown = <<>> \/ ui.shown[r] = cloud[r] \/ \E f \in Current : Good(f, r)
    /\ \A f \in Current : Good(f, r) \/ \E g \in Current : Good(g, r) /\ f \in older[g]

\* A bind has changed the row, and will have the view fetch it.
Changing(r) == \E c \in Calls : /\ calls[c].row = r /\ calls[c].mounted
                                /\ calls[c].kind = "bind" /\ calls[c].pc \in {"bind", "spawn"}
Fresh == ~ui.error => \A r \in Rows \ excused : Changing(r) \/ UpToDate(r)

\* A row that another device holds has been its from the start, and is read and shown so;
\* who asked to bind it nevertheless had been given a reason to doubt the view.
SeenAway == \A r \in Rows \ (raced \cup excused) : cloud[r].own = "elsewhere" =>
    /\ \A f \in Fetches : r \in DOMAIN calls[f].got => calls[f].got[r].own = "elsewhere"
    /\ ui.shown # <<>> => ui.shown[r].own = "elsewhere"
TakesAreDoubted == \A c \in Calls :
    /\ calls[c].kind = "bind" /\ calls[c].tab = "domains"
    /\ calls[c].row \notin raced /\ cloud[calls[c].row].own = "elsewhere"
    => calls[c].doubt

Bounded == /\ session \in BOOLEAN
           /\ net \in {"connected", "flicker", "reconnecting", "roaming", "offline"}
           /\ acts \in 0..MaxActs /\ others \in 0..MaxOthers
           /\ excused \subseteq Rows /\ raced \subseteq Rows
           /\ retargeted \subseteq Rows /\ adrift \subseteq Rows

\* The inductive invariant behind what the views show.
ViewInv == Bounded /\ Places /\ Shows /\ Order /\ Fresh /\ SeenAway /\ TakesAreDoubted

LEMMA Fields ==
    /\ Idle.kind = "idle" /\ Idle.pc = "idle" /\ Idle.got = <<>> /\ Placed(Idle)
    /\ \A a \in BOOLEAN : /\ Fetch(a).kind = "fetch" /\ Fetch(a).pc = "read"
                          /\ Fetch(a).got = <<>> /\ Placed(Fetch(a))
<1>1. 0 \notin Rows /\ NumRows \in Nat BY RowsAreNumbered DEF Rows
<1>2. Len(<<>>) = 0 OBVIOUS
<1>. QED BY <1>1, <1>2 DEF Idle, Fetch, Placed

LEMMA ViewInvInit == Init => ViewInv
<1>. SUFFICES ASSUME Init PROVE ViewInv OBVIOUS
<1>0. NumRows \in Nat /\ MaxActs \in Nat /\ MaxOthers \in Nat BY RowsAreNumbered, BoundsAreNat
<1>1. PICK c \in Calls : calls = [x \in Calls |-> IF x = c THEN Fetch(FALSE) ELSE Idle]
  BY DEF Init
<1>2. /\ \A x \in Calls : calls[x].got = <<>> /\ Placed(calls[x]) /\ calls[x].kind # "bind"
      /\ Fetches \subseteq {c}
  BY <1>1, Fields DEF Fetches
<1>3. ui.shown = <<>> /\ older = NoneOlder /\ overtaken = {} BY DEF Init, Opened
<1>4. Bounded BY <1>0 DEF Init, Bounded
<1>5. Places BY <1>2 DEF Places
<1>6. Shows BY <1>3 DEF Shows
<1>7. Order BY <1>3 DEF Order, NoneOlder
<1>8. Fresh BY <1>2, <1>3 DEF Fresh, UpToDate, Good, Current, Fetches
<1>9. SeenAway BY <1>2, <1>3 DEF SeenAway, Fetches
<1>10. TakesAreDoubted BY <1>2 DEF TakesAreDoubted
<1>. QED BY <1>4, <1>5, <1>6, <1>7, <1>8, <1>9, <1>10 DEF ViewInv

-----------------------------------------------------------------------------
(* What a step may do to the view.                                         *)

\* What the view and its fetches rest on.
Views == Order /\ Fresh /\ SeenAway

\* Only a change elsewhere gives a row to another device.
NoneGoesAway ==
    /\ raced \subseteq raced'
    /\ \A r \in Rows \ raced' : cloud'[r].own = "elsewhere" => cloud[r].own = "elsewhere"

\* The view is blank, and the fetch c, if it is one, is its only one.
LEMMA BlankView ==
    ASSUME NEW c \in Calls, calls'[c].got = <<>>, Fetches' \subseteq {c},
           ui'.shown = <<>>, older' = NoneOlder, overtaken' = {}
    PROVE  Views'
<1>1. Order' BY DEF Order, NoneOlder
<1>2. \A f \in Fetches' : calls'[f].got = <<>> OBVIOUS
<1>3. Fresh' BY <1>2 DEF Fresh, UpToDate, Good, Current
<1>4. SeenAway' BY <1>2 DEF SeenAway
<1>. QED BY <1>1, <1>3, <1>4 DEF Views

\* The fetch c begins: whatever was changed before, it will bring.
LEMMA BeganView ==
    ASSUME Types, Views, NEW c \in Calls, NEW a \in BOOLEAN, calls[c].kind # "fetch",
           StartFetch(c, a), ui'.shown = ui.shown, overtaken' = overtaken,
           excused \subseteq excused', NoneGoesAway
    PROVE  Views'
<1>0. Fetch(a).kind = "fetch" /\ Fetch(a).got = <<>> BY Fields
<1>1. calls'[c] = Fetch(a) /\ \A x \in Calls \ {c} : calls'[x] = calls[x]
  BY DEF StartFetch, Types
<1>2. Fetches' = Fetches \cup {c} /\ c \notin Fetches BY <1>0, <1>1 DEF Fetches
<1>3. /\ older \in [Calls -> SUBSET Fetches] /\ Fetches \subseteq Calls
      /\ older' = [older EXCEPT ![c] = Fetches]
  BY DEF Views, Order, StartFetch, Fetches
<1>4. /\ older'[c] = Fetches
      /\ \A x \in Calls \ {c} : older'[x] = older[x]
      /\ \A x \in Calls : older[x] \subseteq Fetches
  BY <1>3
<1>5. Order'
  <2>1. older' \in [Calls -> SUBSET Fetches'] BY <1>2, <1>3
  <2>2. overtaken' \subseteq Fetches' BY <1>2 DEF Views, Order
  <2>3. \A f, g \in Calls : f \in older'[g] => g \in Fetches' /\ f # g
    BY <1>2, <1>4 DEF Views, Order
  <2>4. \A f, g, h \in Calls : f \in older'[g] /\ g \in older'[h] => f \in older'[h]
    BY <1>2, <1>4 DEF Views, Order
  <2>. QED BY <2>1, <2>2, <2>3, <2>4 DEF Order
<1>6. c \in Current' /\ \A f \in Current' : f = c \/ f \in older'[c]
  BY <1>2, <1>4 DEF Current, Views, Order
<1>7. \A r \in Rows : Good(c, r)' BY <1>0, <1>1 DEF Good
<1>8. Fresh' BY <1>6, <1>7 DEF Fresh, UpToDate
<1>9. SeenAway'
  <2>. SUFFICES ASSUME NEW r \in Rows \ (raced' \cup excused'), cloud'[r].own = "elsewhere"
                PROVE
                  /\ \A f \in Fetches' : r \in DOMAIN calls'[f].got =>
                        calls'[f].got[r].own = "elsewhere"
                  /\ ui'.shown # <<>> => ui'.shown[r].own = "elsewhere"
    BY DEF SeenAway
  <2>1. r \in Rows \ (raced \cup excused) /\ cloud[r].own = "elsewhere" BY DEF NoneGoesAway
  <2>. QED BY <1>0, <1>1, <1>2, <2>1 DEF Views, SeenAway, Fetches
<1>. QED BY <1>5, <1>8, <1>9 DEF Views

\* No fetch begins, reads or ends; rows that change are excused or are about to be fetched.
LEMMA SameView ==
    ASSUME Views, UNCHANGED <<older, overtaken>>,
           ui'.shown = ui.shown, ui'.error = ui.error,
           \A x \in Calls : calls'[x].kind = "fetch" <=> calls[x].kind = "fetch",
           \A x \in Calls : calls[x].kind = "fetch" => calls'[x].got = calls[x].got,
           excused \subseteq excused', NoneGoesAway,
           \A r \in Rows \ excused' :
              Changing(r)' \/ (cloud'[r] = cloud[r] /\ ~Changing(r))
    PROVE  Views'
<1>1. Fetches' = Fetches /\ Current' = Current BY DEF Fetches, Current
<1>2. \A f \in Fetches : calls'[f].got = calls[f].got BY DEF Fetches
<1>3. Order' BY <1>1 DEF Views, Order
<1>4. Fresh'
  <2>. SUFFICES ASSUME ~ui.error, NEW r \in Rows \ excused', ~Changing(r)'
                PROVE  UpToDate(r)'
    BY DEF Fresh
  <2>1. cloud'[r] = cloud[r] /\ UpToDate(r) BY DEF Views, Fresh
  <2>2. \A f \in Current : Good(f, r)' <=> Good(f, r) BY <1>2, <2>1 DEF Good, Current
  <2>. QED BY <1>1, <2>1, <2>2 DEF UpToDate
<1>5. SeenAway'
  <2>. SUFFICES ASSUME NEW r \in Rows \ (raced' \cup excused'), cloud'[r].own = "elsewhere"
                PROVE
                  /\ \A f \in Fetches : r \in DOMAIN calls'[f].got =>
                        calls'[f].got[r].own = "elsewhere"
                  /\ ui'.shown # <<>> => ui'.shown[r].own = "elsewhere"
    BY <1>1 DEF SeenAway
  <2>1. r \in Rows \ (raced \cup excused) /\ cloud[r].own = "elsewhere" BY DEF NoneGoesAway
  <2>. QED BY <1>2, <2>1 DEF Views, SeenAway
<1>. QED BY <1>3, <1>4, <1>5 DEF Views

\* The fetch c ends; its result is shown, or it has failed.
LEMMA EndedFetch ==
    ASSUME Types, Order, NEW c \in Calls, EndFetch(c),
           overtaken' \subseteq (overtaken \cup older[c]) \ {c}
    PROVE  /\ Order' /\ Fetches' = Fetches \ {c} /\ calls'[c] = Idle
           /\ \A x \in Calls \ {c} : calls'[x] = calls[x]
           /\ \A x \in Calls \ {c} : older'[x] = older[x] \ {c}
<1>1. calls'[c] = Idle /\ \A x \in Calls \ {c} : calls'[x] = calls[x]
  BY DEF EndFetch, Types
<1>2. Fetches' = Fetches \ {c} BY <1>1, Fields DEF Fetches
<1>3. /\ older' \in [Calls -> SUBSET Fetches'] /\ older'[c] = {}
      /\ \A x \in Calls \ {c} : older'[x] = older[x] \ {c}
  BY <1>2 DEF EndFetch, Order
<1>4. overtaken' \subseteq Fetches' BY <1>2 DEF Order
<1>5. \A f, g \in Calls : f \in older'[g] => f \in older[g] /\ f # c /\ g # c
  BY <1>3
<1>6. \A f, g \in Calls : f \in older'[g] => g \in Fetches' /\ f # g
  BY <1>2, <1>5 DEF Order
<1>7. \A f, g, h \in Calls : f \in older'[g] /\ g \in older'[h] => f \in older'[h]
  BY <1>3, <1>5 DEF Order
<1>. QED BY <1>1, <1>2, <1>3, <1>4, <1>6, <1>7 DEF Order

LEMMA ArriveView ==
    ASSUME Types, Places, Views, NEW c \in Calls, Arrive(c)
    PROVE  Views' /\ Shows'
<1>1. /\ calls[c].kind = "fetch" /\ Complete(calls[c]) /\ EndFetch(c)
      /\ overtaken' = (overtaken \cup older[c]) \ {c}
      /\ excused' = IF c \in overtaken THEN Rows ELSE excused
      /\ UNCHANGED <<cloud, raced>>
      /\ ui'.shown = calls[c].got /\ ui'.error = ui.error
  BY DEF Arrive, Types, View
<1>2. /\ Order' /\ Fetches' = Fetches \ {c} /\ calls'[c] = Idle
      /\ \A x \in Calls \ {c} : calls'[x] = calls[x]
      /\ \A x \in Calls \ {c} : older'[x] = older[x] \ {c}
  BY <1>1, EndedFetch DEF Views
<1>3. /\ calls[c].got \in Seq(RowStates) /\ c \in Fetches
      /\ calls[c].got = <<>> \/ Len(calls[c].got) = NumRows
  BY <1>1 DEF Types, Call, Places, Placed, Complete, Fetches
<1>4. ui'.shown # <<>> => DOMAIN calls[c].got = Rows BY <1>1, <1>3 DEF Rows
<1>5. Shows'
  <2>1. Len(<<>>) = 0 OBVIOUS
  <2>. QED BY <1>1, <1>3, <2>1 DEF Shows
<1>6. \A r \in Rows : Changing(r) => Changing(r)'
  BY <1>1, <1>2 DEF Changing
<1>7. Fresh'
  <2>. SUFFICES ASSUME ~ui.error, NEW r \in Rows \ excused', UpToDate(r) PROVE UpToDate(r)'
    BY <1>1, <1>6 DEF Fresh, Views
  <2>1. c \in Current /\ excused' = excused BY <1>1, <1>3 DEF Current
  <2>2. Current' = (Current \ older[c]) \ {c} BY <1>1, <1>2 DEF Current
  <2>3. \A f \in Current' : Good(f, r)' <=> Good(f, r)
    BY <1>1, <1>2 DEF Good, Current, Fetches
  <2>4. ui'.shown = <<>> \/ ui'.shown[r] = cloud'[r] \/ \E f \in Current' : Good(f, r)'
    <3>1. CASE Good(c, r) BY <1>1, <1>4, <3>1 DEF Good
    <3>2. CASE ~Good(c, r)
      <4>1. PICK g \in Current : Good(g, r) /\ c \in older[g] BY <2>1, <3>2 DEF UpToDate
      <4>2. g \notin older[c] /\ g # c BY <3>2, <4>1 DEF Views, Order, Current, Fetches
      <4>. QED BY <2>2, <2>3, <4>1, <4>2
    <3>. QED BY <3>1, <3>2
  <2>5. ASSUME NEW f \in Current', ~Good(f, r)
        PROVE  \E g \in Current' : Good(g, r) /\ f \in older'[g]
    <3>1. PICK g \in Current : Good(g, r) /\ f \in older[g] BY <2>2, <2>5 DEF UpToDate
    <3>2. f \notin older[c] /\ f # c BY <2>2
    <3>3. g # c /\ g \notin older[c] BY <3>1, <3>2 DEF Views, Order, Current, Fetches
    <3>. QED BY <1>2, <2>2, <3>1, <3>2, <3>3 DEF Current, Fetches
  <2>. QED BY <2>3, <2>4, <2>5 DEF UpToDate
<1>8. SeenAway'
  <2>. SUFFICES ASSUME NEW r \in Rows \ (raced' \cup excused'), cloud'[r].own = "elsewhere"
                PROVE
                  /\ \A f \in Fetches' : r \in DOMAIN calls'[f].got =>
                        calls'[f].got[r].own = "elsewhere"
                  /\ ui'.shown # <<>> => ui'.shown[r].own = "elsewhere"
    BY DEF SeenAway
  <2>1. r \in Rows \ (raced \cup excused) /\ cloud[r].own = "elsewhere" BY <1>1
  <2>. QED BY <1>1, <1>2, <1>3, <1>4, <2>1 DEF Views, SeenAway, Fetches
<1>. QED BY <1>2, <1>5, <1>7, <1>8 DEF Views

LEMMA FailsView ==
    ASSUME Types, Views, NEW c \in Calls, FetchFails(c)
    PROVE  Views'
<1>1. /\ EndFetch(c) /\ overtaken' = overtaken \ {c} /\ UNCHANGED <<cloud, raced, excused>>
      /\ ui'.shown = ui.shown /\ ui'.error = TRUE
  BY DEF FetchFails, Types, View
<1>2. /\ Order' /\ Fetches' = Fetches \ {c}
      /\ \A x \in Calls \ {c} : calls'[x] = calls[x]
  BY <1>1, EndedFetch DEF Views
<1>3. Fresh' BY <1>1 DEF Fresh
<1>4. SeenAway' BY <1>1, <1>2 DEF Views, SeenAway, Fetches
<1>. QED BY <1>2, <1>3, <1>4 DEF Views

LEMMA ReadView ==
    ASSUME Types, Places, Views, NEW c \in Calls, ReadRow(c)
    PROVE  Views' /\ Places'
<1>. DEFINE r == Len(calls[c].got) + 1
<1>0. calls[c] \in Call /\ calls[c].got \in Seq(RowStates) BY DEF Types, Call
<1>1. /\ calls[c].kind = "fetch" /\ calls[c].asked /\ r \in Rows
      /\ UNCHANGED <<cloud, ui, older, overtaken, raced>>
  BY DEF ReadRow
<1>2. PICK x \in {cloud[r], NoRow} :
         /\ calls' = [calls EXCEPT ![c].got = Append(@, x)]
         /\ excused \subseteq excused' /\ (x = cloud[r] \/ r \in excused')
  BY DEF ReadRow
<1>3. /\ calls'[c] = [calls[c] EXCEPT !.got = Append(calls[c].got, x)]
      /\ \A y \in Calls \ {c} : calls'[y] = calls[y]
  BY <1>2 DEF Types
<1>4. /\ calls'[c].got = Append(calls[c].got, x)
      /\ \A y \in Calls : /\ calls'[y].kind = calls[y].kind /\ calls'[y].row = calls[y].row
                          /\ calls'[y].pc = calls[y].pc /\ calls'[y].mounted = calls[y].mounted
                          /\ calls'[y].asked = calls[y].asked
  BY <1>0, <1>3 DEF Call
<1>5. /\ Len(calls'[c].got) = r /\ calls'[c].got[r] = x
      /\ DOMAIN calls'[c].got = DOMAIN calls[c].got \cup {r}
      /\ \A i \in DOMAIN calls[c].got : calls'[c].got[i] = calls[c].got[i]
  <2>1. x \in RowStates BY <1>1, <1>2, Records DEF Types
  <2>. QED BY <1>0, <1>4, <2>1
<1>6. Fetches' = Fetches /\ Current' = Current BY <1>1, <1>4 DEF Fetches, Current
<1>7. Order' BY <1>1, <1>6 DEF Views, Order
<1>8. Fresh'
  <2>. SUFFICES ASSUME ~ui.error, NEW q \in Rows \ excused', ~Changing(q)' PROVE UpToDate(q)'
    BY <1>1 DEF Fresh
  <2>1. UpToDate(q) BY <1>2, <1>4 DEF Views, Fresh, Changing
  <2>2. \A f \in Current : Good(f, q) => Good(f, q)'
    BY <1>1, <1>2, <1>3, <1>5 DEF Good, Current, Fetches
  <2>. QED BY <1>1, <1>6, <2>1, <2>2 DEF UpToDate
<1>9. SeenAway'
  <2>. SUFFICES ASSUME NEW q \in Rows \ (raced' \cup excused'), cloud'[q].own = "elsewhere"
                PROVE
                  /\ \A f \in Fetches' : q \in DOMAIN calls'[f].got =>
                        calls'[f].got[q].own = "elsewhere"
                  /\ ui'.shown # <<>> => ui'.shown[q].own = "elsewhere"
    BY DEF SeenAway
  <2>1. q \in Rows \ (raced \cup excused) /\ cloud[q].own = "elsewhere" BY <1>1, <1>2
  <2>2. /\ \A f \in Fetches : q \in DOMAIN calls[f].got => calls[f].got[q].own = "elsewhere"
        /\ ui.shown # <<>> => ui.shown[q].own = "elsewhere"
    BY <2>1 DEF Views, SeenAway
  <2>. QED BY <1>1, <1>2, <1>3, <1>5, <1>6, <2>1, <2>2 DEF Fetches
<1>10. Places'
  <2>. SUFFICES ASSUME NEW y \in Calls PROVE Placed(calls'[y]) BY DEF Places
  <2>1. CASE y = c
    <3>1. r <= NumRows BY <1>1, RowsAreNumbered DEF Rows
    <3>. QED BY <1>1, <1>4, <1>5, <2>1, <3>1 DEF Places, Placed
  <2>2. CASE y # c BY <1>3, <2>2 DEF Places
  <2>. QED BY <2>1, <2>2
<1>. QED BY <1>7, <1>8, <1>9, <1>10 DEF Views

\* A call that is no fetch goes on or ends; if it had changed its row for the view, it
\* still has, or the row is excused.
Changes(k) == k.mounted /\ k.kind = "bind" /\ k.pc \in {"bind", "spawn"}
LEMMA CallView ==
    ASSUME Types, Views, NEW c \in Calls, NEW k, calls' = [calls EXCEPT ![c] = k],
           calls[c].kind # "fetch", k.kind # "fetch", UNCHANGED <<older, overtaken>>,
           ui'.shown = ui.shown, ui'.error = ui.error,
           excused \subseteq excused', NoneGoesAway,
           \A r \in Rows \ excused' :
              cloud'[r] = cloud[r] \/ (r = calls[c].row /\ k.row = r /\ Changes(k)),
           Changes(calls[c]) =>
              calls[c].row \in excused' \/ (k.row = calls[c].row /\ Changes(k))
    PROVE  Views'
<1>1. calls'[c] = k /\ \A x \in Calls \ {c} : calls'[x] = calls[x] BY DEF Types
<1>2. /\ \A x \in Calls : calls'[x].kind = "fetch" <=> calls[x].kind = "fetch"
      /\ \A x \in Calls : calls[x].kind = "fetch" => calls'[x].got = calls[x].got
  BY <1>1
<1>3. ASSUME NEW r \in Rows \ excused'
      PROVE  Changing(r)' \/ (cloud'[r] = cloud[r] /\ ~Changing(r))
  <2>1. k.row = r /\ Changes(k) => Changing(r)' BY <1>1 DEF Changing, Changes
  <2>2. Changing(r) => Changing(r)' BY <1>1, <2>1 DEF Changing, Changes
  <2>. QED BY <2>1, <2>2
<1>. QED BY <1>2, <1>3, SameView

LEMMA SignedInView ==
    ASSUME Types, Views, NEW c \in Calls, NEW view, SignedInEffect(c, view),
           calls[c].kind \notin {"fetch", "bind"},
           view.shown = ui.shown, view \in View, view.error = ui.error,
           UNCHANGED <<cloud, history>>, NoneGoesAway
    PROVE  Views'
<1>0. UNCHANGED <<overtaken, excused, raced>> BY DEF history
<1>1. CASE view.tab = "other" \/ ui.signedIn
  <2>1. ui' = view /\ calls' = [calls EXCEPT ![c] = Idle] /\ UNCHANGED older
    BY <1>1 DEF SignedInEffect
  <2>2. ~Changes(calls[c]) BY DEF Changes
  <2>. QED BY <1>0, <2>1, <2>2, CallView, Fields
<1>2. CASE ~(view.tab = "other" \/ ui.signedIn)
  <2>1. ui' = Fetching(view) /\ StartFetch(c, TRUE) BY <1>2 DEF SignedInEffect
  <2>2. ui'.shown = ui.shown BY <2>1 DEF Fetching, View
  <2>. QED BY <1>0, <2>1, <2>2, BeganView
<1>. QED BY <1>1, <1>2

\* A call that has returned.
LEMMA AnsweredView ==
    ASSUME Types, Views, NEW c \in Calls, Answered(c), calls[c].kind # "fetch",
           UNCHANGED overtaken, excused \subseteq excused', NoneGoesAway,
           \A r \in Rows : cloud'[r] = cloud[r] \/ calls[c].mounted \/ r \in excused'
    PROVE  Views'
<1>0. Unbusy(c) \in View /\ Unbusy(c).shown = ui.shown /\ Unbusy(c).error = ui.error
  BY DEF Types, Unbusy, View
<1>1. CASE calls[c].mounted
  <2>1. ui'.shown = ui.shown /\ StartFetch(c, TRUE) BY <1>0, <1>1 DEF Answered, Fetching, View
  <2>. QED BY <2>1, BeganView
<1>2. CASE ~calls[c].mounted
  <2>1. calls' = [calls EXCEPT ![c] = Idle] /\ UNCHANGED <<ui, older>> BY <1>2 DEF Answered
  <2>2. ~Changes(calls[c]) BY <1>2 DEF Changes
  <2>. QED BY <1>2, <2>1, <2>2, CallView, Fields
<1>. QED BY <1>1, <1>2

-----------------------------------------------------------------------------
(* Each action, and the view.                                              *)

LEMMA DroppedFetches ==
    \A x \in Calls : Dropped[x] = Idle \/ (Dropped[x] = [calls[x] EXCEPT !.mounted = FALSE]
                                             /\ calls[x].kind # "fetch")
BY DEF Dropped

LEMMA ViewsOfWindow ==
    ASSUME Types, Places, Views, Shows, NoneGoesAway, NEW c \in Calls,
           \/ \E tab \in {"services", "domains", "other"} : ShowTab(c, tab)
           \/ Refresh(c) \/ ReadRow(c) \/ Arrive(c) \/ FetchFails(c)
           \/ Boot(c) \/ SubmitKey(c) \/ KeyAccepted(c) \/ KeyRefused(c) \/ Relaunch(c)
    PROVE  Views' /\ Shows'
<1>. USE DEF Types
<1>0. Len(<<>>) = 0 OBVIOUS
<1>1. ASSUME NEW tab \in {"services", "domains", "other"}, ShowTab(c, tab)
      PROVE  Views' /\ Shows'
  <2>1. /\ ui'.shown = <<>> /\ older' = NoneOlder /\ overtaken' = {} /\ Dropped[c] = Idle
        /\ \/ calls' = Dropped
           \/ calls' = [Dropped EXCEPT ![c] = Fetch(ui.signedIn)]
    BY <1>1 DEF ShowTab, Mount, View
  <2>2. \A x \in Calls : Dropped[x].kind # "fetch" BY DroppedFetches, Fields DEF Call
  <2>3. ui.signedIn \in BOOLEAN BY DEF View
  <2>4. Dropped = [x \in Calls |-> Dropped[x]] BY DEF Dropped
  <2>5. /\ calls'[c] = Idle \/ calls'[c] = Fetch(ui.signedIn)
        /\ \A x \in Calls \ {c} : calls'[x] = Dropped[x]
    BY <2>1, <2>4
  <2>6. calls'[c].got = <<>> /\ Fetches' \subseteq {c} BY <2>2, <2>3, <2>5, Fields DEF Fetches
  <2>. QED BY <1>0, <2>1, <2>6, BlankView DEF Shows
<1>2. ASSUME Refresh(c) PROVE Views' /\ Shows'
  <2>1. /\ calls[c].kind # "fetch" /\ StartFetch(c, ui.signedIn) /\ ui' = Fetching(ui)
        /\ UNCHANGED <<cloud, history>>
    BY <1>2, Fields DEF Refresh
  <2>2. ui.signedIn \in BOOLEAN /\ ui'.shown = ui.shown BY <2>1 DEF View, Fetching
  <2>3. UNCHANGED <<overtaken, excused>> BY <2>1 DEF history
  <2>. QED BY <2>1, <2>2, <2>3, BeganView DEF Shows
<1>3. ASSUME ReadRow(c) PROVE Views' /\ Shows'
  BY <1>3, ReadView DEF ReadRow, Shows
<1>4. ASSUME Arrive(c) PROVE Views' /\ Shows'
  BY <1>4, ArriveView
<1>5. ASSUME FetchFails(c) PROVE Views' /\ Shows'
  <2>1. ui'.shown = ui.shown BY <1>5 DEF FetchFails, View
  <2>. QED BY <1>5, <2>1, FailsView DEF Shows
<1>6. ASSUME NEW view \in View, view.shown = ui.shown, view.error = ui.error,
             SignedInEffect(c, view), calls[c] = Idle \/ calls[c].kind = "key",
             UNCHANGED <<cloud, history>>
      PROVE  Views' /\ Shows'
  <2>1. calls[c].kind \notin {"fetch", "bind"} BY <1>6, Fields
  <2>2. ui'.shown = ui.shown BY <1>6 DEF SignedInEffect, Fetching, View
  <2>. QED BY <1>6, <2>1, <2>2, SignedInView DEF Shows
<1>7. ASSUME NEW k, calls' = [calls EXCEPT ![c] = k], k.kind \in {"idle", "key"},
             calls[c] = Idle \/ calls[c].kind = "key", ui'.shown = ui.shown,
             ui'.error = ui.error, UNCHANGED <<cloud, older, history>>
      PROVE  Views' /\ Shows'
  <2>1. calls[c].kind \notin {"fetch", "bind"} /\ ~Changes(calls[c]) BY <1>7, Fields DEF Changes
  <2>2. UNCHANGED <<overtaken, excused>> BY <1>7 DEF history
  <2>. QED BY <1>7, <2>1, <2>2, CallView DEF Shows
<1>8. ASSUME Boot(c) PROVE Views' /\ Shows'
  <2>1. calls[c] = Idle /\ UNCHANGED <<cloud, history>> BY <1>8 DEF Boot
  <2>2. CASE session
    <3>. DEFINE view == [ui EXCEPT !.booted = TRUE, !.signedIn = TRUE]
    <3>1. view \in View /\ view.shown = ui.shown /\ view.error = ui.error BY DEF View
    <3>2. SignedInEffect(c, view) BY <1>8, <2>2 DEF Boot
    <3>. QED BY <1>6, <2>1, <3>1, <3>2
  <2>3. CASE ~session
    <3>1. ui'.shown = ui.shown /\ ui'.error = ui.error /\ UNCHANGED <<calls, older>>
      BY <1>8, <2>3 DEF Boot, View
    <3>2. calls' = [calls EXCEPT ![c] = Idle] BY <2>1, <3>1
    <3>. QED BY <1>7, <2>1, <3>1, <3>2, Fields
  <2>. QED BY <2>2, <2>3
<1>9. ASSUME SubmitKey(c) PROVE Views' /\ Shows'
  <2>. DEFINE k == [Idle EXCEPT !.kind = "key", !.pc = "wait"]
  <2>1. k.kind = "key" BY DEF Idle
  <2>2. ui'.shown = ui.shown /\ ui'.error = ui.error BY <1>9 DEF SubmitKey, View
  <2>. QED BY <1>7, <1>9, <2>1, <2>2 DEF SubmitKey
<1>10. ASSUME KeyAccepted(c) PROVE Views' /\ Shows'
  <2>. DEFINE view == [ui EXCEPT !.signedIn = TRUE, !.modal = "closed"]
  <2>1. view \in View /\ view.shown = ui.shown /\ view.error = ui.error BY DEF View
  <2>2. SignedInEffect(c, view) /\ calls[c].kind = "key" /\ UNCHANGED <<cloud, history>>
    BY <1>10 DEF KeyAccepted
  <2>. QED BY <1>6, <2>1, <2>2
<1>11. ASSUME KeyRefused(c) PROVE Views' /\ Shows'
  <2>1. ui'.shown = ui.shown /\ ui'.error = ui.error BY <1>11 DEF KeyRefused, View
  <2>. QED BY <1>7, <1>11, <2>1, Fields DEF KeyRefused
<1>12. ASSUME Relaunch(c) PROVE Views' /\ Shows'
  <2>1. ui'.shown = <<>> /\ older' = NoneOlder /\ overtaken' = {} BY <1>12 DEF Relaunch, Opened
  <2>2. calls'[c] = Fetch(FALSE) /\ \A x \in Calls \ {c} : calls'[x] = Idle
    BY <1>12 DEF Relaunch
  <2>3. calls'[c].got = <<>> /\ Fetches' \subseteq {c} BY <2>2, Fields DEF Fetches
  <2>. QED BY <1>0, <2>1, <2>3, BlankView DEF Shows
<1>. QED BY <1>1, <1>2, <1>3, <1>4, <1>5, <1>8, <1>9, <1>10, <1>11, <1>12

LEMMA ViewsOfWork ==
    ASSUME Types, Places, Views, Shows, NoneGoesAway, NEW c \in Calls,
           \/ \E r \in Rows : \/ \E p \in Ports \cup {BadPort} : ClickBind(c, r, p)
                             \/ ClickUnbind(c, r)
           \/ CreateSubdomain(c) \/ BindSubdomain(c) \/ \E p \in Procs : Spawn(c, p)
           \/ UnbindSubdomain(c) \/ CallFails(c)
    PROVE  Views' /\ Shows'
<1>. USE DEF Types
<1>0. calls[c] \in Call /\ Placed(calls[c]) BY DEF Places
<1>1. ASSUME NEW r \in Rows, NEW k, k.kind \in {"bind", "unbind"}, StartCall(c, r, k)
      PROVE  Views' /\ Shows'
  <2>1. /\ calls[c] = Idle /\ calls' = [calls EXCEPT ![c] = k]
        /\ ui'.shown = ui.shown /\ ui'.error = ui.error
        /\ UNCHANGED <<cloud, older, overtaken, excused>> /\ raced \subseteq raced'
    BY <1>1 DEF StartCall, View
  <2>2. calls[c].kind # "fetch" /\ ~Changes(calls[c]) BY <2>1, Fields DEF Changes
  <2>. QED BY <1>1, <2>1, <2>2, CallView DEF Shows
<1>2. ASSUME NEW r \in Rows, NEW p \in Ports \cup {BadPort}, ClickBind(c, r, p)
      PROVE  Views' /\ Shows'
  <2>. DEFINE k == [Idle EXCEPT !.kind = "bind", !.pc = "create", !.row = r, !.port = p,
                                !.tab = ui.tab, !.mounted = TRUE, !.doubt = r \in excused]
  <2>1. k.kind = "bind" BY DEF Idle
  <2>2. StartCall(c, r, k) BY <1>2 DEF ClickBind
  <2>. HIDE DEF k
  <2>. QED BY <1>1, <2>1, <2>2
<1>3. ASSUME NEW r \in Rows, ClickUnbind(c, r) PROVE Views' /\ Shows'
  <2>. DEFINE k == [Idle EXCEPT !.kind = "unbind", !.pc = "stop", !.row = r,
                                !.tab = "domains", !.mounted = TRUE]
  <2>1. k.kind = "unbind" BY DEF Idle
  <2>2. StartCall(c, r, k) BY <1>3 DEF ClickUnbind
  <2>. HIDE DEF k
  <2>. QED BY <1>1, <2>1, <2>2
\* A bind goes on to the place pc, and has changed its row.
<1>4. ASSUME NEW pc \in {"bind", "spawn"}, calls' = [calls EXCEPT ![c].pc = pc],
             calls[c].kind = "bind", Excuse(calls[c]),
             UNCHANGED <<ui, older, overtaken, raced>>,
             \A r \in Rows : r # calls[c].row => cloud'[r] = cloud[r]
      PROVE  Views' /\ Shows'
  <2>. DEFINE k == [calls[c] EXCEPT !.pc = pc]
  <2>1. calls' = [calls EXCEPT ![c] = k] BY <1>4
  <2>2. k.kind = "bind" /\ k.row = calls[c].row /\ k.mounted = calls[c].mounted /\ k.pc = pc
    BY <1>0, <1>4 DEF Call
  <2>. HIDE DEF k
  <2>4. excused \subseteq excused' /\ (calls[c].mounted \/ calls[c].row \in excused')
    BY <1>4 DEF Excuse
  <2>5. calls[c].mounted => Changes(k) BY <2>2 DEF Changes
  <2>6. \A r \in Rows \ excused' :
           cloud'[r] = cloud[r] \/ (r = calls[c].row /\ k.row = r /\ Changes(k))
    BY <1>4, <2>2, <2>4, <2>5
  <2>7. Changes(calls[c]) => k.row = calls[c].row /\ Changes(k) BY <2>2 DEF Changes
  <2>. QED BY <1>4, <2>1, <2>2, <2>4, <2>6, <2>7, CallView DEF Shows
<1>5. ASSUME CreateSubdomain(c) PROVE Views' /\ Shows'
  <2>1. /\ calls[c].pc = "create" /\ calls' = [calls EXCEPT ![c].pc = "bind"]
        /\ Excuse(calls[c]) /\ UNCHANGED <<ui, older, overtaken, raced>>
    BY <1>5 DEF CreateSubdomain
  <2>2. calls[c].kind = "bind" /\ calls[c].row \in Rows BY <1>0, <2>1 DEF Placed
  <2>3. \A r \in Rows : r # calls[c].row => cloud'[r] = cloud[r] BY <1>5 DEF CreateSubdomain
  <2>. QED BY <1>4, <2>1, <2>2, <2>3
<1>6. ASSUME BindSubdomain(c) PROVE Views' /\ Shows'
  <2>1. /\ calls[c].pc = "bind" /\ calls' = [calls EXCEPT ![c].pc = "spawn"]
        /\ Excuse(calls[c]) /\ UNCHANGED <<ui, older, overtaken, raced>>
        /\ cloud' = [cloud EXCEPT ![calls[c].row].own = "here"]
    BY <1>6 DEF BindSubdomain
  <2>2. calls[c].kind = "bind" BY <1>0, <2>1 DEF Placed
  <2>3. \A r \in Rows : r # calls[c].row => cloud'[r] = cloud[r] BY <2>1
  <2>. QED BY <1>4, <2>1, <2>2, <2>3
<1>7. ASSUME Answered(c) PROVE Shows'
  <2>1. Unbusy(c) \in View /\ Unbusy(c).shown = ui.shown BY DEF Unbusy, View
  <2>2. ui'.shown = ui.shown BY <1>7, <2>1 DEF Answered, Fetching, View
  <2>. QED BY <2>2 DEF Shows
<1>8. ASSUME NEW p \in Procs, Spawn(c, p) PROVE Views' /\ Shows'
  <2>1. calls[c].kind # "fetch" BY <1>0, <1>8 DEF Spawn, Placed
  <2>2. Answered(c) /\ UNCHANGED <<cloud, overtaken, excused, raced>> BY <1>8 DEF Spawn, history
  <2>. QED BY <1>7, <2>1, <2>2, AnsweredView
<1>9. ASSUME UnbindSubdomain(c) PROVE Views' /\ Shows'
  <2>1. /\ calls[c].pc = "unbind" /\ cloud' = [cloud EXCEPT ![calls[c].row].own = "free"]
        /\ Answered(c) /\ Excuse(calls[c]) /\ UNCHANGED <<overtaken, raced>>
    BY <1>9 DEF UnbindSubdomain
  <2>2. calls[c].kind # "fetch" BY <1>0, <2>1 DEF Placed
  <2>3. excused \subseteq excused' /\ (calls[c].mounted \/ calls[c].row \in excused')
    BY <2>1 DEF Excuse
  <2>4. \A r \in Rows : cloud'[r] = cloud[r] \/ calls[c].mounted \/ r \in excused'
    BY <2>1, <2>3
  <2>. QED BY <1>7, <2>1, <2>2, <2>3, <2>4, AnsweredView
<1>10. ASSUME CallFails(c) PROVE Views' /\ Shows'
  <2>1. /\ calls[c].kind \in {"bind", "unbind"} /\ calls' = [calls EXCEPT ![c] = Idle]
        /\ UNCHANGED <<cloud, older, overtaken, raced>>
        /\ excused \subseteq excused'
        /\ calls[c].kind = "bind" /\ calls[c].pc # "create" => calls[c].row \in excused'
    BY <1>10 DEF CallFails
  <2>2. ui'.shown = ui.shown /\ ui'.error = ui.error BY <1>10 DEF CallFails, Unbusy, View
  <2>3. Changes(calls[c]) => calls[c].row \in excused' BY <2>1 DEF Changes
  <2>. QED BY <2>1, <2>2, <2>3, CallView, Fields DEF Shows
<1>. QED BY <1>2, <1>3, <1>5, <1>6, <1>8, <1>9, <1>10

\* The sidecars and the stops leave the views alone.
LEMMA ViewsOfStops ==
    ASSUME Types, Processes, Views, Shows, StopStep
    PROVE  NoneGoesAway /\ Views' /\ Shows'
<1>1. /\ UNCHANGED <<cloud, ui, older, overtaken, excused, raced>>
      /\ \A c \in Calls : calls'[c] = calls[c] \/ Stopped(calls[c], calls'[c])
  BY StopsGoOn DEF GoesOn
<1>2. NoneGoesAway BY <1>1 DEF NoneGoesAway
<1>3. \A c \in Calls : /\ calls'[c].kind = calls[c].kind /\ calls'[c].got = calls[c].got
                       /\ calls'[c].row = calls[c].row /\ calls'[c].mounted = calls[c].mounted
                       /\ calls'[c].pc \in {"bind", "spawn"} <=> calls[c].pc \in {"bind", "spawn"}
  BY <1>1 DEF Stopped
<1>4. \A r \in Rows : Changing(r)' <=> Changing(r) BY <1>3 DEF Changing
<1>. QED BY <1>1, <1>2, <1>3, <1>4, SameView DEF Shows

\* Steps of the app as a whole, and of the account's other devices.
LEMMA ViewsOfApp ==
    ASSUME Types, Views, Shows, NoneGoesAway,
           \/ \E r \in Rows : Elsewhere(r)
           \/ OpenModal \/ CloseModal \/ Suspend \/ Resume \/ UNCHANGED vars
    PROVE  Views' /\ Shows'
<1>. USE DEF Types
<1>1. CASE \E r \in Rows : Elsewhere(r)
  <2>1. PICK r \in Rows : Elsewhere(r) BY <1>1
  <2>2. /\ UNCHANGED <<ui, calls, older, overtaken>>
        /\ raced' = raced \cup {r} /\ excused' = excused \cup {r}
        /\ \E x : cloud' = [cloud EXCEPT ![r] = x]
    BY <2>1 DEF Elsewhere
  <2>3. \A q \in Rows : q # r => cloud'[q] = cloud[q] BY <2>2
  <2>5. \A q \in Rows : Changing(q)' <=> Changing(q) BY <2>2 DEF Changing
  <2>6. \A q \in Rows \ excused' : Changing(q)' \/ (cloud'[q] = cloud[q] /\ ~Changing(q))
    BY <2>2, <2>3, <2>5
  <2>. QED BY <2>2, <2>6, SameView DEF Shows
<1>2. CASE ~\E r \in Rows : Elsewhere(r)
  <2>1. /\ ui'.shown = ui.shown /\ ui'.error = ui.error
        /\ UNCHANGED <<cloud, calls, older, history>>
    BY <1>2 DEF OpenModal, CloseModal, Suspend, Resume, vars, View
  <2>2. UNCHANGED <<overtaken, excused>> BY <2>1 DEF history
  <2>3. \A q \in Rows : Changing(q)' <=> Changing(q) BY <2>1 DEF Changing
  <2>. QED BY <2>1, <2>2, <2>3, SameView DEF Shows
<1>. QED BY <1>1, <1>2

-----------------------------------------------------------------------------
(* What the calls are at, and the bounds.                                  *)

LEMMA AwayStays ==
    ASSUME Types, Places, [Next]_vars, ~StopStep
    PROVE  NoneGoesAway
<1>. USE DEF Types, NoneGoesAway
<1>0. \A r \in Rows : cloud[r] \in RowStates OBVIOUS
<1>1. ASSUME NEW c \in Calls, CreateSubdomain(c) PROVE NoneGoesAway
  <2>. DEFINE k == calls[c].row
              x == [own |-> IF cloud[k].own = "none" THEN "free" ELSE cloud[k].own,
                    port |-> calls[c].port]
  <2>1. x.own = "elsewhere" => cloud[k].own = "elsewhere" OBVIOUS
  <2>2. cloud' = [cloud EXCEPT ![k] = x] /\ raced' = raced BY <1>1 DEF CreateSubdomain
  <2>. HIDE DEF x
  <2>. QED BY <2>1, <2>2
<1>2. ASSUME NEW c \in Calls, NEW own \in {"here", "free"}, raced' = raced,
             cloud' = [cloud EXCEPT ![calls[c].row].own = own]
      PROVE  NoneGoesAway
  BY <1>0, <1>2 DEF RowStates
<1>3. ASSUME NEW r \in Rows, Elsewhere(r) PROVE NoneGoesAway
  <2>1. raced' = raced \cup {r} /\ \E x : cloud' = [cloud EXCEPT ![r] = x]
    BY <1>3 DEF Elsewhere
  <2>. QED BY <2>1
<1>4. ASSUME NEW c \in Calls, NEW r \in Rows,
             \/ \E p \in Ports \cup {BadPort} : ClickBind(c, r, p)
             \/ ClickUnbind(c, r)
      PROVE  NoneGoesAway
  BY <1>4 DEF ClickBind, ClickUnbind, StartCall
<1>5. ASSUME NEW c \in Calls,
             \/ \E tab \in {"services", "domains", "other"} : ShowTab(c, tab)
             \/ Refresh(c) \/ ReadRow(c) \/ Arrive(c) \/ FetchFails(c)
             \/ Boot(c) \/ SubmitKey(c) \/ KeyAccepted(c) \/ KeyRefused(c) \/ Relaunch(c)
             \/ CallFails(c) \/ \E p \in Procs : Spawn(c, p)
      PROVE  NoneGoesAway
  <2>1. UNCHANGED <<cloud, raced>>
    BY <1>5 DEF ShowTab, Refresh, ReadRow, Arrive, FetchFails, Boot, SubmitKey, KeyAccepted,
                KeyRefused, Relaunch, Spawn, CallFails, history
  <2>. QED BY <2>1
<1>6. ASSUME OpenModal \/ CloseModal \/ Suspend \/ Resume \/ UNCHANGED vars
      PROVE  NoneGoesAway
  BY <1>6 DEF OpenModal, CloseModal, Suspend, Resume, vars, history
<1>7. ASSUME NEW c \in Calls, BindSubdomain(c) \/ UnbindSubdomain(c) PROVE NoneGoesAway
  BY <1>2, <1>7 DEF BindSubdomain, UnbindSubdomain
<1>. QED BY <1>1, <1>3, <1>4, <1>5, <1>6, <1>7 DEF Next, StopStep, SidecarStep

\* No bind begins; one that goes on is about the same row, and was doubted or not.
LEMMA CallsGoOn ==
    ASSUME Places, TakesAreDoubted, NoneGoesAway,
           \A x \in Calls : Placed(calls'[x]),
           \A x \in Calls : calls'[x].kind = "bind" =>
              /\ calls[x].kind = "bind" /\ calls'[x].tab = calls[x].tab
              /\ calls'[x].row = calls[x].row /\ calls'[x].doubt = calls[x].doubt
    PROVE  Places' /\ TakesAreDoubted'
<1>1. Places' BY DEF Places
<1>2. TakesAreDoubted'
  <2>. SUFFICES ASSUME NEW x \in Calls, calls'[x].kind = "bind", calls'[x].tab = "domains",
                       calls'[x].row \notin raced', cloud'[calls'[x].row].own = "elsewhere"
                PROVE  calls'[x].doubt
    BY DEF TakesAreDoubted
  <2>1. calls[x].row \in Rows /\ calls[x].kind = "bind" BY DEF Places, Placed
  <2>. QED BY <2>1 DEF NoneGoesAway, TakesAreDoubted
<1>. QED BY <1>1, <1>2

LEMMA CallGoesOn ==
    ASSUME Types, Places, TakesAreDoubted, NoneGoesAway, NEW c \in Calls, NEW k, Placed(k),
           calls' = [calls EXCEPT ![c] = k],
           k.kind = "bind" => /\ calls[c].kind = "bind" /\ k.tab = calls[c].tab
                              /\ k.row = calls[c].row /\ k.doubt = calls[c].doubt
    PROVE  Places' /\ TakesAreDoubted'
<1>1. calls'[c] = k /\ \A x \in Calls \ {c} : calls'[x] = calls[x] BY DEF Types
<1>. QED BY <1>1, CallsGoOn DEF Places

LEMMA PlacesOfWindow ==
    ASSUME Types, Places, Views, TakesAreDoubted, NoneGoesAway, NEW c \in Calls,
           \/ \E tab \in {"services", "domains", "other"} : ShowTab(c, tab)
           \/ Refresh(c) \/ ReadRow(c) \/ Arrive(c) \/ FetchFails(c)
           \/ Boot(c) \/ SubmitKey(c) \/ KeyAccepted(c) \/ KeyRefused(c) \/ Relaunch(c)
    PROVE  Places' /\ TakesAreDoubted'
<1>. USE DEF Types
<1>0. ui.signedIn \in BOOLEAN BY DEF View
<1>1. ASSUME NEW k, calls' = [calls EXCEPT ![c] = k], k = Idle \/ \E a \in BOOLEAN : k = Fetch(a)
      PROVE  Places' /\ TakesAreDoubted'
  <2>1. Placed(k) /\ k.kind # "bind" BY <1>1, Fields
  <2>. QED BY <1>1, <2>1, CallGoesOn
<1>2. ASSUME NEW tab \in {"services", "domains", "other"}, ShowTab(c, tab)
      PROVE  Places' /\ TakesAreDoubted'
  <2>1. \/ calls' = Dropped
        \/ calls' = [Dropped EXCEPT ![c] = Fetch(ui.signedIn)]
    BY <1>2 DEF ShowTab, Mount
  <2>2. Dropped = [x \in Calls |-> Dropped[x]] BY DEF Dropped
  <2>3. \A x \in Calls : calls'[x] = Dropped[x] \/ calls'[x] = Fetch(ui.signedIn)
    BY <2>1, <2>2
  <2>4. ASSUME NEW x \in Calls
        PROVE  /\ Placed(Dropped[x])
               /\ Dropped[x].kind = "bind" =>
                    /\ calls[x].kind = "bind" /\ Dropped[x].tab = calls[x].tab
                    /\ Dropped[x].row = calls[x].row /\ Dropped[x].doubt = calls[x].doubt
    <3>1. CASE Dropped[x] = Idle BY <3>1, Fields
    <3>2. CASE Dropped[x] = [calls[x] EXCEPT !.mounted = FALSE]
      <4>1. calls[x] \in Call /\ Placed(calls[x]) BY DEF Places
      <4>. QED BY <3>2, <4>1 DEF Call, Placed
    <3>. QED BY <3>1, <3>2, DroppedFetches
  <2>. QED BY <1>0, <2>3, <2>4, Fields, CallsGoOn
<1>3. ASSUME ReadRow(c) PROVE Places' /\ TakesAreDoubted'
  <2>1. calls[c].kind = "fetch" /\ \E x : calls' = [calls EXCEPT ![c].got = Append(@, x)]
    BY <1>3 DEF ReadRow
  <2>2. /\ calls[c] \in Call /\ calls'[c].kind = "fetch"
        /\ \A x \in Calls \ {c} : calls'[x] = calls[x]
    BY <2>1 DEF Call
  <2>3. \A x \in Calls : Placed(calls'[x]) BY <1>3, ReadView DEF Places
  <2>. QED BY <2>2, <2>3, CallsGoOn
<1>4. ASSUME Refresh(c) \/ Arrive(c) \/ FetchFails(c) \/ Boot(c) \/ KeyAccepted(c) \/ KeyRefused(c)
      PROVE  Places' /\ TakesAreDoubted'
  <2>1. \/ calls' = [calls EXCEPT ![c] = Idle] \/ calls' = calls
        \/ calls' = [calls EXCEPT ![c] = Fetch(TRUE)]
        \/ calls' = [calls EXCEPT ![c] = Fetch(ui.signedIn)]
    BY <1>4 DEF Refresh, Arrive, FetchFails, EndFetch, Boot, KeyAccepted, KeyRefused,
                SignedInEffect, StartFetch
  <2>2. CASE calls' = calls BY <2>2, CallsGoOn DEF Places
  <2>. QED BY <1>0, <1>1, <2>1, <2>2
<1>5. ASSUME SubmitKey(c) PROVE Places' /\ TakesAreDoubted'
  <2>. DEFINE k == [Idle EXCEPT !.kind = "key", !.pc = "wait"]
  <2>1. k.kind = "key" /\ Placed(k) BY Fields DEF Placed, Idle
  <2>2. calls' = [calls EXCEPT ![c] = k] BY <1>5 DEF SubmitKey
  <2>. HIDE DEF k
  <2>. QED BY <2>1, <2>2, CallGoesOn
<1>6. ASSUME Relaunch(c) PROVE Places' /\ TakesAreDoubted'
  <2>1. \A x \in Calls : calls'[x] = Idle \/ calls'[x] = Fetch(FALSE) BY <1>6 DEF Relaunch
  <2>. QED BY <2>1, Fields, CallsGoOn
<1>. QED BY <1>2, <1>3, <1>4, <1>5, <1>6

\* A bind that is asked for on the Domains tab is for a row shown without a device.
LEMMA PlacesOfWork ==
    ASSUME Types, Places, Shows, Views, TakesAreDoubted, NoneGoesAway, NEW c \in Calls,
           \/ \E r \in Rows : \/ \E p \in Ports \cup {BadPort} : ClickBind(c, r, p)
                             \/ ClickUnbind(c, r)
           \/ CreateSubdomain(c) \/ BindSubdomain(c) \/ \E p \in Procs : Spawn(c, p)
           \/ UnbindSubdomain(c) \/ CallFails(c)
    PROVE  Places' /\ TakesAreDoubted'
<1>. USE DEF Types
<1>0. calls[c] \in Call /\ Placed(calls[c]) BY DEF Places
<1>1. ASSUME NEW r \in Rows, NEW p \in Ports \cup {BadPort}, ClickBind(c, r, p)
      PROVE  Places' /\ TakesAreDoubted'
  <2>. DEFINE k == [Idle EXCEPT !.kind = "bind", !.pc = "create", !.row = r, !.port = p,
                                !.tab = ui.tab, !.mounted = TRUE, !.doubt = r \in excused]
  <2>1. /\ Bindable(r) /\ calls' = [calls EXCEPT ![c] = k]
        /\ UNCHANGED <<cloud, excused>> /\ raced \subseteq raced'
    BY <1>1 DEF ClickBind, StartCall
  <2>2. Placed(k) /\ k.tab = ui.tab /\ k.row = r /\ k.doubt = (r \in excused)
    BY Fields DEF Placed, Idle
  <2>. HIDE DEF k
  <2>3. calls'[c] = k /\ \A x \in Calls \ {c} : calls'[x] = calls[x] BY <2>1
  <2>4. Places' BY <2>2, <2>3 DEF Places
  <2>5. k.tab = "domains" /\ r \notin raced' /\ cloud'[r].own = "elsewhere" => k.doubt
    <3>. SUFFICES ASSUME ui.tab = "domains", r \notin raced', cloud[r].own = "elsewhere",
                         r \notin excused
                  PROVE  FALSE
      BY <2>1, <2>2
    <3>1. ui.shown # <<>> /\ ui.shown[r].own \in {"none", "free"} BY <2>1 DEF Bindable
    <3>2. ui.shown[r].own = "elsewhere" BY <2>1, <3>1 DEF Views, SeenAway
    <3>. QED BY <3>1, <3>2
  <2>6. TakesAreDoubted'
    <3>. SUFFICES ASSUME NEW x \in Calls, calls'[x].kind = "bind", calls'[x].tab = "domains",
                         calls'[x].row \notin raced', cloud'[calls'[x].row].own = "elsewhere"
                  PROVE  calls'[x].doubt
      BY DEF TakesAreDoubted
    <3>1. CASE x = c BY <2>2, <2>3, <2>5, <3>1
    <3>2. CASE x # c BY <2>1, <2>3, <3>2 DEF TakesAreDoubted
    <3>. QED BY <3>1, <3>2
  <2>. QED BY <2>4, <2>6
<1>2. ASSUME NEW r \in Rows, ClickUnbind(c, r) PROVE Places' /\ TakesAreDoubted'
  <2>. DEFINE k == [Idle EXCEPT !.kind = "unbind", !.pc = "stop", !.row = r,
                                !.tab = "domains", !.mounted = TRUE]
  <2>1. Placed(k) /\ k.kind = "unbind" BY Fields DEF Placed, Idle
  <2>2. calls' = [calls EXCEPT ![c] = k] BY <1>2 DEF ClickUnbind, StartCall
  <2>. HIDE DEF k
  <2>. QED BY <2>1, <2>2, CallGoesOn
<1>3. ASSUME NEW pc, calls' = [calls EXCEPT ![c].pc = pc],
             calls[c].kind = "bind" /\ pc \in {"bind", "spawn"}
      PROVE  Places' /\ TakesAreDoubted'
  <2>. DEFINE k == [calls[c] EXCEPT !.pc = pc]
  <2>1. /\ Placed(k) /\ k.kind = calls[c].kind /\ k.tab = calls[c].tab
        /\ k.row = calls[c].row /\ k.doubt = calls[c].doubt
    BY <1>0, <1>3 DEF Call, Placed
  <2>2. calls' = [calls EXCEPT ![c] = k] BY <1>3
  <2>. HIDE DEF k
  <2>. QED BY <2>1, <2>2, CallGoesOn
<1>4. ASSUME CreateSubdomain(c) \/ BindSubdomain(c)
      PROVE  Places' /\ TakesAreDoubted'
  <2>1. \/ calls[c].pc = "create" /\ calls' = [calls EXCEPT ![c].pc = "bind"]
        \/ calls[c].pc = "bind" /\ calls' = [calls EXCEPT ![c].pc = "spawn"]
    BY <1>4 DEF CreateSubdomain, BindSubdomain
  <2>. QED BY <1>0, <1>3, <2>1 DEF Placed
<1>5. ASSUME UnbindSubdomain(c) \/ CallFails(c) \/ \E p \in Procs : Spawn(c, p)
      PROVE  Places' /\ TakesAreDoubted'
  <2>1. \/ calls' = [calls EXCEPT ![c] = Idle]
        \/ calls' = [calls EXCEPT ![c] = Fetch(TRUE)]
    BY <1>5 DEF Spawn, UnbindSubdomain, CallFails, Answered, StartFetch
  <2>2. /\ Placed(Idle) /\ Idle.kind # "bind"
        /\ Placed(Fetch(TRUE)) /\ Fetch(TRUE).kind # "bind"
    BY Fields
  <2>. QED BY <2>1, <2>2, CallGoesOn
<1>. QED BY <1>1, <1>2, <1>4, <1>5

LEMMA PlacesOfStops ==
    ASSUME Types, Processes, Places, TakesAreDoubted, StopStep
    PROVE  Places' /\ TakesAreDoubted'
<1>1. /\ UNCHANGED <<cloud, raced>>
      /\ \A c \in Calls : calls'[c] = calls[c] \/ Stopped(calls[c], calls'[c])
  BY StopsGoOn DEF GoesOn
<1>2. NoneGoesAway BY <1>1 DEF NoneGoesAway
<1>3. ASSUME NEW c \in Calls PROVE Placed(calls'[c])
  BY <1>1 DEF Places, Placed, Stopped
<1>4. \A c \in Calls : calls'[c].kind = "bind" =>
         /\ calls[c].kind = "bind" /\ calls'[c].tab = calls[c].tab
         /\ calls'[c].row = calls[c].row /\ calls'[c].doubt = calls[c].doubt
  BY <1>1 DEF Stopped
<1>. QED BY <1>2, <1>3, <1>4, CallsGoOn

LEMMA PlacesOfApp ==
    ASSUME Types, Places, TakesAreDoubted, NoneGoesAway,
           \/ \E r \in Rows : Elsewhere(r)
           \/ OpenModal \/ CloseModal \/ Suspend \/ Resume \/ UNCHANGED vars
    PROVE  Places' /\ TakesAreDoubted'
<1>1. calls' = calls
  BY DEF Elsewhere, OpenModal, CloseModal, Suspend, Resume, vars
<1>. QED BY <1>1, CallsGoOn DEF Places

LEMMA BoundedNext ==
    ASSUME Types, Processes, Places, Bounded, [Next]_vars
    PROVE  Bounded'
<1>. USE DEF Bounded
<1>0. MaxActs \in Nat /\ MaxOthers \in Nat BY BoundsAreNat
<1>1. ASSUME acts' = acts \/ Act, others' = others \/ (others < MaxOthers /\ others' = others + 1),
             session' \in {session, TRUE},
             \/ net' \in {net, "connected"}
             \/ \E on \in {"os-offline", "os-online"} : Signal(on),
             excused' \subseteq Rows, raced' \subseteq Rows, retargeted' \subseteq Rows,
             adrift' \subseteq Rows
      PROVE  Bounded'
  <2>1. acts' \in 0..MaxActs /\ others' \in 0..MaxOthers BY <1>0, <1>1 DEF Act
  <2>2. \A state, on : Signalled(state, on) \subseteq
           {"connected", "flicker", "reconnecting", "roaming", "offline"}
    BY DEF Signalled, TRANSITION_TABLE
  <2>3. net' \in {"connected", "flicker", "reconnecting", "roaming", "offline"}
    <3>1. CASE net' \in {net, "connected"} BY <3>1
    <3>2. CASE \E on \in {"os-offline", "os-online"} : Signal(on)
      <4>1. PICK on \in {"os-offline", "os-online"} : Signal(on) BY <3>2
      <4>2. net' = net \/ net' \in Signalled(net, on) BY <4>1 DEF Signal
      <4>. QED BY <2>2, <4>2
    <3>. QED BY <1>1, <3>1, <3>2
  <2>. QED BY <1>1, <2>1, <2>3
<1>2. ASSUME NEW c \in Calls,
             \/ \E tab \in {"services", "domains", "other"} : ShowTab(c, tab)
             \/ Refresh(c) \/ Boot(c) \/ SubmitKey(c) \/ KeyAccepted(c) \/ KeyRefused(c)
             \/ Relaunch(c) \/ FetchFails(c) \/ \E p \in Procs : Spawn(c, p)
      PROVE  Bounded'
  <2>1. /\ acts' = acts \/ Act
        /\ others' = others /\ session' \in {session, TRUE} /\ net' \in {net, "connected"}
        /\ UNCHANGED <<raced, retargeted, adrift>> /\ excused' \in {excused, {}}
    BY <1>2 DEF ShowTab, Mount, Refresh, Boot, SubmitKey, KeyAccepted, KeyRefused, Relaunch,
                FetchFails, Spawn, history
  <2>. QED BY <1>1, <2>1
<1>3. ASSUME NEW c \in Calls,
             \/ ReadRow(c) \/ Arrive(c) \/ CreateSubdomain(c) \/ BindSubdomain(c)
             \/ UnbindSubdomain(c) \/ CallFails(c)
      PROVE  Bounded'
  <2>1. UNCHANGED <<acts, others, session, net, raced, retargeted, adrift>>
    BY <1>3 DEF ReadRow, Arrive, CreateSubdomain, BindSubdomain, UnbindSubdomain, CallFails
  <2>2. calls[c].pc \in {"create", "bind", "unbind"} \/ calls[c].kind \in {"bind", "unbind"}
           => calls[c].row \in Rows
    BY DEF Places, Placed
  <2>3. excused' \subseteq Rows
    BY <1>3, <2>2 DEF ReadRow, Arrive, CreateSubdomain, BindSubdomain, UnbindSubdomain,
                      CallFails, Excuse
  <2>. QED BY <1>1, <2>1, <2>3
<1>4. ASSUME NEW c \in Calls, NEW r \in Rows,
             \/ \E p \in Ports \cup {BadPort} : ClickBind(c, r, p)
             \/ ClickUnbind(c, r)
      PROVE  Bounded'
  <2>1. /\ Act /\ UNCHANGED <<others, session, net, excused, adrift>>
        /\ raced' \in {raced, raced \cup {r}} /\ retargeted' \in {retargeted, retargeted \cup {r}}
    BY <1>4 DEF ClickBind, ClickUnbind, StartCall
  <2>. QED BY <1>1, <2>1
<1>5. ASSUME NEW r \in Rows, Elsewhere(r) PROVE Bounded'
  <2>1. /\ others < MaxOthers /\ others' = others + 1
        /\ UNCHANGED <<acts, session, net, retargeted, adrift>>
        /\ raced' = raced \cup {r} /\ excused' = excused \cup {r}
    BY <1>5 DEF Elsewhere
  <2>. QED BY <1>1, <2>1
<1>6. ASSUME OpenModal \/ CloseModal \/ Suspend \/ Resume \/ UNCHANGED vars
      PROVE  Bounded'
  <2>1. /\ acts' = acts \/ Act
        /\ UNCHANGED <<others, session, history>>
        /\ net' = net \/ Signal("os-offline") \/ Signal("os-online")
    BY <1>6 DEF OpenModal, CloseModal, Suspend, Resume, vars
  <2>2. UNCHANGED <<excused, raced, retargeted, adrift>> BY <2>1 DEF history
  <2>. QED BY <1>1, <2>1, <2>2
<1>7. ASSUME StopStep PROVE Bounded'
  <2>1. /\ UNCHANGED <<acts, session, net, excused, raced, retargeted>>
        /\ others' = others \/ (others < MaxOthers /\ others' = others + 1)
        /\ adrift' \subseteq Rows
    BY <1>7, StopsGoOn DEF GoesOn
  <2>. QED BY <1>1, <2>1
<1>. QED BY <1>2, <1>3, <1>4, <1>5, <1>6, <1>7 DEF Next, StopStep, SidecarStep

-----------------------------------------------------------------------------
LEMMA ViewInvNext == Inv /\ ViewInv /\ [Next]_vars => ViewInv'
<1>. SUFFICES ASSUME Inv, ViewInv, [Next]_vars PROVE ViewInv' OBVIOUS
<1>1. Types /\ Processes /\ Places /\ Bounded /\ Shows /\ Views /\ TakesAreDoubted
  BY DEF Inv, ViewInv, Views
<1>2. Bounded' BY <1>1, BoundedNext
<1>3. CASE StopStep
  BY <1>1, <1>2, <1>3, ViewsOfStops, PlacesOfStops DEF ViewInv, Views
<1>4. CASE ~StopStep
  <2>1. NoneGoesAway BY <1>1, <1>4, AwayStays
  <2>2. Views' /\ Shows' /\ Places' /\ TakesAreDoubted'
    BY <1>1, <1>4, <2>1, ViewsOfWindow, ViewsOfWork, ViewsOfApp,
       PlacesOfWindow, PlacesOfWork, PlacesOfApp DEF Next, StopStep, SidecarStep
  <2>. QED BY <1>2, <2>2 DEF ViewInv, Views
<1>. QED BY <1>3, <1>4

LEMMA ViewInductive == Spec => []ViewInv
<1>. QED BY Inductive, ViewInvInit, ViewInvNext, PTL DEF Spec

LEMMA ListsAreShort ==
    ASSUME NEW s \in Seq(RowStates), Len(s) <= NumRows
    PROVE  s \in SeqsOf(RowStates)
<1>1. Len(s) \in 0..NumRows /\ s \in [1..Len(s) -> RowStates] BY RowsAreNumbered
<1>. QED BY <1>1 DEF SeqsOf

\* Type correctness: a view lists all rows or none, only fetches wait for fetches, and a
\* port that is not one never leaves the form (ServicesView's and CloudDomainsView's
\* checks of the port).
THEOREM TypeCorrect == Spec => []TypeOK
<1>1. Inv /\ ViewInv => TypeOK
  <2>. SUFFICES ASSUME Inv, ViewInv PROVE TypeOK OBVIOUS
  <2>1. \A c \in Calls : calls[c].got \in SeqsOf(RowStates)
    BY ListsAreShort DEF Inv, Types, Call, ViewInv, Places, Placed
  <2>2. ui.shown \in SeqsOf(RowStates)
    <3>1. Len(ui.shown) <= NumRows BY RowsAreNumbered DEF ViewInv, Shows
    <3>. QED BY <3>1, ListsAreShort DEF Inv, Types, View
  <2>3. \A c \in Calls : calls[c] \in [
            kind : {"idle", "fetch", "key", "bind", "unbind"},
            pc : {"idle", "read", "wait", "create", "bind", "spawn", "stop", "stopping",
                  "unbind"},
            row : 0..NumRows, port : Ports \cup {None}, tab : {"none", "services", "domains"},
            mounted : BOOLEAN, asked : BOOLEAN, got : SeqsOf(RowStates), doubt : BOOLEAN,
            child : Procs \cup {None}]
    BY <2>1 DEF Inv, Types, Call
  <2>4. ui \in [tab : {"services", "domains", "other"}, booted : BOOLEAN, signedIn : BOOLEAN,
                modal : {"closed", "open", "busy"}, shown : SeqsOf(RowStates),
                error : BOOLEAN, refreshing : BOOLEAN, busy : SUBSET Rows]
    BY <2>2 DEF Inv, Types, View
  <2>5. /\ older \in [Calls -> SUBSET {c \in Calls : calls[c].kind = "fetch"}]
        /\ overtaken \subseteq Calls
    BY DEF ViewInv, Order, Fetches
  <2>6. calls = [c \in Calls |-> calls[c]] /\ cloud \in [Rows -> RowStates]
    BY DEF Inv, Types
  <2>7. Bounded BY DEF ViewInv
  <2>8. /\ proc \in [Procs -> Sidecars] /\ children \in [Rows -> Procs \cup {None}]
        /\ suspended \subseteq Procs
        /\ timers \in [Rows -> {<<>>} \cup UNION {[1..n -> Ports] : n \in 1..2}]
    <3>1. ASSUME NEW q \in Seq(Ports), Len(q) <= 2
          PROVE  q \in {<<>>} \cup UNION {[1..n -> Ports] : n \in 1..2}
      <4>1. q \in [1..Len(q) -> Ports] OBVIOUS
      <4>2. Len(q) \in Nat /\ (Len(q) = 0 => q = <<>>) OBVIOUS
      <4>3. \A n \in Nat : n <= 2 => n = 0 \/ n \in 1..2 OBVIOUS
      <4>4. CASE Len(q) = 0 BY <4>2, <4>4
      <4>5. CASE Len(q) \in 1..2 BY <4>1, <4>5
      <4>. QED BY <3>1, <4>2, <4>3, <4>4, <4>5
    <3>2. Processes BY DEF Inv
    <3>. QED BY <3>1, <3>2 DEF Processes
  <2>. HIDE DEF Inv, ViewInv
  <2>. QED BY ONLY <2>3, <2>4, <2>5, <2>6, <2>7, <2>8 DEF TypeOK, Bounded
<1>. QED BY <1>1, Inductive, ViewInductive, PTL

\* When nothing is under way the rows on screen are the cloud's, however fetches and calls
\* overlapped (CloudDomainsView's and ServicesView's refresh after onChanged), but for the
\* rows the view had a reason to be wrong about.
THEOREM ScreenShowsCloud == Spec => []ShownIsCloud
<1>1. ViewInv => ShownIsCloud
  <2>. SUFFICES ASSUME ViewInv, Quiet, ~ui.error, ui.shown # <<>>, NEW r \in Rows \ excused
                PROVE  ui.shown[r] = cloud[r]
    BY DEF ShownIsCloud
  <2>1. Current = {} /\ ~Changing(r) BY Fields DEF Quiet, Current, Fetches, Changing
  <2>. QED BY <2>1 DEF ViewInv, Fresh, UpToDate
<1>. QED BY <1>1, ViewInductive, PTL

\* A bind from the Domains tab takes a row from another device only if the view had a
\* reason to be wrong when the user asked for it, or the row was changed meanwhile
\* (CloudDomainsView's Bind button, CLOUD_BIND_PORT).
THEOREM NoRowIsTakenUnseen == Spec => NoUnseenTakeover
<1>. DEFINE Seen == \A c \in Calls :
         calls[c].pc = "bind" /\ calls'[c].pc = "spawn" /\ calls[c].tab = "domains"
           /\ cloud[calls[c].row].own = "elsewhere"
             => calls[c].doubt \/ calls[c].row \in raced
<1>1. ViewInv => Seen BY DEF ViewInv, Places, Placed, TakesAreDoubted
<1>. QED BY <1>1, ViewInductive, PTL DEF NoUnseenTakeover
================================================================================
