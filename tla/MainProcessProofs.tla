--------------------------- MODULE MainProcessProofs ---------------------------
(***************************************************************************)
(* Proofs about the two halves of the desktop's main process.              *)
(* SidecarManager: for any number of bindings and processes and any crash  *)
(* limit.  DesktopAuth: for any users, any number of handlers in flight at *)
(* once, and any bounds on the flows and the operations started.           *)
(***************************************************************************)
EXTENDS SidecarManager, DesktopAuth, TLAPS

-----------------------------------------------------------------------------
(* SidecarManager.                                                         *)


\* A restart that is pending is for a crash still in the window: this bounds the timers.
TimersAreFresh == \A d \in Domains : timers[d] <= fresh[d]

\* A process whose exit is to be handled was spawned for a binding.
HasBinding == \A p \in Procs : proc[p] # "none" => of[p] \in Domains

\* The inductive invariant.
Inv == TypeOK /\ TimersAreFresh /\ HasBinding /\ EntryIsUnreaped

LEMMA InvInit == Init => Inv
BY CrashLimitPositive DEF Init, Inv, TypeOK, TimersAreFresh, HasBinding, EntryIsUnreaped

\* A process without an entry takes the one of its binding.
LEMMA SpawnKeeps ==
    ASSUME Inv, NEW d \in Domains, NEW p \in Procs, Spawn(d, p)
    PROVE  /\ children' \in [Domains -> Procs \cup {None}] /\ late' \in SUBSET Domains
           /\ proc' \in [Procs -> {"none", "live", "exited", "crashed"}]
           /\ of' \in [Procs -> Domains \cup {None}]
           /\ EntryIsUnreaped'
<1>. USE DEF Inv, TypeOK, Spawn
<1>1. EntryIsUnreaped'
  <2>. SUFFICES ASSUME NEW e \in Domains, children'[e] # None
                PROVE  proc'[children'[e]] # "none" /\ of'[children'[e]] = e
    BY DEF EntryIsUnreaped
  <2>1. CASE e = d BY <2>1
  <2>2. CASE e # d
    <3>1. children'[e] = children[e] /\ children[e] \in Procs BY <2>2
    <3>2. proc[children[e]] # "none" /\ of[children[e]] = e BY <3>1 DEF EntryIsUnreaped
    <3>3. children[e] # p BY <3>2
    <3>. QED BY <3>1, <3>2, <3>3
  <2>. QED BY <2>1, <2>2
<1>. QED BY <1>1

\* Entries that go, and processes that keep on, or end with their exit to come.
LEMMA EntriesGo ==
    ASSUME Inv, children' \in [Domains -> Procs \cup {None}],
           \A d \in Domains : children'[d] \in {children[d], None},
           \A p \in Procs : of'[p] = of[p] /\ (proc[p] # "none" => proc'[p] # "none")
    PROVE  EntryIsUnreaped'
<1>. SUFFICES ASSUME NEW d \in Domains, children'[d] # None
              PROVE  proc'[children'[d]] # "none" /\ of'[children'[d]] = d
  BY DEF EntryIsUnreaped
<1>1. children'[d] = children[d] /\ children[d] \in Procs BY DEF Inv, TypeOK
<1>2. proc[children[d]] # "none" /\ of[children[d]] = d BY <1>1 DEF Inv, EntryIsUnreaped
<1>. QED BY <1>1, <1>2

\* SIGTERM goes to processes of the Map.
LEMMA TerminateKeeps ==
    ASSUME Inv, Terminate(Tracked)
    PROVE  sig' \in [Procs -> BOOLEAN] /\ stops' \in SUBSET Procs /\ Tracked \in SUBSET Procs
<1>1. Tracked \in SUBSET Procs BY DEF Inv, TypeOK, Tracked
<1>2. sig' \in [Procs -> BOOLEAN] BY DEF Inv, TypeOK, Terminate
<1>3. stops' \in SUBSET Procs BY <1>1 DEF Inv, TypeOK, Terminate
<1>. QED BY <1>1, <1>2, <1>3

LEMMA InvNext == Inv /\ [Next]_vars => Inv'
<1>. SUFFICES ASSUME Inv, [Next]_vars PROVE Inv' OBVIOUS
<1>. USE DEF Inv, TypeOK, TimersAreFresh, HasBinding
<1>1. ASSUME NEW d \in Domains, NEW p \in Procs, StartTunnel(d, p) PROVE Inv'
  BY <1>1, SpawnKeeps DEF StartTunnel, Spawn
<1>2. ASSUME NEW d \in Domains, NEW p \in Procs, RestartTimer(d, p) PROVE Inv'
  <2>1. timers[d] - 1 \in 0..(CrashLimit - 1) /\ timers[d] - 1 <= fresh[d]
    BY <1>2, CrashLimitPositive DEF RestartTimer
  <2>2. TimersAreFresh' /\ timers' \in [Domains -> 0..(CrashLimit - 1)]
    BY <1>2, <2>1 DEF RestartTimer
  <2>. QED BY <1>2, <2>2, SpawnKeeps DEF RestartTimer, Spawn
<1>3. ASSUME NEW d \in Domains, RestartFails(d) PROVE Inv'
  <2>1. timers[d] - 1 \in 0..(CrashLimit - 1) /\ timers[d] - 1 <= fresh[d]
    BY <1>3, CrashLimitPositive DEF RestartFails
  <2>2. TimersAreFresh' /\ timers' \in [Domains -> 0..(CrashLimit - 1)]
    BY <1>3, <2>1 DEF RestartFails
  <2>. QED BY <1>3, <2>2 DEF RestartFails, processes, EntryIsUnreaped
<1>4. ASSUME NEW d \in Domains, ResetDiagnostic(d) PROVE Inv'
  BY <1>4, CrashLimitPositive DEF ResetDiagnostic, processes, EntryIsUnreaped
<1>5. ASSUME NEW p \in Procs, ProcEnds(p) PROVE Inv'
  <2>1. EntryIsUnreaped' BY <1>5, EntriesGo DEF ProcEnds, Ends, manager
  <2>. QED BY <1>5, <2>1 DEF ProcEnds, Ends, manager
<1>6. ASSUME NEW p \in Procs, ProcHangs(p) PROVE Inv'
  BY <1>6 DEF ProcHangs, manager, EntryIsUnreaped
<1>7. ASSUME NEW p \in Procs, Heartbeat(p) PROVE Inv'
  BY <1>7 DEF Heartbeat, processes, EntryIsUnreaped
<1>8. ASSUME NEW d \in Domains, Overdue(d) PROVE Inv'
  BY <1>8 DEF Overdue, processes, EntryIsUnreaped
<1>9. ASSUME NEW p \in Procs, ExitEvent(p) PROVE Inv'
  <2>1. /\ fresh' \in [Domains -> 0..CrashLimit] /\ timers' \in [Domains -> 0..(CrashLimit - 1)]
        /\ diagnostic' \in SUBSET Domains /\ TimersAreFresh'
    <3>1. CASE proc[p] = "exited" BY <1>9, <3>1 DEF ExitEvent
    <3>2. CASE proc[p] # "exited"
      <4>1. PICK k \in StillFresh(of[p]) : HandleExit(of[p], k) BY <1>9, <3>2 DEF ExitEvent
      <4>2. of[p] \in Domains BY <1>9 DEF ExitEvent
      <4>3. k \in 0..CrashLimit /\ timers[of[p]] <= k
        BY <4>1, <4>2, CrashLimitPositive DEF StillFresh, MinOf
      <4>4. MinOf(k + 1, CrashLimit) \in 0..CrashLimit
            /\ timers[of[p]] <= MinOf(k + 1, CrashLimit)
        BY <4>2, <4>3, CrashLimitPositive DEF MinOf
      <4>5. CASE k + 1 >= CrashLimit
        BY <4>1, <4>2, <4>4, <4>5 DEF HandleExit
      <4>6. CASE ~(k + 1 >= CrashLimit)
        <5>1. timers[of[p]] + 1 \in 0..(CrashLimit - 1)
              /\ timers[of[p]] + 1 <= MinOf(k + 1, CrashLimit)
          BY <4>2, <4>3, <4>6, CrashLimitPositive DEF MinOf
        <5>. QED BY <4>1, <4>2, <4>4, <4>6, <5>1 DEF HandleExit
      <4>. QED BY <4>5, <4>6
    <3>. QED BY <3>1, <3>2
  <2>2. EntryIsUnreaped'
    <3>. SUFFICES ASSUME NEW d \in Domains, children'[d] # None
                  PROVE  proc'[children'[d]] # "none" /\ of'[children'[d]] = d
      BY DEF EntryIsUnreaped
    <3>1. d # of[p] /\ children'[d] = children[d] BY <1>9 DEF ExitEvent, ForgetEntry
    <3>2. children[d] \in Procs /\ proc[children[d]] # "none" /\ of[children[d]] = d
      BY <3>1 DEF EntryIsUnreaped
    <3>. QED BY <1>9, <3>1, <3>2 DEF ExitEvent
  <2>. QED BY <1>9, <2>1, <2>2 DEF ExitEvent, ForgetEntry
<1>10. ASSUME NEW d \in Domains, WatchdogTick(d) PROVE Inv'
  <2>1. EntryIsUnreaped' BY <1>10, EntriesGo DEF WatchdogTick, Ends, manager
  <2>. QED BY <1>10, <2>1 DEF WatchdogTick, Ends, manager
<1>11. ASSUME NEW d \in Domains, StopTunnel(d) PROVE Inv'
  BY <1>11 DEF StopTunnel, Terminate, EntryIsUnreaped
<1>12. ASSUME NEW p \in Procs, StopTimeout(p) PROVE Inv'
  <2>1. EntryIsUnreaped' BY <1>12, EntriesGo DEF StopTimeout, Ends, ForgetEntry
  <2>. QED BY <1>12, <2>1 DEF StopTimeout, Ends, ForgetEntry
<1>13. CASE StopAll
  <2>1. Terminate(Tracked) BY <1>13 DEF StopAll
  <2>. QED BY <1>13, <2>1, TerminateKeeps DEF StopAll, EntryIsUnreaped
<1>14. CASE BeforeQuit
  <2>1. CASE Tracked = {} BY <1>14, <2>1 DEF BeforeQuit, EntryIsUnreaped
  <2>2. CASE Tracked # {}
    <3>1. Terminate(Tracked) BY <1>14, <2>2 DEF BeforeQuit
    <3>. QED BY <1>14, <2>2, <3>1, TerminateKeeps DEF BeforeQuit, EntryIsUnreaped
  <2>. QED BY <2>1, <2>2
<1>15. CASE UNCHANGED vars
  BY <1>15 DEF vars, manager, processes, EntryIsUnreaped
<1>. QED BY <1>1, <1>2, <1>3, <1>4, <1>5, <1>6, <1>7, <1>8, <1>9, <1>10, <1>11, <1>12, <1>13,
            <1>14, <1>15 DEF Next

LEMMA Inductive == Spec => []Inv
BY InvInit, InvNext, PTL DEF Spec

\* Every reachable state of the manager is well typed; in particular the restarts that
\* are pending for one binding stay below the crash limit (handleExit).
THEOREM TypeCorrect == Spec => []TypeOK
<1>1. Inv => TypeOK BY DEF Inv
<1>. QED BY <1>1, Inductive, PTL

\* An entry of the Map names a process of that binding whose exit is still to be handled,
\* however many of them end, hang, are stopped and are restarted (spawnFor, stopTunnel).
THEOREM EntriesAreUnreaped == Spec => []EntryIsUnreaped
<1>1. Inv => EntryIsUnreaped BY DEF Inv
<1>. QED BY <1>1, Inductive, PTL

-----------------------------------------------------------------------------
(* DesktopAuth: the invariant.                                             *)

OpRow == [kind : {"idle", "callback", "key", "signOut", "start"},
          pc : {"idle", "wait", "edit", "open", "write", "rename", "spawn"},
          flow : 0..MaxFlows, who : Users \cup {NoUser}, todo : Seq(Slots),
          snap : Sessions, fd : {"none", "tmp", "file", "gone"}]

AuthTypes == /\ flows \in 0..MaxFlows /\ pending \in 0..flows
             /\ current \in Users \cup {NoUser} /\ cache \in Sessions
             /\ file \in Contents /\ tmp \in Contents /\ ops \in [Ops -> OpRow]
             /\ tunnels \in SUBSET Users /\ starts \in 0..MaxStarts
             /\ spent \in SUBSET (1..flows) /\ alone \in BOOLEAN /\ broken \in BOOLEAN

Saving(k) == k.pc \in {"edit", "open", "write", "rename"}
InSave(k) == k.pc \in {"open", "write", "rename"}

\* What a handler is at goes with its kind; who saves a session is a user, unless it
\* signs out.
Fits(k) ==
    /\ k.kind = "callback" => k.flow \in 1..flows
    /\ k.kind = "idle" \/ k.pc = "idle" => k = Idle
    /\ k.pc = "spawn" => k.kind = "start" /\ k.who \in Users
    /\ Saving(k) => \/ k.kind = "signOut" /\ k.who = NoUser
                    \/ k.kind \in {"callback", "key"} /\ k.who \in Users
    /\ Len(k.todo) <= 3
Kinds == \A o \in Ops : Fits(ops[o])

\* A flow that waits for its callback is the last begun, and is not spent.
PendingIsUnspent == pending \in {0, flows} /\ pending \notin spent

OneOp == alone => \A o, p \in Ops : ops[o] # Idle /\ ops[p] # Idle => o = p

\* Alone, a save writes what the cache holds, and to a temporary file of its own.
FileFits(k) ==
    /\ k.fd = IF k.pc \in {"write", "rename"} THEN "tmp" ELSE "none"
    /\ k.pc = "write" => tmp = Empty
    /\ k.pc = "rename" => tmp = Blob(k.snap)
    /\ InSave(k) => k.snap = cache
Files == alone => file.is \in {"missing", "blob"} /\ \A o \in Ops : FileFits(ops[o])

\* Alone and unbroken, the session is whole while nobody saves, the file holds the cache
\* between two saves, and the slots a handler has dealt with hold its user.
Left(t) == {t[i] : i \in DOMAIN t}
Steady == /\ current = cache["access"] /\ current = cache["email"]
          /\ current = NoUser => cache = SignedOut
Dealt(k) == Saving(k) => \A s \in Left(SlotsOf(k.kind)) \ Left(k.todo) : cache[s] = k.who
Halfway == alone /\ ~broken =>
    /\ (\A o \in Ops : ~Saving(ops[o])) => Steady
    /\ (\A o \in Ops : ~InSave(ops[o])) => Loaded(file) = cache
    /\ \A o \in Ops : Dealt(ops[o])

AuthInv == AuthTypes /\ Kinds /\ PendingIsUnspent /\ OneOp /\ Files /\ Halfway

-----------------------------------------------------------------------------
LEMMA Sequences3 ==
    /\ <<>> \in Seq(Slots) /\ Len(<<>>) = 0 /\ Left(<<>>) = {}
    /\ \A kind \in {"callback", "key", "signOut"} :
         /\ SlotsOf(kind) \in Seq(Slots) /\ Len(SlotsOf(kind)) <= 3
         /\ Left(SlotsOf(kind)) = IF kind = "callback" THEN {"access", "email"} ELSE Slots
<1>1. <<>> \in Seq(Slots) /\ Len(<<>>) = 0 /\ Left(<<>>) = {} BY DEF Left
<1>2. /\ <<"access", "email">> \in Seq(Slots) /\ Len(<<"access", "email">>) = 2
      /\ Left(<<"access", "email">>) = {"access", "email"}
  BY DEF Left, Slots
<1>3. /\ <<"access", "email", "deviceId">> \in Seq(Slots)
      /\ Len(<<"access", "email", "deviceId">>) = 3
      /\ Left(<<"access", "email", "deviceId">>) = Slots
  BY DEF Left, Slots
<1>. QED BY <1>1, <1>2, <1>3 DEF SlotsOf

\* The head of what is left is dealt with, the tail is left.
LEMMA HeadAndTail ==
    ASSUME NEW t \in Seq(Slots), t # <<>>
    PROVE  /\ Head(t) \in Slots /\ Tail(t) \in Seq(Slots) /\ Len(Tail(t)) < Len(t)
           /\ Left(t) = {Head(t)} \cup Left(Tail(t))
<1>1. Len(t) \in Nat \ {0} /\ DOMAIN t = 1..Len(t) OBVIOUS
<1>2. Head(t) = t[1] /\ Head(t) \in Slots BY <1>1
<1>3. /\ Tail(t) \in Seq(Slots) /\ Len(Tail(t)) = Len(t) - 1
      /\ \A i \in 1..(Len(t) - 1) : Tail(t)[i] = t[i + 1]
  BY <1>1
<1>4. Left(t) = {Head(t)} \cup Left(Tail(t))
  <2>1. ASSUME NEW i \in DOMAIN t PROVE t[i] \in {Head(t)} \cup Left(Tail(t))
    <3>1. CASE i = 1 BY <1>2, <3>1
    <3>2. CASE i # 1
      <4>1. i - 1 \in 1..(Len(t) - 1) /\ (i - 1) + 1 = i BY <1>1, <3>2
      <4>2. Tail(t)[i - 1] = t[i] /\ i - 1 \in DOMAIN Tail(t) BY <1>3, <4>1
      <4>. QED BY <4>2 DEF Left
    <3>. QED BY <3>1, <3>2
  <2>2. ASSUME NEW i \in DOMAIN Tail(t) PROVE Tail(t)[i] \in Left(t)
    <3>1. i \in 1..(Len(t) - 1) BY <1>3
    <3>2. Tail(t)[i] = t[i + 1] /\ i + 1 \in DOMAIN t BY <1>1, <1>3, <3>1
    <3>. QED BY <3>2 DEF Left
  <2>3. Head(t) \in Left(t) BY <1>1, <1>2 DEF Left
  <2>. QED BY <2>1, <2>2, <2>3 DEF Left
<1>. QED BY <1>1, <1>2, <1>3, <1>4

LEMMA Values ==
    /\ SignedOut \in Sessions /\ {Missing, Empty, Torn} \subseteq Contents
    /\ Missing.is = "missing" /\ Empty.is = "empty" /\ Torn.is = "torn"
    /\ \A s \in Sessions : /\ Blob(s) \in Contents /\ Blob(s).is = "blob"
                           /\ Loaded(Blob(s)) = s
    /\ \A x \in Contents : Loaded(x) \in Sessions
    /\ \A s \in Sessions : Bootstrap(s) \in Users \cup {NoUser}
<1>1. SignedOut \in Sessions BY DEF SignedOut, Sessions
<1>2. Missing.is = "missing" /\ Empty.is = "empty" /\ Torn.is = "torn" BY DEF Missing, Empty, Torn
<1>3. \A s \in Sessions : Blob(s) \in Contents /\ Blob(s).is = "blob" /\ Blob(s).of = s
  BY DEF Contents, Blob
<1>4. \A x \in Contents : Loaded(x) \in Sessions
  <2>. SUFFICES ASSUME NEW x \in Contents PROVE Loaded(x) \in Sessions OBVIOUS
  <2>1. CASE x \in {Missing, Empty, Torn} BY <1>1, <1>2, <2>1 DEF Loaded
  <2>2. CASE \E s \in Sessions : x = Blob(s) BY <1>3, <2>2 DEF Loaded
  <2>. QED BY <2>1, <2>2 DEF Contents
<1>5. \A s \in Sessions : Bootstrap(s) \in Users \cup {NoUser}
  BY DEF Bootstrap, Sessions, Slots
<1>. QED BY <1>1, <1>2, <1>3, <1>4, <1>5 DEF Contents, Loaded

LEMMA IdleFits ==
    /\ Idle \in OpRow /\ Fits(Idle) /\ FileFits(Idle) /\ Dealt(Idle)
    /\ ~Saving(Idle) /\ ~InSave(Idle) /\ Idle.kind = "idle" /\ Idle.pc = "idle"
BY Values, Sequences3, BoundsAreNumbers
   DEF Idle, OpRow, Fits, FileFits, Dealt, Saving, InSave

LEMMA AuthInvInit == AuthInit => AuthInv
<1>. SUFFICES ASSUME AuthInit PROVE AuthInv OBVIOUS
<1>. USE DEF AuthInit
<1>1. AuthTypes
  <2>1. ops \in [Ops -> OpRow] BY IdleFits
  <2>2. 0 \in 0..MaxFlows /\ 0 \in 0..0 /\ 0 \in 0..MaxStarts BY BoundsAreNumbers
  <2>3. cache \in Sessions /\ file \in Contents /\ tmp \in Contents BY Values
  <2>. QED BY <2>1, <2>2, <2>3 DEF AuthTypes
<1>2. Kinds /\ OneOp BY IdleFits DEF Kinds, OneOp
<1>3. Files BY Values, IdleFits DEF Files
<1>4. Steady BY DEF Steady, SignedOut, Slots
<1>5. Loaded(file) = cache BY Values DEF Loaded
<1>6. Halfway BY <1>4, <1>5, IdleFits DEF Halfway
<1>7. PendingIsUnspent BY DEF PendingIsUnspent
<1>. QED BY <1>1, <1>2, <1>3, <1>6, <1>7 DEF AuthInv

-----------------------------------------------------------------------------
(* What one handler's step leaves to show about the others.                *)

\* What Halfway asks of the handler that is alone.
SessionFits(k) == /\ ~Saving(k) => Steady
                  /\ ~InSave(k) => Loaded(file) = cache
                  /\ Dealt(k)

\* A handler that runs alone finds the files and the session as its own steps left them.
LEMMA AloneFinds ==
    ASSUME AuthInv, alone, NEW o \in Ops, \A x \in Ops \ {o} : ops[x] = Idle
    PROVE  /\ file.is \in {"missing", "blob"} /\ FileFits(ops[o])
           /\ ~broken => SessionFits(ops[o])
<1>1. file.is \in {"missing", "blob"} /\ FileFits(ops[o]) BY DEF AuthInv, Files
<1>2. ASSUME ~broken PROVE SessionFits(ops[o])
  <2>1. ASSUME ~Saving(ops[o]) PROVE Steady
    <3>1. \A x \in Ops : ~Saving(ops[x]) BY <2>1, IdleFits
    <3>. QED BY <1>2, <3>1 DEF AuthInv, Halfway
  <2>2. ASSUME ~InSave(ops[o]) PROVE Loaded(file) = cache
    <3>1. \A x \in Ops : ~InSave(ops[x]) BY <2>2, IdleFits
    <3>. QED BY <1>2, <3>1 DEF AuthInv, Halfway
  <2>3. Dealt(ops[o]) BY <1>2 DEF AuthInv, Halfway
  <2>. QED BY <2>1, <2>2, <2>3 DEF SessionFits
<1>. QED BY <1>1, <1>2

\* It leaves them so when the others stay idle and it fits what it is at.
LEMMA AloneLeaves ==
    ASSUME NEW o \in Ops,
           alone' => \A x \in Ops \ {o} : ops'[x] = Idle,
           alone' => file'.is \in {"missing", "blob"} /\ FileFits(ops[o])',
           alone' /\ ~broken' => SessionFits(ops[o])'
    PROVE  Files' /\ Halfway'
<1>1. ASSUME alone', NEW x \in Ops \ {o}
      PROVE  FileFits(ops[x])' /\ Dealt(ops[x])' /\ ~Saving(ops[x])' /\ ~InSave(ops[x])'
  <2>1. ops'[x].pc = "idle" /\ ops'[x].fd = "none" BY <1>1 DEF Idle
  <2>. QED BY <2>1 DEF FileFits, Dealt, Saving, InSave
<1>2. Files' BY <1>1 DEF Files
<1>3. Halfway'
  <2>. SUFFICES ASSUME alone', ~broken' PROVE
         /\ (\A x \in Ops : ~Saving(ops[x])') => Steady'
         /\ (\A x \in Ops : ~InSave(ops[x])') => (Loaded(file) = cache)'
         /\ \A x \in Ops : Dealt(ops[x])'
    BY DEF Halfway
  <2>1. SessionFits(ops[o])' OBVIOUS
  <2>. QED BY <1>1, <2>1 DEF SessionFits
<1>. QED BY <1>2, <1>3

\* No second handler gets to run beside it.
LEMMA OneStays ==
    ASSUME AuthInv, NEW o \in Ops, ops[o] # Idle, alone' = alone, Fits(ops[o])',
           \A x \in Ops \ {o} : /\ Fits(ops[x])'
                                /\ ops[x] = Idle => ops'[x] = Idle
    PROVE  /\ Kinds' /\ OneOp'
           /\ alone' => \A x \in Ops \ {o} : ops[x] = Idle /\ ops'[x] = Idle
<1>1. Kinds' BY DEF Kinds
<1>2. ASSUME alone', NEW x \in Ops \ {o} PROVE ops[x] = Idle /\ ops'[x] = Idle
  BY <1>2 DEF AuthInv, OneOp
<1>3. Idle' = Idle BY DEF Idle, SignedOut
<1>4. OneOp' BY <1>2, <1>3 DEF OneOp
<1>. QED BY <1>1, <1>2, <1>4

\* The same for a step that touches no other handler and begins no flow.
LEMMA OthersKeep ==
    ASSUME AuthInv, NEW o \in Ops, flows' = flows, \A x \in Ops \ {o} : ops'[x] = ops[x]
    PROVE  \A x \in Ops \ {o} : Fits(ops[x])' /\ (ops[x] = Idle => ops'[x] = Idle)
<1>1. ASSUME NEW x \in Ops \ {o} PROVE Fits(ops[x])'
  <2>1. Fits(ops[x]) BY DEF AuthInv, Kinds
  <2>2. Idle' = Idle BY DEF Idle, SignedOut
  <2>. QED BY <2>1, <2>2 DEF Fits, Saving
<1>. QED BY <1>1

\* One handler in flight moves and no other does.
LEMMA HandlerMoves ==
    ASSUME AuthInv, NEW o \in Ops, ops[o] # Idle, alone' = alone, flows' = flows,
           \A x \in Ops \ {o} : ops'[x] = ops[x],
           Fits(ops[o])',
           alone /\ FileFits(ops[o]) /\ file.is \in {"missing", "blob"}
             => file'.is \in {"missing", "blob"} /\ FileFits(ops[o])',
           alone /\ ~broken' /\ FileFits(ops[o]) /\ (~broken => SessionFits(ops[o]))
             => SessionFits(ops[o])'
    PROVE  Kinds' /\ OneOp' /\ Files' /\ Halfway'
<1>1. \A x \in Ops \ {o} : Fits(ops[x])' /\ (ops[x] = Idle => ops'[x] = Idle) BY OthersKeep
<1>2. Kinds' /\ OneOp' /\ (alone' => \A x \in Ops \ {o} : ops[x] = Idle /\ ops'[x] = Idle)
  BY <1>1, OneStays
<1>3. alone => file.is \in {"missing", "blob"} /\ FileFits(ops[o])
               /\ (~broken => SessionFits(ops[o]))
  BY <1>2, AloneFinds
<1>4. Files' /\ Halfway' BY <1>2, <1>3, AloneLeaves
<1>. QED BY <1>2, <1>4

\* A handler begins: alone, if no other was in flight.
LEMMA Starts ==
    ASSUME AuthInv, NEW o \in Ops, NEW kind \in {"callback", "key", "signOut", "start"},
           NEW f \in 0..MaxFlows, Start(o, kind, f), kind = "callback" => f \in 1..flows,
           UNCHANGED <<flows, pending, current, cache>>, tunnels' \in SUBSET Users
    PROVE  AuthInv'
<1>. DEFINE k == [Idle EXCEPT !.kind = kind, !.pc = "wait", !.flow = f]
<1>1. /\ ops[o] = Idle /\ starts < MaxStarts /\ starts' = starts + 1
      /\ alone' = (alone /\ Quiet) /\ UNCHANGED <<file, tmp, spent, broken>>
      /\ ops' = [ops EXCEPT ![o] = k]
  BY DEF Start
<1>2. k \in OpRow BY IdleFits DEF OpRow
<1>3. /\ k.kind = kind /\ k.pc = "wait" /\ k.flow = f /\ k.todo = <<>> /\ k.fd = "none"
  BY DEF Idle
<1>. HIDE DEF k
<1>4. ops'[o] = k /\ \A x \in Ops \ {o} : ops'[x] = ops[x] BY <1>1 DEF AuthInv, AuthTypes
<1>5. AuthTypes'
  <2>1. ops' \in [Ops -> OpRow] BY <1>1, <1>2 DEF AuthInv, AuthTypes
  <2>2. starts' \in 0..MaxStarts BY <1>1, BoundsAreNumbers DEF AuthInv, AuthTypes
  <2>3. alone' \in BOOLEAN BY <1>1
  <2>. QED BY <1>1, <2>1, <2>2, <2>3 DEF AuthInv, AuthTypes
<1>6. Fits(ops[o])' BY <1>3, <1>4, Sequences3 DEF Fits, Saving
<1>7. \A x \in Ops \ {o} : Fits(ops[x])' /\ (ops[x] = Idle => ops'[x] = Idle)
  BY <1>4, OthersKeep
<1>8. Kinds' BY <1>6, <1>7 DEF Kinds
<1>9. alone' => alone /\ \A x \in Ops : ops[x] = Idle BY <1>1 DEF Quiet
<1>10. alone' => \A x \in Ops \ {o} : ops'[x] = Idle BY <1>9, <1>4
<1>11. OneOp' BY <1>10 DEF OneOp, Idle, SignedOut
<1>12. alone => file.is \in {"missing", "blob"} BY DEF AuthInv, Files
<1>13. alone' /\ ~broken' => Steady /\ Loaded(file) = cache
  BY <1>1, <1>9, IdleFits DEF AuthInv, Halfway
<1>14. FileFits(ops[o])' BY <1>3, <1>4 DEF FileFits, InSave
<1>15. alone' /\ ~broken' => SessionFits(ops[o])'
  BY <1>1, <1>3, <1>4, <1>13 DEF SessionFits, Dealt, Saving, Steady
<1>16. Files' /\ Halfway' BY <1>1, <1>9, <1>10, <1>12, <1>14, <1>15, AloneLeaves
<1>17. PendingIsUnspent' BY <1>1 DEF AuthInv, PendingIsUnspent
<1>. QED BY <1>5, <1>8, <1>11, <1>16, <1>17 DEF AuthInv

LEMMA Waits ==
    ASSUME AuthInv, NEW o \in Ops, NEW u \in Users \cup {NoUser},
           Answered(o, u) \/ GotToken(o) \/ SpawnTunnel(o)
    PROVE  AuthInv'
<1>1. UNCHANGED <<flows, pending, current, cache, file, tmp, starts, spent, alone, broken>>
  BY DEF Answered, GotToken, SpawnTunnel, history
<1>2. PICK k \in OpRow :
        /\ ops' = [ops EXCEPT ![o] = k] /\ k.pc \in {"edit", "spawn", "idle"}
        /\ k.fd = ops[o].fd \/ k = Idle
        /\ k.pc = "edit" => k.todo = SlotsOf(k.kind)
        /\ (Fits(ops[o]) => Fits(k)) /\ ops[o].pc \in {"wait", "spawn"}
  <2>. DEFINE j == ops[o]
  <2>0. j \in OpRow /\ Fits(j) BY DEF AuthInv, AuthTypes, Kinds
  <2>1. CASE Answered(o, u)
    <3>. DEFINE k == [j EXCEPT !.pc = "edit", !.who = u, !.todo = SlotsOf(j.kind)]
    <3>1. j.kind \in {"callback", "key", "signOut"} /\ j.pc = "wait" BY <2>1 DEF Answered
    <3>2. ops' = [ops EXCEPT ![o] = k] BY <2>0, <2>1 DEF Answered, AuthInv, AuthTypes, OpRow
    <3>3. k \in OpRow BY <2>0, <3>1, Sequences3 DEF OpRow
    <3>4. /\ k.pc = "edit" /\ k.who = u /\ k.todo = SlotsOf(j.kind) /\ k.kind = j.kind
          /\ k.fd = j.fd /\ k.flow = j.flow
      BY <2>0 DEF OpRow
    <3>. HIDE DEF k
    <3>5. Fits(k) BY <2>0, <2>1, <3>1, <3>4, Sequences3 DEF Fits, Saving, Answered
    <3>. QED BY <3>1, <3>2, <3>3, <3>4, <3>5
  <2>2. CASE GotToken(o)
    <3>. DEFINE k == IF cache["access"] = NoUser THEN Idle
                     ELSE [j EXCEPT !.pc = "spawn", !.who = cache["access"]]
    <3>1. j.kind = "start" /\ j.pc = "wait" BY <2>2 DEF GotToken, At
    <3>2. ops' = [ops EXCEPT ![o] = k] BY <2>0, <2>2 DEF GotToken, AuthInv, AuthTypes
    <3>3. CASE cache["access"] = NoUser BY <3>1, <3>2, <3>3, IdleFits
    <3>4. CASE cache["access"] # NoUser
      <4>1. cache["access"] \in Users BY <3>4 DEF AuthInv, AuthTypes, Sessions, Slots
      <4>2. k = [j EXCEPT !.pc = "spawn", !.who = cache["access"]] BY <3>4
      <4>3. k \in OpRow BY <2>0, <4>1, <4>2 DEF OpRow
      <4>4. /\ k.pc = "spawn" /\ k.who = cache["access"] /\ k.todo = j.todo
            /\ k.kind = "start" /\ k.fd = j.fd
        BY <2>0, <3>1, <4>2 DEF OpRow
      <4>. HIDE DEF k
      <4>5. Fits(k) BY <2>0, <4>1, <4>4 DEF Fits, Saving
      <4>. QED BY <3>1, <3>2, <4>3, <4>4, <4>5
    <3>. QED BY <3>3, <3>4
  <2>3. CASE SpawnTunnel(o) BY <2>3, IdleFits DEF SpawnTunnel, At
  <2>. QED BY <2>1, <2>2, <2>3
<1>3. ops'[o] = k /\ \A x \in Ops \ {o} : ops'[x] = ops[x] BY <1>2 DEF AuthInv, AuthTypes
<1>4. Fits(ops[o])'
  <2>1. Fits(k) BY <1>2 DEF AuthInv, Kinds
  <2>. QED BY <1>1, <1>3, <2>1 DEF Fits, Saving, Idle, SignedOut
<1>5. AuthTypes'
  <2>1. ops' \in [Ops -> OpRow] BY <1>2 DEF AuthInv, AuthTypes
  <2>2. tunnels' \in SUBSET Users
    <3>1. CASE Answered(o, u) \/ GotToken(o)
      BY <3>1 DEF Answered, GotToken, AuthInv, AuthTypes
    <3>2. CASE SpawnTunnel(o)
      BY <3>2 DEF SpawnTunnel, At, AuthInv, AuthTypes, Kinds, Fits
    <3>. QED BY <3>1, <3>2
  <2>. QED BY <1>1, <2>1, <2>2 DEF AuthInv, AuthTypes
<1>6. ops[o] # Idle BY <1>2, IdleFits
<1>7. alone /\ FileFits(ops[o]) /\ file.is \in {"missing", "blob"}
        => file'.is \in {"missing", "blob"} /\ FileFits(ops[o])'
  BY <1>1, <1>2, <1>3 DEF FileFits, InSave, Idle
<1>8. alone /\ ~broken' /\ FileFits(ops[o]) /\ (~broken => SessionFits(ops[o]))
        => SessionFits(ops[o])'
  <2>1. ~Saving(ops[o]) /\ ~InSave(ops[o]) BY <1>2 DEF Saving, InSave
  <2>2. (SessionFits(ops[o]) => Steady /\ Loaded(file) = cache) BY <2>1 DEF SessionFits
  <2>3. Dealt(ops[o])' BY <1>2, <1>3 DEF Dealt, Saving
  <2>. QED BY <1>1, <2>2, <2>3 DEF SessionFits, Steady
<1>9. Kinds' /\ OneOp' /\ Files' /\ Halfway'
  BY <1>1, <1>3, <1>4, <1>6, <1>7, <1>8, HandlerMoves
<1>10. PendingIsUnspent' BY <1>1 DEF AuthInv, PendingIsUnspent
<1>. QED BY <1>5, <1>9, <1>10 DEF AuthInv

\* A new flow, a refused link and one that does not match touch the flows alone: which
\* are begun, which is pending and which are spent.
LEMMA Flows ==
    ASSUME AuthInv, Begin \/ StateMismatch \/ LinkRefused
    PROVE  AuthInv'
<1>1. /\ UNCHANGED <<current, cache, ops, tunnels, file, tmp, alone, broken>>
      /\ flows \in 0..flows' /\ flows' \in 0..MaxFlows /\ pending' \in 0..flows'
      /\ spent' \in SUBSET (1..flows') /\ PendingIsUnspent' /\ starts' \in 0..MaxStarts
  <2>0. /\ flows \in 0..MaxFlows /\ pending \in 0..flows /\ spent \subseteq 1..flows
        /\ starts \in 0..MaxStarts /\ PendingIsUnspent
    BY DEF AuthInv, AuthTypes
  <2>. USE DEF PendingIsUnspent
  <2>1. CASE Begin BY <2>0, <2>1, BoundsAreNumbers DEF Begin, history
  <2>2. CASE StateMismatch BY <2>0, <2>2, BoundsAreNumbers DEF StateMismatch
  <2>3. CASE LinkRefused BY <2>0, <2>3, BoundsAreNumbers DEF LinkRefused, memory
  <2>. QED BY <2>1, <2>2, <2>3
<1>2. AuthTypes' BY <1>1, BoundsAreNumbers DEF AuthInv, AuthTypes
<1>3. Kinds'
  <2>. SUFFICES ASSUME NEW o \in Ops PROVE Fits(ops[o])' BY DEF Kinds
  <2>1. Fits(ops[o]) BY DEF AuthInv, Kinds
  <2>2. 1..flows \subseteq 1..flows' BY <1>1, BoundsAreNumbers DEF AuthInv, AuthTypes
  <2>. QED BY <1>1, <2>1, <2>2 DEF Fits, Saving, Idle, SignedOut
<1>4. PendingIsUnspent' BY <1>1
<1>5. OneOp' BY <1>1 DEF AuthInv, OneOp, Idle, SignedOut
<1>6. Files' BY <1>1 DEF AuthInv, Files, FileFits, InSave, Empty, Blob, SignedOut
<1>7. Halfway'
  <2>1. /\ Steady' <=> Steady
        /\ (Loaded(file) = cache)' <=> Loaded(file) = cache
    BY <1>1 DEF Steady, SignedOut, Loaded
  <2>2. ASSUME NEW o \in Ops PROVE Saving(ops[o])' <=> Saving(ops[o])
    BY <1>1 DEF Saving
  <2>3. ASSUME NEW o \in Ops PROVE InSave(ops[o])' <=> InSave(ops[o])
    BY <1>1 DEF InSave
  <2>4. ASSUME NEW o \in Ops, Dealt(ops[o]) PROVE Dealt(ops[o])'
    <3>1. ops'[o] = ops[o] /\ cache' = cache BY <1>1
    <3>. QED BY <2>2, <2>4, <3>1 DEF Dealt, Saving
  <2>. QED BY <1>1, <2>1, <2>2, <2>3, <2>4 DEF AuthInv, Halfway
<1>. QED BY <1>2, <1>3, <1>4, <1>5, <1>6, <1>7 DEF AuthInv

\* What Finally does to the flows, whoever it is for.
LEMMA FinallyKeeps ==
    ASSUME AuthInv, NEW o \in Ops, Finally(o), flows' = flows
    PROVE  pending' \in 0..flows' /\ spent' \in SUBSET (1..flows') /\ PendingIsUnspent'
<1>1. CASE ops[o].kind = "callback"
  <2>1. pending' = 0 /\ spent' = spent \cup {ops[o].flow} BY <1>1 DEF Finally
  <2>2. ops[o].flow \in 1..flows BY <1>1 DEF AuthInv, Kinds, Fits
  <2>3. 0 \in 0..flows /\ 0 \notin 1..flows BY BoundsAreNumbers DEF AuthInv, AuthTypes
  <2>4. spent' \subseteq 1..flows BY <2>1, <2>2 DEF AuthInv, AuthTypes
  <2>. QED BY <2>1, <2>3, <2>4 DEF PendingIsUnspent
<1>2. CASE ops[o].kind # "callback"
  <2>1. pending' = pending /\ spent' = spent BY <1>2 DEF Finally
  <2>. QED BY <2>1 DEF AuthInv, AuthTypes, PendingIsUnspent
<1>. QED BY <1>1, <1>2

LEMMA Edits ==
    ASSUME AuthInv, NEW o \in Ops, Edit(o)
    PROVE  AuthInv'
<1>. DEFINE j == ops[o]
            t == Tail(j.todo)
<1>0. j \in OpRow /\ Fits(j) BY DEF AuthInv, AuthTypes, Kinds
<1>1. /\ j.pc = "edit" /\ j.todo # <<>>
      /\ cache' = [cache EXCEPT ![Head(j.todo)] = j.who]
      /\ UNCHANGED <<flows, pending, current, tunnels, file, tmp, starts, spent, alone, broken>>
  BY DEF Edit, history
<1>2. /\ Head(j.todo) \in Slots /\ t \in Seq(Slots) /\ Len(t) < Len(j.todo)
      /\ Len(j.todo) \in Nat /\ Len(t) \in Nat
      /\ Left(j.todo) = {Head(j.todo)} \cup Left(t)
  <2>1. j.todo \in Seq(Slots) BY <1>0 DEF OpRow
  <2>2. t \in Seq(Slots) /\ Head(j.todo) \in Slots /\ Len(t) < Len(j.todo)
        /\ Left(j.todo) = {Head(j.todo)} \cup Left(t)
    BY <1>1, <2>1, HeadAndTail
  <2>. QED BY <2>1, <2>2
<1>3. j.who \in Users \cup {NoUser} BY <1>0 DEF OpRow
<1>4. cache' \in Sessions BY <1>1, <1>2, <1>3 DEF Sessions, AuthInv, AuthTypes
<1>5. PICK k \in OpRow : /\ ops' = [ops EXCEPT ![o] = k]
                         /\ k.kind = j.kind /\ k.pc = "open" /\ k.who = j.who /\ k.flow = j.flow
                         /\ k.todo = t /\ k.snap = cache' /\ k.fd = j.fd
  <2>. DEFINE i == [j EXCEPT !.pc = "open", !.todo = t, !.snap = cache']
  <2>1. ops' = [ops EXCEPT ![o] = i] BY <1>0 DEF Edit, AuthInv, AuthTypes, OpRow
  <2>2. i \in OpRow BY <1>0, <1>2, <1>4 DEF OpRow
  <2>3. /\ i.kind = j.kind /\ i.pc = "open" /\ i.who = j.who /\ i.flow = j.flow
        /\ i.todo = t /\ i.snap = cache' /\ i.fd = j.fd
    BY <1>0 DEF OpRow
  <2>. HIDE DEF i
  <2>. QED BY <2>1, <2>2, <2>3
<1>6. ops'[o] = k /\ \A x \in Ops \ {o} : ops'[x] = ops[x] BY <1>5 DEF AuthInv, AuthTypes
<1>7. Saving(j) /\ Saving(k) /\ InSave(k) BY <1>1, <1>5 DEF Saving, InSave
<1>8. Fits(ops[o])'
  <2>1. j.kind # "idle" /\ Len(t) <= 3 BY <1>0, <1>2, <1>7 DEF Fits
  <2>. QED BY <1>0, <1>1, <1>5, <1>6, <1>7, <2>1 DEF Fits, Saving
<1>9. AuthTypes'
  <2>1. ops' \in [Ops -> OpRow] BY <1>5 DEF AuthInv, AuthTypes
  <2>. QED BY <1>1, <1>4, <2>1 DEF AuthInv, AuthTypes
<1>10. j # Idle BY <1>1, IdleFits
<1>11. alone /\ FileFits(j) /\ file.is \in {"missing", "blob"}
         => file'.is \in {"missing", "blob"} /\ FileFits(ops[o])'
  BY <1>1, <1>5, <1>6 DEF FileFits, InSave
<1>12. alone /\ ~broken' /\ FileFits(j) /\ (~broken => SessionFits(j)) => SessionFits(ops[o])'
  <2>. SUFFICES ASSUME SessionFits(j) PROVE SessionFits(ops[o])' BY <1>1
  <2>1. \A s \in Left(SlotsOf(j.kind)) \ Left(j.todo) : cache[s] = j.who
    BY <1>7 DEF SessionFits, Dealt
  <2>2. \A s \in Left(SlotsOf(j.kind)) : s \in Slots
    <3>1. j.kind \in {"callback", "key", "signOut"} BY <1>0, <1>7 DEF Fits
    <3>. QED BY <3>1, Sequences3 DEF Slots
  <2>3. \A s \in Left(SlotsOf(j.kind)) \ Left(t) : cache'[s] = j.who
    BY <1>1, <1>2, <2>1, <2>2 DEF AuthInv, AuthTypes, Sessions
  <2>4. Dealt(ops[o])' BY <1>5, <1>6, <2>3 DEF Dealt
  <2>5. (Saving(ops[o]) /\ InSave(ops[o]))' BY <1>6, <1>7 DEF Saving, InSave
  <2>. QED BY <2>4, <2>5 DEF SessionFits
<1>13. Kinds' /\ OneOp' /\ Files' /\ Halfway'
  BY <1>1, <1>6, <1>8, <1>10, <1>11, <1>12, HandlerMoves
<1>14. PendingIsUnspent' BY <1>1 DEF AuthInv, PendingIsUnspent
<1>. QED BY <1>9, <1>13, <1>14 DEF AuthInv

\* A handler ends, having done all it had to or having failed.
LEMMA Finishes ==
    ASSUME AuthInv, NEW o \in Ops, Done(o) \/ Fails(o)
    PROVE  AuthInv'
<1>. DEFINE j == ops[o]
<1>0. j \in OpRow /\ Fits(j) BY DEF AuthInv, AuthTypes, Kinds
<1>1. /\ ops' = [ops EXCEPT ![o] = Idle] /\ Finally(o)
      /\ UNCHANGED <<flows, cache, tunnels, file, tmp, starts, alone>>
  BY DEF Done, Fails
<1>2. ops'[o] = Idle /\ \A x \in Ops \ {o} : ops'[x] = ops[x] BY <1>1 DEF AuthInv, AuthTypes
<1>3. j # Idle BY IdleFits DEF Done, Fails
<1>4. Fits(ops[o])' BY <1>2 DEF Fits, Saving, Idle, SignedOut
<1>5. current' \in Users \cup {NoUser} /\ broken' \in BOOLEAN
  <2>1. CASE Done(o) BY <1>0, <2>1 DEF Done, OpRow, AuthInv, AuthTypes
  <2>2. CASE Fails(o) BY <1>0, <2>2 DEF Fails, OpRow, AuthInv, AuthTypes
  <2>. QED BY <2>1, <2>2
<1>6. pending' \in 0..flows' /\ spent' \in SUBSET (1..flows') /\ PendingIsUnspent'
  BY <1>1, FinallyKeeps
<1>7. AuthTypes'
  <2>1. ops' \in [Ops -> OpRow] BY <1>1, IdleFits DEF AuthInv, AuthTypes
  <2>. QED BY <1>1, <1>5, <1>6, <2>1 DEF AuthInv, AuthTypes
<1>8. (FileFits(ops[o]) /\ Dealt(ops[o]))'
  BY <1>2 DEF FileFits, Dealt, Saving, InSave, Idle
<1>9. ASSUME alone, ~broken', FileFits(j), ~broken => SessionFits(j)
      PROVE  Steady' /\ Loaded(file') = cache'
  <2>1. CASE Done(o)
    <3>1. /\ j.pc = "edit" /\ j.todo = <<>> /\ current' = j.who /\ ~broken
      BY <1>9, <2>1 DEF Done
    <3>2. Saving(j) /\ ~InSave(j) BY <3>1 DEF Saving, InSave
    <3>3. Loaded(file) = cache /\ \A s \in Left(SlotsOf(j.kind)) : cache[s] = j.who
      BY <1>9, <3>1, <3>2, Sequences3 DEF SessionFits, Dealt
    <3>4. /\ j.kind \in {"callback", "key", "signOut"}
          /\ j.kind # "signOut" => j.who # NoUser
      BY <1>0, <3>2, NoUserIsNone DEF Fits
    <3>5. cache["access"] = j.who /\ cache["email"] = j.who
      BY <3>3, <3>4, Sequences3 DEF Slots
    <3>6. j.who = NoUser => cache = SignedOut
      <4>. SUFFICES ASSUME j.who = NoUser PROVE cache = SignedOut OBVIOUS
      <4>1. \A s \in Slots : cache[s] = NoUser BY <3>3, <3>4, Sequences3 DEF Slots
      <4>. QED BY <4>1 DEF SignedOut, AuthInv, AuthTypes, Sessions
    <3>. QED BY <1>1, <3>1, <3>3, <3>5, <3>6 DEF Steady, SignedOut
  <2>2. CASE Fails(o)
    <3>1. j.pc = "wait" /\ ~broken /\ current' = current BY <1>9, <2>2 DEF Fails
    <3>2. ~Saving(j) /\ ~InSave(j) BY <3>1 DEF Saving, InSave
    <3>3. Steady /\ Loaded(file) = cache BY <1>9, <3>1, <3>2 DEF SessionFits
    <3>. QED BY <1>1, <3>1, <3>3 DEF Steady, SignedOut
  <2>. QED BY <2>1, <2>2
<1>10. alone /\ ~broken' /\ FileFits(j) /\ (~broken => SessionFits(j)) => SessionFits(ops[o])'
  BY <1>8, <1>9 DEF SessionFits
<1>11. Kinds' /\ OneOp' /\ Files' /\ Halfway'
  BY <1>1, <1>2, <1>3, <1>4, <1>8, <1>10, HandlerMoves
<1>. QED BY <1>6, <1>7, <1>11 DEF AuthInv

\* The blob a save is about to write is the only thing it can write over an empty file.
LEMMA OverwritesTypes ==
    ASSUME NEW content \in Contents, NEW snap \in Sessions
    PROVE  /\ Overwrites(content, snap) \subseteq Contents
           /\ content = Empty => Overwrites(content, snap) = {Blob(snap)}
BY Values DEF Overwrites

LEMMA OpensAndWrites ==
    ASSUME AuthInv, NEW o \in Ops, Open(o) \/ Write(o)
    PROVE  AuthInv'
<1>. DEFINE j == ops[o]
<1>0. j \in OpRow /\ Fits(j) BY DEF AuthInv, AuthTypes, Kinds
<1>1. /\ j.pc \in {"open", "write"}
      /\ UNCHANGED <<flows, pending, current, cache, tunnels, starts, spent, alone, broken>>
  BY DEF Open, Write, history
<1>2. PICK k \in OpRow : /\ ops' = [ops EXCEPT ![o] = k]
                         /\ k.kind = j.kind /\ k.who = j.who /\ k.flow = j.flow
                         /\ k.todo = j.todo /\ k.snap = j.snap
                         /\ \/ Open(o) /\ k.pc = "write" /\ k.fd = "tmp"
                            \/ Write(o) /\ k.pc = "rename" /\ k.fd = j.fd
  <2>1. CASE Open(o)
    <3>. DEFINE i == [j EXCEPT !.pc = "write", !.fd = "tmp"]
    <3>1. ops' = [ops EXCEPT ![o] = i] BY <1>0, <2>1 DEF Open, AuthInv, AuthTypes, OpRow
    <3>2. /\ i \in OpRow /\ i.kind = j.kind /\ i.pc = "write" /\ i.who = j.who
          /\ i.flow = j.flow /\ i.todo = j.todo /\ i.snap = j.snap /\ i.fd = "tmp"
      BY <1>0 DEF OpRow
    <3>. HIDE DEF i
    <3>. QED BY <2>1, <3>1, <3>2
  <2>2. CASE Write(o)
    <3>. DEFINE i == [j EXCEPT !.pc = "rename"]
    <3>1. ops' = [ops EXCEPT ![o] = i] BY <1>0, <2>2 DEF Write, AuthInv, AuthTypes, OpRow
    <3>2. /\ i \in OpRow /\ i.kind = j.kind /\ i.pc = "rename" /\ i.who = j.who
          /\ i.flow = j.flow /\ i.todo = j.todo /\ i.snap = j.snap /\ i.fd = j.fd
      BY <1>0 DEF OpRow
    <3>. HIDE DEF i
    <3>. QED BY <2>2, <3>1, <3>2
  <2>. QED BY <2>1, <2>2
<1>3. ops'[o] = k /\ \A x \in Ops \ {o} : ops'[x] = ops[x] BY <1>2 DEF AuthInv, AuthTypes
<1>4. Saving(j) /\ InSave(j) /\ Saving(k) /\ InSave(k) BY <1>1, <1>2 DEF Saving, InSave
<1>5. j.kind # "idle" /\ k.pc \notin {"idle", "spawn"} BY <1>0, <1>2, <1>4 DEF Fits
<1>6. Fits(ops[o])'
  <2>1. Fits(k) BY <1>0, <1>2, <1>4, <1>5 DEF Fits
  <2>. QED BY <1>1, <1>3, <2>1 DEF Fits, Saving, Idle, SignedOut
<1>7. file' \in Contents /\ tmp' \in Contents
  <2>0. j.snap \in Sessions /\ file \in Contents /\ tmp \in Contents
    BY <1>0 DEF OpRow, AuthInv, AuthTypes
  <2>1. CASE Open(o) BY <2>0, <2>1, Values DEF Open
  <2>2. CASE Write(o) BY <2>0, <2>2, OverwritesTypes DEF Write
  <2>. QED BY <2>1, <2>2
<1>8. AuthTypes'
  <2>1. ops' \in [Ops -> OpRow] BY <1>2 DEF AuthInv, AuthTypes
  <2>. QED BY <1>1, <1>7, <2>1 DEF AuthInv, AuthTypes
<1>9. j # Idle BY <1>1, IdleFits
<1>10. ASSUME FileFits(j), file.is \in {"missing", "blob"}
       PROVE  file'.is \in {"missing", "blob"} /\ FileFits(ops[o])'
  <2>0. j.snap = cache /\ j.snap \in Sessions BY <1>0, <1>4, <1>10 DEF FileFits, OpRow
  <2>1. CASE Open(o)
    <3>1. tmp' = Empty /\ file' = file /\ k.pc = "write" /\ k.fd = "tmp"
      BY <1>2, <2>1 DEF Open, Write
    <3>. QED BY <1>1, <1>2, <1>3, <1>10, <2>0, <3>1 DEF FileFits, Empty, SignedOut
  <2>2. CASE Write(o)
    <3>1. j.pc = "write" /\ j.fd = "tmp" /\ tmp = Empty BY <1>10, <2>2 DEF Write, FileFits
    <3>2. tmp' = Blob(j.snap) /\ file' = file
      BY <2>0, <2>2, <3>1, OverwritesTypes DEF Write, AuthInv, AuthTypes
    <3>3. k.pc = "rename" /\ k.fd = "tmp" BY <1>2, <2>2, <3>1 DEF Open, Write
    <3>. QED BY <1>1, <1>2, <1>3, <1>10, <2>0, <3>2, <3>3 DEF FileFits, Blob
  <2>. QED BY <2>1, <2>2
<1>11. SessionFits(j) => SessionFits(ops[o])'
  <2>1. Dealt(j) => Dealt(ops[o])' BY <1>1, <1>2, <1>3, <1>4 DEF Dealt
  <2>2. (Saving(ops[o]) /\ InSave(ops[o]))' BY <1>3, <1>4 DEF Saving, InSave
  <2>. QED BY <2>1, <2>2 DEF SessionFits
<1>12. Kinds' /\ OneOp' /\ Files' /\ Halfway'
  BY <1>1, <1>3, <1>6, <1>9, <1>10, <1>11, HandlerMoves
<1>13. PendingIsUnspent' BY <1>1 DEF AuthInv, PendingIsUnspent
<1>. QED BY <1>8, <1>12, <1>13 DEF AuthInv

LEMMA RenamesInVain ==
    ASSUME AuthInv, NEW o \in Ops, Rename(o), tmp = Missing
    PROVE  AuthInv'
<1>. DEFINE j == ops[o]
<1>1. /\ j.pc = "rename" /\ ops' = [ops EXCEPT ![o] = Idle] /\ Finally(o) /\ broken' = TRUE
      /\ UNCHANGED <<flows, current, cache, tunnels, file, tmp, starts, alone>>
  BY DEF Rename
<1>2. ops'[o] = Idle /\ \A x \in Ops \ {o} : ops'[x] = ops[x] BY <1>1 DEF AuthInv, AuthTypes
<1>3. j # Idle BY <1>1, IdleFits
<1>4. Fits(ops[o])' BY <1>2 DEF Fits, Saving, Idle, SignedOut
<1>5. pending' \in 0..flows' /\ spent' \in SUBSET (1..flows') /\ PendingIsUnspent'
  BY <1>1, FinallyKeeps
<1>6. AuthTypes'
  <2>1. ops' \in [Ops -> OpRow] BY <1>1, IdleFits DEF AuthInv, AuthTypes
  <2>. QED BY <1>1, <1>5, <2>1 DEF AuthInv, AuthTypes
<1>7. ~FileFits(j) BY <1>1, Values DEF FileFits, Blob, Missing
<1>8. Kinds' /\ OneOp' /\ Files' /\ Halfway' BY <1>1, <1>2, <1>3, <1>4, <1>7, HandlerMoves
<1>. QED BY <1>5, <1>6, <1>8 DEF AuthInv

\* A descriptor that follows its file stays a descriptor, and nobody's stays nobody's.
LEMMA MovedTypes ==
    \A fd \in {"none", "tmp", "file", "gone"} :
        Moved(fd) \in {"none", "tmp", "file", "gone"} /\ (fd = "none" => Moved(fd) = "none")
BY DEF Moved

LEMMA Renames ==
    ASSUME AuthInv, NEW o \in Ops, Rename(o), tmp # Missing
    PROVE  AuthInv'
<1>. DEFINE j == ops[o]
            k == [j EXCEPT !.pc = "edit", !.fd = "none"]
            other(x) == [ops[x] EXCEPT !.fd = Moved(@)]
<1>0. /\ j \in OpRow /\ Fits(j)
      /\ \A x \in Ops : ops[x] \in OpRow /\ Fits(ops[x])
  BY DEF AuthInv, AuthTypes, Kinds
<1>1. /\ j.pc = "rename" /\ file' = tmp /\ tmp' = Missing
      /\ UNCHANGED <<flows, pending, current, cache, tunnels, starts, spent, alone, broken>>
      /\ ops' = [x \in Ops |-> IF x = o THEN k ELSE other(x)]
  BY DEF Rename
<1>2. /\ k \in OpRow /\ k.kind = j.kind /\ k.pc = "edit" /\ k.who = j.who /\ k.flow = j.flow
      /\ k.todo = j.todo /\ k.snap = j.snap /\ k.fd = "none"
  BY <1>0 DEF OpRow
<1>3. ASSUME NEW x \in Ops
      PROVE  /\ other(x) \in OpRow /\ other(x).kind = ops[x].kind /\ other(x).pc = ops[x].pc
             /\ other(x).who = ops[x].who /\ other(x).flow = ops[x].flow
             /\ other(x).todo = ops[x].todo
  BY <1>0, MovedTypes DEF OpRow
<1>4. ASSUME NEW x \in Ops, ops[x] = Idle PROVE other(x) = Idle
  <2>1. Moved(Idle.fd) = "none" BY MovedTypes DEF Idle
  <2>2. other(x) = [Idle EXCEPT !.fd = "none"] BY <1>4, <2>1
  <2>. QED BY <2>2 DEF Idle
<1>5. ops'[o] = k /\ \A x \in Ops \ {o} : ops'[x] = other(x) BY <1>1
<1>6. ops' \in [Ops -> OpRow] BY <1>1, <1>2, <1>3
<1>. HIDE DEF k, other
<1>7. Saving(j) /\ Saving(k) BY <1>1, <1>2 DEF Saving
<1>8. Fits(ops[o])'
  <2>1. Fits(k) BY <1>0, <1>2, <1>7 DEF Fits
  <2>. QED BY <1>1, <1>5, <2>1 DEF Fits, Saving, Idle, SignedOut
<1>9. ASSUME NEW x \in Ops \ {o}
      PROVE  Fits(ops[x])' /\ (ops[x] = Idle => ops'[x] = Idle)
  <2>1. ops'[x] = other(x) BY <1>5
  <2>2. Fits(other(x)) BY <1>0, <1>3, <1>4 DEF Fits, Saving
  <2>3. Fits(ops[x])' BY <1>1, <2>1, <2>2 DEF Fits, Saving, Idle, SignedOut
  <2>. QED BY <1>4, <2>1, <2>3
<1>10. AuthTypes' BY <1>1, <1>6, Values DEF AuthInv, AuthTypes
<1>11. j # Idle BY <1>1, IdleFits
<1>12. /\ Kinds' /\ OneOp'
       /\ alone' => \A x \in Ops \ {o} : ops[x] = Idle /\ ops'[x] = Idle
  BY <1>1, <1>8, <1>9, <1>11, OneStays
<1>13. ASSUME alone
       PROVE  /\ file'.is \in {"missing", "blob"} /\ FileFits(ops[o])'
              /\ ~broken' => SessionFits(ops[o])'
  <2>1. FileFits(j) /\ (~broken => SessionFits(j)) BY <1>1, <1>12, <1>13, AloneFinds
  <2>2. tmp = Blob(j.snap) /\ j.snap = cache BY <1>1, <2>1 DEF FileFits, InSave
  <2>3. file' = Blob(cache) /\ cache' = cache /\ cache \in Sessions
    BY <1>1, <2>2 DEF AuthInv, AuthTypes
  <2>4. file'.is = "blob" /\ Loaded(file') = cache' BY <2>3, Values
  <2>5. FileFits(ops[o])' BY <1>2, <1>5 DEF FileFits, InSave
  <2>6. ASSUME ~broken' PROVE SessionFits(ops[o])'
    <3>1. Dealt(j) BY <1>1, <2>1, <2>6 DEF SessionFits
    <3>2. Dealt(ops[o])' BY <1>1, <1>2, <1>5, <1>7, <3>1 DEF Dealt
    <3>3. Saving(ops[o])' BY <1>5, <1>7 DEF Saving
    <3>. QED BY <2>4, <3>2, <3>3 DEF SessionFits
  <2>. QED BY <2>4, <2>5, <2>6
<1>14. Files' /\ Halfway' BY <1>1, <1>12, <1>13, AloneLeaves
<1>15. PendingIsUnspent' BY <1>1 DEF AuthInv, PendingIsUnspent
<1>. QED BY <1>10, <1>12, <1>14, <1>15 DEF AuthInv

LEMMA Restarts ==
    ASSUME AuthInv, Restart
    PROVE  AuthInv'
<1>1. /\ starts < MaxStarts /\ starts' = starts + 1 /\ broken' = (broken \/ ~Quiet)
      /\ cache' = Loaded(file) /\ current' = Bootstrap(Loaded(file))
      /\ file' = IF file.is = "torn" THEN Missing ELSE file
      /\ pending' = 0 /\ ops' = [o \in Ops |-> Idle] /\ tunnels' = {}
      /\ UNCHANGED <<flows, tmp, spent, alone>>
  BY DEF Restart
<1>2. Loaded(file) \in Sessions /\ current' \in Users \cup {NoUser}
  BY <1>1, Values DEF AuthInv, AuthTypes
<1>3. AuthTypes'
  <2>1. ops' \in [Ops -> OpRow] BY <1>1, IdleFits
  <2>2. starts' \in 0..MaxStarts /\ pending' \in 0..flows
    BY <1>1, BoundsAreNumbers DEF AuthInv, AuthTypes
  <2>3. file' \in Contents /\ broken' \in BOOLEAN BY <1>1, Values DEF AuthInv, AuthTypes
  <2>. QED BY <1>1, <1>2, <2>1, <2>2, <2>3 DEF AuthInv, AuthTypes
<1>4. ASSUME NEW o \in Ops
      PROVE  (Fits(ops[o]) /\ FileFits(ops[o]) /\ Dealt(ops[o]) /\ ops[o] = Idle)'
  <2>1. ops'[o] = Idle BY <1>1
  <2>2. Fits(ops[o])' BY <2>1 DEF Fits, Saving, Idle, SignedOut
  <2>3. (FileFits(ops[o]) /\ Dealt(ops[o]))'
    BY <2>1 DEF FileFits, Dealt, Saving, InSave, Idle
  <2>4. (ops[o] = Idle)' BY <2>1 DEF Idle, SignedOut
  <2>. QED BY <2>2, <2>3, <2>4
<1>5. Kinds' /\ OneOp' BY <1>4 DEF Kinds, OneOp
<1>6. alone => file' = file /\ file.is \in {"missing", "blob"}
  BY <1>1, Values DEF AuthInv, Files
<1>7. Files' BY <1>1, <1>4, <1>6 DEF Files
<1>8. ASSUME alone, ~broken' PROVE Steady' /\ Loaded(file') = cache'
  <2>1. ~broken /\ Quiet BY <1>1, <1>8
  <2>2. Steady /\ Loaded(file) = cache
    BY <1>8, <2>1, IdleFits DEF AuthInv, Halfway, Quiet
  <2>3. cache' = cache /\ file' = file BY <1>1, <1>6, <1>8, <2>2
  <2>4. current' = current BY <1>1, <2>2 DEF Steady, Bootstrap
  <2>. QED BY <2>2, <2>3, <2>4 DEF Steady, SignedOut
<1>9. Halfway' BY <1>1, <1>4, <1>8 DEF Halfway
<1>10. PendingIsUnspent' BY <1>1 DEF AuthInv, AuthTypes, PendingIsUnspent
<1>. QED BY <1>3, <1>5, <1>7, <1>9, <1>10 DEF AuthInv

LEMMA AuthInvNext == AuthInv /\ [AuthNext]_authVars => AuthInv'
<1>. SUFFICES ASSUME AuthInv, [AuthNext]_authVars PROVE AuthInv' OBVIOUS
<1>1. CASE Begin \/ StateMismatch \/ LinkRefused BY <1>1, Flows
<1>2. CASE Restart BY <1>2, Restarts
<1>3. ASSUME NEW o \in Ops, HandleCallback(o) PROVE AuthInv'
  <2>1. pending \in 1..flows /\ pending \in 0..MaxFlows
    <3>1. pending # 0 /\ pending \in 0..flows /\ flows \in 0..MaxFlows
      BY <1>3 DEF HandleCallback, AuthInv, AuthTypes
    <3>. QED BY <3>1, BoundsAreNumbers
  <2>2. Start(o, "callback", pending)
        /\ UNCHANGED <<flows, pending, current, cache, tunnels>>
    BY <1>3 DEF HandleCallback
  <2>3. tunnels' \in SUBSET Users BY <2>2 DEF AuthInv, AuthTypes
  <2>. QED BY <2>1, <2>2, <2>3, Starts
<1>4. ASSUME NEW o \in Ops, SignInWithKey(o) \/ SignOut(o) \/ TunnelStart(o) PROVE AuthInv'
  <2>1. PICK kind \in {"key", "signOut", "start"} : Start(o, kind, 0)
    BY <1>4 DEF SignInWithKey, SignOut, TunnelStart
  <2>2. UNCHANGED <<flows, pending, current, cache>> /\ tunnels' \in SUBSET Users
    BY <1>4 DEF SignInWithKey, SignOut, TunnelStart, AuthInv, AuthTypes
  <2>3. 0 \in 0..MaxFlows BY BoundsAreNumbers
  <2>. QED BY <2>1, <2>2, <2>3, Starts
<1>5. ASSUME NEW o \in Ops, NEW u \in Users \cup {NoUser},
             Answered(o, u) \/ GotToken(o) \/ SpawnTunnel(o)
      PROVE  AuthInv'
  BY <1>5, Waits
<1>6. ASSUME NEW o \in Ops, Edit(o) PROVE AuthInv' BY <1>6, Edits
<1>7. ASSUME NEW o \in Ops, Done(o) \/ Fails(o) PROVE AuthInv' BY <1>7, Finishes
<1>8. ASSUME NEW o \in Ops, Open(o) \/ Write(o) PROVE AuthInv' BY <1>8, OpensAndWrites
<1>9. ASSUME NEW o \in Ops, Rename(o) PROVE AuthInv'
  BY <1>9, RenamesInVain, Renames
<1>10. CASE UNCHANGED authVars
  <2>. USE <1>10 DEF authVars, memory, history
  <2>1. AuthTypes' /\ PendingIsUnspent' BY DEF AuthInv, AuthTypes, PendingIsUnspent
  <2>2. Kinds' /\ OneOp' BY DEF AuthInv, Kinds, OneOp, Fits, Saving, Idle, SignedOut
  <2>3. Files' BY DEF AuthInv, Files, FileFits, InSave, Empty, Blob, SignedOut
  <2>4. Steady' <=> Steady BY DEF Steady, SignedOut
  <2>5. \A o \in Ops : Dealt(ops[o]) => Dealt(ops[o])' BY DEF Dealt, Saving
  <2>6. Halfway' BY <2>4, <2>5 DEF AuthInv, Halfway, Saving, InSave, Loaded, SignedOut
  <2>. QED BY <2>1, <2>2, <2>3, <2>6 DEF AuthInv
<1>. QED BY <1>1, <1>2, <1>3, <1>4, <1>5, <1>6, <1>7, <1>8, <1>9, <1>10 DEF AuthNext

LEMMA AuthInvHolds == AuthSpec => []AuthInv
BY AuthInvInit, AuthInvNext, PTL DEF AuthSpec

\* Up to three slots are left of a sequence of them.
LEMMA Todos ==
    ASSUME NEW t \in Seq(Slots), Len(t) <= 3
    PROVE  t \in {<<>>} \cup UNION {[1..n -> Slots] : n \in 1..3}
<1>1. Len(t) \in Nat /\ t \in [1..Len(t) -> Slots] OBVIOUS
<1>2. CASE Len(t) = 0 BY <1>2
<1>3. CASE Len(t) # 0
  <2>1. Len(t) \in 1..3 BY <1>1, <1>3
  <2>. QED BY <1>1, <2>1
<1>. QED BY <1>2, <1>3

\* The main process's variables keep their types: a handler knows which user it is for
\* and what it still has to write, and the app never shows a user that is none.
THEOREM AuthTypeCorrect == AuthSpec => []AuthTypeOK
<1>1. AuthInv => AuthTypeOK
  <2>. SUFFICES ASSUME AuthInv PROVE AuthTypeOK OBVIOUS
  <2>1. ops \in [Ops -> [kind : {"idle", "callback", "key", "signOut", "start"},
                         pc : {"idle", "wait", "edit", "open", "write", "rename", "spawn"},
                         flow : 0..MaxFlows, who : Users \cup {NoUser},
                         todo : {<<>>} \cup UNION {[1..n -> Slots] : n \in 1..3},
                         snap : Sessions, fd : {"none", "tmp", "file", "gone"}]]
    <3>. DEFINE Row == [kind : {"idle", "callback", "key", "signOut", "start"},
                        pc : {"idle", "wait", "edit", "open", "write", "rename", "spawn"},
                        flow : 0..MaxFlows, who : Users \cup {NoUser},
                        todo : {<<>>} \cup UNION {[1..n -> Slots] : n \in 1..3},
                        snap : Sessions, fd : {"none", "tmp", "file", "gone"}]
    <3>1. ASSUME NEW o \in Ops PROVE ops[o] \in Row
      <4>1. ops[o] \in OpRow /\ ops[o].todo \in Seq(Slots) /\ Len(ops[o].todo) <= 3
        BY DEF AuthInv, AuthTypes, Kinds, Fits, OpRow
      <4>2. ops[o].todo \in {<<>>} \cup UNION {[1..n -> Slots] : n \in 1..3} BY <4>1, Todos
      <4>. QED BY <4>1, <4>2 DEF OpRow
    <3>. QED BY <3>1 DEF AuthInv, AuthTypes
  <2>2. spent \in SUBSET (1..MaxFlows)
    <3>1. 1..flows \subseteq 1..MaxFlows BY BoundsAreNumbers DEF AuthInv, AuthTypes
    <3>. QED BY <3>1 DEF AuthInv, AuthTypes
  <2>. QED BY <2>1, <2>2 DEF AuthInv, AuthTypes, AuthTypeOK
<1>. QED BY <1>1, AuthInvHolds, PTL

\* As long as operations do not overlap, the app can end between any two steps of a save:
\* what it finds at its next start is a whole credentials file or none.
THEOREM FilesStayWhole == AuthSpec => []FileIsWhole
<1>1. AuthInv => FileIsWhole BY DEF AuthInv, Files, FileIsWhole
<1>. QED BY <1>1, AuthInvHolds, PTL

\* As long as operations neither overlap nor break off, the session shown is the one in
\* use and the one on disk, whole, whenever no handler is in flight.
THEOREM SessionsStayWhole == AuthSpec => []SessionIsWhole
<1>1. ASSUME AuthInv, alone, ~broken, Quiet PROVE Steady /\ Bootstrap(Loaded(file)) = current
  <2>1. Steady /\ Loaded(file) = cache BY <1>1, IdleFits DEF AuthInv, Halfway, Quiet
  <2>. QED BY <2>1 DEF Steady, Bootstrap
<1>2. AuthInv => SessionIsWhole BY <1>1 DEF Steady, SessionIsWhole
<1>. QED BY <1>2, AuthInvHolds, PTL

\* No callback begins for a flow that is spent: only the pending flow's can begin, and
\* whatever ends its callback drops it.
LEMMA OnlyUnspentBegin ==
    ASSUME AuthInv, AuthNext, NEW p \in Ops,
           ops[p].kind # "callback", ops'[p].kind = "callback"
    PROVE  ops'[p].flow \notin spent
<1>0. \A x \in Ops : ops[x] \in OpRow BY DEF AuthInv, AuthTypes
<1>1. CASE Begin \/ StateMismatch \/ LinkRefused
  BY <1>1 DEF Begin, StateMismatch, LinkRefused, memory
<1>2. CASE Restart BY <1>2, IdleFits DEF Restart
<1>3. ASSUME NEW o \in Ops, HandleCallback(o) PROVE ops'[p].flow \notin spent
  <2>1. ops' = [ops EXCEPT ![o] = [Idle EXCEPT !.kind = "callback", !.pc = "wait",
                                               !.flow = pending]]
    BY <1>3 DEF HandleCallback, Start
  <2>2. p = o BY <2>1 DEF AuthInv, AuthTypes
  <2>3. ops'[p].flow = pending BY <2>1, <2>2 DEF AuthInv, AuthTypes, Idle
  <2>. QED BY <2>3 DEF AuthInv, PendingIsUnspent
<1>4. ASSUME NEW o \in Ops, SignInWithKey(o) \/ SignOut(o) \/ TunnelStart(o) PROVE FALSE
  <2>1. PICK kind \in {"key", "signOut", "start"} :
          ops' = [ops EXCEPT ![o] = [Idle EXCEPT !.kind = kind, !.pc = "wait", !.flow = 0]]
    BY <1>4 DEF SignInWithKey, SignOut, TunnelStart, Start
  <2>. QED BY <2>1 DEF AuthInv, AuthTypes, Idle
<1>5. ASSUME NEW o \in Ops,
             \/ \E u \in Users \cup {NoUser} : Answered(o, u)
             \/ GotToken(o) \/ SpawnTunnel(o) \/ Edit(o) \/ Done(o) \/ Fails(o)
             \/ Open(o) \/ Write(o) \/ Rename(o)
      PROVE  FALSE
  <2>1. \A x \in Ops : ops'[x].kind = ops[x].kind \/ ops'[x] = Idle
    <3>0. /\ ops \in [Ops -> OpRow]
          /\ \A x \in Ops : DOMAIN ops[x] = {"kind", "pc", "flow", "who", "todo", "snap", "fd"}
      BY <1>0 DEF AuthInv, AuthTypes, OpRow
    <3>1. ASSUME NEW u \in Users \cup {NoUser}, Answered(o, u)
          PROVE  \A x \in Ops : ops'[x].kind = ops[x].kind
      BY <3>0, <3>1 DEF Answered
    <3>2. CASE Edit(o) BY <3>0, <3>2 DEF Edit
    <3>3. CASE Open(o) BY <3>0, <3>3 DEF Open
    <3>4. CASE Write(o) BY <3>0, <3>4 DEF Write
    <3>5. CASE GotToken(o)
      <4>. DEFINE k == [ops[o] EXCEPT !.pc = "spawn", !.who = cache["access"]]
      <4>1. k.kind = ops[o].kind BY <3>0
      <4>2. ops' = [ops EXCEPT ![o] = IF cache["access"] = NoUser THEN Idle ELSE k]
        BY <3>0, <3>5 DEF GotToken
      <4>. HIDE DEF k
      <4>. QED BY <3>0, <4>1, <4>2
    <3>6. CASE SpawnTunnel(o) \/ Done(o) \/ Fails(o)
      BY <3>0, <3>6 DEF SpawnTunnel, Done, Fails
    <3>7. CASE Rename(o) /\ tmp = Missing BY <3>0, <3>7 DEF Rename
    <3>8. CASE Rename(o) /\ tmp # Missing
      <4>1. ops' = [x \in Ops |-> IF x = o THEN [ops[o] EXCEPT !.pc = "edit", !.fd = "none"]
                                  ELSE [ops[x] EXCEPT !.fd = Moved(@)]]
        BY <3>8 DEF Rename
      <4>2. [ops[o] EXCEPT !.pc = "edit", !.fd = "none"].kind = ops[o].kind BY <3>0
      <4>3. \A x \in Ops : [ops[x] EXCEPT !.fd = Moved(@)].kind = ops[x].kind BY <3>0
      <4>. QED BY <4>1, <4>2, <4>3
    <3>. QED BY <1>5, <3>1, <3>2, <3>3, <3>4, <3>5, <3>6, <3>7, <3>8
  <2>. QED BY <2>1, IdleFits
<1>. QED BY <1>1, <1>2, <1>3, <1>4, <1>5 DEF AuthNext

\* An older callback's end is the only one that costs a pending flow which is not its own.
LEMMA FinallyCosts ==
    ASSUME AuthInv, NEW o \in Ops, Finally(o), ops'[o] = Idle, pending # 0, pending' # pending
    PROVE  \/ pending \in spent'
           \/ ops[o].kind = "callback" /\ ops[o].flow < pending /\ ops'[o] = Idle
<1>1. ops[o].kind = "callback" /\ spent' = spent \cup {ops[o].flow} BY DEF Finally
<1>2. ops[o].flow \in 1..flows /\ pending = flows /\ flows \in Nat
  BY <1>1, BoundsAreNumbers DEF AuthInv, AuthTypes, Kinds, Fits, PendingIsUnspent
<1>. QED BY <1>1, <1>2

\* A flow that is spent is never exchanged again, and a pending flow is lost only to its own
\* callback, a newer flow, the end of the app or the callback of an older flow.
THEOREM CallbacksAreNotReplayed == AuthSpec => ReplayRefused
<1>. DEFINE Unspent == \A o \in Ops : ops[o].kind # "callback" /\ ops'[o].kind = "callback"
                                        => ops'[o].flow \notin spent
            Lost == \/ Begin \/ Restart
                    \/ pending \in spent'
                    \/ \E o \in Ops : /\ ops[o].kind = "callback" /\ ops[o].flow < pending
                                      /\ ops'[o] = Idle
            Step == Unspent /\ (pending # 0 /\ pending' # pending => Lost)
<1>1. ASSUME AuthInv, AuthNext PROVE Unspent BY <1>1, OnlyUnspentBegin
<1>2. ASSUME AuthInv, AuthNext, pending # 0, pending' # pending PROVE Lost
  <2>1. CASE Begin \/ Restart BY <2>1
  <2>2. CASE LinkRefused BY <1>2, <2>2 DEF LinkRefused, memory
  <2>3. CASE StateMismatch BY <2>3 DEF StateMismatch
  <2>4. ASSUME NEW o \in Ops, Finally(o), ops'[o] = Idle PROVE Lost
    BY <1>2, <2>4, FinallyCosts
  <2>5. ASSUME NEW o \in Ops, Done(o) \/ Fails(o) PROVE Lost
    BY <1>2, <2>4, <2>5 DEF Done, Fails, AuthInv, AuthTypes
  <2>6. ASSUME NEW o \in Ops, Rename(o) PROVE Lost
    BY <1>2, <2>4, <2>6 DEF Rename, AuthInv, AuthTypes
  <2>7. ASSUME NEW o \in Ops,
               \/ HandleCallback(o) \/ SignInWithKey(o) \/ SignOut(o) \/ TunnelStart(o)
               \/ \E u \in Users \cup {NoUser} : Answered(o, u)
               \/ GotToken(o) \/ SpawnTunnel(o) \/ Edit(o) \/ Open(o) \/ Write(o)
        PROVE  pending' = pending
    BY <2>7 DEF HandleCallback, SignInWithKey, SignOut, TunnelStart, Answered, GotToken,
                SpawnTunnel, Edit, Open, Write
  <2>. HIDE DEF Lost
  <2>. QED BY <1>2, <2>1, <2>2, <2>3, <2>5, <2>6, <2>7 DEF AuthNext
<1>3. AuthInv /\ [AuthNext]_authVars => [Step]_authVars
  <2>. HIDE DEF Unspent, Lost
  <2>. QED BY <1>1, <1>2
<1>. QED BY <1>3, AuthInvHolds, PTL DEF AuthSpec, ReplayRefused
================================================================================
