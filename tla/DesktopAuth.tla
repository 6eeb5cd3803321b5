------------------------------ MODULE DesktopAuth ------------------------------
(***************************************************************************)
(* Who is signed in at the desktop app: AuthFlow, the file-backed keychain *)
(* it writes one slot at a time, and the two handlers that start tunnels   *)
(* with the token and stop them at sign-out.  The main process has one     *)
(* thread, but every await lets other handlers and deep links run, and the *)
(* thread pool does the file operations in between.  The keychain is the   *)
(* safeStorage file, the fallback where keytar cannot be loaded.           *)
(*                                                                         *)
(* A slot's value is the user it belongs to.  The slots refresh,           *)
(* workspace, name and role are written and deleted with these three and   *)
(* decide nothing.  Bounds: PKCE flows begun and operations started.       *)
(***************************************************************************)
EXTENDS Naturals, Sequences

CONSTANTS Users, Ops,
          NoUser,
          MaxFlows, MaxStarts

ASSUME NoUserIsNone == NoUser \notin Users
ASSUME BoundsAreNumbers == MaxFlows \in Nat /\ MaxStarts \in Nat

Slots == {"access", "email", "deviceId"}
Sessions == [Slots -> Users \cup {NoUser}]
SignedOut == [s \in Slots |-> NoUser]

VARIABLES
    flows,     \* PKCE flows begun so far
    pending,   \* this.pending: the flow that waits for its callback, or 0
    current,   \* this.current: the user the app shows as signed in, or NoUser
    cache,     \* SafeStorageStore.cache
    file, tmp, \* credentials.enc and credentials.enc.tmp
    ops,       \* the handlers in flight
    tunnels,   \* whose token the sidecars in the manager's Map hold
    starts,    \* operations started so far
    spent,     \* history: flows whose callback was exchanged and has ended, or did not match
    alone,     \* history: no two operations have overlapped
    broken     \* history: an operation failed, or the app ended in one

memory == <<flows, pending, current, cache, ops, tunnels>>
history == <<starts, spent, alone, broken>>
authVars == <<memory, file, tmp, history>>

\* What a path holds: nothing, a truncated file, a whole blob, a mix of two writes.
Missing == [is |-> "missing", of |-> SignedOut]
Empty == [is |-> "empty", of |-> SignedOut]
Torn == [is |-> "torn", of |-> SignedOut]
Blob(session) == [is |-> "blob", of |-> session]
Contents == {Missing, Empty, Torn} \cup {Blob(s) : s \in Sessions}

Idle == [kind |-> "idle", pc |-> "idle", flow |-> 0, who |-> NoUser,
         todo |-> <<>>, snap |-> SignedOut, fd |-> "none"]

AuthTypeOK ==
    /\ flows \in 0..MaxFlows /\ pending \in 0..flows
    /\ current \in Users \cup {NoUser}
    /\ cache \in Sessions
    /\ file \in Contents /\ tmp \in Contents
    /\ ops \in [Ops -> [kind : {"idle", "callback", "key", "signOut", "start"},
                        pc : {"idle", "wait", "edit", "open", "write", "rename", "spawn"},
                        flow : 0..MaxFlows, who : Users \cup {NoUser},
                        todo : {<<>>} \cup UNION {[1..n -> Slots] : n \in 1..3},
                        snap : Sessions, fd : {"none", "tmp", "file", "gone"}]]
    /\ tunnels \in SUBSET Users
    /\ starts \in 0..MaxStarts /\ spent \in SUBSET (1..MaxFlows)
    /\ alone \in BOOLEAN /\ broken \in BOOLEAN

AuthInit == /\ flows = 0 /\ pending = 0 /\ current = NoUser /\ cache = SignedOut
            /\ file = Missing /\ tmp = Missing
            /\ ops = [o \in Ops |-> Idle]
            /\ tunnels = {}
            /\ starts = 0 /\ spent = {} /\ alone = TRUE /\ broken = FALSE

-----------------------------------------------------------------------------
(* Operations start.                                                       *)

Quiet == \A o \in Ops : ops[o] = Idle

Start(o, kind, flow) ==
    /\ ops[o] = Idle
    /\ starts < MaxStarts
    /\ starts' = starts + 1
    /\ ops' = [ops EXCEPT ![o] = [Idle EXCEPT !.kind = kind, !.pc = "wait", !.flow = flow]]
    /\ alone' = (alone /\ Quiet)
    /\ UNCHANGED <<file, tmp, spent, broken>>

\* begin: a flow that was pending is forgotten.
Begin == /\ flows < MaxFlows
         /\ flows' = flows + 1
         /\ pending' = flows + 1
         /\ UNCHANGED <<current, cache, ops, tunnels, file, tmp, history>>

\* handleCallback up to the exchange: the state of the link is the pending flow's, which
\* stays pending, so that another link of the same flow gets here too.
HandleCallback(o) == /\ pending # 0
                     /\ Start(o, "callback", pending)
                     /\ UNCHANGED <<flows, pending, current, cache, tunnels>>

\* A link that does not parse, is of another protocol or lacks its code or its state, as
\* one that reports an error does: handleCallback throws, and the flow stays pending.
LinkRefused == /\ pending # 0
               /\ starts < MaxStarts
               /\ starts' = starts + 1
               /\ UNCHANGED <<memory, file, tmp, spent, alone, broken>>

\* A link with another state, as that of an older flow, costs the pending one.
StateMismatch == /\ pending # 0
                 /\ pending' = 0
                 /\ spent' = spent \cup {pending}
                 /\ UNCHANGED <<flows, current, cache, ops, tunnels, file, tmp,
                                starts, alone, broken>>

SignInWithKey(o) == /\ Start(o, "key", 0)
                    /\ UNCHANGED <<flows, pending, current, cache, tunnels>>

\* AUTH_SIGN_OUT: sidecar.stop() signals the children there are now, and is awaited.
SignOut(o) == /\ Start(o, "signOut", 0)
              /\ tunnels' = {}
              /\ UNCHANGED <<flows, pending, current, cache>>

\* TUNNEL_START and CLOUD_BIND_PORT, which await the token and more before they spawn.
TunnelStart(o) == /\ Start(o, "start", 0)
                  /\ UNCHANGED <<flows, pending, current, cache, tunnels>>

-----------------------------------------------------------------------------
(* What they do when their await is over.                                  *)

At(o, kind, pc) == ops[o].kind = kind /\ ops[o].pc = pc

\* Faulty variant: sign-out forgets the address.
SlotsForgotten(kind) == CASE kind = "callback" -> <<"access", "email">>
                          [] kind = "key"      -> <<"access", "email", "deviceId">>
                          [] kind = "signOut"  -> <<"access", "deviceId">>

\* The slots a handler sets or deletes, in its order.
SlotsOf(kind) == CASE kind = "callback" -> <<"access", "email">>
                   [] kind = "key"      -> <<"access", "email", "deviceId">>
                   [] kind = "signOut"  -> <<"access", "email", "deviceId">>

\* The exchange, the key check or sidecar.stop() has come back: the slots follow.
Answered(o, u) ==
    /\ ops[o].pc = "wait"
    /\ \/ ops[o].kind \in {"callback", "key"} /\ u \in Users
       \/ ops[o].kind = "signOut" /\ u = NoUser
    /\ ops' = [ops EXCEPT ![o].pc = "edit", ![o].who = u, ![o].todo = SlotsOf(ops[o].kind)]
    /\ UNCHANGED <<flows, pending, current, cache, tunnels, file, tmp, history>>

\* Faulty variant: the tunnel is started whether or not there is a token.
GotTokenUnchecked(o) == /\ At(o, "start", "wait")
                        /\ ops' = [ops EXCEPT ![o].pc = "spawn", ![o].who = cache["access"]]
                        /\ UNCHANGED <<flows, pending, current, cache, tunnels, file, tmp, history>>

\* getAccessToken: without a token nothing is started; with one, the handler awaits
\* more before it spawns.
GotToken(o) == /\ At(o, "start", "wait")
               /\ ops' = [ops EXCEPT ![o] = IF cache["access"] = NoUser THEN Idle
                                            ELSE [@ EXCEPT !.pc = "spawn", !.who = cache["access"]]]
               /\ UNCHANGED <<flows, pending, current, cache, tunnels, file, tmp, history>>

SpawnTunnel(o) == /\ At(o, "start", "spawn")
                  /\ tunnels' = tunnels \cup {ops[o].who}
                  /\ ops' = [ops EXCEPT ![o] = Idle]
                  /\ UNCHANGED <<flows, pending, current, cache, file, tmp, history>>

\* handleCallback's finally drops whatever flow is pending by then.
Finally(o) == IF ops[o].kind = "callback"
              THEN pending' = 0 /\ spent' = spent \cup {ops[o].flow}
              ELSE UNCHANGED <<pending, spent>>

\* setToken or deleteToken up to its first await: the cache is changed, and what it
\* holds now is what will be written.
Edit(o) == /\ ops[o].pc = "edit" /\ ops[o].todo # <<>>
           /\ cache' = [cache EXCEPT ![Head(ops[o].todo)] = ops[o].who]
           /\ ops' = [ops EXCEPT ![o].pc = "open", ![o].todo = Tail(@), ![o].snap = cache']
           /\ UNCHANGED <<flows, pending, current, tunnels, file, tmp, history>>

\* All slots are done: the new state is shown.
Done(o) == /\ ops[o].pc = "edit" /\ ops[o].todo = <<>>
           /\ current' = ops[o].who
           /\ Finally(o)
           /\ ops' = [ops EXCEPT ![o] = Idle]
           /\ UNCHANGED <<flows, cache, tunnels, file, tmp, starts, alone, broken>>

\* Faulty variant: a callback that fails leaves its flow pending.
FailsPending(o) == /\ ops[o] # Idle
                   /\ spent' = IF ops[o].kind = "callback" THEN spent \cup {ops[o].flow} ELSE spent
                   /\ broken' = (broken \/ ops[o].pc # "wait")
                   /\ ops' = [ops EXCEPT ![o] = Idle]
                   /\ UNCHANGED <<flows, pending, current, cache, tunnels, file, tmp, starts, alone>>

\* The backend refuses, the network or the keychain fails: what is done stays done.
Fails(o) == /\ ops[o] # Idle
            /\ Finally(o)
            /\ broken' = (broken \/ ops[o].pc # "wait")
            /\ ops' = [ops EXCEPT ![o] = Idle]
            /\ UNCHANGED <<flows, current, cache, tunnels, file, tmp, starts, alone>>

-----------------------------------------------------------------------------
(* save(): three file operations in the thread pool.                       *)

\* Faulty variant: credentials.enc is written in place.
OpenInPlace(o) == /\ ops[o].pc = "open"
                  /\ file' = Empty
                  /\ tmp' = Empty
                  /\ ops' = [ops EXCEPT ![o].pc = "write", ![o].fd = "file"]
                  /\ UNCHANGED <<flows, pending, current, cache, tunnels, history>>

\* writeFile opens credentials.enc.tmp and truncates it.
Open(o) == /\ ops[o].pc = "open"
           /\ tmp' = Empty
           /\ ops' = [ops EXCEPT ![o].pc = "write", ![o].fd = "tmp"]
           /\ UNCHANGED <<flows, pending, current, cache, tunnels, file, history>>

\* The blob goes to the file that was opened, wherever it has been renamed to; over
\* another's longer blob it leaves a mix.
Overwrites(content, snap) ==
    IF content.is = "empty" THEN {Blob(snap)} ELSE {Blob(snap), Torn}

Write(o) == /\ ops[o].pc = "write"
            /\ ops' = [ops EXCEPT ![o].pc = "rename"]
            /\ tmp' \in IF ops[o].fd = "tmp" THEN Overwrites(tmp, ops[o].snap) ELSE {tmp}
            /\ file' \in IF ops[o].fd = "file" THEN Overwrites(file, ops[o].snap) ELSE {file}
            /\ UNCHANGED <<flows, pending, current, cache, tunnels, history>>

\* Whoever holds a file that moves or is replaced keeps writing to it.
Moved(fd) == CASE fd = "tmp" -> "file" [] fd = "file" -> "gone" [] OTHER -> fd

\* rename fails when another save has renamed the temporary file already.
Rename(o) ==
    /\ ops[o].pc = "rename"
    /\ IF tmp = Missing
       THEN /\ Finally(o)
            /\ broken' = TRUE
            /\ ops' = [ops EXCEPT ![o] = Idle]
            /\ UNCHANGED <<file, tmp>>
       ELSE /\ file' = tmp
            /\ tmp' = Missing
            /\ ops' = [x \in Ops |-> IF x = o THEN [ops[o] EXCEPT !.pc = "edit", !.fd = "none"]
                                     ELSE [ops[x] EXCEPT !.fd = Moved(@)]]
            /\ UNCHANGED <<pending, spent, broken>>
    /\ UNCHANGED <<flows, current, cache, tunnels, starts, alone>>

\* load and bootstrap: an unreadable file is quarantined and forgotten.
Loaded(content) == IF content.is = "blob" THEN content.of ELSE SignedOut
Bootstrap(session) == IF session["access"] # NoUser THEN session["email"] ELSE NoUser

\* The app ends, by a crash or a quit, and is started again.
Restart == /\ starts < MaxStarts
           /\ starts' = starts + 1
           /\ broken' = (broken \/ ~Quiet)
           /\ cache' = Loaded(file)
           /\ current' = Bootstrap(Loaded(file))
           /\ file' = IF file.is = "torn" THEN Missing ELSE file
           /\ pending' = 0
           /\ ops' = [o \in Ops |-> Idle]
           /\ tunnels' = {}
           /\ UNCHANGED <<flows, tmp, spent, alone>>

AuthNext == \/ Begin \/ LinkRefused \/ StateMismatch \/ Restart
            \/ \E o \in Ops :
                 \/ HandleCallback(o) \/ SignInWithKey(o) \/ SignOut(o) \/ TunnelStart(o)
                 \/ \E u \in Users \cup {NoUser} : Answered(o, u)
                 \/ GotToken(o) \/ SpawnTunnel(o) \/ Edit(o) \/ Done(o) \/ Fails(o)
                 \/ Open(o) \/ Write(o) \/ Rename(o)

AuthSpec == AuthInit /\ [][AuthNext]_authVars

-----------------------------------------------------------------------------
(* Correctness.                                                            *)

\* S6.7: a flow whose callback was exchanged and has ended, well or not, or did not match
\* is never exchanged again, even when two links of it were under way at once or a new flow
\* was begun meanwhile.  A refused link is the exception to the documented "regardless of
\* outcome": its flow stays pending.  And a pending flow is lost only to its own callback,
\* a newer flow or the end of the app, or to the callback of an older flow, whose finally
\* drops whatever is pending: no failure of another operation and no refused link costs it.
ReplayRefused ==
    [][/\ \A o \in Ops : ops[o].kind # "callback" /\ ops'[o].kind = "callback"
                            => ops'[o].flow \notin spent
       /\ pending # 0 /\ pending' # pending =>
            \/ Begin \/ Restart
            \/ pending \in spent'
            \/ \E o \in Ops : /\ ops[o].kind = "callback" /\ ops[o].flow < pending
                              /\ ops'[o] = Idle]_authVars

\* As long as operations do not overlap, a crash at any point of a save leaves a whole
\* credentials file or none.
FileIsWhole == alone => file.is \in {"missing", "blob"}

\* As long as operations neither overlap nor break off, the user shown is the one
\* whose token is in use, and a restart brings the same one back.
SessionIsWhole ==
    alone /\ ~broken /\ Quiet =>
        /\ current = cache["access"] /\ current = cache["email"]
        /\ current = NoUser => cache = SignedOut
        /\ Bootstrap(Loaded(file)) = current
==============================================================================
