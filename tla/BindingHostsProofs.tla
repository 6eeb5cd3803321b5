----------------------------- MODULE BindingHostsProofs -----------------------------
(***************************************************************************)
(* Proofs about Bindings, for any devices, hosts, agents and API calls, and *)
(* about HostNames, on which its hosts rest, for any labels and bounds.    *)
(***************************************************************************)
EXTENDS Bindings, HostNames, SequenceTheorems, TLAPS

-----------------------------------------------------------------------------
(* Bindings: what the inductive invariant says.                            *)

CallRow == [op : {"idle", "bind", "unbind", "delete", "revoke"},
            pc : {"idle", "device", "update", "set", "commit", "key", "drop", "mark", "unbind"},
            host : Hosts \cup {None}, dev : Devices \cup {None}, orphan : BOOLEAN]
Link == [pc : {"away", "frame", "known", "verified", "serving", "closing"},
         late : BOOLEAN, entitled : BOOLEAN]

\* A call is about a host or, if it is a Revoke, about a device.
Types == /\ revoked \in SUBSET Devices
         /\ bound \in [Hosts -> Devices \cup {None, NoRow}]
         /\ live \in [Hosts -> Devices \cup {None}]
         /\ lock \in [Hosts -> Calls \cup {None}]
         /\ call \in [Calls -> CallRow]
         /\ \A c \in Calls :
              /\ call[c].op \in {"bind", "unbind", "delete"} => call[c].host \in Hosts
              /\ call[c].op \in {"bind", "revoke"} => call[c].dev \in Devices
         /\ gaps \in SUBSET Hosts
         /\ link \in [Agents -> [Hosts -> Link]]
         /\ route \in [Hosts -> Agents \cup {None}]

\* The lock is with the one Bind that is past its update.
Locks == \A h \in Hosts, c \in Calls : lock[h] = c <=> HoldsRow(c, h)

\* A host without gaps has never lost its row.
OrphansHaveGaps == \A c \in Calls : call[c].orphan => call[c].host \in gaps

RevokeIsMarked == \A c \in Calls : At(c, "revoke", "unbind") => call[c].dev \in revoked

\* A key that names another than the bound device is that of the Bind about to commit, or
\* will be deleted by an Unbind; and nobody else sets a key between a Bind's own and its
\* commit.
Cleans(c, h) == At(c, "unbind", "key") /\ call[c].host = h
Commits(c, h) == At(c, "bind", "commit") /\ call[c].host = h
KeyFits(h) ==
    /\ \/ live[h] \in {None, bound[h]} \cup revoked
       \/ \E c \in Calls : Cleans(c, h) \/ Commits(c, h)
    /\ \A c \in Calls : Commits(c, h) => live[h] \in {None, call[c].dev}
Keys == \A h \in Hosts \ gaps : KeyFits(h)

\* What a connection has met: a device that is bound is entitled, one that dialled
\* revoked stays so, and what was accepted had been checked.
Met == \A a \in Agents, h \in Hosts :
         LET l == link[a][h] IN
         /\ l.pc # "away" /\ bound[h] = a => l.entitled
         /\ l.pc # "away" /\ l.late => a \in revoked
         /\ l.pc \in {"verified", "serving"} => l.entitled
         /\ l.pc \in {"known", "verified", "serving"} => ~l.late
Routed == \A h \in Hosts : route[h] # None => link[route[h]][h].pc = "serving"

\* The inductive invariant.
Inv == /\ Types /\ Locks
       /\ OrphansHaveGaps /\ RevokeIsMarked /\ Keys
       /\ Met /\ Routed

LEMMA NoneIsNone == None \notin Agents /\ None \notin Devices /\ None \notin Calls
BY NoneAndNoRowAreNoDevice, NoneIsNoCall, AgentsAreDevices

LEMMA InvInit == Init => Inv
<1>. SUFFICES ASSUME Init PROVE Inv OBVIOUS
<1>. USE DEF Init
<1>1. Types BY DEF Types, CallRow, Link, Idle, Away
<1>2. Locks BY NoneIsNone DEF Locks, HoldsRow, Idle
<1>3. OrphansHaveGaps /\ RevokeIsMarked BY DEF OrphansHaveGaps, RevokeIsMarked, At, Idle
<1>4. Keys BY DEF Keys, KeyFits, Commits, At, Idle
<1>5. Met /\ Routed BY DEF Met, Routed, Away
<1>. QED BY <1>1, <1>2, <1>3, <1>4, <1>5 DEF Inv

-----------------------------------------------------------------------------
(* What the helpers do to the calls and to the links.                      *)

\* A call goes on, or returns; the others stay as they are.
LEMMA CallsMove ==
    ASSUME Types, NEW c \in Calls
    PROVE  /\ \A pc : GoTo(c, pc) =>
                /\ call' = [call EXCEPT ![c] = [call[c] EXCEPT !.pc = pc]]
                /\ call'[c].pc = pc /\ call'[c].op = call[c].op /\ call'[c].host = call[c].host
                /\ call'[c].dev = call[c].dev /\ call'[c].orphan = call[c].orphan
                /\ \A x \in Calls : x # c => call'[x] = call[x]
           /\ Return(c) => /\ call'[c] = Idle
                           /\ \A x \in Calls : x # c => call'[x] = call[x]
           /\ \A op, pc, h, d : Begin(c, op, pc, h, d) =>
                /\ call[c] = Idle
                /\ call'[c] = [op |-> op, pc |-> pc, host |-> h, dev |-> d, orphan |-> FALSE]
                /\ \A x \in Calls : x # c => call'[x] = call[x]
BY DEF Types, CallRow, GoTo, Return, Begin

LEMMA CallsTyped ==
    ASSUME Types
    PROVE  /\ \A x \in Calls : call[x] \in CallRow
           /\ Idle \in CallRow
           /\ \A c \in Calls : Return(c) => call' \in [Calls -> CallRow]
           /\ \A c \in Calls, pc \in {"idle", "device", "update", "set", "commit", "key", "drop", "mark", "unbind"} :
                 GoTo(c, pc) => call' \in [Calls -> CallRow]
<1>1. \A x \in Calls : call[x] \in CallRow BY DEF Types
<1>2. Idle \in CallRow BY DEF Idle, CallRow
<1>3. ASSUME NEW c \in Calls, Return(c) PROVE call' \in [Calls -> CallRow]
  BY <1>2, <1>3 DEF Return, Types
<1>4. ASSUME NEW c \in Calls,
             NEW pc \in {"idle", "device", "update", "set", "commit", "key", "drop", "mark", "unbind"},
             GoTo(c, pc)
      PROVE  call' \in [Calls -> CallRow]
  <2>1. [call[c] EXCEPT !.pc = pc] \in CallRow BY <1>1 DEF CallRow
  <2>2. call' = [call EXCEPT ![c] = [call[c] EXCEPT !.pc = pc]] BY <1>4, CallsMove
  <2>. QED BY <2>1, <2>2 DEF Types
<1>. QED BY <1>1, <1>2, <1>3, <1>4

\* Losing its row changes nothing else in a call.
LEMMA OrphansOnly ==
    ASSUME Types, NEW c, NEW h \in Hosts, call' = Orphans(c, h)
    PROVE  /\ call' \in [Calls -> CallRow]
           /\ \A x \in Calls : x = c => call'[x] = Idle
           /\ \A x \in Calls : x # c =>
                 /\ call'[x].op = call[x].op /\ call'[x].pc = call[x].pc
                 /\ call'[x].host = call[x].host /\ call'[x].dev = call[x].dev
                 /\ call'[x].orphan = (call[x].orphan \/ call[x].host = h)
<1>1. \A x \in Calls : call[x] \in CallRow BY DEF Types
<1>2. Idle \in CallRow BY DEF Idle, CallRow
<1>3. ASSUME NEW x \in Calls
      PROVE  [call[x] EXCEPT !.orphan = @ \/ call[x].host = h] \in CallRow
  BY <1>1 DEF CallRow
<1>4. \A x \in Calls : call'[x] = IF x = c THEN Idle
                                 ELSE [call[x] EXCEPT !.orphan = @ \/ call[x].host = h]
  BY DEF Orphans
<1>5. call' \in [Calls -> CallRow] BY <1>2, <1>3 DEF Orphans
<1>6. ASSUME NEW x \in Calls, x # c
      PROVE  /\ call'[x].op = call[x].op /\ call'[x].pc = call[x].pc
             /\ call'[x].host = call[x].host /\ call'[x].dev = call[x].dev
             /\ call'[x].orphan = (call[x].orphan \/ call[x].host = h)
  BY <1>1, <1>4, <1>6 DEF CallRow
<1>. QED BY <1>4, <1>5, <1>6

LEMMA UnlockTyped ==
    ASSUME Types, NEW c \in Calls, Unlock(c)
    PROVE  lock' \in [Hosts -> Calls \cup {None}]
BY DEF Types, Unlock

\* Setting, deleting or passing over the key of a host leaves the other keys alone.
LEMMA KeysTyped ==
    ASSUME Types, NEW h \in Hosts, NEW d \in Devices,
           BindSetOrPass(h, d) \/ BindSetFails(h, d) \/ DelKey(h)
    PROVE  /\ live' \in [Hosts -> Devices \cup {None}] /\ gaps' \in SUBSET Hosts
           /\ gaps \subseteq gaps'
           /\ \A g \in Hosts : g # h => live'[g] = live[g]
BY DEF Types, BindSetOrPass, BindSetFails, DelKey, SetKey, PassOver

\* A binding entitles its device's connection, if that is up.
LEMMA MeetsTyped ==
    ASSUME Types, NEW h \in Hosts, NEW d \in Devices, link' = Meets(h, d)
    PROVE  /\ link' \in [Agents -> [Hosts -> Link]]
           /\ \A a \in Agents, g \in Hosts :
                 /\ link'[a][g].pc = link[a][g].pc /\ link'[a][g].late = link[a][g].late
                 /\ link[a][g].entitled => link'[a][g].entitled
                 /\ a = d /\ g = h /\ link[a][g].pc # "away" => link'[a][g].entitled
<1>1. \A a \in Agents, g \in Hosts : link[a][g] \in Link BY DEF Types
<1>2. \A a \in Agents : link[a] \in [Hosts -> Link] BY DEF Types
<1>3. ASSUME NEW a \in Agents
      PROVE  /\ link'[a] \in [Hosts -> Link]
             /\ \A g \in Hosts :
                 /\ link'[a][g].pc = link[a][g].pc /\ link'[a][g].late = link[a][g].late
                 /\ link[a][g].entitled => link'[a][g].entitled
                 /\ a = d /\ g = h /\ link[a][g].pc # "away" => link'[a][g].entitled
  <2>1. CASE a = d /\ link[a][h].pc # "away"
    <3>1. link'[a] = [link[a] EXCEPT ![h].entitled = TRUE] BY <2>1 DEF Meets
    <3>. DEFINE l == [link[a][h] EXCEPT !.entitled = TRUE]
    <3>2. /\ l \in Link /\ l.pc = link[a][h].pc /\ l.late = link[a][h].late /\ l.entitled
      BY <1>1 DEF Link
    <3>3. link'[a] = [link[a] EXCEPT ![h] = l] BY <3>1
    <3>. HIDE DEF l
    <3>4. link'[a] \in [Hosts -> Link] BY <1>2, <3>2, <3>3
    <3>5. link'[a][h] = l /\ \A g \in Hosts : g # h => link'[a][g] = link[a][g]
      BY <1>2, <3>3
    <3>. QED BY <3>2, <3>4, <3>5
  <2>2. CASE ~(a = d /\ link[a][h].pc # "away")
    <3>1. link'[a] = link[a] BY <2>2 DEF Meets
    <3>. QED BY <1>2, <2>2, <3>1
  <2>. QED BY <2>1, <2>2
<1>4. link' = [a \in Agents |-> link'[a]] BY DEF Meets
<1>. QED BY <1>3, <1>4

\* The calls, the rows and the connections stay well typed.
LEMMA TypesStep == Inv /\ [Next]_vars => Types'
<1>. SUFFICES ASSUME Inv, [Next]_vars PROVE Types' OBVIOUS
<1>. Types BY DEF Inv
<1>1. ASSUME NEW c \in Calls, CallStep(c) PROVE Types'
  <2>1. ASSUME NEW h \in Hosts, BeginUnbind(c, h) \/ BeginDelete(c, h) PROVE Types'
    <3>1. PICK op \in {"unbind", "delete"}, pc \in {"update", "drop", "key"} :
              Begin(c, op, pc, h, None)
      BY <2>1 DEF BeginUnbind, BeginDelete
    <3>2. [op |-> op, pc |-> pc, host |-> h, dev |-> None, orphan |-> FALSE] \in CallRow
      BY DEF CallRow
    <3>3. call' \in [Calls -> CallRow] BY <3>1, <3>2 DEF Begin, Types
    <3>4. UNCHANGED <<rows, live, gaps, proxy>> BY <2>1 DEF BeginUnbind, BeginDelete
    <3>. QED BY <3>1, <3>3, <3>4, CallsMove DEF Types, rows, proxy
  <2>2. ASSUME NEW h \in Hosts, NEW d \in Devices, BeginBind(c, h, d) PROVE Types'
    BY <2>2, CallsMove DEF BeginBind, Begin, Types, CallRow, rows, proxy
  <2>3. ASSUME NEW d \in Devices, BeginRevoke(c, d) PROVE Types'
    BY <2>3, CallsMove DEF BeginRevoke, Begin, Types, CallRow, rows, proxy
  <2>4. ASSUME call' \in [Calls -> CallRow],
               \/ \E pc : GoTo(c, pc)
               \/ Return(c)
        PROVE  \A x \in Calls :
                  /\ call'[x].op \in {"bind", "unbind", "delete"} => call'[x].host \in Hosts
                  /\ call'[x].op \in {"bind", "revoke"} => call'[x].dev \in Devices
    BY <2>4, CallsMove DEF Types, Idle
  <2>5. CASE BindDevice(c)
    <3>1. call' \in [Calls -> CallRow] BY <2>5, CallsTyped DEF BindDevice
    <3>. QED BY <2>4, <2>5, <3>1 DEF BindDevice, Types, rows, proxy
  <2>6. CASE BindUpdate(c)
    <3>1. call' \in [Calls -> CallRow] BY <2>6, CallsTyped DEF BindUpdate
    <3>2. lock' \in [Hosts -> Calls \cup {None}] BY <2>6 DEF BindUpdate, Types
    <3>. QED BY <2>4, <2>6, <3>1, <3>2 DEF BindUpdate, Types, rows, proxy
  <2>7. CASE BindSet(c)
    <3>1. call' \in [Calls -> CallRow] BY <2>7, CallsTyped DEF BindSet
    <3>2. lock' \in [Hosts -> Calls \cup {None}] BY <2>7, UnlockTyped DEF BindSet, Types
    <3>3. call[c].host \in Hosts /\ call[c].dev \in Devices BY <2>7 DEF BindSet, At, Types
    <3>4. live' \in [Hosts -> Devices \cup {None}] /\ gaps' \in SUBSET Hosts
      BY <2>7, <3>3, KeysTyped DEF BindSet
    <3>5. (\E pc : GoTo(c, pc)) \/ Return(c) BY <2>7 DEF BindSet
    <3>6. UNCHANGED <<revoked, bound, proxy>> BY <2>7 DEF BindSet
    <3>. QED BY <2>4, <3>1, <3>2, <3>4, <3>5, <3>6 DEF Types, proxy
  <2>8. CASE BindCommit(c)
    <3>1. call' \in [Calls -> CallRow] BY <2>8, CallsTyped DEF BindCommit
    <3>2. lock' \in [Hosts -> Calls \cup {None}] BY <2>8, UnlockTyped DEF BindCommit
    <3>3. call[c].host \in Hosts /\ call[c].dev \in Devices BY <2>8 DEF BindCommit, At, Types
    <3>4. bound' \in [Hosts -> Devices \cup {None, NoRow}]
      BY <2>8, <3>3 DEF BindCommit, Types
    <3>5. link' \in [Agents -> [Hosts -> Link]]
      BY <2>8, <3>3, MeetsTyped DEF BindCommit, Types
    <3>. QED BY <2>4, <2>8, <3>1, <3>2, <3>4, <3>5 DEF BindCommit, Types
  <2>9. CASE UnbindUpdate(c)
    <3>1. call' \in [Calls -> CallRow] BY <2>9, CallsTyped DEF UnbindUpdate
    <3>2. bound' \in [Hosts -> Devices \cup {None, NoRow}] BY <2>9 DEF UnbindUpdate, Types
    <3>. QED BY <2>4, <2>9, <3>1, <3>2 DEF UnbindUpdate, Types, proxy
  <2>10. CASE UnbindKey(c) \/ DeleteKey(c)
    <3>1. call' \in [Calls -> CallRow] BY <2>10, CallsTyped DEF UnbindKey, DeleteKey
    <3>2. call[c].host \in Hosts BY <2>10 DEF UnbindKey, DeleteKey, At, Types
    <3>3. live' \in [Hosts -> Devices \cup {None}] /\ gaps' \in SUBSET Hosts
      BY <2>10, <3>2 DEF UnbindKey, DeleteKey, DelKey, SetKey, PassOver, Types
    <3>4. (\E pc : GoTo(c, pc)) \/ Return(c) BY <2>10 DEF UnbindKey, DeleteKey
    <3>. QED BY <2>4, <2>10, <3>1, <3>3, <3>4 DEF UnbindKey, DeleteKey, Types, rows, proxy
  <2>11. CASE DeleteRow(c)
    <3>1. call[c].host \in Hosts BY <2>11 DEF DeleteRow, At, Types
    <3>2. CASE call[c].orphan
      <4>1. call' \in [Calls -> CallRow] BY <2>11, <3>2, CallsTyped DEF DeleteRow
      <4>. QED BY <2>4, <2>11, <3>2, <4>1 DEF DeleteRow, Types, proxy
    <3>3. CASE ~call[c].orphan
      <4>1. call' = Orphans(c, call[c].host) BY <2>11, <3>3 DEF DeleteRow
      <4>2. bound' \in [Hosts -> Devices \cup {None, NoRow}] /\ gaps' \in SUBSET Hosts
        BY <2>11, <3>1, <3>3 DEF DeleteRow, Types
      <4>3. call' \in [Calls -> CallRow] BY <3>1, <4>1, OrphansOnly
      <4>4. \A x \in Calls :
                  /\ call'[x].op \in {"bind", "unbind", "delete"} => call'[x].host \in Hosts
                  /\ call'[x].op \in {"bind", "revoke"} => call'[x].dev \in Devices
        BY <3>1, <4>1, OrphansOnly DEF Types, Idle
      <4>. QED BY <2>11, <4>2, <4>3, <4>4 DEF DeleteRow, Types, proxy
    <3>. QED BY <3>2, <3>3
  <2>12. CASE RevokeMark(c)
    <3>1. call' \in [Calls -> CallRow] BY <2>12, CallsTyped DEF RevokeMark
    <3>2. call[c].dev \in Devices BY <2>12 DEF RevokeMark, At, Types
    <3>3. revoked' \in SUBSET Devices BY <2>12, <3>2 DEF RevokeMark, Types
    <3>. QED BY <2>4, <2>12, <3>1, <3>3 DEF RevokeMark, Types, proxy
  <2>13. CASE RevokeRows(c)
    <3>1. call' \in [Calls -> CallRow] BY <2>13, CallsTyped DEF RevokeRows
    <3>2. bound' \in [Hosts -> Devices \cup {None, NoRow}] BY <2>13 DEF RevokeRows, Types
    <3>. QED BY <2>4, <2>13, <3>1, <3>2 DEF RevokeRows, Types, proxy
  <2>14. CASE CallFails(c)
    <3>1. call' \in [Calls -> CallRow] BY <2>14, CallsTyped DEF CallFails
    <3>2. lock' \in [Hosts -> Calls \cup {None}] BY <2>14, UnlockTyped DEF CallFails
    <3>3. gaps' \in SUBSET Hosts BY <2>14 DEF CallFails, At, Types
    <3>. QED BY <2>4, <2>14, <3>1, <3>2, <3>3 DEF CallFails, Types, proxy
  <2>. QED BY <1>1, <2>1, <2>2, <2>3, <2>5, <2>6, <2>7, <2>8, <2>9, <2>10, <2>11, <2>12,
              <2>13, <2>14 DEF CallStep
<1>2. ASSUME NEW h \in Hosts, CreateRow(h) PROVE Types'
  BY <1>2 DEF CreateRow, Types, proxy
<1>3. ASSUME NEW h \in Hosts, CascadeDelete(h) PROVE Types'
  <2>1. call' = Orphans(None, h) /\ \A x \in Calls : x # None
    BY <1>3, NoneIsNone DEF CascadeDelete
  <2>2. bound' \in [Hosts -> Devices \cup {None, NoRow}] /\ gaps' \in SUBSET Hosts
    BY <1>3 DEF CascadeDelete, Types
  <2>3. call' \in [Calls -> CallRow] BY <2>1, OrphansOnly
  <2>4. \A x \in Calls :
                  /\ call'[x].op \in {"bind", "unbind", "delete"} => call'[x].host \in Hosts
                  /\ call'[x].op \in {"bind", "revoke"} => call'[x].dev \in Devices
    BY <2>1, OrphansOnly DEF Types
  <2>. QED BY <1>3, <2>2, <2>3, <2>4 DEF CascadeDelete, Types, proxy
<1>4. ASSUME NEW a \in Agents, NEW h \in Hosts, AgentStep(a, h) \/ LinkLost(a, h)
      PROVE  Types'
  <2>1. UNCHANGED <<rows, live, call, gaps>>
    BY <1>4 DEF AgentStep, Dial, VerifyKey, VerifyHost, Register, CloseDisplaced, LinkLost
  <2>2. \A b \in Agents, g \in Hosts : link[b][g] \in Link BY DEF Types
  <2>3. ASSUME NEW l \in Link, link' = [link EXCEPT ![a][h] = l]
        PROVE  link' \in [Agents -> [Hosts -> Link]]
    BY <2>3 DEF Types
  <2>4. Away \in Link BY DEF Away, Link
  <2>5. \A pc \in {"away", "frame", "known", "verified", "serving", "closing"} :
           [link[a][h] EXCEPT !.pc = pc] \in Link
    BY <2>2 DEF Link
  <2>6. ASSUME Lose(a, h) PROVE link' \in [Agents -> [Hosts -> Link]]
    BY <2>3, <2>4, <2>6 DEF Lose
  <2>7. ASSUME NEW from, NEW to \in {"known", "verified"}, Move(a, h, from, to)
        PROVE  link' \in [Agents -> [Hosts -> Link]]
    <3>1. link' = [link EXCEPT ![a][h] = [link[a][h] EXCEPT !.pc = to]]
      BY <2>7 DEF Move, Types
    <3>. QED BY <2>3, <2>5, <3>1
  <2>8. ASSUME Dial(a, h) PROVE link' \in [Agents -> [Hosts -> Link]] /\ UNCHANGED route
    <3>. DEFINE l == [pc |-> "frame", late |-> a \in revoked, entitled |-> bound[h] = a]
    <3>1. (a \in revoked) \in BOOLEAN /\ (bound[h] = a) \in BOOLEAN OBVIOUS
    <3>2. l \in Link BY <3>1 DEF Link
    <3>3. link' = [link EXCEPT ![a][h] = l] /\ UNCHANGED route BY <2>8 DEF Dial
    <3>. HIDE DEF l
    <3>. QED BY <2>3, <3>2, <3>3
  <2>9. ASSUME VerifyKey(a, h) \/ VerifyHost(a, h) \/ CloseDisplaced(a, h)
        PROVE  link' \in [Agents -> [Hosts -> Link]] /\ UNCHANGED route
    BY <2>6, <2>7, <2>9 DEF VerifyKey, VerifyHost, CloseDisplaced
  <2>10. ASSUME Register(a, h)
         PROVE  /\ link' \in [Agents -> [Hosts -> Link]]
                /\ route' \in [Hosts -> Agents \cup {None}]
    <3>1. \A x \in Agents, pc \in {"away", "frame", "known", "verified", "serving", "closing"} :
             [link[x] EXCEPT ![h].pc = pc] \in [Hosts -> Link]
      <4>. SUFFICES ASSUME NEW x \in Agents,
                           NEW pc \in {"away", "frame", "known", "verified", "serving", "closing"}
                    PROVE  [link[x] EXCEPT ![h].pc = pc] \in [Hosts -> Link]
        OBVIOUS
      <4>1. [link[x][h] EXCEPT !.pc = pc] \in Link BY <2>2 DEF Link
      <4>2. link[x] \in [Hosts -> Link] BY DEF Types
      <4>. QED BY <4>1, <4>2
    <3>2. \A x \in Agents : (CASE x = a -> "serving"
                               [] x # a /\ x = route[h] -> "closing"
                               [] OTHER -> link[x][h].pc)
                   \in {"away", "frame", "known", "verified", "serving", "closing"}
      BY <2>2 DEF Link
    <3>3. link' \in [Agents -> [Hosts -> Link]] BY <2>10, <3>1, <3>2 DEF Register
    <3>. QED BY <2>10, <3>3 DEF Register, Types
  <2>11. ASSUME LinkLost(a, h)
         PROVE  /\ link' \in [Agents -> [Hosts -> Link]]
                /\ route' \in [Hosts -> Agents \cup {None}]
    BY <2>6, <2>11 DEF LinkLost, Types
  <2>12. /\ link' \in [Agents -> [Hosts -> Link]]
         /\ route' \in [Hosts -> Agents \cup {None}]
    BY <1>4, <2>8, <2>9, <2>10, <2>11 DEF AgentStep, Types
  <2>. QED BY <2>1, <2>12 DEF Types, rows
<1>5. CASE UNCHANGED vars
  BY <1>5 DEF vars, rows, proxy, Types
<1>. QED BY <1>1, <1>2, <1>3, <1>4, <1>5 DEF Next

-----------------------------------------------------------------------------
(* The lock, the orphans and the marks.                                    *)

CallParts == Locks /\ OrphansHaveGaps /\ RevokeIsMarked

\* A step of a call that neither gets a lock nor gives one up.
LEMMA CallPartsKeep ==
    ASSUME Inv, Types', NEW c \in Calls, UNCHANGED lock,
           \A x \in Calls : x # c => call'[x] = call[x],
           gaps \subseteq gaps', revoked \subseteq revoked',
           \A h \in Hosts : ~HoldsRow(c, h) /\ ~HoldsRow(c, h)',
           call'[c].orphan => call[c].orphan /\ call'[c].host = call[c].host,
           At(c, "revoke", "unbind")' => call'[c].dev \in revoked'
    PROVE  CallParts'
<1>. USE DEF Inv
<1>1. Locks' BY DEF Locks, HoldsRow
<1>2. OrphansHaveGaps' BY DEF OrphansHaveGaps
<1>3. RevokeIsMarked' BY DEF RevokeIsMarked, At
<1>. QED BY <1>1, <1>2, <1>3 DEF CallParts

\* A step after which a call holds no lock.
LEMMA CallPartsUnlock ==
    ASSUME Inv, Types', NEW c \in Calls, Unlock(c),
           \A x \in Calls : x # c => call'[x] = call[x],
           gaps \subseteq gaps', revoked \subseteq revoked', call'[c] = Idle
    PROVE  CallParts'
<1>. USE DEF Inv
<1>1. ASSUME NEW h \in Hosts, NEW x \in Calls PROVE lock'[h] = x <=> HoldsRow(x, h)'
  <2>1. CASE x = c
    <3>1. ~HoldsRow(x, h)' BY <2>1 DEF HoldsRow, Idle
    <3>. QED BY <2>1, <3>1, NoneIsNone DEF Unlock
  <2>2. CASE x # c
    <3>1. HoldsRow(x, h)' <=> HoldsRow(x, h) BY <2>2 DEF HoldsRow
    <3>2. lock'[h] = x <=> lock[h] = x BY <2>2, NoneIsNone DEF Unlock
    <3>. QED BY <3>1, <3>2 DEF Locks
  <2>. QED BY <2>1, <2>2
<1>2. OrphansHaveGaps' BY DEF OrphansHaveGaps, Idle
<1>3. RevokeIsMarked' BY DEF RevokeIsMarked, At, Idle
<1>. QED BY <1>1, <1>2, <1>3 DEF CallParts, Locks

\* The row of h is deleted: nobody holds it.
LEMMA CallPartsOrphan ==
    ASSUME Inv, Types', NEW c, NEW h \in Hosts, Unlocked(h), UNCHANGED <<lock, revoked>>,
           call' = Orphans(c, h), gaps' = gaps \cup {h},
           c \in Calls => \A g \in Hosts : ~HoldsRow(c, g)
    PROVE  CallParts'
<1>. USE DEF Inv
<1>1. \A x \in Calls : x # c => /\ call'[x].op = call[x].op /\ call'[x].pc = call[x].pc
                               /\ call'[x].host = call[x].host /\ call'[x].dev = call[x].dev
                               /\ call'[x].orphan = (call[x].orphan \/ call[x].host = h)
  BY OrphansOnly
<1>2. \A x \in Calls : x = c => call'[x] = Idle BY OrphansOnly
<1>3. ASSUME NEW g \in Hosts, NEW x \in Calls PROVE lock'[g] = x <=> HoldsRow(x, g)'
  <2>1. CASE x = c
    <3>1. ~HoldsRow(x, g)' BY <1>2, <2>1 DEF HoldsRow, Idle
    <3>. QED BY <2>1, <3>1 DEF Locks
  <2>2. CASE x # c /\ g # h
    <3>1. HoldsRow(x, g)' <=> HoldsRow(x, g) BY <1>1, <2>2 DEF HoldsRow
    <3>. QED BY <3>1 DEF Locks
  <2>3. CASE x # c /\ g = h
    <3>1. ~HoldsRow(x, g)' BY <1>1, <2>3 DEF HoldsRow
    <3>2. lock[g] # x BY <2>3, NoneIsNone DEF Unlocked
    <3>. QED BY <3>1, <3>2
  <2>. QED BY <2>1, <2>2, <2>3
<1>4. OrphansHaveGaps'
  <2>. SUFFICES ASSUME NEW x \in Calls, call'[x].orphan PROVE call'[x].host \in gaps'
    BY DEF OrphansHaveGaps
  <2>1. x # c BY <1>2 DEF Idle
  <2>2. call[x].orphan \/ call[x].host = h BY <1>1, <2>1
  <2>. QED BY <1>1, <2>1, <2>2 DEF OrphansHaveGaps
<1>5. RevokeIsMarked' BY <1>1, <1>2 DEF RevokeIsMarked, At, Idle
<1>. QED BY <1>3, <1>4, <1>5 DEF CallParts, Locks

LEMMA CallPartsStep == Inv /\ [Next]_vars => CallParts'
<1>. SUFFICES ASSUME Inv, [Next]_vars PROVE CallParts' OBVIOUS
<1>0. Types' BY TypesStep
<1>. Types BY DEF Inv
<1>1. ASSUME NEW c \in Calls, CallStep(c) PROVE CallParts'
  <2>1. ASSUME NEW op \in {"bind", "unbind", "delete", "revoke"},
               NEW pc \in {"device", "update", "drop", "key", "mark"}, NEW h, NEW d,
               Begin(c, op, pc, h, d), UNCHANGED <<rows, gaps>>
        PROVE  CallParts'
    <3>1. /\ call[c] = Idle
          /\ call'[c] = [op |-> op, pc |-> pc, host |-> h, dev |-> d, orphan |-> FALSE]
          /\ \A x \in Calls : x # c => call'[x] = call[x]
      BY <2>1, CallsMove
    <3>2. \A g \in Hosts : ~HoldsRow(c, g) /\ ~HoldsRow(c, g)'
      BY <2>1, <3>1 DEF HoldsRow, Idle
    <3>3. ~At(c, "revoke", "unbind")' /\ ~call'[c].orphan BY <2>1, <3>1 DEF At
    <3>. QED BY <1>0, <2>1, <3>1, <3>2, <3>3, CallPartsKeep DEF rows
  <2>2. ASSUME NEW h \in Hosts, BeginUnbind(c, h) \/ BeginDelete(c, h) PROVE CallParts'
    BY <2>1, <2>2 DEF BeginUnbind, BeginDelete
  <2>3. ASSUME NEW h \in Hosts, NEW d \in Devices, BeginBind(c, h, d) PROVE CallParts'
    BY <2>1, <2>3 DEF BeginBind
  <2>4. ASSUME NEW d \in Devices, BeginRevoke(c, d) PROVE CallParts'
    BY <2>1, <2>4 DEF BeginRevoke
  <2>5. CASE BindDevice(c) \/ UnbindUpdate(c) \/ UnbindKey(c) \/ DeleteKey(c) \/ RevokeMark(c)
             \/ RevokeRows(c) \/ (DeleteRow(c) /\ call[c].orphan)
    <3>1. \/ \E pc \in {"update", "key", "drop", "unbind"} : GoTo(c, pc)
          \/ Return(c)
      BY <2>5 DEF BindDevice, UnbindUpdate, UnbindKey, DeleteKey, RevokeMark, RevokeRows, DeleteRow
    <3>2. \/ call[c].op = "bind" /\ call[c].pc = "device"
          \/ call[c].op \in {"unbind", "delete", "revoke"}
      BY <2>5 DEF At, BindDevice, UnbindUpdate, UnbindKey, DeleteKey, RevokeMark, RevokeRows, DeleteRow
    <3>3. \A g \in Hosts : ~HoldsRow(c, g) /\ ~HoldsRow(c, g)'
      BY <3>1, <3>2, CallsMove DEF HoldsRow, Idle
    <3>4. UNCHANGED lock /\ gaps \subseteq gaps' /\ revoked \subseteq revoked'
      BY <2>5 DEF BindDevice, UnbindUpdate, UnbindKey, DeleteKey, RevokeMark, RevokeRows, DeleteRow,
                  DelKey, SetKey, PassOver, rows
    <3>5. At(c, "revoke", "unbind")' => call'[c].dev \in revoked'
      <4>1. CASE RevokeMark(c) BY <4>1, CallsMove DEF RevokeMark
      <4>2. CASE ~RevokeMark(c)
        <5>1. Return(c) \/ call[c].op # "revoke"
          BY <2>5, <4>2 DEF At, BindDevice, UnbindUpdate, UnbindKey, DeleteKey, RevokeRows, DeleteRow
        <5>. QED BY <3>1, <5>1, CallsMove DEF At, Idle
      <4>. QED BY <4>1, <4>2
    <3>6. call'[c].orphan => call[c].orphan /\ call'[c].host = call[c].host
      BY <3>1, CallsMove DEF Idle
    <3>7. \A x \in Calls : x # c => call'[x] = call[x] BY <3>1, CallsMove
    <3>. QED BY <1>0, <3>3, <3>4, <3>5, <3>6, <3>7, CallPartsKeep
  <2>6. CASE BindUpdate(c)
    <3>. USE DEF Inv
    <3>1. /\ call'[c].pc = "set" /\ call'[c].op = "bind" /\ call'[c].host = call[c].host
          /\ call'[c].dev = call[c].dev /\ call'[c].orphan = call[c].orphan
          /\ \A x \in Calls : x # c => call'[x] = call[x]
          /\ call[c].pc = "update" /\ UNCHANGED <<gaps, revoked>>
      BY <2>6, CallsMove DEF BindUpdate, At
    <3>2. call[c].host \in Hosts BY <2>6 DEF BindUpdate, At, Types
    <3>3. OrphansHaveGaps' /\ RevokeIsMarked'
      BY <3>1 DEF OrphansHaveGaps, RevokeIsMarked, At
    <3>4. ASSUME NEW h \in Hosts, NEW x \in Calls PROVE lock'[h] = x <=> HoldsRow(x, h)'
      <4>1. CASE call[c].orphan
        <5>1. UNCHANGED lock BY <2>6, <4>1 DEF BindUpdate
        <5>2. HoldsRow(x, h)' <=> HoldsRow(x, h) BY <3>1, <4>1 DEF HoldsRow
        <5>. QED BY <5>1, <5>2 DEF Locks
      <4>2. CASE ~call[c].orphan
        <5>1. Unlocked(call[c].host) /\ lock' = [lock EXCEPT ![call[c].host] = c]
          BY <2>6, <4>2 DEF BindUpdate
        <5>2. CASE h # call[c].host
          <6>1. HoldsRow(x, h)' <=> HoldsRow(x, h) BY <3>1, <5>2 DEF HoldsRow
          <6>2. lock'[h] = lock[h] BY <5>1, <5>2 DEF Types
          <6>. QED BY <6>1, <6>2 DEF Locks
        <5>3. CASE h = call[c].host
          <6>1. lock'[h] = c BY <5>1, <5>3, <3>2 DEF Types
          <6>2. lock[h] # x BY <5>1, <5>3, NoneIsNone DEF Unlocked
          <6>3. HoldsRow(c, h)' BY <3>1, <4>2, <5>3 DEF HoldsRow
          <6>4. x # c => ~HoldsRow(x, h)' BY <3>1, <6>2 DEF HoldsRow, Locks
          <6>. QED BY <6>1, <6>3, <6>4
        <5>. QED BY <5>2, <5>3
      <4>. QED BY <4>1, <4>2
    <3>. QED BY <3>3, <3>4 DEF CallParts, Locks
  <2>7. CASE BindSet(c)
    <3>0. call[c].host \in Hosts /\ call[c].dev \in Devices BY <2>7 DEF BindSet, At, Types
    <3>1. gaps \subseteq gaps' /\ UNCHANGED revoked BY <2>7, <3>0, KeysTyped DEF BindSet
    <3>2. CASE Unlock(c) /\ Return(c)
      BY <1>0, <3>1, <3>2, CallsMove, CallPartsUnlock
    <3>3. CASE GoTo(c, "commit") /\ UNCHANGED lock
      <4>1. /\ call'[c].pc = "commit" /\ call'[c].op = "bind" /\ call'[c].host = call[c].host
            /\ call'[c].dev = call[c].dev /\ call'[c].orphan = call[c].orphan
            /\ \A x \in Calls : x # c => call'[x] = call[x]
            /\ call[c].pc = "set" /\ call[c].op = "bind"
        BY <2>7, <3>3, CallsMove DEF BindSet, At
      <4>2. \A x \in Calls, h \in Hosts : HoldsRow(x, h)' <=> HoldsRow(x, h)
        BY <4>1 DEF HoldsRow
      <4>3. Locks' BY <3>3, <4>2 DEF Inv, Locks
      <4>4. OrphansHaveGaps' /\ RevokeIsMarked'
        BY <3>1, <4>1 DEF Inv, OrphansHaveGaps, RevokeIsMarked, At
      <4>. QED BY <4>3, <4>4 DEF CallParts
    <3>. QED BY <2>7, <3>2, <3>3 DEF BindSet
  <2>8. CASE BindCommit(c) \/ CallFails(c)
    <3>1. Unlock(c) /\ Return(c) /\ gaps \subseteq gaps' /\ revoked \subseteq revoked'
      BY <2>8 DEF BindCommit, CallFails
    <3>. QED BY <1>0, <3>1, CallsMove, CallPartsUnlock
  <2>9. CASE DeleteRow(c) /\ ~call[c].orphan
    <3>1. call[c].host \in Hosts /\ \A g \in Hosts : ~HoldsRow(c, g)
      BY <2>9 DEF DeleteRow, At, Types, HoldsRow
    <3>2. /\ Unlocked(call[c].host) /\ UNCHANGED <<lock, revoked>>
          /\ call' = Orphans(c, call[c].host) /\ gaps' = gaps \cup {call[c].host}
      BY <2>9 DEF DeleteRow
    <3>. QED BY <1>0, <3>1, <3>2, CallPartsOrphan
  <2>. QED BY <1>1, <2>2, <2>3, <2>4, <2>5, <2>6, <2>7, <2>8, <2>9 DEF CallStep
<1>2. ASSUME NEW h \in Hosts, CascadeDelete(h) PROVE CallParts'
  BY <1>0, <1>2, NoneIsNone, CallPartsOrphan DEF CascadeDelete
<1>3. ASSUME UNCHANGED <<call, lock, gaps, revoked>> PROVE CallParts'
  BY <1>3 DEF CallParts, Inv, Locks, HoldsRow, OrphansHaveGaps, RevokeIsMarked, At
<1>4. ASSUME (\E h \in Hosts : CreateRow(h)) \/ UNCHANGED vars PROVE CallParts'
  BY <1>3, <1>4 DEF CreateRow, vars, rows
<1>5. ASSUME NEW a \in Agents, NEW h \in Hosts, AgentStep(a, h) \/ LinkLost(a, h)
      PROVE  CallParts'
  <2>1. UNCHANGED <<rows, live, call, gaps>>
    BY <1>5 DEF AgentStep, Dial, VerifyKey, VerifyHost, Register, CloseDisplaced, LinkLost
  <2>. QED BY <1>3, <2>1 DEF rows
<1>. QED BY <1>1, <1>2, <1>4, <1>5 DEF Next

-----------------------------------------------------------------------------
(* The live keys.                                                          *)

\* A Bind about to commit is alone with its row, unless the row is gone.
LEMMA OneCommits ==
    ASSUME Inv, NEW h \in Hosts \ gaps, NEW c \in Calls, NEW x \in Calls,
           call[c].op = "bind", call[c].pc \in {"set", "commit"}, call[c].host = h,
           Commits(x, h)
    PROVE  x = c
<1>1. ~call[c].orphan /\ ~call[x].orphan BY DEF Inv, OrphansHaveGaps, Commits
<1>2. HoldsRow(c, h) /\ HoldsRow(x, h) BY <1>1 DEF HoldsRow, Commits, At
<1>. QED BY <1>2 DEF Inv, Locks

\* A key fits if it was deleted, or if it stays as it is and its host's binding changes only
\* with an Unbind that will delete it.
LEMMA KeyKeeps ==
    ASSUME NEW h \in Hosts, KeyFits(h), revoked \subseteq revoked',
           live'[h] = live[h],
           \/ bound'[h] = bound[h]
           \/ live[h] \in {None, bound'[h]} \cup revoked'
           \/ \E c \in Calls : Cleans(c, h)',
           \A x \in Calls : Cleans(x, h) => Cleans(x, h)',
           \A x \in Calls : (Commits(x, h) <=> Commits(x, h)')
                            /\ (Commits(x, h) => call'[x].dev = call[x].dev)
    PROVE  KeyFits(h)'
BY DEF KeyFits

LEMMA KeyDeleted ==
    ASSUME NEW h \in Hosts, live'[h] = None
    PROVE  KeyFits(h)'
BY DEF KeyFits

LEMMA KeysStep == Inv /\ [Next]_vars => Keys'
<1>. SUFFICES ASSUME Inv, [Next]_vars, NEW h \in Hosts, h \notin gaps' PROVE KeyFits(h)'
  BY DEF Keys
<1>. Types BY DEF Inv
<1>1. ASSUME NEW c \in Calls, CallStep(c) PROVE KeyFits(h)'
  <2>1. gaps \subseteq gaps'
    BY <1>1 DEF CallStep, BeginUnbind, BeginDelete, BeginBind, BeginRevoke, BindDevice, BindUpdate,
                BindSet, BindSetOrPass, BindSetFails, BindCommit, UnbindUpdate, UnbindKey,
                DeleteKey, DeleteRow, DelKey, SetKey, PassOver, RevokeMark, RevokeRows, CallFails
  <2>2. h \notin gaps /\ KeyFits(h) BY <2>1 DEF Inv, Keys
  <2>3. ASSUME revoked \subseteq revoked', live'[h] = live[h], bound'[h] = bound[h],
               \A x \in Calls : x # c => call'[x] = call[x],
               ~Cleans(c, h), ~Commits(c, h), ~Commits(c, h)'
        PROVE  KeyFits(h)'
    BY <2>2, <2>3, KeyKeeps DEF Cleans, Commits, At
  <2>4. ASSUME NEW op \in {"bind", "unbind", "delete", "revoke"},
               NEW pc \in {"device", "update", "drop", "key", "mark"}, NEW g, NEW d,
               Begin(c, op, pc, g, d), UNCHANGED <<rows, live, gaps>>
        PROVE  KeyFits(h)'
    <3>1. /\ call[c] = Idle
          /\ call'[c] = [op |-> op, pc |-> pc, host |-> g, dev |-> d, orphan |-> FALSE]
          /\ \A x \in Calls : x # c => call'[x] = call[x]
      BY <2>4, CallsMove
    <3>2. ~Cleans(c, h) /\ ~Commits(c, h) /\ ~Commits(c, h)'
      BY <3>1 DEF Cleans, Commits, At, Idle
    <3>. QED BY <2>3, <2>4, <3>1, <3>2 DEF rows
  <2>5. ASSUME NEW g \in Hosts, BeginUnbind(c, g) \/ BeginDelete(c, g) PROVE KeyFits(h)'
    BY <2>4, <2>5 DEF BeginUnbind, BeginDelete
  <2>6. ASSUME NEW g \in Hosts, NEW d \in Devices, BeginBind(c, g, d) PROVE KeyFits(h)'
    BY <2>4, <2>6 DEF BeginBind
  <2>7. ASSUME NEW d \in Devices, BeginRevoke(c, d) PROVE KeyFits(h)'
    BY <2>4, <2>7 DEF BeginRevoke
  <2>8. CASE BindDevice(c) \/ BindUpdate(c) \/ RevokeMark(c)
    <3>1. /\ (\E pc \in {"update", "set", "unbind"} : GoTo(c, pc)) \/ Return(c)
          /\ UNCHANGED <<live, bound>> /\ revoked \subseteq revoked'
          /\ call[c].pc \in {"device", "update", "mark"}
      BY <2>8 DEF BindDevice, BindUpdate, RevokeMark, At, rows
    <3>2. ~Cleans(c, h) /\ ~Commits(c, h) /\ ~Commits(c, h)'
      BY <3>1, CallsMove DEF Cleans, Commits, At, Idle
    <3>. QED BY <2>3, <3>1, <3>2, CallsMove
  <2>9. CASE BindSet(c)
    <3>0. /\ call[c].op = "bind" /\ call[c].pc = "set" /\ UNCHANGED <<bound, revoked>>
          /\ call[c].host \in Hosts /\ call[c].dev \in Devices
      BY <2>9 DEF BindSet, At, Types
    <3>1. /\ (Return(c) \/ GoTo(c, "commit"))
          /\ \A x \in Calls : x # c => call'[x] = call[x]
          /\ \A g \in Hosts : g # call[c].host => live'[g] = live[g]
      BY <2>9, <3>0, CallsMove, KeysTyped DEF BindSet
    <3>2. CASE h # call[c].host
      <4>1. ~Commits(c, h)' BY <3>1, <3>2, CallsMove DEF Commits, At, Idle
      <4>. QED BY <2>3, <3>0, <3>1, <3>2, <4>1 DEF Cleans, Commits, At
    <3>3. CASE h = call[c].host /\ BindSetFails(h, call[c].dev) /\ Return(c)
      <4>1. live'[h] = live[h] BY <3>3 DEF BindSetFails
      <4>2. ~Commits(c, h)' BY <3>3, CallsMove DEF Commits, At, Idle
      <4>. QED BY <2>3, <3>0, <3>1, <4>1, <4>2 DEF Cleans, Commits, At
    <3>4. CASE h = call[c].host /\ BindSetOrPass(h, call[c].dev) /\ GoTo(c, "commit")
      <4>1. /\ call'[c].pc = "commit" /\ call'[c].op = "bind" /\ call'[c].host = call[c].host
            /\ call'[c].dev = call[c].dev
        BY <3>0, <3>4, CallsMove
      <4>2. live'[h] \in {None, call'[c].dev}
        BY <3>4, <4>1 DEF BindSetOrPass, SetKey, PassOver, Types
      <4>3. Commits(c, h)' BY <3>4, <4>1 DEF Commits, At
      <4>4. ASSUME NEW x \in Calls, Commits(x, h)' PROVE x = c
        <5>1. ASSUME x # c PROVE FALSE
          <6>1. Commits(x, h) BY <3>1, <4>4, <5>1 DEF Commits, At
          <6>2. x = c BY <2>2, <3>0, <3>4, <6>1, OneCommits
          <6>. QED BY <5>1, <6>2
        <5>. QED BY <5>1
      <4>. QED BY <4>2, <4>3, <4>4 DEF KeyFits
    <3>. QED BY <2>9, <3>2, <3>3, <3>4 DEF BindSet
  <2>10. CASE BindCommit(c)
    <3>0. /\ call[c].op = "bind" /\ call[c].pc = "commit" /\ call[c].host \in Hosts
          /\ UNCHANGED <<live, revoked, gaps>>
          /\ call'[c] = Idle /\ \A x \in Calls : x # c => call'[x] = call[x]
      BY <2>10, CallsMove DEF BindCommit, At, Types
    <3>1. CASE h # call[c].host
      <4>1. bound'[h] = bound[h] BY <2>10, <3>1 DEF BindCommit, Types
      <4>. QED BY <2>3, <3>0, <3>1, <4>1 DEF Cleans, Commits, At, Idle
    <3>2. CASE h = call[c].host
      <4>1. ~call[c].orphan BY <2>2, <3>2 DEF Inv, OrphansHaveGaps
      <4>2. bound'[h] = call[c].dev BY <2>10, <3>2, <4>1 DEF BindCommit, Types
      <4>3. Commits(c, h) BY <3>0, <3>2 DEF Commits, At
      <4>4. live'[h] \in {None, bound'[h]} BY <2>2, <3>0, <4>2, <4>3 DEF KeyFits
      <4>5. ASSUME NEW x \in Calls, Commits(x, h)' PROVE FALSE
        <5>1. x # c BY <3>0, <4>5 DEF Commits, At, Idle
        <5>2. Commits(x, h) BY <3>0, <4>5, <5>1 DEF Commits, At
        <5>3. x = c BY <2>2, <3>0, <3>2, <5>2, OneCommits
        <5>. QED BY <5>1, <5>3
      <4>. QED BY <4>4, <4>5 DEF KeyFits
    <3>. QED BY <3>1, <3>2
  <2>11. CASE UnbindUpdate(c)
    <3>1. /\ call[c].op = "unbind" /\ call[c].pc = "update" /\ UNCHANGED <<live, revoked>>
          /\ call'[c].pc = "key" /\ call'[c].op = "unbind" /\ call'[c].host = call[c].host
          /\ \A x \in Calls : x # c => call'[x] = call[x]
      BY <2>11, CallsMove DEF UnbindUpdate, At
    <3>2. bound'[h] = bound[h] \/ h = call[c].host BY <2>11 DEF UnbindUpdate, Types
    <3>3. h = call[c].host => Cleans(c, h)' BY <3>1 DEF Cleans, At
    <3>4. ~Cleans(c, h) /\ ~Commits(c, h) /\ ~Commits(c, h)' BY <3>1 DEF Cleans, Commits, At
    <3>. QED BY <2>2, <3>1, <3>2, <3>3, <3>4, KeyKeeps DEF Cleans, Commits, At
  <2>12. CASE UnbindKey(c) \/ DeleteKey(c)
    <3>1. /\ call[c].op \in {"unbind", "delete"} /\ call[c].pc = "key" /\ UNCHANGED rows
          /\ DelKey(call[c].host) /\ call[c].host \in Hosts
          /\ Return(c) \/ (call[c].op = "delete" /\ GoTo(c, "drop"))
      BY <2>12 DEF UnbindKey, DeleteKey, At, Types
    <3>2. CASE h # call[c].host
      <4>1. live'[h] = live[h] BY <3>1, <3>2 DEF DelKey, SetKey, PassOver, Types
      <4>2. ~Cleans(c, h) /\ ~Commits(c, h) /\ ~Commits(c, h)'
        BY <3>1, <3>2, CallsMove DEF Cleans, Commits, At, Idle
      <4>. QED BY <2>3, <3>1, <4>1, <4>2, CallsMove DEF rows
    <3>3. CASE h = call[c].host
      <4>1. live'[h] = None BY <3>1, <3>3 DEF DelKey, SetKey, PassOver, Types
      <4>. QED BY <4>1, KeyDeleted
    <3>. QED BY <3>2, <3>3
  <2>13. CASE DeleteRow(c) /\ call[c].orphan
    <3>1. /\ call[c].op = "delete" /\ Return(c) /\ UNCHANGED <<live, revoked, bound>>
      BY <2>13 DEF DeleteRow, At
    <3>2. ~Cleans(c, h) /\ ~Commits(c, h) /\ ~Commits(c, h)'
      BY <3>1, CallsMove DEF Cleans, Commits, At, Idle
    <3>. QED BY <2>3, <3>1, <3>2, CallsMove
  <2>14. CASE DeleteRow(c) /\ ~call[c].orphan
    <3>. DEFINE g == call[c].host
    <3>1. /\ g \in Hosts /\ call[c].op = "delete" /\ call' = Orphans(c, g) /\ UNCHANGED <<live, revoked>>
          /\ bound' = [bound EXCEPT ![g] = NoRow] /\ gaps' = gaps \cup {g}
      BY <2>14 DEF DeleteRow, At, Types
    <3>2. h # g /\ bound'[h] = bound[h] BY <3>1 DEF Types
    <3>3. /\ \A x \in Calls : x # c =>
                 /\ call'[x].op = call[x].op /\ call'[x].pc = call[x].pc
                 /\ call'[x].host = call[x].host /\ call'[x].dev = call[x].dev
          /\ call'[c] = Idle
      BY <3>1, OrphansOnly
    <3>4. ~Cleans(c, h) /\ ~Commits(c, h) /\ ~Commits(c, h)'
      BY <3>1, <3>3 DEF Cleans, Commits, At, Idle
    <3>5. \A x \in Calls : (Cleans(x, h) => Cleans(x, h)') /\ (Commits(x, h) <=> Commits(x, h)')
                           /\ (Commits(x, h) => call'[x].dev = call[x].dev)
      BY <3>3, <3>4 DEF Cleans, Commits, At
    <3>. QED BY <2>2, <3>1, <3>2, <3>5, KeyKeeps
  <2>15. CASE RevokeRows(c)
    <3>1. /\ call[c].op = "revoke" /\ call[c].dev \in revoked /\ Return(c)
          /\ UNCHANGED <<live, revoked>>
          /\ bound'[h] = IF bound[h] = call[c].dev THEN None ELSE bound[h]
      BY <2>15 DEF RevokeRows, At, Inv, RevokeIsMarked
    <3>2. \A x \in Calls : (Cleans(x, h) => Cleans(x, h)') /\ (Commits(x, h) <=> Commits(x, h)')
                           /\ (Commits(x, h) => call'[x].dev = call[x].dev)
      BY <3>1, CallsMove DEF Cleans, Commits, At, Idle
    <3>3. CASE bound'[h] = bound[h] BY <2>2, <3>1, <3>2, <3>3, KeyKeeps
    <3>4. CASE bound[h] = call[c].dev
      <4>1. \/ live[h] \in {None} \cup revoked
            \/ \E x \in Calls : Cleans(x, h) \/ Commits(x, h)
        BY <2>2, <3>1, <3>4 DEF KeyFits
      <4>. QED BY <2>2, <3>1, <3>2, <4>1 DEF KeyFits
    <3>. QED BY <3>1, <3>3, <3>4
  <2>16. CASE CallFails(c)
    <3>1. Return(c) /\ UNCHANGED <<live, revoked, bound>> BY <2>16 DEF CallFails
    <3>2. ~Cleans(c, h) /\ ~Commits(c, h) BY <2>16 DEF CallFails, Cleans, Commits
    <3>3. ~Commits(c, h)' BY <3>1, CallsMove DEF Commits, At, Idle
    <3>. QED BY <2>3, <3>1, <3>2, <3>3, CallsMove
  <2>. QED BY <1>1, <2>5, <2>6, <2>7, <2>8, <2>9, <2>10, <2>11, <2>12, <2>13, <2>14, <2>15,
              <2>16 DEF CallStep
<1>2. ASSUME NEW g \in Hosts, CreateRow(g) PROVE KeyFits(h)'
  <2>1. /\ UNCHANGED <<revoked, live, call, gaps>> /\ bound' = [bound EXCEPT ![g] = None]
        /\ bound[g] = NoRow
    BY <1>2 DEF CreateRow, HasRow
  <2>2. KeyFits(h) BY <2>1 DEF Inv, Keys
  <2>3. CASE h # g
    <3>1. bound'[h] = bound[h] BY <2>1, <2>3 DEF Types
    <3>. QED BY <2>1, <2>2, <3>1 DEF KeyFits, Cleans, Commits, At
  <2>4. CASE h = g
    <3>1. live[h] # bound[h] BY <2>1, <2>4, NoneAndNoRowAreNoDevice DEF Types
    <3>. QED BY <2>1, <2>2, <3>1 DEF KeyFits, Cleans, Commits, At
  <2>. QED BY <2>3, <2>4
<1>3. ASSUME NEW g \in Hosts, CascadeDelete(g) PROVE KeyFits(h)'
  <2>1. /\ call' = Orphans(None, g) /\ UNCHANGED <<live, revoked>>
        /\ bound' = [bound EXCEPT ![g] = NoRow] /\ gaps' = gaps \cup {g}
    BY <1>3 DEF CascadeDelete
  <2>2. h # g /\ bound'[h] = bound[h] BY <2>1 DEF Types
  <2>3. KeyFits(h) BY <2>1 DEF Inv, Keys
  <2>4. \A x \in Calls : /\ call'[x].op = call[x].op /\ call'[x].pc = call[x].pc
                         /\ call'[x].host = call[x].host /\ call'[x].dev = call[x].dev
    BY <2>1, OrphansOnly, NoneIsNone
  <2>. QED BY <2>1, <2>2, <2>3, <2>4 DEF KeyFits, Cleans, Commits, At
<1>4. ASSUME UNCHANGED <<rows, live, call, gaps>> PROVE KeyFits(h)'
  BY <1>4 DEF Inv, Keys, KeyFits, Cleans, Commits, At, rows
<1>5. ASSUME NEW a \in Agents, NEW g \in Hosts, AgentStep(a, g) \/ LinkLost(a, g)
      PROVE  KeyFits(h)'
  <2>1. UNCHANGED <<rows, live, call, gaps>>
    BY <1>5 DEF AgentStep, Dial, VerifyKey, VerifyHost, Register, CloseDisplaced, LinkLost
  <2>. QED BY <1>4, <2>1
<1>6. CASE UNCHANGED vars
  BY <1>4, <1>6 DEF vars
<1>. QED BY <1>1, <1>2, <1>3, <1>5, <1>6 DEF Next

-----------------------------------------------------------------------------
(* The connections.                                                        *)

LinkParts == Met /\ Routed

\* What one connection must have met, as a function of its row in link.
MetBy(a, h, l) ==
    /\ l.pc # "away" /\ bound[h] = a => l.entitled
    /\ l.pc # "away" /\ l.late => a \in revoked
    /\ l.pc \in {"verified", "serving"} => l.entitled
    /\ l.pc \in {"known", "verified", "serving"} => ~l.late

\* A step of the proxy or of an agent on one connection.
LEMMA OneLink ==
    ASSUME Inv, NEW a \in Agents, NEW h \in Hosts, NEW l \in Link,
           UNCHANGED <<bound, revoked>>, link' = [link EXCEPT ![a][h] = l], MetBy(a, h, l),
           \/ route' = [route EXCEPT ![h] = IF @ = a THEN None ELSE @]
           \/ route' = route /\ (link[a][h].pc = "serving" => l.pc = "serving")
    PROVE  LinkParts'
<1>. Types BY DEF Inv
<1>1. \A b \in Agents, g \in Hosts : link'[b][g] = IF b = a /\ g = h THEN l ELSE link[b][g]
  BY DEF Types
<1>2. Met'
  <2>. SUFFICES ASSUME NEW b \in Agents, NEW g \in Hosts PROVE MetBy(b, g, link[b][g])'
    BY DEF Met, MetBy
  <2>1. CASE b = a /\ g = h BY <1>1, <2>1 DEF MetBy
  <2>2. CASE ~(b = a /\ g = h)
    <3>1. link'[b][g] = link[b][g] BY <1>1, <2>2
    <3>2. MetBy(b, g, link[b][g]) BY DEF Inv, Met, MetBy
    <3>. QED BY <3>1, <3>2 DEF MetBy
  <2>. QED BY <2>1, <2>2
<1>3. Routed'
  <2>. SUFFICES ASSUME NEW g \in Hosts, route'[g] # None PROVE link'[route'[g]][g].pc = "serving"
    BY DEF Routed
  <2>1. route'[g] = route[g] /\ route[g] \in Agents BY DEF Types
  <2>2. link[route[g]][g].pc = "serving" BY <2>1 DEF Inv, Routed
  <2>3. CASE route[g] = a /\ g = h
    <3>1. route'[h] # None /\ route[h] = a BY <2>1, <2>3
    <3>2. route' = route /\ (link[a][h].pc = "serving" => l.pc = "serving")
      BY <3>1 DEF Types
    <3>. QED BY <1>1, <2>1, <2>2, <2>3, <3>2
  <2>4. CASE ~(route[g] = a /\ g = h) BY <1>1, <2>1, <2>2, <2>4
  <2>. QED BY <2>3, <2>4
<1>. QED BY <1>2, <1>3 DEF LinkParts

\* The newcomer's connection serves; the one it displaces will be closed.
LEMMA RegisterKeeps ==
    ASSUME Inv, NEW a \in Agents, NEW h \in Hosts, Register(a, h)
    PROVE  LinkParts'
<1>. Types BY DEF Inv
<1>1. \A x \in Agents, g \in Hosts : link[x][g] \in Link BY DEF Types
<1>2. /\ link[a][h].pc = "verified" /\ UNCHANGED <<bound, revoked>>
      /\ route' = [route EXCEPT ![h] = a]
  BY DEF Register, rows
<1>3. ASSUME NEW x \in Agents, NEW g \in Hosts
      PROVE  /\ link'[x][g].late = link[x][g].late /\ link'[x][g].entitled = link[x][g].entitled
             /\ g # h \/ (x # a /\ x # route[h]) => link'[x][g] = link[x][g]
             /\ x = a => link'[x][h].pc = "serving"
             /\ x # a /\ x = route[h] => link'[x][h].pc = "closing"
  <2>. DEFINE pc == CASE x = a -> "serving"
                      [] x # a /\ x = route[h] -> "closing"
                      [] OTHER -> link[x][h].pc
  <2>1. link'[x] = [link[x] EXCEPT ![h].pc = pc] BY DEF Register
  <2>2. x = a => pc = "serving" OBVIOUS
  <2>3. x # a /\ x = route[h] => pc = "closing" OBVIOUS
  <2>4. x # a /\ x # route[h] => pc = link[x][h].pc OBVIOUS
  <2>. HIDE DEF pc
  <2>5. link[x] \in [Hosts -> Link] BY DEF Types
  <2>6. link'[x][h] = [link[x][h] EXCEPT !.pc = pc] /\ (g # h => link'[x][g] = link[x][g])
    BY <2>1, <2>5
  <2>7. link'[x][h].pc = pc /\ link'[x][h].late = link[x][h].late
        /\ link'[x][h].entitled = link[x][h].entitled
        /\ (pc = link[x][h].pc => link'[x][h] = link[x][h])
    BY <1>1, <2>6 DEF Link
  <2>. QED BY <2>2, <2>3, <2>4, <2>6, <2>7
<1>4. Met'
  <2>. SUFFICES ASSUME NEW b \in Agents, NEW g \in Hosts PROVE MetBy(b, g, link[b][g])'
    BY DEF Met, MetBy
  <2>1. MetBy(b, g, link[b][g]) /\ MetBy(a, h, link[a][h]) BY DEF Inv, Met, MetBy
  <2>2. CASE g # h \/ (b # a /\ b # route[h]) BY <1>2, <1>3, <2>1, <2>2 DEF MetBy
  <2>3. CASE g = h /\ b = a BY <1>2, <1>3, <2>1, <2>3 DEF MetBy
  <2>4. CASE g = h /\ b # a /\ b = route[h]
    <3>1. link[b][h].pc = "serving" BY <2>4, NoneIsNone DEF Inv, Routed
    <3>. QED BY <1>2, <1>3, <2>1, <2>4, <3>1 DEF MetBy
  <2>. QED BY <2>2, <2>3, <2>4
<1>5. Routed'
  <2>. SUFFICES ASSUME NEW g \in Hosts, route'[g] # None PROVE link'[route'[g]][g].pc = "serving"
    BY DEF Routed
  <2>1. CASE g = h
    <3>1. route'[h] = a BY <1>2 DEF Types
    <3>. QED BY <1>3, <2>1, <3>1
  <2>2. CASE g # h
    <3>1. route'[g] = route[g] /\ route[g] \in Agents BY <1>2, <2>2 DEF Types
    <3>. QED BY <1>3, <2>2, <3>1 DEF Inv, Routed
  <2>. QED BY <2>1, <2>2
<1>. QED BY <1>4, <1>5 DEF LinkParts

\* The rows change: a host that gets a device entitles that device's connection, and no
\* revocation is taken back.
LEMMA RowsChange ==
    ASSUME Inv, UNCHANGED route, revoked \subseteq revoked',
           \A a \in Agents, h \in Hosts :
              /\ link'[a][h].pc = link[a][h].pc /\ link'[a][h].late = link[a][h].late
              /\ link[a][h].entitled => link'[a][h].entitled
              /\ bound'[h] = a /\ link[a][h].pc # "away" => bound[h] = a \/ link'[a][h].entitled
    PROVE  LinkParts'
<1>. Types BY DEF Inv
<1>1. Met' BY DEF Inv, Met
<1>2. Routed'
  <2>1. \A h \in Hosts : route[h] # None => route[h] \in Agents BY DEF Types
  <2>. QED BY <2>1 DEF Inv, Routed
<1>. QED BY <1>1, <1>2 DEF LinkParts

LEMMA LinksStep == Inv /\ [Next]_vars => LinkParts'
<1>. SUFFICES ASSUME Inv, [Next]_vars PROVE LinkParts' OBVIOUS
<1>. Types BY DEF Inv
<1>1. ASSUME NEW c \in Calls, BindCommit(c) PROVE LinkParts'
  <2>1. CASE call[c].orphan BY <1>1, <2>1, RowsChange DEF BindCommit
  <2>2. CASE ~call[c].orphan
    <3>. DEFINE h == call[c].host  d == call[c].dev
    <3>1. h \in Hosts /\ d \in Devices BY <1>1 DEF BindCommit, At, Types
    <3>2. /\ bound' = [bound EXCEPT ![h] = d] /\ link' = Meets(h, d) /\ UNCHANGED <<route, revoked>>
      BY <1>1, <2>2 DEF BindCommit
    <3>3. \A a \in Agents, g \in Hosts :
              /\ link'[a][g].pc = link[a][g].pc /\ link'[a][g].late = link[a][g].late
              /\ link[a][g].entitled => link'[a][g].entitled
              /\ a = d /\ g = h /\ link[a][g].pc # "away" => link'[a][g].entitled
      BY <3>1, <3>2, MeetsTyped
    <3>4. \A g \in Hosts : bound'[g] = IF g = h THEN d ELSE bound[g] BY <3>2 DEF Types
    <3>. QED BY <3>2, <3>3, <3>4, RowsChange
  <2>. QED BY <2>1, <2>2
<1>2. ASSUME UNCHANGED <<link, route>>, revoked \subseteq revoked',
             \A h \in Hosts : bound'[h] = bound[h] \/ bound'[h] \notin Devices
      PROVE  LinkParts'
  <2>1. \A a \in Agents : a \in Devices BY AgentsAreDevices
  <2>. QED BY <1>2, <2>1, RowsChange
<1>3. ASSUME NEW c \in Calls, CallStep(c), ~BindCommit(c) PROVE LinkParts'
  <2>1. UNCHANGED <<link, route>> /\ revoked \subseteq revoked'
    BY <1>3 DEF CallStep, BeginUnbind, BeginDelete, BeginBind, BeginRevoke, BindDevice, BindUpdate,
                BindSet, UnbindUpdate, UnbindKey, DeleteKey, DeleteRow, RevokeMark, RevokeRows,
                CallFails, proxy, rows
  <2>2. CASE UnbindUpdate(c) \/ DeleteRow(c) \/ RevokeRows(c)
    <3>1. \A h \in Hosts : bound'[h] \in {bound[h], None, NoRow}
      BY <2>2 DEF UnbindUpdate, DeleteRow, RevokeRows, Types
    <3>. QED BY <1>2, <2>1, <3>1, NoneAndNoRowAreNoDevice
  <2>3. CASE ~(UnbindUpdate(c) \/ DeleteRow(c) \/ RevokeRows(c))
    <3>1. UNCHANGED bound
      BY <1>3, <2>3 DEF CallStep, BeginUnbind, BeginDelete, BeginBind, BeginRevoke, BindDevice,
                BindUpdate, BindSet, UnbindKey, DeleteKey, RevokeMark, CallFails, rows
    <3>. QED BY <1>2, <2>1, <3>1
  <2>. QED BY <2>2, <2>3
<1>4. ASSUME NEW h \in Hosts, CreateRow(h) \/ CascadeDelete(h) PROVE LinkParts'
  <2>1. UNCHANGED <<link, route, revoked>> BY <1>4 DEF CreateRow, CascadeDelete, proxy
  <2>2. \A g \in Hosts : bound'[g] \in {bound[g], None, NoRow}
    BY <1>4 DEF CreateRow, CascadeDelete, Types
  <2>. QED BY <1>2, <2>1, <2>2, NoneAndNoRowAreNoDevice
<1>5. ASSUME NEW a \in Agents, NEW h \in Hosts, AgentStep(a, h) \/ LinkLost(a, h)
      PROVE  LinkParts'
  <2>0. UNCHANGED <<bound, revoked>>
    BY <1>5 DEF AgentStep, Dial, VerifyKey, VerifyHost, Register, CloseDisplaced, LinkLost, rows
  <2>. DEFINE l == link[a][h]
  <2>1. l \in Link /\ MetBy(a, h, l) BY DEF Types, Inv, Met, MetBy
  <2>2. ASSUME Lose(a, h),
               \/ route' = [route EXCEPT ![h] = IF @ = a THEN None ELSE @]
               \/ route' = route /\ l.pc # "serving"
        PROVE  LinkParts'
    <3>1. Away \in Link /\ MetBy(a, h, Away) BY DEF Away, Link, MetBy
    <3>. QED BY <2>0, <2>2, <3>1, OneLink DEF Lose
  <2>3. ASSUME NEW from \in {"frame", "known"}, NEW to \in {"known", "verified"},
               Move(a, h, from, to), route' = route, MetBy(a, h, [l EXCEPT !.pc = to])
        PROVE  LinkParts'
    <3>1. link' = [link EXCEPT ![a][h] = [l EXCEPT !.pc = to]] /\ l.pc = from
      BY <2>3 DEF Move, Types
    <3>2. [l EXCEPT !.pc = to] \in Link BY <2>1 DEF Link
    <3>. QED BY <2>0, <2>3, <3>1, <3>2, OneLink
  <2>4. CASE Dial(a, h)
    <3>. DEFINE new == [pc |-> "frame", late |-> a \in revoked, entitled |-> bound[h] = a]
    <3>1. (a \in revoked) \in BOOLEAN /\ (bound[h] = a) \in BOOLEAN OBVIOUS
    <3>2. new \in Link BY <3>1 DEF Link
    <3>3. /\ new.pc = "frame" /\ (new.late <=> a \in revoked) /\ (new.entitled <=> bound[h] = a)
      OBVIOUS
    <3>4. link' = [link EXCEPT ![a][h] = new] /\ UNCHANGED route /\ l.pc = "away"
      BY <2>4 DEF Dial
    <3>. HIDE DEF new
    <3>5. MetBy(a, h, new) BY <3>3 DEF MetBy
    <3>. QED BY <2>0, <3>2, <3>4, <3>5, OneLink
  <2>5. CASE VerifyKey(a, h)
    <3>0. l.pc = "frame" /\ UNCHANGED route BY <2>5 DEF VerifyKey, Move
    <3>1. CASE a \in revoked BY <2>2, <2>5, <3>0, <3>1 DEF VerifyKey
    <3>2. CASE a \notin revoked
      <4>1. MetBy(a, h, [l EXCEPT !.pc = "known"]) BY <2>1, <3>0, <3>2 DEF MetBy, Link
      <4>. QED BY <2>3, <2>5, <3>0, <3>2, <4>1 DEF VerifyKey
    <3>. QED BY <3>1, <3>2
  <2>6. CASE VerifyHost(a, h)
    <3>0. l.pc = "known" /\ UNCHANGED route BY <2>6 DEF VerifyHost, Move
    <3>1. CASE bound[h] # a BY <2>2, <2>6, <3>0, <3>1 DEF VerifyHost
    <3>2. CASE bound[h] = a
      <4>1. MetBy(a, h, [l EXCEPT !.pc = "verified"]) BY <2>1, <3>0, <3>2 DEF MetBy, Link
      <4>. QED BY <2>3, <2>6, <3>0, <3>2, <4>1 DEF VerifyHost
    <3>. QED BY <3>1, <3>2
  <2>7. CASE Register(a, h) BY <2>7, RegisterKeeps
  <2>8. CASE CloseDisplaced(a, h) BY <2>2, <2>8 DEF CloseDisplaced
  <2>9. CASE LinkLost(a, h) BY <2>2, <2>9 DEF LinkLost
  <2>. QED BY <1>5, <2>4, <2>5, <2>6, <2>7, <2>8, <2>9 DEF AgentStep
<1>6. CASE UNCHANGED vars
  BY <1>2, <1>6 DEF vars, rows, proxy
<1>. QED BY <1>1, <1>3, <1>4, <1>5, <1>6 DEF Next

-----------------------------------------------------------------------------
LEMMA InvNext == Inv /\ [Next]_vars => Inv'
BY TypesStep, CallPartsStep, KeysStep, LinksStep DEF Inv, CallParts, LinkParts

\* The invariant of calls, keys and connections is inductive.
THEOREM Inductive == Spec => []Inv
BY InvInit, InvNext, PTL DEF Spec

\* The rows, keys, calls and connections stay well formed, and a row's lock is only ever
\* with a Bind between its update and its commit, whatever fails (subdomains Bind).
THEOREM TypeCorrect == Spec => []TypeOK
<1>1. Inv => TypeOK BY DEF Inv, Types, Locks, CallRow, Link, TypeOK
<1>. QED BY <1>1, Inductive, PTL

\* A device that serves a host was not revoked when it dialled and was bound to the host at
\* some time since, for any number of agents and calls (verifyDevice, Registry.Set).
THEOREM RoutesWereEntitled == Spec => []RouteWasEntitled
<1>1. Inv => RouteWasEntitled
  <2>. SUFFICES ASSUME Inv, NEW h \in Hosts, route[h] # None
                PROVE  LET l == link[route[h]][h] IN l.pc = "serving" /\ l.entitled /\ ~l.late
    BY DEF RouteWasEntitled
  <2>1. route[h] \in Agents BY DEF Inv, Types
  <2>2. link[route[h]][h].pc = "serving" BY DEF Inv, Routed
  <2>. QED BY <2>1, <2>2 DEF Inv, Met
<1>. QED BY <1>1, Inductive, PTL

\* With no call in flight a live key is that of the Bind that committed last, but for the
\* gaps that are named (subdomains Bind, Unbind, Delete; devices Revoke).
THEOREM LiveKeysAreLastBinds == Spec => []LiveKeyIsLastBind
<1>1. Inv => LiveKeyIsLastBind
  <2>. SUFFICES ASSUME Inv, Quiet, NEW h \in Hosts \ gaps
                PROVE  live[h] \in {None, bound[h]} \cup revoked
    BY DEF LiveKeyIsLastBind
  <2>1. \A c \in Calls : ~Cleans(c, h) /\ ~Commits(c, h)
    BY DEF Quiet, Cleans, Commits, At, Idle
  <2>. QED BY <2>1 DEF Inv, Keys, KeyFits
<1>. QED BY <1>1, Inductive, PTL

-----------------------------------------------------------------------------
(* HostNames.                                                              *)

\* What the two kinds of names are: sequences of labels, told apart by their length.
LEMMA NameSeqs ==
    /\ \A f \in Fqdns : f \in Seq(Labels) /\ Len(f) \in Nat /\ Len(f) >= 2
    /\ \A p \in Prefixes : p \in Seq(Labels) /\ Len(p) \in {0, 1}
<1>1. ASSUME NEW f \in Fqdns
      PROVE  f \in Seq(Labels) /\ Len(f) \in Nat /\ Len(f) >= 2
  <2>1. PICK n \in 2..MaxLabels : f \in [1..n -> Labels] BY <1>1 DEF Fqdns
  <2>. QED BY <2>1, NameBoundsAreNat
<1>2. ASSUME NEW p \in Prefixes
      PROVE  p \in Seq(Labels) /\ Len(p) \in {0, 1}
  <2>1. PICK n \in 0..1 : p \in [1..n -> Labels] BY <1>2 DEF Prefixes
  <2>. QED BY <2>1
<1>. QED BY <1>1, <1>2

\* A parent of a domain, of two labels or more, is a domain's name.
LEMMA ZonesAreFqdns ==
    ASSUME NEW f \in Fqdns, NEW i \in 0..(Len(f) - 2)
    PROVE  From(f, i) \in Fqdns
<1>1. PICK n \in 2..MaxLabels : f \in [1..n -> Labels] BY DEF Fqdns
<1>2. Len(f) = n BY <1>1, NameBoundsAreNat
<1>3. From(f, i) \in [1..(n - i) -> Labels] /\ n - i \in 2..MaxLabels
  BY <1>1, <1>2, NameBoundsAreNat DEF From
<1>. QED BY <1>3 DEF Fqdns

\* The records of a guide are at names.
LEMMA GuideNames ==
    ASSUME NEW f \in Fqdns, NEW z \in Fqdns, NEW r \in Guide(f, z) \cup Proofs(f)
    PROVE  r[1] \in Seq(Labels \cup {Osm, Star})
<1>. DEFINE S == Labels \cup {Osm, Star}
<1>1. /\ f \in Seq(S) /\ z \in Seq(S) /\ <<Osm>> \in Seq(S) /\ <<Star>> \in Seq(S)
      /\ <<>> \in Seq(S)
  <2>1. f \in Seq(S) /\ z \in Seq(S) BY NameSeqs, SeqMonotonic
  <2>. QED BY <2>1
<1>. HIDE DEF S
<1>2. /\ <<>> \o z \in Seq(S) /\ <<Star>> \o z \in Seq(S)
      /\ <<Osm>> \o z \in Seq(S) /\ <<Osm>> \o f \in Seq(S)
  BY <1>1, ConcatProperties
<1>3. r[1] \in {<<>> \o z, <<Star>> \o z, <<Osm>> \o z, <<Osm>> \o f, f}
  BY DEF Guide, Proofs, OldGuide, InZone
<1>. QED BY <1>1, <1>2, <1>3 DEF S

\* Type correctness: the rows are prefixes of verified domains, which are registered
\* (domains Create, subdomains Create, the cascade of a domain's Delete).
THEOREM NamesTypeCorrect == NamesSpec => []NamesTypeOK
<1>1. NamesInit => NamesTypeOK BY DEF NamesInit, NamesTypeOK
<1>2. NamesTypeOK /\ [NamesNext]_names => NamesTypeOK'
  <2>. SUFFICES ASSUME NamesTypeOK, [NamesNext]_names PROVE NamesTypeOK' OBVIOUS
  <2>. USE DEF NamesTypeOK
  <2>1. ASSUME NEW f \in Fqdns, RegisterDomain(f) PROVE NamesTypeOK'
    BY <2>1 DEF RegisterDomain
  <2>2. ASSUME NEW f \in Fqdns, AddRecord(f) PROVE NamesTypeOK'
    <3>1. PICK i \in 0..(Len(f) - 2) : \E r \in Guide(f, From(f, i)) \cup Proofs(f) :
              records' = records \cup {r}
      BY <2>2 DEF AddRecord
    <3>2. From(f, i) \in Fqdns BY ZonesAreFqdns
    <3>3. PICK r \in Guide(f, From(f, i)) \cup Proofs(f) : records' = records \cup {r}
      BY <3>1
    <3>4. r[1] \in Seq(Labels \cup {Osm, Star}) BY <3>2, GuideNames
    <3>. QED BY <2>2, <3>3, <3>4 DEF AddRecord
  <2>3. ASSUME NEW f \in Fqdns, VerifyDomain(f) PROVE NamesTypeOK'
    BY <2>3 DEF VerifyDomain
  <2>4. ASSUME NEW f \in Fqdns, NEW p \in Prefixes, CreateSubdomainRow(p, f)
        PROVE  NamesTypeOK'
    BY <2>4 DEF CreateSubdomainRow
  <2>5. ASSUME NEW f \in Fqdns, DeleteDomainRow(f) PROVE NamesTypeOK'
    BY <2>5 DEF DeleteDomainRow
  <2>6. ASSUME NEW r \in records, RemoveRecord(r) PROVE NamesTypeOK'
    BY <2>6 DEF RemoveRecord
  <2>7. CASE UNCHANGED names BY <2>7 DEF names
  <2>. QED BY <2>1, <2>2, <2>3, <2>4, <2>5, <2>6, <2>7 DEF NamesNext
<1>. QED BY <1>1, <1>2, PTL DEF NamesSpec

\* A split of a host is two names that make the host when they are joined.
LEMMA SplitJoins ==
    ASSUME NEW host \in Seq(Labels), NEW s \in Splits(host), s[1] \in Seq(Labels),
           s[2] \in Seq(Labels)
    PROVE  s[1] \o s[2] = host
<1>1. PICK i \in 0..(Len(host) - 1) : s = <<UpTo(host, i), From(host, i)>> BY DEF Splits
<1>2. Len(s[1]) = i /\ \A j \in 1..i : s[1][j] = host[j]
  BY <1>1 DEF UpTo
<1>3. Len(s[2]) = Len(host) - i /\ \A j \in 1..(Len(host) - i) : s[2][j] = host[i + j]
  BY <1>1 DEF From
<1>. DEFINE t == s[1] \o s[2]
<1>0. Len(host) \in Nat BY LenProperties
<1>4. t \in Seq(Labels) /\ Len(t) = Len(s[1]) + Len(s[2])
  BY ConcatProperties
<1>5. \A j \in 1..Len(t) : t[j] = IF j <= Len(s[1]) THEN s[1][j] ELSE s[2][j - Len(s[1])]
  BY <1>4, ConcatProperties
<1>. HIDE DEF t
<1>8. Len(t) = Len(host) BY <1>0, <1>2, <1>3, <1>4
<1>6. ASSUME NEW j \in 1..Len(t) PROVE t[j] = host[j]
  <2>1. CASE j <= i BY <1>2, <1>5, <2>1
  <2>2. CASE ~(j <= i)
    <3>1. j - i \in 1..(Len(host) - i) /\ i + (j - i) = j BY <1>0, <1>8, <2>2
    <3>. QED BY <1>2, <1>3, <1>5, <2>2, <3>1
  <2>. QED BY <2>1, <2>2
<1>7. t = host BY <1>4, <1>6, <1>8, SeqEqual
<1>. QED BY <1>7 DEF t

\* Rows of two domains share a host only if the domains nest (hostBoundToDevice).
THEOREM RowsClashOnlyIfNested == NamesSpec => []RowsClashIfNested
<1>1. ASSUME NamesTypeOK PROVE RowsClashIfNested
  <2>. SUFFICES ASSUME NEW r \in subs, NEW s \in subs, r # s, s \in Splits(HostOf(r))
                PROVE  Nested(r, s) \/ Nested(s, r)
    BY DEF RowsClashIfNested
  <2>1. PICK p \in Prefixes, f \in Fqdns : r = <<p, f>> BY <1>1 DEF NamesTypeOK
  <2>2. PICK q \in Prefixes, g \in Fqdns : s = <<q, g>> BY <1>1 DEF NamesTypeOK
  <2>3. /\ p \in Seq(Labels) /\ q \in Seq(Labels) /\ f \in Seq(Labels) /\ g \in Seq(Labels)
        /\ Len(p) \in {0, 1} /\ Len(q) \in {0, 1}
    BY NameSeqs
  <2>4. q \o g = p \o f
    <3>1. HostOf(r) = p \o f /\ s[1] = q /\ s[2] = g BY <2>1, <2>2 DEF HostOf
    <3>2. HostOf(r) \in Seq(Labels) BY <2>3, <3>1, ConcatProperties
    <3>. QED BY <2>3, <3>1, <3>2, SplitJoins
  <2>6. Len(p) # Len(q)
    <3>1. ASSUME Len(p) = Len(q) PROVE p = q
      <4>1. \A j \in 1..Len(p) : (p \o f)[j] = p[j] /\ (q \o g)[j] = q[j]
        BY <2>3, <3>1, ConcatProperties
      <4>. QED BY <2>3, <2>4, <3>1, <4>1, SeqEqual
    <3>2. ASSUME p = q PROVE f = g
      <4>1. p \o f = p \o g BY <2>4, <3>2
      <4>. QED BY <2>3, <4>1, ConcatSimplifications
    <3>. QED BY <2>1, <2>2, <3>1, <3>2
  <2>7. CASE Len(p) = 0 /\ Len(q) = 1
    <3>1. p = <<>> BY <2>3, <2>7, EmptySeq
    <3>0. q # <<>> BY <2>7
    <3>2. p \o f = f BY <2>3, <3>1, ConcatEmptySeq
    <3>. QED BY <2>1, <2>2, <2>4, <3>0, <3>1, <3>2 DEF Nested
  <2>8. CASE Len(p) = 1 /\ Len(q) = 0
    <3>1. q = <<>> BY <2>3, <2>8, EmptySeq
    <3>0. p # <<>> BY <2>8
    <3>2. q \o g = g BY <2>3, <3>1, ConcatEmptySeq
    <3>. QED BY <2>1, <2>2, <2>4, <3>0, <3>1, <3>2 DEF Nested
  <2>. QED BY <2>3, <2>6, <2>7, <2>8
<1>. QED BY <1>1, NamesTypeCorrect, PTL

\* TunnelStart names the row of the tunnel exactly for domains of two labels (splitHost).
THEOREM SplitHostFinds == NamesSpec => []SplitFindsTwoLabels
<1>1. ASSUME NamesTypeOK PROVE SplitFindsTwoLabels
  <2>. SUFFICES ASSUME NEW r \in subs
                PROVE  SplitHost(HostOf(r)) = r <=> Len(r[2]) = 2
    BY DEF SplitFindsTwoLabels
  <2>1. PICK p \in Prefixes, f \in Fqdns : r = <<p, f>> BY <1>1 DEF NamesTypeOK
  <2>2. /\ p \in Seq(Labels) /\ f \in Seq(Labels)
        /\ Len(p) \in {0, 1} /\ Len(f) \in Nat /\ Len(f) >= 2
    BY NameSeqs
  <2>. DEFINE h == p \o f
  <2>3. HostOf(r) = h BY <2>1 DEF HostOf
  <2>4. h \in Seq(Labels) /\ Len(h) = Len(p) + Len(f)
    BY <2>2, ConcatProperties
  <2>8. \A j \in 1..Len(h) : h[j] = IF j <= Len(p) THEN p[j] ELSE f[j - Len(p)]
    BY <2>2, ConcatProperties
  <2>5. p = <<>> => h = f BY <2>2, ConcatEmptySeq
  <2>. HIDE DEF h
  <2>6. CASE Len(h) < 3
    <3>0. Len(p) + Len(f) < 3 BY <2>4, <2>6
    <3>4. \A m \in {0, 1}, n \in Nat : n >= 2 /\ m + n < 3 => m = 0 /\ n = 2 OBVIOUS
    <3>1. Len(p) = 0 /\ Len(f) = 2 BY <2>2, <3>0, <3>4
    <3>2. p = <<>> BY <2>2, <3>1, EmptySeq
    <3>3. SplitHost(h) = <<<<>>, h>> BY <2>6 DEF SplitHost
    <3>. QED BY <2>1, <2>3, <2>5, <3>1, <3>2, <3>3
  <2>7. CASE Len(h) >= 3
    <3>1. SplitHost(h) = <<UpTo(h, Len(h) - 2), From(h, Len(h) - 2)>>
      BY <2>4, <2>7 DEF SplitHost
    <3>2. Len(From(h, Len(h) - 2)) = 2
      <4>1. Len(h) - (Len(h) - 2) = 2 BY <2>4
      <4>2. From(h, Len(h) - 2) = [j \in 1..2 |-> h[Len(h) - 2 + j]] BY <4>1 DEF From
      <4>. QED BY <4>2
    <3>3. ASSUME Len(f) = 2 PROVE UpTo(h, Len(h) - 2) = p /\ From(h, Len(h) - 2) = f
      <4>1. Len(h) - 2 = Len(p) /\ Len(h) - Len(p) = 2 BY <2>2, <2>4, <3>3
      <4>2. p = [j \in 1..Len(p) |-> p[j]] /\ f = [j \in 1..2 |-> f[j]]
        BY <2>2, <3>3, LenProperties
      <4>3. \A j \in 1..Len(p) : h[j] = p[j] BY <2>2, <2>4, <2>8
      <4>4. \A j \in 1..2 : h[Len(p) + j] = f[j]
        <5>. SUFFICES ASSUME NEW j \in 1..2 PROVE h[Len(p) + j] = f[j] OBVIOUS
        <5>1. Len(p) + j \in 1..Len(h) /\ ~(Len(p) + j <= Len(p)) /\ Len(p) + j - Len(p) = j
          BY <2>2, <2>4, <3>3
        <5>. QED BY <2>8, <5>1
      <4>5. UpTo(h, Len(p)) = p BY <4>2, <4>3 DEF UpTo
      <4>6. From(h, Len(p)) = f BY <4>1, <4>2, <4>4 DEF From
      <4>. QED BY <4>1, <4>5, <4>6
    <3>. QED BY <2>1, <2>3, <3>1, <3>2, <3>3
  <2>. QED BY <2>2, <2>4, <2>6, <2>7
<1>. QED BY <1>1, NamesTypeCorrect, PTL

\* The guide's records, typed for g into the zone z, prove f only if both are f.
LEMMA GuideVerifies ==
    ASSUME NEW f \in Fqdns, NEW g \in Fqdns, NEW z \in Fqdns,
           Guide(g, z) \cap Proofs(f) # {}
    PROVE  g = f /\ z = f
<1>. DEFINE S == Labels \cup {Osm, Star}
<1>1. /\ f \in Seq(Labels) /\ g \in Seq(Labels) /\ z \in Seq(Labels)
      /\ Len(f) \in Nat /\ Len(f) >= 2
  BY NameSeqs
<1>2. /\ f \in Seq(S) /\ z \in Seq(S) /\ <<Osm>> \in Seq(S) /\ <<Star>> \in Seq(S)
  <2>1. f \in Seq(S) /\ z \in Seq(S) BY <1>1, SeqMonotonic
  <2>. QED BY <2>1
<1>3. f # Here /\ Cname # Here /\ Cname # g
  <2>1. Here \in Seq(Labels) /\ Len(Here) = 0 BY DEF Here
  <2>2. f # Here BY <1>1, <2>1
  <2>3. \A s \in Seq(Labels) : Cname # s BY CnameIsNoName
  <2>. QED BY <1>1, <2>1, <2>2, <2>3
<1>4. f[1] # Osm
  <2>1. f[1] \in Labels BY <1>1, ElementOfSeq
  <2>. QED BY <2>1, MarksAreNoLabels
<1>5. (<<Osm>> \o z)[1] = Osm BY <1>2, ConcatProperties
<1>6. <<<<Osm>> \o f, f>> = <<<<Osm>> \o z, g>> \/ <<f, f>> = <<<<Osm>> \o z, g>>
  BY <1>3 DEF Guide, InZone, Proofs, OldGuide
<1>7. <<f, f>> # <<<<Osm>> \o z, g>> BY <1>4, <1>5
<1>8. <<Osm>> \o f = <<Osm>> \o z /\ f = g BY <1>6, <1>7
<1>. HIDE DEF S
<1>9. f = z BY <1>2, <1>8, ConcatSimplifications
<1>. QED BY <1>8, <1>9

\* A host of a domain lies one label below it.
LEMMA HostBelow ==
    ASSUME NEW p \in Prefixes, Len(p) = 1, NEW f \in Fqdns
    PROVE  /\ Len(p \o f) \in Nat /\ Len(p \o f) >= 1
           /\ From(p \o f, 0) = p \o f /\ From(p \o f, 1) = f
<1>. DEFINE h == p \o f
<1>1. p \in Seq(Labels) /\ f \in Seq(Labels) BY NameSeqs
<1>2. h \in Seq(Labels) /\ Len(h) = 1 + Len(f) /\ Len(f) \in Nat
  BY <1>1, ConcatProperties, LenProperties
<1>3. \A j \in 1..Len(f) : h[1 + j] = f[j]
  <2>. SUFFICES ASSUME NEW j \in 1..Len(f) PROVE h[1 + j] = f[j] OBVIOUS
  <2>1. 1 + j \in 1..(Len(p) + Len(f)) /\ ~(1 + j <= Len(p)) /\ 1 + j - Len(p) = j
    BY <1>2
  <2>2. \A i \in 1..(Len(p) + Len(f)) :
           h[i] = IF i <= Len(p) THEN p[i] ELSE f[i - Len(p)]
    BY <1>1, ConcatProperties
  <2>. HIDE DEF h
  <2>3. h[1 + j] = IF 1 + j <= Len(p) THEN p[1 + j] ELSE f[1 + j - Len(p)] BY <2>1, <2>2
  <2>. QED BY <2>1, <2>3
<1>4. f = [j \in 1..Len(f) |-> f[j]] BY <1>1, LenProperties
<1>. HIDE DEF h
<1>5. h = [j \in 1..Len(h) |-> h[j]] BY <1>2, LenProperties
<1>6. Len(h) - 1 = Len(f) /\ Len(h) - 0 = Len(h) BY <1>2
<1>7. From(h, 1) = f BY <1>3, <1>4, <1>6 DEF From
<1>8. From(h, 0) = h
  <2>1. \A j \in 1..Len(h) : 0 + j = j BY <1>2
  <2>. QED BY <1>5, <1>6, <2>1 DEF From
<1>. QED BY <1>2, <1>7, <1>8 DEF h

\* A record makes its own name exist.
LEMMA OwnNameExists ==
    ASSUME NEW f \in Fqdns, NEW d, <<f, d>> \in records
    PROVE  Exists(f)
<1>1. f \in Seq(Labels) /\ Len(f) \in Nat BY NameSeqs
<1>2. f = [j \in 1..Len(f) |-> f[j]] BY <1>1, LenProperties
<1>3. Len(f) - 0 = Len(f) /\ \A j \in 1..Len(f) : 0 + j = j BY <1>1
<1>4. From(f, 0) = f BY <1>2, <1>3 DEF From
<1>5. 0 \in 0..Len(f) BY <1>1
<1>. QED BY <1>4, <1>5 DEF Exists

\* A complete guide leads each host of its domain to the proxy.
LEMMA GuideResolves ==
    ASSUME NEW p \in Prefixes, NEW f \in Fqdns, Complete(f)
    PROVE  LeadsHere(p \o f)
<1>1. p \in Seq(Labels) /\ f \in Seq(Labels) /\ Len(p) \in {0, 1} BY NameSeqs
<1>2. <<f, Here>> \in records /\ <<<<Star>> \o f, Here>> \in records
  BY <1>1, ConcatEmptySeq DEF Complete, Guide, InZone
<1>3. CASE Len(p) = 0
  <2>1. p = <<>> BY <1>1, <1>3, EmptySeq
  <2>2. p \o f = f BY <1>1, <2>1, ConcatEmptySeq
  <2>. QED BY <1>2, <2>2 DEF LeadsHere, Resolves, DataAt
<1>4. CASE Len(p) = 1
  <2>. DEFINE h == p \o f
  <2>0. h \in Seq(Labels) BY <1>1, ConcatProperties
  <2>1. Len(h) \in Nat /\ Len(h) >= 1 /\ From(h, 0) = h /\ From(h, 1) = f
    BY <1>4, HostBelow
  <2>. HIDE DEF h
  <2>2. ASSUME Exists(h) PROVE LeadsHere(h)
    <3>1. ASSUME Complete(h) PROVE Resolves(h)
      <4>1. <<h, Here>> \in records BY <2>0, <3>1, ConcatEmptySeq DEF Complete, Guide, InZone
      <4>. QED BY <4>1 DEF Resolves, DataAt
    <3>. QED BY <2>2, <3>1 DEF LeadsHere
  <2>3. ASSUME ~Exists(h) PROVE LeadsHere(h)
    <3>1. Exists(From(h, 1)) BY <1>2, <2>1, OwnNameExists
    <3>2. \A j \in 0..(1 - 1) : ~Exists(From(h, j)) BY <2>1, <2>3
    <3>0. Here \in DataAt(<<Star>> \o f) BY <1>2 DEF DataAt
    <3>3. DataAt(<<Star>> \o From(h, 1)) \cap {Here, Cname} # {}
      BY <2>1, <3>0
    <3>4. 1 \in 1..Len(h) BY <2>1
    <3>5. Resolves(h) BY <3>1, <3>2, <3>3, <3>4 DEF Resolves
    <3>. QED BY <3>5 DEF LeadsHere
  <2>. QED BY <2>2, <2>3 DEF h
<1>. QED BY <1>1, <1>3, <1>4

\* The guides and checkRecords agree on the names: what is added as they say verifies the
\* domain it is for and no other, and leads its hosts to the proxy.
THEOREM HostsLeadHere == NamesSpec => []GuideLeadsHere
<1>1. ASSUME NamesTypeOK PROVE GuideLeadsHere
  <2>. SUFFICES ASSUME NEW f \in registered
                PROVE  /\ Complete(f) => CheckRecords(f) /\ \A p \in Prefixes : LeadsHere(p \o f)
                       /\ OldGuide(f) \subseteq records => CheckRecords(f) /\ Resolves(f)
                       /\ \A g \in registered : \A i \in 0..(Len(g) - 2) :
                              <<g, From(g, i)>> # <<f, f>> =>
                                  Guide(g, From(g, i)) \cap Proofs(f) = {}
    BY DEF GuideLeadsHere
  <2>0. \A g \in registered : g \in Fqdns BY <1>1 DEF NamesTypeOK
  <2>1. ASSUME Complete(f)
        PROVE  CheckRecords(f) /\ \A p \in Prefixes : LeadsHere(p \o f)
    <3>1. <<<<Osm>> \o f, f>> \in records BY <2>1 DEF Complete, Guide, InZone
    <3>2. CheckRecords(f) BY <3>1 DEF CheckRecords, Proofs, OldGuide
    <3>. QED BY <2>0, <2>1, <3>2, GuideResolves
  <2>2. ASSUME OldGuide(f) \subseteq records PROVE CheckRecords(f) /\ Resolves(f)
    <3>1. <<f, Cname>> \in records BY <2>2 DEF OldGuide
    <3>2. CheckRecords(f) BY <3>1 DEF CheckRecords, Proofs, OldGuide
    <3>3. Cname \in DataAt(f) BY <3>1 DEF DataAt
    <3>. QED BY <3>2, <3>3 DEF Resolves
  <2>3. ASSUME NEW g \in registered, NEW i \in 0..(Len(g) - 2),
               <<g, From(g, i)>> # <<f, f>>
        PROVE  Guide(g, From(g, i)) \cap Proofs(f) = {}
    BY <2>0, <2>3, ZonesAreFqdns, GuideVerifies
  <2>. QED BY <2>1, <2>2, <2>3
<1>. QED BY <1>1, NamesTypeCorrect, PTL
===============================================================================
