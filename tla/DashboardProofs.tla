----------------------------- MODULE DashboardProofs -----------------------------
(***************************************************************************)
(* Proofs about the dashboard's pages, its socket and the plan editor, for *)
(* any devices, administrators and bounds.                                 *)
(***************************************************************************)
EXTENDS MCWebData, SequenceTheorems, TLAPS

-----------------------------------------------------------------------------
(* The plan editor.                                                        *)

Loading == {[step |-> "no"], [step |-> "asked"]} \cup [step : {"read"}, row : PlanRow]
PlanTypes ==
    /\ plan \in PlanRow /\ copy \in [Admins -> PlanRow] /\ form \in [Admins -> Form]
    /\ edited \in [Admins -> SUBSET Fields]
    /\ saving \in [Admins -> [step : {"no", "sent", "done", "failed"}, form : Form]]
    /\ loading \in [Admins -> Loading]

\* A copy of the row, and one on its way, is no newer than the row; and with one
\* updated_at there is one row.
PlanVersions ==
    /\ \A a \in Admins :
         /\ copy[a].at <= plan.at /\ (copy[a].at = plan.at => copy[a] = plan)
         /\ loading[a].step = "read" =>
              /\ loading[a].row.at <= plan.at
              /\ loading[a].row.at = plan.at => loading[a].row = plan
              /\ loading[a].row.at = copy[a].at => loading[a].row = copy[a]

PlanInv == PlanTypes /\ PlanVersions /\ UntouchedIsShown

LEMMA SeedTyped == \A row \in PlanRow : Seed(row) \in Form
<1>. SUFFICES ASSUME NEW row \in PlanRow PROVE Seed(row) \in Form OBVIOUS
<1>1. PICK r \in Rupees : row.cents = 100 * r BY DEF PlanRow
<1>2. r \in Nat BY PlanValues
<1>3. (100 * r + 50) \div 100 = r BY <1>2
<1>4. row.devices \in Limits BY DEF PlanRow
<1>. QED BY <1>1, <1>3, <1>4 DEF Seed, InRupees, Form

LEMMA PlanInvInit == PlanInit => PlanInv
<1>. SUFFICES ASSUME PlanInit PROVE PlanInv OBVIOUS
<1>. USE DEF PlanInit
<1>1. plan \in PlanRow OBVIOUS
<1>2. Seed(plan) \in Form BY <1>1, SeedTyped
<1>3. PlanTypes BY <1>1, <1>2 DEF PlanTypes, Loading, NoSave
<1>4. plan.at = 0 BY DEF PlanRow
<1>5. PlanVersions BY <1>4 DEF PlanVersions
<1>6. UntouchedIsShown BY DEF UntouchedIsShown
<1>. QED BY <1>3, <1>5, <1>6 DEF PlanInv

LEMMA PlanInvNext == PlanInv /\ [PlanNext]_planVars => PlanInv'
<1>. SUFFICES ASSUME PlanInv, [PlanNext]_planVars PROVE PlanInv' OBVIOUS
<1>. PlanTypes BY DEF PlanInv
<1>0. \A row \in PlanRow : row.at \in Nat BY PlanValues DEF PlanRow
<1>1. ASSUME UNCHANGED <<plan, copy, loading>>, PlanTypes', UntouchedIsShown' PROVE PlanInv'
  BY <1>1 DEF PlanInv, PlanVersions
<1>2. ASSUME NEW a \in Admins, Edit(a) PROVE PlanInv'
  <2>1. PICK f \in Fields :
           /\ edited' = [edited EXCEPT ![a] = @ \union {f}]
           /\ IF f = "price"
              THEN \E r \in Rupees : form' = [form EXCEPT ![a].price = r]
              ELSE \E n \in Limits : form' = [form EXCEPT ![a].devices = n]
    BY <1>2 DEF Edit
  <2>2. UNCHANGED <<plan, copy, saving, loading>> BY <1>2 DEF Edit
  <2>3. edited' \in [Admins -> SUBSET Fields] BY <2>1 DEF PlanTypes
  <2>4. \A b \in Admins : form[b] \in Form BY DEF PlanTypes
  <2>5. form' \in [Admins -> Form] BY <2>1, <2>4 DEF PlanTypes, Form, Fields
  <2>6. PlanTypes' BY <2>2, <2>3, <2>5 DEF PlanTypes
  <2>7. \A b \in Admins : b # a => form'[b] = form[b] /\ edited'[b] = edited[b]
    BY <2>1 DEF PlanTypes, Fields
  <2>8. edited'[a] = edited[a] \cup {f} BY <2>1 DEF PlanTypes
  <2>9. \A g \in Fields \ {f} : form'[a][g] = form[a][g]
    BY <2>1, <2>4 DEF PlanTypes, Form, Fields
  <2>10. UntouchedIsShown' BY <2>2, <2>7, <2>8, <2>9 DEF UntouchedIsShown, PlanInv
  <2>. QED BY <1>1, <2>2, <2>6, <2>10
<1>3. ASSUME NEW a \in Admins, HandleSave(a) \/ SaveFails(a) PROVE PlanInv'
  <2>1. UNCHANGED <<plan, copy, loading, form, edited>> BY <1>3 DEF HandleSave, SaveFails
  <2>2. \A b \in Admins : form[b] \in Form /\ saving[b] \in [step : {"no", "sent", "done", "failed"}, form : Form]
    BY DEF PlanTypes
  <2>3. saving' \in [Admins -> [step : {"no", "sent", "done", "failed"}, form : Form]]
    BY <1>3, <2>2 DEF HandleSave, SaveFails, PlanTypes
  <2>4. PlanTypes' BY <2>1, <2>3 DEF PlanTypes
  <2>5. UntouchedIsShown' BY <2>1 DEF UntouchedIsShown, PlanInv
  <2>. QED BY <1>1, <2>1, <2>4, <2>5
<1>4. ASSUME NEW a \in Admins, UpdatePlan(a) PROVE PlanInv'
  <2>1. saving[a] \in [step : {"no", "sent", "done", "failed"}, form : Form] BY DEF PlanTypes
  <2>2. plan.at \in 0..MaxSaves /\ plan.at < MaxSaves BY <1>4 DEF UpdatePlan, PlanTypes, PlanRow
  <2>3. /\ plan' = [cents |-> InCents(saving[a].form.price),
                    devices |-> saving[a].form.devices, at |-> plan.at + 1]
        /\ UNCHANGED <<copy, form, edited, loading>>
    BY <1>4 DEF UpdatePlan
  <2>4. saving[a].form.price \in Rupees /\ saving[a].form.devices \in Limits BY <2>1 DEF Form
  <2>5. plan' \in PlanRow
    <3>1. plan.at + 1 \in 0..MaxSaves BY <2>2, PlanValues
    <3>. QED BY <2>3, <2>4, <3>1 DEF PlanRow, InCents
  <2>6. saving' \in [Admins -> [step : {"no", "sent", "done", "failed"}, form : Form]]
    BY <1>4, <2>1 DEF UpdatePlan, PlanTypes
  <2>7. PlanTypes' BY <2>3, <2>5, <2>6 DEF PlanTypes
  <2>8. PlanVersions'
    <3>1. \A b \in Admins : copy[b].at \in Nat /\ copy[b].at <= plan.at
      BY <1>0 DEF PlanTypes, PlanInv, PlanVersions
    <3>2. \A b \in Admins : loading[b].step = "read" =>
             /\ loading[b].row.at \in Nat /\ loading[b].row.at <= plan.at
             /\ loading[b].row.at = copy[b].at => loading[b].row = copy[b]
      <4>1. \A b \in Admins : loading[b].step = "read" => loading[b].row \in PlanRow
        BY DEF PlanTypes, Loading
      <4>. QED BY <1>0, <4>1 DEF PlanInv, PlanVersions
    <3>3. plan'.at = plan.at + 1 /\ plan.at \in Nat BY <2>2, <2>3
    <3>4. \A n \in Nat : n <= plan.at => n <= plan'.at /\ n # plan'.at BY <3>3
    <3>. QED BY <2>3, <3>1, <3>2, <3>4 DEF PlanVersions
  <2>9. UntouchedIsShown' BY <2>3 DEF UntouchedIsShown, PlanInv
  <2>. QED BY <2>7, <2>8, <2>9 DEF PlanInv
<1>5. ASSUME NEW a \in Admins, NEW l \in Loading, UNCHANGED <<plan, copy, form, edited>>,
             loading' = [loading EXCEPT ![a] = l], l.step # "read" \/ l.row = plan,
             saving' \in [Admins -> [step : {"no", "sent", "done", "failed"}, form : Form]]
      PROVE  PlanInv'
  <2>1. PlanTypes' BY <1>5 DEF PlanTypes
  <2>2. PlanVersions'
    <3>1. plan.at \in Nat BY <1>0 DEF PlanTypes
    <3>2. \A b \in Admins : loading'[b] = IF b = a THEN l ELSE loading[b] BY <1>5 DEF PlanTypes
    <3>. QED BY <1>5, <3>1, <3>2 DEF PlanInv, PlanVersions
  <2>3. UntouchedIsShown' BY <1>5 DEF UntouchedIsShown, PlanInv
  <2>. QED BY <2>1, <2>2, <2>3 DEF PlanInv
<1>6. ASSUME NEW a \in Admins, Saved(a) PROVE PlanInv'
  <2>1. Seed(copy[a]) \in Form BY SeedTyped DEF PlanTypes
  <2>2. saving' \in [Admins -> [step : {"no", "sent", "done", "failed"}, form : Form]]
    BY <1>6, <2>1 DEF Saved, NoSave, PlanTypes
  <2>3. CASE saving[a].step = "done"
    <3>1. loading' = [loading EXCEPT ![a] = [step |-> "asked"]] /\ UNCHANGED <<plan, copy, form, edited>>
      BY <1>6, <2>3 DEF Saved
    <3>2. [step |-> "asked"] \in Loading BY DEF Loading
    <3>. QED BY <1>5, <2>2, <3>1, <3>2
  <2>4. CASE saving[a].step # "done"
    <3>1. UNCHANGED <<plan, copy, form, edited, loading>> BY <1>6, <2>4 DEF Saved
    <3>2. PlanTypes' BY <2>2, <3>1 DEF PlanTypes
    <3>3. UntouchedIsShown' BY <3>1 DEF UntouchedIsShown, PlanInv
    <3>. QED BY <1>1, <3>1, <3>2, <3>3
  <2>. QED BY <2>3, <2>4
<1>7. ASSUME NEW a \in Admins, Refetch(a) PROVE PlanInv'
  <2>1. [step |-> "asked"] \in Loading BY DEF Loading
  <2>2. saving' \in [Admins -> [step : {"no", "sent", "done", "failed"}, form : Form]]
    BY <1>7 DEF Refetch, PlanTypes
  <2>. QED BY <1>5, <1>7, <2>1, <2>2 DEF Refetch
<1>8. ASSUME NEW a \in Admins, ReadPlan(a) PROVE PlanInv'
  <2>1. [step |-> "read", row |-> plan] \in Loading BY DEF Loading, PlanTypes
  <2>2. saving' \in [Admins -> [step : {"no", "sent", "done", "failed"}, form : Form]]
    BY <1>8 DEF ReadPlan, PlanTypes
  <2>. QED BY <1>5, <1>8, <2>1, <2>2 DEF ReadPlan
<1>9. ASSUME NEW a \in Admins, LandPlan(a) PROVE PlanInv'
  <2>. DEFINE row == loading[a].row
  <2>1. /\ row \in PlanRow /\ loading[a].step = "read"
        /\ copy' = [copy EXCEPT ![a] = row] /\ Reseed(a, row)
        /\ loading' = [loading EXCEPT ![a] = [step |-> "no"]] /\ UNCHANGED <<plan, saving>>
    BY <1>9 DEF LandPlan, PlanTypes, Loading
  <2>2. Seed(row) \in Form BY <2>1, SeedTyped
  <2>3. [step |-> "no"] \in Loading BY DEF Loading
  <2>4. /\ form' \in [Admins -> Form] /\ edited' \in [Admins -> SUBSET Fields]
        /\ \A b \in Admins : b # a => form'[b] = form[b] /\ edited'[b] = edited[b]
    BY <2>1, <2>2 DEF Reseed, PlanTypes
  <2>5. PlanTypes'
    <3>1. copy' \in [Admins -> PlanRow] /\ loading' \in [Admins -> Loading]
      BY <2>1, <2>3 DEF PlanTypes
    <3>. QED BY <2>1, <2>4, <3>1 DEF PlanTypes
  <2>6. /\ copy'[a] = row /\ loading'[a].step = "no"
        /\ \A b \in Admins : b # a => copy'[b] = copy[b] /\ loading'[b] = loading[b]
    BY <2>1 DEF PlanTypes
  <2>7. PlanVersions'
    <3>1. row.at <= plan.at /\ (row.at = plan.at => row = plan)
      BY <2>1 DEF PlanInv, PlanVersions
    <3>. QED BY <2>1, <2>6, <3>1 DEF PlanInv, PlanVersions
  <2>8. UntouchedIsShown'
    <3>1. CASE row.at = copy[a].at
      <4>1. row = copy[a] BY <2>1, <3>1 DEF PlanInv, PlanVersions
      <4>2. UNCHANGED <<form, edited>> BY <2>1, <3>1 DEF Reseed
      <4>3. copy' = copy BY <2>1, <4>1 DEF PlanTypes
      <4>. QED BY <4>2, <4>3 DEF UntouchedIsShown, PlanInv
    <3>2. CASE row.at # copy[a].at
      <4>1. form'[a] = Seed(row) BY <2>1, <3>2 DEF Reseed, PlanTypes
      <4>. QED BY <2>4, <2>6, <4>1 DEF UntouchedIsShown, PlanInv
    <3>. QED BY <3>1, <3>2
  <2>. QED BY <2>5, <2>7, <2>8 DEF PlanInv
<1>10. CASE UNCHANGED planVars
  BY <1>10 DEF planVars, PlanInv, PlanTypes, PlanVersions, UntouchedIsShown
<1>. QED BY <1>2, <1>3, <1>4, <1>6, <1>7, <1>8, <1>9, <1>10 DEF PlanNext

LEMMA PlanInductive == PlanSpec => []PlanInv
BY PlanInvInit, PlanInvNext, PTL DEF PlanSpec

\* A field that an administrator did not touch since the form was seeded holds what the
\* page's copy of the plan shows, for any number of administrators and saves: rows that
\* differ have updated_at's that differ (PlanEditor, useEffect).
THEOREM UntouchedFieldsAreShown == PlanSpec => []UntouchedIsShown
BY PlanInductive, PTL DEF PlanInv

-----------------------------------------------------------------------------
(* The socket.                                                             *)

Increasing(s) == \A i, j \in DOMAIN s : i < j => s[i] < s[j]
Precede(s, t) == \A i \in DOMAIN s, j \in DOMAIN t : s[i] < t[j]

ReadyStates == Live \union {"none", "closing", "closed"}
SocketTypes ==
    /\ listening \in BOOLEAN /\ opened \in 0..MaxSockets /\ timer \in BOOLEAN
    /\ ready \in [Sockets -> ReadyStates]
    /\ registered \in SUBSET Sockets
    /\ published \in 0..MaxEvents
    /\ out \in [Sockets -> Seq(1..published)]
    /\ seen \in Seq(1..published)

\* Of the sockets a tab has created the last alone may be alive; one that was never up has
\* no client in the hub, and nothing was sent to it.
LastIsLive ==
    \A s \in Sockets :
       /\ ready[s] = "none" <=> s > opened
       /\ ready[s] \in Live => s = opened
       /\ ready[s] \in {"none", "connecting"} => s \notin registered /\ out[s] = <<>>
       /\ Len(out[s]) <= Capacity

\* A channel holds its events in order, and that of an open socket later ones than those
\* seen.
ChannelsInOrder ==
    /\ \A s \in Sockets : Increasing(out[s])
    /\ \A s \in Sockets : ready[s] = "open" => Precede(seen, out[s])

SocketInv == /\ SocketTypes /\ LastIsLive /\ ChannelsInOrder
             /\ EventsInOrder /\ ReconnectArmed

LEMMA SocketBounds == MaxSockets \in Nat /\ MaxEvents \in Nat /\ Capacity \in Nat
BY RealtimeBounds

LEMMA SocketInvInit == RealtimeInit => SocketInv
<1>. SUFFICES ASSUME RealtimeInit PROVE SocketInv OBVIOUS
<1>. USE DEF RealtimeInit
<1>1. SocketTypes
  <2>1. <<>> \in Seq(1..published) BY EmptySeq
  <2>2. out \in [Sockets -> Seq(1..published)] /\ seen \in Seq(1..published) BY <2>1
  <2>3. ready \in [Sockets -> ReadyStates] BY DEF ReadyStates
  <2>4. opened \in 0..MaxSockets /\ published \in 0..MaxEvents BY SocketBounds
  <2>5. listening \in BOOLEAN /\ timer \in BOOLEAN /\ registered \in SUBSET Sockets OBVIOUS
  <2>. QED BY ONLY <2>2, <2>3, <2>4, <2>5 DEF SocketTypes
<1>2. LastIsLive BY SocketBounds DEF LastIsLive, Sockets, Live
<1>3. ChannelsInOrder /\ EventsInOrder /\ ReconnectArmed
  BY DEF ChannelsInOrder, Increasing, EventsInOrder, ReconnectArmed
<1>. QED BY <1>1, <1>2, <1>3 DEF SocketInv

\* The tab has a socket that is alive, or creates one, the last.
LEMMA EnsureSocketKeeps ==
    ASSUME SocketInv, EnsureSocket, listening' \in BOOLEAN, timer' \in BOOLEAN,
           UNCHANGED <<hubVars, seen>>
    PROVE  SocketInv'
<1>. SocketTypes /\ LastIsLive BY DEF SocketInv
<1>. UNCHANGED <<registered, out, published, seen>> BY DEF hubVars
<1>1. CASE opened > 0 /\ ready[opened] \in Live
  <2>1. UNCHANGED <<opened, ready>> BY <1>1 DEF EnsureSocket
  <2>2. ready[opened] # "closed" BY <1>1 DEF Live
  <2>3. SocketTypes' BY <2>1 DEF SocketTypes
  <2>4. LastIsLive' /\ ChannelsInOrder' /\ EventsInOrder'
    BY <2>1 DEF SocketInv, LastIsLive, ChannelsInOrder, EventsInOrder, Increasing, Precede
  <2>. QED BY <2>1, <2>2, <2>3, <2>4 DEF SocketInv, ReconnectArmed
<1>2. CASE ~(opened > 0 /\ ready[opened] \in Live)
  <2>. DEFINE n == opened + 1
  <2>1. /\ opened < MaxSockets /\ opened' = n /\ ready' = [ready EXCEPT ![n] = "connecting"]
    BY <1>2 DEF EnsureSocket
  <2>2. n \in Sockets /\ opened \in Nat BY <2>1, SocketBounds DEF SocketTypes, Sockets
  <2>3. SocketTypes'
    BY <2>1, <2>2, SocketBounds DEF SocketTypes, ReadyStates, Live, Sockets
  <2>4. ready[n] = "none" BY <2>2 DEF LastIsLive
  <2>5. \A s \in Sockets : ready'[s] = IF s = n THEN "connecting" ELSE ready[s]
    BY <2>1 DEF SocketTypes
  <2>6. \A s \in Sockets : ready[s] \notin Live
    <3>1. ASSUME NEW s \in Sockets, ready[s] \in Live PROVE FALSE
      <4>1. s = opened BY <3>1 DEF LastIsLive
      <4>. QED BY <1>2, <3>1, <4>1 DEF Sockets
    <3>. QED BY <3>1
  <2>7. LastIsLive'
    <3>. SUFFICES ASSUME NEW s \in Sockets
                  PROVE  /\ ready'[s] = "none" <=> s > opened'
                         /\ ready'[s] \in Live => s = opened'
                         /\ ready'[s] \in {"none", "connecting"} =>
                               s \notin registered' /\ out'[s] = <<>>
                         /\ Len(out'[s]) <= Capacity
      BY DEF LastIsLive
    <3>1. s > opened' <=> s > opened /\ s # n BY <2>1, <2>2 DEF Sockets
    <3>. QED BY <2>1, <2>4, <2>5, <2>6, <3>1 DEF LastIsLive
  <2>8. ChannelsInOrder' /\ EventsInOrder'
    BY <2>5 DEF SocketInv, ChannelsInOrder, EventsInOrder, Increasing, Precede
  <2>9. ready'[opened'] # "closed" BY <2>1, <2>2, <2>5
  <2>. QED BY <2>3, <2>7, <2>8, <2>9 DEF SocketInv, ReconnectArmed
<1>. QED BY <1>1, <1>2

\* Sockets that are up, or that end: none is created, and none comes up but the last.
LEMMA ReadyMoves ==
    ASSUME SocketInv, ready' \in [Sockets -> ReadyStates], timer' \in BOOLEAN,
           UNCHANGED <<listening, opened, hubVars, seen>>,
           \A s \in Sockets : /\ ready'[s] = "none" <=> ready[s] = "none"
                              /\ ready'[s] \in Live => ready'[s] = ready[s],
           ReconnectArmed'
    PROVE  SocketInv'
<1>. SocketTypes /\ LastIsLive BY DEF SocketInv
<1>. UNCHANGED <<registered, out, published, seen>> BY DEF hubVars
<1>1. SocketTypes' BY DEF SocketTypes
<1>2. LastIsLive' BY DEF LastIsLive, Live
<1>3. ChannelsInOrder' /\ EventsInOrder'
  BY DEF SocketInv, ChannelsInOrder, EventsInOrder, Increasing, Precede, Live
<1>. QED BY <1>1, <1>2, <1>3 DEF SocketInv

LEMMA SocketInvNext == SocketInv /\ [RealtimeNext]_realtimeVars => SocketInv'
<1>. SUFFICES ASSUME SocketInv, [RealtimeNext]_realtimeVars PROVE SocketInv' OBVIOUS
<1>. SocketTypes /\ LastIsLive BY DEF SocketInv
<1>1. CASE UseRealtime \/ Reconnect
  BY <1>1, EnsureSocketKeeps DEF UseRealtime, Reconnect, SocketTypes
<1>2. CASE Unmount
  <2>1. UNCHANGED <<opened, ready, timer, registered, out, published, seen>> /\ listening' \in BOOLEAN
    BY <1>2 DEF Unmount, hubVars
  <2>2. SocketTypes' BY <2>1 DEF SocketTypes
  <2>. QED BY <2>1, <2>2 DEF SocketInv, LastIsLive, ChannelsInOrder, EventsInOrder, Increasing, Precede,
                           ReconnectArmed
<1>3. CASE PublishTo
  <2>. DEFINE p == published + 1
  <2>1. /\ published < MaxEvents /\ published' = p
        /\ out' = [s \in Sockets |-> IF s \in registered /\ Len(out[s]) < Capacity
                                     THEN Append(out[s], p) ELSE out[s]]
        /\ UNCHANGED <<listening, opened, ready, timer, registered, seen>>
    BY <1>3 DEF PublishTo, socketVars
  <2>2. published \in Nat /\ p \in 0..MaxEvents /\ 1..published \subseteq 1..p /\ p \in 1..p
    BY <2>1, SocketBounds DEF SocketTypes
  <2>3. ASSUME NEW s \in Sockets, s \in registered, Len(out[s]) < Capacity
        PROVE  /\ out'[s] \in Seq(1..p) /\ Len(out'[s]) <= Capacity
               /\ Increasing(out'[s]) /\ (Precede(seen, out[s]) => Precede(seen, out'[s]))
    <3>1. out[s] \in Seq(1..published) /\ out'[s] = Append(out[s], p) BY <2>1, <2>3 DEF SocketTypes
    <3>2. out[s] \in Seq(1..p) /\ seen \in Seq(1..published) BY <2>2, <3>1, SeqMonotonic DEF SocketTypes
    <3>3. /\ out'[s] \in Seq(1..p) /\ Len(out'[s]) = Len(out[s]) + 1
          /\ \A i \in 1..Len(out[s]) : out'[s][i] = out[s][i]
          /\ out'[s][Len(out[s]) + 1] = p
      BY <2>2, <3>1, <3>2, AppendProperties
    <3>4. Len(out[s]) \in Nat /\ DOMAIN out[s] = 1..Len(out[s]) BY <3>1, LenProperties
    <3>5. DOMAIN out'[s] = 1..(Len(out[s]) + 1) BY <3>3, LenProperties
    <3>6. \A i \in 1..Len(out[s]) : out[s][i] \in Nat /\ out[s][i] < p
      <4>1. ASSUME NEW i \in 1..Len(out[s]) PROVE out[s][i] \in 1..published
        BY <3>1, ElementOfSeq
      <4>. QED BY <2>2, <4>1
    <3>7. \A i \in DOMAIN seen : seen[i] \in Nat /\ seen[i] < p
      <4>1. DOMAIN seen = 1..Len(seen) BY <3>2, LenProperties
      <4>2. ASSUME NEW i \in 1..Len(seen) PROVE seen[i] \in 1..published
        BY <3>2, ElementOfSeq
      <4>. QED BY <2>2, <4>1, <4>2
    <3>8. Increasing(out[s]) BY DEF SocketInv, ChannelsInOrder
    <3>9. Increasing(out'[s])
      <4>. SUFFICES ASSUME NEW i \in DOMAIN out'[s], NEW j \in DOMAIN out'[s], i < j
                    PROVE  out'[s][i] < out'[s][j]
        BY DEF Increasing
      <4>1. CASE j = Len(out[s]) + 1
        <5>1. i \in 1..Len(out[s]) BY <3>4, <3>5, <4>1
        <5>. QED BY <3>3, <3>6, <4>1, <5>1
      <4>2. CASE j # Len(out[s]) + 1
        <5>1. i \in 1..Len(out[s]) /\ j \in 1..Len(out[s]) BY <3>4, <3>5, <4>2
        <5>. QED BY <3>3, <3>4, <3>8, <5>1 DEF Increasing
      <4>. QED BY <4>1, <4>2
    <3>10. ASSUME Precede(seen, out[s]) PROVE Precede(seen, out'[s])
      <4>. SUFFICES ASSUME NEW i \in DOMAIN seen, NEW j \in DOMAIN out'[s]
                    PROVE  seen[i] < out'[s][j]
        BY DEF Precede
      <4>1. CASE j = Len(out[s]) + 1 BY <3>3, <3>7, <4>1
      <4>2. CASE j # Len(out[s]) + 1
        <5>1. j \in 1..Len(out[s]) BY <3>4, <3>5, <4>2
        <5>. QED BY <3>3, <3>4, <3>10, <5>1 DEF Precede
      <4>. QED BY <4>1, <4>2
    <3>11. Len(out'[s]) <= Capacity BY <2>3, <3>3, <3>4, SocketBounds
    <3>. QED BY <3>3, <3>9, <3>10, <3>11
  <2>4. ASSUME NEW s \in Sockets, ~(s \in registered /\ Len(out[s]) < Capacity)
        PROVE  out'[s] = out[s] /\ out'[s] \in Seq(1..p)
    <3>1. out[s] \in Seq(1..published) BY DEF SocketTypes
    <3>2. out[s] \in Seq(1..p) BY <2>2, <3>1, SeqMonotonic
    <3>. QED BY <2>1, <2>4, <3>2
  <2>5. SocketTypes'
    <3>1. \A s \in Sockets : out'[s] \in Seq(1..p) BY <2>3, <2>4
    <3>2. out' \in [Sockets -> Seq(1..p)] BY <2>1, <3>1
    <3>3. seen \in Seq(1..p) BY <2>2, SeqMonotonic DEF SocketTypes
    <3>. QED BY <2>1, <2>2, <3>2, <3>3 DEF SocketTypes
  <2>6. LastIsLive'
    <3>1. ASSUME NEW s \in Sockets
          PROVE  /\ Len(out'[s]) <= Capacity
                 /\ ready[s] \in {"none", "connecting"} => out'[s] = out[s]
      BY <2>3, <2>4 DEF LastIsLive
    <3>. QED BY <2>1, <3>1 DEF LastIsLive
  <2>7. ChannelsInOrder'
    <3>1. \A s \in Sockets : /\ Increasing(out'[s])
                             /\ Precede(seen, out[s]) => Precede(seen, out'[s])
      BY <2>3, <2>4 DEF SocketInv, ChannelsInOrder
    <3>. QED BY <2>1, <3>1 DEF SocketInv, ChannelsInOrder, Increasing, Precede
  <2>8. EventsInOrder' /\ ReconnectArmed' BY <2>1 DEF SocketInv, EventsInOrder, ReconnectArmed
  <2>. QED BY <2>5, <2>6, <2>7, <2>8 DEF SocketInv
<1>4. ASSUME NEW s \in Sockets, Upgrade(s) PROVE SocketInv'
  <2>1. /\ ready[s] = "connecting" /\ s \notin registered
        /\ ready' = [ready EXCEPT ![s] = "open"] /\ registered' = registered \union {s}
        /\ UNCHANGED <<listening, opened, timer, out, published, seen>>
    BY <1>4 DEF Upgrade
  <2>2. s = opened /\ out[s] = <<>> BY <2>1 DEF LastIsLive, Live
  <2>3. \A t \in Sockets : ready'[t] = IF t = s THEN "open" ELSE ready[t]
    BY <2>1 DEF SocketTypes
  <2>4. SocketTypes' BY <2>1 DEF SocketTypes, ReadyStates, Live
  <2>5. LastIsLive' BY <2>1, <2>2, <2>3 DEF LastIsLive, Live
  <2>6. ChannelsInOrder'
    <3>1. Precede(seen, out[s]) BY <2>2 DEF Precede
    <3>. QED BY <2>1, <2>3, <3>1 DEF SocketInv, ChannelsInOrder, Increasing, Precede
  <2>7. EventsInOrder' /\ ReconnectArmed'
    BY <2>1, <2>2, <2>3 DEF SocketInv, EventsInOrder, ReconnectArmed
  <2>. QED BY <2>4, <2>5, <2>6, <2>7 DEF SocketInv
<1>5. ASSUME NEW s \in Sockets, Lose(s) PROVE SocketInv'
  <2>1. /\ ready[s] = "open" /\ ready' = [ready EXCEPT ![s] = "closing"]
        /\ UNCHANGED <<listening, opened, timer, hubVars, seen>>
    BY <1>5 DEF Lose
  <2>2. \A t \in Sockets : ready'[t] = IF t = s THEN "closing" ELSE ready[t]
    BY <2>1 DEF SocketTypes
  <2>3. s = opened BY <2>1 DEF LastIsLive, Live
  <2>4. ReconnectArmed' BY <2>1, <2>2, <2>3 DEF ReconnectArmed
  <2>5. ready' \in [Sockets -> ReadyStates] BY <2>1 DEF SocketTypes, ReadyStates
  <2>6. \A t \in Sockets : /\ ready'[t] = "none" <=> ready[t] = "none"
                           /\ ready'[t] \in Live => ready'[t] = ready[t]
    BY <2>1, <2>2 DEF Live
  <2>. QED BY <2>1, <2>4, <2>5, <2>6, ReadyMoves DEF SocketTypes
<1>6. ASSUME NEW s \in Sockets, NEW error \in BOOLEAN, Closes(s, error) PROVE SocketInv'
  <2>. DEFINE last == IF error /\ opened # s /\ ready[opened] \in Live THEN "closing"
                      ELSE IF opened = s THEN "closed" ELSE ready[opened]
  <2>1. /\ ready[s] \in {"closing", "connecting"} /\ timer' = TRUE
        /\ UNCHANGED <<listening, opened, hubVars, seen>>
    BY <1>6 DEF Closes, CloseEvent
  <2>2. opened \in Sockets
    <3>1. ~(s > opened) BY <2>1 DEF LastIsLive
    <3>. QED BY <3>1, SocketBounds DEF Sockets, SocketTypes
  <2>3. \A t \in Sockets :
           ready'[t] = IF t = opened THEN last ELSE IF t = s THEN "closed" ELSE ready[t]
    BY <1>6, <2>2 DEF Closes, CloseEvent, SocketTypes
  <2>4. last \in ReadyStates BY <2>2 DEF SocketTypes, ReadyStates
  <2>5. ready' \in [Sockets -> ReadyStates]
    <3>1. \A t \in Sockets : ready'[t] \in ReadyStates
      BY <2>3, <2>4 DEF SocketTypes, ReadyStates
    <3>2. ready' = [t \in Sockets |-> ready'[t]]
      BY <1>6 DEF Closes, CloseEvent, SocketTypes
    <3>. QED BY <3>1, <3>2
  <2>6. ready[opened] # "none" BY <2>2 DEF LastIsLive, Sockets
  <2>7. \A t \in Sockets : /\ ready'[t] = "none" <=> ready[t] = "none"
                           /\ ready'[t] \in Live => ready'[t] = ready[t]
    BY <2>1, <2>3, <2>6 DEF Live
  <2>8. ReconnectArmed' BY <2>1 DEF ReconnectArmed
  <2>. QED BY <2>1, <2>5, <2>7, <2>8, ReadyMoves
<1>7. ASSUME NEW s \in Sockets, Unregister(s) PROVE SocketInv'
  <2>1. registered' = registered \ {s} /\ UNCHANGED <<listening, opened, ready, timer, out, published, seen>>
    BY <1>7 DEF Unregister, socketVars
  <2>2. SocketTypes' BY <2>1 DEF SocketTypes
  <2>. QED BY <2>1, <2>2 DEF SocketInv, LastIsLive, ChannelsInOrder, EventsInOrder, Increasing, Precede,
                           ReconnectArmed
<1>8. ASSUME NEW s \in Sockets, OnMessage(s) PROVE SocketInv'
  <2>. DEFINE q == out[s]
  <2>1. /\ q # <<>> /\ out' = [out EXCEPT ![s] = Tail(q)]
        /\ UNCHANGED <<listening, opened, ready, timer, registered, published>>
    BY <1>8 DEF OnMessage, socketVars
  <2>2. q \in Seq(1..published) /\ seen \in Seq(1..published) /\ published \in Nat
    BY SocketBounds DEF SocketTypes
  <2>3. /\ Head(q) \in 1..published /\ Head(q) = q[1] /\ Tail(q) \in Seq(1..published)
        /\ Len(Tail(q)) = Len(q) - 1 /\ Len(q) \in Nat \ {0}
        /\ \A i \in 1..Len(Tail(q)) : Tail(q)[i] = q[i + 1]
    <3>. HIDE DEF q
    <3>1. Len(q) \in Nat \ {0} BY <2>1, <2>2, EmptySeq
    <3>2. Head(q) = q[1] BY <2>1, <2>2
    <3>. QED BY <2>1, <2>2, <3>1, <3>2, HeadTailProperties
  <2>4. \A t \in Sockets : out'[t] = IF t = s THEN Tail(q) ELSE out[t]
    BY <2>1 DEF SocketTypes
  <2>5. DOMAIN q = 1..Len(q) /\ DOMAIN Tail(q) = 1..(Len(q) - 1)
    BY <2>2, <2>3, LenProperties
  <2>6. Increasing(q) BY DEF SocketInv, ChannelsInOrder
  <2>7. Increasing(Tail(q))
    <3>. SUFFICES ASSUME NEW i \in DOMAIN Tail(q), NEW j \in DOMAIN Tail(q), i < j
                  PROVE  Tail(q)[i] < Tail(q)[j]
      BY DEF Increasing
    <3>1. i + 1 \in DOMAIN q /\ j + 1 \in DOMAIN q /\ i + 1 < j + 1 BY <2>3, <2>5
    <3>2. Tail(q)[i] = q[i + 1] /\ Tail(q)[j] = q[j + 1] BY <2>3, <2>5
    <3>. QED BY <2>6, <3>1, <3>2 DEF Increasing
  <2>8. ASSUME NEW j \in DOMAIN Tail(q) PROVE j + 1 \in DOMAIN q /\ Tail(q)[j] = q[j + 1] /\ q[1] < q[j + 1]
    <3>1. j + 1 \in DOMAIN q /\ 1 \in DOMAIN q /\ 1 < j + 1 BY <2>3, <2>5
    <3>. QED BY <2>3, <2>5, <2>6, <3>1 DEF Increasing
  <2>9. /\ seen' \in Seq(1..published) /\ EventsInOrder'
        /\ ready[s] = "open" => Precede(seen', Tail(q))
        /\ \A t \in Sockets : ready[t] = "open" => t = s \/ seen' = seen
    <3>1. CASE ready[s] = "open" /\ listening
      <4>1. seen' = Append(seen, q[1]) BY <1>8, <2>3, <3>1 DEF OnMessage
      <4>2. /\ seen' \in Seq(1..published) /\ Len(seen') = Len(seen) + 1
            /\ \A i \in 1..Len(seen) : seen'[i] = seen[i]
            /\ seen'[Len(seen) + 1] = q[1]
        BY <2>2, <2>3, <4>1, AppendProperties
      <4>3. Len(seen) \in Nat /\ DOMAIN seen = 1..Len(seen) /\ DOMAIN seen' = 1..(Len(seen) + 1)
        BY <2>2, <4>2, LenProperties
      <4>4. Precede(seen, q) BY <3>1 DEF SocketInv, ChannelsInOrder
      <4>5. 1 \in DOMAIN q BY <2>3, <2>5
      <4>6. EventsInOrder'
        <5>. SUFFICES ASSUME NEW i \in DOMAIN seen', NEW j \in DOMAIN seen', i < j
                      PROVE  seen'[i] < seen'[j]
          BY DEF EventsInOrder
        <5>1. CASE j = Len(seen) + 1
          <6>1. i \in DOMAIN seen BY <4>3, <5>1
          <6>. QED BY <4>2, <4>3, <4>4, <4>5, <5>1, <6>1 DEF Precede
        <5>2. CASE j # Len(seen) + 1
          <6>1. i \in DOMAIN seen /\ j \in DOMAIN seen BY <4>3, <5>2
          <6>. QED BY <4>2, <4>3, <6>1 DEF SocketInv, EventsInOrder
        <5>. QED BY <5>1, <5>2
      <4>7. Precede(seen', Tail(q))
        <5>. SUFFICES ASSUME NEW i \in DOMAIN seen', NEW j \in DOMAIN Tail(q)
                      PROVE  seen'[i] < Tail(q)[j]
          BY DEF Precede
        <5>1. CASE i = Len(seen) + 1 BY <2>8, <4>2, <5>1
        <5>2. CASE i # Len(seen) + 1
          <6>1. i \in DOMAIN seen BY <4>3, <5>2
          <6>. QED BY <2>8, <4>2, <4>3, <4>4, <6>1 DEF Precede
        <5>. QED BY <5>1, <5>2
      <4>8. \A t \in Sockets : ready[t] = "open" => t = s BY <3>1 DEF LastIsLive, Live
      <4>. QED BY <4>2, <4>6, <4>7, <4>8
    <3>2. CASE ~(ready[s] = "open" /\ listening)
      <4>1. seen' = seen BY <1>8, <3>2 DEF OnMessage
      <4>2. ready[s] = "open" => Precede(seen, Tail(q))
        BY <2>8 DEF SocketInv, ChannelsInOrder, Precede
      <4>. QED BY <2>2, <4>1, <4>2 DEF SocketInv, EventsInOrder
    <3>. QED BY <3>1, <3>2
  <2>. HIDE DEF q
  <2>10. SocketTypes'
    <3>1. out' \in [Sockets -> Seq(1..published)] BY <2>1, <2>3 DEF SocketTypes
    <3>. QED BY <2>1, <2>9, <3>1 DEF SocketTypes
  <2>11. LastIsLive'
    <3>1. Len(q) <= Capacity /\ (ready[s] \notin {"none", "connecting"}) BY <2>1 DEF LastIsLive, q
    <3>2. Len(Tail(q)) <= Capacity BY <2>3, <3>1, SocketBounds
    <3>. QED BY <2>1, <2>4, <3>1, <3>2 DEF LastIsLive
  <2>12. ChannelsInOrder'
    <3>1. \A t \in Sockets : Increasing(out'[t]) BY <2>4, <2>7 DEF SocketInv, ChannelsInOrder
    <3>2. \A t \in Sockets : ready[t] = "open" => Precede(seen', out'[t])
      BY <2>4, <2>9 DEF SocketInv, ChannelsInOrder
    <3>. QED BY <2>1, <3>1, <3>2 DEF ChannelsInOrder, Increasing, Precede
  <2>13. ReconnectArmed' BY <2>1 DEF SocketInv, ReconnectArmed
  <2>. QED BY <2>9, <2>10, <2>11, <2>12, <2>13 DEF SocketInv
<1>9. CASE UNCHANGED realtimeVars
  <2>1. UNCHANGED <<listening, opened, ready, timer, registered, out, published, seen>>
    BY <1>9 DEF realtimeVars, socketVars, hubVars
  <2>2. SocketTypes' BY <2>1 DEF SocketTypes
  <2>. QED BY <2>1, <2>2 DEF SocketInv, LastIsLive, ChannelsInOrder, EventsInOrder, Increasing, Precede,
                           ReconnectArmed
<1>. QED BY <1>1, <1>2, <1>3, <1>4, <1>5, <1>6, <1>7, <1>8, <1>9 DEF RealtimeNext

LEMMA SocketInductive == RealtimeSpec => []SocketInv
BY SocketInvInit, SocketInvNext, PTL DEF RealtimeSpec

\* Listeners are called with the events in the order they were published, each at most once,
\* whatever sockets close and events drop (ensureSocket, onmessage, PublishTo).
THEOREM EventsStayInOrder == RealtimeSpec => []EventsInOrder
BY SocketInductive, PTL DEF SocketInv

\* A tab whose last socket is closed has a reconnect scheduled (onclose).
THEOREM ReconnectsStayArmed == RealtimeSpec => []ReconnectArmed
BY SocketInductive, PTL DEF SocketInv

-----------------------------------------------------------------------------
(* The query cache.                                                        *)

RowsTypes ==
    /\ domain \in DomainStates /\ bound \in Bindings /\ devices \in SUBSET Devices
    /\ (~HasDomain => bound = "absent") /\ (bound \in Devices => bound \in devices)
Fetches(k) == {Idle, Asked} \cup [step : {"read"}, row : Values(k)]
CacheTypes ==
    /\ data = [k \in Keys |-> data[k]] /\ fetch = [k \in Keys |-> fetch[k]]
    /\ \A k \in Keys : data[k] \in Values(k) \union {Unknown} /\ fetch[k] \in Fetches(k)
    /\ invalid \in SUBSET Keys /\ foreign \in SUBSET Keys
CallTypes ==
    /\ call \in [op : Ops \union {"none"}, dev : Devices \union {None},
                 step : {"idle", "sent", "ok", "error"}]
    /\ call.op = "add" => call.dev \in Devices
    /\ call.step # "idle" => call.op \in Ops
DataTypes ==
    /\ RowsTypes /\ CacheTypes /\ CallTypes
    /\ changes \in 0..MaxChanges
    /\ page \in Pages /\ detail \in DomainStates \union {"closed"}

\* The mutation that has changed the rows of k will invalidate k when it lands.
Covered(k) == call.step = "ok" /\ k \in Invalidates(call.op)

\* A row that was read, and data that is not marked, are the server's.
FetchedIsRow ==
    \A k \in Keys : k \notin foreign /\ ~Covered(k) =>
       /\ fetch[k].step = "read" => fetch[k].row = Row(k)
       /\ fetch[k] = Idle /\ k \notin invalid /\ data[k] # Unknown => data[k] = Row(k)

\* A key that is observed and not being fetched has data, and no mark.
ObservedIsLoaded ==
    \A k \in Observed(page, data) :
       k \notin foreign /\ fetch[k] = Idle => data[k] # Unknown /\ k \notin invalid

DataInv == DataTypes /\ FetchedIsRow /\ ObservedIsLoaded

LEMMA DataInvInit == Init => DataInv
<1>. SUFFICES ASSUME Init PROVE DataInv OBVIOUS
<1>. USE DEF Init
<1>1. RowsTypes BY NoneIsNoDevice DEF RowsTypes, DomainStates, Bindings, HasDomain
<1>2. CacheTypes BY DEF CacheTypes, Fetches
<1>3. CallTypes BY DEF CallTypes, NoCall
<1>4. DataTypes BY <1>1, <1>2, <1>3, MaxChangesIsNat DEF DataTypes, Pages
<1>5. FetchedIsRow BY DEF FetchedIsRow, Idle
<1>6. Observed(page, data) = {} BY DEF Observed
<1>. QED BY <1>4, <1>5, <1>6 DEF DataInv, ObservedIsLoaded

LEMMA ObservedKeys == \A p \in Pages : \A d : Observed(p, d) \subseteq Keys
BY DEF Pages, Observed, Keys

\* What the server holds for a key is a value of the key.
LEMMA RowTyped == RowsTypes => \A k \in Keys : Row(k) \in Values(k)
<1>. SUFFICES ASSUME RowsTypes, NEW k \in Keys PROVE Row(k) \in Values(k) OBVIOUS
<1>1. CASE k = "domains" BY <1>1 DEF Row, Values, RowsTypes, DomainStates
<1>2. CASE k = "subdomains" BY <1>2 DEF Row, Values, RowsTypes
<1>3. CASE k = "devices" BY <1>3 DEF Row, Values, RowsTypes
<1>. QED BY <1>1, <1>2, <1>3 DEF Keys

\* The rows stay well typed, whoever calls.
LEMMA EffectTyped ==
    ASSUME RowsTypes, NEW op \in Ops, NEW dev, op = "add" => dev \in Devices,
           Allowed(op, dev), Effect(op, dev)
    PROVE  RowsTypes'
<1>. USE DEF RowsTypes, HasDomain, DomainStates, Bindings
<1>1. CASE op = "create" BY <1>1, NoneIsNoDevice DEF Allowed, Effect
<1>2. CASE op = "delete" BY <1>2, NoneIsNoDevice DEF Allowed, Effect
<1>3. CASE op = "verify" BY <1>3, NoneIsNoDevice DEF Allowed, Effect
<1>4. CASE op = "bind" BY <1>4, NoneIsNoDevice DEF Allowed, Effect
<1>5. CASE op = "unbind" BY <1>5, NoneIsNoDevice DEF Allowed, Effect
<1>6. CASE op = "add" BY <1>6, NoneIsNoDevice DEF Allowed, Effect
<1>7. CASE op = "revoke" BY <1>7, NoneIsNoDevice DEF Allowed, Effect
<1>. QED BY <1>1, <1>2, <1>3, <1>4, <1>5, <1>6, <1>7 DEF Ops

\* What an observer that mounts does to the fetches.
LEMMA MountFetches ==
    ASSUME NEW p, NEW d, NEW f, NEW due, fetch' = Mount(p, d, f, due)
    PROVE  /\ fetch' = [k \in Keys |-> fetch'[k]]
           /\ \A k \in Keys : /\ fetch'[k] = f[k] \/ (f[k] = Idle /\ fetch'[k] = Asked)
                              /\ k \in Observed(p, d) /\ (d[k] = Unknown \/ k \in due)
                                    => fetch'[k] # Idle
BY DEF Mount, Idle, Asked

\* The rows change, and every key whose row does is noted or will be invalidated.
LEMMA RowsMove ==
    ASSUME DataInv, DataTypes', UNCHANGED <<view, cache>>, foreign \subseteq foreign',
           \A k \in Keys : k \notin foreign' /\ ~Covered(k)' => ~Covered(k) /\ Row(k)' = Row(k)
    PROVE  DataInv'
<1>. UNCHANGED <<page, data, fetch, invalid>> BY DEF view, cache
<1>1. FetchedIsRow' BY DEF DataInv, FetchedIsRow
<1>2. ObservedIsLoaded' BY DEF DataInv, ObservedIsLoaded
<1>. QED BY <1>1, <1>2 DEF DataInv

\* A step of the page that changes no row.
LEMMA RowsStay ==
    ASSUME UNCHANGED rows
    PROVE  \A k : Row(k)' = Row(k)
BY DEF rows, Row, HasDomain

\* Only the call or the modal changes, and no call is one that changed rows.
LEMMA CacheStays ==
    ASSUME DataInv, DataTypes', UNCHANGED <<rows, page, cache, foreign>>,
           \A k \in Keys : Covered(k) => Covered(k)'
    PROVE  DataInv'
<1>. UNCHANGED <<page, data, fetch, invalid>> BY DEF cache
<1>1. \A k : Row(k)' = Row(k) BY RowsStay
<1>2. FetchedIsRow' BY <1>1 DEF DataInv, FetchedIsRow
<1>3. ObservedIsLoaded' BY DEF DataInv, ObservedIsLoaded
<1>. QED BY <1>2, <1>3 DEF DataInv

LEMMA ReadKeeps == ASSUME DataInv, NEW k \in Keys, Read(k) PROVE DataInv'
<1>. RowsTypes /\ CacheTypes /\ DataTypes BY DEF DataInv, DataTypes
<1>1. UNCHANGED <<domain, bound, devices, changes, page, detail, data, invalid, call>>
      /\ fetch[k] = Asked
  BY DEF Read, rows, view
<1>2. \A j : Row(j)' = Row(j) BY <1>1, RowsStay DEF rows
<1>3. \A j \in Keys : Covered(j)' <=> Covered(j) BY <1>1 DEF Covered
<1>4. CASE k = "subdomains" /\ ~HasDomain
  <2>1. fetch' = [fetch EXCEPT ![k] = Idle] /\ foreign' = foreign \union {k}
    BY <1>4 DEF Read
  <2>2. \A j \in Keys : fetch'[j] = IF j = k THEN Idle ELSE fetch[j] BY <2>1 DEF CacheTypes
  <2>3. CacheTypes' BY <1>1, <2>1, <2>2 DEF CacheTypes, Fetches
  <2>4. DataTypes' BY <1>1, <2>3 DEF DataTypes, RowsTypes, CallTypes, HasDomain
  <2>5. FetchedIsRow' BY <1>1, <1>2, <1>3, <2>1, <2>2 DEF DataInv, FetchedIsRow
  <2>6. ObservedIsLoaded'
    BY <1>1, <2>1, <2>2, ObservedKeys DEF DataInv, DataTypes, ObservedIsLoaded
  <2>. QED BY <2>4, <2>5, <2>6 DEF DataInv
<1>5. CASE ~(k = "subdomains" /\ ~HasDomain)
  <2>. DEFINE r == [step |-> "read", row |-> Row(k)]
  <2>1. fetch' = [fetch EXCEPT ![k] = r] /\ foreign' = foreign \ {k}
    BY <1>5 DEF Read
  <2>2. r \in Fetches(k) /\ r # Idle
    <3>1. Row(k) \in Values(k) BY RowTyped
    <3>2. r.step # Idle.step BY DEF Idle
    <3>. QED BY <3>1, <3>2 DEF Fetches
  <2>3. r.row = Row(k) OBVIOUS
  <2>. HIDE DEF r
  <2>4. \A j \in Keys : fetch'[j] = IF j = k THEN r ELSE fetch[j] BY <2>1 DEF CacheTypes
  <2>5. CacheTypes' BY <1>1, <2>1, <2>2, <2>4 DEF CacheTypes
  <2>6. DataTypes' BY <1>1, <2>5 DEF DataTypes, RowsTypes, CallTypes, HasDomain
  <2>7. FetchedIsRow' BY <1>1, <1>2, <1>3, <2>1, <2>2, <2>3, <2>4 DEF DataInv, FetchedIsRow
  <2>8. ObservedIsLoaded'
    BY <1>1, <2>1, <2>2, <2>4, ObservedKeys DEF DataInv, DataTypes, ObservedIsLoaded
  <2>. QED BY <2>6, <2>7, <2>8 DEF DataInv
<1>. QED BY <1>4, <1>5

LEMMA LandKeeps == ASSUME DataInv, NEW k \in Keys, Land(k) PROVE DataInv'
<1>. RowsTypes /\ CacheTypes /\ DataTypes BY DEF DataInv, DataTypes
<1>1. /\ fetch[k].step = "read" /\ data' = [data EXCEPT ![k] = fetch[k].row]
      /\ invalid' = invalid \ {k}
      /\ UNCHANGED <<domain, bound, devices, changes, page, detail, call, foreign>>
  BY DEF Land, rows, view
<1>2. PICK stale : fetch' = Mount(page, data', [fetch EXCEPT ![k] = Idle], invalid' \union stale)
  BY DEF Land
<1>3. \A j \in Keys : data'[j] = IF j = k THEN fetch[k].row ELSE data[j]
  BY <1>1 DEF CacheTypes
<1>4. fetch[k].row \in Values(k) /\ fetch[k] # Idle
  <2>1. fetch[k] # Idle BY <1>1 DEF Idle
  <2>2. fetch[k] # Asked BY <1>1 DEF Asked
  <2>. QED BY <2>1, <2>2 DEF CacheTypes, Fetches
<1>. DEFINE f == [fetch EXCEPT ![k] = Idle]
<1>5. \A j \in Keys : f[j] = IF j = k THEN Idle ELSE fetch[j] BY DEF CacheTypes
<1>. HIDE DEF f
<1>6. /\ fetch' = [j \in Keys |-> fetch'[j]]
      /\ \A j \in Keys : /\ fetch'[j] = f[j] \/ (f[j] = Idle /\ fetch'[j] = Asked)
                         /\ j \in Observed(page, data') /\ (data'[j] = Unknown \/ j \in invalid' \union stale)
                               => fetch'[j] # Idle
  BY <1>2, MountFetches DEF f
<1>7. CacheTypes'
  <2>1. data' = [j \in Keys |-> data'[j]] BY <1>1 DEF CacheTypes
  <2>2. \A j \in Keys : fetch'[j] \in Fetches(j) BY <1>5, <1>6 DEF CacheTypes, Fetches
  <2>. QED BY <1>1, <1>3, <1>4, <1>6, <2>1, <2>2 DEF CacheTypes
<1>8. DataTypes' BY <1>1, <1>7 DEF DataTypes, RowsTypes, CallTypes, HasDomain
<1>9. \A j : Row(j)' = Row(j) BY <1>1, RowsStay DEF rows
<1>10. FetchedIsRow'
  <2>. SUFFICES ASSUME NEW j \in Keys, j \notin foreign', ~Covered(j)'
                PROVE  /\ fetch'[j].step = "read" => fetch'[j].row = Row(j)'
                       /\ fetch'[j] = Idle /\ j \notin invalid' /\ data'[j] # Unknown => data'[j] = Row(j)'
    BY DEF FetchedIsRow
  <2>1. j \notin foreign /\ ~Covered(j) BY <1>1 DEF Covered
  <2>2. CASE j = k
    <3>1. fetch[k].row = Row(k) BY <1>1, <2>1, <2>2 DEF DataInv, FetchedIsRow
    <3>2. fetch'[k] \in {Idle, Asked} BY <1>5, <1>6
    <3>3. fetch'[k].step # "read" BY <3>2 DEF Idle, Asked
    <3>. QED BY <1>3, <1>9, <2>2, <3>1, <3>3
  <2>3. CASE j # k
    <3>1. data'[j] = data[j] /\ (j \in invalid' <=> j \in invalid) BY <1>1, <1>3, <2>3
    <3>2. CASE fetch'[j] = fetch[j]
      BY <1>9, <2>1, <3>1, <3>2 DEF DataInv, FetchedIsRow
    <3>3. CASE fetch'[j] = Asked
      BY <3>3 DEF Asked, Idle
    <3>. QED BY <1>5, <1>6, <2>3, <3>2, <3>3
  <2>. QED BY <2>2, <2>3
<1>11. ObservedIsLoaded' BY <1>1, <1>6, ObservedKeys DEF ObservedIsLoaded, DataTypes
<1>. QED BY <1>8, <1>10, <1>11 DEF DataInv

LEMMA VisitKeeps == ASSUME DataInv, NEW p \in Pages, Visit(p) PROVE DataInv'
<1>. RowsTypes /\ CacheTypes /\ DataTypes BY DEF DataInv, DataTypes
<1>1. /\ page' = p /\ detail' = "closed"
      /\ UNCHANGED <<domain, bound, devices, changes, data, invalid, call, foreign>>
  BY DEF Visit, rows
<1>2. PICK stale : fetch' = Mount(p, data, fetch, invalid \union stale) BY DEF Visit
<1>3. /\ fetch' = [j \in Keys |-> fetch'[j]]
      /\ \A j \in Keys : /\ fetch'[j] = fetch[j] \/ (fetch[j] = Idle /\ fetch'[j] = Asked)
                         /\ j \in Observed(p, data) /\ (data[j] = Unknown \/ j \in invalid \union stale)
                               => fetch'[j] # Idle
  BY <1>2, MountFetches
<1>4. CacheTypes' BY <1>1, <1>3 DEF CacheTypes, Fetches
<1>5. DataTypes' BY <1>1, <1>4 DEF DataTypes, RowsTypes, CallTypes, HasDomain
<1>6. \A j : Row(j)' = Row(j) BY <1>1, RowsStay DEF rows
<1>7. FetchedIsRow'
  <2>1. Asked # Idle /\ Asked.step # "read" BY DEF Asked, Idle
  <2>2. \A j \in Keys : Covered(j)' <=> Covered(j) BY <1>1 DEF Covered
  <2>. QED BY <1>1, <1>3, <1>6, <2>1, <2>2 DEF DataInv, FetchedIsRow
<1>8. ObservedIsLoaded' BY <1>1, <1>3, ObservedKeys DEF ObservedIsLoaded
<1>. QED BY <1>5, <1>7, <1>8 DEF DataInv

\* The rows of a key change with a note of it, or under a call that will invalidate it.
LEMMA ServerKeeps ==
    ASSUME DataInv, Serve \/ Other \/ Verifier
    PROVE  DataInv'
<1>. RowsTypes /\ CacheTypes /\ CallTypes /\ DataTypes BY DEF DataInv, DataTypes
<1>1. UNCHANGED <<page, detail, data, fetch, invalid>> BY DEF Serve, Other, Verifier, view, cache
<1>2. ASSUME RowsTypes', CallTypes', changes' \in 0..MaxChanges, foreign' \in SUBSET Keys
      PROVE  DataTypes'
  BY <1>1, <1>2 DEF DataTypes, CacheTypes
<1>3. Change => changes' \in 0..MaxChanges BY MaxChangesIsNat DEF Change, DataTypes
<1>4. Differing \in SUBSET Keys /\ \A k \in Keys : k \notin Differing => Row(k)' = Row(k)
  BY DEF Differing
<1>5. CASE Other
  <2>1. RowsTypes'
    <3>1. ASSUME NEW op \in Ops, NEW dev \in Devices, Allowed(op, dev), Effect(op, dev)
          PROVE  RowsTypes'
      BY <3>1, EffectTyped
    <3>2. ASSUME domain = "verified", bound' = None, UNCHANGED <<domain, devices>>
          PROVE  RowsTypes'
      BY <3>2, NoneIsNoDevice DEF RowsTypes, HasDomain, Bindings
    <3>. QED BY <1>5, <3>1, <3>2 DEF Other
  <2>2. UNCHANGED call /\ Change /\ foreign' = foreign \union Differing BY <1>5 DEF Other
  <2>3. DataTypes' BY <1>2, <1>3, <1>4, <2>1, <2>2 DEF CallTypes, CacheTypes
  <2>. QED BY <1>1, <1>4, <2>2, <2>3, RowsMove DEF Covered, view, cache
<1>6. CASE Verifier
  <2>1. RowsTypes' BY <1>6 DEF Verifier, RowsTypes, HasDomain, DomainStates
  <2>2. UNCHANGED call /\ Change /\ foreign' = foreign \union Differing BY <1>6 DEF Verifier
  <2>3. DataTypes' BY <1>2, <1>3, <1>4, <2>1, <2>2 DEF CallTypes, CacheTypes
  <2>. QED BY <1>1, <1>4, <2>2, <2>3, RowsMove DEF Covered, view, cache
<1>7. CASE Serve
  <2>0. call.step = "sent" /\ call.op \in Ops BY <1>7 DEF Serve, CallTypes
  <2>1. \A k \in Keys : ~Covered(k) BY <2>0 DEF Covered
  <2>2. ASSUME NEW step \in {"ok", "error"}, call' = [call EXCEPT !.step = step]
        PROVE  CallTypes' /\ call'.step = step /\ call'.op = call.op
    BY <2>0, <2>2 DEF CallTypes
  <2>3. CASE call' = [call EXCEPT !.step = "error"] /\ UNCHANGED <<rows, foreign>>
    <3>1. DataTypes'
      <4>1. RowsTypes' /\ changes' \in 0..MaxChanges
        BY <2>3 DEF rows, RowsTypes, HasDomain, DataTypes
      <4>. QED BY <1>2, <2>2, <2>3, <4>1 DEF CacheTypes
    <3>2. \A k : Row(k)' = Row(k) BY <2>3, RowsStay
    <3>. QED BY <1>1, <2>1, <2>3, <3>1, <3>2, RowsMove DEF view, cache
  <2>4. ASSUME Allowed(call.op, call.dev), Change, Effect(call.op, call.dev),
               NEW step \in {"ok", "error"}, call' = [call EXCEPT !.step = step],
               foreign' = foreign \union (IF step = "ok" THEN Differing \ Invalidates(call.op)
                                          ELSE Differing)
        PROVE  DataInv'
    <3>1. RowsTypes' BY <2>0, <2>4, EffectTyped DEF CallTypes
    <3>2. DataTypes' BY <1>2, <1>3, <1>4, <2>2, <2>4, <3>1 DEF CacheTypes
    <3>3. call'.step = step /\ call'.op = call.op BY <2>2, <2>4
    <3>4. \A k \in Keys : k \notin foreign' /\ ~Covered(k)' => Row(k)' = Row(k)
      BY <1>4, <2>4, <3>3 DEF Covered
    <3>. QED BY <1>1, <2>1, <2>4, <3>2, <3>4, RowsMove DEF view, cache
  <2>. QED BY <1>7, <2>3, <2>4 DEF Serve
<1>. QED BY <1>5, <1>6, <1>7

LEMMA MutationDoneKeeps == ASSUME DataInv, MutationDone PROVE DataInv'
<1>. RowsTypes /\ CacheTypes /\ CallTypes /\ DataTypes BY DEF DataInv, DataTypes
<1>1. /\ call.step \in {"ok", "error"} /\ call' = NoCall
      /\ UNCHANGED <<domain, bound, devices, changes, page, data>>
  BY DEF MutationDone, rows, cache
<1>2. detail' \in DomainStates \union {"closed"} BY DEF MutationDone, DataTypes, DomainStates
<1>3. CallTypes' BY <1>1 DEF CallTypes, NoCall
<1>4. ASSUME CacheTypes' PROVE DataTypes'
  BY <1>1, <1>2, <1>3, <1>4 DEF DataTypes, RowsTypes, HasDomain
<1>5. \A k : Row(k)' = Row(k) BY <1>1, RowsStay DEF rows
<1>6. CASE call.step = "error"
  <2>1. UNCHANGED <<fetch, invalid, foreign>> BY <1>6 DEF MutationDone, cache
  <2>2. \A k \in Keys : ~Covered(k) BY <1>6 DEF Covered
  <2>3. DataTypes' BY <1>1, <1>4, <2>1 DEF CacheTypes
  <2>4. FetchedIsRow' BY <1>1, <1>5, <2>1, <2>2 DEF DataInv, FetchedIsRow
  <2>5. ObservedIsLoaded' BY <1>1, <2>1 DEF DataInv, ObservedIsLoaded
  <2>. QED BY <2>3, <2>4, <2>5 DEF DataInv
<1>7. CASE call.step = "ok"
  <2>. DEFINE ks == Invalidates(call.op)
  <2>0. ks \subseteq Keys BY DEF Invalidates, Keys
  <2>. HIDE DEF ks
  <2>1. /\ invalid' = invalid \union ks
        /\ fetch' = [k \in Keys |-> IF k \in ks /\ Refetched(k) THEN Asked ELSE fetch[k]]
        /\ foreign' = foreign \union {k \in ks : fetch[k].step = "read" /\ ~Refetched(k)}
    BY <1>7 DEF MutationDone, Invalidate, ks
  <2>2. CacheTypes' BY <1>1, <2>0, <2>1 DEF CacheTypes, Fetches
  <2>3. DataTypes' BY <1>4, <2>2
  <2>4. \A k \in Keys : Covered(k) <=> k \in ks BY <1>7 DEF Covered, ks
  <2>5. Asked # Idle /\ Asked.step # "read" BY DEF Asked, Idle
  <2>6. FetchedIsRow'
    <3>. SUFFICES ASSUME NEW k \in Keys, k \notin foreign'
                  PROVE  /\ fetch'[k].step = "read" => fetch'[k].row = Row(k)'
                         /\ fetch'[k] = Idle /\ k \notin invalid' /\ data'[k] # Unknown
                               => data'[k] = Row(k)'
      BY DEF FetchedIsRow
    <3>1. CASE k \in ks /\ Refetched(k) BY <2>1, <2>5, <3>1
    <3>2. CASE k \in ks /\ ~Refetched(k)
      <4>1. fetch'[k] = fetch[k] /\ fetch[k].step # "read" /\ k \in invalid' BY <2>1, <3>2
      <4>. QED BY <4>1
    <3>3. CASE k \notin ks
      <4>1. k \notin foreign /\ ~Covered(k) /\ fetch'[k] = fetch[k] BY <2>1, <2>4, <3>3
      <4>. QED BY <1>1, <1>5, <2>1, <4>1 DEF DataInv, FetchedIsRow
    <3>. QED BY <3>1, <3>2, <3>3
  <2>7. ObservedIsLoaded'
    <3>. SUFFICES ASSUME NEW k \in Observed(page, data), k \notin foreign', fetch'[k] = Idle
                  PROVE  data[k] # Unknown /\ k \notin invalid'
      BY <1>1 DEF ObservedIsLoaded
    <3>1. k \in Keys BY ObservedKeys DEF DataTypes
    <3>2. ~(k \in ks /\ Refetched(k)) /\ fetch[k] = Idle /\ k \notin foreign
      <4>1. fetch'[k] = IF k \in ks /\ Refetched(k) THEN Asked ELSE fetch[k] BY <2>1, <3>1
      <4>. QED BY <2>1, <2>5, <4>1
    <3>3. k \notin ks BY <3>2 DEF Refetched
    <3>. QED BY <2>1, <3>2, <3>3 DEF DataInv, ObservedIsLoaded
  <2>. QED BY <2>3, <2>6, <2>7 DEF DataInv
<1>. QED BY <1>1, <1>6, <1>7

LEMMA DataInvNext == DataInv /\ [Next]_vars => DataInv'
<1>. SUFFICES ASSUME DataInv, [Next]_vars PROVE DataInv' OBVIOUS
<1>. RowsTypes /\ CacheTypes /\ CallTypes /\ DataTypes BY DEF DataInv, DataTypes
<1>1. ASSUME UNCHANGED <<rows, page, cache, foreign>>, CallTypes',
             detail' \in DomainStates \union {"closed"},
             \A k \in Keys : Covered(k) => Covered(k)'
      PROVE  DataInv'
  <2>1. DataTypes' BY <1>1 DEF rows, cache, DataTypes, RowsTypes, CacheTypes, HasDomain
  <2>. QED BY <1>1, <2>1, CacheStays
<1>2. ASSUME NEW op \in Ops, NEW dev \in Devices \cup {None}, Mutate(op, dev),
             op = "add" => dev \in Devices, UNCHANGED view
      PROVE  DataInv'
  <2>1. call = NoCall /\ call' = [op |-> op, dev |-> dev, step |-> "sent"]
    BY <1>2 DEF Mutate
  <2>2. CallTypes' BY <1>2, <2>1 DEF CallTypes
  <2>3. \A k \in Keys : ~Covered(k) BY <2>1 DEF Covered, NoCall
  <2>. QED BY <1>1, <1>2, <2>2, <2>3 DEF Mutate, view, DataTypes
<1>3. ASSUME ShowDetails \/ CloseDetails PROVE DataInv'
  <2>1. UNCHANGED <<rows, page, cache, call, foreign>> BY <1>3 DEF ShowDetails, CloseDetails
  <2>2. detail' \in DomainStates \union {"closed"}
    BY <1>3 DEF ShowDetails, CloseDetails, Listed, CacheTypes, Keys, Values
  <2>3. CallTypes' BY <2>1 DEF CallTypes
  <2>. QED BY <1>1, <2>1, <2>2, <2>3 DEF Covered
<1>4. ASSUME AddDomain \/ DeleteDomain \/ VerifyNow PROVE DataInv'
  <2>1. "create" \in Ops /\ "delete" \in Ops /\ "verify" \in Ops BY DEF Ops
  <2>. QED BY <1>2, <1>4, <2>1 DEF AddDomain, DeleteDomain, VerifyNow
<1>5. ASSUME SelectDevice \/ AddDevice \/ RevokeDevice PROVE DataInv'
  <2>1. data["devices"] # Unknown => data["devices"] \subseteq Devices
    BY DEF CacheTypes, Keys, Values
  <2>2. "bind" \in Ops /\ "unbind" \in Ops /\ "add" \in Ops /\ "revoke" \in Ops BY DEF Ops
  <2>3. CASE SelectDevice BY <1>2, <2>2, <2>3 DEF SelectDevice
  <2>4. CASE AddDevice BY <1>2, <2>2, <2>4 DEF AddDevice
  <2>5. CASE RevokeDevice BY <1>2, <2>1, <2>2, <2>5 DEF RevokeDevice
  <2>. QED BY <1>5, <2>3, <2>4, <2>5
<1>6. CASE UNCHANGED vars
  <2>1. UNCHANGED <<rows, page, detail, cache, call, foreign>> BY <1>6 DEF vars, view
  <2>2. CallTypes' BY <2>1 DEF CallTypes
  <2>. QED BY <1>1, <2>1, <2>2 DEF Covered, DataTypes
<1>. QED BY <1>3, <1>4, <1>5, <1>6, ReadKeeps, LandKeeps, VisitKeeps, ServerKeeps, MutationDoneKeeps
         DEF Next

LEMMA DataInductive == Spec => []DataInv
BY DataInvInit, DataInvNext, PTL DEF Spec

\* What a page shows of a key, with no fetch of it and no mutation under way, is what the
\* server holds, unless somebody else changed it or a change was not invalidated, for any
\* number of devices and changes (lib/queries.ts, onSuccess).
THEOREM ShownIsStaleOnlyByOthers == Spec => []StaleOnlyByOthers
<1>1. DataInv => StaleOnlyByOthers
  <2>. SUFFICES ASSUME DataInv, NEW k \in Observed(page, data), fetch[k] = Idle, call = NoCall,
                       k \notin foreign
                PROVE  data[k] = Row(k)
    BY DEF StaleOnlyByOthers
  <2>1. k \in Keys BY ObservedKeys DEF DataInv, DataTypes
  <2>2. ~Covered(k) BY DEF Covered, NoCall
  <2>. QED BY <2>1, <2>2 DEF DataInv, FetchedIsRow, ObservedIsLoaded
<1>. QED BY <1>1, DataInductive, PTL

-----------------------------------------------------------------------------
\* A behaviour of the run is one of each of the three specifications.
LEMMA RunIsOfTheThree == MCSpec => Spec /\ RealtimeSpec /\ PlanSpec
<1>1. MCInit => Init /\ RealtimeInit /\ PlanInit BY DEF MCInit
<1>2. [MCNext]_all => [Next]_vars /\ [RealtimeNext]_realtimeVars /\ [PlanNext]_planVars
  BY DEF MCNext, all
<1>. QED BY <1>1, <1>2, PTL DEF MCSpec, Spec, RealtimeSpec, PlanSpec

\* The pages' cache, the sockets and channels, and the plans, copies and forms stay well
\* formed: no channel is longer than its capacity, no price is one nobody typed.
THEOREM TypeCorrect == MCSpec => []MCTypeOK
<1>1. DataInv => TypeOK
  BY DEF DataInv, DataTypes, RowsTypes, CacheTypes, CallTypes, Fetches, TypeOK
<1>2. SocketInv => RealtimeTypeOK
  <2>. SUFFICES ASSUME SocketInv PROVE RealtimeTypeOK OBVIOUS
  <2>1. registered \subseteq 1..opened
    <3>. SUFFICES ASSUME NEW s \in registered PROVE s \in 1..opened OBVIOUS
    <3>1. s \in Sockets /\ ~(s > opened) BY DEF SocketInv, SocketTypes, LastIsLive
    <3>. QED BY <3>1, SocketBounds DEF SocketInv, SocketTypes, Sockets
  <2>. QED BY <2>1 DEF SocketInv, SocketTypes, ReadyStates, LastIsLive, RealtimeTypeOK
<1>3. PlanInv => PlanTypeOK
  <2>. SUFFICES ASSUME PlanInv PROVE PlanTypeOK OBVIOUS
  <2>1. \A a \in Admins : loading[a].step \in {"no", "asked"} \/ loading[a].row \in PlanRow
    BY DEF PlanInv, PlanTypes, Loading
  <2>. QED BY <2>1 DEF PlanInv, PlanTypes, PlanTypeOK
<1>. QED BY <1>1, <1>2, <1>3, DataInductive, SocketInductive, PlanInductive, RunIsOfTheThree, PTL
         DEF MCTypeOK
=============================================================================
