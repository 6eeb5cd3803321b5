--------------------------- MODULE WebSessionProofs ---------------------------
(***************************************************************************)
(* Proofs about WebSession, for any number of tabs, users, tokens and      *)
(* clicks.                                                                 *)
(***************************************************************************)
EXTENDS WebSession, TLAPS

\* As TypeOK has it, and no fetch brings a token that was not minted; what each slot of a
\* tab is used for.
Types == /\ TypeOK
         /\ \A t \in Tabs, s \in Slots : fetch[t][s].tok <= minted
         /\ \A t \in Tabs : /\ fetch[t]["prime"].kind \in {"none", "csrf"}
                            /\ fetch[t]["query"].kind \in {"none", "me"}
                            /\ fetch[t]["call"].kind # "me"

\* The fetch in the slot s is about to bring t a token.
Brings(t, s) == Fetching(t, s) /\ fetch[t][s].step = "back" /\ fetch[t][s].ok

\* The document that fetched the cookie's token last has one such fetch at most, which
\* brings that token; without one it has the token.
Tokens == \A t \in Tabs \ crossed :
    /\ ~(Fetching(t, "prime") /\ Fetching(t, "call"))
    /\ last = t => /\ \A s \in {"prime", "call"} : Brings(t, s) => fetch[t][s].tok = csrf
                   /\ Brings(t, "prime") \/ Brings(t, "call") \/ token[t] = csrf

\* An account that was left is neither the browser's nor on its way to the tab.
Clean == \A t \in Tabs : left[t] # None =>
    /\ me[t] # left[t] /\ session # left[t]
    /\ fetch[t]["query"].ok => fetch[t]["query"].who # left[t]

\* The inductive invariant.
Inv == Types /\ Tokens /\ Clean

-----------------------------------------------------------------------------
LEMMA Bounds == MaxTokens \in Nat /\ MaxActs \in Nat /\ MaxLapses \in Nat
<1>. QED BY BoundsAreNatural

LEMMA InvInit == Init => Inv
<1>. SUFFICES ASSUME Init PROVE Inv OBVIOUS
<1>. USE BoundsAreNatural
<1>1. Idle \in Fetches /\ Idle.kind = "none" /\ ~Idle.ok /\ Idle.tok = 0
  BY DEF Idle, Fetch, Fetches, Kinds
<1>2. fetch \in [Tabs -> [Slots -> Fetches]] BY <1>1 DEF Init
<1>3. \A t \in Tabs, s \in Slots : fetch[t][s] = Idle BY DEF Init
<1>4. TypeOK BY <1>2 DEF Init, TypeOK, Pages
<1>5. Types BY <1>1, <1>3, <1>4 DEF Types, Slots, Init
<1>6. Tokens /\ Clean
  BY <1>1, <1>3 DEF Tokens, Clean, Init, Fetching, Slots, Brings
<1>. QED BY <1>5, <1>6 DEF Inv

LEMMA FetchFacts ==
    ASSUME NEW kind \in Kinds, NEW who \in Users \union {None}, NEW ok \in BOOLEAN
    PROVE  /\ Fetch(kind, who, ok) \in Fetches
           /\ Fetch(kind, who, ok).kind = kind /\ Fetch(kind, who, ok).step = "sent"
           /\ Fetch(kind, who, ok).ok = ok /\ Fetch(kind, who, ok).tok = 0
           /\ ok => Fetch(kind, who, ok).who = who
<1>. 0 \in 0..MaxTokens BY BoundsAreNatural
<1>. QED BY DEF Fetch, Fetches

LEMMA Constants ==
    /\ Idle \in Fetches /\ Idle.kind = "none" /\ ~Idle.ok /\ Idle.tok = 0
    /\ GetToken \in Fetches /\ GetToken.kind = "csrf" /\ GetToken.step = "sent"
    /\ GetToken.tok = 0
<1>1. "none" \in Kinds /\ "csrf" \in Kinds BY DEF Kinds
<1>2. (session # None) \in BOOLEAN OBVIOUS
<1>3. None \in Users \union {None} OBVIOUS
<1>. QED BY <1>1, <1>2, <1>3, FetchFacts DEF Idle, GetToken

LEMMA PutFacts ==
    ASSUME TypeOK, NEW t \in Tabs, NEW s \in Slots, NEW f \in Fetches, Put(t, s, f)
    PROVE  /\ fetch' \in [Tabs -> [Slots -> Fetches]]
           /\ fetch'[t][s] = f
           /\ \A u \in Tabs, r \in Slots : u # t \/ r # s => fetch'[u][r] = fetch[u][r]
<1>. QED BY DEF Put, TypeOK

\* A step that changes one slot, and brings or takes no token.
LEMMA SlotStep ==
    ASSUME Inv, NEW t \in Tabs, NEW s \in Slots, NEW f \in Fetches, Put(t, s, f),
           f.tok <= minted, ~Brings(t, s),
           s = "prime" => f.kind \in {"none", "csrf"},
           s = "query" => f.kind \in {"none", "me"},
           s = "call" => f.kind # "me",
           f.kind = "csrf" => Fetching(t, s) /\ ~(f.step = "back" /\ f.ok),
           s = "query" /\ f.ok /\ left[t] # None => f.who # left[t],
           UNCHANGED <<cookies, token, me, crossed>>,
           \A u \in Tabs : left'[u] \in {left[u], None}, left' \in [Tabs -> Users \union {None}],
           page' \in [Tabs -> Pages], failed' \in [Tabs -> BOOLEAN],
           acts' \in 0..MaxActs, lapses' \in 0..MaxLapses
    PROVE  Inv'
<1>. USE DEF cookies
<1>1. /\ fetch' \in [Tabs -> [Slots -> Fetches]] /\ fetch'[t][s] = f
      /\ \A u \in Tabs, r \in Slots : u # t \/ r # s => fetch'[u][r] = fetch[u][r]
  BY PutFacts DEF Inv, Types
<1>2. Types'
  <2>1. TypeOK' BY <1>1 DEF Inv, Types, TypeOK
  <2>2. \A u \in Tabs, r \in Slots : fetch'[u][r].tok <= minted' BY <1>1 DEF Inv, Types
  <2>3. ASSUME NEW u \in Tabs
        PROVE  /\ fetch'[u]["prime"].kind \in {"none", "csrf"}
               /\ fetch'[u]["query"].kind \in {"none", "me"}
               /\ fetch'[u]["call"].kind # "me"
    BY <1>1 DEF Inv, Types, Slots
  <2>. QED BY <2>1, <2>2, <2>3 DEF Types
<1>3. Tokens'
  <2>1. \A u \in Tabs, r \in Slots : Fetching(u, r)' => Fetching(u, r)
    BY <1>1 DEF Fetching
  <2>2. \A u \in Tabs, r \in {"prime", "call"} :
          /\ Brings(u, r)' <=> Brings(u, r)
          /\ Brings(u, r) => fetch'[u][r] = fetch[u][r]
    BY <1>1 DEF Brings, Fetching, Slots
  <2>. QED BY <2>1, <2>2 DEF Inv, Tokens, Slots
<1>4. Clean' BY <1>1 DEF Inv, Clean, Slots
<1>. QED BY <1>2, <1>3, <1>4 DEF Inv

\* A step that changes no fetch.
LEMMA PageStep ==
    ASSUME Inv, UNCHANGED <<csrf, minted, last, token, fetch, crossed, left>>,
           session' \in {session, None},
           me' \in [Tabs -> Users \union {None}], \A u \in Tabs : me'[u] \in {me[u], None},
           page' \in [Tabs -> Pages], failed' \in [Tabs -> BOOLEAN],
           acts' \in 0..MaxActs, lapses' \in 0..MaxLapses
    PROVE  Inv'
<1>1. Types' BY DEF Inv, Types, TypeOK
<1>2. Tokens' BY DEF Inv, Tokens, Brings, Fetching
<1>3. Clean' BY DEF Inv, Clean
<1>. QED BY <1>1, <1>2, <1>3 DEF Inv

-----------------------------------------------------------------------------
LEMMA BrowserSteps ==
    ASSUME Inv, NEW t \in Tabs,
           (\E p \in Entries : Load(t, p)) \/ \E s \in Slots : Answer(t, s) \/ Refuse(t, s)
    PROVE  Inv'
<1>0. TypeOK /\ fetch \in [Tabs -> [Slots -> Fetches]] BY DEF Inv, Types, TypeOK
<1>1. ASSUME NEW p \in Entries, Load(t, p) PROVE Inv'
  <2>2. /\ GetToken \in Fetches /\ GetToken.kind = "csrf" /\ GetToken.step = "sent"
        /\ GetToken.tok = 0
    BY Constants
  <2>3. Idle \in Fetches /\ Idle.kind = "none" /\ Idle.tok = 0 /\ ~Idle.ok
    BY Constants
  <2>4. /\ fetch' \in [Tabs -> [Slots -> Fetches]]
        /\ fetch'[t]["prime"] = GetToken /\ fetch'[t]["call"] = Idle /\ fetch'[t]["query"] = Idle
        /\ \A u \in Tabs \ {t} : fetch'[u] = fetch[u]
    BY <1>0, <1>1, <2>2, <2>3 DEF Load, Slots
  <2>5. /\ UNCHANGED <<session, csrf, minted, lapses>>
        /\ last' = IF last = t THEN None ELSE last
        /\ crossed' = crossed \ {t} /\ left' = [left EXCEPT ![t] = None]
        /\ me' = [me EXCEPT ![t] = None] /\ token' = [token EXCEPT ![t] = 0]
    BY <1>1 DEF Load
  <2>6. Types'
    <3>1. p \in Pages BY EntriesArePages DEF Pages, Public
    <3>2. TypeOK' BY <1>0, <1>1, <2>4, <3>1, BoundsAreNatural DEF Load, TypeOK, Act
    <3>3. ASSUME NEW u \in Tabs, NEW s \in Slots PROVE fetch'[u][s].tok <= minted'
      <4>1. minted \in Nat BY <1>0, BoundsAreNatural DEF TypeOK
      <4>. QED BY <2>2, <2>3, <2>4, <2>5, <4>1 DEF Inv, Types, Slots
    <3>. QED BY <2>2, <2>3, <2>4, <3>2, <3>3 DEF Inv, Types
  <2>7. Tokens'
    <3>. SUFFICES ASSUME NEW u \in Tabs \ crossed'
                  PROVE  /\ ~(Fetching(u, "prime")' /\ Fetching(u, "call")')
                         /\ last' = u =>
                              /\ \A s \in {"prime", "call"} :
                                    Brings(u, s)' => fetch'[u][s].tok = csrf'
                              /\ Brings(u, "prime")' \/ Brings(u, "call")' \/ token'[u] = csrf'
      BY DEF Tokens
    <3>1. CASE u = t
      <4>1. last' # t BY <2>5, NoneIsNobody
      <4>. QED BY <2>2, <2>3, <2>4, <3>1, <4>1 DEF Fetching
    <3>2. CASE u # t
      <4>1. /\ u \notin crossed /\ fetch'[u] = fetch[u] /\ token'[u] = token[u]
            /\ last' = u => last = u
        BY <1>0, <2>4, <2>5, <3>2, NoneIsNobody DEF TypeOK
      <4>. QED BY <2>5, <4>1 DEF Inv, Tokens, Brings, Fetching
    <3>. QED BY <3>1, <3>2
  <2>8. Clean' BY <1>0, <2>3, <2>4, <2>5 DEF Inv, Clean, TypeOK
  <2>. QED BY <2>6, <2>7, <2>8 DEF Inv
<1>2. ASSUME NEW s \in Slots, Answer(t, s) PROVE Inv'
  <2>. DEFINE f == fetch[t][s]
  <2>1. /\ f \in Fetches /\ f.step = "sent" /\ f.kind # "none"
        /\ UNCHANGED <<acts, lapses, page, token, me, failed, crossed>>
        /\ session' = CASE f.ok /\ f.kind \in SignIns -> f.who
                        [] f.ok /\ f.kind = "logout" -> None
                        [] OTHER -> session
        /\ left' = [u \in Tabs |-> IF f.ok /\ f.kind \in SignIns /\ left[u] = f.who
                                    THEN None ELSE left[u]]
    BY <1>0, <1>2 DEF Answer
  <2>2. session' \in Users \union {None} /\ left' \in [Tabs -> Users \union {None}]
    BY <1>0, <2>1 DEF TypeOK, Fetches
  <2>3. \A u \in Tabs : left'[u] # None => left'[u] = left[u] /\ session' # left'[u]
    BY <2>1 DEF Inv, Clean
  <2>4. CASE f.ok /\ f.kind = "csrf"
    <3>. DEFINE g == [f EXCEPT !.step = "back", !.tok = minted']
    <3>1. /\ minted < MaxTokens /\ minted' = minted + 1 /\ csrf' = minted' /\ last' = t
          /\ Put(t, s, g) /\ minted' \in 0..MaxTokens /\ minted \in Nat
      <4>1. minted \in 0..MaxTokens BY <1>0 DEF TypeOK
      <4>2. Issue(t, s) BY <1>2, <2>4 DEF Answer
      <4>. QED BY <4>1, <4>2, Bounds DEF Issue
    <3>2. g \in Fetches /\ g.kind = f.kind /\ g.ok /\ g.who = f.who /\ g.step = "back"
          /\ g.tok = minted'
      BY <2>1, <2>4, <3>1 DEF Fetches
    <3>3. /\ fetch' \in [Tabs -> [Slots -> Fetches]] /\ fetch'[t][s] = g
          /\ \A u \in Tabs, r \in Slots : u # t \/ r # s => fetch'[u][r] = fetch[u][r]
      BY <1>0, <3>1, <3>2, PutFacts
    <3>4. s # "query" BY <2>4 DEF Inv, Types
    <3>5. Types'
      <4>1. token \in [Tabs -> 0..minted']
        BY <1>0, <3>1 DEF TypeOK
      <4>2. csrf' \in 0..minted' /\ csrf' # 0 BY <3>1
      <4>3. TypeOK' BY <1>0, <2>1, <2>2, <3>1, <3>3, <4>1, <4>2 DEF TypeOK
      <4>4. ASSUME NEW u \in Tabs, NEW r \in Slots PROVE fetch'[u][r].tok <= minted'
        <5>1. fetch[u][r].tok <= minted /\ fetch[u][r].tok \in Nat
          BY <1>0 DEF Inv, Types, Fetches
        <5>2. CASE u = t /\ r = s
          <6>1. fetch'[u][r].tok = minted' BY <3>2, <3>3, <5>2
          <6>. QED BY <3>1, <6>1
        <5>3. CASE ~(u = t /\ r = s) BY <3>1, <3>3, <5>1, <5>3
        <5>. QED BY <5>2, <5>3
      <4>5. ASSUME NEW u \in Tabs, NEW r \in Slots PROVE fetch'[u][r].kind = fetch[u][r].kind
        BY <3>2, <3>3
      <4>. QED BY <4>3, <4>4, <4>5 DEF Inv, Types, Slots
    <3>6. Tokens'
      <4>1. \A u \in Tabs, r \in Slots : Fetching(u, r)' = Fetching(u, r)
        BY <3>2, <3>3 DEF Fetching
      <4>2. Brings(t, s)' /\ fetch'[t][s].tok = csrf'
        BY <2>4, <3>1, <3>2, <3>3 DEF Brings, Fetching
      <4>3. Fetching(t, s) BY <2>4 DEF Fetching
      <4>. QED BY <2>1, <3>1, <3>4, <4>1, <4>2, <4>3 DEF Inv, Tokens, Slots, Brings
    <3>7. Clean'
      <4>1. "query" \in Slots BY DEF Slots
      <4>. QED BY <2>1, <2>3, <3>3, <3>4, <4>1 DEF Inv, Clean
    <3>. QED BY <3>5, <3>6, <3>7 DEF Inv
  <2>5. CASE ~(f.ok /\ f.kind = "csrf")
    <3>. DEFINE g == [f EXCEPT !.step = "back"]
    <3>1. Put(t, s, g) /\ UNCHANGED <<csrf, minted, last>>
      BY <1>2, <2>5 DEF Answer
    <3>2. g \in Fetches /\ g.kind = f.kind /\ g.ok = f.ok /\ g.who = f.who /\ g.tok = f.tok
      BY <2>1 DEF Fetches
    <3>3. /\ fetch' \in [Tabs -> [Slots -> Fetches]] /\ fetch'[t][s] = g
          /\ \A u \in Tabs, r \in Slots : u # t \/ r # s => fetch'[u][r] = fetch[u][r]
      BY <1>0, <3>1, <3>2, PutFacts
    <3>4. ASSUME NEW u \in Tabs, NEW r \in Slots
          PROVE  /\ fetch'[u][r].kind = fetch[u][r].kind /\ fetch'[u][r].ok = fetch[u][r].ok
                 /\ fetch'[u][r].who = fetch[u][r].who /\ fetch'[u][r].tok = fetch[u][r].tok
      BY <3>2, <3>3
    <3>5. Types'
      <4>1. TypeOK' BY <1>0, <2>1, <2>2, <3>1, <3>3 DEF TypeOK
      <4>. QED BY <3>1, <3>4, <4>1 DEF Inv, Types, Slots
    <3>6. Tokens'
      <4>1. \A u \in Tabs, r \in Slots : Fetching(u, r)' = Fetching(u, r)
        BY <3>4 DEF Fetching
      <4>2. \A u \in Tabs, r \in Slots : Brings(u, r)' = Brings(u, r)
        <5>. SUFFICES ASSUME NEW u \in Tabs, NEW r \in Slots PROVE Brings(u, r)' = Brings(u, r)
          OBVIOUS
        <5>1. CASE u = t /\ r = s BY <2>5, <3>2, <3>3, <5>1 DEF Brings, Fetching
        <5>2. CASE ~(u = t /\ r = s) BY <3>3, <5>2 DEF Brings, Fetching
        <5>. QED BY <5>1, <5>2
      <4>. QED BY <2>1, <3>1, <3>4, <4>1, <4>2 DEF Inv, Tokens, Slots
    <3>7. Clean'
      <4>1. "query" \in Slots BY DEF Slots
      <4>. QED BY <2>1, <2>3, <3>4, <4>1 DEF Inv, Clean
    <3>. QED BY <3>5, <3>6, <3>7 DEF Inv
  <2>. QED BY <2>4, <2>5
<1>3. ASSUME NEW s \in Slots, Refuse(t, s) PROVE Inv'
  <2>. DEFINE f == fetch[t][s]
              g == [f EXCEPT !.step = "back", !.who = None, !.ok = FALSE]
  <2>1. /\ f \in Fetches /\ f.step = "sent" /\ Put(t, s, g)
        /\ UNCHANGED <<cookies, acts, page, token, me, failed, history>>
    BY <1>0, <1>3 DEF Refuse
  <2>2. g \in Fetches /\ g.kind = f.kind /\ ~g.ok /\ g.tok = f.tok
    BY <2>1 DEF Fetches
  <2>3. ~Brings(t, s) BY <2>1 DEF Brings
  <2>4. lapses' \in 0..MaxLapses
    <3>1. lapses \in 0..MaxLapses BY <1>0 DEF TypeOK
    <3>2. lapses < MaxLapses /\ lapses' = lapses + 1 BY <1>3 DEF Refuse, Lapse
    <3>. QED BY <3>1, <3>2, Bounds
  <2>5. g.tok <= minted BY <2>2 DEF Inv, Types
  <2>6. /\ s = "prime" => g.kind \in {"none", "csrf"}
        /\ s = "query" => g.kind \in {"none", "me"}
        /\ s = "call" => g.kind # "me"
        /\ g.kind = "csrf" => Fetching(t, s)
    BY <2>2 DEF Inv, Types, Fetching
  <2>7. /\ \A u \in Tabs : left'[u] \in {left[u], None}
        /\ left' \in [Tabs -> Users \union {None}] /\ page' \in [Tabs -> Pages]
        /\ failed' \in [Tabs -> BOOLEAN] /\ acts' \in 0..MaxActs
        /\ UNCHANGED <<cookies, token, me, crossed>>
    BY <1>0, <2>1 DEF TypeOK, history
  <2>. QED BY <2>1, <2>2, <2>3, <2>4, <2>5, <2>6, <2>7, SlotStep
<1>. QED BY <1>1, <1>2, <1>3

-----------------------------------------------------------------------------
LEMMA CallStep ==
    ASSUME Inv, NEW t \in Tabs, NEW who \in Users \union {None},
           NEW kind \in {"login", "verify", "signup", "forgot", "reset", "logout"},
           Call(t, kind, who), UNCHANGED page
    PROVE  Inv'
<1>0. TypeOK BY DEF Inv, Types
<1>1. PICK w \in Users \union {None}, ok \in BOOLEAN : Put(t, "call", Fetch(kind, w, ok))
  <2>1. CASE kind = "logout"
    <3>1. (session # None /\ csrf # 0 /\ token[t] = csrf) \in BOOLEAN OBVIOUS
    <3>2. session \in Users \union {None} BY <1>0 DEF TypeOK
    <3>. QED BY <2>1, <3>1, <3>2 DEF Call
  <2>2. CASE kind # "logout" BY <2>2 DEF Call
  <2>. QED BY <2>1, <2>2
<1>. DEFINE f == Fetch(kind, w, ok)
<1>2. f \in Fetches /\ f.kind = kind /\ f.tok = 0
  BY FetchFacts DEF Kinds, SignIns
<1>3. "call" \in Slots /\ fetch[t]["call"] = Idle /\ Idle.kind = "none"
  BY Constants DEF Slots, Call
<1>4. ~Brings(t, "call") BY <1>3 DEF Brings, Fetching
<1>5. f.tok <= minted
  <2>1. minted \in 0..MaxTokens BY <1>0 DEF TypeOK
  <2>. QED BY <1>2, <2>1, Bounds
<1>6. acts' \in 0..MaxActs
  <2>1. acts \in 0..MaxActs BY <1>0 DEF TypeOK
  <2>. QED BY <2>1, Bounds DEF Call, Act
<1>7. /\ \A u \in Tabs : left'[u] \in {left[u], None}
      /\ left' \in [Tabs -> Users \union {None}] /\ page' \in [Tabs -> Pages]
      /\ failed' \in [Tabs -> BOOLEAN] /\ lapses' \in 0..MaxLapses
      /\ UNCHANGED <<cookies, token, me, crossed>>
  BY <1>0 DEF TypeOK, Call, history
<1>8. f.kind # "csrf" /\ f.kind # "me" BY <1>2
<1>. QED BY <1>1, <1>2, <1>3, <1>4, <1>5, <1>6, <1>7, <1>8, SlotStep

LEMMA PageSteps ==
    ASSUME Inv, NEW t \in Tabs,
           Submit(t) \/ Follow(t) \/ FetchMe(t) \/ ToLogin(t) \/ Collect(t) \/ Logout(t)
    PROVE  Inv'
<1>0. TypeOK BY DEF Inv, Types
<1>1. CASE Submit(t)
  <2>1. CASE \E u \in Users : LoginSubmit(t, u) \/ TryVerify(t, u)
    BY <2>1, CallStep DEF LoginSubmit, TryVerify, Call
  <2>2. CASE SignupSubmit(t, None) \/ ForgotSubmit(t, None) \/ ResetSubmit(t, None)
    BY <2>2, CallStep DEF SignupSubmit, ForgotSubmit, ResetSubmit, Call
  <2>. QED BY <1>1, <2>1, <2>2 DEF Submit
<1>2. CASE Logout(t) BY <1>2, CallStep DEF Logout, Call
<1>3. CASE Follow(t)
  <2>1. acts' \in 0..MaxActs
    <3>1. acts \in 0..MaxActs BY <1>0 DEF TypeOK
    <3>. QED BY <1>3, <3>1, Bounds DEF Follow, Act
  <2>2. page' \in [Tabs -> Pages] BY <1>0, <1>3 DEF Follow, Links, TypeOK, Pages, Public
  <2>3. UNCHANGED <<session, csrf, minted, last, token, fetch, crossed, left, me, failed, lapses>>
    BY <1>3 DEF Follow, cookies, history
  <2>. QED BY <1>0, <2>1, <2>2, <2>3, PageStep DEF TypeOK
<1>4. CASE ToLogin(t)
  <2>1. page' \in [Tabs -> Pages] BY <1>0, <1>4 DEF ToLogin, TypeOK, Pages, Public
  <2>2. UNCHANGED <<session, csrf, minted, last, token, fetch, crossed, left, me, failed,
                    acts, lapses>>
    BY <1>4 DEF ToLogin, cookies, history
  <2>. QED BY <1>0, <2>1, <2>2, PageStep DEF TypeOK
<1>5. CASE Collect(t)
  <2>1. /\ me' \in [Tabs -> Users \union {None}] /\ \A u \in Tabs : me'[u] \in {me[u], None}
        /\ failed' \in [Tabs -> BOOLEAN]
    BY <1>0, <1>5 DEF Collect, TypeOK
  <2>2. UNCHANGED <<session, csrf, minted, last, token, fetch, crossed, left, page, acts, lapses>>
    BY <1>5 DEF Collect, cookies, history
  <2>. QED BY <1>0, <2>1, <2>2, PageStep DEF TypeOK
<1>6. CASE FetchMe(t)
  <2>. DEFINE f == Fetch("me", session, session # None)
  <2>1. Put(t, "query", f) /\ fetch[t]["query"] = Idle /\ "query" \in Slots
    BY <1>6 DEF FetchMe, Slots
  <2>2. /\ f \in Fetches /\ f.kind = "me" /\ f.tok = 0
        /\ f.ok => f.who = session /\ session # None
    <3>1. session \in Users \union {None} /\ (session # None) \in BOOLEAN /\ "me" \in Kinds
      BY <1>0 DEF TypeOK, Kinds
    <3>. QED BY <3>1, FetchFacts
  <2>3. ~Brings(t, "query") BY <2>1, Constants DEF Brings, Fetching
  <2>4. f.tok <= minted
    <3>1. minted \in 0..MaxTokens BY <1>0 DEF TypeOK
    <3>. QED BY <2>2, <3>1, Bounds
  <2>5. f.ok /\ left[t] # None => f.who # left[t] BY <2>2 DEF Inv, Clean
  <2>6. /\ \A u \in Tabs : left'[u] \in {left[u], None}
        /\ left' \in [Tabs -> Users \union {None}] /\ page' \in [Tabs -> Pages]
        /\ acts' \in 0..MaxActs /\ lapses' \in 0..MaxLapses
        /\ UNCHANGED <<cookies, token, me, crossed>>
    BY <1>0, <1>6 DEF TypeOK, FetchMe, history
  <2>7. failed' \in [Tabs -> BOOLEAN]
    <3>1. (failed[t] /\ me[t] # None) \in BOOLEAN OBVIOUS
    <3>. QED BY <1>0, <1>6, <3>1 DEF FetchMe, TypeOK
  <2>. QED BY <2>1, <2>2, <2>3, <2>4, <2>5, <2>6, <2>7, SlotStep
<1>. QED BY <1>1, <1>2, <1>3, <1>4, <1>5, <1>6

-----------------------------------------------------------------------------
\* The continuations of the fetches.
LEMMA TokenSteps ==
    ASSUME Inv, NEW t \in Tabs, Prime(t) \/ Proceed(t)
    PROVE  Inv'
<1>0. TypeOK /\ fetch \in [Tabs -> [Slots -> Fetches]] BY DEF Inv, Types, TypeOK
<1>1. PICK s \in {"prime", "call"} :
        /\ Fetching(t, s) /\ fetch[t][s].step = "back" /\ TakeToken(t, fetch[t][s])
        /\ Put(t, s, Idle)
        /\ UNCHANGED <<cookies, acts, lapses, me, history>>
  BY DEF Prime, Proceed, Back, Fetching
<1>2. page' \in [Tabs -> Pages] /\ failed' \in [Tabs -> BOOLEAN]
  <2>1. CASE Prime(t) BY <1>0, <2>1 DEF Prime, TypeOK
  <2>2. CASE Proceed(t)
    <3>1. (failed[t] /\ me[t] # None) \in BOOLEAN OBVIOUS
    <3>. QED BY <1>0, <2>2, <3>1 DEF Proceed, Enter, TypeOK, Pages
  <2>. QED BY <2>1, <2>2
<1>. DEFINE f == fetch[t][s]
<1>3. s \in Slots BY DEF Slots
<1>4. /\ fetch' \in [Tabs -> [Slots -> Fetches]] /\ fetch'[t][s] = Idle
      /\ \A u \in Tabs, r \in Slots : u # t \/ r # s => fetch'[u][r] = fetch[u][r]
  BY <1>0, <1>1, <1>3, Constants, PutFacts
<1>5. token' = [token EXCEPT ![t] = IF f.ok THEN f.tok ELSE @] BY <1>1 DEF TakeToken
<1>6. /\ minted \in Nat /\ f.tok \in 0..minted
  <2>1. minted \in 0..MaxTokens /\ f.tok \in 0..MaxTokens /\ f.tok <= minted
    BY <1>0, <1>3 DEF Inv, Types, TypeOK, Fetches
  <2>. QED BY <2>1, Bounds
<1>7. Types'
  <2>1. token' \in [Tabs -> 0..minted] BY <1>0, <1>5, <1>6 DEF TypeOK
  <2>2. TypeOK' BY <1>0, <1>1, <1>2, <1>4, <2>1 DEF TypeOK, cookies, history
  <2>3. ASSUME NEW u \in Tabs, NEW r \in Slots PROVE fetch'[u][r].tok <= minted'
    <3>1. minted' = minted BY <1>1 DEF cookies
    <3>2. CASE u = t /\ r = s BY <1>4, <1>6, <3>1, <3>2, Constants
    <3>3. CASE ~(u = t /\ r = s) BY <1>4, <3>1, <3>3 DEF Inv, Types
    <3>. QED BY <3>2, <3>3
  <2>. QED BY <1>4, <2>2, <2>3, Constants DEF Inv, Types, Slots
<1>8. Tokens'
  <2>. SUFFICES ASSUME NEW u \in Tabs \ crossed'
                PROVE  /\ ~(Fetching(u, "prime")' /\ Fetching(u, "call")')
                       /\ last' = u =>
                            /\ \A r \in {"prime", "call"} :
                                  Brings(u, r)' => fetch'[u][r].tok = csrf'
                            /\ Brings(u, "prime")' \/ Brings(u, "call")' \/ token'[u] = csrf'
    BY DEF Tokens
  <2>0. UNCHANGED <<csrf, last, crossed>> BY <1>1 DEF cookies, history
  <2>1. CASE u = t
    <3>1. \A r \in {"prime", "call"} : ~Fetching(t, r)'
      <4>1. \A r \in {"prime", "call"} : r # s => ~Fetching(t, r)
        BY <1>1, <2>0, <2>1 DEF Inv, Tokens
      <4>. QED BY <1>4, <4>1, Constants DEF Fetching, Slots
    <3>2. CASE f.ok
      <4>1. Brings(t, s) BY <1>1, <3>2 DEF Brings
      <4>2. token'[t] = f.tok BY <1>0, <1>5, <3>2 DEF TypeOK
      <4>. QED BY <2>0, <2>1, <3>1, <4>1, <4>2 DEF Inv, Tokens, Brings
    <3>3. CASE ~f.ok
      <4>1. ~Brings(t, "prime") /\ ~Brings(t, "call")
        BY <1>1, <2>0, <2>1, <3>3 DEF Inv, Tokens, Brings
      <4>2. token'[t] = token[t] BY <1>0, <1>5, <3>3 DEF TypeOK
      <4>. QED BY <2>0, <2>1, <3>1, <4>1, <4>2 DEF Inv, Tokens, Brings
    <3>. QED BY <3>2, <3>3
  <2>2. CASE u # t
    <3>1. fetch'[u]["prime"] = fetch[u]["prime"] /\ fetch'[u]["call"] = fetch[u]["call"]
      BY <1>4, <2>2 DEF Slots
    <3>2. token'[u] = token[u] BY <1>0, <1>5, <2>2 DEF TypeOK
    <3>. QED BY <2>0, <3>1, <3>2 DEF Inv, Tokens, Brings, Fetching
  <2>. QED BY <2>1, <2>2
<1>9. Clean'
  <2>1. \A u \in Tabs : fetch'[u]["query"] = fetch[u]["query"] BY <1>4 DEF Slots
  <2>. QED BY <1>1, <2>1 DEF Inv, Clean, cookies, history
<1>. QED BY <1>7, <1>8, <1>9 DEF Inv

LEMMA FormSteps ==
    ASSUME Inv, NEW t \in Tabs, SignedIn(t) \/ FormDone(t)
    PROVE  Inv'
<1>0. /\ TypeOK /\ fetch \in [Tabs -> [Slots -> Fetches]] /\ "call" \in Slots
  BY DEF Inv, Types, TypeOK, Slots
<1>. DEFINE f == fetch[t]["call"]
<1>1. /\ f \in Fetches /\ Idle.tok <= minted /\ f.tok <= minted
  <2>1. minted \in 0..MaxTokens BY <1>0 DEF TypeOK
  <2>2. Idle.tok <= minted BY <2>1, Bounds, Constants
  <2>. QED BY <1>0, <2>2 DEF Inv, Types
<1>2. ASSUME FormDone(t) PROVE Inv'
  <2>1. f.kind \in {"signup", "forgot", "reset", "pause"} BY <1>2 DEF FormDone, Back
  <2>2. PICK g \in {Idle, [f EXCEPT !.kind = "pause"]} : Put(t, "call", g)
    BY <1>2 DEF FormDone
  <2>3. /\ g \in Fetches /\ g.kind \in {"none", "pause"} /\ g.tok <= minted
    <3>1. "pause" \in Kinds BY DEF Kinds
    <3>. QED BY <1>1, <2>2, <3>1, Constants DEF Fetches
  <2>4. ~Brings(t, "call") BY <2>1 DEF Brings, Fetching
  <2>5. page' \in [Tabs -> Pages] BY <1>0, <1>2 DEF FormDone, Next2, TypeOK, Pages, Public
  <2>6. /\ \A u \in Tabs : left'[u] \in {left[u], None}
        /\ left' \in [Tabs -> Users \union {None}] /\ failed' \in [Tabs -> BOOLEAN]
        /\ acts' \in 0..MaxActs /\ lapses' \in 0..MaxLapses
        /\ UNCHANGED <<cookies, token, me, crossed>>
    BY <1>0, <1>2 DEF TypeOK, FormDone, history
  <2>7. g.kind # "csrf" /\ g.kind # "me" BY <2>3
  <2>. QED BY <1>0, <2>2, <2>3, <2>4, <2>5, <2>6, <2>7, SlotStep
<1>3. ASSUME SignedIn(t), ~f.ok PROVE Inv'
  <2>1. f.kind \in {"login", "verify"} /\ Put(t, "call", Idle)
    BY <1>3 DEF SignedIn, Back, SignIns
  <2>2. ~Brings(t, "call") BY <2>1 DEF Brings, Fetching
  <2>3. /\ \A u \in Tabs : left'[u] \in {left[u], None}
        /\ left' \in [Tabs -> Users \union {None}] /\ failed' \in [Tabs -> BOOLEAN]
        /\ acts' \in 0..MaxActs /\ lapses' \in 0..MaxLapses
        /\ page' \in [Tabs -> Pages] /\ UNCHANGED <<cookies, token, me, crossed>>
    BY <1>0, <1>3 DEF TypeOK, SignedIn
  <2>. QED BY <1>0, <1>1, <2>1, <2>2, <2>3, Constants, SlotStep
<1>4. ASSUME SignedIn(t), f.ok PROVE Inv'
  <2>1. /\ f.kind \in {"login", "verify"} /\ Put(t, "call", GetToken)
        /\ crossed' = IF Fetching(t, "prime") THEN crossed \union {t} ELSE crossed
        /\ UNCHANGED <<cookies, acts, lapses, page, token, me, failed, left>>
    BY <1>4 DEF SignedIn, Back, SignIns
  <2>2. /\ fetch' \in [Tabs -> [Slots -> Fetches]] /\ fetch'[t]["call"] = GetToken
        /\ \A u \in Tabs, r \in Slots : u # t \/ r # "call" => fetch'[u][r] = fetch[u][r]
    BY <1>0, <2>1, Constants, PutFacts
  <2>3. Types'
    <3>1. TypeOK' BY <1>0, <2>1, <2>2 DEF TypeOK, cookies
    <3>2. ASSUME NEW u \in Tabs, NEW r \in Slots PROVE fetch'[u][r].tok <= minted'
      <4>1. minted' = minted /\ minted \in 0..MaxTokens BY <1>0, <2>1 DEF cookies, TypeOK
      <4>2. CASE u = t /\ r = "call" BY <2>2, <4>1, <4>2, Bounds, Constants
      <4>3. CASE ~(u = t /\ r = "call") BY <2>2, <4>1, <4>3 DEF Inv, Types
      <4>. QED BY <4>2, <4>3
    <3>. QED BY <2>2, <3>1, <3>2, Constants DEF Inv, Types, Slots
  <2>4. Tokens'
    <3>. SUFFICES ASSUME NEW u \in Tabs \ crossed'
                  PROVE  /\ ~(Fetching(u, "prime")' /\ Fetching(u, "call")')
                         /\ last' = u =>
                              /\ \A r \in {"prime", "call"} :
                                    Brings(u, r)' => fetch'[u][r].tok = csrf'
                              /\ Brings(u, "prime")' \/ Brings(u, "call")' \/ token'[u] = csrf'
      BY DEF Tokens
    <3>1. CASE u = t
      <4>1. ~Fetching(t, "prime") /\ t \notin crossed BY <2>1, <3>1
      <4>2. ~Fetching(t, "prime")' BY <2>2, <4>1 DEF Fetching, Slots
      <4>3. ~Brings(t, "prime") /\ ~Brings(t, "call") BY <2>1, <4>1 DEF Brings, Fetching
      <4>4. ~Brings(t, "call")' BY <2>2, Constants DEF Brings
      <4>5. last = t => token[t] = csrf BY <4>1, <4>3 DEF Inv, Tokens
      <4>. QED BY <2>1, <3>1, <4>2, <4>4, <4>5 DEF Brings, cookies
    <3>2. CASE u # t
      <4>1. fetch'[u]["prime"] = fetch[u]["prime"] /\ fetch'[u]["call"] = fetch[u]["call"]
        BY <2>2, <3>2 DEF Slots
      <4>2. u \notin crossed BY <2>1
      <4>. QED BY <2>1, <4>1, <4>2 DEF Inv, Tokens, Brings, Fetching, cookies
    <3>. QED BY <3>1, <3>2
  <2>5. Clean'
    <3>1. \A u \in Tabs : fetch'[u]["query"] = fetch[u]["query"] BY <2>2 DEF Slots
    <3>. QED BY <2>1, <3>1 DEF Inv, Clean, cookies
  <2>. QED BY <2>3, <2>4, <2>5 DEF Inv
<1>. QED BY <1>2, <1>3, <1>4

LEMMA AccountSteps ==
    ASSUME Inv, NEW t \in Tabs, GotMe(t) \/ LogoutDone(t)
    PROVE  Inv'
<1>0. /\ TypeOK /\ fetch \in [Tabs -> [Slots -> Fetches]] /\ "call" \in Slots /\ "query" \in Slots
  BY DEF Inv, Types, TypeOK, Slots
<1>1. minted \in 0..MaxTokens /\ Idle.tok <= minted
  <2>1. minted \in 0..MaxTokens BY <1>0 DEF TypeOK
  <2>. QED BY <2>1, Bounds, Constants
<1>2. ASSUME GotMe(t) PROVE Inv'
  <2>. DEFINE f == fetch[t]["query"]
  <2>1. /\ f \in Fetches /\ Put(t, "query", Idle)
        /\ me' = [me EXCEPT ![t] = IF f.ok THEN f.who ELSE @]
        /\ failed' = [failed EXCEPT ![t] = ~f.ok]
        /\ UNCHANGED <<cookies, acts, lapses, page, token, history>>
    BY <1>0, <1>2 DEF GotMe
  <2>2. /\ fetch' \in [Tabs -> [Slots -> Fetches]] /\ fetch'[t]["query"] = Idle
        /\ \A u \in Tabs, r \in Slots : u # t \/ r # "query" => fetch'[u][r] = fetch[u][r]
    BY <1>0, <2>1, Constants, PutFacts
  <2>3. Types'
    <3>1. me' \in [Tabs -> Users \union {None}] /\ failed' \in [Tabs -> BOOLEAN]
      BY <1>0, <2>1 DEF TypeOK, Fetches
    <3>2. TypeOK' BY <1>0, <2>1, <2>2, <3>1 DEF TypeOK, cookies, history
    <3>3. ASSUME NEW u \in Tabs, NEW r \in Slots PROVE fetch'[u][r].tok <= minted'
      <4>1. minted' = minted BY <2>1 DEF cookies
      <4>2. CASE u = t /\ r = "query" BY <1>1, <2>2, <4>1, <4>2
      <4>3. CASE ~(u = t /\ r = "query") BY <2>2, <4>1, <4>3 DEF Inv, Types
      <4>. QED BY <4>2, <4>3
    <3>. QED BY <2>2, <3>2, <3>3, Constants DEF Inv, Types, Slots
  <2>4. Tokens'
    <3>1. \A u \in Tabs : /\ fetch'[u]["prime"] = fetch[u]["prime"]
                          /\ fetch'[u]["call"] = fetch[u]["call"]
      BY <2>2 DEF Slots
    <3>. QED BY <2>1, <3>1 DEF Inv, Tokens, Brings, Fetching, cookies, history
  <2>5. Clean'
    <3>1. \A u \in Tabs \ {t} : me'[u] = me[u] /\ fetch'[u]["query"] = fetch[u]["query"]
      BY <1>0, <2>1, <2>2 DEF TypeOK
    <3>2. me'[t] = IF f.ok THEN f.who ELSE me[t] BY <1>0, <2>1 DEF TypeOK
    <3>3. UNCHANGED <<session, left>> BY <2>1 DEF cookies, history
    <3>. QED BY <2>2, <3>1, <3>2, <3>3, Constants DEF Inv, Clean
  <2>. QED BY <2>3, <2>4, <2>5 DEF Inv
<1>. DEFINE f == fetch[t]["call"]
<1>3. ASSUME LogoutDone(t), ~f.ok PROVE Inv'
  <2>1. Put(t, "call", Idle) /\ f.kind = "logout" BY <1>3 DEF LogoutDone, Back
  <2>2. ~Brings(t, "call") BY <2>1 DEF Brings, Fetching
  <2>3. page' \in [Tabs -> Pages] BY <1>0, <1>3 DEF LogoutDone, TypeOK, Pages, Public
  <2>4. /\ \A u \in Tabs : left'[u] \in {left[u], None}
        /\ left' \in [Tabs -> Users \union {None}] /\ failed' \in [Tabs -> BOOLEAN]
        /\ acts' \in 0..MaxActs /\ lapses' \in 0..MaxLapses
        /\ UNCHANGED <<cookies, token, me, crossed>>
    BY <1>0, <1>3 DEF TypeOK, LogoutDone
  <2>. QED BY <1>0, <1>1, <2>1, <2>2, <2>3, <2>4, Constants, SlotStep
<1>4. ASSUME LogoutDone(t), f.ok PROVE Inv'
  <2>1. /\ f \in Fetches /\ f.kind = "logout" /\ ClearCache(t)
        /\ left' = [left EXCEPT ![t] = IF session = f.who THEN None ELSE f.who]
        /\ page' = [page EXCEPT ![t] = "login"]
        /\ UNCHANGED <<cookies, acts, lapses, token, crossed>>
    BY <1>0, <1>4 DEF LogoutDone, Back
  <2>2. /\ fetch' \in [Tabs -> [Slots -> Fetches]]
        /\ fetch'[t]["call"] = Idle /\ fetch'[t]["query"] = Idle
        /\ fetch'[t]["prime"] = fetch[t]["prime"]
        /\ \A u \in Tabs \ {t} : fetch'[u] = fetch[u]
    BY <1>0, <2>1, Constants DEF ClearCache, Slots
  <2>3. /\ me' = [me EXCEPT ![t] = None] /\ failed' = [failed EXCEPT ![t] = FALSE]
    BY <2>1 DEF ClearCache
  <2>4. Types'
    <3>1. left' \in [Tabs -> Users \union {None}] BY <1>0, <2>1 DEF TypeOK, Fetches
    <3>2. page' \in [Tabs -> Pages] BY <1>0, <2>1 DEF TypeOK, Pages, Public
    <3>3. TypeOK' BY <1>0, <2>1, <2>2, <2>3, <3>1, <3>2 DEF TypeOK, cookies
    <3>4. ASSUME NEW u \in Tabs, NEW r \in Slots PROVE fetch'[u][r].tok <= minted'
      <4>1. minted' = minted BY <2>1 DEF cookies
      <4>. QED BY <1>1, <2>2, <4>1 DEF Inv, Types, Slots
    <3>. QED BY <2>2, <3>3, <3>4, Constants DEF Inv, Types, Slots
  <2>5. Tokens'
    <3>1. ~Fetching(t, "call")' /\ ~Fetching(t, "call")
      BY <2>1, <2>2, Constants DEF Fetching
    <3>2. \A u \in Tabs : fetch'[u]["prime"] = fetch[u]["prime"] BY <2>2
    <3>3. \A u \in Tabs \ {t} : fetch'[u]["call"] = fetch[u]["call"] BY <2>2
    <3>. QED BY <2>1, <3>1, <3>2, <3>3 DEF Inv, Tokens, Brings, Fetching, cookies
  <2>6. Clean'
    <3>1. \A u \in Tabs \ {t} : /\ me'[u] = me[u] /\ left'[u] = left[u]
                                 /\ fetch'[u]["query"] = fetch[u]["query"]
      BY <1>0, <2>1, <2>2, <2>3 DEF TypeOK
    <3>2. me'[t] = None /\ left'[t] = IF session = f.who THEN None ELSE f.who
      BY <1>0, <2>1, <2>3 DEF TypeOK
    <3>3. session' = session BY <2>1 DEF cookies
    <3>. QED BY <2>2, <3>1, <3>2, <3>3, Constants DEF Inv, Clean
  <2>. QED BY <2>4, <2>5, <2>6 DEF Inv
<1>. QED BY <1>2, <1>3, <1>4

-----------------------------------------------------------------------------
LEMMA InvNext == Inv /\ [Next]_vars => Inv'
<1>. SUFFICES ASSUME Inv, [Next]_vars PROVE Inv' OBVIOUS
<1>0. TypeOK BY DEF Inv, Types
<1>1. CASE Expire
  <2>1. lapses' \in 0..MaxLapses
    <3>1. lapses \in 0..MaxLapses BY <1>0 DEF TypeOK
    <3>2. lapses < MaxLapses /\ lapses' = lapses + 1 BY <1>1 DEF Expire, Lapse
    <3>. QED BY <3>1, <3>2, Bounds
  <2>. QED BY <1>0, <1>1, <2>1, PageStep DEF Expire, history, TypeOK
<1>2. CASE UNCHANGED vars BY <1>0, <1>2, PageStep DEF vars, cookies, history, TypeOK
<1>3. ASSUME NEW t \in Tabs, Continue(t) PROVE Inv'
  BY <1>3, TokenSteps, FormSteps, AccountSteps DEF Continue
<1>. QED BY <1>1, <1>2, <1>3, BrowserSteps, PageSteps DEF Next

LEMMA Inductive == Spec => []Inv
<1>. QED BY InvInit, InvNext, PTL DEF Spec

\* Every reachable state is well typed, for any number of tabs, users and tokens.
THEOREM TypeCorrect == Spec => []TypeOK
<1>. QED BY Inductive, PTL DEF Inv, Types

\* The document that fetched the CSRF cookie last can use it, whatever the other tabs do
\* and however the answers interleave (lib/api.ts, fetchCSRF).
THEOREM TokenIsUsable == Spec => []TokenIsLastFetch
<1>1. Inv => TokenIsLastFetch
  <2>. SUFFICES ASSUME Inv, NEW t \in Tabs, last = t, t \notin crossed,
                       ~Fetching(t, "prime"), ~Fetching(t, "call")
                PROVE  token[t] = csrf
    BY DEF TokenIsLastFetch
  <2>. QED BY DEF Inv, Tokens, Brings
<1>. QED BY <1>1, Inductive, PTL

\* A tab does not show the account that it has signed out, whatever was being fetched
\* (useLogout, qc.clear).
THEOREM SignedOutStaysClean == Spec => []SignedOutIsClean
<1>1. Inv => SignedOutIsClean BY DEF Inv, Clean, SignedOutIsClean
<1>. QED BY <1>1, Inductive, PTL
===============================================================================
