------------------------------ MODULE WebSession ------------------------------
(***************************************************************************)
(* The web dashboard's session: the access and CSRF cookies, which all     *)
(* tabs of a browser share, and what each tab keeps in memory, the CSRF    *)
(* token of lib/api.ts and the cached account of useMe.                    *)
(*                                                                         *)
(* A fetch is sent with the cookies and the token of that moment, its      *)
(* answer lands (and sets cookies), and only then its continuation runs;   *)
(* between any two of the three the other tab may do anything.             *)
(* A page has at most one call of its own under way.                       *)
(***************************************************************************)
EXTENDS Naturals

CONSTANTS Tabs, Users, None,
          Entries,     \* the pages that are opened by their address
          MaxTokens,   \* bound: CSRF tokens the server mints
          MaxActs,     \* bound: page loads, links, submits and clicks of the user
          MaxLapses    \* bound: refused or failed fetches and sessions that expire

ASSUME NoneIsNobody == None \notin Users \union Tabs
ASSUME EntriesArePages == Entries \subseteq {"login", "signup", "verify", "forgot", "reset", "app"}
ASSUME BoundsAreNatural == {MaxTokens, MaxActs, MaxLapses} \subseteq Nat

VARIABLES
    session,  \* account of the osm_access cookie, None if absent or expired
    csrf,     \* the osm_csrf cookie: the number of its token, 0 if there is none
    minted,   \* tokens minted so far
    last,     \* the tab whose document fetched the token of the cookie, None if it is gone
    acts,     \* page loads, links, submits and clicks so far
    lapses,   \* refusals, failures and expiries so far
    page,     \* [Tabs -> Pages]
    token,    \* csrfToken of lib/api.ts, 0 for null
    me,       \* the data of the query ["me"]
    failed,   \* that query is in status "error", with or without data
    fetch,    \* [Tabs -> [Slots -> fetches]]
    crossed,  \* tabs whose document had two fetches of a token at once
    left      \* the account a tab has signed out, until anybody signs in to it again

cookies == <<session, csrf, minted, last>>
history == <<crossed, left>>
vars == <<cookies, acts, lapses, page, token, me, failed, fetch, history>>

Public == {"login", "signup", "verify", "forgot", "reset"}
Pages == Public \union {"closed", "app"}
\* The fetch of Providers, the call of a page, the query ["me"].
Slots == {"prime", "call", "query"}
SignIns == {"login", "verify"}
Kinds == SignIns \union {"none", "csrf", "logout", "me", "signup", "forgot", "reset", "pause"}
Fetches == [kind : Kinds, step : {"sent", "back"}, who : Users \union {None},
            ok : BOOLEAN, tok : 0..MaxTokens]

Fetch(kind, who, ok) == [kind |-> kind, step |-> "sent", who |-> IF ok THEN who ELSE None,
                         ok |-> ok, tok |-> 0]
Idle == Fetch("none", None, FALSE)
GetToken == Fetch("csrf", None, session # None)   \* RequireAuth lies before /csrf
Back(t, s, kinds) == fetch[t][s].kind \in kinds /\ fetch[t][s].step = "back"
Fetching(t, s) == fetch[t][s].kind = "csrf"
Act == acts < MaxActs /\ acts' = acts + 1
Lapse == lapses < MaxLapses /\ lapses' = lapses + 1
Put(t, s, f) == fetch' = [fetch EXCEPT ![t][s] = f]

TypeOK ==
    /\ session \in Users \union {None}
    /\ csrf \in 0..minted /\ minted \in 0..MaxTokens
    /\ last \in Tabs \union {None} /\ (last # None => csrf # 0)
    /\ acts \in 0..MaxActs /\ lapses \in 0..MaxLapses
    /\ page \in [Tabs -> Pages]
    /\ token \in [Tabs -> 0..minted]
    /\ me \in [Tabs -> Users \union {None}]
    /\ failed \in [Tabs -> BOOLEAN]
    /\ fetch \in [Tabs -> [Slots -> Fetches]]
    /\ crossed \in SUBSET Tabs
    /\ left \in [Tabs -> Users \union {None}]

Init == /\ session = None /\ csrf = 0 /\ minted = 0 /\ last = None /\ acts = 0 /\ lapses = 0
        /\ page = [t \in Tabs |-> "closed"]
        /\ token = [t \in Tabs |-> 0]
        /\ me = [t \in Tabs |-> None] /\ failed = [t \in Tabs |-> FALSE]
        /\ fetch = [t \in Tabs |-> [s \in Slots |-> Idle]]
        /\ crossed = {} /\ left = [t \in Tabs |-> None]

-----------------------------------------------------------------------------
(* The browser and the server.                                             *)

\* A page load makes a new document: its memory is empty, the fetches of the old
\* one are aborted, and Providers primes the token.
Load(t, p) ==
    /\ Act
    /\ page' = [page EXCEPT ![t] = p]
    /\ token' = [token EXCEPT ![t] = 0]
    /\ me' = [me EXCEPT ![t] = None] /\ failed' = [failed EXCEPT ![t] = FALSE]
    /\ fetch' = [fetch EXCEPT ![t] = [s \in Slots |-> IF s = "prime" THEN GetToken ELSE Idle]]
    /\ last' = IF last = t THEN None ELSE last
    /\ crossed' = crossed \ {t} /\ left' = [left EXCEPT ![t] = None]
    /\ UNCHANGED <<session, csrf, minted, lapses>>

\* csrf.Issue: a new token, the cookie and the body.
Issue(t, s) ==
    /\ minted < MaxTokens /\ minted' = minted + 1
    /\ csrf' = minted' /\ last' = t
    /\ Put(t, s, [fetch[t][s] EXCEPT !.step = "back", !.tok = minted'])

\* The answer to a fetch lands, with its Set-Cookie: a sign-in sets the session,
\* Logout clears it, /csrf sets the other cookie.
Answer(t, s) ==
    LET f == fetch[t][s] IN
    /\ f.kind # "none" /\ f.step = "sent"
    /\ IF f.ok /\ f.kind = "csrf" THEN Issue(t, s)
       ELSE Put(t, s, [f EXCEPT !.step = "back"]) /\ UNCHANGED <<csrf, minted, last>>
    /\ session' = CASE f.ok /\ f.kind \in SignIns -> f.who
                    [] f.ok /\ f.kind = "logout" -> None
                    [] OTHER -> session
    /\ left' = [u \in Tabs |-> IF f.ok /\ f.kind \in SignIns /\ left[u] = f.who
                               THEN None ELSE left[u]]
    /\ UNCHANGED <<acts, lapses, page, token, me, failed, crossed>>

\* The network fails, or the server refuses what it was asked.
Refuse(t, s) ==
    /\ Lapse /\ fetch[t][s].kind # "none" /\ fetch[t][s].step = "sent"
    /\ Put(t, s, [fetch[t][s] EXCEPT !.step = "back", !.who = None, !.ok = FALSE])
    /\ UNCHANGED <<cookies, acts, page, token, me, failed, history>>

\* The access token lives 15 minutes and nothing in the dashboard renews it.
Expire == /\ Lapse /\ session # None /\ session' = None
          /\ UNCHANGED <<csrf, minted, last, acts, page, token, me, failed, fetch, history>>

-----------------------------------------------------------------------------
(* lib/api.ts.                                                             *)

\* api: a call behind the CSRF middleware passes if the header sent is the cookie sent.
Call(t, kind, who) ==
    /\ Act /\ fetch[t]["call"] = Idle
    /\ Put(t, "call",
           IF kind = "logout"
           THEN Fetch(kind, session, session # None /\ csrf # 0 /\ token[t] = csrf)
           ELSE Fetch(kind, who, TRUE))
    /\ UNCHANGED <<cookies, lapses, page, token, me, failed, history>>

\* Faulty variant: a token that is there already is kept.
TakeTokenIfNull(t, f) == token' = [token EXCEPT ![t] = IF f.ok /\ @ = 0 THEN f.tok ELSE @]

\* The end of fetchCSRF. Its failure is swallowed by every caller.
TakeToken(t, f) == token' = [token EXCEPT ![t] = IF f.ok THEN f.tok ELSE @]

\* Providers' effect, after fetchCSRF.
Prime(t) == /\ Back(t, "prime", {"csrf"})
            /\ TakeToken(t, fetch[t]["prime"])
            /\ Put(t, "prime", Idle)
            /\ UNCHANGED <<cookies, acts, lapses, page, me, failed, history>>

-----------------------------------------------------------------------------
(* The public pages.                                                       *)

\* The links between them.
Links == {<<"login", "forgot">>, <<"login", "signup">>, <<"signup", "login">>,
          <<"forgot", "login">>, <<"reset", "forgot">>}
Follow(t) == \E l \in Links :
    /\ Act
    /\ page[t] = l[1] /\ page' = [page EXCEPT ![t] = l[2]]
    /\ UNCHANGED <<cookies, lapses, token, me, failed, fetch, history>>

LoginSubmit(t, u) == page[t] = "login" /\ Call(t, "login", u)
TryVerify(t, u) == page[t] = "verify" /\ Call(t, "verify", u)
SignupSubmit(t, u) == page[t] = "signup" /\ Call(t, "signup", u)
ForgotSubmit(t, u) == page[t] = "forgot" /\ Call(t, "forgot", u)
ResetSubmit(t, u) == page[t] = "reset" /\ Call(t, "reset", u)

\* The account is the form's and only counts for a sign-in.
Submit(t) ==
    \/ \E u \in Users : LoginSubmit(t, u) \/ TryVerify(t, u)
    \/ SignupSubmit(t, None) \/ ForgotSubmit(t, None) \/ ResetSubmit(t, None)

\* The app shell is mounted: without an account the query starts over.
Enter(t) == /\ page' = [page EXCEPT ![t] = "app"]
            /\ failed' = [failed EXCEPT ![t] = @ /\ me[t] # None]

\* Login's and verify's call is back: fetchCSRF, or the error under the form.
SignedIn(t) ==
    /\ Back(t, "call", SignIns)
    /\ LET ok == fetch[t]["call"].ok IN
       /\ Put(t, "call", IF ok THEN GetToken ELSE Idle)
       /\ crossed' = IF ok /\ Fetching(t, "prime") THEN crossed \union {t} ELSE crossed
    /\ UNCHANGED <<cookies, acts, lapses, page, token, me, failed, left>>

\* Then router.push("/dashboard"), with a token or without.
Proceed(t) == /\ Back(t, "call", {"csrf"})
              /\ TakeToken(t, fetch[t]["call"])
              /\ Put(t, "call", Idle)
              /\ Enter(t)
              /\ UNCHANGED <<cookies, acts, lapses, me, history>>

\* The other forms go on to the next page, reset after a pause, or show an error.
Next2(kind) == CASE kind = "signup" -> "verify" [] kind = "forgot" -> "reset" [] OTHER -> "login"
FormDone(t) ==
    /\ Back(t, "call", {"signup", "forgot", "reset", "pause"})
    /\ LET f == fetch[t]["call"] IN
       IF f.kind = "reset" /\ f.ok
       THEN Put(t, "call", [f EXCEPT !.kind = "pause"]) /\ UNCHANGED page
       ELSE /\ Put(t, "call", Idle)
            /\ page' = [page EXCEPT ![t] = IF f.ok THEN Next2(f.kind) ELSE @]
    /\ UNCHANGED <<cookies, acts, lapses, token, me, failed, history>>

-----------------------------------------------------------------------------
(* The app shell, the top bar and the pages behind them.                   *)

\* The query ["me"]: when mounted without data, or when its data is stale.
FetchMe(t) == /\ page[t] = "app" /\ fetch[t]["query"] = Idle
              /\ Put(t, "query", Fetch("me", session, session # None))
              /\ failed' = [failed EXCEPT ![t] = @ /\ me[t] # None]
              /\ UNCHANGED <<cookies, acts, lapses, page, token, me, history>>

\* An error keeps the data there was.
GotMe(t) == /\ Back(t, "query", {"me"})
            /\ LET f == fetch[t]["query"] IN
               /\ me' = [me EXCEPT ![t] = IF f.ok THEN f.who ELSE @]
               /\ failed' = [failed EXCEPT ![t] = ~f.ok]
            /\ Put(t, "query", Idle)
            /\ UNCHANGED <<cookies, acts, lapses, page, token, history>>

\* AppShell's effect: !isLoading && (isError || !me).
ToLogin(t) == /\ page[t] = "app" /\ failed[t]
              /\ page' = [page EXCEPT ![t] = "login"]
              /\ UNCHANGED <<cookies, acts, lapses, token, me, failed, fetch, history>>

\* Data without an observer is collected after some minutes.
Collect(t) == /\ page[t] # "app" /\ me[t] # None
              /\ me' = [me EXCEPT ![t] = None] /\ failed' = [failed EXCEPT ![t] = FALSE]
              /\ UNCHANGED <<cookies, acts, lapses, page, token, fetch, history>>

Logout(t) == page[t] = "app" /\ me[t] # None /\ Call(t, "logout", None)

\* Faulty variant: the cached account is dropped, the query for it goes on.
ClearCacheOnly(t) == /\ me' = [me EXCEPT ![t] = None]
                     /\ failed' = [failed EXCEPT ![t] = FALSE]
                     /\ Put(t, "call", Idle)

\* useLogout's qc.clear() removes the query with its fetch.
ClearCache(t) ==
    /\ me' = [me EXCEPT ![t] = None] /\ failed' = [failed EXCEPT ![t] = FALSE]
    /\ fetch' = [fetch EXCEPT ![t]["call"] = Idle, ![t]["query"] = Idle]

\* The top bar swallows a failed logout and goes to /login all the same.
LogoutDone(t) ==
    /\ Back(t, "call", {"logout"})
    /\ LET f == fetch[t]["call"] IN
       IF f.ok
       THEN /\ ClearCache(t)
            /\ left' = [left EXCEPT ![t] = IF session = f.who THEN None ELSE f.who]
       ELSE Put(t, "call", Idle) /\ UNCHANGED <<me, failed, left>>
    /\ page' = [page EXCEPT ![t] = "login"]
    /\ UNCHANGED <<cookies, acts, lapses, token, crossed>>

-----------------------------------------------------------------------------
Continue(t) == Prime(t) \/ SignedIn(t) \/ Proceed(t) \/ FormDone(t) \/ GotMe(t)
               \/ LogoutDone(t)

Next == \/ Expire
        \/ \E t \in Tabs :
             \/ \E p \in Entries : Load(t, p)
             \/ \E s \in Slots : Answer(t, s) \/ Refuse(t, s)
             \/ Submit(t) \/ Follow(t) \/ FetchMe(t) \/ ToLogin(t) \/ Collect(t)
             \/ Logout(t) \/ Continue(t)

Spec == Init /\ [][Next]_vars

-----------------------------------------------------------------------------
\* The document that fetched the CSRF cookie last holds its token once the fetch
\* is over (unless two of its own fetches crossed), so its calls pass the
\* server's comparison whatever the other tabs did before (lib/api.ts, fetchCSRF).
TokenIsLastFetch ==
    \A t \in Tabs : last = t /\ t \notin crossed /\ ~Fetching(t, "prime") /\ ~Fetching(t, "call")
                    => token[t] = csrf

\* After a sign-out that succeeded a tab does not show that account again, even if
\* its account was being fetched meanwhile (useLogout, qc.clear).
SignedOutIsClean == \A t \in Tabs : left[t] # None => me[t] # left[t]
=============================================================================
