------------------------------- MODULE Accounts -------------------------------
(***************************************************************************)
(* One account at the API server: one-time codes, sign-up, log-in, the     *)
(* rotation of refresh tokens and the password reset.  Each call is the    *)
(* sequence of the statements it sends to the database, and calls run      *)
(* concurrently: between a read and the write that relies on it, another   *)
(* call may run.                                                           *)
(*                                                                         *)
(* Codes and tokens are numbered in the order of issue, so the newest of a *)
(* set is its maximum.  Bounds: the numbers of codes and of tokens ever    *)
(* issued.                                                                 *)
(***************************************************************************)
EXTENDS Naturals, FiniteSets, FiniteSetsExt

CONSTANTS Calls, MaxCodes, MaxTokens,
          AttemptLimit,    \* 5 in the code
          None

ASSUME BoundsArePositive == {MaxCodes, MaxTokens, AttemptLimit} \subseteq Nat \ {0}
ASSUME NoneIsNoNumber == None \notin Nat
ASSUME CallsAreFinite == IsFiniteSet(Calls)

Codes == 1..MaxCodes
Tokens == 1..MaxTokens

VARIABLES
    account,    \* "none", "unverified", "verified"
    code,       \* code: the email_otps row
    token,      \* token: the refresh_tokens row
    call        \* the calls in flight

vars == <<account, code, token, call>>

Unissued == [state |-> "unissued", purpose |-> None, attempts |-> 0]
NoToken == [state |-> "unissued", parent |-> None]
Idle == [op |-> "idle", pc |-> "idle", on |-> None]

Ops == {"signup", "reset", "login", "refresh"}

TypeOK ==
    /\ account \in {"none", "unverified", "verified"}
    /\ code \in [Codes -> [state : {"unissued", "live", "consumed", "expired"},
                           purpose : {None, "signup", "reset"},
                           attempts : 0..(AttemptLimit - 1 + Cardinality(Calls))]]
    /\ token \in [Tokens -> [state : {"unissued", "live", "revoked", "expired"},
                             parent : Tokens \cup {None}]]
    /\ call \in [Calls -> [op : Ops \cup {"idle"},
                           pc : {"idle", "miss", "consume", "verify", "password", "nuke",
                                 "session", "rotate", "reuse"},
                           on : Nat \cup {None}]]

Init == /\ account = "none"
        /\ code = [c \in Codes |-> Unissued]
        /\ token = [t \in Tokens |-> NoToken]
        /\ call = [x \in Calls |-> Idle]

-----------------------------------------------------------------------------
(* What the calls share.                                                   *)

Begin(x, op, pc, on) == /\ call[x] = Idle
                        /\ call' = [call EXCEPT ![x] = [op |-> op, pc |-> pc, on |-> on]]
GoTo(x, pc) == call' = [call EXCEPT ![x].pc = pc]
Return(x) == call' = [call EXCEPT ![x] = Idle]
At(x, op, pc) == call[x].op = op /\ call[x].pc = pc

\* issueOTP: older codes stay as they are.
IssueCode(purpose) ==
    /\ \E c \in Codes :
          /\ code[c].state = "unissued"
          /\ \A d \in Codes : code[d].state = "unissued" => c <= d
          /\ code' = [code EXCEPT ![c] = [@ EXCEPT !.state = "live", !.purpose = purpose]]

\* issueSession: a new row, the child of p.
IssueToken(p) ==
    \E t \in Tokens :
       /\ token[t].state = "unissued"
       /\ \A u \in Tokens : token[u].state = "unissued" => t <= u
       /\ token' = [token EXCEPT ![t] = [state |-> "live", parent |-> p]]

\* Every row of the user whose revoked_at is null; an expired one is no use already.
RevokeAll == token' = [t \in Tokens |-> [token[t] EXCEPT !.state = IF @ = "live" THEN "revoked" ELSE @]]

-----------------------------------------------------------------------------
(* Codes: VerifyOTP ("signup") and ResetPassword ("reset").                *)

\* Register: the code and the user's row; the code may never reach its user.
Register == /\ account = "none"
            /\ account' = "unverified"
            /\ IssueCode("signup")
            /\ UNCHANGED <<token, call>>

ForgotPassword == /\ account # "none"
                  /\ IssueCode("reset")
                  /\ UNCHANGED <<account, token, call>>

ExpireCode(c) == /\ code[c].state = "live"
                 /\ code' = [code EXCEPT ![c].state = "expired"]
                 /\ UNCHANGED <<account, token, call>>

Usable(purpose) == {c \in Codes : code[c].purpose = purpose /\ code[c].state = "live"}

\* Faulty variant: attempts are counted and not looked at.
TryCodeUnlimited(x, purpose, match) ==
    /\ Usable(purpose) # {}
    /\ Begin(x, purpose, IF match THEN "consume" ELSE "miss", Max(Usable(purpose)))
    /\ UNCHANGED <<account, code, token>>

\* The newest usable code is read and compared: a match goes on to consume it.
TryCode(x, purpose, match) ==
    /\ Usable(purpose) # {}
    /\ LET c == Max(Usable(purpose)) IN
       /\ code[c].attempts < AttemptLimit
       /\ Begin(x, purpose, IF match THEN "consume" ELSE "miss", c)
    /\ UNCHANGED <<account, code, token>>

\* attempts + 1, in the database.
CountMiss(x) == /\ call[x].pc = "miss"
                /\ code' = [code EXCEPT ![call[x].on].attempts = @ + 1]
                /\ Return(x)
                /\ UNCHANGED <<account, token>>

AfterConsume(x) == IF call[x].op = "signup" THEN "verify" ELSE "password"

\* Faulty variant: the update does not ask for consumed_at IS NULL.
ConsumeAnyway(x) == /\ call[x].pc = "consume"
                    /\ code' = [code EXCEPT ![call[x].on].state = "consumed"]
                    /\ GoTo(x, AfterConsume(x))
                    /\ UNCHANGED <<account, token>>

\* The code is consumed if nobody was faster; that it has expired since is not
\* looked at again.
Consume(x) == /\ call[x].pc = "consume"
              /\ IF code[call[x].on].state = "consumed"
                 THEN Return(x) /\ UNCHANGED code
                 ELSE /\ code' = [code EXCEPT ![call[x].on].state = "consumed"]
                      /\ GoTo(x, AfterConsume(x))
              /\ UNCHANGED <<account, token>>

MarkVerified(x) == /\ At(x, "signup", "verify")
                   /\ account' = "verified"
                   /\ call' = [call EXCEPT ![x].pc = "session", ![x].on = None]
                   /\ UNCHANGED <<code, token>>

\* The new password_hash; which password it is of makes no difference here.
SetPassword(x) == /\ At(x, "reset", "password")
                  /\ GoTo(x, "nuke")
                  /\ UNCHANGED <<account, code, token>>

NukeSessions(x) == /\ At(x, "reset", "nuke")
                   /\ RevokeAll
                   /\ Return(x)
                   /\ UNCHANGED <<account, code>>

\* A statement fails, or the server stops: what is done stays done.
CallFails(x) == /\ call[x] # Idle
                /\ Return(x)
                /\ UNCHANGED <<account, code, token>>

-----------------------------------------------------------------------------
(* Sessions.                                                               *)

\* Login, past the password and email_verified_at.
Login(x) == /\ account = "verified"
            /\ Begin(x, "login", "session", None)
            /\ UNCHANGED <<account, code, token>>

Session(x) == /\ call[x].pc = "session"
              /\ IssueToken(call[x].on)
              /\ Return(x)
              /\ UNCHANGED <<account, code>>

\* Faulty variant: a revoked token is rotated as well.
RefreshRevoked(x, t) == /\ token[t].state # "unissued"
                        /\ Begin(x, "refresh", IF token[t].state = "expired" THEN "reuse" ELSE "rotate", t)
                        /\ UNCHANGED <<account, code, token>>

\* Refresh with the token t, which may have been rotated or expired before.
Refresh(x, t) == /\ token[t].state # "unissued"
                 /\ Begin(x, "refresh", IF token[t].state = "live" THEN "rotate" ELSE "reuse", t)
                 /\ UNCHANGED <<account, code, token>>

\* revokeChain revokes every session of the user.
Reuse(x) == /\ At(x, "refresh", "reuse")
            /\ RevokeAll
            /\ Return(x)
            /\ UNCHANGED <<account, code>>

\* revoked_at is set, whether or not it was null; the child comes after.
Rotate(x) == /\ At(x, "refresh", "rotate")
             /\ token' = [token EXCEPT ![call[x].on].state = "revoked"]
             /\ GoTo(x, "session")
             /\ UNCHANGED <<account, code>>

\* Logout, when the token it is given is known.
Logout == /\ \E t \in Tokens : token[t].state # "unissued"
          /\ RevokeAll
          /\ UNCHANGED <<account, code, call>>

ExpireToken(t) == /\ token[t].state = "live"
                  /\ token' = [token EXCEPT ![t].state = "expired"]
                  /\ UNCHANGED <<account, code, call>>

Next == \/ Register \/ ForgotPassword \/ Logout
        \/ \E c \in Codes : ExpireCode(c)
        \/ \E t \in Tokens : ExpireToken(t)
        \/ \E x \in Calls :
             \/ \E purpose \in {"signup", "reset"}, match \in BOOLEAN : TryCode(x, purpose, match)
             \/ CountMiss(x) \/ Consume(x) \/ MarkVerified(x)
             \/ SetPassword(x) \/ NukeSessions(x) \/ CallFails(x)
             \/ Login(x) \/ Session(x) \/ Rotate(x) \/ Reuse(x)
             \/ \E t \in Tokens : Refresh(x, t)

Spec == Init /\ [][Next]_vars

-----------------------------------------------------------------------------
(* Correctness.                                                            *)

\* A code lets one call through: whoever has consumed it is alone, whatever the
\* number of calls that had compared it before.
Redeems(x) == call[x].pc \in {"verify", "password", "nuke"}
CodeRedeemedOnce ==
    \A x, y \in Calls : Redeems(x) /\ Redeems(y) /\ call[x].on = call[y].on => x = y

\* A token is exchanged no more often than calls can have read it at once: one that
\* comes later finds it rotated.
Children(t) == {u \in Tokens : token[u].parent = t}
ExchangesOverlap == \A t \in Tokens : Cardinality(Children(t)) <= Cardinality(Calls)
==============================================================================
