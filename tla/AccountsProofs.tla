----------------------------- MODULE AccountsProofs -----------------------------
(***************************************************************************)
(* Proofs about Accounts, for any finite number of concurrent calls and    *)
(* any number of codes, tokens and attempts.                               *)
(***************************************************************************)
EXTENDS Accounts, FiniteSetTheorems, TLAPS

CodeRow == [state : {"unissued", "live", "consumed", "expired"},
            purpose : {None, "signup", "reset"}, attempts : Nat]
TokenRow == [state : {"unissued", "live", "revoked", "expired"},
             parent : Tokens \cup {None}]
Call == [op : Ops \cup {"idle"},
         pc : {"idle", "miss", "consume", "verify", "password", "nuke", "session", "rotate", "reuse"},
         on : Nat \cup {None}]

\* What a call holds is a code before it has redeemed one, a token that it exchanges, or
\* nothing; an unissued row is nobody's.
Types == /\ account \in {"none", "unverified", "verified"}
         /\ code \in [Codes -> CodeRow] /\ token \in [Tokens -> TokenRow]
         /\ call \in [Calls -> Call]
         /\ \A x \in Calls :
              /\ call[x].pc \in {"miss", "consume", "verify", "password", "nuke"} =>
                    call[x].on \in Codes /\ call[x].op \in {"signup", "reset"}
              /\ call[x].pc = "rotate" => call[x].on \in Tokens /\ call[x].op = "refresh"
              /\ call[x].pc = "session" => call[x].on \in Tokens \cup {None}

\* The calls that have compared a code without a match, and not counted it yet.
Missing(c) == {x \in Calls : call[x].pc = "miss" /\ call[x].on = c}
MissesFit ==
    \A c \in Codes : code[c].attempts + Cardinality(Missing(c))
                        <= AttemptLimit - 1 + Cardinality(Calls)

\* Who goes on with a code has consumed it.
RedeemedIsConsumed == \A x \in Calls : Redeems(x) => code[call[x].on].state = "consumed"

\* A token in use has no child, nor has an unissued one; who is about to issue a child has
\* revoked the parent.
ParentIsOver ==
    /\ \A t \in Tokens : token[t].state \in {"unissued", "live"} => Children(t) = {}
    /\ \A t \in Tokens : token[t].state = "unissued" => token[t].parent = None
    /\ \A x \in Calls : call[x].pc = "session" /\ call[x].on # None =>
                           token[call[x].on].state \in {"revoked", "expired"}
    /\ \A x \in Calls : call[x].pc = "rotate" => token[call[x].on].state # "unissued"

\* The calls that will issue a child of t.
Exchanging(t) == {x \in Calls : call[x].pc \in {"rotate", "session"} /\ call[x].on = t}
ExchangesFit ==
    \A t \in Tokens : Cardinality(Children(t)) + Cardinality(Exchanging(t)) <= Cardinality(Calls)

\* The inductive invariant.
Inv == /\ Types
       /\ MissesFit /\ RedeemedIsConsumed /\ CodeRedeemedOnce
       /\ ParentIsOver /\ ExchangesFit

-----------------------------------------------------------------------------
LEMMA Bounds ==
    /\ MaxCodes \in Nat /\ MaxTokens \in Nat /\ AttemptLimit \in Nat \ {0}
    /\ None \notin Codes /\ None \notin Tokens
    /\ Cardinality(Calls) \in Nat
BY BoundsArePositive, NoneIsNoNumber, CallsAreFinite, FS_CardinalityType DEF Codes, Tokens

\* The sets that are counted are finite.
LEMMA Counts ==
    /\ \A S \in SUBSET Calls : IsFiniteSet(S) /\ Cardinality(S) \in Nat
                               /\ Cardinality(S) <= Cardinality(Calls)
    /\ \A S \in SUBSET Tokens : IsFiniteSet(S) /\ Cardinality(S) \in Nat
<1>1. ASSUME NEW S \in SUBSET Calls
      PROVE  IsFiniteSet(S) /\ Cardinality(S) \in Nat /\ Cardinality(S) <= Cardinality(Calls)
  BY CallsAreFinite, FS_Subset, FS_CardinalityType
<1>2. IsFiniteSet(Tokens) BY Bounds, FS_Interval DEF Tokens
<1>3. ASSUME NEW S \in SUBSET Tokens PROVE IsFiniteSet(S) /\ Cardinality(S) \in Nat
  BY <1>2, FS_Subset, FS_CardinalityType
<1>. QED BY <1>1, <1>3

\* A smaller set of calls counts no more.
LEMMA Fewer ==
    ASSUME NEW S \in SUBSET Calls, NEW T \in SUBSET S
    PROVE  Cardinality(T) <= Cardinality(S)
BY Counts, FS_Subset

\* The newest of some codes is one of them: of the sets of those above a code, one is
\* minimal, and nothing is above that code.
LEMMA NewestExists ==
    ASSUME NEW S \in SUBSET Codes, S # {}
    PROVE  Max(S) \in S
<1>. DEFINE Above(x) == {z \in S : z > x}
            T == {Above(x) : x \in S}
<1>1. IsFiniteSet(Codes) BY Bounds, FS_Interval DEF Codes
<1>2. IsWellFoundedOn(StrictSubsetOrdering(Codes), FiniteSubsetsOf(Codes))
  BY FS_StrictSubsetOrderingWellFounded
<1>3. T \subseteq FiniteSubsetsOf(Codes) /\ T # {}
  <2>1. FiniteSubsetsOf(Codes) = SUBSET Codes BY <1>1, FS_FiniteSubsetsOfFinite
  <2>2. \A x \in S : Above(x) \in SUBSET Codes OBVIOUS
  <2>3. T \subseteq SUBSET Codes BY <2>2
  <2>. QED BY <2>1, <2>3
<1>4. PICK A \in T : \A B \in T : ~(<<B, A>> \in StrictSubsetOrdering(Codes))
  <2>. HIDE DEF T
  <2>. QED BY <1>2, <1>3, WFMin
<1>5. PICK x \in S : A = Above(x) BY <1>4
<1>6. ASSUME NEW y \in S, ~(x >= y) PROVE FALSE
  <2>1. x \in Nat /\ y \in Nat /\ y > x BY <1>6, Bounds DEF Codes
  <2>2. \A z \in S : z \in Nat BY Bounds DEF Codes
  <2>3. Above(y) \subseteq Above(x) /\ y \in Above(x) /\ y \notin Above(y)
    <3>1. \A z \in S : z > y => z > x BY <2>1, <2>2
    <3>2. ~(y > y) BY <2>1
    <3>. QED BY <2>1, <3>1, <3>2
  <2>4. Above(y) \in T /\ Above(y) \subseteq Codes /\ Above(x) \subseteq Codes OBVIOUS
  <2>5. <<Above(y), Above(x)>> \in StrictSubsetOrdering(Codes)
    BY <2>3, <2>4 DEF StrictSubsetOrdering
  <2>. QED BY <1>4, <1>5, <2>4, <2>5
<1>7. \E m \in S : \A y \in S : m >= y BY <1>6
<1>. QED BY <1>7 DEF Max

-----------------------------------------------------------------------------
LEMMA InvInit == Init => Inv
<1>. SUFFICES ASSUME Init PROVE Inv OBVIOUS
<1>. USE DEF Init
<1>1. Types BY DEF Types, CodeRow, TokenRow, Call, Unissued, NoToken, Idle
<1>2. \A S : S = {} => Cardinality(S) = 0 BY FS_EmptySet
<1>3. MissesFit
  <2>1. \A c \in Codes : Missing(c) = {} BY DEF Missing, Idle
  <2>. QED BY <1>2, <2>1, Bounds DEF MissesFit, Unissued
<1>4. RedeemedIsConsumed /\ CodeRedeemedOnce
  BY DEF RedeemedIsConsumed, CodeRedeemedOnce, Redeems, Idle
<1>5. \A t \in Tokens : Children(t) = {} BY Bounds DEF Children, NoToken
<1>6. ParentIsOver BY <1>5 DEF ParentIsOver, NoToken, Idle
<1>7. ExchangesFit
  <2>1. \A t \in Tokens : Exchanging(t) = {} BY DEF Exchanging, Idle
  <2>. QED BY <1>2, <1>5, <2>1, Bounds DEF ExchangesFit
<1>. QED BY <1>1, <1>3, <1>4, <1>6, <1>7 DEF Inv

\* What the helpers do to the rows.
LEMMA RowsTyped ==
    ASSUME Types
    PROVE  /\ \A p \in {"signup", "reset"} : IssueCode(p) => code' \in [Codes -> CodeRow]
           /\ \A t \in Tokens \cup {None} : IssueToken(t) => token' \in [Tokens -> TokenRow]
           /\ RevokeAll => token' \in [Tokens -> TokenRow]
<1>1. ASSUME NEW p \in {"signup", "reset"}, IssueCode(p) PROVE code' \in [Codes -> CodeRow]
  <2>1. PICK c \in Codes :
            code' = [code EXCEPT ![c] = [@ EXCEPT !.state = "live", !.purpose = p]]
    BY <1>1 DEF IssueCode
  <2>2. code[c] \in CodeRow BY DEF Types
  <2>3. [code[c] EXCEPT !.state = "live", !.purpose = p] \in CodeRow BY <2>2 DEF CodeRow
  <2>. QED BY <2>1, <2>3 DEF Types
<1>2. ASSUME NEW t \in Tokens \cup {None}, IssueToken(t) PROVE token' \in [Tokens -> TokenRow]
  BY <1>2 DEF IssueToken, Types, TokenRow
<1>3. ASSUME RevokeAll PROVE token' \in [Tokens -> TokenRow]
  <2>1. \A t \in Tokens : [token[t] EXCEPT !.state = IF @ = "live" THEN "revoked" ELSE @] \in TokenRow
    <3>1. ASSUME NEW t \in Tokens
          PROVE  [token[t] EXCEPT !.state = IF @ = "live" THEN "revoked" ELSE @] \in TokenRow
      <4>1. token[t] \in TokenRow BY DEF Types
      <4>. QED BY <4>1 DEF TokenRow
    <3>. QED BY <3>1
  <2>. QED BY <1>3, <2>1 DEF RevokeAll
<1>. QED BY <1>1, <1>2, <1>3

\* The rows and the calls stay well typed.
LEMMA TypesStep == Inv /\ [Next]_vars => Types'
<1>. SUFFICES ASSUME Inv, [Next]_vars PROVE Types' OBVIOUS
<1>. USE DEF Inv
<1>1. ASSUME Register \/ ForgotPassword \/ Logout PROVE Types'
  BY <1>1, RowsTyped DEF Register, ForgotPassword, Logout, Types
<1>2. ASSUME NEW c \in Codes, ExpireCode(c) PROVE Types'
  BY <1>2 DEF ExpireCode, Types, CodeRow
<1>3. ASSUME NEW t \in Tokens, ExpireToken(t) PROVE Types'
  BY <1>3 DEF ExpireToken, Types, TokenRow
<1>4. ASSUME NEW x \in Calls, NEW p \in {"signup", "reset"}, NEW match \in BOOLEAN,
             TryCode(x, p, match)
      PROVE  Types'
  <2>1. Usable(p) \in SUBSET Codes /\ Usable(p) # {} BY <1>4 DEF TryCode, Usable
  <2>2. Max(Usable(p)) \in Codes BY <2>1, NewestExists
  <2>3. Max(Usable(p)) \in Nat BY <2>2, Bounds DEF Codes
  <2>. QED BY <1>4, <2>2, <2>3 DEF TryCode, Begin, Types, Call, Ops
<1>5. ASSUME NEW x \in Calls, CountMiss(x) PROVE Types'
  <2>1. call[x].on \in Codes /\ code[call[x].on] \in CodeRow BY <1>5 DEF CountMiss, Types
  <2>2. code' \in [Codes -> CodeRow] BY <1>5, <2>1 DEF CountMiss, Types, CodeRow
  <2>. QED BY <1>5, <2>2 DEF CountMiss, Return, Idle, Types, Call
<1>6. ASSUME NEW x \in Calls, Consume(x) PROVE Types'
  <2>1. call[x].on \in Codes /\ call[x].op \in {"signup", "reset"} BY <1>6 DEF Consume, Types
  <2>2. code' \in [Codes -> CodeRow] BY <1>6, <2>1 DEF Consume, Types, CodeRow
  <2>. QED BY <1>6, <2>1, <2>2
           DEF Consume, Return, GoTo, AfterConsume, Idle, Types, Call
<1>7. ASSUME NEW x \in Calls, MarkVerified(x) PROVE Types'
  BY <1>7, Bounds DEF MarkVerified, At, Types, Call
<1>8. ASSUME NEW x \in Calls, SetPassword(x) PROVE Types'
  BY <1>8 DEF SetPassword, GoTo, At, Types, Call
<1>9. ASSUME NEW x \in Calls, NukeSessions(x) \/ Reuse(x) PROVE Types'
  <2>1. token' \in [Tokens -> TokenRow] BY <1>9, RowsTyped DEF NukeSessions, Reuse
  <2>. QED BY <1>9, <2>1 DEF NukeSessions, Reuse, Return, Idle, Types, Call
<1>10. ASSUME NEW x \in Calls, CallFails(x) PROVE Types'
  BY <1>10 DEF CallFails, Return, Idle, Types, Call
<1>11. ASSUME NEW x \in Calls, Login(x) PROVE Types'
  BY <1>11 DEF Login, Begin, Types, Call, Ops
<1>12. ASSUME NEW x \in Calls, Session(x) PROVE Types'
  <2>1. token' \in [Tokens -> TokenRow] BY <1>12, RowsTyped DEF Session, Types
  <2>. QED BY <1>12, <2>1 DEF Session, Return, Idle, Types, Call
<1>13. ASSUME NEW x \in Calls, Rotate(x) PROVE Types'
  <2>1. call[x].on \in Tokens BY <1>13 DEF Rotate, At, Types
  <2>2. token' \in [Tokens -> TokenRow] BY <1>13, <2>1 DEF Rotate, Types, TokenRow
  <2>. QED BY <1>13, <2>1, <2>2 DEF Rotate, GoTo, Types, Call
<1>14. ASSUME NEW x \in Calls, NEW t \in Tokens, Refresh(x, t) PROVE Types'
  <2>1. t \in Nat BY Bounds DEF Tokens
  <2>. QED BY <1>14, <2>1 DEF Refresh, Begin, Types, Call, Ops
<1>15. CASE UNCHANGED vars
  BY <1>15 DEF vars, Types
<1>. QED BY <1>1, <1>2, <1>3, <1>4, <1>5, <1>6, <1>7, <1>8, <1>9, <1>10, <1>11, <1>12,
            <1>13, <1>14, <1>15 DEF Next

-----------------------------------------------------------------------------
(* Codes.                                                                  *)

CodeParts == MissesFit /\ RedeemedIsConsumed /\ CodeRedeemedOnce

\* A step that counts no attempt, lets no further call count one, lets none redeem a code,
\* and takes back no consumption.
LEMMA CodesKeep ==
    ASSUME Inv, Types',
           \A c \in Codes : /\ code'[c].attempts = code[c].attempts
                            /\ code[c].state = "consumed" => code'[c].state = "consumed",
           \A x \in Calls : call'[x].pc = "miss" => call[x].pc = "miss" /\ call'[x].on = call[x].on,
           \A x \in Calls : Redeems(x)' => Redeems(x) /\ call'[x].on = call[x].on
    PROVE  CodeParts'
<1>. USE DEF Inv
<1>1. MissesFit'
  <2>. SUFFICES ASSUME NEW c \in Codes
                PROVE  code'[c].attempts + Cardinality(Missing(c)')
                          <= AttemptLimit - 1 + Cardinality(Calls)
    BY DEF MissesFit
  <2>1. Missing(c)' \subseteq Missing(c) /\ Missing(c) \subseteq Calls BY DEF Missing
  <2>2. /\ Cardinality(Missing(c)') <= Cardinality(Missing(c))
        /\ Cardinality(Missing(c)') \in Nat /\ Cardinality(Missing(c)) \in Nat
    BY <2>1, Fewer, Counts
  <2>3. code[c].attempts \in Nat /\ code'[c].attempts = code[c].attempts BY DEF Types, CodeRow
  <2>4. code[c].attempts + Cardinality(Missing(c)) <= AttemptLimit - 1 + Cardinality(Calls)
    BY DEF MissesFit
  <2>. QED BY <2>2, <2>3, <2>4, Bounds
<1>2. \A x \in Calls : Redeems(x) => call[x].on \in Codes BY DEF Types, Redeems
<1>3. RedeemedIsConsumed' BY <1>2 DEF RedeemedIsConsumed
<1>4. CodeRedeemedOnce' BY DEF CodeRedeemedOnce
<1>. QED BY <1>1, <1>3, <1>4 DEF CodeParts

LEMMA CodesStep == Inv /\ [Next]_vars => CodeParts'
<1>. SUFFICES ASSUME Inv, [Next]_vars PROVE CodeParts' OBVIOUS
<1>. Types' BY TypesStep
<1>. USE DEF Inv
<1>1. ASSUME Register \/ ForgotPassword PROVE CodeParts'
  <2>1. PICK p \in {"signup", "reset"} : IssueCode(p) BY <1>1 DEF Register, ForgotPassword
  <2>2. \A c \in Codes : /\ code'[c].attempts = code[c].attempts
                         /\ code[c].state = "consumed" => code'[c].state = "consumed"
    BY <2>1 DEF IssueCode, Types, CodeRow
  <2>3. UNCHANGED call BY <1>1 DEF Register, ForgotPassword
  <2>. QED BY <2>2, <2>3, CodesKeep DEF Redeems
<1>2. ASSUME NEW c \in Codes, ExpireCode(c) PROVE CodeParts'
  <2>1. \A d \in Codes : /\ code'[d].attempts = code[d].attempts
                         /\ code[d].state = "consumed" => code'[d].state = "consumed"
    BY <1>2 DEF ExpireCode, Types, CodeRow
  <2>. QED BY <1>2, <2>1, CodesKeep DEF ExpireCode, Redeems
<1>3. ASSUME NEW x \in Calls, NEW p \in {"signup", "reset"}, NEW match \in BOOLEAN,
             TryCode(x, p, match)
      PROVE  CodeParts'
  <2>. DEFINE new == Max(Usable(p))
  <2>1. UNCHANGED code /\ call[x] = Idle /\ code[new].attempts < AttemptLimit
        /\ call' = [call EXCEPT ![x] = [op |-> p, pc |-> IF match THEN "consume" ELSE "miss", on |-> new]]
    BY <1>3 DEF TryCode, Begin
  <2>. HIDE DEF new
  <2>2. RedeemedIsConsumed' /\ CodeRedeemedOnce'
    <3>1. \A y \in Calls : Redeems(y)' => Redeems(y) /\ call'[y] = call[y]
      BY <2>1 DEF Redeems, Types
    <3>. QED BY <2>1, <3>1 DEF RedeemedIsConsumed, CodeRedeemedOnce
  <2>3. ASSUME NEW c \in Codes
        PROVE  code[c].attempts + Cardinality(Missing(c)') <= AttemptLimit - 1 + Cardinality(Calls)
    <3>1. code[c].attempts \in Nat BY DEF Types, CodeRow
    <3>2. Missing(c) \subseteq Calls /\ Missing(c)' \subseteq Calls BY DEF Missing
    <3>3. Cardinality(Missing(c)') \in Nat /\ Cardinality(Missing(c)) \in Nat
          /\ Cardinality(Missing(c)') <= Cardinality(Calls)
      BY <3>2, Counts
    <3>4. CASE c = new
      <4>1. code[c].attempts < AttemptLimit BY <2>1, <3>4
      <4>. QED BY <3>1, <3>3, <4>1, Bounds
    <3>5. CASE c # new
      <4>1. Missing(c)' \subseteq Missing(c) BY <2>1, <3>5 DEF Missing, Types
      <4>2. Cardinality(Missing(c)') <= Cardinality(Missing(c)) BY <3>2, <4>1, Fewer
      <4>3. code[c].attempts + Cardinality(Missing(c)) <= AttemptLimit - 1 + Cardinality(Calls)
        BY DEF MissesFit
      <4>. QED BY <3>1, <3>3, <4>2, <4>3, Bounds
    <3>. QED BY <3>4, <3>5
  <2>. QED BY <2>1, <2>2, <2>3 DEF CodeParts, MissesFit
<1>4. ASSUME NEW x \in Calls, CountMiss(x) PROVE CodeParts'
  <2>. DEFINE it == call[x].on
  <2>1. /\ it \in Codes /\ call[x].pc = "miss"
        /\ code' = [code EXCEPT ![it].attempts = @ + 1]
        /\ call' = [call EXCEPT ![x] = Idle]
    BY <1>4 DEF CountMiss, Return, Types
  <2>2. RedeemedIsConsumed' /\ CodeRedeemedOnce'
    <3>1. \A y \in Calls : Redeems(y)' => Redeems(y) /\ call'[y] = call[y]
      BY <2>1 DEF Redeems, Types, Idle
    <3>2. \A c \in Codes : code'[c].state = code[c].state BY <2>1 DEF Types, CodeRow
    <3>3. \A y \in Calls : Redeems(y) => call[y].on \in Codes BY DEF Types, Redeems
    <3>. QED BY <3>1, <3>2, <3>3 DEF RedeemedIsConsumed, CodeRedeemedOnce
  <2>3. ASSUME NEW c \in Codes
        PROVE  code'[c].attempts + Cardinality(Missing(c)') <= AttemptLimit - 1 + Cardinality(Calls)
    <3>1. code[c].attempts \in Nat BY DEF Types, CodeRow
    <3>2. Missing(c) \subseteq Calls /\ Missing(c)' \subseteq Calls BY DEF Missing
    <3>3. /\ Cardinality(Missing(c)') \in Nat /\ Cardinality(Missing(c)) \in Nat
          /\ IsFiniteSet(Missing(c))
      BY <3>2, Counts
    <3>4. code[c].attempts + Cardinality(Missing(c)) <= AttemptLimit - 1 + Cardinality(Calls)
      BY DEF MissesFit
    <3>5. CASE c = it
      <4>1. Missing(c)' = Missing(c) \ {x} /\ x \in Missing(c)
        BY <2>1, <3>5 DEF Missing, Types, Idle
      <4>2. Cardinality(Missing(c)') = Cardinality(Missing(c)) - 1
        BY <3>3, <4>1, FS_RemoveElement
      <4>3. code'[c].attempts = code[c].attempts + 1 BY <2>1, <3>5 DEF Types, CodeRow
      <4>. QED BY <3>1, <3>3, <3>4, <4>2, <4>3, Bounds
    <3>6. CASE c # it
      <4>1. Missing(c)' = Missing(c) BY <2>1, <3>6 DEF Missing, Types, Idle
      <4>2. code'[c] = code[c] BY <2>1, <3>6 DEF Types
      <4>. QED BY <3>4, <4>1, <4>2
    <3>. QED BY <3>5, <3>6
  <2>. QED BY <2>2, <2>3 DEF CodeParts, MissesFit
<1>5. ASSUME NEW x \in Calls, Consume(x) PROVE CodeParts'
  <2>. DEFINE it == call[x].on
  <2>1. it \in Codes /\ call[x].pc = "consume" /\ ~Redeems(x)
    BY <1>5 DEF Consume, Types, Redeems
  <2>2. CASE code[it].state = "consumed"
    <3>1. UNCHANGED code /\ call' = [call EXCEPT ![x] = Idle]
      BY <1>5, <2>2 DEF Consume, Return
    <3>. QED BY <3>1, CodesKeep DEF Idle, Types, Redeems
  <2>3. CASE code[it].state # "consumed"
    <3>1. /\ code' = [code EXCEPT ![it].state = "consumed"]
          /\ call' = [call EXCEPT ![x].pc = AfterConsume(x)]
      BY <1>5, <2>3 DEF Consume, GoTo
    <3>2. AfterConsume(x) \in {"verify", "password"} BY DEF AfterConsume
    <3>3. \A y \in Calls : /\ call'[y].on = call[y].on
                           /\ y # x => call'[y] = call[y]
                           /\ call'[y].pc = "miss" => call[y].pc = "miss"
      BY <3>1, <3>2 DEF Types, Call
    <3>4. \A c \in Codes : code'[c].attempts = code[c].attempts
      BY <2>1, <3>1 DEF Types, CodeRow
    <3>5. \A y \in Calls : Redeems(y) => call[y].on # it
      BY <2>3 DEF RedeemedIsConsumed
    <3>6. \A y \in Calls : Redeems(y)' /\ y # x => Redeems(y) BY <3>3 DEF Redeems
    <3>7. CodeRedeemedOnce'
      <4>. SUFFICES ASSUME NEW y \in Calls, NEW z \in Calls, Redeems(y)', Redeems(z)',
                           call'[y].on = call'[z].on, y # z
                    PROVE  FALSE
        BY DEF CodeRedeemedOnce
      <4>1. CASE y = x BY <4>1, <3>3, <3>5, <3>6
      <4>2. CASE z = x BY <4>2, <3>3, <3>5, <3>6
      <4>3. CASE y # x /\ z # x BY <4>3, <3>3, <3>6 DEF CodeRedeemedOnce
      <4>. QED BY <4>1, <4>2, <4>3
    <3>8. RedeemedIsConsumed'
      <4>1. code'[it].state = "consumed" BY <2>1, <3>1 DEF Types, CodeRow
      <4>2. \A c \in Codes : c # it => code'[c] = code[c] BY <2>1, <3>1 DEF Types
      <4>3. \A y \in Calls : Redeems(y) => call[y].on \in Codes BY DEF Types, Redeems
      <4>4. ASSUME NEW y \in Calls, Redeems(y)' PROVE code'[call'[y].on].state = "consumed"
        <5>1. CASE y = x BY <5>1, <4>1, <3>3
        <5>2. CASE y # x BY <5>2, <4>1, <4>2, <4>3, <4>4, <3>3, <3>6 DEF RedeemedIsConsumed
        <5>. QED BY <5>1, <5>2
      <4>. QED BY <4>4 DEF RedeemedIsConsumed
    <3>9. MissesFit'
      <4>. SUFFICES ASSUME NEW c \in Codes
                    PROVE  code'[c].attempts + Cardinality(Missing(c)')
                              <= AttemptLimit - 1 + Cardinality(Calls)
        BY DEF MissesFit
      <4>1. Missing(c)' = Missing(c)
        BY <2>1, <3>1, <3>2, <3>3 DEF Missing, Types, Call
      <4>. QED BY <3>4, <4>1 DEF MissesFit
    <3>. QED BY <3>7, <3>8, <3>9 DEF CodeParts
  <2>. QED BY <2>2, <2>3
<1>6. ASSUME NEW x \in Calls, SetPassword(x) PROVE CodeParts'
  BY <1>6, CodesKeep DEF SetPassword, At, GoTo, Types, Call, Redeems
<1>7. ASSUME NEW x \in Calls,
             MarkVerified(x) \/ NukeSessions(x) \/ CallFails(x) \/ Session(x) \/ Rotate(x) \/ Reuse(x)
      PROVE  CodeParts'
  <2>1. UNCHANGED code
    BY <1>7 DEF MarkVerified, NukeSessions, CallFails, Session, Rotate, Reuse
  <2>2. \A y \in Calls : call'[y] = call[y] \/ call'[y].pc \in {"idle", "session"}
    BY <1>7 DEF MarkVerified, NukeSessions, CallFails, Session, Rotate, Reuse, Return, GoTo, At,
                Idle, Types, Call
  <2>. QED BY <2>1, <2>2, CodesKeep DEF Redeems
<1>8. ASSUME NEW x \in Calls, Login(x) \/ \E t \in Tokens : Refresh(x, t) PROVE CodeParts'
  <2>1. UNCHANGED code BY <1>8 DEF Login, Refresh
  <2>2. \A y \in Calls : call'[y] = call[y] \/ call'[y].pc \in {"session", "rotate", "reuse"}
    BY <1>8 DEF Login, Refresh, Begin, Types, Call
  <2>. QED BY <2>1, <2>2, CodesKeep DEF Redeems
<1>9. ASSUME Logout \/ (\E t \in Tokens : ExpireToken(t)) \/ UNCHANGED vars PROVE CodeParts'
  <2>1. UNCHANGED <<code, call>> BY <1>9 DEF Logout, ExpireToken, vars
  <2>. QED BY <2>1, CodesKeep DEF Redeems
<1>. QED BY <1>1, <1>2, <1>3, <1>4, <1>5, <1>6, <1>7, <1>8, <1>9 DEF Next

-----------------------------------------------------------------------------
(* Tokens.                                                                 *)

TokenParts == ParentIsOver /\ ExchangesFit

\* A step that issues no token and revives none, and after which no further call is about
\* to issue a child.
LEMMA TokensKeep ==
    ASSUME Inv, Types',
           \A t \in Tokens : /\ token'[t].parent = token[t].parent
                             /\ token'[t].state = "unissued" <=> token[t].state = "unissued"
                             /\ token'[t].state = "live" => token[t].state = "live",
           \A x \in Calls : call'[x].pc = "rotate" => call[x].pc = "rotate" /\ call'[x].on = call[x].on,
           \A x \in Calls : call'[x].pc = "session" /\ call'[x].on # None =>
                               /\ call[x].pc \in {"rotate", "session"} /\ call'[x].on = call[x].on
                               /\ token'[call[x].on].state \in {"revoked", "expired"}
    PROVE  TokenParts'
<1>. USE DEF Inv
<1>1. \A t \in Tokens : Children(t)' = Children(t) BY DEF Children
<1>2. ParentIsOver'
  <2>1. \A t \in Tokens : token'[t].state \in {"unissued", "live"} => Children(t)' = {}
    BY <1>1 DEF ParentIsOver
  <2>2. \A t \in Tokens : token'[t].state = "unissued" => token'[t].parent = None
    BY DEF ParentIsOver
  <2>3. \A x \in Calls : call'[x].pc = "session" /\ call'[x].on # None =>
                            token'[call'[x].on].state \in {"revoked", "expired"}
    OBVIOUS
  <2>4. \A x \in Calls : call'[x].pc = "rotate" => token'[call'[x].on].state # "unissued"
    <3>1. \A x \in Calls : call[x].pc = "rotate" => call[x].on \in Tokens BY DEF Types
    <3>. QED BY <3>1 DEF ParentIsOver
  <2>. QED BY <2>1, <2>2, <2>3, <2>4 DEF ParentIsOver
<1>3. ExchangesFit'
  <2>. SUFFICES ASSUME NEW t \in Tokens
                PROVE  Cardinality(Children(t)') + Cardinality(Exchanging(t)') <= Cardinality(Calls)
    BY DEF ExchangesFit
  <2>1. Children(t) \subseteq Tokens /\ Exchanging(t) \subseteq Calls
        /\ Exchanging(t)' \subseteq Exchanging(t)
    BY Bounds DEF Children, Exchanging
  <2>2. /\ Cardinality(Children(t)) \in Nat /\ Cardinality(Exchanging(t)) \in Nat
        /\ Cardinality(Exchanging(t)') \in Nat
        /\ Cardinality(Exchanging(t)') <= Cardinality(Exchanging(t))
    BY <2>1, Counts, Fewer
  <2>3. Cardinality(Children(t)) + Cardinality(Exchanging(t)) <= Cardinality(Calls)
    BY DEF ExchangesFit
  <2>. QED BY <1>1, <2>2, <2>3, Bounds
<1>. QED BY <1>2, <1>3 DEF TokenParts

\* A call that has found its token in use will exchange it: nobody has done so yet.
LEMMA RefreshKeeps ==
    ASSUME Inv, NEW x \in Calls, NEW t \in Tokens, Refresh(x, t), token[t].state = "live"
    PROVE  TokenParts'
<1>. USE DEF Inv
<1>1. UNCHANGED token /\ call' = [call EXCEPT ![x] = [op |-> "refresh", pc |-> "rotate", on |-> t]]
  BY DEF Refresh, Begin
<1>2. \A u \in Tokens : Children(u)' = Children(u) BY <1>1 DEF Children
<1>3. ParentIsOver' BY <1>1, <1>2 DEF ParentIsOver, Types
<1>4. ASSUME NEW u \in Tokens
      PROVE  Cardinality(Children(u)') + Cardinality(Exchanging(u)') <= Cardinality(Calls)
  <2>1. Exchanging(u)' \subseteq Calls BY DEF Exchanging
  <2>2. CASE u = t
    <3>1. Children(u)' = {} BY <1>2, <2>2 DEF ParentIsOver
    <3>2. Cardinality(Children(u)') = 0 BY <3>1, FS_EmptySet
    <3>. QED BY <2>1, <3>2, Counts, Bounds
  <2>3. CASE u # t
    <3>1. Exchanging(u)' \subseteq Exchanging(u) BY <1>1, <2>3 DEF Exchanging, Types
    <3>2. Children(u) \subseteq Tokens /\ Exchanging(u) \subseteq Calls
      BY DEF Children, Exchanging
    <3>3. /\ Cardinality(Children(u)) \in Nat /\ Cardinality(Exchanging(u)) \in Nat
          /\ Cardinality(Exchanging(u)') \in Nat
          /\ Cardinality(Exchanging(u)') <= Cardinality(Exchanging(u))
      BY <2>1, <3>1, <3>2, Counts, Fewer
    <3>4. Cardinality(Children(u)) + Cardinality(Exchanging(u)) <= Cardinality(Calls)
      BY DEF ExchangesFit
    <3>. QED BY <1>2, <3>3, <3>4, Bounds
  <2>. QED BY <2>2, <2>3
<1>. QED BY <1>3, <1>4 DEF TokenParts, ExchangesFit

\* A child is issued: it is one more of its parent, and its call is one less to come.
LEMMA SessionKeeps ==
    ASSUME Inv, NEW x \in Calls, Session(x)
    PROVE  TokenParts'
<1>. USE DEF Inv
<1>. DEFINE p == call[x].on
<1>1. p \in Tokens \cup {None} /\ call[x].pc = "session" /\ call' = [call EXCEPT ![x] = Idle]
  BY DEF Session, Return, Types
<1>2. PICK u \in Tokens : /\ token[u].state = "unissued"
                          /\ token' = [token EXCEPT ![u] = [state |-> "live", parent |-> p]]
  BY DEF Session, IssueToken
<1>3. /\ token[u].parent = None /\ Children(u) = {} /\ p # u
      /\ \A y \in Calls : call[y].pc \in {"rotate", "session"} => call[y].on # u
  BY <1>1, <1>2, Bounds DEF ParentIsOver
<1>4. \A t \in Tokens : t # u => token'[t] = token[t] BY <1>2 DEF Types
<1>5. token'[u].state = "live" /\ token'[u].parent = p BY <1>2 DEF Types
<1>6. \A y \in Calls : y # x => call'[y] = call[y] BY <1>1 DEF Types
<1>7. call'[x].pc = "idle" BY <1>1 DEF Types, Idle
<1>8. \A t \in Tokens : t # p => Children(t)' = Children(t)
  <2>1. ASSUME NEW t \in Tokens, t # p PROVE Children(t)' = Children(t)
    <3>1. t # None BY Bounds
    <3>. QED BY <1>3, <1>4, <1>5, <2>1, <3>1 DEF Children
  <2>. QED BY <2>1
<1>9. ParentIsOver'
  <2>1. ASSUME NEW t \in Tokens, token'[t].state \in {"unissued", "live"} PROVE Children(t)' = {}
    <3>1. CASE t = u BY <1>3, <1>8, <3>1
    <3>2. CASE t # u
      <4>1. token[t].state \in {"unissued", "live"} BY <1>4, <2>1, <3>2
      <4>2. t # p BY <1>1, <4>1, Bounds DEF ParentIsOver
      <4>. QED BY <1>8, <4>1, <4>2 DEF ParentIsOver
    <3>. QED BY <3>1, <3>2
  <2>2. \A t \in Tokens : token'[t].state = "unissued" => token'[t].parent = None
    BY <1>4, <1>5 DEF ParentIsOver
  <2>3. ASSUME NEW y \in Calls, call'[y].pc = "session", call'[y].on # None
        PROVE  token'[call'[y].on].state \in {"revoked", "expired"}
    <3>1. y # x /\ call'[y] = call[y] BY <1>6, <1>7, <2>3
    <3>2. call[y].on \in Tokens /\ call[y].on # u BY <1>3, <2>3, <3>1 DEF Types
    <3>. QED BY <1>4, <2>3, <3>1, <3>2 DEF ParentIsOver
  <2>4. ASSUME NEW y \in Calls, call'[y].pc = "rotate"
        PROVE  token'[call'[y].on].state # "unissued"
    <3>1. y # x /\ call'[y] = call[y] BY <1>6, <1>7, <2>4
    <3>2. call[y].on \in Tokens /\ call[y].on # u BY <1>3, <2>4, <3>1 DEF Types
    <3>. QED BY <1>4, <2>4, <3>1, <3>2 DEF ParentIsOver
  <2>. QED BY <2>1, <2>2, <2>3, <2>4 DEF ParentIsOver
<1>10. ASSUME NEW t \in Tokens
       PROVE  Cardinality(Children(t)') + Cardinality(Exchanging(t)') <= Cardinality(Calls)
  <2>1. /\ Children(t) \subseteq Tokens /\ Children(t)' \subseteq Tokens
        /\ Exchanging(t) \subseteq Calls /\ Exchanging(t)' \subseteq Calls
    BY DEF Children, Exchanging
  <2>2. /\ Cardinality(Children(t)) \in Nat /\ Cardinality(Exchanging(t)) \in Nat
        /\ Cardinality(Exchanging(t)') \in Nat
        /\ IsFiniteSet(Children(t)) /\ IsFiniteSet(Exchanging(t))
    BY <2>1, Counts
  <2>3. Cardinality(Children(t)) + Cardinality(Exchanging(t)) <= Cardinality(Calls)
    BY DEF ExchangesFit
  <2>4. CASE t = p
    <3>1. Children(t)' = Children(t) \cup {u} /\ u \notin Children(t)
      <4>1. t # None BY Bounds
      <4>. QED BY <1>3, <1>4, <1>5, <2>4, <4>1 DEF Children
    <3>2. Exchanging(t)' = Exchanging(t) \ {x} /\ x \in Exchanging(t)
      BY <1>1, <1>6, <1>7, <2>4 DEF Exchanging
    <3>3. Cardinality(Children(t)') = Cardinality(Children(t)) + 1
      BY <2>2, <3>1, FS_AddElement
    <3>4. Cardinality(Exchanging(t)') = Cardinality(Exchanging(t)) - 1
      BY <2>2, <3>2, FS_RemoveElement
    <3>. QED BY <2>2, <2>3, <3>3, <3>4, Bounds
  <2>5. CASE t # p
    <3>1. Children(t)' = Children(t) BY <1>8, <2>5
    <3>2. Exchanging(t)' = Exchanging(t) BY <1>6, <1>7, <1>1, <2>5 DEF Exchanging
    <3>. QED BY <2>3, <3>1, <3>2
  <2>. QED BY <2>4, <2>5
<1>. QED BY <1>9, <1>10 DEF TokenParts, ExchangesFit

\* The rows stay as they are, and who comes to issue a session issues one without a parent.
LEMMA TokensUntouched ==
    ASSUME Inv, Types', token' = token,
           \A y \in Calls : \/ call'[y] = call[y]
                            \/ call'[y].pc = "session" /\ call'[y].on = None
                            \/ call'[y].pc \notin {"session", "rotate"}
    PROVE  TokenParts'
BY TokensKeep DEF Inv, ParentIsOver

LEMMA TokensStep == Inv /\ [Next]_vars => TokenParts'
<1>. SUFFICES ASSUME Inv, [Next]_vars PROVE TokenParts' OBVIOUS
<1>. Types' BY TypesStep
<1>. USE DEF Inv
<1>1. ASSUME NEW x \in Calls, NEW t \in Tokens, Refresh(x, t) PROVE TokenParts'
  <2>1. CASE token[t].state = "live" BY <1>1, <2>1, RefreshKeeps
  <2>2. CASE token[t].state # "live"
    <3>1. UNCHANGED token /\ call' = [call EXCEPT ![x] = [op |-> "refresh", pc |-> "reuse", on |-> t]]
      BY <1>1, <2>2 DEF Refresh, Begin
    <3>2. \A y \in Calls : call'[y] = call[y] \/ call'[y].pc = "reuse" BY <3>1 DEF Types
    <3>. QED BY <3>1, <3>2, TokensKeep DEF ParentIsOver
  <2>. QED BY <2>1, <2>2
<1>2. ASSUME NEW x \in Calls, Session(x) PROVE TokenParts'
  BY <1>2, SessionKeeps
<1>3. ASSUME NEW x \in Calls, Rotate(x) PROVE TokenParts'
  <2>1. /\ call[x].on \in Tokens /\ call[x].pc = "rotate"
        /\ token' = [token EXCEPT ![call[x].on].state = "revoked"]
        /\ call' = [call EXCEPT ![x].pc = "session"]
    BY <1>3 DEF Rotate, At, GoTo, Types
  <2>2. \A t \in Tokens : token[t] \in TokenRow BY DEF Types
  <2>3. token[call[x].on].state # "unissued" BY <2>1 DEF ParentIsOver
  <2>4. \A t \in Tokens : /\ token'[t].parent = token[t].parent
                          /\ token'[t].state = "unissued" <=> token[t].state = "unissued"
                          /\ token'[t].state = "live" => token[t].state = "live"
    BY <2>1, <2>2, <2>3 DEF Types, TokenRow
  <2>5. \A y \in Calls : y # x => call'[y] = call[y] BY <2>1 DEF Types
  <2>6. call'[x].pc = "session" /\ call'[x].on = call[x].on BY <2>1 DEF Types, Call
  <2>7. token'[call[x].on].state = "revoked" BY <2>1, <2>2 DEF Types, TokenRow
  <2>8. \A y \in Calls : call[y].pc = "session" /\ call[y].on # None =>
                            token'[call[y].on].state \in {"revoked", "expired"}
    <3>1. ASSUME NEW y \in Calls, call[y].pc = "session", call[y].on # None
          PROVE  token'[call[y].on].state \in {"revoked", "expired"}
      <4>1. call[y].on \in Tokens BY <3>1 DEF Types
      <4>2. CASE call[y].on = call[x].on BY <4>2, <2>7
      <4>3. CASE call[y].on # call[x].on
        <5>1. token'[call[y].on] = token[call[y].on] BY <2>1, <4>1, <4>3 DEF Types
        <5>. QED BY <3>1, <5>1 DEF ParentIsOver
      <4>. QED BY <4>2, <4>3
    <3>. QED BY <3>1
  <2>. QED BY <2>1, <2>4, <2>5, <2>6, <2>7, <2>8, TokensKeep
<1>4. ASSUME RevokeAll,
             \A y \in Calls : call'[y] = call[y] \/ call'[y].pc = "idle"
      PROVE  TokenParts'
  <2>1. \A t \in Tokens : token[t] \in TokenRow BY DEF Types
  <2>2. \A t \in Tokens : token'[t] = [token[t] EXCEPT !.state = IF @ = "live" THEN "revoked" ELSE @]
    BY <1>4 DEF RevokeAll
  <2>3. \A t \in Tokens : /\ token'[t].parent = token[t].parent
                          /\ token'[t].state = "unissued" <=> token[t].state = "unissued"
                          /\ token'[t].state = "live" => token[t].state = "live"
                          /\ token[t].state \in {"revoked", "expired"} => token'[t].state = token[t].state
    BY <2>1, <2>2 DEF TokenRow
  <2>4. \A y \in Calls : call[y].pc = "session" => call[y].on \in Tokens \cup {None}
    BY DEF Types
  <2>. QED BY <1>4, <2>3, <2>4, TokensKeep DEF ParentIsOver
<1>5. ASSUME NEW x \in Calls, NukeSessions(x) \/ Reuse(x) PROVE TokenParts'
  <2>1. RevokeAll /\ call' = [call EXCEPT ![x] = Idle]
    BY <1>5 DEF NukeSessions, Reuse, Return
  <2>2. \A y \in Calls : call'[y] = call[y] \/ call'[y].pc = "idle" BY <2>1 DEF Types, Idle
  <2>. QED BY <1>4, <2>1, <2>2
<1>6. ASSUME Logout PROVE TokenParts'
  BY <1>4, <1>6 DEF Logout
<1>7. ASSUME NEW t \in Tokens, ExpireToken(t) PROVE TokenParts'
  <2>1. token[t].state = "live" /\ token' = [token EXCEPT ![t].state = "expired"] /\ UNCHANGED call
    BY <1>7 DEF ExpireToken
  <2>2. \A u \in Tokens : token[u] \in TokenRow BY DEF Types
  <2>3. \A u \in Tokens : /\ token'[u].parent = token[u].parent
                          /\ token'[u].state = "unissued" <=> token[u].state = "unissued"
                          /\ token'[u].state = "live" => token[u].state = "live"
                          /\ token[u].state \in {"revoked", "expired"} => token'[u].state = token[u].state
    BY <2>1, <2>2 DEF Types, TokenRow
  <2>4. \A y \in Calls : call[y].pc = "session" => call[y].on \in Tokens \cup {None}
    BY DEF Types
  <2>. QED BY <2>1, <2>3, <2>4, TokensKeep DEF ParentIsOver
<1>8. ASSUME Register \/ ForgotPassword \/ (\E c \in Codes : ExpireCode(c)) \/ UNCHANGED vars
      PROVE  TokenParts'
  BY TokensUntouched, <1>8 DEF Register, ForgotPassword, ExpireCode, vars
<1>9. ASSUME NEW x \in Calls, NEW p \in {"signup", "reset"}, NEW match \in BOOLEAN,
              TryCode(x, p, match)
       PROVE  TokenParts'
  <2>1. UNCHANGED token /\ \E r \in {"consume", "miss"} : \E c :
                              call' = [call EXCEPT ![x] = [op |-> p, pc |-> r, on |-> c]]
    BY <1>9 DEF TryCode, Begin
  <2>. QED BY TokensUntouched, <2>1 DEF Types
<1>10. ASSUME NEW x \in Calls,
              CountMiss(x) \/ Consume(x) \/ MarkVerified(x) \/ SetPassword(x) \/ CallFails(x)
              \/ Login(x)
       PROVE  TokenParts'
  <2>1. UNCHANGED token
    BY <1>10 DEF CountMiss, Consume, MarkVerified, SetPassword, CallFails, Login
  <2>2. \A y \in Calls : y # x => call'[y] = call[y]
    BY <1>10 DEF CountMiss, Consume, MarkVerified, SetPassword, CallFails, Login, Begin, Return,
                 GoTo, Types
  <2>3. \/ call'[x].pc = "session" /\ call'[x].on = None
        \/ call'[x].pc \notin {"session", "rotate"}
    BY <1>10 DEF CountMiss, Consume, MarkVerified, SetPassword, CallFails, Login, Begin, Return,
                 GoTo, AfterConsume, Idle, Types, Call
  <2>. QED BY TokensUntouched, <2>1, <2>2, <2>3
<1>. QED BY <1>1, <1>2, <1>3, <1>5, <1>6, <1>7, <1>8, <1>9, <1>10 DEF Next

-----------------------------------------------------------------------------
LEMMA InvNext == Inv /\ [Next]_vars => Inv'
BY TypesStep, CodesStep, TokensStep DEF Inv, CodeParts, TokenParts

\* The account's invariant is inductive.
THEOREM Inductive == Spec => []Inv
BY InvInit, InvNext, PTL DEF Spec

\* The account, its codes, its tokens and the calls stay well formed, and no code counts
\* more wrong attempts than the limit and the calls that had compared it before (accounts
\* service.go, handlers.go).
THEOREM TypeCorrect == Spec => []TypeOK
<1>1. Inv => TypeOK
  <2>. SUFFICES ASSUME Inv PROVE TypeOK OBVIOUS
  <2>1. ASSUME NEW c \in Codes
        PROVE  code[c].attempts \in 0..(AttemptLimit - 1 + Cardinality(Calls))
    <3>1. code[c].attempts \in Nat BY DEF Inv, Types, CodeRow
    <3>2. Missing(c) \in SUBSET Calls BY DEF Missing
    <3>3. Cardinality(Missing(c)) \in Nat BY <3>2, Counts
    <3>4. code[c].attempts + Cardinality(Missing(c)) <= AttemptLimit - 1 + Cardinality(Calls)
      BY DEF Inv, MissesFit
    <3>. QED BY <3>1, <3>3, <3>4, Bounds
  <2>2. \A c \in Codes :
           code[c] \in [state : {"unissued", "live", "consumed", "expired"},
                        purpose : {None, "signup", "reset"},
                        attempts : 0..(AttemptLimit - 1 + Cardinality(Calls))]
    BY <2>1 DEF Inv, Types, CodeRow
  <2>. QED BY <2>2 DEF Inv, Types, TokenRow, Call, TypeOK
<1>. QED BY <1>1, Inductive, PTL

\* Of the calls that compared one code at the same time, one goes on with it: consumed_at is
\* set by the first, and the others find it set (VerifyOTP, ResetPassword).
THEOREM CodesRedeemedOnce == Spec => []CodeRedeemedOnce
BY Inductive, PTL DEF Inv

\* A refresh token has no more successors than calls that can have read it before the first
\* revoked it (Refresh).
THEOREM TokenExchangesOverlap == Spec => []ExchangesOverlap
<1>1. Inv => ExchangesOverlap
  <2>. SUFFICES ASSUME Inv, NEW t \in Tokens PROVE Cardinality(Children(t)) <= Cardinality(Calls)
    BY DEF ExchangesOverlap
  <2>1. Children(t) \in SUBSET Tokens /\ Exchanging(t) \in SUBSET Calls
    BY DEF Children, Exchanging
  <2>2. Cardinality(Children(t)) \in Nat /\ Cardinality(Exchanging(t)) \in Nat
    BY <2>1, Counts
  <2>3. Cardinality(Children(t)) + Cardinality(Exchanging(t)) <= Cardinality(Calls)
    BY DEF Inv, ExchangesFit
  <2>. QED BY <2>2, <2>3, Bounds
<1>. QED BY <1>1, Inductive, PTL
================================================================================
