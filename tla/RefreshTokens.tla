----------------------------- MODULE RefreshTokens -----------------------------
(***************************************************************************)
(* The refresh tokens of one user.  A refresh checks the token, spends it  *)
(* (revoke_if_new) and mints its successor, in separate steps against a    *)
(* shared denylist; a token presented twice, or a password reset, fences   *)
(* every token minted so far.  While Redis is down the denylist fails open *)
(* and promises nothing; that is left out.                                 *)
(* Time runs in half seconds: a fence is a fractional time stamp, while a  *)
(* token's iat is the whole second it was minted in.                       *)
(* Entries and tokens expire together after days and are left out.         *)
(***************************************************************************)
EXTENDS Integers

CONSTANTS
    Tokens,        \* token ids
    Callers,       \* requests in progress
    NoToken,
    MaxTime,       \* bound on the clock
    MaxFences      \* bound on the fences set

ASSUME TokenAssumption == NoToken \notin Tokens
ASSUME ClockAssumption == MaxTime \in Nat /\ MaxFences \in Nat

VARIABLES
    now,
    token,         \* per id, the token minted under it
    revoked,       \* the denylist
    fence,         \* the fence's time stamp; -1 before there is one
    fences,        \* how many there were
    call           \* per request, the refresh it is serving

tokenVars == <<now, token, revoked, fence, fences, call>>

\* `since` counts the fences a token's session has outlived: those before its
\* sign-in, and those set while a refresh of it was already past the checks.
Unminted == [minted |-> FALSE, second |-> 0, parent |-> NoToken, since |-> 0]

Minted(parent, since) ==
    [minted |-> TRUE, second |-> now \div 2, parent |-> parent, since |-> since]

Token == [minted: BOOLEAN, second: Nat, parent: Tokens \cup {NoToken}, since: Nat]

Call == {r \in [stage: {"idle", "checked", "spent"}, token: Tokens \cup {NoToken},
                fences: Nat] : r.stage # "idle" => r.token \in Tokens}

NoCall == [stage |-> "idle", token |-> NoToken, fences |-> 0]

TokenInit ==
    /\ now = 0
    /\ token = [t \in Tokens |-> Unminted]
    /\ revoked = {}
    /\ fence = -1 /\ fences = 0
    /\ call = [c \in Callers |-> NoCall]

------------------------------------------------------------------------------
FencedSlip(t) == 2 * token[t].second < fence

Fenced(t) == 2 * token[t].second <= fence

\* _revoke_token_family.
Fence ==
    /\ fences < MaxFences
    /\ fence' = now
    /\ fences' = fences + 1

\* A verified one-time code starts a session.
SignIn(t) ==
    /\ ~token[t].minted
    /\ token' = [token EXCEPT ![t] = Minted(NoToken, fences)]
    /\ UNCHANGED <<now, revoked, fence, fences, call>>

\* The checks of refresh_access_token, passed ...
Check(c, t) ==
    /\ call[c] = NoCall
    /\ token[t].minted
    /\ t \notin revoked
    /\ ~Fenced(t)
    /\ call' = [call EXCEPT ![c] = [stage |-> "checked", token |-> t, fences |-> fences]]
    /\ UNCHANGED <<now, token, revoked, fence, fences>>

\* ... or not: a token that was spent before fences the family.
Refuse(t) ==
    /\ token[t].minted
    /\ t \in revoked
    /\ Fence
    /\ UNCHANGED <<now, token, revoked, call>>

Spent(c) == [stage |-> "spent", token |-> call[c].token, fences |-> call[c].fences]

SpendSlip(c) == LET t == call[c].token IN
    /\ call[c].stage = "checked"
    /\ revoked' = revoked \cup {t}
    /\ call' = [call EXCEPT ![c] = Spent(c)]
    /\ UNCHANGED <<now, token, fence, fences>>

\* revoke_if_new: one presenter of a token wins, the others fence the family.
Spend(c) == LET t == call[c].token IN
    /\ call[c].stage = "checked"
    /\ \/ /\ t \notin revoked
          /\ revoked' = revoked \cup {t}
          /\ call' = [call EXCEPT ![c] = Spent(c)]
                /\ UNCHANGED <<fence, fences>>
       \/ /\ t \in revoked
          /\ Fence
          /\ call' = [call EXCEPT ![c] = NoCall]
          /\ UNCHANGED revoked
    /\ UNCHANGED <<now, token>>

\* The winner mints the successor.
Mint(c, n) == LET t == call[c].token IN
    /\ call[c].stage = "spent"
    /\ ~token[n].minted
    /\ token' = [token EXCEPT ![n] =
                   Minted(t, IF call[c].fences = fences THEN token[t].since ELSE fences)]
    /\ call' = [call EXCEPT ![c] = NoCall]
    /\ UNCHANGED <<now, revoked, fence, fences>>

\* The user is inactive, or the request dies.
Abandon(c) ==
    /\ call[c] # NoCall
    /\ call' = [call EXCEPT ![c] = NoCall]
    /\ UNCHANGED <<now, token, revoked, fence, fences>>

\* Logout spends the token and ignores whether it was new.
Logout(t) ==
    /\ token[t].minted
    /\ revoked' = revoked \cup {t}
    /\ UNCHANGED <<now, token, fence, fences, call>>

\* The last step of reset_password.
ResetPassword ==
    /\ Fence
    /\ UNCHANGED <<now, token, revoked, call>>

Tick ==
    /\ now < MaxTime
    /\ now' = now + 1
    /\ UNCHANGED <<token, revoked, fence, fences, call>>

TokenNext ==
    \/ \E t \in Tokens : SignIn(t) \/ Refuse(t) \/ Logout(t)
    \/ \E c \in Callers :
          \/ \E t \in Tokens : Check(c, t) \/ Mint(c, t)
          \/ Spend(c) \/ Abandon(c)
    \/ ResetPassword \/ Tick

TokenSpec == TokenInit /\ [][TokenNext]_tokenVars

------------------------------------------------------------------------------
TokenTypeOK ==
    /\ now \in Nat
    /\ token \in [Tokens -> Token]
    /\ revoked \subseteq Tokens
    /\ fence \in Nat \cup {-1} /\ fences \in Nat
    /\ call \in [Callers -> Call]

Successors(t) == {n \in Tokens : token[n].minted /\ token[n].parent = t}

\* "Exactly one concurrent presenter of a given jti can win": however many
\* requests present a token at once, it has one successor, and only once spent.
RotatedOnce ==
    \A t \in Tokens :
        /\ \A m, n \in Successors(t) : m = n
        /\ Successors(t) # {} => t \in revoked

Usable(t) == token[t].minted /\ 2 * token[t].second > fence

\* A fence ends every session begun before it, the descendants of its tokens
\* included, and only those: who signs in afterwards is turned away only if
\* that happens within the very second of the fence.  A refresh that was past
\* the checks when the fence fell counts as begun after it.
FencesEndSessions ==
    \A t \in Tokens : token[t].minted =>
        /\ Usable(t) => token[t].since = fences
        /\ token[t].since = fences => Usable(t) \/ token[t].second = fence \div 2
===============================================================================
