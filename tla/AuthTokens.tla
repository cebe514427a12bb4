----------------------------- MODULE AuthTokens ------------------------------
(***************************************************************************)
(* Refresh tokens and signing keys of the auth service (token_service.py,  *)
(* routers/auth.py, workers/cleanup_worker.py), and the JWKS caches of the *)
(* services that verify what it signs (platform_auth/key_provider.py).     *)
(*                                                                         *)
(* A rotation reads its refresh token without a lock, writes it before it  *)
(* picks the signing key (autoflush) and commits the successor.  A revoked *)
(* token that is presented again revokes its family from a session of its  *)
(* own.  The blocklist of access tokens is left out: nothing reads it.     *)
(***************************************************************************)
EXTENDS Naturals, FiniteSets, Sequences, SequencesExt

CONSTANTS Tokens,       \* refresh tokens
          Families,     \* one for each login or registration
          Requests,
          Keys,         \* kids of signing keys
          Verifiers,    \* services with a JWKS cache
          Nothing

ASSUME AuthAssumption == IsFiniteSet(Tokens) /\ Nothing \notin Tokens \cup Families \cup Requests \cup Keys

VARIABLES token,       \* auth_refresh_tokens
          keys,        \* auth_signing_keys, by creation: all of them active
          rowLock,     \* who holds a refresh token's row
          keyLock,     \* who holds the rows of the signing keys
          transaction, \* the transactions under way
          cache,       \* the keys a verifier knows
          handed,      \* the keys that signed what clients and services hold
          overtaken    \* of each family, the rotations whose token was revoked under them

authVars == <<token, keys, rowLock, keyLock, transaction, cache, handed, overtaken>>

TokenStates == {"none", "inUse", "revoked", "purged"}
Row == [state: TokenStates, family: Families \cup {Nothing}, expired: BOOLEAN]
NoToken == [state |-> "none", family |-> Nothing, expired |-> FALSE]
Idle == [op |-> "idle"]
Ops == {"idle", "issue", "reuse", "logout"}

Writes(p) == transaction[p].op = "issue" /\ transaction[p].at # "read" /\ transaction[p].parent # Nothing

\* A rotation that has written its parent holds the parent's row, of any state.
AuthTypeOK ==
    /\ token \in [Tokens -> Row]
    /\ keys \in Seq(Keys)
    /\ rowLock \in [Tokens -> Requests \cup {Nothing}]
    /\ keyLock \in Requests \cup {Nothing}
    /\ DOMAIN transaction = Requests /\ \A p \in Requests : transaction[p].op \in Ops
    /\ \A p \in Requests : Writes(p) => rowLock[transaction[p].parent] = p
    /\ cache \in [Verifiers -> SUBSET Keys]
    /\ handed \subseteq Keys
    /\ overtaken \in [Families -> 0 .. Cardinality(Tokens)]

AuthInit ==
    /\ token = [t \in Tokens |-> NoToken]
    /\ keys = <<>>
    /\ rowLock = [t \in Tokens |-> Nothing]
    /\ keyLock = Nothing
    /\ transaction = [p \in Requests |-> Idle]
    /\ cache = [v \in Verifiers |-> {}]
    /\ handed = {}
    /\ overtaken = [f \in Families |-> 0]

-----------------------------------------------------------------------------

InUse(f) == {t \in Tokens : token[t].state = "inUse" /\ token[t].family = f}

Put(p, r) == transaction' = [transaction EXCEPT ![p] = r]

\* The end of a transaction, with its locks.
Finish(p) ==
    /\ Put(p, Idle)
    /\ rowLock' = [t \in Tokens |-> IF rowLock[t] = p THEN Nothing ELSE rowLock[t]]
    /\ keyLock' = IF keyLock = p THEN Nothing ELSE keyLock

Issue(at, parent, family, key) ==
    [op |-> "issue", at |-> at, parent |-> parent, family |-> family, key |-> key]

\* register, login: a new family.  A service token has no refresh token.
Login(p) ==
    /\ transaction[p] = Idle
    /\ \E f \in Families \cup {Nothing} :
          /\ \A t \in Tokens : token[t].family = f => f = Nothing
          /\ \A q \in Requests : transaction[q].op = "issue" /\ transaction[q].family = f => f = Nothing
          /\ Put(p, Issue("key", Nothing, f, Nothing))
    /\ UNCHANGED <<token, keys, rowLock, keyLock, cache, handed, overtaken>>

Rotatable(t) == token[t].state = "inUse" /\ ~token[t].expired

\* rotate_refresh_token up to its checks.  The statement that revokes a
\* family sees the tokens that are committed and in use when it begins.
Refresh(p) ==
    /\ transaction[p] = Idle
    /\ \E t \in Tokens :
          \/ /\ Rotatable(t)
             /\ Put(p, Issue("read", t, token[t].family, Nothing))
          \/ /\ token[t].state = "revoked"
             /\ Put(p, [op |-> "reuse", family |-> token[t].family, victims |-> InUse(token[t].family)])
    /\ UNCHANGED <<token, keys, rowLock, keyLock, cache, handed, overtaken>>

\* It waits for the rotations of these tokens to end.
RevokeFamily(p) ==
    LET found == {t \in transaction[p].victims : token[t].state = "inUse"}
    IN /\ transaction[p].op = "reuse"
       /\ \A t \in transaction[p].victims : rowLock[t] = Nothing
       /\ token' = [t \in Tokens |-> IF t \in found THEN [token[t] EXCEPT !.state = "revoked"] ELSE token[t]]
       /\ Finish(p)
       /\ UNCHANGED <<keys, cache, handed, overtaken>>

FlushParentUnlocked(p) ==
    /\ transaction[p].op = "issue" /\ transaction[p].at = "read"
    /\ Put(p, [transaction[p] EXCEPT !.at = "key"])
    /\ UNCHANGED <<token, keys, rowLock, keyLock, cache, handed, overtaken>>

\* The autoflush of the revoked parent, in front of the next SELECT.
FlushParent(p) ==
    /\ transaction[p].op = "issue" /\ transaction[p].at = "read"
    /\ rowLock[transaction[p].parent] = Nothing
    /\ rowLock' = [rowLock EXCEPT ![transaction[p].parent] = p]
    /\ Put(p, [transaction[p] EXCEPT !.at = "key"])
    /\ UNCHANGED <<token, keys, keyLock, cache, handed, overtaken>>

FreshKeys == {k \in Keys : \A q \in Requests : transaction[q].op = "issue" => transaction[q].key # k}

\* ensure_active_signing_key: lock the active keys and take the newest, or
\* make the first.  Nothing prevents two first ones.
PickKey(p) ==
    /\ transaction[p].op = "issue" /\ transaction[p].at = "key"
    /\ \/ /\ keys # <<>> /\ keyLock = Nothing
          /\ keyLock' = p
          /\ Put(p, [transaction[p] EXCEPT !.at = "signed", !.key = Last(keys)])
       \/ /\ keys = <<>>
          /\ FreshKeys # {}
          /\ Put(p, [transaction[p] EXCEPT !.at = "signed", !.key = CHOOSE k \in FreshKeys : TRUE])
          /\ UNCHANGED keyLock
    /\ UNCHANGED <<token, keys, rowLock, cache, handed, overtaken>>

\* _issue_user_access_token: what a verifier has to know of it is the key.
AccessToken(p) == transaction[p].key

ParentKept(t) == token

\* What the parent is when its successor is committed.
Parent(t) == IF t = Nothing THEN token ELSE [token EXCEPT ![t].state = "revoked"]

\* The commit: parent, successor and a new key at once; only then does the
\* client get its tokens.
CommitIssue(p) ==
    LET r == transaction[p]
        t == CHOOSE u \in Tokens : token[u] = NoToken
        issued == [state |-> "inUse", family |-> r.family, expired |-> FALSE]
        late == r.parent # Nothing /\ token[r.parent].state # "inUse"
    IN /\ r.op = "issue" /\ r.at = "signed"
       /\ keys' = IF r.key \in ToSet(keys) THEN keys ELSE Append(keys, r.key)
       /\ \/ r.family = Nothing /\ UNCHANGED <<token, overtaken>>
          \/ /\ r.family # Nothing /\ \E u \in Tokens : token[u] = NoToken
             /\ token' = [Parent(r.parent) EXCEPT ![t] = issued]
             /\ overtaken' = [overtaken EXCEPT ![r.family] = IF late THEN @ + 1 ELSE @]
       /\ handed' = handed \cup {AccessToken(p)}
       /\ Finish(p)
       /\ UNCHANGED cache

\* revoke_refresh_token, and the UPDATE with its commit.
Logout(p) ==
    \/ /\ transaction[p] = Idle
       /\ \E t \in Tokens : token[t].state = "inUse" /\ Put(p, [op |-> "logout", token |-> t])
       /\ UNCHANGED <<token, keys, rowLock, keyLock, cache, handed, overtaken>>
    \/ LET t == transaction[p].token
       IN /\ transaction[p].op = "logout"
          /\ rowLock[t] = Nothing /\ token[t].state \in {"inUse", "revoked"}
          /\ token' = [token EXCEPT ![t].state = "revoked"]
          /\ Finish(p)
          /\ UNCHANGED <<keys, cache, handed, overtaken>>

\* A refusal, a lock timeout, a death: nothing is written.
Abandon(p) ==
    /\ transaction[p] # Idle
    /\ Finish(p)
    /\ UNCHANGED <<token, keys, cache, handed, overtaken>>

Expire(t) ==
    /\ token[t].state \in {"inUse", "revoked"} /\ ~token[t].expired
    /\ token' = [token EXCEPT ![t].expired = TRUE]
    /\ UNCHANGED <<keys, rowLock, keyLock, transaction, cache, handed, overtaken>>

\* _purge_expired_refresh_tokens, a day after expiry: no request that saw the
\* token before it expired is left.
Purge ==
    LET old == {t \in Tokens : token[t].expired /\ token[t].state \in {"inUse", "revoked"}}
    IN /\ old # {}
       /\ \A p \in Requests : /\ transaction[p].op = "issue" => transaction[p].parent \notin old
                              /\ transaction[p].op = "logout" => transaction[p].token \notin old
                              /\ transaction[p].op = "reuse" => transaction[p].victims \cap old = {}
       /\ token' = [t \in Tokens |-> IF t \in old THEN [token[t] EXCEPT !.state = "purged"] ELSE token[t]]
       /\ UNCHANGED <<keys, rowLock, keyLock, transaction, cache, handed, overtaken>>

-----------------------------------------------------------------------------

NewestOnly == IF keys = <<>> THEN {} ELSE {Last(keys)}

\* jwks_document
Published == ToSet(keys)

\* async_verification_key: the document is loaded when the cache is old or
\* does not know the key of a token.
LoadJwks(v) ==
    /\ handed # {}
    /\ cache' = [cache EXCEPT ![v] = Published]
    /\ UNCHANGED <<token, keys, rowLock, keyLock, transaction, handed, overtaken>>

AuthNext ==
    \/ \E p \in Requests :
          \/ Login(p) \/ Refresh(p) \/ RevokeFamily(p) \/ FlushParent(p) \/ PickKey(p) \/ CommitIssue(p)
          \/ Logout(p) \/ Abandon(p)
    \/ \E t \in Tokens : Expire(t)
    \/ Purge
    \/ \E v \in Verifiers : LoadJwks(v)

AuthSpec == AuthInit /\ [][AuthNext]_authVars

-----------------------------------------------------------------------------
(* Properties.                                                             *)

\* A family never has more tokens in use than the one of its login and one
\* for every rotation whose token was revoked between its read and its
\* commit: reuse detection, logout, expiry and rotations that die add none.
TokensInUseArePaidFor ==
    \A f \in Families : Cardinality(InUse(f)) <= 1 + overtaken[f]

\* async_verify_token: the key is at hand or is fetched.
Verifies(v, key) == key \in cache[v] \cup Published

\* Whatever a client holds can be verified by every service: two first keys
\* that were made at once are both published, and no token leaves before its
\* key is committed.
HandedOutVerifies == \A key \in handed, v \in Verifiers : Verifies(v, key)

-----------------------------------------------------------------------------
(* What the code does not ensure: TLC refutes it.                          *)

\* Two rotations read one token before either commits.
OneTokenPerFamily == \A f \in Families : Cardinality(InUse(f)) <= 1

\* A successor that is committed while the statement waits is not revoked.
NoHeirOfReuse ==
    [][\A p \in Requests : (transaction[p].op = "reuse" /\ token' # token) =>
          \A t \in Tokens : token'[t].family = transaction[p].family => token'[t].state # "inUse"]_authVars
=============================================================================
