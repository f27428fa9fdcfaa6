------------------------------ MODULE Recovery ------------------------------
(***************************************************************************)
(* How the password of one local account is changed (AuthService's         *)
(* changePassword, forgotPassword, verifyResetOtp and resetPassword), next *)
(* to the logins that read it and the refreshes that follow them: the      *)
(* password and tokenVersion in the user document, the mailed code, the    *)
(* reset tokens and the refresh tokens in Redis.                           *)
(*                                                                         *)
(* A password stands for its hash, too; a reset token is a fresh 256-bit   *)
(* name; a code is one of few, so two requests may get the same one.       *)
(***************************************************************************)
EXTENDS Naturals, FiniteSets

CONSTANTS
  Handlers,        \* requests that can be in flight at the same time
  Passwords,
  Codes,           \* verification codes
  Tokens,          \* reset tokens (bounds how many are ever issued)
  NoSecret,        \* neither a password, nor a code, nor a token
  MaxTokenVersion, \* bound: how often the tokenVersion is incremented
  RecoveryFaults   \* what can fail: the process ("die"), SET, DEL, the increment

ASSUME RecoveryAssumption ==
  /\ IsFiniteSet(Handlers)
  /\ NoSecret \notin Passwords \cup Codes \cup Tokens
  /\ MaxTokenVersion \in Nat
  /\ RecoveryFaults \subseteq {"die", "set", "del", "revoke"}

VARIABLES
  password,  \* the password in the user document
  tokens,    \* tokenVersion
  code,      \* the code in Redis, NoSecret without the key
  reset,     \* reset[t]: "fresh", "live" while its key is in Redis, or "gone"
  accepted,  \* the passwords of the logins that issued accepted access tokens
  sessions,  \* the passwords of the logins whose refresh tokens still work
  renewed,   \* those behind accepted access tokens that refreshes issued
  lapsed,    \* a revocation was lost since the last increment (a history)
  retained,  \* the tokens whose DEL was lost (a history)
  uses,      \* uses[t]: password changes made with t before that (a history)
  handler    \* handler[h]: a request in flight and what it read

account == <<password, tokens, accepted, sessions, renewed, lapsed>>

secrets == <<code, reset, uses, retained>>

recoveryVars == <<account, secrets, handler>>

Free ==
  [pc |-> "idle", secret |-> NoSecret, new |-> NoSecret, version |-> 0]

\* "hash" comes before the transaction of changePassword or resetPassword,
\* "del" and "revoke" after it.
Stages == {"idle", "grant", "consume", "hash", "del", "revoke", "issue",
           "found", "renew"}

Secrets == Passwords \cup Codes \cup Tokens \cup {NoSecret}

RecoveryTypeOK ==
  /\ password \in Passwords
  /\ tokens \in Nat
  /\ code \in Codes \cup {NoSecret}
  /\ reset \in [Tokens -> {"fresh", "live", "gone"}]
  /\ accepted \subseteq Passwords
  /\ sessions \subseteq Passwords
  /\ renewed \subseteq Passwords
  /\ lapsed \in BOOLEAN
  /\ uses \in [Tokens -> Nat]
  /\ retained \subseteq Tokens
  /\ handler \in [Handlers -> [pc : Stages, secret : Secrets,
                               new : Passwords \cup {NoSecret}, version : Nat]]
  /\ \A h \in Handlers :
       /\ handler[h].pc \in {"issue", "found", "renew"} => handler[h].secret \in Passwords
       /\ handler[h].pc = "hash" => handler[h].new \in Passwords
       /\ handler[h].pc = "del" => handler[h].secret \in Tokens

----------------------------------------------------------------------------
RecoveryInit ==
  /\ password \in Passwords
  /\ tokens = 0
  /\ code = NoSecret
  /\ reset = [t \in Tokens |-> "fresh"]
  /\ accepted = {}
  /\ sessions = {}
  /\ renewed = {}
  /\ lapsed = FALSE
  /\ uses = [t \in Tokens |-> 0]
  /\ retained = {}
  /\ handler = [h \in Handlers |-> Free]

Hold(h, step) == handler' = [handler EXCEPT ![h] = step]

Done(h) == Hold(h, Free)

Advance(h, pc) == Hold(h, [handler[h] EXCEPT !.pc = pc])

----------------------------------------------------------------------------
\* login: the user document is read, the access token is issued later.

LoginReads(h) ==
  /\ handler[h].pc = "idle"
  /\ Hold(h, [pc |-> "issue", secret |-> password, new |-> NoSecret, version |-> tokens])
  /\ UNCHANGED <<account, secrets>>

\* A login that issues its token for the version of now.
LoginIssuesFresh(h) ==
  /\ handler[h].pc = "issue"
  /\ accepted' = accepted \cup {handler[h].secret}
  /\ sessions' = sessions \cup {handler[h].secret}
  /\ Done(h)
  /\ UNCHANGED <<password, tokens, renewed, lapsed, secrets>>

\* A token with the version that was read before joins the accepted ones.
Joins(h, to) ==
  IF handler[h].version = tokens THEN to \cup {handler[h].secret} ELSE to

\* The client gets an access token with the version read with the password, and
\* a refresh token.
LoginIssues(h) ==
  /\ handler[h].pc = "issue"
  /\ accepted' = Joins(h, accepted)
  /\ sessions' = sessions \cup {handler[h].secret}
  /\ Done(h)
  /\ UNCHANGED <<password, tokens, renewed, lapsed, secrets>>

----------------------------------------------------------------------------
\* refreshToken; Sessions has its steps in Redis.

\* A refresh token that came from a login with p is found.
RefreshFinds(h, p) ==
  /\ handler[h].pc = "idle"
  /\ p \in sessions
  /\ Hold(h, [Free EXCEPT !.pc = "found", !.secret = p])
  /\ UNCHANGED <<account, secrets>>

\* The user is read; nothing here depends on the password.
RefreshReads(h) ==
  /\ handler[h].pc = "found"
  /\ Hold(h, [handler[h] EXCEPT !.pc = "renew", !.version = tokens])
  /\ UNCHANGED <<account, secrets>>

\* The refresh token is rotated, and the client gets both.
RefreshIssues(h) ==
  /\ handler[h].pc = "renew"
  /\ renewed' = Joins(h, renewed)
  /\ sessions' = sessions \cup {handler[h].secret}
  /\ Done(h)
  /\ UNCHANGED <<password, tokens, accepted, lapsed, secrets>>

\* Logout, eviction, revocation or expiry; none of them comes with a change of
\* the password.
SessionsEnd(p) ==
  /\ p \in sessions
  /\ sessions' = sessions \ {p}
  /\ UNCHANGED <<password, tokens, accepted, renewed, lapsed, secrets, handler>>

----------------------------------------------------------------------------
\* changePassword.

\* The old password was right and the new one is different.
ChangeReads(h, new) ==
  /\ handler[h].pc = "idle"
  /\ new # password
  /\ Hold(h, [Free EXCEPT !.pc = "hash", !.new = new])
  /\ UNCHANGED <<account, secrets>>

Count(t) == uses' = IF t \in retained THEN uses ELSE [uses EXCEPT ![t] = @ + 1]

\* The transaction that sets the password, of changePassword and of
\* resetPassword: neither looks at the password it replaces.
Commit(h) ==
  LET t == handler[h].secret IN
  /\ handler[h].pc = "hash"
  /\ password' = handler[h].new
  /\ IF t \in Tokens
       THEN Advance(h, "del") /\ Count(t)
       ELSE Advance(h, "revoke") /\ UNCHANGED uses
  /\ UNCHANGED <<tokens, accepted, sessions, renewed, lapsed, code, reset, retained>>

\* With the activity log's entry, or not at all.
Abort(h) ==
  /\ handler[h].pc = "hash"
  /\ Done(h)
  /\ UNCHANGED <<account, secrets>>

\* incrementTokenVersion ends every access token; TokenVersion has its steps.
Revoke(h) ==
  /\ handler[h].pc = "revoke"
  /\ \/ /\ tokens < MaxTokenVersion
        /\ tokens' = tokens + 1
        /\ accepted' = {} /\ renewed' = {}
        /\ lapsed' = FALSE
     \/ /\ "revoke" \in RecoveryFaults
        /\ lapsed' = TRUE
        /\ UNCHANGED <<tokens, accepted, renewed>>
  /\ Done(h)
  /\ UNCHANGED <<password, sessions, secrets>>

----------------------------------------------------------------------------
\* forgotPassword and verifyResetOtp.

\* A new code overwrites the one before it; MailQueue has its mail.
Forgot(h, c) ==
  /\ handler[h].pc = "idle"
  /\ code' = c \/ ("set" \in RecoveryFaults /\ UNCHANGED code)
  /\ UNCHANGED <<account, reset, uses, retained, handler>>

\* The right code is presented.
VerifyReads(h, c) ==
  /\ handler[h].pc = "idle"
  /\ c = code
  /\ Hold(h, [Free EXCEPT !.pc = "grant", !.secret = c])
  /\ UNCHANGED <<account, secrets>>

\* The reset token is stored and will be answered, stored or not.
Grant(h, t) ==
  /\ handler[h].pc = "grant"
  /\ reset[t] = "fresh"
  /\ \/ reset' = [reset EXCEPT ![t] = "live"]
     \/ "set" \in RecoveryFaults /\ reset' = [reset EXCEPT ![t] = "gone"]
  /\ Advance(h, "consume")
  /\ UNCHANGED <<account, code, uses, retained>>

\* The code's key is deleted, whatever code it holds by now.
Consume(h) ==
  /\ handler[h].pc = "consume"
  /\ code' = NoSecret \/ ("del" \in RecoveryFaults /\ UNCHANGED code)
  /\ Done(h)
  /\ UNCHANGED <<account, reset, uses, retained>>

----------------------------------------------------------------------------
\* resetPassword.

ResetReads(h, t, new) ==
  /\ handler[h].pc = "idle"
  /\ reset[t] = "live"
  /\ Hold(h, [Free EXCEPT !.pc = "hash", !.secret = t, !.new = new])
  /\ UNCHANGED <<account, secrets>>

\* A reset that keeps its token until it expires.
SpendNot(h) ==
  /\ handler[h].pc = "del"
  /\ Advance(h, "revoke")
  /\ UNCHANGED <<account, secrets>>

\* The token's key is deleted after the password was changed.
Spend(h) ==
  LET t == handler[h].secret IN
  /\ handler[h].pc = "del"
  /\ \/ reset' = [reset EXCEPT ![t] = "gone"] /\ UNCHANGED retained
     \/ "del" \in RecoveryFaults /\ retained' = retained \cup {t} /\ UNCHANGED reset
  /\ Advance(h, "revoke")
  /\ UNCHANGED <<account, code, uses>>

----------------------------------------------------------------------------
\* Around them.

\* The code is an hour old, a reset token fifteen minutes.
CodeExpires ==
  /\ code # NoSecret
  /\ code' = NoSecret
  /\ UNCHANGED <<account, reset, uses, retained, handler>>

TokenExpires(t) ==
  /\ reset[t] = "live"
  /\ reset' = [reset EXCEPT ![t] = "gone"]
  /\ UNCHANGED <<account, code, uses, retained, handler>>

\* The process stops: what the requests in flight had still to do is lost.
Stop ==
  /\ "die" \in RecoveryFaults
  /\ \E h \in Handlers : handler[h].pc # "idle"
  /\ handler' = [h \in Handlers |-> Free]
  /\ lapsed' = (lapsed \/ \E h \in Handlers : handler[h].pc \in {"del", "revoke"})
  /\ retained' = retained \cup {t \in Tokens :
       \E h \in Handlers : handler[h].pc = "del" /\ handler[h].secret = t}
  /\ UNCHANGED <<password, tokens, accepted, sessions, renewed, code, reset, uses>>

RecoveryNext ==
  \/ \E h \in Handlers :
       \/ LoginReads(h) \/ LoginIssues(h)
       \/ \E p \in Passwords : RefreshFinds(h, p)
       \/ RefreshReads(h) \/ RefreshIssues(h)
       \/ \E new \in Passwords : ChangeReads(h, new)
       \/ Commit(h) \/ Abort(h) \/ Revoke(h)
       \/ \E c \in Codes : Forgot(h, c) \/ VerifyReads(h, c)
       \/ \E t \in Tokens : Grant(h, t)
       \/ Consume(h)
       \/ \E t \in Tokens, new \in Passwords : ResetReads(h, t, new)
       \/ Spend(h)
  \/ \E p \in Passwords : SessionsEnd(p)
  \/ CodeExpires
  \/ \E t \in Tokens : TokenExpires(t)
  \/ Stop

RecoverySpec == RecoveryInit /\ [][RecoveryNext]_recoveryVars

----------------------------------------------------------------------------
\* Properties.

\* The password was changed by a request that has still to revoke the access
\* tokens.
Revoking == \E h \in Handlers : handler[h].pc \in {"del", "revoke"}

\* An access token from a login that is still accepted was given for the
\* password of now, however logins, changes and resets interleave: a login that
\* compared the old password read the old version with it.  Only while a change
\* is on its way to the increment, or after that increment was lost, the access
\* token of an older login is accepted.
OldLoginsEnd ==
  Revoking \/ lapsed \/ accepted \subseteq {password}

\* What "Increment token version to invalidate all existing tokens" says of a
\* change of the password: no token from a login with an older one is good for
\* anything.  The refresh tokens are, which the increment does not touch: what
\* they are exchanged for carries the new version.
OldPasswordOpensNothing ==
  Revoking \/ lapsed \/ (accepted \cup renewed) \subseteq {password}

\* A reset token that changed the password is dead once the request that used
\* it has answered, so only requests that overlap can use it again, each of
\* them once; unless its DEL was lost.
SingleUse ==
  \A t \in Tokens : uses[t] > 0 /\ t \notin retained =>
    /\ reset[t] = "live" =>
         \E h \in Handlers : handler[h].pc = "del" /\ handler[h].secret = t
    /\ uses[t] <= Cardinality(Handlers)

----------------------------------------------------------------------------
\* The inductive invariant behind them.

\* A request in flight read a version of before.
VersionsKnown == \A h \in Handlers : handler[h].version <= tokens

\* While nothing is on its way and nothing was lost, neither an accepted access
\* token nor a login in flight has an older password.
Matching ==
  Revoking \/ lapsed \/
    (/\ accepted \subseteq {password}
     /\ \A h \in Handlers : handler[h].pc = "issue" /\ handler[h].version = tokens
                              => handler[h].secret = password)

\* The requests at a stage with a secret.
At(pc, t) == {h \in Handlers : handler[h].pc = pc /\ handler[h].secret = t}

\* Until its key is gone, a token was used by the requests that have still to
\* delete it and by nobody else; those that read it before that can follow.
Spending ==
  \A t \in Tokens \ retained :
    /\ reset[t] # "gone" => uses[t] = Cardinality(At("del", t))
    /\ uses[t] + Cardinality(At("hash", t)) <= Cardinality(Handlers)
=============================================================================
