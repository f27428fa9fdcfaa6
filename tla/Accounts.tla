------------------------------ MODULE Accounts ------------------------------
(***************************************************************************)
(* How an account comes into being for one e-mail: AuthService.create, the *)
(* registration, GoogleOAuthService.handleCallback, and the new customer   *)
(* of BookingService.createManualBooking.  All look the e-mail up before   *)
(* they insert the user (the first two in a transaction, with the security *)
(* record and the log entry); the index on the e-mail is unique.           *)
(* A callback spends an OAuth state first, which getAuthorizationUrl left  *)
(* in Redis.                                                               *)
(*                                                                         *)
(* RedisService hides what Redis refuses: GET answers null, SET and DEL    *)
(* are lost.  The rate limit and the sessions have modules of their own.   *)
(***************************************************************************)
EXTENDS Naturals

CONSTANTS
  Visitors,      \* requests that can be in flight at the same time
  States,        \* OAuth states (bounds how many are ever issued)
  NoState,
  OAuthFaults    \* the commands that can fail: "set", "del"

ASSUME AccountsAssumption ==
  NoState \notin States /\ OAuthFaults \subseteq {"set", "del"}

VARIABLES
  user,      \* the provider of the user with the e-mail, "nobody" without one
  issued,    \* issued[s]: "fresh", "stored" in Redis, or "dropped"
  visitor,   \* visitor[v]: a request in flight and its state
  redeemed,  \* redeemed[s]: exchanges with the state's verifier, up to two (a history)
  doubled,   \* the states two callbacks overlapped on or whose DEL was lost (a history)
  crossed    \* requests about to insert that overlapped another such (a history)

accountVars == <<user, issued, visitor, redeemed, doubled, crossed>>

\* createManualBooking sets no provider.
Providers == {"local", "google", "unset"}

\* The stages that insert a user next.
Inserting == {"commit", "customer"}

Away == [pc |-> "idle", state |-> NoState]

AccountsTypeOK ==
  /\ user \in Providers \cup {"nobody"}
  /\ issued \in [States -> {"fresh", "stored", "dropped"}]
  /\ visitor \in [Visitors -> [pc : {"idle", "find", "commit", "welcome", "del", "exchange",
                                     "provider", "email", "create", "customer"},
                               state : States \cup {NoState}]]
  /\ \A v \in Visitors :
       visitor[v].state # NoState <=> visitor[v].pc \in {"del", "exchange"}
  /\ redeemed \in [States -> 0..2]
  /\ doubled \subseteq States
  /\ crossed \subseteq Visitors

NoUser == user = "nobody"

----------------------------------------------------------------------------
AccountsInit ==
  /\ user = "nobody"
  /\ issued = [s \in States |-> "fresh"]
  /\ visitor = [v \in Visitors |-> Away]
  /\ redeemed = [s \in States |-> 0]
  /\ doubled = {}
  /\ crossed = {}

Continue(v, pc) == visitor' = [visitor EXCEPT ![v] = [pc |-> pc, state |-> NoState]]

Leave(v) == visitor' = [visitor EXCEPT ![v] = Away]

\* The look-up found nobody: v is about to insert, next to others maybe.
Decide(v, pc) ==
  LET others == {w \in Visitors \ {v} : visitor[w].pc \in Inserting}
  IN  /\ Continue(v, pc)
      /\ crossed' = IF others = {} THEN crossed ELSE crossed \cup others \cup {v}

\* The insert is done, or was not.
Decided(v) == crossed' = crossed \ {v}

\* The rate limit lets the registration through, the password is strong.
StartRegister(v) ==
  /\ visitor[v].pc = "idle"
  /\ Continue(v, "find")
  /\ UNCHANGED <<user, issued, redeemed, doubled, crossed>>

\* A registration that looks for users with a password of their own.
FindLocal(v) ==
  /\ visitor[v].pc = "find"
  /\ \/ user # "local" /\ Decide(v, "commit")
     \/ user = "local" /\ Leave(v) /\ UNCHANGED crossed
  /\ UNCHANGED <<user, issued, redeemed, doubled>>

\* "Email already exists!", or the password is hashed.
FindByAddress(v) ==
  /\ visitor[v].pc = "find"
  /\ \/ NoUser /\ Decide(v, "commit")
     \/ ~NoUser /\ Leave(v) /\ UNCHANGED crossed
  /\ UNCHANGED <<user, issued, redeemed, doubled>>

\* The transaction: the user's index refuses a second one.
RegisterCommits(v) ==
  /\ visitor[v].pc = "commit"
  /\ IF NoUser
       THEN user' = "local" /\ Continue(v, "welcome")
       ELSE Leave(v) /\ UNCHANGED user
  /\ Decided(v)
  /\ UNCHANGED <<issued, redeemed, doubled>>

\* Any of its inserts fails, and all are undone.
RegisterAborts(v) ==
  /\ visitor[v].pc = "commit"
  /\ Leave(v)
  /\ Decided(v)
  /\ UNCHANGED <<user, issued, redeemed, doubled>>

\* The mail is queued or lost, nobody minds, and the registration logs in or
\* fails at that; the user stays.
Welcome(v) ==
  /\ visitor[v].pc = "welcome"
  /\ Leave(v)
  /\ UNCHANGED <<user, issued, redeemed, doubled, crossed>>

\* createManualBooking, its other checks passed, finds no user for the
\* customer's e-mail; one that is there is booked for instead.
FindCustomer(v) ==
  /\ visitor[v].pc = "idle"
  /\ NoUser
  /\ Decide(v, "customer")
  /\ UNCHANGED <<user, issued, redeemed, doubled>>

\* The customer is created without provider and security record, and stays if
\* the booking fails; or the insert fails, at the index or otherwise.
CreateCustomer(v) ==
  /\ visitor[v].pc = "customer"
  /\ \/ NoUser /\ user' = "unset"
     \/ UNCHANGED user
  /\ Leave(v)
  /\ Decided(v)
  /\ UNCHANGED <<issued, redeemed, doubled>>

\* getAuthorizationUrl stores a state that is valid for ten minutes.
Authorize(s) ==
  /\ issued[s] = "fresh"
  /\ \/ issued' = [issued EXCEPT ![s] = "stored"]
     \/ "set" \in OAuthFaults /\ issued' = [issued EXCEPT ![s] = "dropped"]
  /\ UNCHANGED <<user, visitor, redeemed, doubled, crossed>>

StateExpires(s) ==
  /\ issued[s] = "stored"
  /\ issued' = [issued EXCEPT ![s] = "dropped"]
  /\ UNCHANGED <<user, visitor, redeemed, doubled, crossed>>

\* GET finds the state; other callbacks are refused.
StartCallback(v, s) ==
  /\ visitor[v].pc = "idle"
  /\ issued[s] = "stored"
  /\ visitor' = [visitor EXCEPT ![v] = [pc |-> "del", state |-> s]]
  /\ doubled' = doubled \cup {t \in {s} : \E w \in Visitors : visitor[w].state = s}
  /\ UNCHANGED <<user, issued, redeemed, crossed>>

\* A callback that leaves the state to its expiry.
KeepState(v) ==
  /\ visitor[v].pc = "del"
  /\ visitor' = [visitor EXCEPT ![v].pc = "exchange"]
  /\ UNCHANGED <<user, issued, redeemed, doubled, crossed>>

\* DEL, whether or not the state was still there.
DeleteState(v) ==
  LET s == visitor[v].state IN
  /\ visitor[v].pc = "del"
  /\ visitor' = [visitor EXCEPT ![v].pc = "exchange"]
  /\ \/ issued' = [issued EXCEPT ![s] = "dropped"] /\ UNCHANGED doubled
     \/ "del" \in OAuthFaults /\ doubled' = doubled \cup {s} /\ UNCHANGED issued
  /\ UNCHANGED <<user, redeemed, crossed>>

\* The code is exchanged for tokens, and they say who signs in; or Google
\* refuses, the token does not verify, or the e-mail is not verified.
Exchange(v) ==
  /\ visitor[v].pc = "exchange"
  /\ redeemed' = [redeemed EXCEPT ![visitor[v].state] = IF @ = 2 THEN 2 ELSE @ + 1]
  /\ Continue(v, "provider") \/ Leave(v)
  /\ UNCHANGED <<user, issued, doubled, crossed>>

\* A user of Google's signs in, if its status allows.
FindByProvider(v) ==
  /\ visitor[v].pc = "provider"
  /\ IF user = "google" THEN Leave(v) ELSE Continue(v, "email")
  /\ UNCHANGED <<user, issued, redeemed, doubled, crossed>>

\* An e-mail that is taken is not linked.
FindSameAddress(v) ==
  /\ visitor[v].pc = "email"
  /\ IF NoUser THEN Continue(v, "create") ELSE Leave(v)
  /\ UNCHANGED <<user, issued, redeemed, doubled, crossed>>

\* The transaction creates a user with an empty password, which the schema's
\* required validator refuses.
CreateFromGoogle(v) ==
  /\ visitor[v].pc = "create"
  /\ Leave(v)
  /\ UNCHANGED <<user, issued, redeemed, doubled, crossed>>

\* AdminService.deleteUserByAdmin; the e-mail is free again.
DeleteUser ==
  /\ ~NoUser
  /\ user' = "nobody"
  /\ UNCHANGED <<issued, visitor, redeemed, doubled, crossed>>

AccountsNext ==
  \/ \E v \in Visitors :
       \/ StartRegister(v) \/ FindByAddress(v) \/ RegisterCommits(v) \/ RegisterAborts(v)
       \/ Welcome(v) \/ FindCustomer(v) \/ CreateCustomer(v)
       \/ \E s \in States : StartCallback(v, s)
       \/ DeleteState(v) \/ Exchange(v) \/ FindByProvider(v) \/ FindSameAddress(v)
       \/ CreateFromGoogle(v)
  \/ \E s \in States : Authorize(s) \/ StateExpires(s)
  \/ DeleteUser

AccountsSpec == AccountsInit /\ [][AccountsNext]_accountVars

----------------------------------------------------------------------------
\* Properties.

\* A registration or a manual booking that found nobody with the e-mail and meets
\* the index on it (a duplicate-key error instead of "Email already exists!", or
\* instead of a booking) overlapped another of them: a user of any provider is
\* seen by every look-up, and Google's sign-ups never take an e-mail.
DuplicateExplained ==
  \A v \in Visitors : visitor[v].pc \in Inserting /\ ~NoUser => v \in crossed

\* A state serves one exchange, unless two callbacks presented it before
\* either deleted it, or Redis lost the DEL.
StateOnce == \A s \in States : redeemed[s] > 1 => s \in doubled

----------------------------------------------------------------------------
\* The inductive invariants behind them.

\* Who is about to insert and crossed nobody is the only one, and nobody was
\* there.
Uncrossed ==
  \A v \in Visitors : visitor[v].pc \in Inserting /\ v \notin crossed =>
    /\ NoUser
    /\ \A w \in Visitors : visitor[w].pc \in Inserting => w = v

\* A state nobody doubled is with one callback at most, has served nobody while
\* it is there, and can be found no more once it may serve.
StateSpent ==
  \A s \in States \ doubled :
    /\ redeemed[s] > 0 => redeemed[s] = 1 /\ issued[s] = "dropped"
    /\ \A v \in Visitors : visitor[v].state = s =>
         /\ redeemed[s] = 0
         /\ visitor[v].pc = "exchange" => issued[s] = "dropped"
         /\ \A w \in Visitors : visitor[w].state = s => w = v
=============================================================================
