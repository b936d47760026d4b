------------------------------ MODULE Accounts ------------------------------
(***************************************************************************)
(* Accounts: sign-up and log-in through the control API, seed and          *)
(* reset-password on the server's command line, which all run against the  *)
(* users and auth_tokens tables at the same time.  Sign-up is one          *)
(* transaction; the others are two statements, each on its own.            *)
(*                                                                         *)
(* A token is named by the call that mints it, a recovery password by the  *)
(* reset that draws it: both are random.  A user row is never deleted, so  *)
(* an account is named by its email.                                       *)
(***************************************************************************)
EXTENDS Naturals

CONSTANTS
  Emails, Passwords,
  SignUps, LogIns,  \* calls of POST /api/signup and /api/login
  Seeds, Resets,    \* runs of liveurld seed and reset-password
  None,             \* no account, no password, no call
  Faults            \* whether a statement may fail

Calls == SignUps \cup LogIns \cup Seeds \cup Resets
Secrets == Passwords \cup Resets

ASSUME CallAssumption ==
  /\ None \notin Emails \cup Passwords \cup Calls
  /\ SignUps \cap (LogIns \cup Seeds \cup Resets) = {}
  /\ LogIns \cap (Seeds \cup Resets) = {} /\ Seeds \cap Resets = {}
  /\ Passwords \cap Resets = {}
  /\ Faults \in BOOLEAN

VARIABLES
  users,      \* the accounts that have a committed row
  password,   \* users.password_hash, None when it is NULL
  tokens,     \* auth_tokens: the tokens of each account
  inserting,  \* the open transaction that has inserted an account's row
  pc,         \* where each call is
  email,      \* the account a call names
  secret,     \* the password a call gives or draws
  answer,     \* how a call ended
  creator,    \* history: the call that created an account
  was         \* history: the passwords an account has had

vars == <<users, password, tokens, inserting, pc, email, secret, answer, creator, was>>
input == <<email, secret>>
tables == <<users, password, tokens, creator, was>>

TypeOK ==
  /\ users \subseteq Emails
  /\ password \in [Emails -> Secrets \cup {None}]
  /\ tokens \in [Emails -> SUBSET Calls]
  /\ inserting \in [Emails -> SignUps \cup {None}]
  /\ pc \in [Calls -> {"idle", "start", "mint", "commit", "done"}]
  /\ email \in [Calls -> Emails]
  /\ secret \in [Calls -> Secrets \cup {None}]
  /\ answer \in [Calls -> {"none", "token", "refused", "error"}]
  /\ creator \in [Emails -> SignUps \cup Seeds \cup {None}]
  /\ was \in [Emails -> SUBSET Secrets]

\* Whoever signs up chooses a password; whoever logs in may know any.
Init ==
  /\ users = {}
  /\ password = [e \in Emails |-> None]
  /\ tokens = [e \in Emails |-> {}]
  /\ inserting = [e \in Emails |-> None]
  /\ pc = [c \in Calls |-> "idle"]
  /\ email \in [Calls -> Emails]
  /\ secret \in [Calls -> Secrets \cup {None}]
  /\ \A c \in SignUps : secret[c] \in Passwords
  /\ \A c \in LogIns : secret[c] \in Secrets
  /\ \A c \in Seeds : secret[c] = None
  /\ \A c \in Resets : secret[c] = c
  /\ answer = [c \in Calls |-> "none"]
  /\ creator = [e \in Emails |-> None]
  /\ was = [e \in Emails |-> {}]

Goto(c, from, to) == pc[c] = from /\ pc' = [pc EXCEPT ![c] = to]

End(c, from, a) == Goto(c, from, "done") /\ answer' = [answer EXCEPT ![c] = a]

\* A call goes on, or it ends with an error though its statement has executed.
Executed(c, from, to) ==
  \/ Goto(c, from, to) /\ UNCHANGED answer
  \/ Faults /\ End(c, from, "error")

Set(f, e, v) == [f EXCEPT ![e] = v]
Add(f, e, v) == [f EXCEPT ![e] = @ \cup {v}]

-----------------------------------------------------------------------------
(* Requests.                                                               *)

\* A request is decoded, or a command is run.
Receive(c) ==
  /\ Goto(c, "idle", "start")
  /\ UNCHANGED <<tables, inserting, input, answer>>

\* No JSON, no email address, a short password, or a client over its limit.
Reject(c) ==
  /\ c \in SignUps \cup LogIns
  /\ End(c, "idle", "refused")
  /\ UNCHANGED <<tables, inserting, input>>

\* A statement fails and leaves nothing; a sign-up has another action for it.
Fail(c) ==
  /\ Faults /\ c \notin SignUps
  /\ \E from \in {"start", "mint"} : End(c, from, "error")
  /\ UNCHANGED <<tables, inserting, input>>

-----------------------------------------------------------------------------
(* Sign-up.  An INSERT of an email waits for the transaction, if any, that *)
(* has inserted the same one.                                              *)

\* Mutant: INSERT ... ON CONFLICT DO UPDATE SET password_hash.
UpsertUser(c) ==
  /\ c \in SignUps /\ inserting[email[c]] = None
  /\ Goto(c, "start", "mint")
  /\ inserting' = Set(inserting, email[c], c)
  /\ UNCHANGED <<tables, input, answer>>

\* The INSERT of the user, or the unique violation that is ErrEmailTaken.
InsertUser(c) ==
  /\ c \in SignUps /\ inserting[email[c]] = None
  /\ \/ /\ email[c] \notin users
        /\ Goto(c, "start", "mint")
        /\ inserting' = Set(inserting, email[c], c)
        /\ UNCHANGED answer
     \/ /\ email[c] \in users
        /\ End(c, "start", "refused")
        /\ UNCHANGED inserting
  /\ UNCHANGED <<tables, input>>

\* The INSERT of its first token, in the same transaction.
MintFirst(c) ==
  /\ c \in SignUps
  /\ Goto(c, "mint", "commit")
  /\ UNCHANGED <<tables, inserting, input, answer>>

\* Mutant: the token is not part of the transaction.
CommitUserOnly(c) ==
  /\ Executed(c, "commit", "mint")
  /\ users' = users \cup {email[c]}
  /\ password' = Set(password, email[c], secret[c])
  /\ creator' = Set(creator, email[c], c)
  /\ was' = Add(was, email[c], secret[c])
  /\ inserting' = Set(inserting, email[c], None)
  /\ UNCHANGED <<tokens, input>>

\* COMMIT: user and token are there together, and the token is answered unless
\* the caller learns of a failure.
Commit(c) ==
  /\ End(c, "commit", "token") \/ (Faults /\ End(c, "commit", "error"))
  /\ users' = users \cup {email[c]}
  /\ password' = Set(password, email[c], secret[c])
  /\ tokens' = Add(tokens, email[c], c)
  /\ creator' = IF email[c] \in users THEN creator ELSE Set(creator, email[c], c)
  /\ was' = Add(was, email[c], secret[c])
  /\ inserting' = Set(inserting, email[c], None)
  /\ UNCHANGED input

Held(c) == inserting[email[c]] = c

\* Mutant: no deferred Rollback; the transaction stays open.
RollbackNothing(c) ==
  /\ Faults /\ c \in SignUps
  /\ \E from \in {"start", "mint", "commit"} : End(c, from, "error")
  /\ UNCHANGED <<tables, inserting, input>>

\* A statement or the COMMIT fails; the deferred Rollback undoes the rest.
Rollback(c) ==
  /\ Faults /\ c \in SignUps
  /\ \E from \in {"start", "mint", "commit"} : End(c, from, "error")
  /\ inserting' = IF Held(c) THEN Set(inserting, email[c], None) ELSE inserting
  /\ UNCHANGED <<tables, input>>

-----------------------------------------------------------------------------
(* Log-in, seed and reset-password.                                        *)

\* Mutant: an account without a password lets any password in.
VerifyAny(c) ==
  /\ c \in LogIns
  /\ \/ /\ email[c] \in users /\ password[email[c]] \in {secret[c], None}
        /\ Goto(c, "start", "mint") /\ UNCHANGED answer
     \/ /\ ~(email[c] \in users /\ password[email[c]] \in {secret[c], None})
        /\ End(c, "start", "refused")
  /\ UNCHANGED <<tables, inserting, input>>

\* The SELECT sees committed rows only; ErrInvalidCredentials covers no such
\* account, no password and another password.
VerifyPassword(c) ==
  /\ c \in LogIns
  /\ \/ /\ email[c] \in users /\ password[email[c]] = secret[c]
        /\ Goto(c, "start", "mint") /\ UNCHANGED answer
     \/ /\ email[c] \notin users \/ password[email[c]] # secret[c]
        /\ End(c, "start", "refused")
  /\ UNCHANGED <<tables, inserting, input>>

\* Mutant: the account is created in a transaction that is left open.
CreateOpen(c) ==
  /\ c \in Seeds /\ inserting[email[c]] = None
  /\ Executed(c, "start", "mint")
  /\ inserting' = Set(inserting, email[c], c)
  /\ UNCHANGED <<tables, input>>

\* INSERT ... ON CONFLICT DO UPDATE, which waits as InsertUser does.
CreateUser(c) ==
  /\ c \in Seeds /\ inserting[email[c]] = None
  /\ Executed(c, "start", "mint")
  /\ users' = users \cup {email[c]}
  /\ creator' = IF email[c] \in users THEN creator ELSE Set(creator, email[c], c)
  /\ UNCHANGED <<password, tokens, was, inserting, input>>

\* The UPDATE does not see, and does not wait for, an uncommitted row.
ResetPassword(c) ==
  /\ c \in Resets
  /\ \/ /\ email[c] \in users
        /\ Executed(c, "start", "mint")
        /\ password' = Set(password, email[c], secret[c])
        /\ was' = Add(was, email[c], secret[c])
     \/ /\ email[c] \notin users
        /\ End(c, "start", "refused")
        /\ UNCHANGED <<password, was>>
  /\ UNCHANGED <<users, tokens, creator, inserting, input>>

\* Mutant: the token is answered although its INSERT has failed.
NewTokenAnyway(c) ==
  /\ c \notin SignUps
  /\ End(c, "mint", "token")
  /\ \/ tokens' = Add(tokens, email[c], c)
     \/ Faults /\ UNCHANGED tokens
  /\ UNCHANGED <<users, password, creator, was, inserting, input>>

\* NewToken's INSERT, on its own, for the account that was found before.
NewToken(c) ==
  /\ c \notin SignUps
  /\ End(c, "mint", "token") \/ (Faults /\ End(c, "mint", "error"))
  /\ tokens' = Add(tokens, email[c], c)
  /\ UNCHANGED <<users, password, creator, was, inserting, input>>

Run(c) ==
  \/ InsertUser(c) \/ MintFirst(c) \/ Commit(c)
  \/ VerifyPassword(c) \/ CreateUser(c) \/ ResetPassword(c) \/ NewToken(c)

Next == \E c \in Calls : Receive(c) \/ Reject(c) \/ Run(c) \/ Rollback(c) \/ Fail(c)

Spec == Init /\ [][Next]_vars

\* PostgreSQL executes a statement that waits for nothing.  No failure and no
\* deadline is counted on to end a call.
FairSpec == Spec /\ \A c \in Calls : WF_vars(Run(c))

-----------------------------------------------------------------------------
(* Properties.                                                             *)

\* UserByToken: the account a token opens.
Opens(t, e) == t \in tokens[e]

\* Signing up gives nobody an account that was there before, seeded or signed
\* up, however the calls race: a sign-up's token opens only the account it
\* created, and an account's password is its creator's or an operator's
\* (ErrEmailTaken, users.go:18-22).
NoTakeover ==
  \A e \in users :
    /\ \A c \in SignUps : Opens(c, e) => creator[e] = c
    /\ password[e] \in Resets \cup {None} \/ creator[e] \in SignUps
    /\ password[e] \in Passwords => password[e] = secret[creator[e]]

\* Sign-up is all or nothing (SignUp, users.go:78-121): an account that a
\* sign-up created has a password and that sign-up's token, and a caller that
\* was refused has left nothing.
SignUpIsAtomic ==
  \A e \in users : creator[e] \in SignUps =>
    /\ Opens(creator[e], e) /\ password[e] # None
    /\ answer[creator[e]] # "refused"

\* A log-in opens an account only for a password the account has had, not one
\* that is being set by a transaction yet to commit, nor for an account without
\* a password (VerifyPassword, users.go:128-146).
LogInHadPassword ==
  \A e \in Emails : \A c \in LogIns : Opens(c, e) => secret[c] \in was[e]

\* Whoever is shown a token can use it: it was stored for the account named,
\* and stays stored whatever other calls do (signUp, logIn, seedCmd,
\* resetPasswordCmd).
AnsweredTokenWorks ==
  \A c \in Calls : answer[c] = "token" => Opens(c, email[c])

\* No call waits for ever for another one's transaction, failed ones included.
CallEnds == \A c \in Calls : pc[c] = "start" ~> pc[c] = "done"
=============================================================================
