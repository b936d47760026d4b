--------------------------- MODULE AccountsProofs ---------------------------
(***************************************************************************)
(* Proofs about accounts, for any number of emails, passwords and calls.   *)
(* A sign-up's transaction keeps every other INSERT of its email waiting   *)
(* (OneTransaction), so that it commits to an email without a row; what is *)
(* known of each account's creator, tokens and passwords follows.          *)
(***************************************************************************)
EXTENDS Accounts, TLAPS

\* What the calls are given.
SecretsOK ==
  /\ \A c \in SignUps : secret[c] \in Passwords
  /\ \A c \in LogIns : secret[c] \in Secrets
  /\ \A c \in Resets : secret[c] = c

\* An open transaction is that of one sign-up, and its account is not there yet.
OneTransaction ==
  /\ \A e \in Emails : inserting[e] # None =>
       /\ email[inserting[e]] = e
       /\ pc[inserting[e]] \in {"mint", "commit"}
  /\ \A c \in Calls : pc[c] = "commit" => c \in SignUps
  /\ \A c \in SignUps : pc[c] \in {"mint", "commit"} => Held(c) /\ email[c] \notin users

\* Without a row there is nothing else, and a token is minted for a row.
NoRowNothing ==
  /\ \A e \in Emails : e \notin users =>
       tokens[e] = {} /\ password[e] = None /\ creator[e] = None
  /\ \A c \in Calls \ SignUps : pc[c] = "mint" => email[c] \in users

\* A sign-up that created an account is over, and was not refused.
CreatorIsDone ==
  \A e \in users : creator[e] \in SignUps =>
    email[creator[e]] = e /\ pc[creator[e]] = "done"

\* Every password of an account is remembered, and so is one that let a log-in in.
PasswordsKnown ==
  /\ \A e \in Emails : password[e] \in was[e] \cup {None}
  /\ \A c \in LogIns : pc[c] = "mint" => secret[c] \in was[email[c]]

AccountInv ==
  /\ TypeOK /\ SecretsOK /\ OneTransaction /\ NoRowNothing
  /\ CreatorIsDone /\ PasswordsKnown
  /\ NoTakeover /\ SignUpIsAtomic /\ LogInHadPassword /\ AnsweredTokenWorks

-----------------------------------------------------------------------------

\* Before any call there is no account that anything could be wrong with.
LEMMA InitAccountInv == Init => AccountInv
<1> SUFFICES ASSUME Init PROVE AccountInv
  OBVIOUS
<1> USE CallAssumption DEF CallAssumption, Init, Calls, Secrets
<1>1. TypeOK BY DEF TypeOK
<1>2. SecretsOK BY DEF SecretsOK
<1>3. OneTransaction /\ NoRowNothing /\ CreatorIsDone /\ PasswordsKnown
  BY DEF OneTransaction, NoRowNothing, CreatorIsDone, PasswordsKnown, Held
<1>4. NoTakeover /\ SignUpIsAtomic /\ LogInHadPassword /\ AnsweredTokenWorks
  BY DEF NoTakeover, SignUpIsAtomic, LogInHadPassword, AnsweredTokenWorks, Opens
<1> QED BY <1>1, <1>2, <1>3, <1>4 DEF AccountInv

\* A call that touches no account, and holds no transaction before or after.
LEMMA TablesUntouched ==
  ASSUME AccountInv, NEW c \in Calls, UNCHANGED <<tables, inserting, input>>,
         NEW to \in {"start", "mint", "done"}, pc' = [pc EXCEPT ![c] = to],
         to = "mint" => c \in LogIns /\ email[c] \in users /\ password[email[c]] = secret[c],
         pc[c] # "done", ~Held(c),
         answer' \in {answer, [answer EXCEPT ![c] = "refused"], [answer EXCEPT ![c] = "error"]}
  PROVE  AccountInv'
<1> USE CallAssumption DEF CallAssumption, AccountInv, tables, input, Calls, Secrets, TypeOK
<1>1. TypeOK' OBVIOUS
<1>2. SecretsOK' BY DEF SecretsOK
<1>3. OneTransaction'
  <2>1. \A e \in Emails : inserting[e] # None => inserting[e] # c
    BY DEF OneTransaction, Held
  <2> QED BY <2>1 DEF OneTransaction, Held
<1>4. NoRowNothing' BY DEF NoRowNothing
<1>5. CreatorIsDone' BY DEF CreatorIsDone
<1>6. PasswordsKnown' BY DEF PasswordsKnown, SecretsOK
<1>7. NoTakeover' BY DEF NoTakeover, Opens
<1>8. SignUpIsAtomic' BY DEF SignUpIsAtomic, CreatorIsDone, Opens
<1>9. LogInHadPassword' /\ AnsweredTokenWorks'
  BY DEF LogInHadPassword, AnsweredTokenWorks, Opens
<1> QED BY <1>1, <1>2, <1>3, <1>4, <1>5, <1>6, <1>7, <1>8, <1>9

\* A call that only stores a token, or fails to: NewToken.
LEMMA NewTokenKeepsInv ==
  ASSUME AccountInv, NEW c \in Calls, NewToken(c)
  PROVE  AccountInv'
<1> USE CallAssumption DEF CallAssumption, AccountInv, NewToken, End, Goto, Add, input,
      Calls, Secrets, TypeOK
<1>1. TypeOK' OBVIOUS
<1>2. SecretsOK' BY DEF SecretsOK
<1>3. OneTransaction'
  <2>1. \A e \in Emails : inserting[e] # None => inserting[e] # c
    OBVIOUS
  <2> QED BY <2>1 DEF OneTransaction, Held
<1>4. NoRowNothing' BY DEF NoRowNothing
<1>5. CreatorIsDone' BY DEF CreatorIsDone
<1>6. PasswordsKnown' BY DEF PasswordsKnown
<1>7. NoTakeover' BY DEF NoTakeover, Opens
<1>8. SignUpIsAtomic' BY DEF SignUpIsAtomic, CreatorIsDone, Opens
<1>9. LogInHadPassword' BY DEF LogInHadPassword, PasswordsKnown, Opens
<1>10. AnsweredTokenWorks' BY DEF AnsweredTokenWorks, Opens
<1> QED BY <1>1, <1>2, <1>3, <1>4, <1>5, <1>6, <1>7, <1>8, <1>9, <1>10

\* The step that creates an account and its token at once.
LEMMA CommitKeepsInv ==
  ASSUME AccountInv, NEW c \in Calls, Commit(c)
  PROVE  AccountInv'
<1> USE CallAssumption DEF CallAssumption, AccountInv, Commit, End, Goto, Add, Set, input,
      Calls, Secrets, TypeOK
<1>0. c \in SignUps /\ Held(c) /\ email[c] \notin users /\ pc[c] = "commit"
  BY DEF OneTransaction
<1>1. TypeOK' BY <1>0 DEF SecretsOK
<1>2. SecretsOK' BY DEF SecretsOK
<1>3. OneTransaction' BY <1>0 DEF OneTransaction, Held
<1>4. NoRowNothing' BY <1>0 DEF NoRowNothing
<1>5. CreatorIsDone' BY <1>0 DEF CreatorIsDone
<1>6. PasswordsKnown' BY <1>0 DEF PasswordsKnown, SecretsOK
<1>7. NoTakeover' BY <1>0 DEF NoTakeover, NoRowNothing, SecretsOK, Opens
<1>8. SignUpIsAtomic' BY <1>0 DEF SignUpIsAtomic, CreatorIsDone, SecretsOK, Opens
<1>9. LogInHadPassword' BY <1>0 DEF LogInHadPassword, Opens
<1>10. AnsweredTokenWorks' BY <1>0 DEF AnsweredTokenWorks, Opens
<1> QED BY <1>1, <1>2, <1>3, <1>4, <1>5, <1>6, <1>7, <1>8, <1>9, <1>10

\* The other steps of a sign-up's transaction.
LEMMA SignUpKeepsInv ==
  ASSUME AccountInv, NEW c \in Calls, InsertUser(c) \/ MintFirst(c) \/ Rollback(c)
  PROVE  AccountInv'
<1> USE CallAssumption DEF CallAssumption, AccountInv, End, Goto, Set, input, tables,
      Calls, Secrets, TypeOK, InsertUser, MintFirst, Rollback
<1>1. TypeOK'
  <2>1. CASE InsertUser(c) BY <2>1
  <2>2. CASE MintFirst(c) BY <2>2
  <2>3. CASE Rollback(c) BY <2>3
  <2> QED BY <2>1, <2>2, <2>3
<1>2. SecretsOK' BY DEF SecretsOK
<1>3. OneTransaction'
  <2>1. CASE InsertUser(c) BY <2>1 DEF OneTransaction, Held
  <2>2. CASE MintFirst(c) BY <2>2 DEF OneTransaction, Held
  <2>3. CASE Rollback(c) BY <2>3 DEF OneTransaction, Held
  <2> QED BY <2>1, <2>2, <2>3
<1>4. NoRowNothing' BY DEF NoRowNothing
<1>5. CreatorIsDone' BY DEF CreatorIsDone
<1>6. PasswordsKnown' BY DEF PasswordsKnown
<1>7. NoTakeover' BY DEF NoTakeover, Opens
<1>8. SignUpIsAtomic' BY DEF SignUpIsAtomic, CreatorIsDone, Opens
<1>9. LogInHadPassword' BY DEF LogInHadPassword, Opens
<1>10. AnsweredTokenWorks' BY DEF AnsweredTokenWorks, Opens
<1> QED BY <1>1, <1>2, <1>3, <1>4, <1>5, <1>6, <1>7, <1>8, <1>9, <1>10

\* The operator's commands: each executes its statement, whatever it learns of it.
LEMMA OperatorKeepsInv ==
  ASSUME AccountInv, NEW c \in Calls, CreateUser(c) \/ ResetPassword(c)
  PROVE  AccountInv'
<1> USE CallAssumption DEF CallAssumption, AccountInv, Executed, End, Goto, Add, Set, input,
      tables, Calls, Secrets, TypeOK, CreateUser, ResetPassword
<1>1. TypeOK'
  <2>1. CASE CreateUser(c) BY <2>1
  <2>2. CASE ResetPassword(c) BY <2>2 DEF SecretsOK
  <2> QED BY <2>1, <2>2
<1>2. SecretsOK' BY DEF SecretsOK
<1>3. OneTransaction'
  <2>1. CASE CreateUser(c) BY <2>1 DEF OneTransaction, Held
  <2>2. CASE ResetPassword(c) BY <2>2 DEF OneTransaction, Held
  <2> QED BY <2>1, <2>2
<1>4. NoRowNothing' BY DEF NoRowNothing
<1>5. CreatorIsDone' BY DEF CreatorIsDone
<1>6. PasswordsKnown' BY DEF PasswordsKnown, SecretsOK
<1>7. NoTakeover'
  <2>1. CASE CreateUser(c) BY <2>1 DEF NoTakeover, NoRowNothing, Opens
  <2>2. CASE ResetPassword(c) BY <2>2 DEF NoTakeover, SecretsOK, Opens
  <2> QED BY <2>1, <2>2
<1>8. SignUpIsAtomic'
  <2>1. CASE CreateUser(c) BY <2>1 DEF SignUpIsAtomic, CreatorIsDone, Opens
  <2>2. CASE ResetPassword(c) BY <2>2 DEF SignUpIsAtomic, CreatorIsDone, SecretsOK, Opens
  <2> QED BY <2>1, <2>2
<1>9. LogInHadPassword' BY DEF LogInHadPassword, Opens
<1>10. AnsweredTokenWorks' BY DEF AnsweredTokenWorks, Opens
<1> QED BY <1>1, <1>2, <1>3, <1>4, <1>5, <1>6, <1>7, <1>8, <1>9, <1>10

\* What reads only, or gives up, keeps it: the checks of a call (signup,
\* login) and a failed statement, whose transaction is rolled back.
LEMMA OthersKeepInv ==
  ASSUME AccountInv, NEW c \in Calls,
         Receive(c) \/ Reject(c) \/ VerifyPassword(c) \/ Fail(c)
  PROVE  AccountInv'
<1> USE CallAssumption DEF CallAssumption, AccountInv, TypeOK, OneTransaction, Goto, End,
      Held, Calls
<1>1. ~Held(c)
  <2>1. CASE Receive(c) BY <2>1 DEF Receive
  <2>2. CASE Reject(c) BY <2>2 DEF Reject
  <2>3. CASE VerifyPassword(c) BY <2>3 DEF VerifyPassword
  <2>4. CASE Fail(c) BY <2>4 DEF Fail
  <2> QED BY <2>1, <2>2, <2>3, <2>4
<1>2. UNCHANGED <<tables, inserting, input>> /\ pc[c] # "done"
  BY DEF Receive, Reject, VerifyPassword, Fail
<1>3. answer' \in {answer, [answer EXCEPT ![c] = "refused"], [answer EXCEPT ![c] = "error"]}
  BY DEF Receive, Reject, VerifyPassword, Fail
<1>4. PICK to \in {"start", "mint", "done"} :
        /\ pc' = [pc EXCEPT ![c] = to]
        /\ to = "mint" => c \in LogIns /\ email[c] \in users /\ password[email[c]] = secret[c]
  BY DEF Receive, Reject, VerifyPassword, Fail
<1> QED BY <1>1, <1>2, <1>3, <1>4, TablesUntouched

\* Every statement of every call keeps it, in any order.
LEMMA StepKeepsInv == AccountInv /\ [Next]_vars => AccountInv'
<1> SUFFICES ASSUME AccountInv, [Next]_vars PROVE AccountInv'
  OBVIOUS
<1>1. ASSUME NEW c \in Calls, Receive(c) \/ Reject(c) \/ Run(c) \/ Rollback(c) \/ Fail(c)
      PROVE  AccountInv'
  BY <1>1, OthersKeepInv, SignUpKeepsInv, CommitKeepsInv, OperatorKeepsInv,
     NewTokenKeepsInv DEF Run
<1>2. CASE UNCHANGED vars
  BY <1>2 DEF vars, AccountInv, TypeOK, SecretsOK, OneTransaction, NoRowNothing, CreatorIsDone,
     PasswordsKnown, NoTakeover, SignUpIsAtomic, LogInHadPassword, AnsweredTokenWorks,
     Held, Opens
<1> QED BY <1>1, <1>2 DEF Next

\* So it holds always.
LEMMA AccountsSafe == Spec => []AccountInv
BY InitAccountInv, StepKeepsInv, PTL DEF Spec

\* The tables, the calls and what they hold keep their types.
THEOREM AccountsTypeCorrect == Spec => []TypeOK
BY AccountsSafe, PTL DEF AccountInv

\* No race of sign-ups, seeds and resets gives anybody an account that was
\* there before (Store.SignUp).
THEOREM NoAccountIsTakenOver == Spec => []NoTakeover
BY AccountsSafe, PTL DEF AccountInv

\* A sign-up is all or nothing, failed and unanswered COMMITs included.
THEOREM SignUpAllOrNothing == Spec => []SignUpIsAtomic
BY AccountsSafe, PTL DEF AccountInv

\* A log-in's token was minted for a password the account has had
\* (Store.VerifyPassword).
THEOREM LogInNeedsPassword == Spec => []LogInHadPassword
BY AccountsSafe, PTL DEF AccountInv

\* A token that was answered opens its account, whatever other calls do.
THEOREM AnsweredTokenStays == Spec => []AnsweredTokenWorks
BY AccountsSafe, PTL DEF AccountInv
=============================================================================
