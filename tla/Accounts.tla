------------------------------ MODULE Accounts ------------------------------
(***************************************************************************)
(* The accounts of the identity service: who registers, the admin that     *)
(* every replica seeds before it serves (seed-admin.ts), who logs in with  *)
(* a password and which role is assigned, over the tables users,           *)
(* credentials and user_roles; composed with the one-time codes (module    *)
(* Otp) of one of the users, Holder.                                       *)
(*                                                                         *)
(* An account is named after the call that makes it.  Hashing, names and   *)
(* tokens are left out, and so are the reads of getMe and listSessions;    *)
(* who types somebody else's address or password is a wrong login.         *)
(***************************************************************************)
EXTENDS Otp, FiniteSets

CONSTANTS Registers,  \* calls of register
          Seeds,      \* replicas at their start
          Logins,     \* calls of loginPassword
          Assigns,    \* calls of assignRole
          Holder,     \* the register whose user has the codes of Otp
          Forms,      \* addresses and phones somebody registers with
          AdminForm,  \* ADMIN_EMAIL and ADMIN_PHONE
          MaxCodes,   \* bound on the calls of Otp that begin ...
          MaxCalls,   \* ... on the others, ...
          MaxMixed    \* ... and on their product

Creators == Registers \cup Seeds
AccountCalls == Creators \cup Logins \cup Assigns
Roles == {"customer", "admin"}

ASSUME AccountsAssumption ==
    /\ Registers \cap (Seeds \cup Logins \cup Assigns) = {}
    /\ Seeds \cap (Logins \cup Assigns) = {} /\ Logins \cap Assigns = {}
    /\ Holder \in Registers
    /\ Seeds # {}
    /\ AdminForm \in Forms
    /\ \E f \in Forms : f.email # AdminForm.email /\ f.phone # AdminForm.phone
    /\ None \notin Forms /\ None \notin Creators /\ None \notin Roles
    /\ MaxCodes \in Nat /\ MaxCalls \in Nat /\ MaxMixed \in Nat

VARIABLES stage,       \* the await each call is at
          form,        \* the address and phone of each account
          users,       \* rows of users ...
          credentials, \* ... of credentials ...
          roles,       \* ... and of user_roles
          announced,   \* accounts published in user.registered
          login,       \* what each login was given and found
          asked,       \* what each assignRole was given and has read
          lastRole,    \* history: the role last assigned to each account
          mixed        \* history: accounts with two assignRole under way at once

tableVars == <<users, credentials, roles>>
roleVars == <<asked, lastRole, mixed>>
accountVars == <<stage, form, tableVars, announced, login, roleVars>>
accountsVars == <<otpVars, accountVars>>

(* What the variables hold: rows belong to accounts, and whoever logs in   *)
(* or is assigned a role is one.                                           *)
AccountsTypeOK ==
    /\ stage \in [AccountCalls -> {"ready", "byEmail", "byPhone", "insert", "commit",
                      "credential", "announce", "find", "compare", "save", "write",
                      "earlier", "done", "refused", "denied", "failed"}]
    /\ form \in [Creators -> Forms \cup {None}]
    /\ users \subseteq Creators
    /\ credentials \subseteq Creators
    /\ roles \in [Creators -> SUBSET Roles]
    /\ announced \subseteq Creators
    /\ login \in [Logins -> [who : Creators \cup {None}, by : {"email", "phone"},
                             found : Creators \cup {None}, there : BOOLEAN]]
    /\ asked \in [Assigns -> [who : Creators \cup {None}, role : Roles, seen : SUBSET Roles]]
    /\ lastRole \in [Creators -> Roles \cup {None}]
    /\ mixed \subseteq Creators

FirstRole(c) == IF c \in Seeds THEN "admin" ELSE "customer"

Old == {Holder, CHOOSE s \in Seeds : TRUE}
OldForm == CHOOSE f \in Forms : f.email # AdminForm.email /\ f.phone # AdminForm.phone

(* Nobody has an account yet, or the admin and Holder have had theirs for  *)
(* a while.                                                                *)
AccountsInit ==
    /\ OtpInit
    /\ \E old \in {{}, Old} :
         /\ stage = [c \in AccountCalls |-> IF c \in old THEN "earlier" ELSE "ready"]
         /\ form = [c \in Creators |-> IF c \in Seeds THEN AdminForm
                                       ELSE IF c \in old THEN OldForm ELSE None]
         /\ users = old /\ credentials = old
         /\ roles = [c \in Creators |-> IF c \in old THEN {FirstRole(c)} ELSE {}]
         /\ announced = old \cap Registers
    /\ login = [n \in Logins |-> [who |-> None, by |-> "email", found |-> None,
                                  there |-> FALSE]]
    /\ asked = [a \in Assigns |-> [who |-> None, role |-> "customer", seen |-> {}]]
    /\ lastRole = [c \in Creators |-> None]
    /\ mixed = {}

Enter(c, label) == stage' = [stage EXCEPT ![c] = label]

(* Mutant: the seeding is not awaited. *)
ServingAtOnce == TRUE

(* bootstrapIdentityInfrastructure awaits seedAdmin before main.ts starts  *)
(* to listen: somebody serves once a replica is past its seeding.          *)
Serving == \E s \in Seeds : stage[s] \in {"earlier", "done"}

(* How many calls may begin: bounds of the model.                          *)
Bounded(codes, others) ==
    codes <= MaxCodes /\ others <= MaxCalls /\ codes * others <= MaxMixed

CodesBegun == Cardinality({c \in Calls : at[c] # "ready"})
OthersBegun == Cardinality({c \in AccountCalls : stage[c] \notin {"earlier", "ready"}})

MayBegin(c) == stage[c] = "ready" /\ Bounded(CodesBegun, OthersBegun + 1)
Called(c) == MayBegin(c) /\ Serving
CodeCalled == Bounded(CodesBegun + 1, OthersBegun) /\ Serving

-----------------------------------------------------------------------------
(* register, and seedAdmin at the start of a replica                       *)

Clash(c, d) == form[c].email = form[d].email \/ form[c].phone = form[d].phone

(* The address, the phone or the password is refused as such, or not.      *)
RegisterBegins(g) ==
    /\ Called(g)
    /\ \E f \in Forms : form' = [form EXCEPT ![g] = f]
    /\ Enter(g, "byEmail") \/ Enter(g, "refused")
    /\ UNCHANGED <<tableVars, announced, login, roleVars>>

ReplicaStarts(s) ==
    /\ MayBegin(s)
    /\ Enter(s, "byEmail")
    /\ UNCHANGED <<form, tableVars, announced, login, roleVars>>

(* findByEmail: a conflict for who registers, the end of the seeding for a *)
(* replica, which does not look for the phone.                             *)
FindByEmail(c) ==
    /\ stage[c] = "byEmail"
    /\ Enter(c, IF \E u \in users : form[u].email = form[c].email
                  THEN IF c \in Seeds THEN "done" ELSE "refused"
                  ELSE IF c \in Seeds THEN "insert" ELSE "byPhone")
    /\ UNCHANGED <<form, tableVars, announced, login, roleVars>>

FindByPhone(g) ==
    /\ stage[g] = "byPhone"
    /\ Enter(g, IF \E u \in users : form[u].phone = form[g].phone THEN "refused" ELSE "insert")
    /\ UNCHANGED <<form, tableVars, announced, login, roleVars>>

(* Rows that are inserted and not committed: an INSERT with the same       *)
(* address or phone waits for them.                                        *)
Held == {g \in Registers : stage[g] = "commit"}

Unblocked(c) == \A h \in Held : ~Clash(h, c)

(* Mutant: the columns are not unique. *)
NeverViolates(c) == FALSE

(* The unique columns. *)
Violates(c) == \E u \in users : Clash(u, c)

(* createUser of register: the rows become visible with the COMMIT; a      *)
(* violated constraint is an error.                                        *)
InsertUser(g) ==
    /\ stage[g] = "insert" /\ Unblocked(g)
    /\ Enter(g, IF Violates(g) THEN "failed" ELSE "commit")
    /\ UNCHANGED <<form, tableVars, announced, login, roleVars>>

(* Mutant: the credential is saved after the transaction. *)
CommitUserOnly(g) ==
    /\ stage[g] = "commit"
    /\ users' = users \cup {g}
    /\ roles' = [roles EXCEPT ![g] = {"customer"}]
    /\ Enter(g, "announce") \/ Enter(g, "failed")
    /\ UNCHANGED <<form, credentials, announced, login, roleVars>>

(* COMMIT, with an answer or without one.                                  *)
CommitUser(g) ==
    /\ stage[g] = "commit"
    /\ users' = users \cup {g}
    /\ credentials' = credentials \cup {g}
    /\ roles' = [roles EXCEPT ![g] = {"customer"}]
    /\ Enter(g, "announce") \/ Enter(g, "failed")
    /\ UNCHANGED <<form, announced, login, roleVars>>

(* createUser of seedAdmin, outside of any transaction: the user with its  *)
(* role is committed first, then the credential.                           *)
SeedUser(s) ==
    /\ stage[s] = "insert" /\ Unblocked(s)
    /\ IF Violates(s)
         THEN Enter(s, "failed") /\ UNCHANGED <<users, roles>>
         ELSE /\ users' = users \cup {s}
              /\ roles' = [roles EXCEPT ![s] = {"admin"}]
              /\ Enter(s, "credential") \/ Enter(s, "failed")
    /\ UNCHANGED <<form, credentials, announced, login, roleVars>>

SeedCredential(s) ==
    /\ stage[s] = "credential"
    /\ credentials' = credentials \cup {s}
    /\ Enter(s, "done") \/ Enter(s, "failed")
    /\ UNCHANGED <<form, users, roles, announced, login, roleVars>>

(* audit.append, events.publish and issueSession, which may fail as well.  *)
Announce(g) ==
    /\ stage[g] = "announce"
    /\ announced' = announced \cup {g}
    /\ Enter(g, "done") \/ Enter(g, "failed")
    /\ UNCHANGED <<form, tableVars, login, roleVars>>

-----------------------------------------------------------------------------
(* loginPassword *)

(* The user of an account types its address or its phone;                 *)
(* rl:login:{identifier} may be at its limit.                              *)
LoginBegins(n) ==
    /\ Called(n)
    /\ \E u \in {c \in Creators : form[c] # None}, by \in {"email", "phone"} :
         login' = [login EXCEPT ![n] = [who |-> u, by |-> by, found |-> None, there |-> FALSE]]
    /\ Enter(n, "find") \/ Enter(n, "denied")
    /\ UNCHANGED <<form, tableVars, announced, roleVars>>

(* findByEmailOrPhone *)
Matches(u, n) == form[u][login[n].by] = form[login[n].who][login[n].by]

FindUser(n) ==
    /\ stage[n] = "find"
    /\ LET there == login[n].who \in users IN
       \/ \E u \in users :
            /\ Matches(u, n)
            /\ login' = [login EXCEPT ![n].found = u, ![n].there = there]
            /\ Enter(n, "compare")
       \/ /\ \A u \in users : ~Matches(u, n)
          /\ login' = [login EXCEPT ![n].there = there]
          /\ Enter(n, "refused")
    /\ UNCHANGED <<form, tableVars, announced, roleVars>>

(* getPasswordHash and compare: the password is the right one for who      *)
(* typed it, or it is not; then issueSession, which may fail.              *)
Compare(n) ==
    /\ stage[n] = "compare"
    /\ LET u == login[n].found IN
       \/ Enter(n, "denied")
       \/ u \in credentials /\ u = login[n].who /\ (Enter(n, "done") \/ Enter(n, "failed"))
       \/ (u \notin credentials \/ u # login[n].who) /\ Enter(n, "refused")
    /\ UNCHANGED <<form, tableVars, announced, login, roleVars>>

-----------------------------------------------------------------------------
(* assignRole *)

(* findById *)
AssignBegins(a) ==
    /\ Called(a)
    /\ \E u \in Creators, role \in Roles :
         /\ asked' = [asked EXCEPT ![a] = [who |-> u, role |-> role, seen |-> {}]]
         /\ Enter(a, IF u \in users THEN "save" ELSE "refused")
    /\ UNCHANGED <<form, tableVars, announced, login, lastRole, mixed>>

(* save() reads the rows of user_roles again to find what to change.       *)
SaveReads(a) ==
    /\ stage[a] = "save"
    /\ LET u == asked[a].who IN
       /\ asked' = [asked EXCEPT ![a].seen = roles[u]]
       /\ mixed' = IF \E b \in Assigns : stage[b] = "write" /\ asked[b].who = u
                     THEN mixed \cup {u} ELSE mixed
    /\ Enter(a, "write")
    /\ UNCHANGED <<form, tableVars, announced, login, lastRole>>

(* Mutant: the role is added to the one the user has. *)
AddRole(a) ==
    /\ stage[a] = "write"
    /\ LET u == asked[a].who IN
       /\ roles' = [roles EXCEPT ![u] = @ \cup {asked[a].role}]
       /\ lastRole' = [lastRole EXCEPT ![u] = asked[a].role]
    /\ Enter(a, "done")
    /\ UNCHANGED <<form, users, credentials, announced, login, asked, mixed>>

(* It writes the difference, nothing if there is none; a row that is there *)
(* by now violates the primary key.                                        *)
SaveWrites(a) ==
    /\ stage[a] = "write"
    /\ LET u == asked[a].who
           role == asked[a].role
           seen == asked[a].seen
       IN  IF role \in roles[u] \ seen
             THEN Enter(a, "failed") /\ UNCHANGED <<roles, lastRole>>
             ELSE /\ roles' = IF seen = {role} THEN roles
                              ELSE [roles EXCEPT ![u] = (@ \ seen) \cup {role}]
                  /\ lastRole' = [lastRole EXCEPT ![u] = role]
                  /\ Enter(a, "done") \/ Enter(a, "failed")
    /\ UNCHANGED <<form, users, credentials, announced, login, asked, mixed>>

-----------------------------------------------------------------------------
AccountOver == {"earlier", "done", "refused", "denied", "failed"}

(* A query rejects before it does anything, or the replica dies: a         *)
(* transaction is rolled back, and nothing that follows is done.           *)
AccountFails(c) ==
    /\ stage[c] \notin AccountOver \cup {"ready"}
    /\ Enter(c, "failed")
    /\ UNCHANGED <<form, tableVars, announced, login, roleVars>>

RegisterStep(g) ==
    \/ RegisterBegins(g) \/ FindByEmail(g) \/ FindByPhone(g)
    \/ InsertUser(g) \/ CommitUser(g) \/ Announce(g)

SeedStep(s) == ReplicaStarts(s) \/ FindByEmail(s) \/ SeedUser(s) \/ SeedCredential(s)

LoginStep(n) == LoginBegins(n) \/ FindUser(n) \/ Compare(n)

AssignStep(a) == AssignBegins(a) \/ SaveReads(a) \/ SaveWrites(a)

(* The codes of Holder: requestOtp and verifyOtp look Holder up first.     *)
RequestCode(r) ==
    \/ Hit(r) /\ CodeCalled
    \/ ExpireWindow(r) \/ ClearForCode(r) \/ PublishCode(r)
    \/ Holder \in users /\ SetCode(r)
    \/ Holder \notin users /\ AskedForNobody(r)

VerifyCode(v) ==
    \/ Incr(v) /\ Holder \in users /\ CodeCalled
    \/ TriedForNobody(v) /\ Holder \notin users /\ CodeCalled
    \/ ExpireAttempts(v) \/ DelOver(v) \/ ClearOver(v)
    \/ Get(v) \/ DelCode(v) \/ ClearAttempts(v) \/ Issue(v)

Accounts ==
    \/ \E g \in Registers : RegisterStep(g)
    \/ \E s \in Seeds : SeedStep(s)
    \/ \E n \in Logins : LoginStep(n)
    \/ \E a \in Assigns : AssignStep(a)
    \/ \E c \in AccountCalls : AccountFails(c)

Codes ==
    \/ \E r \in Requests : RequestCode(r)
    \/ \E v \in Verifies : VerifyCode(v)
    \/ \E c \in Calls : Fails(c)
    \/ CodeExpires \/ AttemptsExpire \/ WindowEnds

AccountsNext ==
    \/ Accounts /\ UNCHANGED otpVars
    \/ Codes /\ UNCHANGED accountVars

AccountsSpec == AccountsInit /\ [][AccountsNext]_accountsVars

-----------------------------------------------------------------------------
(* Properties. *)

(* Whoever has an account and types the right password is not refused, as  *)
(* long as the account was registered: the admin may have been left        *)
(* without a credential, by a replica that died while it seeded.           *)
RegisteredCanLogIn ==
    \A n \in Logins :
        stage[n] = "refused" /\ login[n].there => login[n].who \in Seeds

(* No customer has the address or the phone of the admin, and there is one *)
(* admin account, however many replicas seed it at once.                   *)
AdminIsAlone ==
    /\ \A g \in users \cap Registers :
         form[g].email # AdminForm.email /\ form[g].phone # AdminForm.phone
    /\ \A s, t \in users \cap Seeds : s = t

(* The role that was assigned last is the one a user has, and the only     *)
(* one, unless two assignments overlapped.                                 *)
RolesAsAssigned ==
    \A u \in users \ mixed : lastRole[u] # None => roles[u] = {lastRole[u]}

-----------------------------------------------------------------------------
(* The inductive invariant. *)

(* No two rows, committed or about to be, have an address or phone in      *)
(* common.                                                                 *)
AccountsAreUnique ==
    \A c, d \in users \cup Held : c # d => ~Clash(c, d)

(* A register has given its address, and its row is there from its COMMIT  *)
(* on, with its credential; what is announced is there.  A seed has a row  *)
(* before it has a credential.                                             *)
RowsInOrder ==
    /\ \A g \in Registers :
         /\ stage[g] = "ready" <=> form[g] = None
         /\ stage[g] \in {"ready", "byEmail", "byPhone", "insert", "commit", "refused"} =>
              g \notin users
         /\ stage[g] \in {"announce", "earlier", "done"} => g \in users
         /\ g \in users => g \in credentials
         /\ stage[g] \in {"earlier", "done"} => g \in announced
    /\ \A s \in Seeds :
         /\ stage[s] \in {"ready", "byEmail", "insert"} => s \notin users
         /\ stage[s] = "credential" => s \in users
    /\ credentials \subseteq users /\ announced \subseteq users

(* The admin has a row before anybody is served.                           *)
AdminIsFirst ==
    /\ Serving => users \cap Seeds # {}
    /\ \A c \in AccountCalls \ Seeds : stage[c] # "ready" => users \cap Seeds # {}
    /\ \A s \in Seeds : form[s] = AdminForm

(* Logins and assignments know the account they are about; a session is    *)
(* for whoever typed the right password of an account.                     *)
CallsKnowAccounts ==
    /\ \A n \in Logins :
         /\ stage[n] # "ready" => login[n].who \in Creators /\ form[login[n].who] # None
         /\ stage[n] = "compare" =>
              /\ login[n].found \in users /\ Matches(login[n].found, n)
              /\ login[n].there => login[n].who \in users
         /\ stage[n] = "done" => login[n].found = login[n].who /\ login[n].who \in credentials
    /\ \A a \in Assigns : stage[a] \in {"save", "write"} => asked[a].who \in users

(* A user has one role; who is about to write has read one.                *)
OneRole ==
    /\ \A u \in users : \E role \in Roles : roles[u] = {role}
    /\ \A u \in Creators \ users : lastRole[u] = None
    /\ \A a \in Assigns : stage[a] = "write" =>
         /\ \E role \in Roles : asked[a].seen = {role}
         /\ asked[a].who \notin mixed =>
              /\ asked[a].seen = roles[asked[a].who]
              /\ \A b \in Assigns : stage[b] = "write" /\ asked[b].who = asked[a].who => a = b

(* Taken together: addresses are unique and the admin's is taken first, a  *)
(* register leaves an account one can log in to, and each has one role.    *)
AccountsInv ==
    /\ AccountsTypeOK /\ AccountsAreUnique /\ RowsInOrder /\ AdminIsFirst
    /\ CallsKnowAccounts /\ OneRole
    /\ RegisteredCanLogIn /\ AdminIsAlone /\ RolesAsAssigned
=============================================================================
