------------------------------ MODULE Sessions ------------------------------
(***************************************************************************)
(* Logging in, refreshing and revoking: IdentityService's issueSession,    *)
(* refresh, logout, revokeSession and logoutAll for one user, over the     *)
(* sessions and refresh_tokens tables and the Redis denylist.              *)
(*                                                                         *)
(* No call runs in a transaction and none locks a row, so calls interleave *)
(* at every await.  Whatever is created is named after the call that       *)
(* creates it: a login creates a session, and a login or a refresh mints a *)
(* pair, a refresh token and the jti of an access token.  A session has    *)
(* one family of refresh tokens, so the session stands for both.           *)
(*                                                                         *)
(* Lifetimes are left out: the denylist keeps a jti at least as long as    *)
(* its access token is valid, and a refresh token that expires is one that *)
(* is not presented again.                                                 *)
(***************************************************************************)
CONSTANTS Calls, None

ASSUME SessionsAssumption == None \notin Calls

VARIABLES op,      \* what each call turned out to be
          pc,      \* the await each call is at
          arg,     \* the refresh token, or for revokeSession the session, it names
          family,  \* refresh_tokens: the session of each row, None: no such row
          revoked, \* refresh_tokens rows with revoked_at set
          row,     \* sessions: "none", "active" or "revoked"
          jti,     \* sessions.access_jti
          denied,  \* revoked:jti:* in Redis
          seen,    \* the access tokens a revocation is to deny
          batch,   \* the sessions whose row a revocation is to revoke
          before   \* history: the refresh tokens it was to end when it began

tables == <<family, revoked, row, jti>>
plans == <<op, arg, seen, batch, before>>
vars == <<op, pc, arg, family, revoked, row, jti, denied, seen, batch, before>>

Revocations == {"reuse", "logout", "revoke", "logoutAll"}
Ids == Calls \cup {None}

(* What the variables hold: sessions and refresh tokens are named by the   *)
(* calls that created them, and a call is at an await of its operation.    *)
TypeOK ==
    /\ op \in [Calls -> Revocations \cup {"none", "login", "refresh"}]
    /\ pc \in [Calls -> {"idle", "token", "rotate", "mint", "touch", "reply", "tokens",
                         "read", "deny", "rows", "done", "failed"}]
    /\ arg \in [Calls -> Ids]
    /\ family \in [Calls -> Ids]
    /\ revoked \in SUBSET Calls
    /\ row \in [Calls -> {"none", "active", "revoked"}]
    /\ jti \in [Calls -> Ids]
    /\ denied \in SUBSET Calls
    /\ seen \in [Calls -> SUBSET Calls]
    /\ batch \in [Calls -> SUBSET Calls]
    /\ before \in [Calls -> SUBSET Calls]

Init ==
    /\ op = [c \in Calls |-> "none"]
    /\ pc = [c \in Calls |-> "idle"]
    /\ arg = [c \in Calls |-> None]
    /\ family = [c \in Calls |-> None]
    /\ revoked = {}
    /\ row = [c \in Calls |-> "none"]
    /\ jti = [c \in Calls |-> None]
    /\ denied = {}
    /\ seen = [c \in Calls |-> {}]
    /\ batch = [c \in Calls |-> {}]
    /\ before = [c \in Calls |-> {}]

TokensOf(s) == {t \in Calls : family[t] = s}
Usable(s) == TokensOf(s) \ revoked

(* The pairs that reached a client. *)
Handed == {c \in Calls : pc[c] = "done" /\ op[c] \in {"login", "refresh"}}

(* Some client can pass the gateway's AuthGuard. *)
Authenticated == Handed \ denied # {}

Goto(c, label) == pc' = [pc EXCEPT ![c] = label]

-----------------------------------------------------------------------------
(* issueSession: the end of register, loginPassword and verifyOtp. *)

(* sessions.create *)
CreateSession(c) ==
    /\ pc[c] = "idle"
    /\ op' = [op EXCEPT ![c] = "login"]
    /\ row' = [row EXCEPT ![c] = "active"]
    /\ jti' = [jti EXCEPT ![c] = c]
    /\ Goto(c, "token")
    /\ UNCHANGED <<arg, family, revoked, denied, seen, batch, before>>

(* refreshTokens.create *)
CreateToken(c) ==
    /\ pc[c] = "token"
    /\ family' = [family EXCEPT ![c] = c]
    /\ Goto(c, "reply")
    /\ UNCHANGED <<plans, revoked, row, jti, denied>>

(* The audit row is written and the caller has the pair. *)
Reply(c) ==
    /\ pc[c] = "reply"
    /\ Goto(c, "done")
    /\ UNCHANGED <<plans, tables, denied>>

-----------------------------------------------------------------------------
(* refresh *)

(* Mutant: a token is accepted whether or not it was revoked. *)
RefreshLookupIgnoresRevoked(c) ==
    /\ pc[c] = "idle"
    /\ \E t \in Handed :
          /\ arg' = [arg EXCEPT ![c] = t]
          /\ op' = [op EXCEPT ![c] = "refresh"]
          /\ Goto(c, "rotate")
    /\ UNCHANGED <<batch, before, tables, denied, seen>>

(* findByHash.  A token that was revoked has been used twice.  Clients may *)
(* present any token they were ever handed.                                *)
RefreshLookup(c) ==
    /\ pc[c] = "idle"
    /\ \E t \in Handed :
          LET s == family[t]
          IN  /\ arg' = [arg EXCEPT ![c] = t]
              /\ IF t \in revoked
                   THEN /\ op' = [op EXCEPT ![c] = "reuse"]
                        /\ batch' = [batch EXCEPT ![c] = {s}]
                        /\ before' = [before EXCEPT ![c] = TokensOf(s)]
                        /\ Goto(c, "tokens")
                   ELSE /\ op' = [op EXCEPT ![c] = "refresh"]
                        /\ Goto(c, "rotate")
                        /\ UNCHANGED <<batch, before>>
    /\ UNCHANGED <<tables, denied, seen>>

(* Mutant: the presented token stays valid. *)
RotateNothing(c) ==
    /\ pc[c] = "rotate"
    /\ Goto(c, "mint")
    /\ UNCHANGED <<plans, tables, denied>>

(* refreshTokens.revoke: whether another call was faster is not looked at. *)
Rotate(c) ==
    /\ pc[c] = "rotate"
    /\ revoked' = revoked \cup {arg[c]}
    /\ Goto(c, "mint")
    /\ UNCHANGED <<plans, family, row, jti, denied>>

(* refreshTokens.create *)
Mint(c) ==
    /\ pc[c] = "mint"
    /\ family' = [family EXCEPT ![c] = family[arg[c]]]
    /\ Goto(c, "touch")
    /\ UNCHANGED <<plans, revoked, row, jti, denied>>

(* sessions.touch writes access_jti, into a revoked row too. *)
Touch(c) ==
    /\ pc[c] = "touch"
    /\ jti' = [jti EXCEPT ![family[arg[c]]] = c]
    /\ Goto(c, "reply")
    /\ UNCHANGED <<plans, family, revoked, row, denied>>

-----------------------------------------------------------------------------
(* How the revocations begin. *)

(* logout takes the jti that passed AuthGuard and the refresh cookie, if   *)
(* there is one; the cookie may have come from a later login of another    *)
(* tab, and nothing asks whether the two are of one session.               *)
Logout(c) ==
    /\ pc[c] = "idle"
    /\ \E j \in Handed \ denied :
          /\ seen' = [seen EXCEPT ![c] = {j}]
          /\ \/ UNCHANGED <<arg, batch, before>>
             \/ \E t \in Handed :
                   /\ arg' = [arg EXCEPT ![c] = t]
                   /\ batch' = [batch EXCEPT ![c] = {family[t]}]
                   /\ before' = [before EXCEPT ![c] = {t}]
    /\ op' = [op EXCEPT ![c] = "logout"]
    /\ Goto(c, "deny")
    /\ UNCHANGED <<tables, denied>>

(* revokeSession: findById reads the jti that is denied in the end. *)
RevokeSession(c) ==
    /\ pc[c] = "idle"
    /\ Authenticated
    /\ \E s \in {r \in Calls : row[r] # "none"} :
          /\ arg' = [arg EXCEPT ![c] = s]
          /\ seen' = [seen EXCEPT ![c] = {jti[s]}]
          /\ batch' = [batch EXCEPT ![c] = {s}]
          /\ before' = [before EXCEPT ![c] = TokensOf(s)]
    /\ op' = [op EXCEPT ![c] = "revoke"]
    /\ Goto(c, "tokens")
    /\ UNCHANGED <<tables, denied>>

(* logoutAll: the find in sessions.revokeAllForUser. *)
LogoutAll(c) ==
    LET active == {s \in Calls : row[s] = "active"}
    IN  /\ pc[c] = "idle"
        /\ Authenticated
        /\ batch' = [batch EXCEPT ![c] = active]
        /\ seen' = [seen EXCEPT ![c] = {jti[s] : s \in active}]
        /\ before' = [before EXCEPT ![c] = {t \in Calls : family[t] # None}]
        /\ op' = [op EXCEPT ![c] = "logoutAll"]
        /\ Goto(c, "rows")
        /\ UNCHANGED <<arg, tables, denied>>

-----------------------------------------------------------------------------
(* The statements of the revocations, in the order of each. *)

AfterTokens(q) == IF q = "reuse" THEN "read" ELSE IF q = "logoutAll" THEN "deny" ELSE "rows"
AfterRows(q) == IF q = "logoutAll" THEN "tokens" ELSE IF q = "revoke" THEN "deny" ELSE "done"
AfterDeny(c) ==
    IF op[c] = "reuse" THEN "rows"
    ELSE IF op[c] = "logout" /\ arg[c] # None THEN "tokens" ELSE "done"

(* Mutant: logoutAll ends the refresh tokens of the sessions it found.  *)
TargetsOfFoundSessions(c) ==
    {t \in Calls :
        \/ op[c] = "reuse" /\ family[t] = family[arg[c]]
        \/ op[c] = "logout" /\ t = arg[c]
        \/ op[c] = "revoke" /\ family[t] = arg[c]
        \/ op[c] = "logoutAll" /\ family[t] \in batch[c]}

(* Mutant: logout only denies the access token. *)
TargetsWithoutLogout(c) ==
    {t \in Calls :
        \/ op[c] = "reuse" /\ family[t] = family[arg[c]]
        \/ op[c] = "revoke" /\ family[t] = arg[c]
        \/ op[c] = "logoutAll" /\ family[t] # None}

(* The refresh tokens it revokes: revokeFamily, revoke, revokeBySession or *)
(* revokeAllForUser.                                                       *)
Targets(c) ==
    {t \in Calls :
        \/ op[c] = "reuse" /\ family[t] = family[arg[c]]
        \/ op[c] = "logout" /\ t = arg[c]
        \/ op[c] = "revoke" /\ family[t] = arg[c]
        \/ op[c] = "logoutAll" /\ family[t] # None}

RevokeTokens(c) ==
    /\ pc[c] = "tokens"
    /\ revoked' = revoked \cup Targets(c)
    /\ Goto(c, AfterTokens(op[c]))
    /\ UNCHANGED <<plans, family, row, jti, denied>>

(* refresh reads the session's jti after the family was revoked. *)
ReadSession(c) ==
    /\ pc[c] = "read"
    /\ seen' = [seen EXCEPT ![c] = {jti[family[arg[c]]]}]
    /\ Goto(c, "deny")
    /\ UNCHANGED <<op, arg, batch, before, tables, denied>>

RevokeRows(c) ==
    /\ pc[c] = "rows"
    /\ row' = [s \in Calls |-> IF s \in batch[c] THEN "revoked" ELSE row[s]]
    /\ Goto(c, AfterRows(op[c]))
    /\ UNCHANGED <<plans, family, revoked, jti, denied>>

(* denylist.revoke, one jti at a time. *)
Deny(c) ==
    /\ pc[c] = "deny"
    /\ \/ /\ seen[c] \subseteq denied
          /\ Goto(c, AfterDeny(c))
          /\ UNCHANGED denied
       \/ \E j \in seen[c] \ denied : denied' = denied \cup {j} /\ UNCHANGED pc
    /\ UNCHANGED <<plans, tables>>

-----------------------------------------------------------------------------

(* An await rejects, the process dies, the user is gone, or the answer of  *)
(* a login or a refresh is lost: what was written stays.                   *)
Fails(c) ==
    /\ pc[c] \notin {"idle", "done", "failed"}
    /\ Goto(c, "failed")
    /\ UNCHANGED <<plans, tables, denied>>

Begins(c) ==
    \/ CreateSession(c) \/ RefreshLookup(c)
    \/ Logout(c) \/ RevokeSession(c) \/ LogoutAll(c)

Continues(c) ==
    \/ CreateToken(c) \/ Reply(c)
    \/ Rotate(c) \/ Mint(c) \/ Touch(c)
    \/ RevokeTokens(c) \/ ReadSession(c) \/ RevokeRows(c) \/ Deny(c)

Works(c) == Begins(c) \/ Continues(c)

Next == \E c \in Calls : Works(c) \/ Fails(c)

Spec == Init /\ [][Next]_vars

-----------------------------------------------------------------------------
(* Properties. *)

(* What a revocation that has returned set out to end has ended for good,  *)
(* whatever runs beside or after it: the refresh tokens there were when it *)
(* began, the session rows and the access tokens it found.                 *)
RevocationsHold ==
    \A c \in Calls :
        pc[c] = "done" /\ op[c] \in Revocations =>
            /\ before[c] \subseteq revoked
            /\ \A s \in batch[c] : row[s] = "revoked"
            /\ seen[c] \subseteq denied

(* d ends, or has ended, the refresh token t. *)
Ends(d, t) ==
    \/ op[d] \in {"refresh", "logout"} /\ arg[d] = t
    \/ op[d] = "reuse" /\ family[arg[d]] = family[t]
    \/ op[d] = "revoke" /\ arg[d] = family[t]
    \/ op[d] = "logoutAll"

(* Reuse detection never strikes a client that presents each token once:   *)
(* behind every call that is taken for a reuse there is another that       *)
(* presented the same token, or that ended its session.                    *)
ReuseHasCause ==
    \A c \in Calls : op[c] = "reuse" => \E d \in Calls \ {c} : Ends(d, arg[c])

(* Two refreshes of session s have accepted the same token: the lookup and *)
(* the update of refresh are separate statements.                          *)
Raced(s) ==
    \E c, d \in Calls :
        /\ c # d
        /\ op[c] = "refresh" /\ op[d] = "refresh"
        /\ arg[c] = arg[d]
        /\ family[arg[c]] = s

(* A session has one usable refresh token, unless two refreshes raced for  *)
(* the same one.                                                           *)
OneTokenUnlessRaced ==
    \A s \in Calls : \A t, u \in Usable(s) : t = u \/ Raced(s)

(* The session row knows the access token that belongs to the session's    *)
(* usable refresh token, so that revoking the session denies it; unless    *)
(* two refreshes raced.                                                    *)
CurrentAccessIsKnown ==
    \A s \in Calls : \A t \in Usable(s) \cap Handed : jti[s] = t \/ Raced(s)

(* A logout that has returned leaves its session without a usable refresh  *)
(* token, although it revokes only the one it was given; unless a refresh  *)
(* presented that token too, or two refreshes raced.                       *)
LogoutEndsSession ==
    \A c \in Calls :
        pc[c] = "done" /\ op[c] = "logout" /\ arg[c] # None =>
            \/ Usable(family[arg[c]]) = {}
            \/ Raced(family[arg[c]])
            \/ \E d \in Calls : op[d] = "refresh" /\ arg[d] = arg[c]

(* Session s has been created, it has no usable refresh token, and no call *)
(* in flight is about to give it one.                                      *)
Over(s) ==
    /\ row[s] # "none"
    /\ pc[s] # "token"
    /\ Usable(s) = {}
    /\ \A c \in Calls : pc[c] \in {"rotate", "mint"} => family[arg[c]] # s

(* A session that is over stays so: no sequence of calls brings it back,   *)
(* although refresh never looks at the session row.                        *)
OverStaysOver == [][\A s \in Calls : Over(s) => Over(s)']_vars

-----------------------------------------------------------------------------
(* The inductive invariant. *)

(* What a call knows at the await it is at. *)
CallInv(c) ==
    /\ (pc[c] = "idle") <=> (op[c] = "none")
    /\ pc[c] = "idle" => arg[c] = None /\ before[c] = {} /\ batch[c] = {}
    /\ pc[c] \in {"token", "rotate", "mint", "touch", "reply"}
         => op[c] \in {"login", "refresh"}
    /\ pc[c] = "token" => op[c] = "login"
    /\ pc[c] \in {"rotate", "mint", "touch"} => op[c] = "refresh"
    /\ pc[c] \in {"idle", "token", "rotate", "mint"} => family[c] = None
    /\ op[c] \notin {"login", "refresh"} => family[c] = None
    /\ pc[c] \in {"tokens", "read", "deny", "rows"} => op[c] \in Revocations
    /\ op[c] = "login" <=> row[c] # "none"
    /\ op[c] \in {"refresh", "reuse"} => arg[c] \in Handed
    /\ op[c] = "logout" => arg[c] \in Handed \cup {None}
    /\ op[c] = "revoke" => arg[c] \in Calls
    /\ pc[c] \in {"touch", "reply", "done"} /\ op[c] \in {"login", "refresh"}
         => family[c] # None
    /\ row[c] # "none" => jti[c] # None
    /\ family[c] # None =>
          /\ family[c] = IF op[c] = "login" THEN c ELSE family[arg[c]]
          /\ op[family[c]] = "login" /\ pc[family[c]] # "token"

(* Refresh tokens, and calls about to write one or to touch, by session. *)
Claims(s) ==
    Usable(s)
    \cup {arg[c] : c \in {d \in Calls : pc[d] = "rotate" /\ family[arg[d]] = s}}
    \cup {c \in Calls : pc[c] \in {"mint", "touch"} /\ family[arg[c]] = s}
    \cup {c \in Calls : pc[c] = "token" /\ c = s}

OneClaim == \A s \in Calls : \A t, u \in Claims(s) : t = u \/ Raced(s)

(* The session row has the jti of the session's usable token as soon as    *)
(* sessions.create or sessions.touch has returned.                         *)
JtiInv ==
    /\ \A s \in Calls : \A t \in Usable(s) :
          pc[t] \in {"reply", "done"} => jti[s] = t \/ Raced(s)
    /\ \A c \in Calls : pc[c] = "token" => jti[c] = c

(* Every revoked refresh token was ended by some call. *)
RevokedHasCause == \A t \in revoked : \E d \in Calls : Ends(d, t)

(* The awaits by which a revocation has revoked the refresh tokens, has    *)
(* revoked the rows, has denied the access tokens.                         *)
TokensDone(c) ==
    \/ op[c] = "reuse" /\ pc[c] \in {"read", "deny", "rows", "done"}
    \/ op[c] = "logout" /\ pc[c] \in {"rows", "done"}
    \/ op[c] = "revoke" /\ pc[c] \in {"rows", "deny", "done"}
    \/ op[c] = "logoutAll" /\ pc[c] \in {"deny", "done"}
RowsDone(c) ==
    \/ op[c] \in {"reuse", "logout"} /\ pc[c] = "done"
    \/ op[c] = "revoke" /\ pc[c] \in {"deny", "done"}
    \/ op[c] = "logoutAll" /\ pc[c] \in {"tokens", "deny", "done"}
DenyDone(c) ==
    \/ op[c] = "reuse" /\ pc[c] \in {"rows", "done"}
    \/ op[c] = "logout" /\ pc[c] \in {"tokens", "rows", "done"}
    \/ op[c] \in {"revoke", "logoutAll"} /\ pc[c] = "done"

RevocationInv(c) ==
    op[c] \in Revocations =>
        /\ before[c] \subseteq Targets(c)
        /\ \A t \in before[c] : family[t] # None
        /\ \A s \in batch[c] : row[s] # "none"
        /\ op[c] = "logout" /\ arg[c] = None => before[c] = {} /\ batch[c] = {}
        /\ op[c] = "logout" /\ arg[c] # None => arg[c] \in before[c]
        /\ pc[c] = "read" => op[c] = "reuse"
        /\ op[c] = "logout" /\ pc[c] \in {"tokens", "rows"} => arg[c] # None
        /\ TokensDone(c) => before[c] \subseteq revoked
        /\ RowsDone(c) => \A s \in batch[c] : row[s] = "revoked"
        /\ DenyDone(c) => seen[c] \subseteq denied

(* A revoked token leaves its session over, unless a refresh presented it  *)
(* or two refreshes of the session raced.                                  *)
SpentInv ==
    \A t \in revoked :
        \/ Over(family[t])
        \/ Raced(family[t])
        \/ \E d \in Calls : op[d] = "refresh" /\ arg[d] = t

(* Taken together: a token has one successor unless two refreshes raced,   *)
(* the row of a session names the access token of its usable refresh       *)
(* token, every reuse has a cause, and each revocation has done by each    *)
(* await what it set out to do.                                            *)
SessionsInv ==
    /\ TypeOK
    /\ OneClaim
    /\ JtiInv
    /\ RevokedHasCause /\ \A t \in revoked : family[t] # None
    /\ ReuseHasCause
    /\ \A c \in Calls : CallInv(c) /\ RevocationInv(c)
=============================================================================
