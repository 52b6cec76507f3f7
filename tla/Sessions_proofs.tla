--------------------------- MODULE Sessions_proofs --------------------------
EXTENDS WebSession, TLAPS

(* The empty tables satisfy the inductive invariant.                       *)
LEMMA InitInv == Init => SessionsInv
<1> SUFFICES ASSUME Init PROVE SessionsInv
  OBVIOUS
<1> USE SessionsAssumption DEF Init
<1>1. TypeOK
  BY DEF TypeOK, Ids
<1>2. OneClaim /\ JtiInv /\ RevokedHasCause /\ ReuseHasCause
  BY DEF OneClaim, Claims, JtiInv, Usable, TokensOf, RevokedHasCause, ReuseHasCause
<1>3. \A c \in Calls : CallInv(c) /\ RevocationInv(c)
  BY DEF CallInv, RevocationInv, Revocations, Handed
<1> QED
  BY <1>1, <1>2, <1>3 DEF SessionsInv

(* Every step keeps the types.                                             *)
LEMMA TypeStep ==
    ASSUME TypeOK, \A c \in Calls : CallInv(c) /\ RevocationInv(c), Next
    PROVE  TypeOK'
<1> PICK c \in Calls : Works(c) \/ Fails(c)
  BY DEF Next
<1> USE SessionsAssumption DEF TypeOK, Ids, Revocations, Goto, plans, tables
<1>1. CASE CreateSession(c)
  BY <1>1 DEF CreateSession
<1>2. CASE CreateToken(c)
  BY <1>2 DEF CreateToken
<1>3. CASE Reply(c)
  BY <1>3 DEF Reply
<1>4. CASE RefreshLookup(c)
  BY <1>4 DEF RefreshLookup, Handed, TokensOf, CallInv
<1>5. CASE Rotate(c)
  BY <1>5 DEF Rotate, CallInv, Handed
<1>6. CASE Mint(c)
  BY <1>6 DEF Mint, CallInv, Handed
<1>7. CASE Touch(c)
  BY <1>7 DEF Touch, CallInv, Handed
<1>8. CASE Logout(c)
  BY <1>8 DEF Logout, Handed, TokensOf, CallInv
<1>9. CASE RevokeSession(c)
  BY <1>9 DEF RevokeSession, TokensOf, CallInv
<1>10. CASE LogoutAll(c)
  BY <1>10 DEF LogoutAll, CallInv
<1>11. CASE RevokeTokens(c)
  BY <1>11 DEF RevokeTokens, Targets, TokensOf, AfterTokens, CallInv, RevocationInv
<1>0. pc[c] = "read" => op[c] = "reuse"
  BY DEF CallInv, RevocationInv
<1>12. CASE ReadSession(c)
  <2>1. arg[c] \in Handed
    BY <1>12, <1>0 DEF ReadSession, CallInv, RevocationInv
  <2>2. family[arg[c]] \in Calls /\ row[family[arg[c]]] # "none"
    BY <2>1 DEF CallInv, Handed
  <2>3. jti[family[arg[c]]] \in Calls
    BY <2>2 DEF CallInv
  <2> QED
    BY <1>12, <2>3 DEF ReadSession
<1>13. CASE RevokeRows(c)
  BY <1>13 DEF RevokeRows, AfterRows
<1>14. CASE Deny(c)
  BY <1>14 DEF Deny, AfterDeny
<1>15. CASE Fails(c)
  BY <1>15 DEF Fails
<1> QED
  BY <1>1, <1>2, <1>3, <1>4, <1>5, <1>6, <1>7, <1>8, <1>9, <1>10, <1>11, <1>12, <1>13,
     <1>14, <1>15 DEF Works, Begins, Continues

(* A refresh token keeps its session, and a pair once handed stays handed. *)
LEMMA Stability ==
    ASSUME TypeOK, \A c \in Calls : CallInv(c), NEW c \in Calls, Works(c) \/ Fails(c)
    PROVE  /\ \A t \in Calls : family[t] # None => family'[t] = family[t]
           /\ Handed \subseteq Handed'
           /\ \A d \in Calls : op[d] # "none" => arg'[d] = arg[d] /\ op'[d] = op[d]
           /\ \A s \in Calls : row[s] # "none" => row'[s] # "none"
<1> USE DEF TypeOK, Handed, Goto, plans, tables
<1>1. CASE CreateSession(c) \/ CreateToken(c) \/ Reply(c) \/ Rotate(c) \/ Mint(c)
            \/ Touch(c) \/ Fails(c)
  BY <1>1 DEF CreateSession, CreateToken, Reply, Rotate, Mint, Touch, Fails, CallInv
<1>2. CASE RefreshLookup(c) \/ Logout(c) \/ RevokeSession(c) \/ LogoutAll(c)
  BY <1>2 DEF RefreshLookup, Logout, RevokeSession, LogoutAll, CallInv
<1>3. CASE RevokeTokens(c) \/ ReadSession(c) \/ RevokeRows(c) \/ Deny(c)
  BY <1>3 DEF RevokeTokens, ReadSession, RevokeRows, Deny
<1> QED
  BY <1>1, <1>2, <1>3 DEF Works, Begins, Continues

(* Every step leaves each call where its operation may be.                 *)
LEMMA CallStep ==
    ASSUME TypeOK, TypeOK', \A c \in Calls : CallInv(c) /\ RevocationInv(c), Next
    PROVE  \A d \in Calls : CallInv(d)'
<1> PICK c \in Calls : Works(c) \/ Fails(c)
  BY DEF Next
<1>0. /\ \A t \in Calls : family[t] # None => family'[t] = family[t]
      /\ Handed \subseteq Handed'
      /\ \A d \in Calls : op[d] # "none" => arg'[d] = arg[d] /\ op'[d] = op[d]
      /\ \A s \in Calls : row[s] # "none" => row'[s] # "none"
  BY Stability
<1> SUFFICES ASSUME NEW d \in Calls PROVE CallInv(d)'
  OBVIOUS
<1> USE SessionsAssumption DEF TypeOK, Ids, Revocations, Goto, plans, tables, Handed
<1>1. CASE CreateSession(c)
  BY <1>0, <1>1 DEF CreateSession, CallInv
<1>2. CASE CreateToken(c)
  BY <1>0, <1>2 DEF CreateToken, CallInv
<1>3. CASE Reply(c)
  BY <1>0, <1>3 DEF Reply, CallInv
<1>4. CASE RefreshLookup(c)
  BY <1>0, <1>4 DEF RefreshLookup, CallInv
<1>5. CASE Rotate(c)
  BY <1>0, <1>5 DEF Rotate, CallInv
<1>6. CASE Mint(c)
  BY <1>0, <1>6 DEF Mint, CallInv
<1>7. CASE Touch(c)
  BY <1>0, <1>7 DEF Touch, CallInv
<1>8. CASE Logout(c)
  BY <1>0, <1>8 DEF Logout, CallInv, TokensOf
<1>9. CASE RevokeSession(c)
  BY <1>0, <1>9 DEF RevokeSession, CallInv
<1>10. CASE LogoutAll(c)
  BY <1>0, <1>10 DEF LogoutAll, CallInv
<1>11. CASE RevokeTokens(c)
  BY <1>0, <1>11 DEF RevokeTokens, AfterTokens, CallInv
<1>12. CASE ReadSession(c)
  BY <1>0, <1>12 DEF ReadSession, CallInv, RevocationInv
<1>13. CASE RevokeRows(c)
  BY <1>0, <1>13 DEF RevokeRows, AfterRows, CallInv, RevocationInv
<1>14. CASE Deny(c)
  BY <1>0, <1>14 DEF Deny, AfterDeny, CallInv
<1>15. CASE Fails(c)
  BY <1>0, <1>15 DEF Fails, CallInv
<1> QED
  BY <1>1, <1>2, <1>3, <1>4, <1>5, <1>6, <1>7, <1>8, <1>9, <1>10, <1>11, <1>12, <1>13,
     <1>14, <1>15 DEF Works, Begins, Continues

(* Each await of a revocation does its part of it.                         *)
LEMMA RevocationStep ==
    ASSUME TypeOK, TypeOK', \A c \in Calls : CallInv(c) /\ RevocationInv(c), Next
    PROVE  \A d \in Calls : RevocationInv(d)'
<1> PICK c \in Calls : Works(c) \/ Fails(c)
  BY DEF Next
<1>0. /\ \A t \in Calls : family[t] # None => family'[t] = family[t]
      /\ \A s \in Calls : row[s] # "none" => row'[s] # "none"
  BY Stability
<1> SUFFICES ASSUME NEW d \in Calls PROVE RevocationInv(d)'
  OBVIOUS
<1> USE SessionsAssumption DEF TypeOK, Ids, Revocations, Goto, plans, tables, TokensDone,
        RowsDone, DenyDone, Targets, RevocationInv
<1>1. CASE CreateSession(c)
  BY <1>0, <1>1 DEF CreateSession, CallInv
<1>2. CASE CreateToken(c)
  BY <1>0, <1>2 DEF CreateToken, CallInv
<1>5. CASE Reply(c) \/ Rotate(c) \/ Touch(c) \/ Fails(c)
  BY <1>0, <1>5 DEF Reply, Rotate, Touch, Fails, CallInv
<1>6. CASE Mint(c)
  BY <1>0, <1>6 DEF Mint, CallInv
<1>3. CASE c # d /\ (RefreshLookup(c) \/ Logout(c) \/ RevokeSession(c) \/ LogoutAll(c))
  BY <1>0, <1>3 DEF RefreshLookup, Logout, RevokeSession, LogoutAll, CallInv
<1>4. CASE RefreshLookup(d)
  <2>1. PICK t \in Handed : /\ arg' = [arg EXCEPT ![d] = t]
                            /\ op'[d] = "reuse" => /\ batch'[d] = {family[t]}
                                                   /\ before'[d] = TokensOf(family[t])
    <3>1. PICK t \in Handed :
             /\ arg' = [arg EXCEPT ![d] = t]
             /\ \/ /\ batch' = [batch EXCEPT ![d] = {family[t]}]
                   /\ before' = [before EXCEPT ![d] = TokensOf(family[t])]
                \/ op' = [op EXCEPT ![d] = "refresh"]
      <4> HIDE DEF TypeOK, RevocationInv, Handed
      <4> QED
        BY <1>4, Zenon DEF RefreshLookup
    <3>2. op'[d] = "reuse" => /\ batch'[d] = {family[t]}
                              /\ before'[d] = TokensOf(family[t])
      BY <3>1
    <3> HIDE DEF Handed
    <3> QED
      BY <3>1, <3>2, Zenon
  <2>2. family[t] \in Calls /\ row[family[t]] # "none" /\ family' = family /\ row' = row
    BY <1>4 DEF RefreshLookup, CallInv, Handed
  <2>3. op'[d] \in {"reuse", "refresh"} /\ pc'[d] \in {"tokens", "rotate"}
    BY <1>4 DEF RefreshLookup
  <2> QED
    BY <2>1, <2>2, <2>3 DEF TokensOf
<1>8. CASE Logout(d)
  <2>1. PICK j \in Handed :
           \/ UNCHANGED <<arg, batch, before>>
           \/ \E t \in Handed :
                 /\ arg' = [arg EXCEPT ![d] = t]
                 /\ batch' = [batch EXCEPT ![d] = {family[t]}]
                 /\ before' = [before EXCEPT ![d] = {t}]
    BY <1>8 DEF Logout
  <2>2. op'[d] = "logout" /\ pc'[d] = "deny" /\ family' = family /\ row' = row
    BY <1>8 DEF Logout
  <2>3. \A t \in Handed : family[t] \in Calls /\ row[family[t]] # "none"
    BY DEF CallInv, Handed
  <2>4. arg[d] = None /\ before[d] = {} /\ batch[d] = {}
    BY <1>8 DEF Logout, CallInv
  <2> QED
    BY <2>1, <2>2, <2>3, <2>4 DEF TokensOf, Handed
<1>9. CASE RevokeSession(d)
  BY <1>0, <1>9 DEF RevokeSession, CallInv, TokensOf
<1>10. CASE LogoutAll(d)
  BY <1>0, <1>10 DEF LogoutAll, CallInv
<1>11. CASE RevokeTokens(c)
  BY <1>0, <1>11 DEF RevokeTokens, AfterTokens, CallInv
<1>12. CASE ReadSession(c)
  BY <1>0, <1>12 DEF ReadSession, CallInv
<1>13. CASE RevokeRows(c)
  BY <1>0, <1>13 DEF RevokeRows, AfterRows, CallInv
<1>14. CASE Deny(c)
  BY <1>0, <1>14 DEF Deny, AfterDeny, CallInv
<1> QED
  BY <1>1, <1>2, <1>3, <1>4, <1>5, <1>6, <1>8, <1>9, <1>10, <1>11, <1>12, <1>13,
     <1>14 DEF Works, Begins, Continues

(* What ends a token goes on ending it. *)
LEMMA EndsStable ==
    ASSUME TypeOK, \A c \in Calls : CallInv(c), Next,
           NEW t \in Calls, family[t] # None, NEW d \in Calls, Ends(d, t)
    PROVE  Ends(d, t)'
<1> PICK c \in Calls : Works(c) \/ Fails(c)
  BY DEF Next
<1>1. family'[t] = family[t] /\ arg'[d] = arg[d] /\ op'[d] = op[d]
  BY Stability DEF Ends, CallInv
<1>2. op[d] = "reuse" => arg[d] \in Calls /\ family[arg[d]] # None
  BY DEF CallInv, Handed
<1>3. op[d] = "reuse" => family'[arg[d]] = family[arg[d]]
  BY <1>2, Stability
<1> QED
  BY <1>1, <1>3 DEF Ends

(* A token is only revoked by a call that had a reason.                    *)
LEMMA CauseStep ==
    ASSUME TypeOK, \A c \in Calls : CallInv(c) /\ RevocationInv(c),
           RevokedHasCause, \A t \in revoked : family[t] # None, Next
    PROVE  RevokedHasCause' /\ (\A t \in revoked : family[t] # None)'
<1> PICK c \in Calls : Works(c) \/ Fails(c)
  BY DEF Next
<1>0. \A t \in Calls : family[t] # None => family'[t] = family[t]
  BY Stability
<1>1. ASSUME NEW t \in revoked PROVE family'[t] # None /\ \E d \in Calls : Ends(d, t)'
  BY <1>0, <1>1, EndsStable DEF RevokedHasCause, TypeOK
<1>2. ASSUME NEW t \in revoked' \ revoked
      PROVE  family[t] # None /\ t \in Calls /\ Ends(c, t)
  <2>1. CASE Rotate(c)
    BY <2>1, <1>2 DEF Rotate, CallInv, Handed, Ends, TypeOK
  <2>2. CASE RevokeTokens(c)
    <3>1. t \in Targets(c)
      BY <1>2, <2>2 DEF RevokeTokens
    <3>2. t \in Calls /\ Ends(c, t)
      BY <2>2, <3>1 DEF Targets, Ends
    <3>3. family[t] # None
      BY <3>1, <3>2, SessionsAssumption DEF Targets, CallInv, Handed
    <3> QED
      BY <3>2, <3>3
  <2> QED
    BY <1>2, <2>1, <2>2 DEF Works, Begins, Continues, Fails, CreateSession, CreateToken, Reply, RefreshLookup, Mint,
       Touch, Logout, RevokeSession, LogoutAll, ReadSession, RevokeRows, Deny, tables
<1>3. ASSUME NEW t \in revoked' \ revoked
      PROVE  family'[t] # None /\ \E d \in Calls : Ends(d, t)'
  BY <1>2, <1>3, <1>0, EndsStable
<1> QED
  BY <1>1, <1>3 DEF RevokedHasCause

(* A reuse is only detected if another call presented the token or ended   *)
(* its session.                                                            *)
LEMMA ReuseStep ==
    ASSUME TypeOK, \A c \in Calls : CallInv(c), RevokedHasCause, ReuseHasCause, Next
    PROVE  ReuseHasCause'
<1> PICK c \in Calls : Works(c) \/ Fails(c)
  BY DEF Next
<1> SUFFICES ASSUME NEW e \in Calls, op'[e] = "reuse"
             PROVE  \E d \in Calls \ {e} : Ends(d, arg[e])'
  BY DEF ReuseHasCause
<1>1. CASE op[e] = "reuse"
  <2>1. PICK d \in Calls \ {e} : Ends(d, arg[e])
    BY <1>1 DEF ReuseHasCause
  <2>2. arg[e] \in Calls /\ family[arg[e]] # None /\ arg'[e] = arg[e]
    BY <1>1, Stability DEF CallInv, Handed
  <2>3. Ends(d, arg[e])'
    BY <2>1, <2>2, EndsStable DEF Ends
  <2> QED
    BY <2>3
<1>2. CASE op[e] # "reuse"
  <2>1. RefreshLookup(e)
    BY <1>2 DEF Works, Begins, Continues, Fails, CreateSession, CreateToken, Reply, RefreshLookup, Rotate, Mint,
       Touch, Logout, RevokeSession, LogoutAll, RevokeTokens, ReadSession, RevokeRows, Deny,
       tables, plans, TypeOK
  <2>2. arg'[e] \in revoked /\ arg'[e] \in Handed /\ op[e] = "none" /\ family' = family
    BY <2>1 DEF RefreshLookup, CallInv, TypeOK, tables
  <2>3. PICK d \in Calls : Ends(d, arg'[e])
    BY <2>2 DEF RevokedHasCause
  <2>4. d # e
    BY <2>2, <2>3 DEF Ends
  <2>5. op'[d] = op[d] /\ arg'[d] = arg[d]
    BY <2>1, <2>4 DEF RefreshLookup, TypeOK
  <2>6. Ends(d, arg[e])'
    BY <2>2, <2>3, <2>5 DEF Ends
  <2> QED
    BY <2>4, <2>6
<1> QED
  BY <1>1, <1>2

(* Two refreshes that raced once have raced for good. *)
LEMMA RacedStable ==
    ASSUME TypeOK, \A c \in Calls : CallInv(c), Next, NEW s \in Calls, Raced(s)
    PROVE  Raced(s)'
<1> PICK c \in Calls : Works(c) \/ Fails(c)
  BY DEF Next
<1>1. PICK a, b \in Calls : /\ a # b /\ op[a] = "refresh" /\ op[b] = "refresh"
                            /\ arg[a] = arg[b] /\ family[arg[a]] = s
  BY DEF Raced
<1>2. /\ op'[a] = "refresh" /\ arg'[a] = arg[a] /\ op'[b] = "refresh" /\ arg'[b] = arg[b]
      /\ family'[arg[a]] = s
  BY <1>1, Stability, SessionsAssumption DEF CallInv, Handed
<1> QED
  BY <1>1, <1>2 DEF Raced

(* A step that gives session s no claim it did not have leaves it at one. *)
LEMMA FewerClaims ==
    ASSUME TypeOK, \A c \in Calls : CallInv(c), OneClaim, Next, NEW s \in Calls,
           Claims(s)' \subseteq Claims(s)
    PROVE  \A t, u \in Claims(s)' : t = u \/ Raced(s)'
  BY RacedStable DEF OneClaim

(* A token has one successor unless two refreshes accepted it.             *)
LEMMA ClaimStep ==
    ASSUME TypeOK, TypeOK', \A c \in Calls : CallInv(c) /\ RevocationInv(c), OneClaim, Next
    PROVE  OneClaim'
<1> PICK c \in Calls : Works(c) \/ Fails(c)
  BY DEF Next
<1> SUFFICES ASSUME NEW s \in Calls
             PROVE  \A t, u \in Claims(s)' : t = u \/ Raced(s)'
  BY DEF OneClaim
<1> USE SessionsAssumption DEF plans, tables, Goto
<1>1. CASE CreateSession(c)
  <2>1. s # c => Claims(s)' \subseteq Claims(s)
    BY <1>1 DEF CreateSession, Claims, Usable, TokensOf, TypeOK
  <2>2. ASSUME s = c PROVE Claims(s)' \subseteq {c}
    <3>1. \A t \in Calls : family[t] # c
      BY <1>1 DEF CreateSession, CallInv
    <3>2. \A d \in Calls : pc'[d] \in {"rotate", "mint", "touch"} => arg[d] \in Calls
      BY <1>1 DEF CreateSession, CallInv, Handed, TypeOK
    <3> QED
      BY <1>1, <2>2, <3>1, <3>2 DEF CreateSession, Claims, Usable, TokensOf, TypeOK
  <2> QED
    BY <2>1, <2>2, FewerClaims
<1>2. CASE CreateToken(c)
  <2>1. Claims(s)' \subseteq Claims(s)
    BY <1>2 DEF CreateToken, Claims, Usable, TokensOf, TypeOK, CallInv, Handed
  <2> QED
    BY <2>1, FewerClaims
<1>3. CASE Reply(c) \/ Fails(c) \/ Touch(c) \/ RevokeTokens(c) \/ ReadSession(c)
            \/ RevokeRows(c) \/ Deny(c) \/ Logout(c) \/ RevokeSession(c) \/ LogoutAll(c)
  <2>1. Claims(s)' \subseteq Claims(s)
    BY <1>3 DEF Reply, Fails, Touch, RevokeTokens, ReadSession, RevokeRows, Deny, Logout,
       RevokeSession, LogoutAll, Claims, Usable, TokensOf, TypeOK, CallInv, AfterTokens,
       AfterRows, AfterDeny
  <2> QED
    BY <2>1, FewerClaims
<1>4. CASE RefreshLookup(c)
  <2>1. Claims(s)' \subseteq Claims(s)
    BY <1>4 DEF RefreshLookup, Claims, Usable, TokensOf, TypeOK, CallInv, Handed
  <2> QED
    BY <2>1, FewerClaims
<1>5. CASE Rotate(c)
  <2>1. family[arg[c]] # s => Claims(s)' \subseteq Claims(s)
    BY <1>5 DEF Rotate, Claims, Usable, TokensOf, TypeOK
  <2>2. ASSUME family[arg[c]] = s, ~Raced(s)
        PROVE  Claims(s)' \subseteq {c}
    <3>1. Claims(s) \subseteq {arg[c]}
      BY <1>5, <2>2 DEF Rotate, Claims, OneClaim
    <3>2. \A d \in Calls : d # c /\ pc[d] = "rotate" => arg[d] # arg[c]
      BY <1>5, <2>2 DEF Rotate, Raced, CallInv
    <3>3. arg[c] \in Handed
      BY <1>5 DEF Rotate, CallInv
    <3> QED
      BY <1>5, <2>2, <3>1, <3>2, <3>3 DEF Rotate, Claims, Usable, TokensOf, TypeOK, Handed
  <2> QED
    BY <2>1, <2>2, FewerClaims, RacedStable
<1>6. CASE Mint(c)
  <2>1. Claims(s)' \subseteq Claims(s)
    BY <1>6 DEF Mint, Claims, Usable, TokensOf, TypeOK, CallInv, Handed
  <2> QED
    BY <2>1, FewerClaims
<1> QED
  BY <1>1, <1>2, <1>3, <1>4, <1>5, <1>6 DEF Works, Begins, Continues

(* The row of a session keeps naming the access token of its usable        *)
(* refresh token.                                                          *)
LEMMA JtiStep ==
    ASSUME TypeOK, TypeOK', \A c \in Calls : CallInv(c) /\ RevocationInv(c), OneClaim, JtiInv, Next
    PROVE  JtiInv'
<1> PICK c \in Calls : Works(c) \/ Fails(c)
  BY DEF Next
<1> SUFFICES /\ \A s \in Calls : \A t \in Usable(s)' :
                   pc'[t] \in {"reply", "done"} => jti'[s] = t \/ Raced(s)'
             /\ \A d \in Calls : pc'[d] = "token" => jti'[d] = d
  BY DEF JtiInv
<1>0. \A s \in Calls : Raced(s) => Raced(s)'
  BY RacedStable
<1> USE SessionsAssumption DEF plans, tables, Goto
<1>1. CASE CreateSession(c)
  BY <1>0, <1>1 DEF CreateSession, JtiInv, Usable, TokensOf, TypeOK, CallInv
<1>2. CASE CreateToken(c)
  BY <1>0, <1>2 DEF CreateToken, JtiInv, Usable, TokensOf, TypeOK
<1>3. CASE Touch(c)
  <2>1. family[arg[c]] \in Calls /\ pc[family[arg[c]]] # "token"
    BY <1>3 DEF Touch, CallInv, Handed, TypeOK, Ids
  <2>2. \A d \in Calls : pc'[d] = "token" => jti'[d] = d
    BY <1>3, <2>1 DEF Touch, JtiInv, TypeOK
  <2>3. ASSUME NEW s \in Calls, NEW t \in Usable(s)', pc'[t] \in {"reply", "done"}
        PROVE  jti'[s] = t \/ Raced(s)'
    <3>1. CASE s = family[arg[c]]
      <4>1. t \in Claims(s) /\ c \in Claims(s)
        BY <1>3, <2>3, <3>1 DEF Touch, Claims, Usable, TokensOf
      <4>2. t = c \/ Raced(s)
        BY <4>1 DEF OneClaim
      <4>3. jti'[s] = c
        BY <1>3, <2>1, <3>1 DEF Touch, TypeOK
      <4> QED
        BY <1>0, <4>2, <4>3
    <3>2. CASE s # family[arg[c]]
      <4>1. t \in Usable(s) /\ t # c
        BY <1>3, <2>3, <3>2 DEF Touch, Usable, TokensOf, CallInv
      <4>2. jti'[s] = jti[s] /\ pc[t] \in {"reply", "done"}
        BY <1>3, <2>3, <3>2, <4>1 DEF Touch, TypeOK, Usable, TokensOf
      <4> QED
        BY <1>0, <4>1, <4>2 DEF JtiInv
    <3> QED
      BY <3>1, <3>2
  <2> QED
    BY <2>2, <2>3
<1>4. CASE Reply(c) \/ Fails(c)
  BY <1>0, <1>4 DEF Reply, Fails, JtiInv, Usable, TokensOf, TypeOK
<1>8. CASE RevokeTokens(c) \/ ReadSession(c) \/ RevokeRows(c) \/ Deny(c)
  <2>1. family[c] = None
    BY <1>8 DEF RevokeTokens, ReadSession, RevokeRows, Deny, CallInv, Revocations
  <2>2. family' = family /\ revoked \subseteq revoked' /\ jti' = jti
    BY <1>8 DEF RevokeTokens, ReadSession, RevokeRows, Deny
  <2>3. \A d \in Calls : d # c => pc'[d] = pc[d]
    BY <1>8 DEF RevokeTokens, ReadSession, RevokeRows, Deny, TypeOK
  <2>4. pc'[c] # "token"
    BY <1>8 DEF RevokeTokens, ReadSession, RevokeRows, Deny, TypeOK, AfterTokens, AfterRows,
       AfterDeny
  <2> QED
    BY <1>0, <2>1, <2>2, <2>3, <2>4 DEF JtiInv, Usable, TokensOf
<1>5. CASE Rotate(c)
  BY <1>0, <1>5 DEF Rotate, JtiInv, Usable, TokensOf, TypeOK
<1>7. CASE Mint(c)
  BY <1>0, <1>7 DEF Mint, JtiInv, Usable, TokensOf, TypeOK
<1>6. CASE RefreshLookup(c) \/ Logout(c) \/ RevokeSession(c) \/ LogoutAll(c)
  BY <1>0, <1>6 DEF RefreshLookup, Logout, RevokeSession, LogoutAll, JtiInv, Usable, TokensOf,
     TypeOK, CallInv
<1> QED
  BY <1>1, <1>2, <1>3, <1>4, <1>5, <1>6, <1>7, <1>8 DEF Works, Begins, Continues

(* Every step keeps the inductive invariant.                               *)
LEMMA SessionsInductive == SessionsInv /\ [Next]_vars => SessionsInv'
<1> SUFFICES ASSUME SessionsInv, [Next]_vars PROVE SessionsInv'
  OBVIOUS
<1>1. CASE Next
  <2>1. TypeOK'
    BY <1>1, TypeStep DEF SessionsInv
  <2>2. \A c \in Calls : CallInv(c)' /\ RevocationInv(c)'
    BY <1>1, <2>1, CallStep, RevocationStep DEF SessionsInv
  <2>3. OneClaim' /\ JtiInv'
    BY <1>1, <2>1, ClaimStep, JtiStep DEF SessionsInv
  <2>4. RevokedHasCause' /\ (\A t \in revoked : family[t] # None)' /\ ReuseHasCause'
    BY <1>1, CauseStep, ReuseStep DEF SessionsInv
  <2> QED
    BY <2>1, <2>2, <2>3, <2>4 DEF SessionsInv
<1>2. CASE UNCHANGED vars
  BY <1>2 DEF vars, SessionsInv, TypeOK, OneClaim, Claims, Usable, TokensOf, Raced, JtiInv,
     RevokedHasCause, Ends, ReuseHasCause, CallInv, RevocationInv, Handed, Targets, TokensDone,
     RowsDone, DenyDone
<1> QED
  BY <1>1, <1>2

(* One claim per token, rows that know their access tokens, and            *)
(* revocations that do what they set out to.                               *)
THEOREM SessionsInvariant == Spec => []SessionsInv
  BY InitInv, SessionsInductive, PTL DEF Spec

-----------------------------------------------------------------------------
(* Type correctness of Sessions. *)
THEOREM SessionsTyped == Spec => []TypeOK
<1>1. SessionsInv => TypeOK
  BY DEF SessionsInv
<1> QED
  BY <1>1, SessionsInvariant, PTL

(* However many calls interleave and fail, a session has one usable        *)
(* refresh token unless two refreshes raced for one.                       *)
THEOREM OneUsableToken == Spec => []OneTokenUnlessRaced
<1>1. SessionsInv => OneTokenUnlessRaced
  BY DEF SessionsInv, OneClaim, Claims, OneTokenUnlessRaced
<1> QED
  BY <1>1, SessionsInvariant, PTL

(* Unless two refreshes raced, the session row names the access token that *)
(* goes with the usable refresh token.                                     *)
THEOREM RowsKnowAccessTokens == Spec => []CurrentAccessIsKnown
<1>1. SessionsInv => CurrentAccessIsKnown
  BY DEF SessionsInv, JtiInv, CurrentAccessIsKnown, Handed
<1> QED
  BY <1>1, SessionsInvariant, PTL

(* A reuse is only detected where another call presented the same token or *)
(* ended its session.                                                      *)
THEOREM ReusesHaveCauses == Spec => []ReuseHasCause
<1>1. SessionsInv => ReuseHasCause
  BY DEF SessionsInv
<1> QED
  BY <1>1, SessionsInvariant, PTL

(* What a completed revocation set out to end has ended. *)
THEOREM CompletedRevocationsHold == Spec => []RevocationsHold
<1>1. SessionsInv => RevocationsHold
  BY DEF SessionsInv, RevocationInv, RevocationsHold, Revocations, TokensDone, RowsDone, DenyDone
<1> QED
  BY <1>1, SessionsInvariant, PTL

(* A step never brings a session back that is over. *)
LEMMA OverStep ==
    ASSUME SessionsInv, [Next]_vars, NEW s \in Calls, Over(s)
    PROVE  Over(s)'
<1> USE SessionsAssumption DEF plans, tables, Goto
<1>1. CASE UNCHANGED vars
  BY <1>1 DEF vars, Over, Usable, TokensOf
<1>2. CASE Next
  <2> PICK c \in Calls : Works(c) \/ Fails(c)
    BY <1>2 DEF Next
  <2> USE DEF SessionsInv, TypeOK
  <2>0. row'[s] # "none"
    BY Stability DEF Over
  <2>1. CASE CreateSession(c)
    <3>1. s # c
      BY <2>1 DEF CreateSession, Over, CallInv
    <3> QED
      BY <2>0, <2>1, <3>1 DEF CreateSession, Over, Usable, TokensOf
  <2>5. CASE CreateToken(c)
    BY <2>0, <2>5 DEF CreateToken, Over, Usable, TokensOf
  <2>6. CASE Mint(c)
    BY <2>0, <2>6 DEF Mint, Over, Usable, TokensOf
  <2>2. CASE RefreshLookup(c)
    BY <2>0, <2>2 DEF RefreshLookup, Over, Usable, TokensOf, Handed, CallInv
  <2>3. CASE Reply(c) \/ Fails(c) \/ Touch(c) \/ Rotate(c) \/ RevokeTokens(c) \/ ReadSession(c)
              \/ RevokeRows(c) \/ Deny(c)
    BY <2>0, <2>3 DEF Reply, Fails, Touch, Rotate, RevokeTokens, ReadSession, RevokeRows, Deny,
       Over, Usable, TokensOf, AfterTokens, AfterRows, AfterDeny
  <2>4. CASE Logout(c) \/ RevokeSession(c) \/ LogoutAll(c)
    BY <2>0, <2>4 DEF Logout, RevokeSession, LogoutAll, Over, Usable, TokensOf
  <2> QED
    BY <2>1, <2>2, <2>3, <2>4, <2>5, <2>6 DEF Works, Begins, Continues
<1> QED
  BY <1>1, <1>2

(* A session that is over stays over. *)
THEOREM SessionsStayOver == Spec => OverStaysOver
<1>1. SessionsInv /\ [Next]_vars => [\A s \in Calls : Over(s) => Over(s)']_vars
  BY OverStep
<1> QED
  BY <1>1, SessionsInvariant, PTL DEF Spec, OverStaysOver

(* A token that is revoked leaves its session over, unless a refresh       *)
(* presented it or two refreshes of the session raced.                     *)
LEMMA SpentStep ==
    ASSUME SessionsInv, SessionsInv', SpentInv, [Next]_vars
    PROVE  SpentInv'
<1>1. CASE UNCHANGED vars
  BY <1>1 DEF vars, SpentInv, Over, Raced, Usable, TokensOf
<1>2. CASE Next
  <2> PICK c \in Calls : Works(c) \/ Fails(c)
    BY <1>2 DEF Next
  <2> USE DEF SessionsInv, TypeOK
  <2>1. \A t \in Calls : family[t] # None => family'[t] = family[t]
    BY Stability
  <2>2. ASSUME NEW t \in revoked, NEW s \in Calls, family[t] = s
        PROVE  \/ Over(s)' \/ Raced(s)'
               \/ \E d \in Calls : op'[d] = "refresh" /\ arg'[d] = t
    <3>1. CASE Over(s)
      BY <3>1, OverStep
    <3>2. CASE Raced(s)
      BY <1>2, <3>2, RacedStable
    <3>3. CASE \E d \in Calls : op[d] = "refresh" /\ arg[d] = t
      BY <3>3, Stability
    <3> QED
      BY <2>2, <3>1, <3>2, <3>3 DEF SpentInv
  <2>3. ASSUME NEW t \in revoked' \ revoked, NEW s \in Calls, family[t] = s
        PROVE  \/ Over(s)' \/ Raced(s)'
               \/ \E d \in Calls : op'[d] = "refresh" /\ arg'[d] = t
    <3>1. CASE Rotate(c)
      BY <2>3, <3>1 DEF Rotate, CallInv, plans
    <3>2. CASE RevokeTokens(c)
      <4>1. t \in Targets(c) /\ UNCHANGED <<family, row, op, arg>> /\ t \in Calls
        BY <2>3, <3>2 DEF RevokeTokens, plans, Targets
      <4>2. s \in Calls /\ s # None
        BY SessionsAssumption
      <4>3. t \in Usable(s) /\ t \in Claims(s)
        BY <2>3, <4>1 DEF Usable, TokensOf, Claims
      <4>4. CASE Raced(s)
        BY <1>2, <4>2, <4>4, RacedStable
      <4>5. CASE ~Raced(s)
        <5>1. \A u \in Claims(s) : u = t
          BY <4>2, <4>3, <4>5 DEF OneClaim
        <5>2. Usable(s)' = {}
          <6>1. \A u \in Calls : family[u] = s /\ u \notin revoked => u = t
            BY <5>1 DEF Claims, Usable, TokensOf
          <6> QED
            BY <3>2, <4>1, <6>1 DEF RevokeTokens, Usable, TokensOf
        <5>3. row'[s] # "none"
          BY <2>3, <4>1, <4>2 DEF CallInv
        <5>4. pc[s] # "token" /\ pc'[s] # "token"
          BY <2>3, <3>2, <4>1, <4>2 DEF RevokeTokens, Goto, AfterTokens, CallInv
        <5>5. CASE \E d \in Calls : pc[d] = "rotate" /\ family[arg[d]] = s
          BY <5>1, <5>5, <4>1 DEF Claims, CallInv
        <5>6. CASE \A d \in Calls : pc[d] = "rotate" => family[arg[d]] # s
          <6>1. \A d \in Calls : pc[d] = "mint" => family[arg[d]] # s
            BY <5>1, <4>1, <4>2, <4>3 DEF Claims, CallInv, Usable, TokensOf
          <6>2. \A d \in Calls : pc'[d] \in {"rotate", "mint"} => pc'[d] = pc[d]
            BY <3>2 DEF RevokeTokens, Goto, AfterTokens
          <6> QED
            BY <4>1, <5>2, <5>3, <5>4, <5>6, <6>1, <6>2 DEF Over
        <5> QED
          BY <5>5, <5>6
      <4> QED
        BY <4>4, <4>5
    <3> QED
      BY <2>3, <3>1, <3>2 DEF Works, Begins, Continues, Fails, CreateSession, CreateToken,
         Reply, RefreshLookup, Mint, Touch, Logout, RevokeSession, LogoutAll, ReadSession,
         RevokeRows, Deny, tables
  <2>4. \A t \in revoked' : family'[t] = family[t] /\ family[t] \in Calls
    <3>1. \A t \in revoked' : t \in Calls /\ (t \in revoked \/ family[t] # None)
      <4>1. CASE Rotate(c)
        BY <4>1, SessionsAssumption DEF Rotate, CallInv, Handed
      <4>2. CASE RevokeTokens(c)
        BY <4>2, SessionsAssumption DEF RevokeTokens, Targets, CallInv, Handed
      <4> QED
        BY <4>1, <4>2 DEF Works, Begins, Continues, Fails, CreateSession, CreateToken, Reply,
           RefreshLookup, Mint, Touch, Logout, RevokeSession, LogoutAll, ReadSession,
           RevokeRows, Deny, tables
    <3> QED
      BY <2>1, <3>1 DEF Ids
  <2> QED
    BY <2>2, <2>3, <2>4 DEF SpentInv
<1> QED
  BY <1>1, <1>2

(* A logout that has returned leaves its session without a usable refresh  *)
(* token, unless a refresh presented the same token or two refreshes       *)
(* raced.                                                                  *)
THEOREM LogoutsEndSessions == Spec => []LogoutEndsSession
<1>1. Init => SpentInv
  BY DEF Init, SpentInv
<1>2. SessionsInv /\ SessionsInv' /\ SpentInv /\ [Next]_vars => SpentInv'
  BY SpentStep
<1>3. SessionsInv /\ SpentInv => LogoutEndsSession
  <2> SUFFICES ASSUME SessionsInv, SpentInv, NEW c \in Calls,
                      pc[c] = "done", op[c] = "logout", arg[c] # None
               PROVE  \/ Usable(family[arg[c]]) = {}
                      \/ Raced(family[arg[c]])
                      \/ \E d \in Calls : op[d] = "refresh" /\ arg[d] = arg[c]
    BY DEF LogoutEndsSession
  <2>1. arg[c] \in revoked
    BY DEF SessionsInv, RevocationInv, Revocations, TokensDone
  <2> QED
    BY <2>1 DEF SpentInv, Over
<1> QED
  BY <1>1, <1>2, <1>3, SessionsInvariant, PTL DEF Spec

-----------------------------------------------------------------------------
(* The browser *)

(* A step of the browser is a step of Sessions or none.                    *)
LEMMA WebStep == [WebNext]_webVars => [Next]_vars
<1> SUFFICES ASSUME [WebNext]_webVars PROVE [Next]_vars
  OBVIOUS
<1>1. CASE UNCHANGED webVars
  BY <1>1 DEF webVars
<1>2. ASSUME NEW b \in Tabs, TabNext(b) PROVE [Next]_vars
  BY <1>2 DEF TabNext, SendRefresh, RefreshAnswered, RefreshRefused, RefreshLost, Reload,
     FormAnswered, FormFails, SignOutRefused, ServeRefresh, ServeLate, LogIn, SignOut, Next,
     Works, Begins
<1>3. ASSUME NEW c \in Calls, OtherBegins(c) \/ Proceeds(c) PROVE [Next]_vars
  BY <1>3 DEF OtherBegins, Proceeds, Next, Works, Begins
<1> QED
  BY <1>1, <1>2, <1>3 DEF WebNext

(* Whatever the tabs do, the identity service behaves as Sessions says:    *)
(* what holds of it holds behind the browser.                              *)
THEOREM WebImplementsSessions == WebSpec => Spec
<1>1. WebInit => Init
  BY DEF WebInit
<1> QED
  BY <1>1, WebStep, PTL DEF WebSpec, Spec

(* What a call has done stays done.                                        *)
LEMMA Lasting ==
    ASSUME SessionsInv, [Next]_vars
    PROVE  /\ \A d \in Calls : op[d] # "none" => op'[d] = op[d] /\ arg'[d] = arg[d]
           /\ Handed \subseteq Handed'
           /\ revoked \subseteq revoked'
           /\ \A d \in Calls : pc[d] = "failed" => pc'[d] = "failed"
<1>1. CASE UNCHANGED vars
  BY <1>1 DEF vars, Handed
<1>2. CASE Next
  <2> PICK c \in Calls : Works(c) \/ Fails(c)
    BY <1>2 DEF Next
  <2>1. /\ \A d \in Calls : op[d] # "none" => op'[d] = op[d] /\ arg'[d] = arg[d]
        /\ Handed \subseteq Handed'
    BY Stability DEF SessionsInv
  <2>2. CASE RevokeTokens(c) \/ Rotate(c) \/ Fails(c)
    BY <2>1, <2>2 DEF SessionsInv, TypeOK, RevokeTokens, Rotate, Fails, Goto, tables
  <2>3. CASE Begins(c)
    BY <2>1, <2>3 DEF SessionsInv, TypeOK, Begins, CreateSession, RefreshLookup, Logout,
       RevokeSession, LogoutAll, Goto, tables, plans
  <2>4. CASE CreateToken(c) \/ Reply(c) \/ Mint(c) \/ Touch(c) \/ ReadSession(c)
              \/ RevokeRows(c) \/ Deny(c)
    BY <2>1, <2>4 DEF SessionsInv, TypeOK, CreateToken, Reply, Mint, Touch, ReadSession,
       RevokeRows, Deny, Goto, tables, plans
  <2> QED
    BY <2>2, <2>3, <2>4 DEF Works, Continues
<1> QED
  BY <1>1, <1>2

(* A call that begins was idle, becomes one of five operations, and leaves *)
(* the others as they are.                                                 *)
LEMMA Beginning ==
    ASSUME SessionsInv, NEW c \in Calls, Begins(c)
    PROVE  /\ op[c] = "none" /\ c \notin Handed /\ c \notin Handed'
           /\ op'[c] \in {"login", "refresh"} \cup Revocations
           /\ \A d \in Calls \ {c} : op'[d] = op[d] /\ arg'[d] = arg[d] /\ pc'[d] = pc[d]
           /\ revoked' = revoked
           /\ Handed' = Handed
<1> USE DEF SessionsInv, TypeOK, Handed, Goto, plans, tables, CallInv, Revocations
<1>1. CASE CreateSession(c)
  BY <1>1 DEF CreateSession
<1>2. CASE RefreshLookup(c)
  BY <1>2 DEF RefreshLookup
<1>3. CASE Logout(c)
  BY <1>3 DEF Logout
<1>4. CASE RevokeSession(c) \/ LogoutAll(c)
  BY <1>4 DEF RevokeSession, LogoutAll
<1> QED
  BY <1>1, <1>2, <1>3, <1>4 DEF Begins

(* A call that proceeds stays what it is.                                  *)
LEMMA Proceeding ==
    ASSUME SessionsInv, NEW c \in Calls, Continues(c) \/ Fails(c)
    PROVE  op' = op /\ arg' = arg /\ revoked \subseteq revoked'
<1>1. CASE Fails(c)
  BY <1>1 DEF Fails, plans, tables
<1>2. CASE Continues(c)
  BY <1>2 DEF Continues, CreateToken, Reply, Rotate, Mint, Touch, RevokeTokens, ReadSession,
     RevokeRows, Deny, plans, tables
<1> QED
  BY <1>1, <1>2

(* The empty browser satisfies the inductive invariant.                    *)
LEMMA WebInitInv == WebInit => WebInv
  BY SessionsAssumption DEF WebInit, Init, WebInv, WebTypeOK, HeldInv, SpendInv, Spends,
     CallsInv, FetchInv, NoFetch, Ids

(* Every step of the browser keeps the types.                              *)
LEMMA WebTypeStep ==
    ASSUME SessionsInv, WebInv, WebNext
    PROVE  WebTypeOK'
<1> USE DEF WebInv, WebTypeOK, browser, NoFetch, Sent, Ids, GiveUp
<1>1. ASSUME NEW b \in Tabs, TabNext(b) PROVE WebTypeOK'
  <2> USE <1>1
  <2>0. refresh[b] \in [stage : {"none", "sent", "served"}, token : Ids, call : Ids]
    OBVIOUS
  <2>1. CASE SendRefresh(b)
    BY <2>1 DEF SendRefresh
  <2>2. CASE RefreshAnswered(b)
    BY <2>0, <2>2 DEF RefreshAnswered
  <2>3. CASE RefreshRefused(b)
    BY <2>3 DEF RefreshRefused
  <2>4. CASE RefreshLost(b)
    BY <2>0, <2>4 DEF RefreshLost
  <2>5. CASE Reload(b)
    BY <2>0, <2>5 DEF Reload
  <2>6. CASE FormAnswered(b)
    BY <2>6 DEF FormAnswered
  <2>7. CASE FormFails(b)
    BY <2>7 DEF FormFails
  <2>8. CASE SignOutRefused(b)
    BY <2>8 DEF SignOutRefused
  <2>9. ASSUME NEW c \in Calls, ServeRefresh(b, c) PROVE WebTypeOK'
    BY <2>0, <2>9 DEF ServeRefresh, Accepted
  <2>10. ASSUME NEW c \in Calls, ServeLate(b, c) PROVE WebTypeOK'
    BY <2>10 DEF ServeLate
  <2>11. ASSUME NEW c \in Calls, LogIn(b, c) \/ SignOut(b, c) PROVE WebTypeOK'
    <3>1. /\ form' = [form EXCEPT ![b] = c] /\ client' = [client EXCEPT ![c] = b]
          /\ UNCHANGED <<cookie, access, refresh, late, lost>>
      BY <2>11 DEF LogIn, SignOut
    <3> QED
      BY <3>1
  <2> QED
    BY <1>1, <2>1, <2>2, <2>3, <2>4, <2>5, <2>6, <2>7, <2>8, <2>9, <2>10, <2>11 DEF TabNext
<1>2. ASSUME NEW c \in Calls, OtherBegins(c) \/ Proceeds(c) PROVE WebTypeOK'
  BY <1>2 DEF OtherBegins, Proceeds
<1> QED
  BY <1>1, <1>2 DEF WebNext

(* What calls b makes: who begins, and for whom.                           *)
LEMMA TabBegins ==
    ASSUME SessionsInv, WebTypeOK, NEW b \in Tabs, NEW c \in Calls,
           ServeRefresh(b, c) \/ ServeLate(b, c) \/ LogIn(b, c) \/ SignOut(b, c)
    PROVE  /\ Begins(c)
           /\ client'[c] = b /\ \A d \in Calls \ {c} : client'[d] = client[d]
           /\ UNCHANGED <<cookie, access>>
<1> USE DEF WebTypeOK, Begins
<1>1. CASE ServeRefresh(b, c) \/ ServeLate(b, c)
  BY <1>1 DEF ServeRefresh, ServeLate
<1>2. CASE LogIn(b, c)
  BY <1>2 DEF LogIn
<1>3. CASE SignOut(b, c)
  BY <1>3 DEF SignOut
<1> QED
  BY <1>1, <1>2, <1>3

(* A pair that a tab took stays taken.                                     *)
LEMMA TakenGrows ==
    ASSUME SessionsInv, WebInv, WebNext
    PROVE  Taken \subseteq Taken'
<1>0. Handed \subseteq Handed' /\ Handed \subseteq Calls
  <2>1. [Next]_vars
    BY WebStep
  <2> QED
    BY <2>1, Lasting DEF Handed
<1> USE DEF WebInv, WebTypeOK, Taken
<1>1. ASSUME NEW b \in Tabs, NEW c \in Calls,
             ServeRefresh(b, c) \/ ServeLate(b, c) \/ LogIn(b, c) \/ SignOut(b, c)
      PROVE  Taken \subseteq Taken'
  <2>1. c \notin Handed /\ \A d \in Calls \ {c} : client'[d] = client[d]
    BY <1>1, TabBegins, Beginning
  <2>2. lost' \subseteq lost \cup {c}
    BY <1>1 DEF ServeRefresh, ServeLate, LogIn, SignOut
  <2>3. \A a \in Tabs : /\ refresh'[a].call \in {refresh[a].call, c}
                        /\ form'[a] \in {form[a], c}
    BY <1>1 DEF ServeRefresh, ServeLate, LogIn, SignOut, Accepted
  <2> QED
    BY <1>0, <2>1, <2>2, <2>3
<1>2. ASSUME NEW b \in Tabs,
             \/ SendRefresh(b) \/ RefreshAnswered(b) \/ RefreshRefused(b) \/ RefreshLost(b)
             \/ Reload(b) \/ FormAnswered(b) \/ FormFails(b) \/ SignOutRefused(b)
      PROVE  Taken \subseteq Taken'
  <2>1. client' = client
    BY <1>2 DEF SendRefresh, RefreshAnswered, RefreshRefused, RefreshLost, Reload, FormAnswered,
       FormFails, SignOutRefused, browser
  <2>2. lost' \subseteq lost \cup {refresh[b].call, form[b]}
    BY <1>2 DEF SendRefresh, RefreshAnswered, RefreshRefused, RefreshLost, Reload, FormAnswered,
       FormFails, SignOutRefused, browser, GiveUp
  <2>3. \A a \in Tabs : refresh'[a].call \in {refresh[a].call, None}
    BY <1>2 DEF SendRefresh, RefreshAnswered, RefreshRefused, RefreshLost, Reload, FormAnswered,
       FormFails, SignOutRefused, NoFetch, Sent
  <2>4. \A a \in Tabs : form'[a] \in {form[a], None}
    BY <1>2 DEF SendRefresh, RefreshAnswered, RefreshRefused, RefreshLost, Reload, FormAnswered,
       FormFails, SignOutRefused, browser
  <2> QED
    BY <1>0, <2>1, <2>2, <2>3, <2>4, SessionsAssumption
<1>3. ASSUME NEW c \in Calls, OtherBegins(c) \/ Proceeds(c)
      PROVE  Taken \subseteq Taken'
  BY <1>0, <1>3 DEF OtherBegins, Proceeds, browser
<1> QED
  BY <1>1, <1>2, <1>3 DEF WebNext, TabNext

(* Calls that are not made belong to nobody.                               *)
LEMMA CallsInvStep ==
    ASSUME SessionsInv, WebInv, WebNext
    PROVE  CallsInv'
<1> USE DEF CallsInv
<1>1. \A c \in Calls : op[c] = "reuse" => arg'[c] \in revoked' /\ op'[c] = "reuse"
  BY WebStep, Lasting DEF WebInv
<1>2. ASSUME NEW c \in Calls, Begins(c), op'[c] = "reuse" PROVE arg'[c] \in revoked'
  <2>1. RefreshLookup(c)
    BY <1>2 DEF Begins, CreateSession, Logout, RevokeSession, LogoutAll, SessionsInv, TypeOK
  <2> QED
    BY <1>2, <2>1 DEF RefreshLookup, SessionsInv, TypeOK, tables
<1>3. ASSUME NEW b \in Tabs, NEW c \in Calls,
             ServeRefresh(b, c) \/ ServeLate(b, c) \/ LogIn(b, c) \/ SignOut(b, c)
      PROVE  CallsInv'
  <2>1. Begins(c) /\ \A d \in Calls \ {c} : client'[d] = client[d]
    BY <1>3, TabBegins DEF WebInv
  <2>2. lost' \subseteq lost \cup {c}
    BY <1>3 DEF ServeRefresh, ServeLate, LogIn, SignOut
  <2>3. op'[c] # "none" /\ \A d \in Calls \ {c} : op'[d] = op[d]
    BY <2>1, Beginning DEF Revocations
  <2> QED
    BY <1>1, <1>2, <2>1, <2>2, <2>3 DEF WebInv
<1>4. ASSUME NEW b \in Tabs,
             \/ SendRefresh(b) \/ RefreshAnswered(b) \/ RefreshRefused(b) \/ RefreshLost(b)
             \/ Reload(b) \/ FormAnswered(b) \/ FormFails(b) \/ SignOutRefused(b)
      PROVE  CallsInv'
  <2>1. client' = client /\ vars' = vars
    BY <1>4 DEF SendRefresh, RefreshAnswered, RefreshRefused, RefreshLost, Reload, FormAnswered,
       FormFails, SignOutRefused, browser
  <2>2. lost' \subseteq lost \cup {refresh[b].call, form[b]}
    BY <1>4 DEF SendRefresh, RefreshAnswered, RefreshRefused, RefreshLost, Reload, FormAnswered,
       FormFails, SignOutRefused, browser, GiveUp
  <2>3. /\ refresh[b].call \in Calls => op[refresh[b].call] # "none"
        /\ form[b] \in Calls => op[form[b]] # "none"
    BY SessionsAssumption DEF WebInv, WebTypeOK, FetchInv, NoFetch
  <2> QED
    BY <2>1, <2>2, <2>3 DEF WebInv, vars
<1>5. ASSUME NEW c \in Calls, OtherBegins(c) \/ Proceeds(c)
      PROVE  CallsInv'
  <2>1. client' = client /\ lost' = lost
    BY <1>5 DEF OtherBegins, Proceeds, browser
  <2>2. CASE OtherBegins(c)
    <3>1. Begins(c)
      BY <2>2 DEF OtherBegins, Begins
    <3> QED
      BY <1>1, <1>2, <2>1, <3>1, Beginning DEF WebInv, Revocations
  <2>3. CASE Proceeds(c)
    BY <1>1, <2>1, <2>3, Proceeding DEF WebInv, Proceeds
  <2> QED
    BY <1>5, <2>2, <2>3
<1> QED
  BY <1>3, <1>4, <1>5 DEF WebNext, TabNext

(* What a tab waits for stays a call of its own.                           *)
LEMMA FetchStep ==
    ASSUME SessionsInv, WebInv, WebNext, NEW a \in Tabs
    PROVE  FetchInv(a)'
<1>0. FetchInv(a) /\ WebTypeOK
  BY DEF WebInv
<1>1. \A d \in Calls : op[d] # "none" => op'[d] = op[d] /\ arg'[d] = arg[d]
  BY WebStep, Lasting
<1> USE SessionsAssumption, WebAssumption DEF FetchInv, NoFetch
<1>2. ASSUME NEW b \in Tabs, NEW c \in Calls,
             ServeRefresh(b, c) \/ ServeLate(b, c) \/ LogIn(b, c) \/ SignOut(b, c)
      PROVE  FetchInv(a)'
  <2>1. /\ Begins(c) /\ client'[c] = b /\ \A d \in Calls \ {c} : client'[d] = client[d]
        /\ op[c] = "none"
    BY <1>0, <1>2, TabBegins, Beginning
  <2>2. c \notin lost /\ client[c] = None
    BY <2>1 DEF WebInv, CallsInv
  <2>3. CASE ServeRefresh(b, c)
    <3>1. op'[c] \in {"refresh", "reuse"} /\ arg'[c] = refresh[b].token
      BY <2>3 DEF ServeRefresh, RefreshLookup, SessionsInv, TypeOK
    <3>2. /\ refresh' = [refresh EXCEPT ![b] = Accepted(refresh[b].token, c)]
          /\ form' = form /\ lost' = lost
      BY <2>3 DEF ServeRefresh
    <3> QED
      BY <1>0, <1>1, <2>1, <2>2, <3>1, <3>2 DEF Accepted, WebTypeOK
  <2>4. CASE ServeLate(b, c)
    BY <1>0, <1>1, <2>1, <2>2, <2>4 DEF ServeLate
  <2>5. CASE LogIn(b, c)
    <3>1. op'[c] = "login"
      BY <2>5 DEF LogIn, CreateSession, SessionsInv, TypeOK
    <3> QED
      BY <1>0, <1>1, <2>1, <2>2, <2>5, <3>1 DEF LogIn, WebTypeOK
  <2>6. CASE SignOut(b, c)
    <3>1. op'[c] \in {"logout", "logoutAll"}
      BY <2>6 DEF SignOut, Logout, LogoutAll, SessionsInv, TypeOK
    <3> QED
      BY <1>0, <1>1, <2>1, <2>2, <2>6, <3>1 DEF SignOut, WebTypeOK
  <2> QED
    BY <1>2, <2>3, <2>4, <2>5, <2>6
<1>3. ASSUME NEW b \in Tabs,
             \/ SendRefresh(b) \/ RefreshAnswered(b) \/ RefreshRefused(b) \/ RefreshLost(b)
             \/ Reload(b) \/ FormAnswered(b) \/ FormFails(b) \/ SignOutRefused(b)
      PROVE  FetchInv(a)'
  <2>1. client' = client /\ op' = op /\ arg' = arg
    BY <1>3 DEF SendRefresh, RefreshAnswered, RefreshRefused, RefreshLost, Reload, FormAnswered,
       FormFails, SignOutRefused, browser, vars
  <2>2. FetchInv(b)
    BY DEF WebInv
  <2>3. CASE SendRefresh(b) \/ RefreshAnswered(b) \/ RefreshRefused(b) \/ SignOutRefused(b)
    BY <1>0, <2>1, <2>3 DEF SendRefresh, RefreshAnswered, RefreshRefused, SignOutRefused,
       browser, WebTypeOK, Sent
  <2>4. CASE RefreshLost(b)
    BY <1>0, <2>1, <2>2, <2>4 DEF RefreshLost, WebTypeOK, GiveUp
  <2>5. CASE Reload(b)
    BY <1>0, <2>1, <2>2, <2>5 DEF Reload, WebTypeOK, GiveUp, Sent
  <2>6. CASE FormAnswered(b) \/ FormFails(b)
    <3>1. /\ refresh' = refresh /\ form' = [form EXCEPT ![b] = None]
          /\ lost' \subseteq lost \cup {form[b]} /\ form[b] # None
      BY <2>6 DEF FormAnswered, FormFails
    <3>2. refresh[a].stage = "served" => refresh[a].call # form[b]
      BY <1>0, <2>2, <3>1
    <3>3. a # b /\ form[a] # None => form[a] # form[b]
      BY <1>0, <2>2, <3>1
    <3> QED
      BY <1>0, <2>1, <3>1, <3>2, <3>3 DEF WebTypeOK
  <2> QED
    BY <1>3, <2>3, <2>4, <2>5, <2>6
<1>4. ASSUME NEW c \in Calls, OtherBegins(c) \/ Proceeds(c)
      PROVE  FetchInv(a)'
  BY <1>0, <1>1, <1>4 DEF OtherBegins, Proceeds, browser
<1> QED
  BY <1>2, <1>3, <1>4 DEF WebNext, TabNext

(* Tabs hold and present only what they took.                              *)
LEMMA HeldStep ==
    ASSUME SessionsInv, WebInv, WebNext
    PROVE  HeldInv'
<1>0. Taken \subseteq Taken' /\ Taken \subseteq Calls /\ Handed \subseteq Calls
  BY TakenGrows DEF Taken, Handed
<1>1. \A d \in Calls : op[d] # "none" => op'[d] = op[d] /\ arg'[d] = arg[d]
  BY WebStep, Lasting
<1>2. \A d \in Calls : op[d] \in {"refresh", "reuse"} => arg[d] \in Handed /\ op[arg[d]] # "none"
  BY DEF SessionsInv, CallInv, Handed
<1>3. WebTypeOK /\ HeldInv /\ \A b \in Tabs : FetchInv(b)
  BY DEF WebInv
<1> USE SessionsAssumption, WebAssumption
<1>4. ASSUME NEW b \in Tabs, NEW c \in Calls,
             ServeRefresh(b, c) \/ ServeLate(b, c) \/ LogIn(b, c) \/ SignOut(b, c)
      PROVE  HeldInv'
  <2>1. /\ Begins(c) /\ client'[c] = b /\ \A d \in Calls \ {c} : client'[d] = client[d]
        /\ UNCHANGED <<cookie, access>>
        /\ op[c] = "none"
    BY <1>3, <1>4, TabBegins, Beginning
  <2>2. \A a \in Tabs : /\ refresh'[a].token = refresh[a].token
                        /\ late'[a] \in {late[a], None}
    BY <1>3, <1>4 DEF ServeRefresh, ServeLate, LogIn, SignOut, Accepted, WebTypeOK
  <2>3. op'[c] \in {"refresh", "reuse"} => arg'[c] \in Taken
    <3>1. CASE ServeRefresh(b, c)
      <4>1. arg'[c] = refresh[b].token /\ arg'[c] \in Handed
        BY <3>1 DEF ServeRefresh, RefreshLookup, SessionsInv, TypeOK
      <4> QED
        BY <1>0, <1>3, <4>1 DEF HeldInv
    <3>2. CASE ServeLate(b, c)
      <4>1. arg'[c] = late[b] /\ arg'[c] \in Handed
        BY <3>2 DEF ServeLate, RefreshLookup, SessionsInv, TypeOK
      <4> QED
        BY <1>0, <1>3, <4>1 DEF HeldInv
    <3>3. CASE LogIn(b, c)
      BY <3>3 DEF LogIn, CreateSession, SessionsInv, TypeOK
    <3>4. CASE SignOut(b, c)
      BY <3>4 DEF SignOut, Logout, LogoutAll, SessionsInv, TypeOK
    <3> QED
      BY <1>4, <3>1, <3>2, <3>3, <3>4
  <2>4. \A d \in Calls \ {c} : op'[d] = op[d] /\ arg'[d] = arg[d]
    BY <2>1, Beginning
  <2>5. ASSUME NEW d \in Calls, op'[d] \in {"refresh", "reuse"}
        PROVE  IF client'[d] = None THEN client'[arg'[d]] = None ELSE arg'[d] \in Taken'
    <3>1. CASE d = c
      BY <1>0, <2>1, <2>3, <2>5, <3>1
    <3>2. CASE d # c
      <4>1. op[d] \in {"refresh", "reuse"} /\ arg'[d] = arg[d] /\ client'[d] = client[d]
        BY <2>1, <2>4, <2>5, <3>2
      <4>2. arg[d] # c /\ arg[d] \in Calls
        BY <1>0, <1>2, <2>1, <4>1
      <4> QED
        BY <1>0, <1>3, <2>1, <4>1, <4>2 DEF HeldInv
    <3> QED
      BY <3>1, <3>2
  <2> QED
    BY <1>0, <1>3, <2>1, <2>2, <2>5 DEF HeldInv
<1>5. ASSUME NEW b \in Tabs,
             \/ SendRefresh(b) \/ RefreshAnswered(b) \/ RefreshRefused(b) \/ RefreshLost(b)
             \/ Reload(b) \/ FormAnswered(b) \/ FormFails(b) \/ SignOutRefused(b)
      PROVE  HeldInv'
  <2>1. client' = client /\ op' = op /\ arg' = arg
    BY <1>5 DEF SendRefresh, RefreshAnswered, RefreshRefused, RefreshLost, Reload, FormAnswered,
       FormFails, SignOutRefused, browser, vars
  <2>2. /\ cookie' # None => cookie' \in Taken'
        /\ \A a \in Tabs : access'[a] # None => access'[a] \in Taken'
    <3>1. CASE RefreshAnswered(b)
      <4> DEFINE c == refresh[b].call
      <4>1. /\ c \in Calls \ lost /\ client[c] = b /\ op[c] = "refresh" /\ pc[c] = "done"
            /\ \A a \in Tabs \ {b} : refresh[a].call # c
            /\ \A a \in Tabs : form[a] # c
        BY <1>3, <3>1 DEF RefreshAnswered, Served, FetchInv, NoFetch, WebTypeOK
      <4>2. c \in Taken'
        BY <1>3, <3>1, <4>1 DEF RefreshAnswered, Taken, Handed, WebTypeOK, NoFetch, vars
      <4> QED
        BY <1>0, <1>3, <3>1, <4>2 DEF RefreshAnswered, HeldInv, WebTypeOK
    <3>2. CASE FormAnswered(b)
      <4> DEFINE c == form[b]
      <4>1. ASSUME op[c] = "login"
            PROVE  /\ c \in Calls \ lost /\ client[c] = b /\ pc[c] = "done"
                   /\ \A a \in Tabs : refresh[a].call # c
                   /\ \A a \in Tabs \ {b} : form[a] # c
        BY <1>3, <3>2, <4>1 DEF FormAnswered, FetchInv, NoFetch, WebTypeOK
      <4>2. op[c] = "login" => c \in Taken'
        BY <1>3, <3>2, <4>1 DEF FormAnswered, Taken, Handed, WebTypeOK, vars
      <4> QED
        BY <1>0, <1>3, <3>2, <4>2 DEF FormAnswered, HeldInv, WebTypeOK
    <3>3. CASE ~RefreshAnswered(b) /\ ~FormAnswered(b)
      <4>1. cookie' = cookie /\ \A a \in Tabs : access'[a] \in {access[a], None}
        BY <1>3, <1>5, <3>3 DEF SendRefresh, RefreshRefused, RefreshLost, Reload, FormFails,
           SignOutRefused, browser, WebTypeOK
      <4> QED
        BY <1>0, <1>3, <4>1 DEF HeldInv
    <3> QED
      BY <3>1, <3>2, <3>3
  <2>3. \A a \in Tabs : /\ refresh'[a].token \in {refresh[a].token, cookie, None}
                        /\ late'[a] \in {late[a], refresh[a].token}
    BY <1>3, <1>5 DEF SendRefresh, RefreshAnswered, RefreshRefused, RefreshLost, Reload,
       FormAnswered, FormFails, SignOutRefused, browser, WebTypeOK, GiveUp, NoFetch, Sent
  <2> QED
    BY <1>0, <1>3, <2>1, <2>2, <2>3 DEF HeldInv
<1>6. ASSUME NEW c \in Calls, OtherBegins(c) PROVE HeldInv'
  <2>1. Begins(c) /\ UNCHANGED <<cookie, access, refresh, form, late, client, lost>>
    BY <1>6 DEF OtherBegins, Begins, browser
  <2>2. op[c] = "none" /\ \A d \in Calls \ {c} : op'[d] = op[d] /\ arg'[d] = arg[d]
    BY <2>1, Beginning
  <2>3. client[c] = None
    BY <2>2 DEF WebInv, CallsInv
  <2>4. op'[c] \in {"refresh", "reuse"} => client[arg'[c]] = None
    BY <1>6 DEF OtherBegins, CreateSession, Logout, RevokeSession, LogoutAll, SessionsInv, TypeOK
  <2> QED
    BY <1>0, <1>3, <2>1, <2>2, <2>3, <2>4 DEF HeldInv
<1>7. ASSUME NEW c \in Calls, Proceeds(c) PROVE HeldInv'
  <2>1. op' = op /\ arg' = arg
    BY <1>7, Proceeding DEF Proceeds
  <2> QED
    BY <1>0, <1>3, <1>7, <2>1 DEF HeldInv, Proceeds, browser
<1> QED
  BY <1>4, <1>5, <1>6, <1>7 DEF WebNext, TabNext

(* A token that a tab spent does not come back to its cookie, and the tab  *)
(* does not present it again.                                              *)
LEMMA SpendStep ==
    ASSUME SessionsInv, WebInv, WebNext
    PROVE  SpendInv'
<1>0. /\ \A d \in Calls : op[d] # "none" => op'[d] = op[d] /\ arg'[d] = arg[d]
      /\ \A d \in Calls : pc[d] = "failed" => pc'[d] = "failed"
  BY WebStep, Lasting
<1>1. WebTypeOK /\ HeldInv /\ SpendInv /\ CallsInv /\ \A b \in Tabs : FetchInv(b)
  BY DEF WebInv
<1>2. Taken \subseteq Calls
  BY DEF Taken, Handed
<1>3. \A d \in Calls : op[d] \in {"refresh", "reuse"} /\ client[d] # None => arg[d] \in Taken
  BY <1>1 DEF HeldInv
<1> USE SessionsAssumption, WebAssumption
<1>4. ASSUME NEW b \in Tabs, NEW c \in Calls,
             ServeRefresh(b, c) \/ ServeLate(b, c) \/ LogIn(b, c) \/ SignOut(b, c)
      PROVE  SpendInv'
  <2>1. /\ Begins(c) /\ client'[c] = b /\ \A d \in Calls \ {c} : client'[d] = client[d]
        /\ UNCHANGED <<cookie, access>>
        /\ op[c] = "none"
        /\ \A d \in Calls \ {c} : op'[d] = op[d] /\ arg'[d] = arg[d] /\ pc'[d] = pc[d]
    BY <1>1, <1>4, TabBegins, Beginning
  <2>2. CASE ServeRefresh(b, c)
    <3>1. /\ arg'[c] = refresh[b].token
          /\ refresh[b].stage = "sent"
          /\ refresh' = [refresh EXCEPT ![b] = Accepted(refresh[b].token, c)]
          /\ lost' = lost
          /\ op'[c] = "refresh" => arg'[c] \notin revoked
      BY <2>2 DEF ServeRefresh, RefreshLookup, SessionsInv, TypeOK
    <3>2. /\ \A a \in Tabs : refresh'[a].token = refresh[a].token
          /\ \A a \in Tabs \ {b} : refresh'[a].call = refresh[a].call
          /\ refresh'[b].call = c
          /\ refresh[b].call = None
      BY <1>1, <3>1 DEF Accepted, WebTypeOK, FetchInv
    <3>3. ASSUME NEW d \in Calls, d # c, Spends(d)'
          PROVE  /\ \/ refresh'[client'[d]].call = d
                    \/ arg'[d] # cookie' /\ arg'[d] # refresh'[client'[d]].token
                 /\ \A e \in Calls \ (lost' \cup {d}) :
                       op'[e] = "reuse" /\ client'[e] = client'[d] => arg'[e] # arg'[d]
      <4>1. Spends(d) /\ client[d] \in Tabs
        BY <1>1, <2>1, <3>1, <3>3 DEF Spends, WebTypeOK
      <4>2. \/ refresh[client[d]].call = d
            \/ arg[d] # cookie /\ arg[d] # refresh[client[d]].token
        BY <1>1, <4>1 DEF SpendInv
      <4>3. \A e \in Calls \ (lost \cup {d}) :
               op[e] = "reuse" /\ client[e] = client[d] => arg[e] # arg[d]
        BY <1>1, <4>1 DEF SpendInv
      <4>4. client[d] = b => arg[d] # refresh[b].token
        BY <3>2, <4>2
      <4>5. client'[d] = client[d] /\ arg'[d] = arg[d]
        BY <2>1, <3>3
      <4>6. ASSUME NEW e \in Calls \ (lost' \cup {d}), op'[e] = "reuse",
                   client'[e] = client'[d]
            PROVE  arg'[e] # arg'[d]
        BY <2>1, <3>1, <4>3, <4>4, <4>5, <4>6
      <4> QED
        BY <2>1, <3>2, <4>1, <4>2, <4>5, <4>6
    <3>4. ASSUME NEW e \in Calls \ (lost' \cup {c}), op'[c] = "refresh", op'[e] = "reuse"
          PROVE  arg'[e] # arg'[c]
      BY <1>1, <2>1, <3>1, <3>4 DEF CallsInv
    <3> QED
      BY <2>1, <3>2, <3>3, <3>4 DEF SpendInv, Spends
  <2>3. CASE ServeLate(b, c)
    <3>1. refresh' = refresh /\ lost' = lost \cup {c}
      BY <2>3 DEF ServeLate
    <3>2. \A d \in Calls : Spends(d)' => d # c /\ Spends(d)
      BY <2>1, <3>1 DEF Spends
    <3> QED
      BY <1>1, <2>1, <3>1, <3>2 DEF SpendInv
  <2>4. CASE LogIn(b, c) \/ SignOut(b, c)
    <3>1. op'[c] \notin {"refresh", "reuse"} /\ refresh' = refresh /\ lost' = lost
      BY <2>4 DEF LogIn, SignOut, CreateSession, Logout, LogoutAll, SessionsInv, TypeOK
    <3> QED
      BY <1>1, <2>1, <3>1 DEF SpendInv, Spends, WebTypeOK
  <2> QED
    BY <1>4, <2>2, <2>3, <2>4
<1>5. ASSUME NEW b \in Tabs,
             \/ SendRefresh(b) \/ RefreshAnswered(b) \/ RefreshRefused(b) \/ RefreshLost(b)
             \/ Reload(b) \/ FormAnswered(b) \/ FormFails(b) \/ SignOutRefused(b)
      PROVE  SpendInv'
  <2>1. client' = client /\ op' = op /\ arg' = arg /\ pc' = pc /\ lost \subseteq lost'
    BY <1>5 DEF SendRefresh, RefreshAnswered, RefreshRefused, RefreshLost, Reload, FormAnswered,
       FormFails, SignOutRefused, browser, vars, GiveUp
  <2> SUFFICES ASSUME NEW d \in Calls, Spends(d), d \notin lost'
               PROVE  \/ refresh'[client[d]].call = d
                      \/ arg[d] # cookie' /\ arg[d] # refresh'[client[d]].token
    BY <1>1, <2>1 DEF SpendInv, Spends
  <2>2. client[d] \in Tabs /\ arg[d] \in Taken /\ arg[d] # None /\ op[d] = "refresh"
    BY <1>1, <1>2, <1>3 DEF Spends, WebTypeOK
  <2>3. \/ refresh[client[d]].call = d
        \/ arg[d] # cookie /\ arg[d] # refresh[client[d]].token
    BY <1>1 DEF SpendInv
  <2>4. cookie' # cookie => cookie' = None \/ cookie' \notin Taken
    BY <1>5 DEF SendRefresh, RefreshAnswered, RefreshRefused, RefreshLost, Reload, FormAnswered,
       FormFails, SignOutRefused, browser, Taken
  <2>5. CASE refresh'[client[d]] = refresh[client[d]]
    BY <2>2, <2>3, <2>4, <2>5
  <2>6. CASE refresh'[client[d]] # refresh[client[d]]
    <3>1. client[d] = b
      BY <1>1, <1>5, <2>2, <2>6 DEF SendRefresh, RefreshAnswered, RefreshRefused, RefreshLost,
         Reload, FormAnswered, FormFails, SignOutRefused, browser, WebTypeOK
    <3>0. FetchInv(b) /\ d # None /\ refresh \in [Tabs -> [stage : {"none", "sent", "served"},
                                                       token : Ids, call : Ids]]
      BY <1>1 DEF WebTypeOK
    <3>2. CASE SendRefresh(b)
      BY <2>2, <2>3, <3>0, <3>1, <3>2 DEF SendRefresh, Sent, NoFetch, browser
    <3>5. CASE RefreshAnswered(b)
      <4>1. refresh'[b] = NoFetch /\ cookie' = refresh[b].call
        BY <3>0, <3>5 DEF RefreshAnswered
      <4>2. arg[d] # refresh[b].call
        BY <2>2 DEF Taken
      <4> QED
        BY <2>2, <3>1, <4>1, <4>2 DEF NoFetch
    <3>6. CASE RefreshRefused(b)
      <4>1. refresh'[b] = NoFetch /\ cookie' = cookie
        BY <3>0, <3>6 DEF RefreshRefused
      <4>2. refresh[b].call # d
        BY <2>2, <3>0, <3>6 DEF RefreshRefused, Served, FetchInv, Spends
      <4> QED
        BY <2>2, <2>3, <3>1, <4>1, <4>2 DEF NoFetch
    <3>3. CASE RefreshLost(b) \/ Reload(b)
      <4>1. refresh[b].call # d
        BY <1>2, <2>2, <3>3 DEF RefreshLost, Reload, GiveUp
      <4> QED
        BY <1>1, <2>2, <2>3, <3>1, <3>3, <4>1 DEF RefreshLost, Reload, Sent, NoFetch, WebTypeOK
    <3>4. CASE FormAnswered(b) \/ FormFails(b) \/ SignOutRefused(b)
      BY <2>6, <3>4 DEF FormAnswered, FormFails, SignOutRefused
    <3> QED
      BY <1>5, <3>2, <3>3, <3>4, <3>5, <3>6
  <2> QED
    BY <2>5, <2>6
<1>6. ASSUME NEW c \in Calls, OtherBegins(c) PROVE SpendInv'
  <2>1. Begins(c) /\ UNCHANGED <<cookie, access, refresh, form, late, client, lost>>
    BY <1>6 DEF OtherBegins, Begins, browser
  <2>2. /\ op[c] = "none"
        /\ \A d \in Calls \ {c} : op'[d] = op[d] /\ arg'[d] = arg[d] /\ pc'[d] = pc[d]
    BY <2>1, Beginning
  <2>3. client[c] = None
    BY <2>2 DEF WebInv, CallsInv
  <2> QED
    BY <1>1, <2>1, <2>2, <2>3 DEF SpendInv, Spends
<1>7. ASSUME NEW c \in Calls, Proceeds(c) PROVE SpendInv'
  <2>1. op' = op /\ arg' = arg
    BY <1>7, Proceeding DEF Proceeds
  <2> QED
    BY <1>0, <1>1, <1>7, <2>1 DEF SpendInv, Spends, Proceeds, browser
<1> QED
  BY <1>4, <1>5, <1>6, <1>7 DEF WebNext, TabNext

(* Every step of the browser keeps its invariant.                          *)
LEMMA WebInductive == SessionsInv /\ WebInv /\ [WebNext]_webVars => WebInv'
<1> SUFFICES ASSUME SessionsInv, WebInv, [WebNext]_webVars PROVE WebInv'
  OBVIOUS
<1>1. CASE WebNext
  <2>1. WebTypeOK' /\ HeldInv' /\ SpendInv' /\ CallsInv'
    BY <1>1, WebTypeStep, HeldStep, SpendStep, CallsInvStep
  <2>2. \A b \in Tabs : FetchInv(b)'
    BY <1>1, FetchStep
  <2> QED
    BY <2>1, <2>2 DEF WebInv
<1>2. CASE UNCHANGED webVars
  BY <1>2 DEF webVars, vars, WebInv, WebTypeOK, HeldInv, SpendInv, Spends, CallsInv, FetchInv,
     Taken, Handed
<1> QED
  BY <1>1, <1>2

(* Tabs hold what they took, wait for calls of their own, and spend a      *)
(* token once, with any number of tabs and calls.                          *)
THEOREM BrowserInvariant == WebSpec => []BrowserInv
<1>1. WebSpec => []SessionsInv
  BY WebImplementsSessions, SessionsInvariant
<1>2. WebSpec => WebInit /\ [][WebNext]_webVars
  BY DEF WebSpec
<1>3. SessionsInv /\ WebInv => BrowserInv
  BY DEF BrowserInv
<1> QED
  BY <1>1, <1>2, <1>3, WebInitInv, WebInductive, PTL

(* A tab whose requests are answered is never taken for a reuse by what it *)
(* did itself.                                                             *)
THEOREM TabsDoNotReuse == WebSpec => []NoTabReusesItsToken
<1>1. BrowserInv => NoTabReusesItsToken
  <2> SUFFICES ASSUME SessionsInv, WebInv, NEW c \in Calls \ lost, op[c] = "reuse",
                      client[c] # None
               PROVE  \E d \in Calls \ {c} : \/ SpentOtherwise(d, arg[c])
                                             \/ Ends(d, arg[c]) /\ client[d] # client[c]
    BY DEF BrowserInv, NoTabReusesItsToken
  <2>1. PICK d \in Calls \ {c} : Ends(d, arg[c])
    BY DEF SessionsInv, ReuseHasCause
  <2>2. CASE op[d] # "refresh"
    BY <2>1, <2>2 DEF SpentOtherwise
  <2>3. CASE op[d] = "refresh" /\ client[d] = client[c]
    <3>1. arg[d] = arg[c]
      BY <2>1, <2>3 DEF Ends
    <3>2. ~Spends(d)
      BY <2>3, <3>1 DEF WebInv, SpendInv
    <3> QED
      BY <2>1, <2>3, <3>2 DEF Spends, SpentOtherwise
  <2> QED
    BY <2>1, <2>2, <2>3
<1> QED
  BY <1>1, BrowserInvariant, PTL

(* The cookie of the browser is one that a refresh accepts, but for the    *)
(* causes named.                                                           *)
THEOREM CookiesAreGood == WebSpec => []CookieIsGood
<1>1. BrowserInv => CookieIsGood
  <2> SUFFICES ASSUME SessionsInv, WebInv, cookie \in revoked
               PROVE  \E d \in Calls : \/ SpentOtherwise(d, cookie)
                                       \/ Ends(d, cookie) /\ \E b \in Tabs : refresh[b].call = d
    BY DEF BrowserInv, CookieIsGood
  <2>1. PICK d \in Calls : Ends(d, cookie)
    BY DEF SessionsInv, RevokedHasCause
  <2>2. CASE op[d] # "refresh"
    BY <2>1, <2>2 DEF SpentOtherwise
  <2>3. CASE op[d] = "refresh"
    <3>1. arg[d] = cookie /\ cookie \in Taken
      BY <2>1, <2>3, SessionsAssumption DEF Ends, WebInv, HeldInv, SessionsInv, TypeOK
    <3>2. client[d] \in Tabs
      BY <2>3, <3>1, WebAssumption DEF WebInv, HeldInv, WebTypeOK, Taken
    <3>3. Spends(d) => refresh[client[d]].call = d
      BY <3>1 DEF WebInv, SpendInv
    <3> QED
      BY <2>1, <2>3, <3>2, <3>3, WebAssumption DEF Spends, SpentOtherwise
  <2> QED
    BY <2>2, <2>3
<1> QED
  BY <1>1, BrowserInvariant, PTL
=============================================================================
