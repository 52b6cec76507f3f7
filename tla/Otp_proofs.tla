------------------------------ MODULE Otp_proofs ------------------------------
(* Proofs for Otp and for Accounts, which adds who has an account to log in *)
(* to, for any number of calls and any limits.                             *)
EXTENDS Accounts, FiniteSetTheorems, TLAPS

(* At the start every call is ready, and no key exists.                    *)
LEMMA TypeInit == OtpAssumption /\ OtpInit => OtpTypeOK
<1>. SUFFICES ASSUME OtpAssumption, OtpInit PROVE OtpTypeOK
  OBVIOUS
<1>1. \A v \in Verifies : at[v] = "ready"
  BY DEF OtpInit, Calls
<1>. QED BY <1>1 DEF OtpInit, OtpTypeOK, Calls, Accepted, OtpAssumption

(* INCR of a counter gives a counter.                                      *)
LEMMA CountTyped ==
    ASSUME NEW f \in [Requests -> Nat], NEW code \in Requests
    PROVE  Count(f, code) \in [Requests -> Nat]
BY DEF Count

(* Type correctness is inductive; a call that accepts a code was given one, *)
(* because Get compares it with a code that is stored.                     *)
LEMMA TypeNext == OtpAssumption /\ OtpTypeOK /\ [OtpNext]_otpVars => OtpTypeOK'
<1>. SUFFICES ASSUME OtpAssumption, OtpTypeOK, [OtpNext]_otpVars PROVE OtpTypeOK'
  OBVIOUS
<1>. USE DEF OtpTypeOK, OtpAssumption, Calls, Goto, Counted, Deleting, Accepted,
             keyVars, windowVars, mailVars, historyVars
<1>1. ASSUME NEW r \in Requests, RequestStep(r) PROVE OtpTypeOK'
  <2>. r \notin Verifies
    OBVIOUS
  <2>1. CASE Hit(r)
    BY <2>1 DEF Hit
  <2>2. CASE ExpireWindow(r)
    BY <2>2 DEF ExpireWindow
  <2>3. CASE SetCode(r)
    BY <2>3 DEF SetCode
  <2>4. CASE ClearForCode(r)
    BY <2>4 DEF ClearForCode, DelAttempts
  <2>5. CASE PublishCode(r) \/ AskedForNobody(r)
    BY <2>5 DEF PublishCode, AskedForNobody
  <2>. QED BY <1>1, <2>1, <2>2, <2>3, <2>4, <2>5 DEF RequestStep
<1>2. ASSUME NEW v \in Verifies, VerifyStep(v) PROVE OtpTypeOK'
  <2>1. CASE Incr(v)
    <3>1. tried' \in [Requests -> Nat]
      BY <2>1, CountTyped DEF Incr
    <3>2. at' \in [Calls -> {"ready", "expireWindow", "set", "clear", "publish", "issue",
                    "done", "refused", "failed"} \cup Counted \cup Deleting]
      BY <2>1 DEF Incr
    <3>3. PICK code \in mailed \cup {None} : presented' = [presented EXCEPT ![v] = code]
      BY <2>1 DEF Incr
    <3>4. \A w \in Verifies \ {v} : presented'[w] = presented[w] /\ at'[w] = at[w]
      BY <2>1, <3>3 DEF Incr
    <3>5. at'[v] \notin Accepted \cup {"done"}
      BY <2>1 DEF Incr
    <3>6. attempts' \in Nat /\ overlapped' \subseteq Requests
      BY <2>1 DEF Incr
    <3>. QED BY <2>1, <3>1, <3>2, <3>3, <3>4, <3>5, <3>6 DEF Incr
  <2>2. CASE ExpireAttempts(v)
    BY <2>2 DEF ExpireAttempts
  <2>9. CASE TriedForNobody(v)
    BY <2>9 DEF TriedForNobody
  <2>3. CASE DelOver(v)
    BY <2>3 DEF DelOver
  <2>4. CASE ClearOver(v)
    BY <2>4 DEF ClearOver, DelAttempts
  <2>5. CASE Get(v)
    <3>1. compared' \in [Requests -> Nat] /\ raced' \subseteq Requests
      BY <2>5, CountTyped DEF Get
    <3>2. at'[v] \in Accepted => presented[v] \in Requests
      BY <2>5 DEF Get
    <3>3. at'[v] # "done"
      BY <2>5 DEF Get
    <3>4. at' = [at EXCEPT ![v] = at'[v]] /\ at'[v] \in {"del", "refused"}
      BY <2>5 DEF Get
    <3>. QED BY <2>5, <3>1, <3>2, <3>3, <3>4 DEF Get
  <2>6. CASE DelCode(v)
    BY <2>6 DEF DelCode
  <2>7. CASE ClearAttempts(v)
    BY <2>7 DEF ClearAttempts, DelAttempts
  <2>8. CASE Issue(v)
    <3>1. presented[v] \in Requests
      BY <2>8 DEF Issue
    <3>. QED BY <2>8, <3>1, CountTyped DEF Issue
  <2>. QED BY <1>2, <2>1, <2>2, <2>3, <2>4, <2>5, <2>6, <2>7, <2>8, <2>9
       DEF VerifyStep
<1>3. ASSUME NEW c \in Calls, Fails(c) PROVE OtpTypeOK'
  <2>1. overlapped' \subseteq Requests /\ unexpiring' \subseteq {"attempts", "window"}
    BY <1>3 DEF Fails
  <2>2. at' \in [Calls -> {"ready", "expireWindow", "set", "clear", "publish", "issue",
                  "done", "refused", "failed"} \cup Counted \cup Deleting]
    BY <1>3 DEF Fails
  <2>3. \A v \in Verifies : at'[v] = at[v] \/ at'[v] = "failed"
    BY <1>3 DEF Fails
  <2>. QED BY <1>3, <2>1, <2>2, <2>3 DEF Fails
<1>4. CASE CodeExpires
  BY <1>4 DEF CodeExpires
<1>5. CASE WindowEnds
  BY <1>5 DEF WindowEnds
<1>6. CASE AttemptsExpire
  BY <1>6 DEF AttemptsExpire
<1>7. CASE UNCHANGED otpVars
  BY <1>7 DEF otpVars
<1>. QED BY <1>1, <1>2, <1>3, <1>4, <1>5, <1>6, <1>7 DEF OtpNext

(* Type correctness of Otp: a login that a code gave was given a code.     *)
THEOREM OtpTyped == OtpSpec => []OtpTypeOK
<1>1. OtpInit => OtpTypeOK
  BY OtpAssumption, TypeInit
<1>2. OtpTypeOK /\ [OtpNext]_otpVars => OtpTypeOK'
  BY OtpAssumption, TypeNext
<1>. QED BY <1>1, <1>2, PTL DEF OtpSpec

-----------------------------------------------------------------------------
(* A code is stored once, mailed after, and presented after that.          *)
LEMMA OrderNext ==
    OtpAssumption /\ OtpTypeOK /\ CodesInOrder /\ [OtpNext]_otpVars => CodesInOrder'
<1>. SUFFICES ASSUME OtpAssumption, OtpTypeOK, CodesInOrder, [OtpNext]_otpVars
              PROVE  CodesInOrder'
  OBVIOUS
<1>. USE DEF OtpTypeOK, OtpAssumption, Calls, Goto, CodesInOrder, Unstored,
             keyVars, windowVars, mailVars, historyVars
<1>1. ASSUME NEW r \in Requests, RequestStep(r) PROVE CodesInOrder'
  <2>. r \notin Verifies
    OBVIOUS
  <2>1. CASE Hit(r)
    BY <2>1 DEF Hit
  <2>2. CASE ExpireWindow(r)
    BY <2>2 DEF ExpireWindow
  <2>3. CASE SetCode(r)
    BY <2>3 DEF SetCode
  <2>4. CASE ClearForCode(r)
    BY <2>4 DEF ClearForCode, DelAttempts
  <2>5. CASE PublishCode(r) \/ AskedForNobody(r)
    BY <2>5 DEF PublishCode, AskedForNobody
  <2>. QED BY <1>1, <2>1, <2>2, <2>3, <2>4, <2>5 DEF RequestStep
<1>2. ASSUME NEW v \in Verifies, VerifyStep(v) PROVE CodesInOrder'
  <2>. v \notin Requests
    OBVIOUS
  <2>1. CASE Incr(v)
    BY <2>1 DEF Incr
  <2>2. CASE TriedForNobody(v) \/ ExpireAttempts(v) \/ DelOver(v) \/ ClearOver(v) \/ Get(v)
    BY <2>2 DEF TriedForNobody, ExpireAttempts, DelOver, ClearOver, DelAttempts, Get
  <2>3. CASE DelCode(v) \/ ClearAttempts(v)
    BY <2>3 DEF DelCode, ClearAttempts, DelAttempts
  <2>4. CASE Issue(v)
    BY <2>4 DEF Issue, Count, Accepted
  <2>. QED BY <1>2, <2>1, <2>2, <2>3, <2>4 DEF VerifyStep
<1>3. ASSUME NEW c \in Calls, Fails(c) PROVE CodesInOrder'
  BY <1>3 DEF Fails, Over
<1>4. CASE CodeExpires \/ AttemptsExpire \/ WindowEnds \/ UNCHANGED otpVars
  BY <1>4 DEF CodeExpires, AttemptsExpire, WindowEnds, otpVars
<1>. QED BY <1>1, <1>2, <1>3, <1>4 DEF OtpNext

-----------------------------------------------------------------------------
(* A code that is stored has not been accepted, and DEL comes before the   *)
(* session, so that whoever reads the code afterwards finds it gone.       *)
LEMMA OneAcceptsNext ==
    OtpAssumption /\ OtpTypeOK /\ CodesInOrder /\ OneAccepts /\ [OtpNext]_otpVars => OneAccepts'
<1>. SUFFICES ASSUME OtpAssumption, OtpTypeOK, CodesInOrder, OneAccepts, [OtpNext]_otpVars
              PROVE  OneAccepts'
  OBVIOUS
<1>. USE DEF OtpTypeOK, OtpAssumption, Calls, Goto, OneAccepts, Accepts, Accepted,
             keyVars, windowVars, mailVars, historyVars
<1>1. ASSUME NEW r \in Requests, RequestStep(r) PROVE OneAccepts'
  <2>. r \notin Verifies
    OBVIOUS
  <2>1. CASE Hit(r) \/ ExpireWindow(r) \/ AskedForNobody(r) \/ ClearForCode(r) \/ PublishCode(r)
    BY <2>1 DEF Hit, AskedForNobody, ExpireWindow, ClearForCode, DelAttempts, PublishCode
  <2>2. CASE SetCode(r)
    <3>1. r \notin mailed
      BY <2>2 DEF SetCode, CodesInOrder, Unstored
    <3>2. accepted[r] = 0 /\ \A v \in Verifies : presented[v] # r
      BY <3>1 DEF CodesInOrder
    <3>. QED BY <2>2, <3>2 DEF SetCode
  <2>. QED BY <1>1, <2>1, <2>2 DEF RequestStep
<1>2. ASSUME NEW v \in Verifies, VerifyStep(v) PROVE OneAccepts'
  <2>1. CASE Incr(v)
    BY <2>1 DEF Incr
  <2>2. CASE TriedForNobody(v) \/ ExpireAttempts(v) \/ DelOver(v) \/ ClearOver(v)
    BY <2>2 DEF TriedForNobody, ExpireAttempts, DelOver, ClearOver, DelAttempts
  <2>3. CASE Get(v)
    <3>1. CASE otp # None /\ presented[v] = otp
      <4>. DEFINE code == otp
      <4>1. ASSUME code \notin raced'
            PROVE  accepted[code] = 0 /\ \A w \in Verifies : ~Accepts(w, code)
        BY <2>3, <3>1, <4>1 DEF Get
      <4>. QED BY <2>3, <3>1, <4>1 DEF Get
    <3>2. CASE otp = None \/ presented[v] # otp
      BY <2>3, <3>2 DEF Get
    <3>. QED BY <3>1, <3>2
  <2>4. CASE DelCode(v)
    BY <2>4 DEF DelCode
  <2>5. CASE ClearAttempts(v)
    BY <2>5 DEF ClearAttempts, DelAttempts
  <2>6. CASE Issue(v)
    BY <2>6 DEF Issue, Count
  <2>. QED BY <1>2, <2>1, <2>2, <2>3, <2>4, <2>5, <2>6 DEF VerifyStep
<1>3. ASSUME NEW c \in Calls, Fails(c) PROVE OneAccepts'
  BY <1>3 DEF Fails, Over
<1>4. CASE CodeExpires \/ AttemptsExpire \/ WindowEnds \/ UNCHANGED otpVars
  BY <1>4 DEF CodeExpires, AttemptsExpire, WindowEnds, otpVars
<1>. QED BY <1>1, <1>2, <1>3, <1>4 DEF OtpNext

-----------------------------------------------------------------------------
(* The counters: whoever is the first to count has EXPIRE to do.           *)
LEMMA CountersNext ==
    OtpAssumption /\ OtpTypeOK /\ CountersExpire /\ [OtpNext]_otpVars => CountersExpire'
<1>. SUFFICES ASSUME OtpAssumption, OtpTypeOK, CountersExpire, [OtpNext]_otpVars
              PROVE  CountersExpire'
  OBVIOUS
<1>. USE DEF OtpTypeOK, OtpAssumption, Calls, Goto, CountersExpire,
             keyVars, windowVars, mailVars, historyVars
<1>1. ASSUME NEW r \in Requests, RequestStep(r) PROVE CountersExpire'
  <2>. r \notin Verifies
    OBVIOUS
  <2>1. CASE Hit(r)
    BY <2>1 DEF Hit
  <2>2. CASE ExpireWindow(r)
    BY <2>2 DEF ExpireWindow
  <2>3. CASE AskedForNobody(r) \/ SetCode(r) \/ PublishCode(r)
    BY <2>3 DEF AskedForNobody, SetCode, PublishCode
  <2>4. CASE ClearForCode(r)
    BY <2>4 DEF ClearForCode, DelAttempts
  <2>. QED BY <1>1, <2>1, <2>2, <2>3, <2>4 DEF RequestStep
<1>2. ASSUME NEW v \in Verifies, VerifyStep(v) PROVE CountersExpire'
  <2>. v \notin Requests
    OBVIOUS
  <2>1. CASE Incr(v)
    BY <2>1 DEF Incr
  <2>2. CASE ExpireAttempts(v)
    BY <2>2 DEF ExpireAttempts
  <2>3. CASE TriedForNobody(v) \/ DelOver(v) \/ Get(v) \/ DelCode(v) \/ Issue(v)
    BY <2>3 DEF TriedForNobody, DelOver, Get, DelCode, Issue
  <2>4. CASE ClearOver(v) \/ ClearAttempts(v)
    BY <2>4 DEF ClearOver, ClearAttempts, DelAttempts
  <2>. QED BY <1>2, <2>1, <2>2, <2>3, <2>4 DEF VerifyStep
<1>3. ASSUME NEW c \in Calls, Fails(c) PROVE CountersExpire'
  BY <1>3 DEF Fails, Over
<1>4. CASE CodeExpires \/ AttemptsExpire \/ WindowEnds \/ UNCHANGED otpVars
  BY <1>4 DEF CodeExpires, AttemptsExpire, WindowEnds, otpVars
<1>. QED BY <1>1, <1>2, <1>3, <1>4 DEF OtpNext

-----------------------------------------------------------------------------
(* Two requests under way: the one that stores its code last is not always *)
(* the one that is mailed last.                                            *)
LEMMA LastMailNext ==
    OtpAssumption /\ OtpTypeOK /\ StoredUntilReplaced /\ LastMailCounts /\ [OtpNext]_otpVars
    => StoredUntilReplaced' /\ LastMailCounts'
<1>. SUFFICES ASSUME OtpAssumption, OtpTypeOK, StoredUntilReplaced, LastMailCounts, [OtpNext]_otpVars
              PROVE  StoredUntilReplaced' /\ LastMailCounts'
  OBVIOUS
<1>. USE DEF OtpTypeOK, OtpAssumption, Calls, Goto, StoredUntilReplaced, LastMailCounts,
             keyVars, windowVars, mailVars, historyVars
<1>1. ASSUME NEW r \in Requests, RequestStep(r)
      PROVE  StoredUntilReplaced' /\ LastMailCounts'
  <2>1. CASE Hit(r) \/ ExpireWindow(r) \/ AskedForNobody(r)
    BY <2>1 DEF Hit, ExpireWindow, AskedForNobody
  <2>2. CASE SetCode(r)
    BY <2>2 DEF SetCode
  <2>3. CASE ClearForCode(r)
    BY <2>3 DEF ClearForCode, DelAttempts
  <2>4. CASE PublishCode(r)
    BY <2>4 DEF PublishCode
  <2>. QED BY <1>1, <2>1, <2>2, <2>3, <2>4 DEF RequestStep
<1>2. ASSUME NEW v \in Verifies, VerifyStep(v)
      PROVE  StoredUntilReplaced' /\ LastMailCounts'
  <2>. v \notin Requests
    OBVIOUS
  <2>1. CASE TriedForNobody(v) \/ Incr(v) \/ ExpireAttempts(v) \/ Get(v) \/ Issue(v)
    BY <2>1 DEF TriedForNobody, Incr, ExpireAttempts, Get, Issue
  <2>2. CASE DelOver(v) \/ ClearOver(v) \/ DelCode(v) \/ ClearAttempts(v)
    BY <2>2 DEF DelOver, ClearOver, DelCode, ClearAttempts, DelAttempts
  <2>. QED BY <1>2, <2>1, <2>2 DEF VerifyStep
<1>3. ASSUME NEW c \in Calls, Fails(c) PROVE StoredUntilReplaced' /\ LastMailCounts'
  BY <1>3 DEF Fails, Over
<1>4. CASE CodeExpires \/ AttemptsExpire \/ WindowEnds \/ UNCHANGED otpVars
  BY <1>4 DEF CodeExpires, AttemptsExpire, WindowEnds, otpVars
<1>. QED BY <1>1, <1>2, <1>3, <1>4 DEF OtpNext

-----------------------------------------------------------------------------
(* Redis without keys satisfies the inductive invariant.                   *)
LEMMA InvInit == OtpAssumption /\ OtpInit => OtpInv
<1>. SUFFICES ASSUME OtpAssumption, OtpInit PROVE OtpInv
  OBVIOUS
<1>1. OtpTypeOK
  BY TypeInit
<1>2. CodesInOrder /\ OneAccepts
  BY DEF OtpInit, CodesInOrder, Unstored, OneAccepts, Accepts, Accepted, Calls, OtpAssumption
<1>3. CodeAcceptedOnce /\ CountersExpire /\ StoredUntilReplaced /\ LastMailCounts
  BY DEF OtpInit, CodeAcceptedOnce, CountersExpire, StoredUntilReplaced, LastMailCounts, Calls
<1>. QED BY <1>1, <1>2, <1>3 DEF OtpInv

(* The inductive invariant of Otp. *)
THEOREM OtpInvariant == OtpSpec => []OtpInv
<1>1. OtpInit => OtpInv
  BY OtpAssumption, InvInit
<1>2. OtpInv /\ [OtpNext]_otpVars => OtpInv'
  <2>. SUFFICES ASSUME OtpInv, [OtpNext]_otpVars PROVE OtpInv'
    OBVIOUS
  <2>1. OtpTypeOK' /\ CodesInOrder' /\ OneAccepts'
    BY OtpAssumption, TypeNext, OrderNext, OneAcceptsNext DEF OtpInv
  <2>2. CodeAcceptedOnce'
    BY <2>1 DEF OtpTypeOK, OneAccepts, CodeAcceptedOnce
  <2>3. CountersExpire' /\ StoredUntilReplaced' /\ LastMailCounts'
    BY OtpAssumption, CountersNext, LastMailNext DEF OtpInv
  <2>. QED BY <2>1, <2>2, <2>3 DEF OtpInv
<1>. QED BY <1>1, <1>2, PTL DEF OtpSpec

(* A code logs in once, unless two verifies read it before either of them  *)
(* deleted it.                                                             *)
THEOREM CodesAreAcceptedOnce == OtpSpec => []CodeAcceptedOnce
<1>1. OtpInv => CodeAcceptedOnce
  BY DEF OtpInv
<1>. QED BY <1>1, OtpInvariant, PTL

(* The attempts and the window have an expiry, or the call that was to set *)
(* it is at it or ended before it did.                                     *)
THEOREM CountersAreGivenAnEnd == OtpSpec => []CountersExpire
<1>1. OtpInv => CountersExpire
  BY DEF OtpInv
<1>. QED BY <1>1, OtpInvariant, PTL

(* The mail that came last has the code that is stored, if one is, unless  *)
(* another request overlapped it.                                          *)
THEOREM LastMailsCount == OtpSpec => []LastMailCounts
<1>1. OtpInv => LastMailCounts
  BY DEF OtpInv
<1>. QED BY <1>1, OtpInvariant, PTL

-----------------------------------------------------------------------------
(* A code that no other call overlapped, from its SET on: nobody is at     *)
(* work on the keys until its attempts are cleared, and after that the     *)
(* attempts are the verifies begun since; each of them compares it once,   *)
(* if it is not one too many.                                              *)
Untried(code) == tried[code] = 0 /\ compared[code] = 0
NobodyCounts == \A v \in Verifies : at[v] \notin Counted \cup Deleting
Pending == {v \in Verifies : at[v] \in Counted}

Compares(code) ==
    /\ attempts = tried[code]
    /\ attemptsTtl => young
    /\ IsFiniteSet(Pending)
    /\ compared[code] + Cardinality(Pending) <= attempts
    /\ compared[code] + Cardinality(Pending) <= MaxAttempts

Own(code) ==
    /\ at[code] = "clear" => Untried(code) /\ NobodyCounts
    /\ compared[code] <= MaxAttempts
    /\ otp = code =>
         /\ \A r \in Requests \ {code} : at[r] # "clear"
         /\ \A v \in Verifies : at[v] \notin {"clear", "clearOver"}
         /\ at[code] # "clear" => Compares(code)

OwnAttempts ==
    /\ \A code \in Requests : Unstored(code) => Untried(code)
    /\ \A code \in Requests \ overlapped : Own(code)

(* Verifies that go on as they were counted.                               *)
LEMMA SamePending ==
  ASSUME UNCHANGED <<attempts, attemptsTtl, young, tried, compared>>, Pending' = Pending,
         NEW code, Compares(code)
  PROVE  Compares(code)'
BY DEF Compares

(* One that is counted no more has compared once, or has not.              *)
LEMMA OnePendingLess ==
  ASSUME OtpTypeOK, NEW v \in Pending, Pending' = Pending \ {v},
         NEW code \in Requests, Compares(code),
         UNCHANGED <<attempts, attemptsTtl, young, tried>>,
         compared' = compared \/ compared' = Count(compared, code)
  PROVE  Compares(code)'
<1>1. IsFiniteSet(Pending') /\ Cardinality(Pending') = Cardinality(Pending) - 1
  BY FS_RemoveElement DEF Compares
<1>2. Cardinality(Pending) \in Nat
  BY FS_CardinalityType DEF Compares
<1>3. compared[code] \in Nat /\ compared'[code] <= compared[code] + 1 /\ compared'[code] \in Nat
  BY DEF OtpTypeOK, Count
<1> QED
  BY <1>1, <1>2, <1>3, OtpAssumption DEF Compares, OtpTypeOK

(* Every step keeps the counter at the wrong guesses it has seen: an INCR  *)
(* counts the guess of the call that sends it, and what resets the         *)
(* counter belongs to a code that is no longer stored.                     *)
LEMMA OwnAttemptsNext ==
  ASSUME OtpTypeOK, CodesInOrder, OwnAttempts, [OtpNext]_otpVars
  PROVE  OwnAttempts'
<1> USE OtpAssumption DEF OtpAssumption, OtpTypeOK, Calls, Goto, Unstored, Untried,
        keyVars, windowVars, mailVars, historyVars
<1>1. ASSUME UNCHANGED <<keyVars, tried, compared, overlapped>>, Pending' = Pending,
             \A r \in Requests : (at[r] = "clear" <=> at'[r] = "clear")
                                 /\ (Unstored(r)' => Unstored(r)),
             \A v \in Verifies : at'[v] \in Deleting => at[v] = at'[v]
      PROVE  OwnAttempts'
  <2>1. NobodyCounts => NobodyCounts'
    BY <1>1 DEF NobodyCounts, Pending
  <2>2. ASSUME NEW code \in Requests \ overlapped
        PROVE  Own(code)'
    <3>1. Compares(code) => Compares(code)'
      BY <1>1, SamePending
    <3> QED
      BY <1>1, <2>1, <2>2, <3>1 DEF OwnAttempts, Own, Deleting
  <2> QED
    BY <1>1, <2>2 DEF OwnAttempts
<1>2. ASSUME NEW r \in Requests, RequestStep(r)
      PROVE  OwnAttempts'
  <2> r \notin Verifies
    OBVIOUS
  <2>1. CASE Hit(r) \/ ExpireWindow(r) \/ PublishCode(r) \/ AskedForNobody(r)
    <3>1. \A v \in Verifies : at'[v] = at[v]
      BY <2>1 DEF Hit, ExpireWindow, PublishCode, AskedForNobody
    <3>2. Pending' = Pending
      BY <3>1 DEF Pending
    <3> QED
      BY <1>1, <2>1, <3>1, <3>2 DEF Hit, ExpireWindow, PublishCode, AskedForNobody
  <2>2. CASE SetCode(r)
    <3>1. UNCHANGED <<tried, compared>> /\ otp' = r /\ at' = [at EXCEPT ![r] = "clear"]
          /\ overlapped \subseteq overlapped'
      BY <2>2 DEF SetCode
    <3>2. r \notin overlapped' => NobodyCounts /\ \A q \in Requests : at[q] # "clear"
      BY <2>2 DEF SetCode, NobodyCounts
    <3>3. NobodyCounts => NobodyCounts'
      BY <3>1 DEF NobodyCounts
    <3>4. Untried(r)
      BY <2>2 DEF SetCode, OwnAttempts
    <3>5. ASSUME NEW code \in Requests \ overlapped'
          PROVE  Own(code)'
      <4>1. CASE code = r
        BY <3>1, <3>2, <3>3, <3>4, <3>5, <4>1 DEF Own, NobodyCounts, Deleting
      <4>2. CASE code # r
        BY <3>1, <3>3, <3>5, <4>2 DEF Own, OwnAttempts
      <4> QED
        BY <4>1, <4>2
    <3> QED
      BY <3>1, <3>5 DEF OwnAttempts
  <2>3. CASE ClearForCode(r)
    <3>1. /\ at' = [at EXCEPT ![r] = "publish"] /\ at[r] = "clear" /\ attempts' = 0
          /\ attemptsTtl' = FALSE
          /\ UNCHANGED <<otp, tried, compared, overlapped>>
      BY <2>3 DEF ClearForCode, DelAttempts
    <3>2. NobodyCounts => NobodyCounts' /\ Pending' = {}
      BY <3>1 DEF NobodyCounts, Pending
    <3>3. ASSUME NEW code \in Requests \ overlapped
          PROVE  Own(code)'
      <4>1. CASE code = r
        <5>1. Untried(r) /\ Pending' = {}
          BY <3>1, <3>2, <3>3, <4>1 DEF OwnAttempts, Own
        <5>2. Compares(r)'
          BY <3>1, <5>1, FS_EmptySet DEF Compares
        <5> QED
          BY <3>1, <3>3, <4>1, <5>2 DEF OwnAttempts, Own
      <4>2. CASE code # r
        BY <3>1, <3>2, <3>3, <4>2 DEF OwnAttempts, Own
      <4> QED
        BY <4>1, <4>2
    <3> QED
      BY <3>1, <3>3 DEF OwnAttempts
  <2> QED
    BY <1>2, <2>1, <2>2, <2>3 DEF RequestStep
<1>3. ASSUME NEW v \in Verifies, VerifyStep(v)
      PROVE  OwnAttempts'
  <2> v \notin Requests
    OBVIOUS
  <2>1. CASE Incr(v)
    <3>1. /\ UNCHANGED <<otp, attemptsTtl, young, compared>> /\ attempts' = attempts + 1
          /\ tried' = IF otp = None THEN tried ELSE Count(tried, otp)
          /\ at[v] = "ready" /\ overlapped' = overlapped \cup {q \in Requests : at[q] = "clear"}
          /\ at' = [at EXCEPT ![v] = IF attempts = 0 THEN "expireAttempts"
                                     ELSE IF attempts >= MaxAttempts THEN "delOver" ELSE "get"]
      BY <2>1 DEF Incr
    <3>2. \A q \in Requests : at'[q] = at[q]
      BY <3>1
    <3>3. \A q \in Requests : Unstored(q) => q # otp /\ tried'[q] = tried[q]
      BY <3>1 DEF CodesInOrder, Count
    <3>4. ASSUME NEW code \in Requests \ overlapped', otp = code
          PROVE  Compares(code)'
      <4>1. at[code] # "clear" /\ Compares(code)
        BY <3>1, <3>4 DEF OwnAttempts, Own
      <4>2. attempts' = tried'[code] /\ (attemptsTtl' => young')
        BY <3>1, <3>4, <4>1 DEF Compares, Count
      <4>3. compared[code] \in Nat /\ Cardinality(Pending) \in Nat
        BY <4>1, FS_CardinalityType DEF Compares
      <4>4. CASE attempts >= MaxAttempts
        <5>1. Pending' = Pending
          BY <3>1, <4>4 DEF Pending, Counted
        <5> QED
          BY <3>1, <4>1, <4>2, <4>3, <5>1 DEF Compares
      <4>5. CASE attempts < MaxAttempts
        <5>1. Pending' = Pending \cup {v} /\ v \notin Pending
          BY <3>1, <4>5 DEF Pending, Counted
        <5>2. IsFiniteSet(Pending') /\ Cardinality(Pending') = Cardinality(Pending) + 1
          BY <4>1, <5>1, FS_AddElement DEF Compares
        <5> QED
          BY <3>1, <4>1, <4>2, <4>3, <4>5, <5>2 DEF Compares
      <4> QED
        BY <4>4, <4>5
    <3>5. ASSUME NEW code \in Requests \ overlapped'
          PROVE  Own(code)'
      <4>1. at[code] # "clear" /\ Own(code)
        BY <3>1, <3>5 DEF OwnAttempts
      <4>2. \A w \in Verifies : at'[w] \in {"clear", "clearOver"} => at'[w] = at[w]
        BY <3>1
      <4> QED
        BY <3>1, <3>2, <3>4, <3>5, <4>1, <4>2 DEF Own
    <3> QED
      BY <3>1, <3>2, <3>3, <3>5 DEF OwnAttempts
  <2>2. CASE TriedForNobody(v) \/ Issue(v)
    <3>1. UNCHANGED <<keyVars, tried, compared, overlapped>>
          /\ \E l \in {"refused", "done"} : at' = [at EXCEPT ![v] = l]
          /\ at[v] \in {"ready", "issue"}
      BY <2>2 DEF TriedForNobody, Issue
    <3>2. Pending' = Pending
      BY <3>1 DEF Pending, Counted
    <3> QED
      BY <1>1, <3>1, <3>2 DEF Deleting
  <2>3. CASE ExpireAttempts(v)
    <3>1. /\ at' = [at EXCEPT ![v] = "get"] /\ at[v] = "expireAttempts"
          /\ UNCHANGED <<otp, attempts, tried, compared, overlapped>>
          /\ otp # None /\ (attemptsTtl => young) => (attemptsTtl' => young')
      BY <2>3 DEF ExpireAttempts
    <3>2. Pending' = Pending /\ v \in Pending
      BY <3>1 DEF Pending, Counted
    <3>3. ASSUME NEW code \in Requests \ overlapped
          PROVE  Own(code)'
      <4>1. ~NobodyCounts /\ Own(code)
        BY <3>1, <3>3 DEF NobodyCounts, OwnAttempts, Counted
      <4>2. otp = code /\ Compares(code) => Compares(code)'
        BY <3>1, <3>2, <3>3, OtpAssumption DEF Compares
      <4> QED
        BY <3>1, <4>1, <4>2 DEF Own
    <3> QED
      BY <3>1, <3>3 DEF OwnAttempts
  <2>4. CASE DelOver(v) \/ DelCode(v)
    <3>1. /\ otp' = None /\ UNCHANGED <<tried, compared, overlapped>> /\ at[v] \in Deleting
          /\ \E l \in {"clear", "clearOver"} : at' = [at EXCEPT ![v] = l]
      BY <2>4 DEF DelOver, DelCode, Deleting
    <3>2. ~NobodyCounts /\ \A q \in Requests : at'[q] = at[q]
      BY <3>1 DEF NobodyCounts
    <3> QED
      BY <3>1, <3>2 DEF OwnAttempts, Own
  <2>5. CASE ClearOver(v) \/ ClearAttempts(v)
    <3>1. /\ UNCHANGED <<otp, tried, compared, overlapped>> /\ at[v] \in {"clear", "clearOver"}
          /\ \E l \in {"refused", "issue"} : at' = [at EXCEPT ![v] = l]
      BY <2>5 DEF ClearOver, ClearAttempts, DelAttempts
    <3>2. ~NobodyCounts /\ \A q \in Requests : at'[q] = at[q]
      BY <3>1 DEF NobodyCounts, Deleting
    <3> QED
      BY <3>1, <3>2 DEF OwnAttempts, Own
  <2>6. CASE Get(v)
    <3>1. /\ UNCHANGED <<keyVars, tried, overlapped>> /\ at[v] = "get"
          /\ compared' = IF otp = None THEN compared ELSE Count(compared, otp)
          /\ \E l \in {"del", "refused"} : at' = [at EXCEPT ![v] = l]
      BY <2>6 DEF Get
    <3>2. Pending' = Pending \ {v} /\ v \in Pending /\ \A q \in Requests : at'[q] = at[q]
      BY <3>1 DEF Pending, Counted
    <3>3. ASSUME NEW code \in Requests \ overlapped
          PROVE  Own(code)'
      <4>1. ~NobodyCounts /\ Own(code)
        BY <3>1, <3>3 DEF NobodyCounts, OwnAttempts, Counted
      <4>2. CASE otp = code
        <5>1. at[code] # "clear" /\ Compares(code)
          BY <4>1, <4>2 DEF Own
        <5>2. Compares(code)'
          BY <3>1, <3>2, <3>3, <4>2, <5>1, OnePendingLess
        <5>3. compared'[code] \in Nat /\ Cardinality(Pending') \in Nat
          BY <3>1, <3>3, <4>2, <5>2, FS_CardinalityType DEF Compares, Count
        <5>4. compared'[code] <= MaxAttempts
          BY <5>2, <5>3 DEF Compares
        <5> QED
          BY <3>1, <3>2, <4>1, <4>2, <5>1, <5>2, <5>4 DEF Own
      <4>3. CASE otp # code
        <5>1. compared'[code] = compared[code] /\ otp' # code
          BY <3>1, <3>3, <4>3 DEF Count
        <5> QED
          BY <3>2, <4>1, <5>1 DEF Own
      <4> QED
        BY <4>2, <4>3
    <3>4. \A q \in Requests : Unstored(q) => compared'[q] = compared[q]
      BY <3>1 DEF CodesInOrder, Count
    <3> QED
      BY <3>1, <3>2, <3>3, <3>4 DEF OwnAttempts
  <2> QED
    BY <1>3, <2>1, <2>2, <2>3, <2>4, <2>5, <2>6 DEF VerifyStep
<1>4. ASSUME NEW c \in Calls, Fails(c)
      PROVE  OwnAttempts'
  <2>1. /\ at' = [at EXCEPT ![c] = "failed"] /\ UNCHANGED <<keyVars, tried, compared>>
        /\ overlapped' = IF c \in Requests /\ at[c] = "clear" THEN overlapped \cup {c}
                         ELSE overlapped
    BY <1>4 DEF Fails
  <2>2. Pending' = Pending \ {c}
    BY <2>1 DEF Pending, Counted
  <2>3. NobodyCounts => NobodyCounts'
    BY <2>1 DEF NobodyCounts, Counted, Deleting
  <2>4. ASSUME NEW code \in Requests \ overlapped'
        PROVE  Own(code)'
    <3>1. Own(code) /\ (at[code] = "clear" <=> at'[code] = "clear")
      BY <2>1, <2>4 DEF OwnAttempts
    <3>2. Compares(code) => Compares(code)'
      <4>1. CASE c \in Pending
        BY <2>1, <2>2, <2>4, <4>1, OnePendingLess
      <4>2. CASE c \notin Pending
        BY <2>1, <2>2, <4>2, SamePending
      <4> QED
        BY <4>1, <4>2
    <3> QED
      BY <2>1, <2>3, <3>1, <3>2 DEF Own
  <2> QED
    BY <2>1, <2>4 DEF OwnAttempts
<1>5. CASE CodeExpires
  BY <1>5 DEF CodeExpires, OwnAttempts, Own, NobodyCounts
<1>6. CASE AttemptsExpire
  <2>1. ASSUME NEW code \in Requests \ overlapped, otp = code
        PROVE  at[code] = "clear"
    BY <1>6, <2>1 DEF AttemptsExpire, OwnAttempts, Own, Compares
  <2> QED
    BY <1>6, <2>1 DEF AttemptsExpire, OwnAttempts, Own, NobodyCounts
<1>7. CASE WindowEnds \/ UNCHANGED otpVars
  <2>1. at' = at /\ UNCHANGED <<keyVars, tried, compared, overlapped>>
    BY <1>7 DEF WindowEnds, otpVars
  <2>2. Pending' = Pending
    BY <2>1 DEF Pending
  <2> QED
    BY <1>1, <2>1, <2>2
<1> QED
  BY <1>2, <1>3, <1>4, <1>5, <1>6, <1>7 DEF OtpNext

(* The attempts counted are those at the stored code, and it is compared   *)
(* MAX_ATTEMPTS times at most, unless another call was under way when it   *)
(* was stored and its attempts cleared.                                    *)
THEOREM AttemptsAreCounted == OtpSpec => []AttemptsAreItsOwn
<1>1. OtpInit => OwnAttempts
  BY OtpAssumption
     DEF OtpInit, OwnAttempts, Own, Untried, Unstored, Calls, OtpAssumption
<1>2. OtpInv => OtpTypeOK /\ CodesInOrder
  BY DEF OtpInv
<1>3. OtpTypeOK /\ CodesInOrder /\ OwnAttempts /\ [OtpNext]_otpVars => OwnAttempts'
  BY OwnAttemptsNext
<1>4. OwnAttempts => AttemptsAreItsOwn
  BY DEF OwnAttempts, Own, Compares, AttemptsAreItsOwn
<1> QED
  BY <1>1, <1>2, <1>3, <1>4, OtpInvariant, PTL DEF OtpSpec

-----------------------------------------------------------------------------
(* Accounts: what the variables hold. *)

(* One account of old at least, and a form for it that is not the admin's. *)
LEMMA OldTyped ==
    AccountsAssumption => Old \subseteq Creators /\ OldForm \in Forms
BY DEF AccountsAssumption, Old, OldForm, Creators

(* The first state has the types.                                          *)
LEMMA AccountsTypeInit == AccountsAssumption /\ AccountsInit => AccountsTypeOK
<1>. SUFFICES ASSUME AccountsAssumption, AccountsInit PROVE AccountsTypeOK
  OBVIOUS
<1>1. Old \subseteq Creators /\ OldForm \in Forms
  BY OldTyped
<1>2. PICK old \in {{}, Old} :
         /\ stage = [c \in AccountCalls |-> IF c \in old THEN "earlier" ELSE "ready"]
         /\ form = [c \in Creators |-> IF c \in Seeds THEN AdminForm
                                       ELSE IF c \in old THEN OldForm ELSE None]
         /\ users = old /\ credentials = old
         /\ roles = [c \in Creators |-> IF c \in old THEN {FirstRole(c)} ELSE {}]
         /\ announced = old \cap Registers
  BY DEF AccountsInit
<1>3. form \in [Creators -> Forms \cup {None}]
  BY <1>1, <1>2 DEF AccountsAssumption
<1>4. users \subseteq Creators
  BY <1>1, <1>2
<1>5. roles \in [Creators -> SUBSET Roles]
  BY <1>2 DEF FirstRole, Roles
<1>6. login \in [Logins -> [who : Creators \cup {None}, by : {"email", "phone"},
                            found : Creators \cup {None}, there : BOOLEAN]]
  BY DEF AccountsInit
<1>7. asked \in [Assigns -> [who : Creators \cup {None}, role : Roles, seen : SUBSET Roles]]
  BY DEF AccountsInit, Roles
<1>8. stage \in [AccountCalls -> {"earlier", "ready"}]
  BY <1>2
<1>. QED BY <1>1, <1>2, <1>3, <1>4, <1>5, <1>6, <1>7, <1>8
     DEF AccountsInit, AccountsTypeOK, Creators

(* What a login has found is replaced in its record alone.                 *)
LEMMA LoginsKeepTheirShape ==
  ASSUME NEW W, NEW B, NEW F,
         NEW f \in [Logins -> [who : W, by : B, found : F, there : BOOLEAN]],
         NEW n \in Logins, NEW there \in BOOLEAN
  PROVE  [f EXCEPT ![n].there = there]
            \in [Logins -> [who : W, by : B, found : F, there : BOOLEAN]]
OBVIOUS

(* Every step keeps the types; a call that goes on with an account knows   *)
(* one.                                                                    *)
LEMMA AccountsTypeNext ==
    AccountsAssumption /\ AccountsTypeOK /\ CallsKnowAccounts /\ [AccountsNext]_accountsVars
    => AccountsTypeOK'
<1>. SUFFICES ASSUME AccountsAssumption, AccountsTypeOK, CallsKnowAccounts,
                     [AccountsNext]_accountsVars
              PROVE  AccountsTypeOK'
  OBVIOUS
<1>. USE DEF AccountsTypeOK, AccountsAssumption, Creators, AccountCalls, Enter,
             tableVars, roleVars, accountVars
<1>1. ASSUME NEW g \in Registers, RegisterStep(g) PROVE AccountsTypeOK'
  <2>1. CASE RegisterBegins(g)
    BY <2>1 DEF RegisterBegins
  <2>2. CASE FindByEmail(g) \/ FindByPhone(g) \/ InsertUser(g)
    BY <2>2 DEF FindByEmail, FindByPhone, InsertUser
  <2>3. CASE CommitUser(g)
    BY <2>3 DEF CommitUser, Roles
  <2>4. CASE Announce(g)
    BY <2>4 DEF Announce
  <2>. QED BY <1>1, <2>1, <2>2, <2>3, <2>4 DEF RegisterStep
<1>2. ASSUME NEW s \in Seeds, SeedStep(s) PROVE AccountsTypeOK'
  <2>1. CASE ReplicaStarts(s) \/ FindByEmail(s)
    BY <2>1 DEF ReplicaStarts, FindByEmail
  <2>2. CASE SeedUser(s)
    BY <2>2 DEF SeedUser, Roles
  <2>3. CASE SeedCredential(s)
    BY <2>3 DEF SeedCredential
  <2>. QED BY <1>2, <2>1, <2>2, <2>3 DEF SeedStep
<1>3. ASSUME NEW n \in Logins, LoginStep(n) PROVE AccountsTypeOK'
  <2>1. CASE LoginBegins(n)
    BY <2>1 DEF LoginBegins
  <2>2. CASE FindUser(n)
    <3>. DEFINE there == login[n].who \in users
    <3>1. \/ \E u \in users : login' = [login EXCEPT ![n].found = u, ![n].there = there]
          \/ login' = [login EXCEPT ![n].there = there]
      BY <2>2 DEF FindUser
    <3>2. there \in BOOLEAN
      OBVIOUS
    <3>. HIDE DEF there
    <3>. DEFINE Given == [who : Creators \cup {None}, by : {"email", "phone"},
                          found : Creators \cup {None}, there : BOOLEAN]
    <3>4. ASSUME NEW u \in users
          PROVE  [login EXCEPT ![n].found = u, ![n].there = there] \in [Logins -> Given]
      <4>. DEFINE mid == [login EXCEPT ![n].found = u]
      <4>1. mid \in [Logins -> Given]
        OBVIOUS
      <4>. HIDE DEF mid
      <4>2. [mid EXCEPT ![n].there = there] \in [Logins -> Given]
        BY <4>1, <3>2, LoginsKeepTheirShape
      <4>. QED BY <4>2 DEF mid
    <3>5. [login EXCEPT ![n].there = there] \in [Logins -> Given]
      BY <3>2
    <3>3. login' \in [Logins -> Given]
      <4>1. ASSUME NEW u \in users, login' = [login EXCEPT ![n].found = u, ![n].there = there]
            PROVE  login' \in [Logins -> Given]
        <5>1. [login EXCEPT ![n].found = u, ![n].there = there] \in [Logins -> Given]
          BY <3>4
        <5>. HIDE DEF Given
        <5>. QED BY <5>1, <4>1
      <4>. QED BY <4>1, <3>1, <3>5
    <3>. QED BY <2>2, <3>3 DEF FindUser
  <2>3. CASE Compare(n)
    BY <2>3 DEF Compare
  <2>. QED BY <1>3, <2>1, <2>2, <2>3 DEF LoginStep
<1>4. ASSUME NEW a \in Assigns, AssignStep(a) PROVE AccountsTypeOK'
  <2>1. CASE AssignBegins(a)
    BY <2>1 DEF AssignBegins
  <2>2. CASE SaveReads(a)
    <3>1. asked[a].who \in Creators
      BY <2>2 DEF SaveReads, CallsKnowAccounts
    <3>. QED BY <2>2, <3>1 DEF SaveReads
  <2>3. CASE SaveWrites(a)
    <3>1. roles' \in [Creators -> SUBSET Roles] /\ lastRole' \in [Creators -> Roles \cup {None}]
      BY <2>3 DEF SaveWrites
    <3>2. stage' = [stage EXCEPT ![a] = stage'[a]] /\ stage'[a] \in {"done", "failed"}
      BY <2>3 DEF SaveWrites
    <3>. QED BY <2>3, <3>1, <3>2 DEF SaveWrites
  <2>. QED BY <1>4, <2>1, <2>2, <2>3 DEF AssignStep
<1>5. ASSUME NEW c \in AccountCalls, AccountFails(c) PROVE AccountsTypeOK'
  BY <1>5 DEF AccountFails
<1>6. CASE UNCHANGED accountVars
  BY <1>6
<1>. QED BY <1>1, <1>2, <1>3, <1>4, <1>5, <1>6 DEF AccountsNext, Accounts, accountsVars

-----------------------------------------------------------------------------
(* An INSERT finds the rows of others that are committed and waits for     *)
(* those that are not; the admin's is there before anybody is served.      *)
RowsInv == AccountsAreUnique /\ RowsInOrder /\ AdminIsFirst

(* The rows of an earlier deployment, if there was one, are in order.      *)
LEMMA RowsInit == AccountsAssumption /\ AccountsInit => RowsInv
<1>. SUFFICES ASSUME AccountsAssumption, AccountsInit PROVE RowsInv
  OBVIOUS
<1>1. Old \subseteq Creators /\ OldForm \in Forms
      /\ OldForm.email # AdminForm.email /\ OldForm.phone # AdminForm.phone
  BY OldTyped DEF AccountsAssumption, OldForm
<1>2. PICK s \in Seeds : Old = {Holder, s}
  BY DEF AccountsAssumption, Old
<1>3. PICK old \in {{}, Old} :
         /\ stage = [c \in AccountCalls |-> IF c \in old THEN "earlier" ELSE "ready"]
         /\ form = [c \in Creators |-> IF c \in Seeds THEN AdminForm
                                       ELSE IF c \in old THEN OldForm ELSE None]
         /\ users = old /\ credentials = old
         /\ announced = old \cap Registers
  BY DEF AccountsInit
<1>4. Held = {}
  BY <1>3 DEF Held, AccountCalls, Creators
<1>5. AccountsAreUnique
  <2>. SUFFICES ASSUME NEW c \in old, NEW d \in old, c # d PROVE ~Clash(c, d)
    BY <1>3, <1>4 DEF AccountsAreUnique
  <2>. QED BY <1>1, <1>2, <1>3 DEF Clash, Creators, AccountsAssumption
<1>6. RowsInOrder
  BY <1>1, <1>2, <1>3 DEF RowsInOrder, AccountCalls, Creators, AccountsAssumption
<1>7. AdminIsFirst
  BY <1>2, <1>3 DEF AdminIsFirst, Serving, AccountCalls, Creators, AccountsAssumption
<1>. QED BY <1>5, <1>6, <1>7 DEF RowsInv

(* No two rows come to clash: a row is inserted only where it meets none,  *)
(* committed or about to be.                                               *)
LEMMA UniqueNext ==
    AccountsAssumption /\ AccountsTypeOK /\ RowsInv /\ [AccountsNext]_accountsVars
    => AccountsAreUnique'
<1>. SUFFICES ASSUME AccountsAssumption, AccountsTypeOK, RowsInv, [AccountsNext]_accountsVars
              PROVE  AccountsAreUnique'
  OBVIOUS
<1>. USE DEF AccountsTypeOK, AccountsAssumption, Creators, AccountCalls, Enter, RowsInv,
             AccountsAreUnique, Held, Clash, tableVars, roleVars, accountVars
<1>1. ASSUME NEW g \in Registers, RegisterStep(g) PROVE AccountsAreUnique'
  <2>1. CASE RegisterBegins(g)
    BY <2>1 DEF RegisterBegins, Called, MayBegin, RowsInOrder
  <2>2. CASE FindByEmail(g) \/ FindByPhone(g) \/ Announce(g)
    BY <2>2 DEF FindByEmail, FindByPhone, Announce
  <2>3. CASE InsertUser(g)
    BY <2>3 DEF InsertUser, Violates, Unblocked
  <2>4. CASE CommitUser(g)
    BY <2>4 DEF CommitUser
  <2>. QED BY <1>1, <2>1, <2>2, <2>3, <2>4 DEF RegisterStep
<1>2. ASSUME NEW s \in Seeds, SeedStep(s) PROVE AccountsAreUnique'
  <2>1. CASE ReplicaStarts(s) \/ FindByEmail(s) \/ SeedCredential(s)
    BY <2>1 DEF ReplicaStarts, FindByEmail, SeedCredential
  <2>2. CASE SeedUser(s)
    BY <2>2 DEF SeedUser, Violates, Unblocked
  <2>. QED BY <1>2, <2>1, <2>2 DEF SeedStep
<1>3. ASSUME NEW n \in Logins, LoginStep(n) PROVE AccountsAreUnique'
  <2>1. CASE LoginBegins(n)
    BY <2>1 DEF LoginBegins
  <2>2. CASE FindUser(n)
    <3>1. stage' = [stage EXCEPT ![n] = stage'[n]] /\ stage'[n] \in {"compare", "refused"}
      BY <2>2 DEF FindUser
    <3>. QED BY <2>2, <3>1 DEF FindUser
  <2>3. CASE Compare(n)
    BY <2>3 DEF Compare
  <2>. QED BY <1>3, <2>1, <2>2, <2>3 DEF LoginStep
<1>4. ASSUME NEW a \in Assigns, AssignStep(a) PROVE AccountsAreUnique'
  <2>1. CASE AssignBegins(a)
    BY <2>1 DEF AssignBegins
  <2>2. CASE SaveReads(a)
    BY <2>2 DEF SaveReads
  <2>3. CASE SaveWrites(a)
    BY <2>3 DEF SaveWrites
  <2>. QED BY <1>4, <2>1, <2>2, <2>3 DEF AssignStep
<1>5. ASSUME NEW c \in AccountCalls, AccountFails(c) PROVE AccountsAreUnique'
  BY <1>5 DEF AccountFails
<1>6. CASE UNCHANGED accountVars
  BY <1>6
<1>. QED BY <1>1, <1>2, <1>3, <1>4, <1>5, <1>6 DEF AccountsNext, Accounts, accountsVars

(* A row is written before what depends on it, and the admin's before      *)
(* anybody is served.                                                      *)
LEMMA RowsInOrderNext ==
    AccountsAssumption /\ AccountsTypeOK /\ RowsInv /\ [AccountsNext]_accountsVars
    => RowsInOrder'
<1>. SUFFICES ASSUME AccountsAssumption, AccountsTypeOK, RowsInv, [AccountsNext]_accountsVars
              PROVE  RowsInOrder'
  OBVIOUS
<1>. USE DEF AccountsTypeOK, AccountsAssumption, Creators, AccountCalls, Enter, RowsInv,
             RowsInOrder, tableVars, roleVars, accountVars
<1>1. ASSUME NEW g \in Registers, RegisterStep(g) PROVE RowsInOrder'
  <2>1. CASE RegisterBegins(g)
    BY <2>1 DEF RegisterBegins, Called, MayBegin
  <2>2. CASE FindByEmail(g) \/ FindByPhone(g) \/ InsertUser(g)
    BY <2>2 DEF FindByEmail, FindByPhone, InsertUser
  <2>3. CASE CommitUser(g)
    BY <2>3 DEF CommitUser
  <2>4. CASE Announce(g)
    BY <2>4 DEF Announce
  <2>. QED BY <1>1, <2>1, <2>2, <2>3, <2>4 DEF RegisterStep
<1>2. ASSUME NEW s \in Seeds, SeedStep(s) PROVE RowsInOrder'
  <2>1. CASE ReplicaStarts(s) \/ FindByEmail(s)
    BY <2>1 DEF ReplicaStarts, MayBegin, FindByEmail
  <2>2. CASE SeedUser(s)
    BY <2>2 DEF SeedUser
  <2>3. CASE SeedCredential(s)
    BY <2>3 DEF SeedCredential
  <2>. QED BY <1>2, <2>1, <2>2, <2>3 DEF SeedStep
<1>3. ASSUME NEW n \in Logins, LoginStep(n) PROVE RowsInOrder'
  <2>1. CASE LoginBegins(n)
    BY <2>1 DEF LoginBegins
  <2>2. CASE FindUser(n)
    <3>1. stage' = [stage EXCEPT ![n] = stage'[n]] /\ stage'[n] \in {"compare", "refused"}
      BY <2>2 DEF FindUser
    <3>. QED BY <2>2, <3>1 DEF FindUser
  <2>3. CASE Compare(n)
    BY <2>3 DEF Compare
  <2>. QED BY <1>3, <2>1, <2>2, <2>3 DEF LoginStep
<1>4. ASSUME NEW a \in Assigns, AssignStep(a) PROVE RowsInOrder'
  <2>1. CASE AssignBegins(a)
    BY <2>1 DEF AssignBegins
  <2>2. CASE SaveReads(a)
    BY <2>2 DEF SaveReads
  <2>3. CASE SaveWrites(a)
    BY <2>3 DEF SaveWrites
  <2>. QED BY <1>4, <2>1, <2>2, <2>3 DEF AssignStep
<1>5. ASSUME NEW c \in AccountCalls, AccountFails(c) PROVE RowsInOrder'
  BY <1>5 DEF AccountFails, AccountOver
<1>6. CASE UNCHANGED accountVars
  BY <1>6
<1>. QED BY <1>1, <1>2, <1>3, <1>4, <1>5, <1>6 DEF AccountsNext, Accounts, accountsVars

(* A seed that finds a row with the admin's address finds a seed's: who    *)
(* registers was served, so that a seed's row was there before.            *)
LEMMA AdminFirstNext ==
    AccountsAssumption /\ AccountsTypeOK /\ RowsInv /\ [AccountsNext]_accountsVars
    => AdminIsFirst'
<1>. SUFFICES ASSUME AccountsAssumption, AccountsTypeOK, RowsInv, [AccountsNext]_accountsVars
              PROVE  AdminIsFirst'
  OBVIOUS
<1>. USE DEF AccountsTypeOK, AccountsAssumption, Creators, AccountCalls, Enter, RowsInv,
             AdminIsFirst, Serving, tableVars, roleVars, accountVars
<1>1. ASSUME NEW g \in Registers, RegisterStep(g) PROVE AdminIsFirst'
  <2>1. CASE RegisterBegins(g)
    BY <2>1 DEF RegisterBegins, Called
  <2>2. CASE FindByEmail(g) \/ FindByPhone(g) \/ InsertUser(g) \/ Announce(g)
    BY <2>2 DEF FindByEmail, FindByPhone, InsertUser, Announce
  <2>3. CASE CommitUser(g)
    BY <2>3 DEF CommitUser
  <2>. QED BY <1>1, <2>1, <2>2, <2>3 DEF RegisterStep
<1>2. ASSUME NEW s \in Seeds, SeedStep(s) PROVE AdminIsFirst'
  <2>1. CASE ReplicaStarts(s)
    BY <2>1 DEF ReplicaStarts
  <2>2. CASE FindByEmail(s)
    <3>1. (\E u \in users : TRUE) => users \cap Seeds # {}
      BY DEF RowsInOrder
    <3>. QED BY <2>2, <3>1 DEF FindByEmail
  <2>3. CASE SeedUser(s)
    BY <2>3 DEF SeedUser
  <2>4. CASE SeedCredential(s)
    BY <2>4 DEF SeedCredential, RowsInOrder
  <2>. QED BY <1>2, <2>1, <2>2, <2>3, <2>4 DEF SeedStep
<1>3. ASSUME NEW n \in Logins, LoginStep(n) PROVE AdminIsFirst'
  BY <1>3 DEF LoginStep, LoginBegins, Called, FindUser, Compare
<1>4. ASSUME NEW a \in Assigns, AssignStep(a) PROVE AdminIsFirst'
  BY <1>4 DEF AssignStep, AssignBegins, Called, SaveReads, SaveWrites
<1>5. ASSUME NEW c \in AccountCalls, AccountFails(c) PROVE AdminIsFirst'
  BY <1>5 DEF AccountFails, AccountOver
<1>6. CASE UNCHANGED accountVars
  BY <1>6
<1>. QED BY <1>1, <1>2, <1>3, <1>4, <1>5, <1>6 DEF AccountsNext, Accounts, accountsVars

-----------------------------------------------------------------------------
(* Logins and assignments.  A row keeps the form its account was begun     *)
(* with, so that what was found still matches what was typed.              *)
LEMMA FindUserFinds ==
    ASSUME AccountsTypeOK, NEW n \in Logins, FindUser(n)
    PROVE  /\ stage[n] = "find"
           /\ \A m \in Logins \ {n} : login'[m] = login[m]
           /\ login'[n].who = login[n].who /\ login'[n].by = login[n].by
           /\ login'[n].there <=> login[n].who \in users
           /\ \/ /\ stage' = [stage EXCEPT ![n] = "refused"]
                 /\ \A u \in users : ~Matches(u, n)
              \/ /\ stage' = [stage EXCEPT ![n] = "compare"]
                 /\ login'[n].found \in users /\ Matches(login'[n].found, n)
<1>. DEFINE there == login[n].who \in users
<1>1. PICK u \in Creators \cup {None} :
         /\ \/ login' = [login EXCEPT ![n].found = u, ![n].there = there]
            \/ login' = [login EXCEPT ![n].there = there] /\ u = None
         /\ \/ /\ stage' = [stage EXCEPT ![n] = "refused"]
               /\ \A w \in users : ~Matches(w, n)
               /\ login' = [login EXCEPT ![n].there = there]
            \/ /\ stage' = [stage EXCEPT ![n] = "compare"]
               /\ u \in users /\ Matches(u, n)
               /\ login' = [login EXCEPT ![n].found = u, ![n].there = there]
  <2>. HIDE DEF there
  <2>1. \/ \E u \in users :
             /\ Matches(u, n)
             /\ login' = [login EXCEPT ![n].found = u, ![n].there = there]
             /\ stage' = [stage EXCEPT ![n] = "compare"]
        \/ /\ \A u \in users : ~Matches(u, n)
           /\ login' = [login EXCEPT ![n].there = there]
           /\ stage' = [stage EXCEPT ![n] = "refused"]
    BY DEF FindUser, Enter, there
  <2>2. users \subseteq Creators
    BY DEF AccountsTypeOK
  <2>. QED BY <2>1, <2>2
<1>2. stage[n] = "find"
  BY DEF FindUser
<1>3. login \in [Logins -> [who : Creators \cup {None}, by : {"email", "phone"},
                           found : Creators \cup {None}, there : BOOLEAN]]
  BY DEF AccountsTypeOK
<1>. HIDE DEF there
<1>4. /\ \A m \in Logins \ {n} : login'[m] = login[m]
      /\ login'[n].who = login[n].who /\ login'[n].by = login[n].by
      /\ login'[n].there = there
  BY <1>1, <1>3
<1>5. \/ /\ stage' = [stage EXCEPT ![n] = "refused"]
         /\ \A w \in users : ~Matches(w, n)
      \/ /\ stage' = [stage EXCEPT ![n] = "compare"]
         /\ login'[n].found = u
         /\ u \in users /\ Matches(u, n)
  BY <1>1, <1>3
<1>6. login'[n].there <=> login[n].who \in users
  BY <1>4 DEF there
<1>. QED BY <1>2, <1>4, <1>5, <1>6

(* No call has begun, so none knows an account.                            *)
LEMMA CallsKnowInit == AccountsAssumption /\ AccountsInit => CallsKnowAccounts
<1>. SUFFICES ASSUME AccountsAssumption, AccountsInit PROVE CallsKnowAccounts
  OBVIOUS
<1>1. Old \subseteq Creators
  BY OldTyped
<1>2. \A c \in Logins \cup Assigns : stage[c] = "ready"
  BY <1>1 DEF AccountsInit, AccountCalls, Creators, AccountsAssumption
<1>. QED BY <1>2 DEF CallsKnowAccounts

(* A call goes on only with an account it found, and accounts are not      *)
(* deleted.                                                                *)
LEMMA CallsKnowNext ==
    AccountsAssumption /\ AccountsTypeOK /\ RowsInv /\ CallsKnowAccounts
    /\ [AccountsNext]_accountsVars
    => CallsKnowAccounts'
<1>. SUFFICES ASSUME AccountsAssumption, AccountsTypeOK, RowsInv, CallsKnowAccounts,
                     [AccountsNext]_accountsVars
              PROVE  CallsKnowAccounts'
  OBVIOUS
<1>. USE DEF AccountsTypeOK, AccountsAssumption, Creators, AccountCalls, Enter, RowsInv,
             RowsInOrder, CallsKnowAccounts, Matches, tableVars, roleVars, accountVars
<1>1. ASSUME NEW g \in Registers, RegisterStep(g) PROVE CallsKnowAccounts'
  <2>1. CASE RegisterBegins(g)
    BY <2>1 DEF RegisterBegins, Called, MayBegin
  <2>2. CASE FindByEmail(g) \/ FindByPhone(g) \/ InsertUser(g) \/ Announce(g)
    BY <2>2 DEF FindByEmail, FindByPhone, InsertUser, Announce
  <2>3. CASE CommitUser(g)
    BY <2>3 DEF CommitUser
  <2>. QED BY <1>1, <2>1, <2>2, <2>3 DEF RegisterStep
<1>2. ASSUME NEW s \in Seeds, SeedStep(s) PROVE CallsKnowAccounts'
  <2>1. CASE ReplicaStarts(s) \/ FindByEmail(s)
    BY <2>1 DEF ReplicaStarts, FindByEmail
  <2>2. CASE SeedUser(s)
    BY <2>2 DEF SeedUser
  <2>3. CASE SeedCredential(s)
    BY <2>3 DEF SeedCredential
  <2>. QED BY <1>2, <2>1, <2>2, <2>3 DEF SeedStep
<1>3. ASSUME NEW n \in Logins, LoginStep(n) PROVE CallsKnowAccounts'
  <2>1. CASE LoginBegins(n)
    BY <2>1 DEF LoginBegins
  <2>2. CASE FindUser(n)
    <3>1. UNCHANGED <<form, users, credentials, asked>>
      BY <2>2 DEF FindUser
    <3>2. stage' = [stage EXCEPT ![n] = stage'[n]]
      BY <2>2, FindUserFinds
    <3>. QED BY <2>2, <3>1, <3>2, FindUserFinds
  <2>3. CASE Compare(n)
    BY <2>3 DEF Compare
  <2>. QED BY <1>3, <2>1, <2>2, <2>3 DEF LoginStep
<1>4. ASSUME NEW a \in Assigns, AssignStep(a) PROVE CallsKnowAccounts'
  <2>1. CASE AssignBegins(a)
    BY <2>1 DEF AssignBegins
  <2>2. CASE SaveReads(a)
    BY <2>2 DEF SaveReads
  <2>3. CASE SaveWrites(a)
    BY <2>3 DEF SaveWrites
  <2>. QED BY <1>4, <2>1, <2>2, <2>3 DEF AssignStep
<1>5. ASSUME NEW c \in AccountCalls, AccountFails(c) PROVE CallsKnowAccounts'
  BY <1>5 DEF AccountFails, AccountOver
<1>6. CASE UNCHANGED accountVars
  BY <1>6
<1>. QED BY <1>1, <1>2, <1>3, <1>4, <1>5, <1>6 DEF AccountsNext, Accounts, accountsVars

(* Who typed the address or the phone of an account finds no other, and a  *)
(* registered account has its credential from its COMMIT on.               *)
LEMMA LoginNext ==
    AccountsAssumption /\ AccountsTypeOK /\ RowsInv /\ CallsKnowAccounts
    /\ RegisteredCanLogIn /\ [AccountsNext]_accountsVars
    => RegisteredCanLogIn'
<1>. SUFFICES ASSUME AccountsAssumption, AccountsTypeOK, RowsInv, CallsKnowAccounts,
                     RegisteredCanLogIn, [AccountsNext]_accountsVars,
                     NEW n \in Logins, stage'[n] = "refused", login'[n].there,
                     login'[n].who \notin Seeds
              PROVE  FALSE
  BY DEF RegisteredCanLogIn
<1>. USE DEF AccountsTypeOK, AccountsAssumption, Creators, AccountCalls, Enter,
             RegisteredCanLogIn, tableVars, roleVars, accountVars
<1>1. CASE stage[n] = "refused" /\ login'[n] = login[n]
  BY <1>1
<1>2. CASE FindUser(n)
  <2>1. /\ login'[n].there <=> login[n].who \in users
        /\ \A u \in users : ~Matches(u, n)
    <3>1. stage'[n] # "compare"
      OBVIOUS
    <3>. QED BY <1>2, <3>1, FindUserFinds
  <2>. QED BY <2>1 DEF Matches
<1>3. CASE Compare(n)
  <2>. DEFINE u == login[n].found
  <2>1. login'[n] = login[n] /\ (u \notin credentials \/ u # login[n].who)
    BY <1>3 DEF Compare
  <2>2. u \in users /\ login[n].who \in users /\ Matches(u, n)
    BY <1>3, <2>1 DEF Compare, CallsKnowAccounts
  <2>3. login[n].by \in {"email", "phone"}
    OBVIOUS
  <2>4. Clash(u, login[n].who)
    BY <2>2, <2>3 DEF Clash, Matches
  <2>5. u = login[n].who
    BY <2>2, <2>4 DEF RowsInv, AccountsAreUnique
  <2>. QED BY <2>1, <2>2, <2>5 DEF RowsInv, RowsInOrder
<1>4. CASE LoginBegins(n)
  BY <1>4 DEF LoginBegins
<1>5. ASSUME NEW m \in Logins, LoginStep(m), m # n PROVE FALSE
  <2>1. stage'[n] = stage[n] /\ login'[n] = login[n]
    <3>1. CASE LoginBegins(m)
      BY <1>5, <3>1 DEF LoginBegins
    <3>2. CASE FindUser(m)
      BY <1>5, <3>2, FindUserFinds
    <3>3. CASE Compare(m)
      BY <1>5, <3>3 DEF Compare
    <3>. QED BY <1>5, <3>1, <3>2, <3>3 DEF LoginStep
  <2>. QED BY <1>1, <2>1
<1>6. ASSUME NEW c \in AccountCalls \ Logins, UNCHANGED login,
             \E label : stage' = [stage EXCEPT ![c] = label]
      PROVE  FALSE
  BY <1>1, <1>6
<1>7. ASSUME NEW g \in Registers, RegisterStep(g) PROVE FALSE
  BY <1>7, <1>6 DEF RegisterStep, RegisterBegins, FindByEmail, FindByPhone, InsertUser,
                    CommitUser, Announce
<1>8. ASSUME NEW s \in Seeds, SeedStep(s) PROVE FALSE
  BY <1>8, <1>6 DEF SeedStep, ReplicaStarts, FindByEmail, SeedUser, SeedCredential
<1>9. ASSUME NEW a \in Assigns, AssignStep(a) PROVE FALSE
  <2>1. UNCHANGED login /\ \E label : stage' = [stage EXCEPT ![a] = label]
    BY <1>9 DEF AssignStep, AssignBegins, SaveReads, SaveWrites
  <2>. QED BY <2>1, <1>6
<1>10. ASSUME NEW c \in AccountCalls, AccountFails(c) PROVE FALSE
  BY <1>10, <1>1 DEF AccountFails
<1>11. CASE UNCHANGED accountVars
  BY <1>11, <1>1
<1>. QED
  BY <1>2, <1>3, <1>4, <1>5, <1>7, <1>8, <1>9, <1>10, <1>11
     DEF AccountsNext, Accounts, accountsVars, LoginStep

(* Of two roles, a save() that did not read the one there is writes that   *)
(* one and fails; one that did replaces it.                                *)
RolesInv == OneRole /\ RolesAsAssigned

(* Whoever is there at first has the role of the registration.             *)
LEMMA RolesInit == AccountsAssumption /\ AccountsInit => RolesInv
<1>. SUFFICES ASSUME AccountsAssumption, AccountsInit PROVE RolesInv
  OBVIOUS
<1>1. Old \subseteq Creators
  BY OldTyped
<1>2. \A u \in users : roles[u] = {FirstRole(u)}
  BY <1>1 DEF AccountsInit
<1>3. \A c \in Assigns : stage[c] = "ready"
  BY <1>1 DEF AccountsInit, AccountCalls, Creators, AccountsAssumption
<1>4. \A c \in Creators : lastRole[c] = None
  BY DEF AccountsInit
<1>5. users \subseteq Creators
  BY <1>1 DEF AccountsInit
<1>. QED
  BY <1>2, <1>3, <1>4, <1>5 DEF RolesInv, OneRole, RolesAsAssigned, FirstRole, Roles

(* While no two assignRole overlap, the roles of a user are those last     *)
(* assigned.                                                               *)
LEMMA RolesNext ==
    AccountsAssumption /\ AccountsTypeOK /\ RowsInOrder /\ CallsKnowAccounts /\ RolesInv
    /\ [AccountsNext]_accountsVars
    => RolesInv'
<1>. SUFFICES ASSUME AccountsAssumption, AccountsTypeOK, RowsInOrder, CallsKnowAccounts,
                     RolesInv, [AccountsNext]_accountsVars
              PROVE  RolesInv'
  OBVIOUS
<1>. USE DEF AccountsTypeOK, AccountsAssumption, Creators, AccountCalls, Enter,
             OneRole, RolesAsAssigned, RolesInv, Roles, tableVars, roleVars, accountVars
<1>1. ASSUME NEW c \in Creators, UNCHANGED <<asked, lastRole, mixed>>,
             \E label : stage' = [stage EXCEPT ![c] = label],
             \/ UNCHANGED <<users, roles>>
             \/ /\ c \notin users /\ users' = users \cup {c}
                /\ \E role \in Roles : roles' = [roles EXCEPT ![c] = {role}]
      PROVE  RolesInv'
  <2>1. \A a \in Assigns : stage'[a] = stage[a]
    BY <1>1
  <2>2. \A a \in Assigns : stage[a] = "write" => asked[a].who \in users
    BY DEF CallsKnowAccounts
  <2>3. \A u \in users : roles'[u] = roles[u]
    BY <1>1
  <2>4. OneRole'
    BY <1>1, <2>1, <2>2, <2>3
  <2>5. RolesAsAssigned'
    BY <1>1, <2>3
  <2>. QED BY <2>4, <2>5
<1>2. ASSUME NEW g \in Registers, RegisterStep(g) PROVE RolesInv'
  <2>1. CASE RegisterBegins(g) \/ FindByEmail(g) \/ FindByPhone(g) \/ InsertUser(g) \/ Announce(g)
    BY <2>1, <1>1 DEF RegisterBegins, FindByEmail, FindByPhone, InsertUser, Announce
  <2>2. CASE CommitUser(g)
    BY <2>2, <1>1 DEF CommitUser, RowsInOrder
  <2>. QED BY <1>2, <2>1, <2>2 DEF RegisterStep
<1>3. ASSUME NEW s \in Seeds, SeedStep(s) PROVE RolesInv'
  <2>1. CASE ReplicaStarts(s) \/ FindByEmail(s) \/ SeedCredential(s)
    BY <2>1, <1>1 DEF ReplicaStarts, FindByEmail, SeedCredential
  <2>2. CASE SeedUser(s)
    BY <2>2, <1>1 DEF SeedUser, RowsInOrder
  <2>. QED BY <1>3, <2>1, <2>2 DEF SeedStep
<1>4. ASSUME NEW n \in Logins, LoginStep(n) PROVE RolesInv'
  <2>1. UNCHANGED <<users, roles, asked, lastRole, mixed>>
    BY <1>4 DEF LoginStep, LoginBegins, FindUser, Compare
  <2>2. \A a \in Assigns : stage'[a] = stage[a]
    <3>1. CASE LoginBegins(n)
      BY <3>1 DEF LoginBegins
    <3>2. CASE FindUser(n)
      BY <3>2, FindUserFinds
    <3>3. CASE Compare(n)
      BY <3>3 DEF Compare
    <3>. QED BY <1>4, <3>1, <3>2, <3>3 DEF LoginStep
  <2>. QED BY <2>1, <2>2
<1>5. ASSUME NEW a \in Assigns, AssignStep(a) PROVE RolesInv'
  <2>1. CASE AssignBegins(a)
    <3>1. /\ UNCHANGED <<users, roles, lastRole, mixed>>
          /\ \A b \in Assigns \ {a} : asked'[b] = asked[b] /\ stage'[b] = stage[b]
          /\ stage'[a] # "write"
      BY <2>1 DEF AssignBegins
    <3>. QED BY <3>1
  <2>2. CASE SaveReads(a)
    <3>. DEFINE u == asked[a].who
    <3>1. u \in users /\ u \in Creators
      BY <2>2 DEF SaveReads, CallsKnowAccounts
    <3>2. /\ asked' = [asked EXCEPT ![a].seen = roles[u]]
          /\ stage' = [stage EXCEPT ![a] = "write"]
          /\ UNCHANGED <<users, roles, lastRole>>
          /\ mixed \subseteq mixed'
      BY <2>2 DEF SaveReads
    <3>3. u \notin mixed' => \A b \in Assigns : stage[b] = "write" => asked[b].who # u
      BY <2>2 DEF SaveReads
    <3>4. /\ asked'[a].who = u /\ asked'[a].seen = roles[u]
          /\ \A b \in Assigns \ {a} : asked'[b] = asked[b] /\ stage'[b] = stage[b]
      BY <3>1, <3>2
    <3>5. OneRole'
      <4>1. ASSUME NEW b \in Assigns, stage'[b] = "write"
            PROVE  \E role \in Roles : asked'[b].seen = {role}
        BY <4>1, <3>1, <3>4
      <4>2. ASSUME NEW b \in Assigns, stage'[b] = "write", asked'[b].who \notin mixed'
            PROVE  /\ asked'[b].seen = roles'[asked'[b].who]
                   /\ \A d \in Assigns : stage'[d] = "write" /\ asked'[d].who = asked'[b].who
                        => b = d
        <5>1. CASE b = a
          BY <5>1, <4>2, <3>2, <3>3, <3>4
        <5>2. CASE b # a
          BY <5>2, <4>2, <3>2, <3>3, <3>4
        <5>. QED BY <5>1, <5>2
      <4>. QED BY <3>2, <4>1, <4>2
    <3>6. RolesAsAssigned'
      BY <3>2
    <3>. QED BY <3>5, <3>6
  <2>3. CASE SaveWrites(a)
    <3>. DEFINE u == asked[a].who  role == asked[a].role  seen == asked[a].seen
    <3>1. u \in users /\ role \in Roles
      BY <2>3 DEF SaveWrites, CallsKnowAccounts
    <3>2. PICK x \in Roles, y \in Roles : seen = {x} /\ roles[u] = {y}
      BY <2>3, <3>1 DEF SaveWrites
    <3>3. /\ stage' = [stage EXCEPT ![a] = stage'[a]] /\ stage'[a] \in {"done", "failed"}
          /\ UNCHANGED <<users, asked, mixed>>
      BY <2>3 DEF SaveWrites
    <3>4. \/ UNCHANGED <<roles, lastRole>>
          \/ roles' = [roles EXCEPT ![u] = {role}] /\ lastRole' = [lastRole EXCEPT ![u] = role]
          \/ y = role /\ UNCHANGED roles /\ lastRole' = [lastRole EXCEPT ![u] = role]
          \/ u \in mixed /\ UNCHANGED roles /\ lastRole' = [lastRole EXCEPT ![u] = role]
      <4>1. CASE role \in roles[u] \ seen
        BY <4>1, <2>3 DEF SaveWrites
      <4>2. CASE role \notin roles[u] \ seen /\ seen = {role}
        <5>1. UNCHANGED roles /\ lastRole' = [lastRole EXCEPT ![u] = role]
          BY <4>2, <2>3 DEF SaveWrites
        <5>2. u \in mixed \/ y = role
          BY <4>2, <2>3, <3>2 DEF SaveWrites
        <5>. QED BY <5>1, <5>2
      <4>3. CASE role \notin roles[u] \ seen /\ seen # {role}
        <5>1. x = y /\ (roles[u] \ seen) \cup {role} = {role}
          BY <4>3, <3>1, <3>2
        <5>2. /\ roles' = [roles EXCEPT ![u] = (roles[u] \ seen) \cup {role}]
              /\ lastRole' = [lastRole EXCEPT ![u] = role]
          BY <4>3, <2>3 DEF SaveWrites
        <5>. QED BY <5>1, <5>2
      <4>. QED BY <4>1, <4>2, <4>3
    <3>5. OneRole'
      <4>1. \A w \in users' : \E r \in Roles : roles'[w] = {r}
        BY <3>1, <3>3, <3>4
      <4>2. \A w \in Creators \ users' : lastRole'[w] = None
        BY <3>1, <3>3, <3>4
      <4>3. \A b \in Assigns : stage'[b] = "write" => b # a /\ stage[b] = "write"
        BY <3>3
      <4>4. \A b \in Assigns : stage'[b] = "write" /\ asked[b].who \notin mixed =>
              asked[b].who # u
        BY <2>3, <4>3 DEF SaveWrites
      <4>5. \A w \in Creators \ {u} : roles'[w] = roles[w]
        BY <3>4
      <4>6. ASSUME NEW b \in Assigns, stage'[b] = "write"
            PROVE  \E r \in Roles : asked'[b].seen = {r}
        BY <4>3, <4>6, <3>3
      <4>7. ASSUME NEW b \in Assigns, stage'[b] = "write", asked'[b].who \notin mixed'
            PROVE  /\ asked'[b].seen = roles'[asked'[b].who]
                   /\ \A d \in Assigns : stage'[d] = "write" /\ asked'[d].who = asked'[b].who
                        => b = d
        <5>1. asked[b].who \in Creators /\ asked[b].who # u
          BY <4>3, <4>4, <4>7, <3>3 DEF CallsKnowAccounts
        <5>. QED BY <5>1, <4>3, <4>5, <4>7, <3>3
      <4>. QED BY <4>1, <4>2, <4>6, <4>7
    <3>6. RolesAsAssigned'
      BY <3>1, <3>2, <3>3, <3>4
    <3>. QED BY <3>5, <3>6
  <2>. QED BY <1>5, <2>1, <2>2, <2>3 DEF AssignStep
<1>6. ASSUME NEW c \in AccountCalls, AccountFails(c) PROVE RolesInv'
  BY <1>6 DEF AccountFails
<1>7. CASE UNCHANGED accountVars
  BY <1>7
<1>. QED BY <1>2, <1>3, <1>4, <1>5, <1>6, <1>7 DEF AccountsNext, Accounts, accountsVars

(* Nobody has an address or a phone in common with the admin's row, which  *)
(* is there as soon as there is any.                                       *)
LEMMA AloneFromRows ==
    AccountsAssumption /\ AccountsTypeOK /\ RowsInv => AdminIsAlone
<1>. SUFFICES ASSUME AccountsAssumption, AccountsTypeOK, RowsInv PROVE AdminIsAlone
  OBVIOUS
<1>. USE DEF AccountsAssumption, RowsInv, AdminIsFirst, AccountsAreUnique, Clash
<1>1. \A s, t \in users \cap Seeds : s = t
  OBVIOUS
<1>2. ASSUME NEW g \in users \cap Registers
      PROVE  form[g].email # AdminForm.email /\ form[g].phone # AdminForm.phone
  <2>1. stage[g] # "ready" /\ g \in AccountCalls \ Seeds
    BY DEF RowsInOrder, AccountCalls, Creators
  <2>2. PICK s \in users \cap Seeds : TRUE
    BY <2>1
  <2>. QED BY <2>2
<1>. QED BY <1>1, <1>2 DEF AdminIsAlone

(* What is inductive; the rest of AccountsInv follows.                     *)
AccountsInd ==
    AccountsTypeOK /\ RowsInv /\ CallsKnowAccounts /\ RolesInv /\ RegisteredCanLogIn

(* Whatever is registered, seeded, logged in and assigned at once, an      *)
(* address and a phone have one account, the admin's is the first, the     *)
(* registered can log in and everybody has one role.                       *)
THEOREM AccountsInvariant == AccountsSpec => []AccountsInv
<1>1. AccountsInit => AccountsInd
  <2>. SUFFICES ASSUME AccountsInit PROVE AccountsInd
    OBVIOUS
  <2>1. AccountsTypeOK /\ RowsInv /\ CallsKnowAccounts /\ RolesInv
    BY AccountsAssumption, AccountsTypeInit, RowsInit, CallsKnowInit, RolesInit
  <2>2. RegisteredCanLogIn
    <3>1. \A n \in Logins : ~login[n].there
      BY DEF AccountsInit
    <3>. QED BY <3>1 DEF RegisteredCanLogIn
  <2>. QED BY <2>1, <2>2 DEF AccountsInd
<1>2. AccountsInd /\ [AccountsNext]_accountsVars => AccountsInd'
  <2>. SUFFICES ASSUME AccountsInd, [AccountsNext]_accountsVars PROVE AccountsInd'
    OBVIOUS
  <2>. USE AccountsAssumption DEF AccountsInd
  <2>1. AccountsTypeOK'
    BY AccountsTypeNext
  <2>2. RowsInv'
    BY UniqueNext, RowsInOrderNext, AdminFirstNext DEF RowsInv
  <2>3. CallsKnowAccounts' /\ RegisteredCanLogIn'
    BY CallsKnowNext, LoginNext
  <2>4. RolesInv'
    BY RolesNext DEF RowsInv
  <2>. QED BY <2>1, <2>2, <2>3, <2>4
<1>3. AccountsInd => AccountsInv
  BY AccountsAssumption, AloneFromRows DEF AccountsInd, AccountsInv, RowsInv, RolesInv
<1>. QED BY <1>1, <1>2, <1>3, PTL DEF AccountsSpec

(* Who registered and types the right password is let in.                  *)
THEOREM TheRegisteredCanLogIn == AccountsSpec => []RegisteredCanLogIn
<1>1. AccountsInv => RegisteredCanLogIn
  BY DEF AccountsInv
<1>. QED BY <1>1, AccountsInvariant, PTL

(* No customer gets the admin's address or phone, and no second admin is   *)
(* seeded.                                                                 *)
THEOREM TheAdminIsAlone == AccountsSpec => []AdminIsAlone
<1>1. AccountsInv => AdminIsAlone
  BY DEF AccountsInv
<1>. QED BY <1>1, AccountsInvariant, PTL

(* The role assigned last is the one that is kept.                         *)
THEOREM RolesAreAsAssigned == AccountsSpec => []RolesAsAssigned
<1>1. AccountsInv => RolesAsAssigned
  BY DEF AccountsInv
<1>. QED BY <1>1, AccountsInvariant, PTL

-----------------------------------------------------------------------------
(* The codes of Holder are those of Otp, of which Accounts allows fewer    *)
(* behaviours.                                                             *)
LEMMA CodesAreOtp == [AccountsNext]_accountsVars => [OtpNext]_otpVars
<1>. SUFFICES ASSUME [AccountsNext]_accountsVars PROVE [OtpNext]_otpVars
  OBVIOUS
<1>1. CASE UNCHANGED otpVars
  BY <1>1
<1>2. CASE Codes
  BY <1>2 DEF Codes, RequestCode, VerifyCode, OtpNext, RequestStep, VerifyStep
<1>. QED BY <1>1, <1>2 DEF AccountsNext, accountsVars

(* An identity service with accounts is one whose codes behave as Otp says. *)
THEOREM AccountsImplementOtp == AccountsSpec => OtpSpec
<1>1. AccountsInit => OtpInit
  BY DEF AccountsInit
<1>. QED BY <1>1, CodesAreOtp, PTL DEF AccountsSpec, OtpSpec

(* What holds of the codes holds of them among the accounts.               *)
THEOREM CodesOfAnAccount == AccountsSpec => []OtpInv
  BY AccountsImplementOtp, OtpInvariant, PTL

(* ... and so are the attempts at them.                                    *)
THEOREM AttemptsAtAnAccount == AccountsSpec => []AttemptsAreItsOwn
BY AccountsImplementOtp, AttemptsAreCounted, PTL
=============================================================================
