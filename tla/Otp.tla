-------------------------------- MODULE Otp --------------------------------
(***************************************************************************)
(* The one-time codes of a user: IdentityService's requestOtp and          *)
(* verifyOtp over the Redis keys otp:{userId}, otp:attempts:{userId} and   *)
(* rl:otp_request:{identifier}, command by command.  verifyOtp ends in     *)
(* issueSession, which Sessions describes.                                 *)
(*                                                                         *)
(* A code is named after the request that makes it: two requests do not    *)
(* draw the same six digits.  The audit rows, which change no key, are     *)
(* left out.  Module Accounts says who has an account to request codes.    *)
(***************************************************************************)
EXTENDS Naturals

CONSTANTS Requests, Verifies,
          None,          \* no code
          MaxAttempts,   \* OTP_MAX_ATTEMPTS
          RequestLimit   \* OTP_REQUEST_LIMIT

ASSUME OtpAssumption ==
    /\ Requests \cap Verifies = {}
    /\ None \notin Requests
    /\ MaxAttempts \in Nat \ {0}
    /\ RequestLimit \in Nat \ {0}

VARIABLES otp,         \* otp:{userId}
          attempts,    \* otp:attempts:{userId}, 0: no key
          attemptsTtl, \* that key has an expiry ...
          young,       \* ... which began after the code's
          window,      \* rl:otp_request:{identifier}, 0: no key
          windowTtl,
          at,          \* the await each call is at
          presented,   \* the code that each verify was given
          mailed,      \* the codes published in user.otp.requested ...
          lastMail,    \* ... and the last of them
          tried,       \* history: verifies begun while a code was stored
          compared,    \* history: how often a code was compared
          accepted,    \* history: how often a code was accepted
          raced,       \* history: codes read by a verify while another accepted
          overlapped,  \* history: codes stored while other calls were under way
          replaced,    \* history: codes replaced before they were mailed
          unexpiring   \* history: keys whose EXPIRE was not reached

keyVars == <<otp, attempts, attemptsTtl, young>>
windowVars == <<window, windowTtl>>
mailVars == <<mailed, lastMail>>
historyVars == <<tried, compared, accepted, raced, overlapped, replaced, unexpiring>>
otpVars == <<keyVars, windowVars, at, presented, mailVars, historyVars>>

Calls == Requests \cup Verifies

(* A verify that has been counted, one that is about to delete keys, and   *)
(* one whose code was right.                                               *)
Counted == {"expireAttempts", "get"}
Accepted == {"del", "clear", "issue"}
Deleting == {"del", "clear", "delOver", "clearOver"}

(* What the variables hold: codes are named by their requests, and a       *)
(* verify past the comparison was given one.                               *)
OtpTypeOK ==
    /\ otp \in Requests \cup {None}
    /\ attempts \in Nat /\ window \in Nat
    /\ attemptsTtl \in BOOLEAN /\ windowTtl \in BOOLEAN /\ young \in BOOLEAN
    /\ at \in [Calls -> {"ready", "expireWindow", "set", "clear", "publish", "issue",
                         "done", "refused", "failed"} \cup Counted \cup Deleting]
    /\ presented \in [Verifies -> Requests \cup {None}]
    /\ \A v \in Verifies : at[v] \in Accepted \cup {"done"} => presented[v] \in Requests
    /\ mailed \subseteq Requests /\ lastMail \in Requests \cup {None}
    /\ tried \in [Requests -> Nat]
    /\ compared \in [Requests -> Nat]
    /\ accepted \in [Requests -> Nat]
    /\ raced \subseteq Requests
    /\ overlapped \subseteq Requests
    /\ replaced \subseteq Requests
    /\ unexpiring \subseteq {"attempts", "window"}

OtpInit ==
    /\ otp = None
    /\ attempts = 0 /\ window = 0
    /\ attemptsTtl = FALSE /\ windowTtl = FALSE /\ young = FALSE
    /\ at = [c \in Calls |-> "ready"]
    /\ presented = [v \in Verifies |-> None]
    /\ mailed = {} /\ lastMail = None
    /\ tried = [r \in Requests |-> 0]
    /\ compared = [r \in Requests |-> 0]
    /\ accepted = [r \in Requests |-> 0]
    /\ raced = {}
    /\ overlapped = {}
    /\ replaced = {}
    /\ unexpiring = {}

Goto(c, label) == at' = [at EXCEPT ![c] = label]

Count(f, code) == [f EXCEPT ![code] = @ + 1]

(* DEL otp:attempts:{userId} *)
DelAttempts ==
    /\ attempts' = 0
    /\ attemptsTtl' = FALSE
    /\ unexpiring' = unexpiring \ {"attempts"}

-----------------------------------------------------------------------------
(* requestOtp *)

(* RedisRateLimiter.hit: INCR; the first in a window has EXPIRE to do.     *)
Hit(r) ==
    /\ at[r] = "ready"
    /\ window' = window + 1
    /\ Goto(r, IF window = 0 THEN "expireWindow"
               ELSE IF window < RequestLimit THEN "set" ELSE "refused")
    /\ UNCHANGED <<keyVars, windowTtl, presented, mailVars, historyVars>>

ExpireWindow(r) ==
    /\ at[r] = "expireWindow"
    /\ windowTtl' = TRUE
    /\ Goto(r, "set")
    /\ UNCHANGED <<keyVars, window, presented, mailVars, historyVars>>

(* Mutant: a code that was not used is kept. *)
SetCodeIfNone(r) ==
    /\ at[r] = "set"
    /\ otp' = IF otp = None THEN r ELSE otp
    /\ young' = FALSE
    /\ Goto(r, "clear")
    /\ UNCHANGED <<attempts, attemptsTtl, windowVars, presented, mailVars, historyVars>>

(* otp.set.  Other calls may be about to count, compare or clear.          *)
SetCode(r) ==
    /\ at[r] = "set"
    /\ otp' = r
    /\ young' = FALSE
    /\ overlapped' = IF \/ \E v \in Verifies : at[v] \in Counted \cup Deleting
                        \/ \E q \in Requests : at[q] = "clear"
                       THEN overlapped \cup {r} ELSE overlapped
    /\ replaced' = replaced \cup {q \in Requests : at[q] \in {"clear", "publish"}}
    /\ Goto(r, "clear")
    /\ UNCHANGED <<attempts, attemptsTtl, windowVars, presented, mailVars,
                   tried, compared, accepted, raced, unexpiring>>

(* Mutant: the attempts at the last code are charged to the new one. *)
KeepAttempts(r) ==
    /\ at[r] = "clear"
    /\ Goto(r, "publish")
    /\ UNCHANGED <<keyVars, windowVars, presented, mailVars, historyVars>>

(* otp.clearAttempts *)
ClearForCode(r) ==
    /\ at[r] = "clear"
    /\ DelAttempts
    /\ Goto(r, "publish")
    /\ UNCHANGED <<otp, young, windowVars, presented, mailVars,
                   tried, compared, accepted, raced, overlapped, replaced>>

(* events.publish: the code goes to the user by mail. *)
PublishCode(r) ==
    /\ at[r] = "publish"
    /\ mailed' = mailed \cup {r}
    /\ lastMail' = r
    /\ Goto(r, "done")
    /\ UNCHANGED <<keyVars, windowVars, presented, historyVars>>

-----------------------------------------------------------------------------
(* verifyOtp *)

(* incrAttempts: INCR.  The user types a code that was mailed, or another. *)
Incr(v) ==
    /\ at[v] = "ready"
    /\ \E code \in mailed \cup {None} :
         presented' = [presented EXCEPT ![v] = code]
    /\ attempts' = attempts + 1
    /\ tried' = IF otp = None THEN tried ELSE Count(tried, otp)
    /\ overlapped' = overlapped \cup {r \in Requests : at[r] = "clear"}
    /\ Goto(v, IF attempts = 0 THEN "expireAttempts"
               ELSE IF attempts >= MaxAttempts THEN "delOver" ELSE "get")
    /\ UNCHANGED <<otp, attemptsTtl, young, windowVars, mailVars,
                   compared, accepted, raced, replaced, unexpiring>>

(* incrAttempts: EXPIRE, without effect when the key is gone. *)
ExpireAttempts(v) ==
    /\ at[v] = "expireAttempts"
    /\ IF attempts > 0
         THEN /\ attemptsTtl' = TRUE /\ young' = (otp # None)
              /\ unexpiring' = unexpiring \ {"attempts"}
         ELSE UNCHANGED <<attemptsTtl, young, unexpiring>>
    /\ Goto(v, "get")
    /\ UNCHANGED <<otp, attempts, windowVars, presented, mailVars,
                   tried, compared, accepted, raced, overlapped, replaced>>

(* Too many attempts: otp.del and otp.clearAttempts, and the call is       *)
(* refused.                                                                *)
DelOver(v) ==
    /\ at[v] = "delOver"
    /\ otp' = None
    /\ Goto(v, "clearOver")
    /\ UNCHANGED <<attempts, attemptsTtl, young, windowVars, presented, mailVars, historyVars>>

ClearOver(v) ==
    /\ at[v] = "clearOver"
    /\ DelAttempts
    /\ Goto(v, "refused")
    /\ UNCHANGED <<otp, young, windowVars, presented, mailVars,
                   tried, compared, accepted, raced, overlapped, replaced>>

(* otp.get and verifyOtpConstantTime. *)
Get(v) ==
    /\ at[v] = "get"
    /\ Goto(v, IF otp # None /\ presented[v] = otp THEN "del" ELSE "refused")
    /\ compared' = IF otp = None THEN compared ELSE Count(compared, otp)
    /\ raced' = IF \E w \in Verifies : at[w] = "del" /\ presented[w] = otp
                  THEN raced \cup {otp} ELSE raced
    /\ UNCHANGED <<keyVars, windowVars, presented, mailVars,
                   tried, accepted, overlapped, replaced, unexpiring>>

(* Mutant: a code that was accepted is left to expire. *)
KeepCode(v) ==
    /\ at[v] = "del"
    /\ Goto(v, "clear")
    /\ UNCHANGED <<keyVars, windowVars, presented, mailVars, historyVars>>

(* otp.del, whichever code is stored by now. *)
DelCode(v) ==
    /\ at[v] = "del"
    /\ otp' = None
    /\ Goto(v, "clear")
    /\ UNCHANGED <<attempts, attemptsTtl, young, windowVars, presented, mailVars, historyVars>>

(* otp.clearAttempts *)
ClearAttempts(v) ==
    /\ at[v] = "clear"
    /\ DelAttempts
    /\ Goto(v, "issue")
    /\ UNCHANGED <<otp, young, windowVars, presented, mailVars,
                   tried, compared, accepted, raced, overlapped, replaced>>

(* issueSession *)
Issue(v) ==
    /\ at[v] = "issue"
    /\ accepted' = Count(accepted, presented[v])
    /\ Goto(v, "done")
    /\ UNCHANGED <<keyVars, windowVars, presented, mailVars,
                   tried, compared, raced, overlapped, replaced, unexpiring>>

-----------------------------------------------------------------------------
(* findByEmailOrPhone finds nobody: the request is answered all the same,  *)
(* "do not reveal whether identifier exists", and the verify is refused.   *)
AskedForNobody(r) ==
    /\ at[r] = "set"
    /\ Goto(r, "done")
    /\ UNCHANGED <<keyVars, windowVars, presented, mailVars, historyVars>>

TriedForNobody(v) ==
    /\ at[v] = "ready"
    /\ Goto(v, "refused")
    /\ UNCHANGED <<keyVars, windowVars, presented, mailVars, historyVars>>

Over == {"done", "refused", "failed"}

(* A command rejects, or the replica dies: nothing that follows is done.   *)
Fails(c) ==
    /\ at[c] \notin Over \cup {"ready"}
    /\ overlapped' = IF c \in Requests /\ at[c] = "clear" THEN overlapped \cup {c}
                     ELSE overlapped
    /\ unexpiring' = IF at[c] = "expireAttempts" THEN unexpiring \cup {"attempts"}
                     ELSE IF at[c] = "expireWindow" THEN unexpiring \cup {"window"}
                     ELSE unexpiring
    /\ Goto(c, "failed")
    /\ UNCHANGED <<keyVars, windowVars, presented, mailVars, tried, compared, accepted, raced, replaced>>

(* OTP_TTL_SECONDS from set; from the first attempt, which outlives a code *)
(* that was set before it; and OTP_REQUEST_WINDOW_SECONDS.                 *)
CodeExpires ==
    /\ otp # None
    /\ otp' = None
    /\ UNCHANGED <<attempts, attemptsTtl, young, windowVars, at, presented, mailVars, historyVars>>

AttemptsExpire ==
    /\ attempts > 0 /\ attemptsTtl
    /\ young => otp = None
    /\ attempts' = 0 /\ attemptsTtl' = FALSE
    /\ UNCHANGED <<otp, young, windowVars, at, presented, mailVars, historyVars>>

WindowEnds ==
    /\ window > 0 /\ windowTtl
    /\ window' = 0 /\ windowTtl' = FALSE
    /\ UNCHANGED <<keyVars, at, presented, mailVars, historyVars>>

RequestStep(r) ==
    \/ Hit(r) \/ ExpireWindow(r) \/ AskedForNobody(r)
    \/ SetCode(r) \/ ClearForCode(r) \/ PublishCode(r)

VerifyStep(v) ==
    \/ TriedForNobody(v) \/ Incr(v) \/ ExpireAttempts(v) \/ DelOver(v) \/ ClearOver(v)
    \/ Get(v) \/ DelCode(v) \/ ClearAttempts(v) \/ Issue(v)

OtpNext ==
    \/ \E r \in Requests : RequestStep(r)
    \/ \E v \in Verifies : VerifyStep(v)
    \/ \E c \in Calls : Fails(c)
    \/ CodeExpires \/ AttemptsExpire \/ WindowEnds

OtpSpec == OtpInit /\ [][OtpNext]_otpVars

-----------------------------------------------------------------------------
(* Properties. *)

(* A code logs in once, unless a verify read it while another that had     *)
(* accepted it was about to delete it.                                     *)
CodeAcceptedOnce == \A code \in Requests \ raced : accepted[code] <= 1

(* The attempts that are counted are those at the stored code, not at the  *)
(* one before, and it is compared MAX_ATTEMPTS times at most; unless other *)
(* calls were under way when it was stored and its attempts cleared.       *)
AttemptsAreItsOwn ==
    \A code \in Requests \ overlapped :
        /\ otp = code /\ at[code] # "clear" => attempts = tried[code]
        /\ compared[code] <= MaxAttempts

(* A counter without an expiry is about to be given one, or was left that  *)
(* way by a call that ended between INCR and EXPIRE.                       *)
CountersExpire ==
    /\ attempts > 0 /\ ~attemptsTtl =>
         "attempts" \in unexpiring \/ \E v \in Verifies : at[v] = "expireAttempts"
    /\ window > 0 /\ ~windowTtl =>
         "window" \in unexpiring \/ \E r \in Requests : at[r] = "expireWindow"

(* The code that was mailed last is the one that is stored, if any is,     *)
(* unless the stored one is on its way or could not be mailed, or replaced *)
(* the other before that was mailed.                                       *)
LastMailCounts ==
    lastMail # None /\ otp \notin {None, lastMail} =>
        lastMail \in replaced \/ at[otp] \in {"clear", "publish", "failed"}

-----------------------------------------------------------------------------
(* The inductive invariants.  A code is stored once, before it is mailed,  *)
(* and presented after.                                                    *)
Unstored(r) == at[r] \in {"ready", "expireWindow", "set"}

CodesInOrder ==
    /\ mailed \subseteq {r \in Requests : ~Unstored(r)}
    /\ otp # None => ~Unstored(otp)
    /\ \A v \in Verifies : presented[v] \in mailed \cup {None}
    /\ \A r \in Requests : accepted[r] > 0 => r \in mailed
    /\ \A r \in Requests : at[r] \in {"clear", "publish"} => r \notin mailed

Accepts(v, code) == at[v] \in Accepted /\ presented[v] = code

(* Once a code is deleted, nobody accepts it that had not read it.         *)
OneAccepts ==
    \A code \in Requests \ raced :
        /\ \A v, w \in Verifies : Accepts(v, code) /\ Accepts(w, code) => v = w
        /\ \A v \in Verifies :
             Accepts(v, code) => accepted[code] = 0 /\ (at[v] # "del" => otp # code)
        /\ accepted[code] > 0 => accepted[code] = 1 /\ otp # code

(* A code that was stored and has not been mailed is still stored, unless  *)
(* it was deleted or replaced.                                             *)
StoredUntilReplaced ==
    \A r \in Requests : at[r] \in {"clear", "publish"} =>
        otp \in {None, r} \/ r \in replaced

(* Taken together: a code is stored, then mailed, then presented, and one  *)
(* verify accepts it; and a code that was stored stays so until it is used *)
(* or replaced, so that the last mail has the stored one.                  *)
OtpInv ==
    /\ OtpTypeOK /\ CodesInOrder /\ OneAccepts /\ CodeAcceptedOnce
    /\ CountersExpire
    /\ StoredUntilReplaced /\ LastMailCounts
=============================================================================
