----------------------------- MODULE WebSession -----------------------------
(***************************************************************************)
(* The sessions of a user as a browser lives them: the tabs of the web app *)
(* in front of the identity service.  Each tab keeps its access token in   *)
(* memory (store/auth.ts) and joins its refreshes in refreshPromise        *)
(* (lib/api.ts); all tabs share the httpOnly refresh cookie, which only    *)
(* the gateway sets and clears, with the answers of AuthController.        *)
(*                                                                         *)
(* The calls of the tabs, and of the user's other devices, are the calls   *)
(* of module Sessions, each at its own await.  A tab has one login or      *)
(* logout under way at a time.  Access tokens expire, so a tab may be told *)
(* 401 at any time.                                                        *)
(***************************************************************************)
EXTENDS Sessions

CONSTANT Tabs

ASSUME WebAssumption == None \notin Tabs

VARIABLES cookie,  \* the refresh_token cookie of the browser
          access,  \* accessToken in the store of each tab
          refresh, \* the fetch behind each tab's refreshPromise
          form,    \* the call of each tab's login or logout
          late,    \* the token of a refresh the tab gave up and that may yet arrive
          client,  \* history: the tab each call is of, None: another device
          lost     \* history: the calls whose answer the browser never took

browser == <<cookie, access, form, late, client, lost>>
webVars == <<vars, cookie, access, refresh, form, late, client, lost>>

NoFetch == [stage |-> "none", token |-> None, call |-> None]

(* What the variables hold: the cookie, the stores and the fetches name    *)
(* calls of Sessions.                                                      *)
WebTypeOK ==
    /\ cookie \in Ids
    /\ access \in [Tabs -> Ids]
    /\ refresh \in [Tabs -> [stage : {"none", "sent", "served"}, token : Ids, call : Ids]]
    /\ form \in [Tabs -> Ids]
    /\ late \in [Tabs -> Ids]
    /\ client \in [Calls -> Tabs \cup {None}]
    /\ lost \in SUBSET Calls

WebInit ==
    /\ Init
    /\ cookie = None
    /\ access = [b \in Tabs |-> None]
    /\ refresh = [b \in Tabs |-> NoFetch]
    /\ form = [b \in Tabs |-> None]
    /\ late = [b \in Tabs |-> None]
    /\ client = [c \in Calls |-> None]
    /\ lost = {}

-----------------------------------------------------------------------------
(* silentRefresh *)

Sent(token) == [stage |-> "sent", token |-> token, call |-> None]
Accepted(token, c) == [stage |-> "served", token |-> token, call |-> c]

(* Mutant: refreshes are not joined; a second one replaces the first. *)
SendRefreshAlways(b) ==
    /\ refresh[b].stage # "sent"
    /\ refresh' = [refresh EXCEPT ![b] = Sent(cookie)]
    /\ UNCHANGED <<vars, browser>>

(* Providers and RequireAuth on a page without a token, or apiFetch after  *)
(* a 401: whoever comes while one is under way waits for that one.  The    *)
(* browser attaches the cookie it has now.                                 *)
SendRefresh(b) ==
    /\ refresh[b] = NoFetch
    /\ refresh' = [refresh EXCEPT ![b] = Sent(cookie)]
    /\ UNCHANGED <<vars, browser>>

(* The gateway passes the cookie on, and IdentityService.refresh looks it  *)
(* up.                                                                     *)
ServeRefresh(b, c) ==
    /\ refresh[b].stage = "sent"
    /\ RefreshLookup(c)
    /\ arg'[c] = refresh[b].token
    /\ client' = [client EXCEPT ![c] = b]
    /\ refresh' = [refresh EXCEPT ![b] = Accepted(@.token, c)]
    /\ UNCHANGED <<cookie, access, form, late, lost>>

(* A request the tab has given up is served all the same. *)
ServeLate(b, c) ==
    /\ late[b] # None
    /\ RefreshLookup(c)
    /\ arg'[c] = late[b]
    /\ client' = [client EXCEPT ![c] = b]
    /\ late' = [late EXCEPT ![b] = None]
    /\ lost' = lost \cup {c}
    /\ UNCHANGED <<cookie, access, refresh, form>>

Served(b) == refresh[b].stage = "served"

(* Mutant: the gateway does not set the new cookie. *)
RefreshAnsweredWithoutCookie(b) ==
    LET c == refresh[b].call
    IN  /\ Served(b)
        /\ pc[c] = "done" /\ op[c] = "refresh"
        /\ access' = [access EXCEPT ![b] = c]
        /\ refresh' = [refresh EXCEPT ![b] = NoFetch]
        /\ UNCHANGED <<vars, cookie, form, late, client, lost>>

(* Mutant: refreshPromise is not reset. *)
RefreshAnsweredForGood(b) ==
    LET c == refresh[b].call
    IN  /\ Served(b)
        /\ pc[c] = "done" /\ op[c] = "refresh"
        /\ cookie' = c
        /\ access' = [access EXCEPT ![b] = c]
        /\ UNCHANGED <<vars, refresh, form, late, client, lost>>

(* 2xx: the gateway set the cookie, and the tab takes the access token. *)
RefreshAnswered(b) ==
    LET c == refresh[b].call
    IN  /\ Served(b)
        /\ pc[c] = "done" /\ op[c] = "refresh"
        /\ cookie' = c
        /\ access' = [access EXCEPT ![b] = c]
        /\ refresh' = [refresh EXCEPT ![b] = NoFetch]
        /\ UNCHANGED <<vars, form, late, client, lost>>

(* Any other answer, from the gateway or the identity service: the store   *)
(* is cleared, even of a token it got from a login in the meantime.  The   *)
(* cookie stays.                                                           *)
RefreshRefused(b) ==
    LET c == refresh[b].call
    IN  /\ \/ refresh[b].stage = "sent"
           \/ Served(b) /\ pc[c] = "failed"
           \/ Served(b) /\ pc[c] = "done" /\ op[c] = "reuse"
        /\ access' = [access EXCEPT ![b] = None]
        /\ refresh' = [refresh EXCEPT ![b] = NoFetch]
        /\ UNCHANGED <<vars, cookie, form, late, client, lost>>

(* What becomes of a fetch of b that is given up. *)
GiveUp(b, calls) ==
    /\ late' = IF refresh[b].stage = "sent" /\ refresh[b].token # None
                 THEN [late EXCEPT ![b] = refresh[b].token] ELSE late
    /\ lost' = lost \cup (calls \ {None})

(* fetch rejects, and the store keeps what it has; or the gateway has lost *)
(* the call it made and answers 5xx, and the store is cleared.             *)
RefreshLost(b) ==
    /\ refresh[b] # NoFetch
    /\ GiveUp(b, {refresh[b].call})
    /\ refresh' = [refresh EXCEPT ![b] = NoFetch]
    /\ access' \in {access, [access EXCEPT ![b] = None]}
    /\ UNCHANGED <<vars, cookie, form, client>>

(* The tab loads a page: its memory and its fetches are gone, and          *)
(* Providers refreshes.                                                    *)
Reload(b) ==
    /\ GiveUp(b, {refresh[b].call, form[b]})
    /\ access' = [access EXCEPT ![b] = None]
    /\ form' = [form EXCEPT ![b] = None]
    /\ refresh' = [refresh EXCEPT ![b] = Sent(cookie)]
    /\ UNCHANGED <<vars, cookie, client>>

-----------------------------------------------------------------------------
(* The login, registration and OTP forms, and the logout buttons. *)

LogIn(b, c) ==
    /\ form[b] = None
    /\ CreateSession(c)
    /\ form' = [form EXCEPT ![b] = c]
    /\ client' = [client EXCEPT ![c] = b]
    /\ UNCHANGED <<cookie, access, refresh, late, lost>>

(* Logout sends the tab's access token and the browser's cookie. *)
SignOut(b, c) ==
    /\ form[b] = None
    /\ access[b] \notin denied \cup {None}
    /\ \/ Logout(c) /\ seen'[c] = {access[b]} /\ arg'[c] = cookie
       \/ LogoutAll(c)
    /\ form' = [form EXCEPT ![b] = c]
    /\ client' = [client EXCEPT ![c] = b]
    /\ UNCHANGED <<cookie, access, refresh, late, lost>>

(* A login sets the cookie and the store; a logout clears both, whoever    *)
(* set them since.                                                         *)
FormAnswered(b) ==
    LET c == form[b]
        held == IF op[c] = "login" THEN c ELSE None
    IN  /\ c # None
        /\ pc[c] = "done"
        /\ cookie' = held
        /\ access' = [access EXCEPT ![b] = held]
        /\ form' = [form EXCEPT ![b] = None]
        /\ UNCHANGED <<vars, refresh, late, client, lost>>

(* The call fails, or its answer does not arrive.  The header's logout     *)
(* clears the store even so; the dashboard's does not.                     *)
FormFails(b) ==
    /\ form[b] # None
    /\ form' = [form EXCEPT ![b] = None]
    /\ \/ UNCHANGED access
       \/ op[form[b]] = "logout" /\ access' = [access EXCEPT ![b] = None]
    /\ lost' = lost \cup {form[b]}
    /\ UNCHANGED <<vars, cookie, refresh, late, client>>

(* AuthGuard does not accept the token of a logout, or there is no         *)
(* gateway: apiFetch does not refresh for /auth/ paths, the header ignores *)
(* the error and clears the store, and the cookie stays.                   *)
SignOutRefused(b) ==
    /\ form[b] = None
    /\ access[b] # None
    /\ access' = [access EXCEPT ![b] = None]
    /\ UNCHANGED <<vars, cookie, refresh, form, late, client, lost>>

-----------------------------------------------------------------------------

(* A call of another device; it has the tokens of such calls.  A session   *)
(* may be revoked from a tab too, but its store does not change by that.   *)
OtherBegins(c) ==
    /\ \/ CreateSession(c)
       \/ RefreshLookup(c) /\ client[arg'[c]] = None
       \/ /\ Logout(c)
          /\ \A t \in seen'[c] \cup ({arg'[c]} \ {None}) : client[t] = None
       \/ RevokeSession(c)
       \/ LogoutAll(c)
    /\ UNCHANGED <<browser, refresh>>

Proceeds(c) ==
    /\ Continues(c) \/ Fails(c)
    /\ UNCHANGED <<browser, refresh>>

TabNext(b) ==
    \/ SendRefresh(b) \/ RefreshAnswered(b) \/ RefreshRefused(b) \/ RefreshLost(b)
    \/ Reload(b) \/ FormAnswered(b) \/ FormFails(b) \/ SignOutRefused(b)
    \/ \E c \in Calls : ServeRefresh(b, c) \/ ServeLate(b, c) \/ LogIn(b, c) \/ SignOut(b, c)

WebNext ==
    \/ \E b \in Tabs : TabNext(b)
    \/ \E c \in Calls : OtherBegins(c) \/ Proceeds(c)

WebSpec == WebInit /\ [][WebNext]_webVars

-----------------------------------------------------------------------------
(* Properties. *)

(* d ended the token t, and not by a refresh whose answer its tab took. *)
SpentOtherwise(d, t) ==
    /\ Ends(d, t)
    /\ op[d] = "refresh" => d \in lost \/ pc[d] = "failed"

(* lib/api.ts joins the refreshes of a tab, so that a tab whose requests   *)
(* are answered is never taken for a reuse by what it did itself: the      *)
(* token was spent by another tab, by a refresh that failed or was not     *)
(* answered, or by a revocation.                                           *)
NoTabReusesItsToken ==
    \A c \in Calls \ lost :
        op[c] = "reuse" /\ client[c] # None =>
            \E d \in Calls \ {c} :
                \/ SpentOtherwise(d, arg[c])
                \/ Ends(d, arg[c]) /\ client[d] # client[c]

(* The cookie the browser holds is one that a refresh accepts, unless a    *)
(* revocation ended it, or a refresh spent it that is still under way,     *)
(* failed or was not answered.                                             *)
CookieIsGood ==
    cookie \in revoked =>
        \E d \in Calls :
            \/ SpentOtherwise(d, cookie)
            \/ Ends(d, cookie) /\ \E b \in Tabs : refresh[b].call = d

-----------------------------------------------------------------------------
(* The inductive invariant. *)

(* The pairs whose answer a tab took. *)
Taken ==
    {c \in Handed \ lost :
        /\ client[c] \in Tabs
        /\ \A b \in Tabs : refresh[b].call # c /\ form[b] # c}

(* Tabs hold and present nothing but pairs they took, and other devices    *)
(* none of these.                                                          *)
HeldInv ==
    /\ cookie # None => cookie \in Taken
    /\ \A b \in Tabs :
          \A t \in {access[b], refresh[b].token, late[b]} \ {None} : t \in Taken
    /\ \A c \in Calls :
          op[c] \in {"refresh", "reuse"} =>
              IF client[c] = None THEN client[arg[c]] = None ELSE arg[c] \in Taken

(* What a tab waits for is a call of its own. *)
FetchInv(b) ==
    /\ refresh[b].stage = "none" => refresh[b] = NoFetch
    /\ refresh[b].stage = "sent" => refresh[b].call = None
    /\ refresh[b].stage = "served" =>
          LET c == refresh[b].call
          IN  /\ c \in Calls \ lost
              /\ client[c] = b
              /\ op[c] \in {"refresh", "reuse"}
              /\ arg[c] = refresh[b].token
    /\ form[b] # None =>
          /\ form[b] \in Calls \ lost
          /\ client[form[b]] = b
          /\ op[form[b]] \in {"login", "logout", "logoutAll"}

(* d is a refresh of a tab that took, or will take, its answer. *)
Spends(d) == d \notin lost /\ client[d] # None /\ op[d] = "refresh" /\ pc[d] # "failed"

(* A token that was spent so is not in the cookie, nor in a later fetch of *)
(* the tab, and the tab presents it only once.                             *)
SpendInv ==
    \A d \in Calls : Spends(d) =>
        /\ \/ refresh[client[d]].call = d
           \/ arg[d] # cookie /\ arg[d] # refresh[client[d]].token
        /\ \A c \in Calls \ (lost \cup {d}) :
              op[c] = "reuse" /\ client[c] = client[d] => arg[c] # arg[d]

(* The calls that are not yet made, and those taken for a reuse. *)
CallsInv ==
    \A c \in Calls :
        /\ op[c] = "none" => client[c] = None /\ c \notin lost
        /\ op[c] = "reuse" => arg[c] \in revoked

(* The tabs hold what they took, wait for calls of their own, and spend a  *)
(* token once.                                                             *)
WebInv ==
    /\ WebTypeOK
    /\ HeldInv
    /\ SpendInv
    /\ CallsInv
    /\ \A b \in Tabs : FetchInv(b)

(* Taken together with the sessions behind the browser.                    *)
BrowserInv == SessionsInv /\ WebInv
=============================================================================
