---------------------------- MODULE OrderTracking ----------------------------
(***************************************************************************)
(* How a customer follows an order: the order page of the web app          *)
(* (app/orders/[id]/page.tsx), which loads the order when it is mounted,   *)
(* when its WebSocket says that the status changed, and every five seconds *)
(* while store/auth.ts says that there is no WebSocket.                    *)
(*                                                                         *)
(* useOrderWebSocket is used twice, by the page and by AppHeader: each use *)
(* has a socket of its own, both write the one flag wsConnected, and both  *)
(* open a new socket when the access token is refreshed.  Nobody reopens a *)
(* socket that closed.  Requests of the page overlap, fail, and are        *)
(* answered in any order.                                                  *)
(*                                                                         *)
(* Behind the socket are the Kafka bridge and the gateway of module        *)
(* Realtime, of which only this matters here: an event reaches a socket    *)
(* once the server has subscribed, if nothing goes wrong, and at most      *)
(* once.  The page is mounted with a session, and stays.                   *)
(***************************************************************************)
EXTENDS Integers

CONSTANTS Loads,      \* the requests that may be under way at a time
          MaxStatus,  \* bound: how often the status changes
          MaxTokens,  \* bound: the access tokens of the page's life
          Nothing

ASSUME TrackingAssumption ==
    /\ MaxStatus \in Nat
    /\ MaxTokens \in Nat \ {0}
    /\ Nothing \notin Nat

VARIABLES status,      \* how often the order's status has changed in Postgres
          hidden,      \* the order was cancelled by an admin and is soft-deleted
          published,   \* how many of its changes the Kafka bridge has forwarded
          token,       \* how often the access token was set
          socket,      \* the sockets of the two hooks, one per token
          hears,       \* the server has subscribed for the page's last socket
          mail,        \* the events on their way to that socket
          wsConnected, \* the flag of the store
          load,        \* the requests of load()
          first,       \* the request made on mount
          shown,       \* the order in the page's state, Nothing: Loading order...
          excused      \* history: something went wrong since the page was last right

order == <<status, hidden, published>>
link == <<token, socket, hears, mail, wsConnected>>
page == <<load, first, shown>>
pageVars == <<order, link, page, excused>>

Hooks == {"header", "page"}
Tokens == 1..MaxTokens
Statuses == 0..MaxStatus

Free == [stage |-> "free", status |-> Nothing]
Asked == [stage |-> "asked", status |-> Nothing]
Answer(s) == [stage |-> "answered", status |-> s]

(* What the variables hold. *)
PageTypeOK ==
    /\ status \in Statuses /\ published \in Statuses
    /\ hidden \in BOOLEAN
    /\ token \in Tokens
    /\ socket \in [Hooks -> [Tokens -> {"none", "connecting", "open", "closing", "closed"}]]
    /\ hears \in BOOLEAN
    /\ mail \subseteq Statuses
    /\ wsConnected \in BOOLEAN
    /\ load \in [Loads -> {Free, Asked} \cup {Answer(s) : s \in Statuses}]
    /\ first \in Loads \cup {Nothing}
    /\ shown \in Statuses \cup {Nothing}
    /\ excused \in BOOLEAN

(* The page is mounted: its effects have made the first request and opened *)
(* its socket.  The header's socket may be open already.                   *)
PageInit ==
    /\ status \in Statuses /\ published \in 0..status
    /\ hidden = FALSE
    /\ token = 1
    /\ \E h \in {"connecting", "open", "closed"} :
          /\ socket = [k \in Hooks |-> [t \in Tokens |->
                         IF t # 1 THEN "none" ELSE IF k = "header" THEN h ELSE "connecting"]]
          /\ wsConnected = (h = "open")
    /\ hears = FALSE
    /\ mail = {}
    /\ first \in Loads
    /\ load = [l \in Loads |-> IF l = first THEN Asked ELSE Free]
    /\ shown = Nothing
    /\ excused = FALSE

-----------------------------------------------------------------------------
(* The order and its events. *)

(* finalizeOrder or cancelOrder has committed. *)
StatusChanges ==
    /\ ~hidden
    /\ status < MaxStatus
    /\ status' = status + 1
    /\ hidden' \in BOOLEAN
    /\ UNCHANGED <<published, link, page, excused>>

(* order.status.changed is handed to the sockets of the user.  The bridge  *)
(* drops an event that it cannot publish, and Redis one that nobody        *)
(* listens to.                                                             *)
Forward ==
    /\ published < status
    /\ published' = published + 1
    /\ \/ hears /\ mail' = mail \cup {published'} /\ UNCHANGED excused
       \/ excused' = TRUE /\ UNCHANGED mail
    /\ UNCHANGED <<status, hidden, token, socket, hears, wsConnected, page>>

-----------------------------------------------------------------------------
(* useOrderWebSocket *)

(* handleConnection has subscribed; the handshake was over before.         *)
ServerSubscribes ==
    /\ socket["page"][token] \in {"connecting", "open"}
    /\ hears' = TRUE
    /\ UNCHANGED <<order, token, socket, mail, wsConnected, page, excused>>

(* Whatever the page's last socket was to hear is lost with it. *)
Deafened ==
    /\ hears' = FALSE
    /\ mail' = {}
    /\ excused' = (excused \/ mail # {})

(* The server loses its subscription, or a message, and keeps the socket.  *)
ServerForgets ==
    /\ Deafened
    /\ UNCHANGED <<order, token, socket, wsConnected, page>>

(* onopen *)
Opens(k) ==
    /\ socket[k][token] = "connecting"
    /\ socket' = [socket EXCEPT ![k][token] = "open"]
    /\ wsConnected' = TRUE
    /\ UNCHANGED <<order, token, hears, mail, page, excused>>

(* Mutant: only an error resets the flag. *)
ClosesQuietly(k, t) ==
    /\ socket[k][t] \in {"connecting", "open", "closing"}
    /\ socket' = [socket EXCEPT ![k][t] = "closed"]
    /\ IF k = "page" /\ t = token THEN Deafened ELSE UNCHANGED <<hears, mail, excused>>
    /\ UNCHANGED <<order, token, wsConnected, page>>

(* onclose or onerror, of a socket that a newer one has replaced too.  The *)
(* server refuses, dies or is unreachable, or the replaced socket is done. *)
Closes(k, t) ==
    /\ socket[k][t] \in {"connecting", "open", "closing"}
    /\ socket' = [socket EXCEPT ![k][t] = "closed"]
    /\ wsConnected' = FALSE
    /\ IF k = "page" /\ t = token THEN Deafened ELSE UNCHANGED <<hears, mail, excused>>
    /\ UNCHANGED <<order, token, page>>

(* setSession after a silentRefresh: both effects are cleaned up and run   *)
(* again.                                                                  *)
TokenChanges ==
    /\ token < MaxTokens
    /\ token' = token + 1
    /\ socket' = [k \in Hooks |-> [socket[k] EXCEPT
                    ![token] = IF @ = "closed" THEN @ ELSE "closing",
                    ![token'] = "connecting"]]
    /\ wsConnected' = FALSE
    /\ Deafened
    /\ UNCHANGED <<order, page>>

-----------------------------------------------------------------------------
(* load *)

Request(l) ==
    /\ load[l] = Free
    /\ load' = [load EXCEPT ![l] = Asked]

(* Mutant: an event is ignored while a request is under way. *)
NotifiedUnlessLoading(l) ==
    \E e \in mail :
        /\ socket["page"][token] = "open"
        /\ load' = IF \A k \in Loads : load[k] = Free
                     THEN [load EXCEPT ![l] = Asked] ELSE load
        /\ mail' = mail \ {e}
        /\ UNCHANGED <<order, token, socket, hears, wsConnected, first, shown, excused>>

(* onmessage: the page asks for the order, whatever the event says. *)
Notified(l) ==
    \E e \in mail :
        /\ socket["page"][token] = "open"
        /\ Request(l)
        /\ mail' = mail \ {e}
        /\ UNCHANGED <<order, token, socket, hears, wsConnected, first, shown, excused>>

(* Mutant: the timer ticks while the flag is set. *)
PollWhenConnected(l) ==
    /\ wsConnected
    /\ Request(l)
    /\ UNCHANGED <<order, link, first, shown, excused>>

(* The tick of setInterval.  It does not wait for the last one's answer. *)
Poll(l) ==
    /\ ~wsConnected
    /\ Request(l)
    /\ UNCHANGED <<order, link, first, shown, excused>>

(* getOrder reads the order; a customer is not told of a soft-deleted one. *)
Serve(l) ==
    /\ load[l] = Asked
    /\ ~hidden
    /\ load' = [load EXCEPT ![l] = Answer(status)]
    /\ UNCHANGED <<order, link, first, shown, excused>>

Forget(l) ==
    /\ load' = [load EXCEPT ![l] = Free]
    /\ first' = IF first = l THEN Nothing ELSE first

(* setOrder(data), also if a later request was answered before. *)
Loaded(l) ==
    LET s == load[l].status
    IN  /\ load[l].stage = "answered"
        /\ Forget(l)
        /\ shown' = s
        /\ excused' = (s # status /\ (excused \/ (shown # Nothing /\ s < shown)))
        /\ UNCHANGED <<order, link>>

(* apiFetch throws.  For the request made on mount the page then shows no  *)
(* order at all, even if it has one by now.                                *)
LoadFails(l) ==
    /\ load[l] # Free
    /\ Forget(l)
    /\ shown' = IF first = l THEN Nothing ELSE shown
    /\ excused' = TRUE
    /\ UNCHANGED <<order, link>>

-----------------------------------------------------------------------------

Ends(l) == Loaded(l) \/ LoadFails(l)

PageNext ==
    \/ StatusChanges \/ Forward
    \/ ServerSubscribes \/ ServerForgets \/ TokenChanges
    \/ \E k \in Hooks : Opens(k) \/ \E t \in Tokens : Closes(k, t)
    \/ \E l \in Loads : Notified(l) \/ Poll(l) \/ Serve(l) \/ Ends(l)

PageSpec == PageInit /\ [][PageNext]_pageVars

(* The timer ticks, requests end, and those made again and again reach the *)
(* order service and come back at times.  Nothing is asked of the sockets. *)
FairPageSpec ==
    /\ PageSpec
    /\ WF_pageVars(\E l \in Loads : Poll(l))
    /\ \A l \in Loads : WF_pageVars(Ends(l)) /\ SF_pageVars(Serve(l)) /\ SF_pageVars(Loaded(l))

-----------------------------------------------------------------------------
(* Properties. *)

(* Nothing is on its way to the page, which holds the answer of an earlier *)
(* request.                                                                *)
Quiet ==
    /\ published = status
    /\ mail = {}
    /\ \A l \in Loads : load[l] = Free

(* A quiet page shows the order as it is, polling or not, unless an event  *)
(* missed it, a request failed or was overtaken, since it was last right.  *)
QuietPageIsCurrent == Quiet /\ shown # status => excused

(* "Live updates offline" is not shown only while some socket is open: the *)
(* flag is not left over from a socket that closed or was replaced.        *)
LiveMeansOpen == wsConnected => \E k \in Hooks : socket[k][token] = "open"

(* A page that is left to its polling catches up in the end, in spite of   *)
(* overlapping requests and late answers, unless the order was hidden.     *)
PollingCatchesUp == <>[]~wsConnected => <>[](shown = status \/ hidden)

-----------------------------------------------------------------------------
(* The inductive invariant. *)

(* The page will hear of the last change, or has asked for it since. *)
Coming ==
    \/ published < status
    \/ status \in mail
    \/ \E l \in Loads : load[l] \in {Asked, Answer(status)}

(* Taken together: events and answers never run ahead of the order, a page *)
(* that is behind without an excuse is about to learn it, and the flag is  *)
(* that of an open socket.                                                 *)
TrackingInv ==
    /\ PageTypeOK
    /\ published <= status
    /\ \A l \in Loads : load[l].stage = "answered" => load[l].status <= status
    /\ LiveMeansOpen
    /\ shown = status \/ excused \/ Coming
=============================================================================
