------------------------------ MODULE Realtime ------------------------------
(***************************************************************************)
(* The WebSocket gateway of apps/realtime: handleConnection and            *)
(* handleDisconnect of OrderStatusGateway for the sockets of one user on   *)
(* one replica, with PresenceStore and OrderStatusPubSub.                  *)
(*                                                                         *)
(* The handlers run on one event loop and interleave at their awaits.      *)
(* Every await is for a reply on one of two Redis connections, which       *)
(* answer in the order of the commands; a command takes effect in Redis    *)
(* when it is sent, as commands of one connection are not reordered.  A    *)
(* command that is rejected is an unhandled rejection: it ends the process *)
(* and all of this state with it.                                          *)
(***************************************************************************)
EXTENDS Integers, Sequences, FiniteSets, Functions

CONSTANTS Sockets, Ips,
          IpOf,        \* the remote address of each socket
          MaxPerUser,  \* WS_MAX_CONNECTIONS_PER_USER
          MaxPerIp,    \* WS_MAX_CONNECTIONS_PER_IP
          NoSocket

ASSUME RealtimeAssumption ==
    /\ IpOf \in [Sockets -> Ips]
    /\ MaxPerUser \in Nat /\ MaxPerIp \in Nat
    /\ NoSocket \notin Sockets

VARIABLES conn,       \* the await of each socket's handleConnection
          disc,       \* the await of each socket's handleDisconnect
          replies,    \* the replies to come on each Redis connection, in order
          sockets,    \* connectionsByUser.get(userId)
          ipCount,    \* connectionsByIp
          unsub,      \* unsubscribers.get(userId): of which socket's subscribe
          listeners,  \* message listeners on the subscriber, by socket
          channel,    \* the subscriber is subscribed to channel:order:{userId}
          presence,   \* ws:presence:{userId}
          heartbeats, \* sockets with an interval
          seen,       \* what markOffline's GET returned
          overlaps    \* history: which handlers have met which

memory == <<sockets, ipCount, unsub, heartbeats>>
redis == <<listeners, channel, presence>>
realtimeVars == <<conn, disc, replies, sockets, ipCount, unsub, listeners, channel, presence,
                  heartbeats, seen, overlaps>>

(* What the variables hold: the maps of the gateway, the replies its two   *)
(* Redis connections still owe, and the presence key.                      *)
RealtimeTypeOK ==
    /\ conn \in [Sockets -> {"new", "refused", "subscribing", "marking", "online"}]
    /\ disc \in [Sockets -> {"open", "getting", "deleting", "unsubscribing", "closed"}]
    /\ replies \in [{"command", "subscriber"} -> Seq({"connect", "close"} \X Sockets)]
    /\ sockets \in SUBSET Sockets
    /\ ipCount \in [Ips -> Nat]
    /\ unsub \in Sockets \cup {NoSocket}
    /\ listeners \in SUBSET Sockets
    /\ channel \in BOOLEAN
    /\ presence \in Sockets \cup {NoSocket}
    /\ heartbeats \in SUBSET Sockets
    /\ seen \in [Sockets -> Sockets \cup {NoSocket}]
    /\ overlaps \in SUBSET {"twoSubscribe", "joinedUnsubscribe", "closedEarly"}

RealtimeInit ==
    /\ conn = [s \in Sockets |-> "new"]
    /\ disc = [s \in Sockets |-> "open"]
    /\ replies = [k \in {"command", "subscriber"} |-> <<>>]
    /\ sockets = {}
    /\ ipCount = [i \in Ips |-> 0]
    /\ unsub = NoSocket
    /\ listeners = {}
    /\ channel = FALSE
    /\ presence = NoSocket
    /\ heartbeats = {}
    /\ seen = [s \in Sockets |-> NoSocket]
    /\ overlaps = {}

Due(k, handler, s) == replies[k] # <<>> /\ Head(replies[k]) = <<handler, s>>

-----------------------------------------------------------------------------
(* handleConnection *)

(* Mutant: one connection too many is let in. *)
AboveLimit(s) == ipCount[IpOf[s]] > MaxPerIp \/ Cardinality(sockets) > MaxPerUser

AtLimit(s) == ipCount[IpOf[s]] >= MaxPerIp \/ Cardinality(sockets) >= MaxPerUser

(* No token, an invalid one, or too many connections. *)
Refuse(s) ==
    /\ conn[s] = "new"
    /\ conn' = [conn EXCEPT ![s] = "refused"]
    /\ UNCHANGED <<disc, replies, memory, redis, seen, overlaps>>

(* Up to the first await: the socket is counted, and the user's first one  *)
(* registers a listener and sends SUBSCRIBE; any other sends markOnline's  *)
(* SET.                                                                    *)
Accept(s) ==
    /\ conn[s] = "new"
    /\ ~AtLimit(s)
    /\ sockets' = sockets \cup {s}
    /\ ipCount' = [ipCount EXCEPT ![IpOf[s]] = @ + 1]
    /\ IF unsub = NoSocket
         THEN /\ conn' = [conn EXCEPT ![s] = "subscribing"]
              /\ listeners' = listeners \cup {s}
              /\ channel' = TRUE
              /\ replies' = [replies EXCEPT !["subscriber"] = Append(@, <<"connect", s>>)]
              /\ UNCHANGED presence
         ELSE /\ conn' = [conn EXCEPT ![s] = "marking"]
              /\ presence' = s
              /\ replies' = [replies EXCEPT !["command"] = Append(@, <<"connect", s>>)]
              /\ UNCHANGED <<listeners, channel>>
    /\ overlaps' = overlaps
         \cup {x \in {"twoSubscribe"} : unsub = NoSocket /\ \E t \in Sockets : conn[t] = "subscribing"}
         \cup {x \in {"joinedUnsubscribe"} : \E t \in Sockets : disc[t] = "unsubscribing"}
    /\ UNCHANGED <<disc, unsub, heartbeats, seen>>

(* Mutant: the subscription is not remembered. *)
SubscribedForgets(s) ==
    /\ Due("subscriber", "connect", s)
    /\ conn' = [conn EXCEPT ![s] = "marking"]
    /\ presence' = s
    /\ replies' = [replies EXCEPT !["subscriber"] = Tail(@),
                                  !["command"] = Append(@, <<"connect", s>>)]
    /\ UNCHANGED <<disc, memory, listeners, channel, seen, overlaps>>

(* SUBSCRIBE was answered: the unsubscriber replaces whatever is there,    *)
(* and markOnline sends SET.                                               *)
Subscribed(s) ==
    /\ Due("subscriber", "connect", s)
    /\ unsub' = s
    /\ conn' = [conn EXCEPT ![s] = "marking"]
    /\ presence' = s
    /\ replies' = [replies EXCEPT !["subscriber"] = Tail(@),
                                  !["command"] = Append(@, <<"connect", s>>)]
    /\ UNCHANGED <<disc, sockets, ipCount, heartbeats, listeners, channel, seen, overlaps>>

(* SET was answered: the interval is started, whether or not the socket is *)
(* still open.                                                             *)
MarkedOnline(s) ==
    /\ Due("command", "connect", s)
    /\ conn' = [conn EXCEPT ![s] = "online"]
    /\ heartbeats' = heartbeats \cup {s}
    /\ replies' = [replies EXCEPT !["command"] = Tail(@)]
    /\ UNCHANGED <<disc, sockets, ipCount, unsub, redis, seen, overlaps>>

-----------------------------------------------------------------------------
(* handleDisconnect *)

(* Mutant: the interval is left running. *)
CloseKeepsHeartbeat(s) ==
    /\ conn[s] \notin {"new", "refused"}
    /\ disc[s] = "open"
    /\ disc' = [disc EXCEPT ![s] = "getting"]
    /\ seen' = [seen EXCEPT ![s] = presence]
    /\ replies' = [replies EXCEPT !["command"] = Append(@, <<"close", s>>)]
    /\ overlaps' = overlaps \cup {x \in {"closedEarly"} : conn[s] # "online"}
    /\ UNCHANGED <<conn, memory, redis>>

(* The socket closes at any time after it was accepted; the interval is    *)
(* cleared if there is one by now, and markOffline sends GET.              *)
Close(s) ==
    /\ conn[s] \notin {"new", "refused"}
    /\ disc[s] = "open"
    /\ disc' = [disc EXCEPT ![s] = "getting"]
    /\ heartbeats' = heartbeats \ {s}
    /\ seen' = [seen EXCEPT ![s] = presence]
    /\ replies' = [replies EXCEPT !["command"] = Append(@, <<"close", s>>)]
    /\ overlaps' = overlaps \cup {x \in {"closedEarly"} : conn[s] # "online"}
    /\ UNCHANGED <<conn, sockets, ipCount, unsub, redis>>

(* connectionsByIp; a count of one is deleted. *)
LeaveIp(s) == ipCount' = [ipCount EXCEPT ![IpOf[s]] = IF @ <= 1 THEN 0 ELSE @ - 1]

(* GET was answered with this very connection: markOffline sends DEL,      *)
(* whatever the key is by now.                                             *)
GotOwnKey(s) ==
    /\ Due("command", "close", s)
    /\ disc[s] = "getting"
    /\ seen[s] = s
    /\ presence' = NoSocket
    /\ disc' = [disc EXCEPT ![s] = "deleting"]
    /\ replies' = [replies EXCEPT !["command"] = Append(Tail(@), <<"close", s>>)]
    /\ UNCHANGED <<conn, memory, listeners, channel, seen, overlaps>>

(* markOffline has returned. *)
MarkedOffline(s) ==
    /\ Due("command", "close", s)
    /\ disc[s] = "deleting" \/ seen[s] # s

(* Others are left, or nobody to unsubscribe: the socket leaves its IP.    *)
Leave(s) ==
    /\ MarkedOffline(s)
    /\ sockets # {s} \/ unsub = NoSocket
    /\ sockets' = sockets \ {s}
    /\ LeaveIp(s)
    /\ disc' = [disc EXCEPT ![s] = "closed"]
    /\ replies' = [replies EXCEPT !["command"] = Tail(@)]
    /\ seen' = [seen EXCEPT ![s] = NoSocket]
    /\ UNCHANGED <<conn, unsub, heartbeats, redis, overlaps>>

(* Mutant: the last socket does not unsubscribe. *)
LeaveQuietly(s) ==
    /\ MarkedOffline(s)
    /\ sockets = {s} /\ unsub # NoSocket
    /\ sockets' = {}
    /\ unsub' = NoSocket
    /\ LeaveIp(s)
    /\ disc' = [disc EXCEPT ![s] = "closed"]
    /\ replies' = [replies EXCEPT !["command"] = Tail(@)]
    /\ seen' = [seen EXCEPT ![s] = NoSocket]
    /\ UNCHANGED <<conn, heartbeats, redis, overlaps>>

(* Mutant: the first socket to leave unsubscribes the others too. *)
LeaveLastEarly(s) ==
    /\ MarkedOffline(s)
    /\ unsub # NoSocket
    /\ sockets' = sockets \ {s}
    /\ listeners' = listeners \ {unsub}
    /\ channel' = FALSE
    /\ disc' = [disc EXCEPT ![s] = "unsubscribing"]
    /\ replies' = [replies EXCEPT !["command"] = Tail(@),
                                  !["subscriber"] = Append(@, <<"close", s>>)]
    /\ seen' = [seen EXCEPT ![s] = NoSocket]
    /\ UNCHANGED <<conn, ipCount, unsub, heartbeats, presence, overlaps>>

(* The last socket takes its listener off and sends UNSUBSCRIBE. *)
LeaveLast(s) ==
    /\ MarkedOffline(s)
    /\ sockets = {s} /\ unsub # NoSocket
    /\ sockets' = {}
    /\ listeners' = listeners \ {unsub}
    /\ channel' = FALSE
    /\ disc' = [disc EXCEPT ![s] = "unsubscribing"]
    /\ replies' = [replies EXCEPT !["command"] = Tail(@),
                                  !["subscriber"] = Append(@, <<"close", s>>)]
    /\ seen' = [seen EXCEPT ![s] = NoSocket]
    /\ UNCHANGED <<conn, ipCount, unsub, heartbeats, presence, overlaps>>

(* UNSUBSCRIBE was answered: the unsubscriber is deleted only now. *)
Unsubscribed(s) ==
    /\ Due("subscriber", "close", s)
    /\ unsub' = NoSocket
    /\ LeaveIp(s)
    /\ disc' = [disc EXCEPT ![s] = "closed"]
    /\ replies' = [replies EXCEPT !["subscriber"] = Tail(@)]
    /\ UNCHANGED <<conn, sockets, heartbeats, redis, seen, overlaps>>

-----------------------------------------------------------------------------

(* The presence key expires 60 s after the last SET or heartbeat of the    *)
(* connection it names; a heartbeat comes every 30 s.                      *)
PresenceExpires ==
    /\ presence # NoSocket
    /\ presence \notin heartbeats
    /\ presence' = NoSocket
    /\ UNCHANGED <<conn, disc, replies, memory, listeners, channel, seen, overlaps>>

Replied(s) ==
    \/ Subscribed(s) \/ MarkedOnline(s)
    \/ GotOwnKey(s) \/ Leave(s) \/ LeaveLast(s) \/ Unsubscribed(s)

RealtimeNext ==
    \/ \E s \in Sockets : Refuse(s) \/ Accept(s) \/ Close(s) \/ Replied(s)
    \/ PresenceExpires

RealtimeSpec == RealtimeInit /\ [][RealtimeNext]_realtimeVars

-----------------------------------------------------------------------------
(* Properties. *)

Admitted == {s \in Sockets : conn[s] \notin {"new", "refused"} /\ disc[s] # "closed"}

(* The counts that the limits are checked against are exact at every await *)
(* and no interleaving lets a user or an IP in above its limit.            *)
LimitsHold ==
    /\ Cardinality({s \in Admitted : disc[s] = "open"}) <= MaxPerUser
    /\ \A i \in Ips :
          /\ ipCount[i] = Cardinality({s \in Admitted : IpOf[s] = i})
          /\ ipCount[i] <= MaxPerIp

(* gateway.ts:26: "one Redis subscription per userId": a status is         *)
(* delivered once to each socket, unless a user's first two sockets        *)
(* connected at the same time.                                             *)
OneSubscription == Cardinality(listeners) <= 1 \/ "twoSubscribe" \in overlaps

(* ... "delivered to all sockets for that user": an open socket that was   *)
(* told it is connected hears what is published, unless a socket connected *)
(* while the last one was unsubscribing.                                   *)
EverySocketHears ==
    \A s \in Sockets :
        conn[s] = "online" /\ disc[s] = "open"
        => (listeners # {} /\ channel) \/ "joinedUnsubscribe" \in overlaps

(* When all sockets have gone and no handler is under way, nothing of the  *)
(* user is left on the replica, unless sockets connected at the same time  *)
(* or closed before they were online.                                      *)
NothingIsLeft ==
    (sockets = {} /\ \A k \in DOMAIN replies : replies[k] = <<>>) =>
        \/ overlaps # {}
        \/ listeners = {} /\ unsub = NoSocket /\ ~channel /\ heartbeats = {}

(* The presence key never names a connection that has gone, and no         *)
(* interval keeps one alive, unless a socket closed before it was online.  *)
PresenceIsLive ==
    \/ "closedEarly" \in overlaps
    \/ /\ heartbeats \subseteq {s \in Sockets : disc[s] = "open"}
       /\ presence # NoSocket => disc[presence] \in {"open", "getting"}

-----------------------------------------------------------------------------
(* The inductive invariant. *)

Subscribing == {s \in Sockets : conn[s] = "subscribing"}
Unsubscribing == {s \in Sockets : disc[s] = "unsubscribing"}

(* What each connection still has to answer: a command of every handler    *)
(* that is at an await, and nothing else.                                  *)
Awaited(k) ==
    {e \in {"connect", "close"} \X Sockets :
        IF k = "command"
          THEN \/ e[1] = "connect" /\ conn[e[2]] = "marking"
               \/ e[1] = "close" /\ disc[e[2]] \in {"getting", "deleting"}
          ELSE \/ e[1] = "connect" /\ conn[e[2]] = "subscribing"
               \/ e[1] = "close" /\ disc[e[2]] = "unsubscribing"}

RepliesAreAwaited ==
    \A k \in {"command", "subscriber"} :
        /\ Range(replies[k]) = Awaited(k)
        /\ \A i, j \in DOMAIN replies[k] : replies[k][i] = replies[k][j] => i = j

(* The user's set holds the sockets that were let in and have not left it, *)
(* and only a socket that was let in can close.                            *)
SetIsExact ==
    /\ sockets = {s \in Admitted : disc[s] # "unsubscribing"}
    /\ \A s \in Sockets : conn[s] \in {"new", "refused"} => disc[s] = "open"
    /\ IsFiniteSet(Admitted)
    /\ Cardinality(sockets) <= MaxPerUser

(* One subscription at a time: the user's, or the one that a socket waits  *)
(* for; none is confirmed while another is given up.                       *)
OneAtATime ==
    \/ "twoSubscribe" \in overlaps
    \/ /\ \A s, t \in Subscribing : s = t
       /\ unsub # NoSocket => Subscribing = {}
       /\ listeners \subseteq Subscribing \cup {unsub}
       /\ Unsubscribing # {} => unsub \notin listeners
       /\ \A i, j \in DOMAIN replies["subscriber"] :
            replies["subscriber"][i][1] = "connect" /\ replies["subscriber"][j][1] = "close"
            => j < i

(* As long as nobody connects while the last socket unsubscribes: whoever  *)
(* did not subscribe found a subscription, which is there until then.      *)
SubscriptionLasts ==
    \/ "joinedUnsubscribe" \in overlaps
    \/ /\ \A t \in Unsubscribing :
            /\ sockets = {}
            /\ replies["subscriber"][Len(replies["subscriber"])] = <<"close", t>>
       /\ Subscribing \subseteq listeners
       /\ unsub \notin Subscribing
       /\ sockets \subseteq Subscribing \/ unsub # NoSocket
       /\ Unsubscribing = {} =>
            /\ Subscribing # {} \/ unsub # NoSocket => channel
            /\ unsub # NoSocket => unsub \in listeners

(* If no handlers meet, a subscription is somebody's.                      *)
SubscriptionIsUsed ==
    \/ overlaps # {}
    \/ /\ unsub # NoSocket => sockets # {} \/ Unsubscribing # {}
       /\ channel => Subscribing # {} \/ (unsub # NoSocket /\ Unsubscribing = {})

(* The interval and the key of a socket that closes are gone when it has   *)
(* left.                                                                   *)
PresenceFollows ==
    \/ "closedEarly" \in overlaps
    \/ /\ \A s \in Sockets : disc[s] # "open" => conn[s] = "online"
       /\ \A s \in heartbeats : conn[s] = "online" /\ disc[s] = "open"
       /\ \A s \in Sockets : presence = s => disc[s] \in {"open", "getting"}
       /\ \A s \in Sockets : disc[s] = "getting" /\ presence = s => seen[s] = s

(* Taken together: counts and replies are exact, and the subscription and  *)
(* the presence key follow the sockets.                                    *)
RealtimeInv ==
    /\ RealtimeTypeOK /\ LimitsHold
    /\ RepliesAreAwaited /\ SetIsExact
    /\ OneAtATime /\ SubscriptionLasts /\ SubscriptionIsUsed /\ PresenceFollows
=============================================================================
