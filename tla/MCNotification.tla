--------------------------- MODULE MCNotification ---------------------------
(* A message of each topic, and one without a user.  Each is of another    *)
(* user: the one who registered has disabled e-mail, the one who logs in   *)
(* too, and the one whose order was paid does not want to be pushed.       *)
EXTENDS Notification

MCJobLists == {TopicJobs[t] : t \in DOMAIN TopicJobs} \cup {<<>>}
MCJobs == UNION {{l[i] : i \in 1..Len(l)} : l \in MCJobLists}
MCForced == {On("email", "otp")}
MCOptedOut ==
    {On("email", "otp"), On("email", "welcome"), On("push", "order_paid")}
=============================================================================
