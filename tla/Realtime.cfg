SPECIFICATION RealtimeSpec
CONSTANTS
    s1 = s1
    s2 = s2
    s3 = s3
    s4 = s4
    home = home
    mobile = mobile
    Sockets = {s1, s2, s3, s4}
    Ips = {home, mobile}
    IpOf <- MCIpOf
    MaxPerUser = 2
    MaxPerIp = 2
    NoSocket = NoSocket
SYMMETRY Symmetry
CHECK_DEADLOCK FALSE
INVARIANTS
    RealtimeInv
    OneSubscription
    EverySocketHears
    NothingIsLeft
    PresenceIsLive
