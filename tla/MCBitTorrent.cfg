CONSTANT Parts = {"swarm", "handshake", "wire", "utp", "trackers", "supply",
                  "session", "magnet", "routing", "dht", "store"}
SPECIFICATION Spec
INVARIANTS
    SeedsVerified
    StreamsAgree
    KeepAliveArmed
    
    TrackerStory
    DialedOnce
    RegisteredIsFound
    MetadataSound
    

    
CHECK_DEADLOCK FALSE
