CONSTANT Services = {"pieces", "files", "behind", "http", "dial", "ftp", "ssh",
                   "channel", "sftp", "stream", "ws",
                   "requests", "calls", "xml", "throttle",
                   "restart", "saves"}
SPECIFICATION Spec
INVARIANTS
    DiskSound
    
    DialSound
    FtpInSync
    
    
    WsSound
    
    
    ThrottleSound
    
CHECK_DEADLOCK FALSE
