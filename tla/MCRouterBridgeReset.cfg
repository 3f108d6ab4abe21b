\* Two messages of a Slack chat and a reset.
SPECIFICATION Spec
CONSTANTS
    t = t
    k = k
    d1 = d1
    d2 = d2
    s1 = s1
    s2 = s2
    s3 = s3
    s4 = s4
    Chat = {k}
    Telegram = {}
    Directory = {d1}
    Default = d1
    Session = {s1, s2}
    None = None
    Senders <- OneChat
    MaxMessages = 2
    MaxCommands = 1
    MaxFaults = 0
INVARIANT FreshAfterReset
CHECK_DEADLOCK FALSE
