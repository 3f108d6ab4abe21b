\* Three messages of one chat, Slack or Telegram.
SPECIFICATION FairSpec
CONSTANTS
    t = t
    k = k
    d1 = d1
    d2 = d2
    s1 = s1
    s2 = s2
    s3 = s3
    s4 = s4
    Chat = {t, k}
    Telegram = {t}
    Directory = {d1, d2}
    Default = d1
    Session = {s1, s2, s3, s4}
    None = None
    Senders <- OneChat
    MaxMessages = 3
    MaxCommands = 1
    MaxFaults = 1
INVARIANTS TypeOK RunsWhereBound StaleSessionLeft OneAtATime TelegramInOrder
PROPERTY EveryMessageEnds
CHECK_DEADLOCK FALSE
