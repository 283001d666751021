SPECIFICATION FairSpec
CONSTANTS
    two = two
    text = text
    voice = voice
    sticker = sticker
    link1 = link1
    link2 = link2
    ann = ann
    Messages = {two, text, voice, sticker}
    Links <- BothLinks
    LinksIn <- Found
    ContentType <- Typed
    Sender <- FromAnn
    MaxSent = 2
    MaxDeliveries = 2
    MaxClock = 1
    MaxFaults = 1
    MaxCrashes = 1
INVARIANTS TypeOK QueuedOnce AckedIsQueued
PROPERTY NothingSilent
CHECK_DEADLOCK FALSE
