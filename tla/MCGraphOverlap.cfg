SPECIFICATION FairSpec
CONSTANTS
    i1 = i1
    i2 = i2
    g1 = g1
    g2 = g2
    Items = {i1, i2}
    Groups = {g1, g2}
    GroupOf <- Apart
    Names = {n}
    Builders = {cron, command}
    Scheduled = {cron}
    BatchSize = 2
    MaxRepeats = 2
    MaxFaults = 1
INVARIANTS OncePerBuilder WrittenOffByErrors
PROPERTIES RunsEnd EveryItemProcessed
