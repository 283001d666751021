SPECIFICATION Spec
CONSTANTS
    p = p
    q = q
    chat = chat
    i = i
    j = j
    k = k
    page = page
    brain = brain
    graph = graph
    web = web
    fetch = fetch
    past = past
    none = none
    archive = archive
    bash = bash
    write = write
    read = read
    recall = recall
    mail = mail
    note = note
    longer = longer
    change = change
    Questions = {p, q}
    Chat <- SameChat
    Calls = {brain, graph, web, fetch, past, none, archive, recall, bash, write, read, mail, note, longer, change}
    Tool <- Kinds
    Plans <- Lists
    Size <- Sizes
    Old <- Replaces
    Items = {i, j, k}
    Pages = {page}
    ItemHits <- Captures
    PageHits <- Results
    MaxTurns = 2
    MaxCallsPerTurn = 2
    MaxSources = 2
    BlockLimit = 3
    TurnsForPrompt = 2
    TurnsStored = 2
INVARIANTS TypeOK ActsOnce CitationsTrue MemoryWithinLimit
PROPERTIES NotesLostToOverlap EveryQuestionEnds
CHECK_DEADLOCK FALSE
