SPECIFICATION Spec
CONSTANTS
    s1 = s1
    s2 = s2
    image = image
    latent = latent
    frames = frames
    gpu = gpu
    NoSession = NoSession
    External = External
    NoGroup = NoGroup
    Sessions = {s1}
    NumStages = 2
    Artifacts = {image, latent, frames}
    Edges <- MCEdges
    Consumes <- MCConsumes
    Produces <- MCProduces
    Strict = {1, 2}
    PerSession <- MCOne
    Global <- MCOne
    Groups = {gpu}
    GroupOf <- MCGroupOf
    GroupLimit <- MCGroupLimit
    OutputArtifacts = {frames}
    OutputCapacity = 1
    MailboxCapacity <- MCOne
    Rank <- MCRank
    MaxSeq = 0
    MaxEpoch = 2
    Finals <- MCFinals
    ClientOps = {"cancel", "close"}
    Faults = {"execution", "timeout"}
INVARIANTS
    ResultsMatch
    ReleaseAfterDrain
    ReleaseOrder
    TerminalHoldsNothing
    CompleteMeansReleased
CHECK_DEADLOCK FALSE
