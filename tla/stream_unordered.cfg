SPECIFICATION Spec
CONSTANTS
    s1 = s1
    image = image
    control = control
    latent = latent
    frames = frames
    gpu = gpu
    NoSession = NoSession
    External = External
    NoGroup = NoGroup
    Sessions = {s1}
    NumStages = 2
    Artifacts = {image, control, latent, frames}
    Edges <- MCEdges
    Consumes <- MCConsumes
    Produces <- MCProduces
    Strict = {}
    PerSession <- MCTwo
    Global <- MCTwo
    Groups = {gpu}
    GroupOf <- MCGroupOf
    GroupLimit <- MCGroupLimit
    OutputArtifacts = {frames}
    OutputCapacity = 2
    MailboxCapacity <- MCTwo
    Rank <- MCRank
    MaxSeq = 2
    MaxEpoch = 1
    Finals <- MCFinals
    ClientOps = {"poll", "cancel"}
    Faults = {}
INVARIANTS
    LimitsRespected
    OutputsInOrder
PROPERTY ImplementsOrderedStreams
