SPECIFICATION Spec
CONSTANTS
    a = a
    b = b
    Domain = {a}
    Batch <- CrawlBatch
    Configs <- CrawlConfigs
    Responses <- MCResponses
    RobotsAnswers <- RefetchAnswers
    Unfetched = Unfetched
    NoFile = NoFile
    Unset = Unset
    MaxBatches = 1
    Concurrency = 2
    MaxAttempts = 2
    StartRate = 2
    MinRate = 1
    MaxRate = 2
    IncreaseStep = 2
    IncreaseAfter = 2
    BanFailures = 2
    Second = 2
    FixedInterval = 2
    BackoffBase = 1
    BackoffCap = 2
    Jitter = 1
    NumProxies = 2
    Window = 2
    MinSamples = 2
    ThresholdNum = 1
    ThresholdDen = 2
    Cooldown = 2
    RateLimitBackoff = 1
PROPERTIES
    DisallowedSkipped
CHECK_DEADLOCK FALSE
