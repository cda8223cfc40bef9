CONSTANTS
    d1 = d1
    d2 = d2
    d3 = d3
    d4 = d4
    Delivery = {d1, d2, d3, d4}
    MessageOf <- FirstIsRedelivered
    ThreadOf <- TwoThreads
    Configs <- EveryStrategy
    MaxQueueSize = 2
    MaxFaults <- SomeFaults
    NoOne = NoOne
    WebDelivery = {"w1", "w2"}
    NoWebDelivery = "none"
    WebFaults = 2
    InMessages = 3
    InEvents = 2
    InFaults = 2
    Redirects = 2
    Deadline = 3
    Limit = 2
    DownloadFaults = 1
    FileChanges = 1
    SlackRequest = {1, 2}
    SlackChanges = 1
    AgentHandling = {1}
    AgentCalls = 1
    OwnSteps = 3
    UserEvents = 3
    UserFaults = 1
SPECIFICATION ConversationSpec
INVARIANTS EachMessageOnce HandlersHoldTheLock BatchesAreProper WalksAreWhole PostsAreWhole EventsFindTheirThread OwnWordsAreIgnored WebhooksKeepFaith CredentialsStayHome
