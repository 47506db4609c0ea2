\* The three channels: redeliveries, echoes, quotes, a restart; one permit.
SPECIFICATION WebhookFairSpec
CONSTANTS
    Channels = {"instagram", "messenger", "whatsapp"}
    Kinds = {"text", "media"}
    Msgs <- MCMsgs
    Jobs <- MCJobs
    Sends <- MCJobs
    Ids <- AllIds
    MaxSize = 8
    Permits = 1
    Retries = 2
    MaxRestarts = 1
INVARIANTS
    WebhookTypeOK
    TakenOnce
    PermitsKept
PROPERTIES
    QuotesAreFound
    TextsAreAnswered
CHECK_DEADLOCK FALSE
