SPECIFICATION FairSpec
CONSTANTS
    Attempt = 2
    PortalAttempt = 1
    MaxBackoff = 2
    PortalRetry = 2
    RescueAfter = 3
    HealthEvery = 1
    Breakable = {"station", "query", "portal"}
PROPERTIES ParkedInRescue PortalAttemptsLast Reconnects RescueOffered
