\* One library of either family becomes a table, validated and published.
CONSTANTS
    Families = {"cuda", "hip"}
    Core <- MCCore
    Inventory <- MCInventory
    Bootstrap = "runtime_version"
    Attribute = "attribute"
    Wrapped = {"malloc", "htod"}
    CopyDtoD = "dtod"
    Foreign = {"foreign"}
    Fieldless = {"unlisted"}
    Versioned = {"init", "malloc", "htod", "dtod", "extra", "unlisted"}
    Optional = {"dtod"}
    Adapted = {"htod"}
    Legacy = {5, 6}
    Profiles <- MCProfiles
    Scale = 10
    FileNames = {"so.6", "so.7", "so"}
    Claims <- MCClaims
    Reported = {0, 49, 51, 52, 59, 60, 62, 70, 71, 72, 76, 80}
    Since <- MCSince
SPECIFICATION Spec
INVARIANTS
    ReportsTellTheTable OnlyReviewedTypes ProfileObeyed AdaptersReady
CHECK_DEADLOCK FALSE
