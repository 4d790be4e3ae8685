SPECIFICATION FairSpec
CONSTANTS
    b1 = b1
    b2 = b2
    Browsers <- MCBrowsers
    Buffer = 1
    MaxUses = 2
INVARIANTS
    TypeOK
    PagesFollow
PROPERTIES
    UpdatesGetThrough
    BrowsersGetThrough
