SPECIFICATION Spec
CONSTANTS
    p = p
    q = q
    Programs <- MCPrograms
    Boot <- MCBoot
    MaxFeed = 2
    MaxAlerts = 1
    Ring = 2
    Visible = 1
    DataLen <- MCDataLen
    Wrapped <- MCWrapped
    Folded <- MCFolded
    BytesPerRow = 2
    HexStart = 1
    Rects <- MCRects
    Tabs <- MCTabs
    MaxScroll = 1
    AlertsOf <- MCAlertsOf
    MaxTxs = 3
    MaxSent = 3
    MaxEdits = 2
INVARIANTS
    FeedsAreCurrent
    ClickSelectsTheDrawnByte
PROPERTY OpensWhatIsShown
