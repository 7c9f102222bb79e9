SPECIFICATION Spec
CONSTANTS
    t1 = t1
    t2 = t2
    Tabs = {t1, t2}
    NoTab = NoTab
    NoResp = NoResp
    Unset = Unset
    MaxStarts = 2
    MaxEvents = 2
    RunLength = 2
    MaxHistory = 1
INVARIANTS
    TypeOK
    PanelShowsActiveTab
    LastEventPainted
    NothingLeftBehind
    RunObeysScripts
PROPERTIES
    WhatIsStoppedEnds
