SPECIFICATION FairSpec
CONSTANTS
    Subscribers = {plugin, widget}
    Tools = {}
    Readers = {plugin}
    MaxEvents = 2
    MaxLines = 1
PROPERTIES
    RefinesFeed
    KeepsFeedFair
    GoneIsDropped
