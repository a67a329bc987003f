SPECIFICATION Spec
CONSTANTS
    r1 = r1
    r2 = r2
    l1 = l1
    u1 = u1
    Ids <- MCIds
    RemoteIds <- MCRemote
    Rows <- MCRows
    Urls = {u1}
    NoUrl = NoUrl
    Names = {n1}
    Configs = {good, bad}
    Valid = {good}
    NoId = NoId
    NoConfig = NoConfig
    NoProfile = NoProfile
PROPERTY SendsStoredDocument
