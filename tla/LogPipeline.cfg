SPECIFICATION Spec
CONSTANTS
    Base <- MCBase
    Components <- MCComponents
    Short <- MCShort
    ContainerIds <- MCContainerIds
    Images <- MCImages
    Bare <- MCBare
    Routes <- MCRoutes
    Feeds <- MCFeeds
INVARIANTS
    EachAsIfAlone
    SourceTextSurvives
    SourceOrderKept
