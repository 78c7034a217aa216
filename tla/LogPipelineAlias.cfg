SPECIFICATION Spec
CONSTANTS
    Base <- MCBase
    Components <- MCComponents
    Short <- MCShort
    ContainerIds <- MCContainerIds
    Images <- MCImages
    Bare <- MCBare
    Routes <- GatewayRoutes
    Feeds = {}
INVARIANT AliasIsTheDevices
