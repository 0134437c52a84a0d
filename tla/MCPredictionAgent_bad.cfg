CONSTANTS
    None = None
    NoDev = NoDev
    Clusters <- MCClusters
    Replies <- MCReplies
    DevIds <- MCDevIds
SPECIFICATION Spec
INVARIANT BadDiskWindowSet
