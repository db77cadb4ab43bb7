CONSTANTS
    Nodes <- TwoNodes
    Rank <- RankOfNode
    MaxRestarts = 0
    MaxDuplicates = 0
SPECIFICATION FairSpec
PROPERTIES HandshakeCompletes
