CONSTANTS
    Nodes <- TwoNodes
    Rank <- RankOfNode
    MaxRestarts = 1
    MaxDuplicates = 1
SPECIFICATION FairSpec
INVARIANTS RecordedTogether RepliesReturnOffers AgreedOnSession
PROPERTIES DuelSettles PeerLearned
