CONSTANTS
    Nodes <- TwoNodes
    Rank <- RankOfNode
    MaxRestarts = 1
    MaxDuplicates = 1
SPECIFICATION Spec
INVARIANT WinnerKeepsSending
PROPERTIES DuelDecides RolesStand
