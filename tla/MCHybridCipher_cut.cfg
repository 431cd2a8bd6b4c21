CONSTANTS
    Pairs = {"a", "b", "big"}
    ModBytes <- MCModBytes
    PubTexts <- MCRSAPubTexts
    PrivTexts <- MCPKCS1Texts
    Plaintexts <- MCPlaintexts
    Tampers <- MCTampersWithCut
    CraftedN = {}
    MaxMsgs = 3
    MaxSliceLen = 4096

SPECIFICATION Spec

INVARIANT
    NoSilentCorruption
