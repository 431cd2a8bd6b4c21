CONSTANTS
    Pairs = {"a", "b", "big"}
    ModBytes <- MCModBytes
    PubTexts <- MCPubTexts
    PrivTexts <- MCPrivTexts
    Plaintexts <- MCPlaintexts
    Tampers <- MCTampers
    CraftedN = {257}
    MaxMsgs = 3
    MaxSliceLen = 4096

SPECIFICATION Spec

INVARIANTS
    TypeOK
    RoundTrip
    NoSilentCorruption
