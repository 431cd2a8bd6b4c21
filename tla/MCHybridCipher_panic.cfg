CONSTANTS
    Pairs = {"a", "b", "big"}
    ModBytes <- MCModBytes
    PubTexts <- MCCraftPubTexts
    PrivTexts <- MCCraftPrivTexts
    Plaintexts <- MCPlaintexts
    Tampers = {"add_block"}
    CraftedN <- MCHugeN
    MaxMsgs = 3
    MaxSliceLen = 4096

SPECIFICATION Spec

INVARIANT
    NoPanic
