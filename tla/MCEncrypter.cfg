CONSTANTS
    Keys = {"k1", "k2", "k16"}
    KeySize <- MCKeySize
    Texts = {"short", "long"}
    TextLen <- MCTextLen
    Slots = {s1, s2}
    NonceSize = 12
    TagSize = 16
    NoText = NoText
    CipherText = CipherText

SPECIFICATION Spec

INVARIANTS
    TypeOK
    CompatReadsBothFormats

PROPERTY
    SecretStoreRefined
