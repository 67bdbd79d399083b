\* Two concurrent calls; tokens that live for 2 ticks against a silence timeout of 1.
SPECIFICATION LocalFairSpec
CONSTANTS
    Calls = {c1, c2}
    Refs = {"local-dev-credential-ref", "another-ref"}
    MalformedRefs = {}
    AllowedProviders <- MCAllowedProviders
    OtherProviders = {}
    Timeout = 1
    MaxLife = 2
    MaxChunks = 1
    Nothing = Nothing
    ClientToken <- MCClientToken
    LocalLife = 2
PROPERTIES EveryCallEnds LocalCallsAreGranted
