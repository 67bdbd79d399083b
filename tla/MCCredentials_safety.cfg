\* Two concurrent calls; tokens that live 0 to 2 ticks against a silence timeout
\* of 1, so that an answer can be late, stale on arrival, or both.
SPECIFICATION Spec
CONSTANTS
    Calls = {c1, c2}
    Refs = {ref}
    MalformedRefs = {malformed}
    AllowedProviders = {erp, mcp}
    OtherProviders = {other}
    Timeout = 1
    MaxLife = 2
    MaxChunks = 1
    Nothing = Nothing
SYMMETRY Symmetry
INVARIANTS TypeOK GrantsMatchTheQuestion GrantsAreLive PreflightHolds
