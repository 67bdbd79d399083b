\* Many documents and environments while nothing changes; and those of the repository
\* while a rollout rewrites them, moves the policy or reinstalls wheels.
SPECIFICATION MCSpec
CONSTANTS
    Absent = Absent
    Torn = Torn
    Flawed = Flawed
    Nothing = Nothing
    NoHost = NoHost
    Unset = Unset
    Blank = Blank
    Variables <- MCVariables
    NameIn <- MCNameIn
    Url <- MCUrl
    Seconds <- MCSeconds
    Digests <- MCDigests
    Symbols <- MCSymbols
    Deployments <- MCDeployments
    Policies <- MCPolicies
    PolicyFiles = {file1, file2}
    PolicyPaths = {"policy", "moved"}
    SkillRoots = {"skills"}
    Environments <- MCEnvironments
    Installations <- MCInstallations
    Intended <- MCIntended
    MaxEdits = 1
SYMMETRY Symmetry
CHECK_DEADLOCK FALSE
INVARIANTS
    TypeOK
    GrantsOnlyReads
    EgressIsConfined
    SecretsStand
    IntendedIsAccepted
    EnforcedWasValidated
    AttestedPinsMatch
