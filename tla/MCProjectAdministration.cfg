SPECIFICATION Spec
CONSTANTS
    r1 = r1  r2 = r2
    NoOne = NoOne
    pk1 = pk1  mk1 = mk1  mk2 = mk2  o1 = o1  o2 = o2  d1 = d1  d2 = d2
    Requests = {r1, r2}
    Keys = {pk1, mk1, mk2}
    ProvisionKeys = {pk1}
    MapKeys = {mk1, mk2}
    Details = {d1, d2}
    Mappings <- MCMappings
    Outlets = {o1, o2}
    Crashes = TRUE
    SecurityOpens = TRUE
    Scenarios <- MCScenarios
SYMMETRY Symmetric
INVARIANTS
    ReadyEverywhere
    TwoRolesWereRaced
PROPERTIES
    ProgressIsKept
    LoneMappingHolds
    ActivatedWhenReady
