SPECIFICATION Spec
CONSTANTS
    owner = owner
    contributor = contributor
    People = {owner, contributor}
    Owner = owner
    User = owner
    Texts = {a, b}
    Notes = {n}
    ClaimIds = {1, 2}
    FactIds = {1, 2}
    Calls = {c1, c2}
    Casts <- TheCasts
    None = None
SYMMETRY Symmetry
INVARIANTS
    NoClaimShownTwice
PROPERTIES
    
    ProposalsMatchThePage
    QuietAnswersAreTrue
    ViewNeverGoesBack
