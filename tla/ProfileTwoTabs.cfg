SPECIFICATION Spec
CONSTANTS
    Posts = {agent, advisor}
    Places = {boston, albany}
    Tabs = {one, two}
    Faults = TRUE
    MaxExperiences = 2
SYMMETRY Symmetry
INVARIANTS
    TypeOK
    ProfileRenders
    PostAgrees
