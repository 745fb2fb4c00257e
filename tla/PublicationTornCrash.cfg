\* A run that dies between the two pointer writes leaves every later run refused.
SPECIFICATION Spec
CONSTANTS
    Publishers = {cli, hook}
    Impatient = {hook}
    Generations = {g1, g2}
    Faults = {"crash"}
    NoGen = NoGen
    NoPublisher = NoPublisher
SYMMETRY GenerationSymmetry
INVARIANTS
    DiedRunIsRunAgain
CHECK_DEADLOCK FALSE
