SPECIFICATION Spec
CONSTANTS
    c1 = c1
    c2 = c2
    Callers = {c1, c2}
    MaxAttempts = 1
    MaxResumes = 2
    MaxSubmits = 2
SYMMETRY CallerSymmetry
INVARIANTS
    IInv
    OneResumePerStop
PROPERTIES
    ResumeSparesStages
    AnswersAreTrue
    
