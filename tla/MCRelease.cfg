SPECIFICATION Spec
CONSTANTS
    Commits = {merged, stray}
    Reviewed = {merged}
    DraftsSeen = FALSE
    MaxRuns = 2
    MaxReleases = 2
    MaxEdits = 2
INVARIANTS
    TypeOK
    VerifiedIsOneReviewedBuild
    AcceptedStays
