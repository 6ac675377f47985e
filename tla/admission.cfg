SPECIFICATION Spec
INVARIANTS
    PromotionsCounted
PROPERTIES
    PromotionPermitted
    EveryCandidateDecided
CHECK_DEADLOCK FALSE
