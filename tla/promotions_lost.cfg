SPECIFICATION RunsSpec
INVARIANTS
    PromotionsExact
CHECK_DEADLOCK FALSE
