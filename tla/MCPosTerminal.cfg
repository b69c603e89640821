SPECIFICATION Spec
CONSTANTS
    beer = beer
    soy = soy
    Item = {beer, soy}
    NoItem = NoItem
    Price <- MCPrice
    AgeRestricted <- MCAgeRestricted
    Recommends <- MCRecommends
    Ages = {21}
    Toggled = {"fraud", "recommender"}
    Thresholds = {1}
    PayMethods = {"cash"}
    MaxCart = 3
    MaxEvents = 6
    MaxLapses = 1
    MaxTrouble = 1
    MaxRuleChanges = 3
INVARIANTS
    TypeOK
    StepsArePrepared
    FeedIsFaithful
    ChargedForTheCart
    ReceiptIsBacked
    SpikesAreAlerted
    AlertsAreJustified
    SuggestionsFollowTheCart
CHECK_DEADLOCK FALSE
