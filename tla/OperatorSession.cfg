\* Two tabs, two operators, two tokens, two requests under way.
SPECIFICATION FairSpec
CONSTANTS
    NoSession = NoSession
    Tabs = {t1, t2}
    Users = {ann, bob}
    MaxCalls = 2
    MaxTokens = 2
INVARIANTS PairConsistent
PROPERTIES LoadSettles SignOutLeaves
