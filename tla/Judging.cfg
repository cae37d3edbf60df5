SPECIFICATION Spec
CONSTANTS
    Workers = {"w1", "w2"}
    Queues <- MCQueues
    Settings <- MCSettings
    PolicyOf <- MCPolicyOf
    Base <- MCBase
    Confidences = {0, 50, 100}
    Nobody = Nobody
CHECK_DEADLOCK FALSE
INVARIANTS
    UnjustifiedFlagged
    ObjectionSeen
    TokensAccounted
    FirewallUsed
    RiskNamed
