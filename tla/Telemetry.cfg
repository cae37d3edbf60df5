SPECIFICATION TelemetrySpec
CONSTANTS
    Slots = {s1, s2}
    Routes = {"autogen", "langgraph", "otlp"}
    MaxTurns = 3
    MaxSends = 3
    MaxFaults = 2
    None = None
CHECK_DEADLOCK FALSE
INVARIANTS
    ConversationRecorded
