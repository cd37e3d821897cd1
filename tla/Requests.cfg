SPECIFICATION LiveSpec
CONSTANTS
    Users = {u1, u2}
    Kinds = {"ussd", "operator", "safe", "at", "phone"}
    MaxAsks = 2
    MaxSched = 2
    SafeTries = 2
INVARIANTS NoLockLeft FreshAnswer
PROPERTIES AskedOnce SafeEnds
