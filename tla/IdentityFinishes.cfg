SPECIFICATION FairSpec
CONSTANTS
    MaxIdentities = 2
    MaxRestarts = 1
    Calls = {"bootstrap_identity", "create_identity"}
    AnswerKinds = {"full", "nokeys", "omitted"}
    Faults = {}
PROPERTIES
    InterruptedSignUpFinishes
