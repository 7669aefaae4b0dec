SPECIFICATION FairSpec
CONSTANTS
    Accounts = {ann, bob}
    Founder = ann
    MaxAsked = 3
    Requests = {q1, q2}
    None = None
INVARIANTS ChangesAreSerial OneOpenInvitation AdmittedByInvitation FounderIsOwner
PROPERTIES ImplementsRegister RequestEnds
