\* Two consumers, two of three registrations, or one published twice, an administrator and two faults.
SPECIFICATION RegFairSpec
CONSTANTS
    u1 = u1
    u2 = u2
    u3 = u3
    q1 = q1
    Instances = {"i1", "i2"}
    Length = 2
    Malformed = {}
    MaxFailures = 3
    MaxFaults = 2
    Users = {u1, u2, u3}
    MailOf <- const_MailOf
    Admins = {q1}
    Names = {"bob"}
    Mails <- const_Mails
    MaxRepeats = 1
    MaxErrors = 1
INVARIANTS
    SkippedHaveFailed
    RepeatsArePaidFor
PROPERTIES
    RegistrationHandled
CHECK_DEADLOCK FALSE
