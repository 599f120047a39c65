CONSTANTS
    None = None
    Child = {c1, c2}
    Sequential = {c1}
    Last = 2
    StepPhases = {2}
    EndStatus = {"fail"}
    HandStatus = {"fail_closed"}
    MaxFaults = 2
    MaxForeign = 1
SPECIFICATION Spec
INVARIANTS
    LaunchIsNotRefused
    PassIsNotRefused
    SetStatusSettles
