CONSTANTS
    b1 = b1
    b2 = b2
    s1 = s1
    s2 = s2
    s3 = s3
    r1 = r1
    r2 = r2
    None = None
    Boxes <- OneBox
    Sandboxes <- TwoSandboxes
    Reqs <- OneConnection
    Sizes <- OneSize
    DefaultSize = 1
    Ops = {"create", "get", "start", "stop"}
    Faults = {"vm_death"}
SPECIFICATION Spec
INVARIANTS FailedIsRestartable
