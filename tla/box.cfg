CONSTANTS
    b1 = b1
    b2 = b2
    s1 = s1
    s2 = s2
    s3 = s3
    r1 = r1
    r2 = r2
    None = None
    Boxes <- TwoBoxes
    Sandboxes <- ThreeSandboxes
    Reqs <- OneConnection
    Sizes <- TwoSizes
    DefaultSize = 1
    Ops = {"create", "fork", "get", "peek", "list", "start", "stop", "exec", "set", "remove", "restore", "shutdown"}
    Faults = {"vm_death", "vm_hang"}
SPECIFICATION Spec
SYMMETRY Symmetry
INVARIANTS SandboxIsolation  
 
