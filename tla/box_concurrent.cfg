CONSTANTS
    b1 = b1
    b2 = b2
    s1 = s1
    s2 = s2
    s3 = s3
    r1 = r1
    r2 = r2
    None = None
    Boxes <- OneBox
    Sandboxes <- TwoSandboxes
    Reqs <- TwoConnections
    Sizes <- OneSize
    DefaultSize = 1
    Ops = {"create", "get", "start", "stop", "exec", "remove", "restore", "shutdown"}
    Faults = {"vm_death", "vm_hang", "crash"}
SPECIFICATION Spec
SYMMETRY Symmetry
INVARIANTS VmOwnership RunningNamesSandbox
PROPERTIES NoResurrection
