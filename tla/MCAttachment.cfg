SPECIFICATION Spec
CONSTANTS
    User = {u1, u2}
    Listener = {l1, l2}
    Consumer = {c1, c2}
    Element = {e1}
    Name = {OnEvent, ping}
    Special = {OnEvent}
    MaxCalls = 3
    Null = Null
    Absent = Absent
SYMMETRY Alike
INVARIANTS
    AttachmentTypeOK
    ListsAgree
    OneOwner
    EndsExplained
CHECK_DEADLOCK FALSE
