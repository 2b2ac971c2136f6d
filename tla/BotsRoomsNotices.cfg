SPECIFICATION Spec
CONSTANTS
    None = None
    Account = {u1, u2}
    Device = {d1, d2}
    DeviceOwner <- OneOwnerOfDevices
    Agent = {a1, a2}
    AgentOwner <- OneOwnerOfAgents
    Local = {a1}
    LocalModel = {d1}
    CloudService = {d1, d2}
    NameOf <- DifferentNames
    Request = {q1}
    Paired = {d1, d2}
    HostOf <- OnItsModel
    MaxRooms = 1
    MaxMessages = 2
    MaxChanges = 1
PROPERTIES SaidWhenNobodyCan
CHECK_DEADLOCK FALSE
