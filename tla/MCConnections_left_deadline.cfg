\* An error response and an event meet on one connection.
CONSTANTS
    c1 = c1
    c2 = c2
    alice = alice
    bob = bob
    None = None
    First = 1
    Second = 0
    KeysOf <- MCKeysOf
    Events = 1
    Conns = {c1, c2}
    Addresses = {alice, bob}
    Listeners = {l1}
    Members <- MCMembers
    Owners = {alice}
    DatabaseFails = FALSE
    MayStall = {}
    MaxServed <- MCMaxServed
SPECIFICATION Spec
PROPERTY ReadersStayConnected
CHECK_DEADLOCK FALSE
