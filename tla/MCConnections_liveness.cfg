\* Goroutines return unless a client stops reading.
CONSTANTS
    c1 = c1
    c2 = c2
    alice = alice
    bob = bob
    None = None
    First = 0
    Second = 0
    KeysOf <- MCKeysOf
    Events = 1
    Conns = {c1, c2}
    Addresses = {alice, bob}
    Listeners = {l1}
    Members <- MCMembers
    Owners = {alice, bob}
    DatabaseFails = TRUE
    MayStall = {c1}
    MaxServed <- MCMaxServed
SPECIFICATION FairSpec
PROPERTIES ClosedIsForgotten ListenersReturn
CHECK_DEADLOCK FALSE
