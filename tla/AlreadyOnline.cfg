SPECIFICATION PortalSpec
CONSTANTS
    u1 = u1
    u2 = u2
    Stranger = Stranger
    Orders <- MCOrders
    Networks <- MCNetworks
PROPERTIES
    AlreadyOnlineStops
CHECK_DEADLOCK FALSE
