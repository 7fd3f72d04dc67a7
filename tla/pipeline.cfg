SPECIFICATION Spec
CONSTANTS
    a = a
    b = b
    Id = {a, b}
    None = None
    Absent = Absent
    Bad = Bad
    Delivery = {d1, d2}
    Messages <- SomeMessages
SYMMETRY DeliverySymmetry
INVARIANTS
    EventsFollowTenant
    LinesNameTenant
    DispatchShapeEngages
CHECK_DEADLOCK FALSE
