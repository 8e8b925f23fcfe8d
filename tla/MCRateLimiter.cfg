SPECIFICATION Spec
CONSTANTS
    x = x
    y = y
    Addrs = {x, y}
    Rate = 1
    Interval = 2
    Burst = 2
    Silence = 4
    MaxTime = 7
SYMMETRY MCSymmetry
INVARIANTS
    TypeOK
    AdmissionBound
PROPERTIES
    PatientIsServed
