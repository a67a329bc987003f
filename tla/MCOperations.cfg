SPECIFICATION Spec
CONSTANTS
    Clients = {c1, c2}
    Nobody = Nobody
    Refusals = {"error"}
INVARIANTS OkMeansDone ErrorIsReal
SYMMETRY MCSymmetry
