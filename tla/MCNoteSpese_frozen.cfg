\* An edit overlaps with the submission.
SPECIFICATION Spec
CONSTANTS
    Note = {n1}
    Users = {u1, u2}
    Tipi = {giustificativo, scontrino_pos}
    Files = {f1, f2, f3}
    Requests = {r1, r2}
    Aziende = {}
    Mandati = {}
    AziendaOf <- NoMandati
    a1 = a1
    m1 = m1
    Nessuno = Nessuno
    FaultPhases = {}
PROPERTIES
    SempreImmutabile
CHECK_DEADLOCK FALSE
