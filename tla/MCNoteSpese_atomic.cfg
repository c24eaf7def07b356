\* One request, and the transaction that removes a draft fails.
SPECIFICATION Spec
CONSTANTS
    Note = {n1}
    Users = {u1, u2}
    Tipi = {giustificativo, scontrino_pos}
    Files = {f1, f2, f3}
    Requests = {r1}
    Aziende = {}
    Mandati = {}
    AziendaOf <- NoMandati
    a1 = a1
    m1 = m1
    Nessuno = Nessuno
    FaultPhases = {"cancella"}
INVARIANTS
    RigheScaricabili
CHECK_DEADLOCK FALSE
