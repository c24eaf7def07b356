\* Two requests on one note, which stop anywhere.
SPECIFICATION Spec
CONSTANTS
    Note = {n1}
    Users = {u1, u2, u3}
    Tipi = {giustificativo}
    Files = {f1, f2, f3}
    Requests = {r1, r2}
    Aziende = {a1}
    Mandati = {m1}
    AziendaOf <- UnMandato
    a1 = a1
    m1 = m1
    Nessuno = Nessuno
    FaultPhases <- Ovunque
SYMMETRY Scambi
INVARIANTS
    AttualeInv
    DecisioneCoerente
PROPERTIES
    LifecycleSpec
    InviataCompleta
    InviataImmutabile
    CommessaCoerente
    RigaHaFile
    NessunFileOrfano
CHECK_DEADLOCK FALSE
