SPECIFICATION Spec
CONSTANTS
    Preventivi = {p1, p2}
    Mandati = {m1, m2}
    Prestazioni = {x1}
    Voci = {v1, v2, v3}
    StatiPreventivo = {"accettato", "convertito"}
    StatiMandato = {"in_corso", "concluso"}
    Richieste = {r1, r2}
    Nessuno = Nessuno
    Tolta = Tolta
SYMMETRY Simmetria
INVARIANTS
    ContrattiInv
    NumeriSenzaBuchi
    UnMandatoVivo
    TotaleDelleVoci
    ImportoAccettato
    VoceDelPreventivo
PROPERTIES
    RegistroMandatiSpec
CHECK_DEADLOCK FALSE
CONSTRAINT Confine
