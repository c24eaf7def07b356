SPECIFICATION Spec
CONSTANTS
    Nessuno = Nessuno
    az1 = az1
    az2 = az2
    u1 = u1
    u2 = u2
    Aziende = {az1, az2}
    Email = {e1, e2}
    Token = {k1, k2}
    Accettazioni = {a1, a2}
    Circolare = {c1}
    Utenti = {u1, u2}
    AziendaDi <- Appartenenza
    Studio = {s1, s2}
    Portale = {o1, o2}
    Thread = {t1, t2}
    Messaggi = {m1, m2, m3}
    Chiamate = {r1, r2}
    Note = {n1}
    Chiamata = {h1, h2}
    Threshold = 2
    Window = 2
    Duration = 2
    Tentativi = {g1, g2}
    Sigle = {y1, y2}
    MaxOra = 3
    Controlli = {q1, q2}
    Ttl = 2
    Pazienza = 1
    f1 = f1
    f2 = f2
    ta = ta
    tb = tb
    Flussi = {f1, f2}
    Tenant = {ta, tb}
    TenantDi <- DelTenant
    Connessioni = {d1, d2}
    Profondita = 3
    Scritte = {w1, w2}
    InCorso = {i1, i2}
    leggi = leggi
    scrivi = scrivi
    Versioni <- Rilasci
    Studi = {t8, t9}
INVARIANTS
    AziendaHaAdmin
    UnUtentePerLink
    LettureNelSet
    CodiciSenzaBuchi
    AttivitaRegistrata
    EsitoVisibile
    TentativiLimitati
    RispostaRecente
    SoloIlProprioTenant
    UnaNotaPerScheda
    VerdeDura
CHECK_DEADLOCK FALSE
