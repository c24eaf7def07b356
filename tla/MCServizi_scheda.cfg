SPECIFICATION Spec
CONSTANTS
    Nessuno = Nessuno
    az1 = az1
    az2 = az2
    u1 = u1
    u2 = u2
    Aziende = {az1, az2}
    Email = {e1}
    Token = {k1}
    Accettazioni = {a1}
    Circolare = {c1}
    Utenti = {u1, u2}
    AziendaDi <- Appartenenza
    Studio = {s1}
    Portale = {o1}
    Thread = {t1}
    Messaggi = {m1}
    Chiamate = {r1}
    Note = {n1}
    Chiamata = {h1, h2}
    Threshold = 2
    Window = 2
    Duration = 2
    Tentativi = {g1}
    Sigle = {y1, y2}
    MaxOra = 3
    Controlli = {q1}
    Ttl = 2
    Pazienza = 1
    f1 = f1
    f2 = f2
    ta = ta
    tb = tb
    Flussi = {f1, f2}
    Tenant = {ta, tb}
    TenantDi <- DelTenant
    Connessioni = {d1}
    Profondita = 3
    Scritte = {w1, w2}
    InCorso = {i1, i2}
    leggi = leggi
    scrivi = scrivi
    Versioni <- Rilasci
    Studi = {t8}
INVARIANTS
    CampiDellaNota
CHECK_DEADLOCK FALSE
