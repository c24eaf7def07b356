# Verification of gestionale-piattaforma

TLA+ models of the parts of the platform where the order of events decides
whether the result is right, the TLC runs that check them on small instances,
and TLAPS proofs of what holds for instances of any size. The code of the
repository is the reference; paths below are relative to `src/`.

Check a module with `tlc -workers 2 -config <run>.cfg <module>`; prove with
`tlapm <module>`, where the module is one of `AuthSessionsProofs`,
`PasswordResetProofs`, `NoteSpeseProofs`, `PreventivoMandatoProofs`,
`InvitiProofs`, `ServiziProofs`, `AccessoProofs` and `BrowserProofs`.

## 1. Inventory of the system

The platform is a NestJS API (`apps/accountant-api`, with the shared packages
`auth`, `db`, `platform`) over PostgreSQL, Redis and a file store, and a Next.js
front end (`apps/accountant-web`, with `auth-web` and `api-client`). API
processes keep no state: what a handler knows it has read from the database,
and between two awaited calls any other handler may run. Three facts of
`packages/db/src/rls.ts` shape every concurrency question:

- a Prisma call outside an atomic helper is a transaction of its own;
- `withTenantContextAtomicTx` and `withSystemContextAtomicTx` make one READ
  COMMITTED transaction of everything in the callback;
- a plain `prisma.$transaction(async (tx) => ...)` does *not*: each call on `tx`
  passes the RLS extension, which opens a transaction of its own for it.

| component | state | operations | talks to | hard part | what makes it correct |
|---|---|---|---|---|---|
| Authentication sessions (`packages/auth`, auth.service, jwt.strategy) | `sessions` rows | login, refresh, logout, guard check | users, lockout, mail, audit | rotation in two writes, replay alarm, concurrent refreshes, crash in between | a spent token stays spent; an alarm closes what existed; no row is reopened |
| Password recovery (auth.service) | `password_resets`, password hash | forgot, reset | sessions, mail | check, slow hash, three separate writes | used links stay used; sessions that existed are closed |
| Browser token client (`auth-web`, `api-client`) | tokens in localStorage, renewal promise per tab | API call, 401-renew-retry, login, logout | auth endpoints | single flight, lost responses, tabs | a token already exchanged is never presented or kept |
| Expense notes (note-spese) | `note_spese`, attachments, files | create, edit, submit, decide, delete, upload, remove | storage, mandates | checks before transactions, files next to rows | life cycle, decision fields, complete submissions, rows with files |
| Tenant isolation (`packages/db`) | transaction-local settings, connection pool | every query | all | which calls commit together, pool exhaustion | no query without tenant; no mutual waiting |
| File storage (`packages/platform`) | files by key | put, get, delete | notes, documents, communications | not transactional | see its users |
| Lockout (lockout.service) | sorted set and lock key in Redis | check, record, reset | login, PIN | boundary of window and threshold, parallel attempts | threshold bounds the guesses |
| PIN access (auth.service) | `users.pin_hash` | setup, login | lockout | uniqueness by scan | a PIN identifies one user |
| Client invitations (inviti) | `cliente_inviti`, users, roles | create, revoke, accept | auth, mail | role decided before the user exists, three writes one by one | one user per link, every company has an administrator |
| Quotes and mandates (preventivi, mandati) | quotes, rows, mandates, counter | create, edit, convert, close, delete | prestazioni | conversion racing edits, numbering, partial unique index | one live mandate per quote, numbers without holes, totals of the rows |
| Services rendered, rates (prestazioni, tariffe) | time records, rates with validity | record, edit, resolve rate | mandates | rows of the quote replaced meanwhile, choice of rate | a service names a row of its mandate's quote |
| Communications (comunicazioni) | threads, messages, read flags, counter | open, reply, take, close, mark read | storage, portal | three transactions per reply, two sides | numbers without holes, activity recorded |
| Circulars (circolari) | circulars, recipients, readings | draft, publish, archive, confirm | portal | edit racing publication and reading | readings within the recipients |
| Deadlines (scadenze) | deadlines, categories | create, edit, complete | companies | merge with a stale row | visibility agrees with company |
| Documents (documenti) | documents, files | create, delete | storage | file without a row | row implies file |
| Permissions, tenant resolution (guards) | Redis caches with a time to live | get, look up, set | users, tenants | stale set after a change | no answer older than a bound |
| Tenant bootstrap, role catalogue (tenants, rbac-catalog, seed, drift gate) | permissions, templates, mappings, tenants' clones | release, seed, bootstrap, gate, remedy | all | seed that stops half-way, bootstrap in flight | a green gate stays true |
| Approval page, notes page (accountant-web) | component state, calls in flight | load, filter, open, decide; open, save, submit, delete | note-spese API | answers in any order, form kept over another note | outcome shown; one note per form |
| Registry (aziende, referenti, catalogo), dashboard, report, AI, mail, throttler, other pages | rows, or none | CRUD, queries, I/O | | no state of their own that can go wrong | |

`PROJECT.json` lists each with its status, and under `hazards` the places where
the code is hard to test.

## 2. Plan

Done, in this order:

1. `SessionRegistry`, `AuthSessions`, `AuthSessionsProofs`: sessions.
2. `PasswordReset`: recovery composed with the session handlers.
3. `NotaLifecycle`, `NoteSpese`: expense notes and their attachments.
4. `TokenClient`: the browser composed with the session handlers.
5. `RegistroMandati`, `PreventivoMandato`: quotes, mandates, services rendered,
   with the proofs of `PreventivoMandatoProofs`.
6. `Inviti`, with the proofs of `InvitiProofs`; `Circolari`, `Comunicazioni`,
   `Lockout`, `CacheAccesso`, `ContestoRls`, `CatalogoRuoli`: the smaller services
   and the infrastructure every request crosses.
7. `CodaApprovazione`, `SchedaNota`: two pages with calls in flight.

8. The theorems: `PasswordResetProofs`, `NoteSpeseProofs`, `ServiziProofs` (circulars,
   communications, role catalogue), `AccessoProofs` (tenant contexts, guard caches,
   lockout), `BrowserProofs` (token client, the two pages).
9. `UtentiCliente`, `RegistroThread`, `RegistroLetture`: what invitations,
   communications and circulars promise to those who only see their results, with
   the proofs that the services implement them.

What is left:

10. Deadlines and documents, the read flags and attachments of communications.
    They repeat patterns that NoteSpese already has and come last.

The number of runs is kept small, one per question; components without shared
state are checked in one run (section 3, MCServizi).

## 3. What is modelled

**SessionRegistry** is what readers of the `sessions` table may rely on: a row
is opened once for one user, names the row it replaces, which is closed and of
the same user, and is never reopened; a step closes rows of one user only.

**AuthSessions** has the handlers as sequences of steps, one per awaited
database call: `Login`/`LoginIssue`, `RefreshRead` then `Rotate`/`RotateIssue` or
`TheftRevoke`/`TheftAnswer`, `Logout`/`LogoutWrite`. `status`, `owner` are columns;
`expired` stands for `expires_at`; `held` for the tokens a client has got, since a
response may be lost; `req` for the local variables of the handlers in progress.
`parent` and the field `seen` are history. `Crash` drops a handler between any two
steps. A session stands for its refresh token (the JWT carries the session id,
the row its hash), so signature and hash checks succeed. Refusals that write
nothing (unknown or expired session, failed credentials) are guards. Login takes
the credentials check and the creation of the row as two steps; PIN login and
accept-invite create their session through the same helper and are left to
their own modules, as is `last_seen_at`, which nothing reads.

**PasswordReset** extends AuthSessions: `SessionStep` is any of its steps,
`Forgot*` and `Reset*` are the two recovery handlers. The three writes inside
`prisma.$transaction` of `resetPassword` are three actions, as rls.ts explains.
`ResetLookup` contains the checks, the hashing and the entry into the
transaction. `uses` counts, up to two, the changes obtained with a link.

**NoteSpese** has the eight operations of the two services. Reads and
checks before a transaction are steps of their own (`ModificaLeggi`,
`EliminaLeggi`, `EliminaElenca`, `CaricaLeggi`, `TogliLeggi`, `TogliTrova`); an
`updateMany` with a guard on the state re-evaluates it on the row it locks
(`InviaScrivi`, `DecidiScrivi`); a row deleted by an open transaction is visible
to readers and blocks writers (`NotaLocked`, `Blocca`); the storage is changed
at once and is not rolled back. The fields of a note are reduced to what the
rules look at: `dovuti`, the attachment types its amount and payment method call
for, and `commessa`, its company and mandate. `FaultPhases` says at which points a
handler may stop or the database or storage fail; in the passing run it is all of
them. `Operazione` is what the code does, `Sorpasso` maintains the history variable
`superati`: the requests in progress on whose note another one has written the
state, the data or the attachments since they started. The code checks first and
writes in a later statement, so most rules of note-spese-v1.md can be broken by such
a request, and the properties are action properties that say so exactly: no other
step breaks the rule, and a note that is in order stays so
until an overtaken request writes on it. **NotaLifecycle** is the life of
a note with its decision fields, as the specification document gives it, except
that deletion is allowed in any state, which is what the code does.

**TokenClient** composes the browser with AuthSessions: `store` is localStorage,
shared by the tabs; `renewal` is `refreshInFlight`, one per tab; `calls` are the API
calls in progress by the token they carry; `retry` a `/me` sent again after a
renewal, whose 401 clears the tokens (AuthContext); `form` a login or logout in
progress. Requests and responses take time and may be lost after the server did
its part. Simplifications: of several calls waiting for one renewal the model
follows one retry; a `/me` refused after a renewal that failed clears a store that is
already empty, and that second clear is part of the first; a tab has at most one
form in progress.

**RegistroMandati** is what readers of the mandates may rely on: they are numbered
1, 2, ... as they are issued, a quote has at most one that is not revoked, and
quote, number and amount never change.

**PreventivoMandato** has the quotes, the mandates and the services recorded on
them. `create` and `update` of a quote and the conversion are single READ COMMITTED
transactions: what they write shows at their last step (`ModificaConferma`,
`ConvertiConferma`), and the row they have updated, or the counter they have
selected `FOR UPDATE`, is locked until then (`TestataBloccata`, `ContatoreBloccato`);
`Interrompi` rolls back at any step. The partial unique index
`mandati_preventivo_id_unique` is `GiaConvertito`, the foreign key of a service to a
row of the quote, with its `ON DELETE SET NULL`, is `ChiaveEsterna` and the last
part of `ModificaConferma`. A `findFirst` that only decides that a row was there,
followed by an update by id, is one step. `Voci` are sets of rows that a call
inserts together, and stand for their total; the history variable `offerti` has
the totals a quote had while it was 'accettato'.

**Righe** is what tables have in common in the modules that follow.

**Inviti** has the invitations and the acceptance, whose role is decided on a read
made before the password is hashed and whose three writes commit one by one.
`nati` counts the users a link has given. Requests and invites are not seen from
outside: what is left is **UtentiCliente**, where a link lets one user in, an address is
taken once and who enters a company without an administrator becomes it.
**Circolari** has the drafts of the
studio, read in one transaction and updated by id in the next, beside the reading
and confirming of clients; `ritoccate` remembers the circulars published between
the read of an edit and its write. **RegistroLetture** is what the report relies on:
what has been published is no draft again, nobody reads a draft, no reading is
forgotten and no confirmation taken back. **Comunicazioni** has the opening of a thread under
its counter and the reply in three transactions; `coperti` are the messages not
younger than `updated_at`, `interrotti` those whose request stopped before the
update. **RegistroThread** is what both sides see: threads numbered in the order they
are opened, each with a message from the start, and messages that stay where they
were written; that nobody writes in a closed thread is not promised, since a reply
looks at the header before its insert.

**Lockout** has the two Redis keys with their deadlines, one step per command or
pipeline, and a clock. The sorted set is a set of members: a member's name is the time
and a random part (`Sigle`), two failures never have the same, and `di`, whose guess it
was, is history. **CacheAccesso** is one key of either guard's cache; `eta` is
the time since each answer was last the true one, and `Limite` what the code
guarantees of it: the time to live and the time a request takes, twice.
**ContestoRls** has, per flow of calls, the stack of contexts and transactions that
AsyncLocalStorage shows (`pila`) and the settings of every pooled connection:
`ApreOperazione` is a Prisma call that the extension wraps, `ApreTransazione` a plain
`$transaction`, `ApreAtomica` the atomic helpers. **CatalogoRuoli** follows a
permission from the code through the production seed, row by row, and the
bootstrap of a tenant to its roles, with the gate that compares them and the SQL
it prints, which stays with the operator and may be run late or again (`stampato`);
`verde` remembers a green gate until the next release, `inVolo` the tenants whose
bootstrap had read the templates before it.

**CodaApprovazione** and **SchedaNota** are pages: every event and every answer is a
step, calls in flight are `volo` and `invii`, answers arrive in any order. The
server is reduced to what the page can see of it; colleagues change it too.

The nine components from Inviti on share no state. **MCServizi** explores them in
one run: the first state chooses one of them (`scena`), which alone moves, so
that the state space is the sum of theirs and not the product.

## 4. Runs

| run | instance | states | shows |
|---|---|---|---|
| `MCAuthSessions_safety` | 2 users, 3 sessions, 3 requests, crashes, symmetry | 146 k | `SessionInv` (the invariant of the proofs, types included), `ReplacedSessionIsClosed`, `AlarmClosesEarlierSessions`, `SpentTokenStaysSpent`, implements SessionRegistry |
| `MCAuthSessions_once` | 1 user, 2 requests, no fault | counterexample | a token can be exchanged twice |
| `MCPasswordReset_safety` | 1 user, 2 sessions, 1 session request, 2 links, 2 recovery requests, crashes | 1.3 M | `ResetIsComplete`, `EarlierLinksAreDead`, `UsedLinkStaysUsed`, implements SessionRegistry |
| `MCPasswordReset_live` | 1 user, 2 sessions, 1 session request, 1 link, 2 recovery requests, no crash, fair | 111 k | `ChangeEndsInLogout`, `ReplayEndsInRevocation` |
| `MCPasswordReset_atomic` | with crashes | counterexample | a reset is not atomic |
| `MCNoteSpese_race` | 1 note, 1 type, 3 files, 3 users, 1 company with 1 mandate, 2 requests, faults everywhere, symmetry | 271 k | `AttualeInv` (the invariant of the proofs, types included), `DecisioneCoerente`, implements NotaLifecycle, `InviataCompleta`, `InviataImmutabile`, `CommessaCoerente`, `RigaHaFile`, `NessunFileOrfano` |
| `MCNoteSpese_frozen` | 2 requests, no fault | counterexample | a submitted note is edited |
| `MCNoteSpese_atomic` | 1 request, 2 types, a removal that fails | counterexample | a draft lists an attachment that has no file |
| `MCTokenClient_tab` | 1 tab, 3 sessions, 2 server requests, crashes | 1.6 M | `TokenExchangedOnce`, `RotatedTokenNotPresented`, `StoredTokenIsFresh` |
| `MCPreventivoMandato_contratti` | 2 quotes, 2 mandates, 1 service, 3 sets of rows, 2 requests, roll-backs, symmetry | 426 k | `ContrattiInv` (the invariant of the proofs, types included), `NumeriSenzaBuchi`, `UnMandatoVivo`, `TotaleDelleVoci`, `ImportoAccettato`, `VoceDelPreventivo`, implements RegistroMandati |
| `MCServizi_insieme` | nine components, see below | 1.3 M | `AziendaHaAdmin`, `UnUtentePerLink`, `LettureNelSet`, `CodiciSenzaBuchi`, `AttivitaRegistrata`, `EsitoVisibile`, `TentativiLimitati`, `RispostaRecente`, `SoloIlProprioTenant`, `UnaNotaPerScheda`, `VerdeDura` |
| `MCServizi_scheda` | 2 notes, 2 calls in flight | counterexample | a form saves the fields of another note |

Every property of a passing run has a mutant of a mapped definition (a dropped
guard, a missing reset, a filter forgotten, a swapped argument), kept above the
definition it changes and listed in `PROJECT.json`, under which TLC finds the
property violated.

**Bounds.** Three sessions give a rotation chain of two exchanges, or a chain
and a login beside it; three requests a replay in the middle of a rotation with
a third handler in between. Two links and two requests contain every overlap of
two recovery requests, which are the ones that interact; a third link adds only
repetition. One note suffices since operations touch a single note and a file is in
the hands of one row or request; two requests are one that reads and one that
overtakes it, which is all the note properties speak of, and their theorems cover
more of either. A company that may be absent and its mandate already make an
incoherent pair.
`Files` bounds the uploads in progress and stored together. `MaxCalls`
bounds the distinct tokens the API calls of a tab carry at a time; calls with the
same token are one. Ids are not reused: when they are used up no handler that
needs one starts, so TLC's state spaces end, and deadlock is not checked.


In `MCPreventivoMandato_contratti` two requests overlap in every pair of operations:
two conversions, a conversion and an edit, an edit and a service. `Confine`, a
state constraint, explores services and mandates out of 'in_corso' beside one
quote whose rows are replaced once, and conversions and edits beside two quotes; the
interplay of a service with a second quote is what `VoceDelPreventivo` forbids by
the quote's id alone, and its theorem covers what the constraint leaves out.
`MCServizi_insieme` has 2 companies, 2 emails, 2 links and 2 acceptances for Inviti
(the smallest with two invitees of one company and a renewed invite); 1 circular,
2 client users of 2 companies, 2 requests on each side; 2 threads, 3 messages, 2
calls; a lockout with threshold, window and duration 2, 2 requests in flight and
a clock up to 3 (a window that
ends with a second one begun) and two random parts;
a cache with a time to live of 2 and requests that
take 1, so that a slow `set` comes over a newer one; 2 flows of 2 tenants on 2
connections, nested up to 3; in the pages 1 or 2 notes and 2 calls in flight; 3
releases (a permission added, one removed with a template added) and 2 tenants.

**Fairness.** `Fairness` and its like are weak fairness of the next step of a
request that has started: Node runs the continuation of a call that settles.
Clients are never obliged to send anything. Liveness is checked without crashes in PasswordReset, since a stopped
handler is not resumed; that is what `MCPasswordReset_atomic` shows.

## 5. What the code leaves open

The counterexample runs state what a comment, a document or a label of the
repository says and the code does not keep; `findings` quotes both. In short: the
refresh handler reads and closes the row without a condition (auth.service.ts 289,
354), a reset commits its writes one by one (690), an edit checks the state before
an update by id (note-spese.service.ts 216), a removal of files inside a transaction
is not undone with it (note-spese.service.ts 246, `MCNoteSpese_atomic`), and the form of the notes page is
rendered without a key, so that opening another note of the list saves to it the
fields of the first (note-spese/page.tsx 303).

The models contain the following behaviours too, which have no run of their own.
What holds in spite of them is what the passing runs state.

- Sessions and recovery: a rotation or login in flight when an alarm or reset
  closes the sessions creates one afterwards (auth.service.ts 315, 699); two
  forgot-password requests leave two live links (587); two resets with one link
  both succeed (652, 695).
- Browser: two tabs do not share the renewal and may present one token twice
  (auth-refresh.ts 28); a renewal in flight during a logout stores its tokens after
  it (auth-logout.ts 38); an API call refused between the server's side of a logout
  and `clearTokens` renews with the revoked token, which is taken for a replay.
- Notes (note-spese.service.ts): an attachment removed, or a field edited, between
  gating and submission (279); a deletion that read a draft removes the submitted
  note (245); two edits, one of the company and one of the mandate, store an
  incoherent pair (200); an upload that commits between the listing of keys and the
  deletion leaves its file (240), as does one that stops before its row
  (note-spese-allegati.service.ts 62). These are the exceptions that
  `InviataCompleta`, `CommessaCoerente` and `NessunFileOrfano` name.
- Quotes and mandates: two conversions may both find the quote 'accettato', and it
  is the unique index that refuses the second, not the check of mandati.service.ts
  58-60; a deleted mandate leaves its quote 'convertito', so that it generates another
  (comment at 160) only after somebody edits the quote back to 'accettato'; a mandate
  may be closed between the check and the insert of a service
  (prestazioni.service.ts 39).
- Invitations: a stop before the last write leaves a user without his role
  (inviti.service.ts 270).
- Communications: a reply that stops before its third transaction leaves a message
  that `updated_at` does not cover (`interrotti`); one that does not writes back the
  `urgente` it read and may undo a concurrent change (comunicazioni.service.ts 331).
- Circulars: an edit that read a draft may write after another operator's
  publication; readings written in between may be of companies no longer reached
  (circolari.service.ts 180). Of two publications that have read the draft, the later
  one puts a circular archived in between back to 'pubblicata' (233).
- Lockout: a promotion in flight when the right password resets the key locks
  after it (lockout.service.ts 105-112).
- Roles: with mappings left over from an older catalogue (check C1-bis) the gate
  stays red after its remedy, which it says must turn it green
  (check-role-permissions-drift.ts 449); a bootstrap in flight at the time of a green
  gate may leave a tenant with the older permissions (`inVolo`), and a seed of an older
  release that is still running then adds its templates and mappings.
- Pages: a late answer replaces the note under an open dialog of the approval
  page; an answer to an older filter overwrites the list; the answer of a creation
  lost on the way, saving again creates a second note.

Two things outside the models, of the same kind: `setupPin` compares with the PINs
of the others and then writes (auth.service.ts 422), so two users may set one PIN at
once; the page of a thread loads it and marks it as read in two independent calls
(comunicazioni/[id]/page.tsx 82-91), so a message that arrives between the two is
marked though it has not been shown.

## 6. Proofs

`AuthSessionsProofs` proves, for any sets of users, sessions and requests and
with or without crashes:

- `SessionInvariant`: `Spec => []SessionInv`. The properties are not inductive as
  they stand: that the replaced session is closed needs to know that between the
  two writes of a rotation the old row is closed (`RotatedIsClosed`), that it
  belongs to the request's user (`RequestsKnowTheirUser`), and that a session id
  without a row is nobody's parent and in nobody's hands (`RowsAreOwned`); that an
  alarm is complete needs every row in `seen` to exist. One lemma per action.
- `TypeCorrect`, `RotationClosesTheOldSession`, `AlarmIsComplete` follow from it.
- `SpentForever`: the action property `SpentTokenStaysSpent`.
- `ImplementsRegistry`: initial states and steps map to SessionRegistry (the
  mapping is the identity on `status`, `owner`, `parent`).

`PreventivoMandatoProofs` proves, for any sets of quotes, mandates, services, rows
and requests, and without the state constraint of the run:

- `Contratti`: `Spec => []ContrattiInv`. What makes it inductive is mostly what a
  request in progress may rely on (`Sa`): a conversion that holds the counter has
  the next number, which needs `LucchettiEsclusivi`, and has read a total that was
  accepted, which needs `AccettatiOfferti`; an edit past its header will delete all
  rows the quote has by then; the row that a service is about to name is still of
  the right quote or is deleted. `RigheCollegate` says that references lead to
  rows. `Cresce` is the frame: no committed write removes a row, changes what it
  belongs to, or revives a mandate; the lemmas show once that every action
  satisfies it and that it preserves what other requests know.
- `MandatiCorretti`, `NumeriProgressivi`, `ImportiAccettati`, `VociCorrette` and
  `VociDelMandato` are the five properties of the run, and follow from it.
- `RealizzaRegistro`: under the mapping `MandatiEmessi`, which hides the state of a
  mandate, a conversion is `Emetti`, the deletion of a live mandate `Revoca`, and
  any other step is not seen.

`InvitiProofs` proves, for any sets of companies, addresses, links and acceptances,
about `InvitiSpec`, the component on its own:

- `InvitiCorretti`: `InvitiSpec => []InvitiInv`. A link belongs to one invite, even
  when the invite has since been renewed and only a request still knows the link
  (`LinkDiUnInvito`); once it has given a user its address is taken (`LinkSpeso`),
  which is what refuses a second use whether or not the invite has been marked; a
  request that has decided for the role of a plain user has seen an administrator, who
  stays (`SaInvito`).
- `UnLinkUnUtente` and `SempreUnAdmin` are the two properties of the run.
- `RealizzaUtenti`: `InvitiSpec => UtentiClienteSpec`. The insert of the user is `Entra`;
  invites, the mark of the acceptance and the role written last are not seen. That
  the link had let nobody in is `LinkSpeso`, and that a plain user finds an administrator
  is `SaInvito`, both about the moment of the insert and not about that of the read.

`PasswordResetProofs` proves, for any sets of links, sessions and requests, with
crashes, about `ResetSpec`:

- `RecoveryInvariant`: `ResetSpec => []ResetInv`. The session part is `SessionInv`
  again, because a recovery closes rows of one user and no more. The rest is what a
  recovery request has read (`Informed`): its user and link exist, the rows and links
  it had seen do, and the link is used from the second write on. Without it the two
  completeness properties are not inductive: a row created after the look-up could
  count as seen.
- `ResetsAreComplete`, `PendingLinksDie` follow; `UsedLinksStayUsed` is the action
  property, `ResetImplementsRegistry` the refinement of SessionRegistry.

`NoteSpeseProofs` proves, for any sets of notes, types, files and requests, and any
set of points where handlers stop:

- `InvarianteDelleNote`: `Spec => []NoteInv`: what a request knows of its note
  (`Conosce`), that two requests never hold the lock of one row (`Conflitto`), that no
  two requests or rows have one key (`Conteso`, `ChiaviUniche`). `DecisioniCoerenti` and
  `ServizioSegueLaVita`, the implementation of NotaLifecycle, follow from it.
- `RigheConFile`: the action property `RigaHaFile`. `FileInv` is what it needs of a file
  that is about to get its row, and of a row that is about to go without it; then each
  handler is shown to keep what can be downloaded, and only the failure of the
  one that holds the lock is left.
- `LettureAttuali`: `Spec => []AttualeInv`. What a request has read of its note is
  still so (`Attuale`) at each of its steps, unless it is in `superati`: a request that
  reads on keeps it, and a write on the note by another one puts it there.
- `InviateComplete`, `CommesseCoerenti`, `InviateImmutabili`: what was checked is then
  true of what is written (`AttualeMantiene`), and other notes are left alone.
- `NessunOrfano`: a removal takes no file that it has not listed, if it is not
  overtaken, and an upload has its one file in its row or takes it away.

Without the exceptions they name the last four are false as soon as two requests
overlap; section 5 says how. No theorem assumes anything of how many requests there
are or of where they stop.

`ServiziProofs` proves, about the components on their own:

- `CircolariInOrdine`, `LettureDegliUtenti`: a client who is about to write a reading
  has seen the circular, and what he saw does not become a draft again (`HaVisto`);
  a circular that an edit meets while it is being published is in `ritoccate`.
- `RealizzaLetture`: `CircolariSpec => RegistroLettureSpec`. An update by id is `Pubblica` or
  `Archivia` by its operation, whatever the state is by then; that it does not archive a
  draft (`ArchivioSenzaBozze`) is an invariant of its own, by what the request had read.
  Upserts of clients are `Legge` and `Conferma`, or nothing when the row was there.
- `ComunicazioniInOrdine`, `CodiciProgressivi`, `AttivitaInOrdine`: an opening that is
  not committed holds the lock of the counter, alone; messages and replies have their
  thread; the codes given are 1 to the counter, which takes the cardinality of the
  open threads.
- `RealizzaThread`: `ComunicazioniSpec => RegistroThreadSpec`. The commit of an opening is
  `Apre`, the insert of a reply `Risponde`; the counter of an opening in progress, the
  headers and what is rolled back are not seen.
- `CatalogoInOrdine`, `RuoliComeIlCodice`: that the tenants' roles stay as the code
  has them is not kept by itself, because seed, bootstrap and remedy write from the
  templates: after a green gate these too, the bootstraps that have read them since
  and a seed in progress agree with the code (`Concorde`), so that the SQL an earlier
  gate printed, which joins the templates, adds nothing when it is run late.

`AccessoProofs` proves:

- `ConnessioniInOrdine`, `OgnunoIlSuoTenant`, for any number of flows, connections and
  levels: frame by frame of the stack (`InOrdine`), the tenant is that of the flow, an
  operation stands on a context, and a connection has the settings of the frame that
  holds it or none; a free one has none.
- `RispostePassate`, `NessunaRispostaVecchia`, for any time to live and patience: the
  age of an answer is bounded by the time left to it in Redis and by the time the
  request that carries it has taken so far.
- `TentativiContati`, `BloccoLimitaITentativi`, for any threshold and finite number of
  requests, when the window is not longer than the lock, as in the configuration the
  service defaults to. With a longer window a lock ends while the failures that caused
  it still count. The invariant (`LockInv`) follows the failures of a window: as long as
  the key is there none of them is lost (`NessunaPersa`); of those that Redis has counted
  (`Contate`) fewer than the threshold remain once the ones that reached it are set
  aside, and these are one for each request, which is about to set the lock or has set
  one that outlasts them (`Eccesso`). An injection into the requests bounds their
  cardinality (lemma `UnoPerRichiesta`).

`BrowserProofs` proves:

- `TokensInOrder`: `ClientSpec => []ClientInv`, under `OneTab`. `SessionInv` is kept
  because every step of the browser is one of the handlers or leaves the rows alone.
  The rest follows the tokens: what the tab may still present (`Presentable`), the one
  in the store as long as no renewal has been served and those in the responses it
  waits for, has not been exchanged and is not being exchanged (`Live`); a response
  carries a token that is nowhere else (`AnswersApart`); on the server exchanges of
  one token do not overlap (`ExchangesAlone`). With two tabs `Live` fails at once, as
  each has a renewal of its own.
- `NoReplayByTheBrowser`, `StoredTokenIsTheLast` and `ExchangedOnceByTheBrowser` follow.
  The last is what the handlers do not guarantee alone (`MCAuthSessions_once`).
- `BrowserUsesTheSessions`, for any number of tabs: `ClientSpec => Spec`.
- `CodaInOrdine`, `EsitoSempreVisibile`: a decision in progress has wiped the outcome of
  the one before, else a success would leave the old error beside it.
- `SchedaInOrdine`, `UnaNotaPerForm`: the form waits for the one call of its own that is
  in flight, and after a creation the page has a note open, so that the next save
  is an update.

Assumptions, each named in the module that declares the constants: `NoUser` and
`NoSession` are not members of `Users` and `Sessions`, and `CrashesHappen` is
Boolean; `Nessuno` and `Tolta` differ and are no id, state or set of rows
(`NessunoAssumption`), the enums have the states the code names
(`StatiAssumption`), and null is not a row or an id (`RigheAssumption`,
`RegistroAssumption`, `InvitiAssumption`, `CircolariAssumption`,
`ComunicazioniAssumption`, `CatalogoAssumption`, `RlsNessunoAssumption`,
`SchedaAssumption`, `CodaAssumption`, which also says that the page can make a call;
`NoLinkAssumption`, `NoRequestAssumption` and the `NessunoAssumption` of NoteSpese). The
others give constants their types (`AziendaOfAssumption`, `AziendaAssumption`,
`FlussiAssumption`, `FaultsAssumption`, `CacheAssumption`, `MaxCallsAssumption`,
`LockoutAssumption`) or a release its super administrator (`VersioniAssumption`). Every
run evaluates those of its modules. The components of MCServizi are proved about
their own specification (`InvitiSpec`, `CircolariSpec`, ...), which is what one choice of
`scena` runs.

The inductive invariants that are not properties of a run were checked by TLC on the
instances of the runs before they were proved; the theorems have replaced that.

The refinements of the three abstract specifications of step 9 are theorems and not
properties of a run: TLC checked them on the instance of `MCServizi_insieme` before the
proofs, which takes more time than the runs have.

Only model-checked: liveness (`ChangeEndsInLogout`, `ReplayEndsInRevocation`), since
fairness and ENABLED are beyond the prover. Every other
property of a passing run is stated by a theorem.

## 7. Not modelled

- Components: deadlines (an update validated on a merge with a stale row, the
  pattern of `CommessaCoerente`), documents (a file next to a row, the pattern of
  NoteSpese without the cleanup), hourly rates, companies, contacts and catalogue
  (single-row CRUD), dashboard and report (queries), AI drafting and mail (calls to
  other services), rate limiting (the algorithm is in a library), `setupPin`, the
  scripts run by hand (purge, smoke tests) and the development part of the seed.
- Parts of modelled components: the totals of a quote, which the code computes and
  rounds in binary floating point; the read flags and attachments of
  communications; PIN login and acceptance as callers of the session helper.
- Pages other than the two modelled: they are lists and forms of the same shape,
  with less in flight.
- Signatures, hashes, PIN and password formats, MIME and path checks, DTO
  validation, error texts, logging and audit: pure functions, or nothing that
  another step reads.

The models map about a tenth of the implementation's lines. Most of the rest is
presentation (pages, components, translations, API wrappers), declarations (DTOs,
controllers, modules) and reference data, where no order of events decides
anything.
