---- MODULE MCNoteSpese ----
(* Small instances of NoteSpese for TLC. *)
EXTENDS NoteSpese, TLC

CONSTANTS a1, m1

NoMandati == <<>>              \* no company, no mandate
UnMandato == m1 :> a1

\* Every phase of a handler.
Ovunque == Phases \ {"idle"}

\* No property is about a fairness condition, and none names a request or a key.
Scambi == Permutations(Requests) \cup Permutations(Files) \cup Permutations(Users)
====
