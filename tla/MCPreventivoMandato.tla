---- MODULE MCPreventivoMandato ----
(* A small instance of PreventivoMandato for TLC. *)
EXTENDS PreventivoMandato, TLC

Simmetria ==
    Permutations(Preventivi) \cup Permutations(Mandati) \cup Permutations(Prestazioni)
        \cup Permutations(Voci) \cup Permutations(Richieste)

\* Services and mandates that are not 'in_corso' are explored beside one quote
\* whose rows are replaced once; concurrent conversions and edits beside two.
Confine ==
    \/ \A x \in Prestazioni : prestazione[x] = Nessuno
       /\ \A m \in Mandati : mandato[m] = Nessuno \/ mandato[m].stato = "in_corso"
    \/ /\ Cardinality({p \in Preventivi : preventivo[p] # Nessuno}) = 1
       /\ Cardinality({v \in Voci : voce[v] # Nessuno}) <= 2
====
