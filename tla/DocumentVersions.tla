-------------------------- MODULE DocumentVersions --------------------------
(***************************************************************************)
(* What ingestion promises to a reader of the vector store: every document *)
(* owns a set of complete versions (generations).  A version appears whole,*)
(* newer than the versions the document already has, and old versions only *)
(* disappear by being superseded: what remains is the newest one.  So a    *)
(* document that once had a complete version always has one.               *)
(***************************************************************************)
EXTENDS Integers

CONSTANTS Docs,   \* (user_id, doc_id) pairs
          Gens    \* generations: numbers, in the order their runs started

VARIABLE versions   \* [Docs -> SUBSET Gens]

Init == versions = [d \in Docs |-> {}]

\* A complete version appears; it is newer than every version of the document.
Publish(d, g) ==
    /\ \A h \in versions[d] : h < g
    /\ versions' = [versions EXCEPT ![d] = @ \cup {g}]

\* The versions that g supersedes disappear together.
Supersede(d, g) ==
    /\ g \in versions[d]
    /\ \A h \in versions[d] : h <= g
    /\ versions' = [versions EXCEPT ![d] = {g}]

Next == \E d \in Docs, g \in Gens : Publish(d, g) \/ Supersede(d, g)

Spec == Init /\ [][Next]_versions
=============================================================================
