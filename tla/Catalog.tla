------------------------------ MODULE Catalog ------------------------------
(***************************************************************************)
(* The orbital catalog and its publish path: crates/ezal-core/src/         *)
(* catalog.rs and the framing of crates/ezal-core/src/http.rs it relies    *)
(* on.  An element set is its epoch; a catalog maps each satellite to no   *)
(* entry or to one.  Bytes, lines and checksums of a response are left     *)
(* out: what arrives is how it is framed and which element sets it stages. *)
(* Only one task commits, with the uptime of the moment, so the order of   *)
(* `received_at_ms` that `commit` checks is that of its calls.             *)
(***************************************************************************)
EXTENDS Naturals

CONSTANTS
  Satellite,      \* the catalog's slots
  Epoch,          \* epochs of element sets, a set of naturals
  MaxRevision     \* bound: publications that are followed

Entry == [epoch : Epoch, revision : 1..MaxRevision]
Maybe(S) == {{}} \cup {{x} : x \in S}
Entries == [Satellite -> Maybe(Entry)]
Staged == [Satellite -> Maybe(Epoch)]

EmptyCatalog == [entries |-> [s \in Satellite |-> {}], revision |-> 0]

\* http::Response: what is still to come.  A head says how the body ends.
Framing == {"head", "length", "until_close"}

\* Response::finish where the server stops sending, `whole` or not: a body of
\* no stated length is whole wherever it ends.
Completes(state, whole) == state = "until_close" \/ (state = "length" /\ whole)

\* Mutant of Replaces: what was received last is the newest.
AnyReplaces(entry, epoch) == TRUE

\* Catalog::commit's comparison.
Replaces(entry, epoch) == \A old \in entry : epoch >= old.epoch

Published(c, staged) ==
  {s \in Satellite : \E e \in staged[s] : Replaces(c.entries[s], e)}

\* Catalog::commit.
Commit(c, staged) ==
  IF Published(c, staged) = {} THEN c
  ELSE [entries |-> [s \in Satellite |->
                       IF s \in Published(c, staged)
                         THEN {[epoch |-> e, revision |-> c.revision + 1] : e \in staged[s]}
                         ELSE c.entries[s]],
        revision |-> c.revision + 1]
=============================================================================
