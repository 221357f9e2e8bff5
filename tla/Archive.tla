------------------------------- MODULE Archive -------------------------------
(***************************************************************************)
(* What the raw vault promises, without files, tables or processes: an     *)
(* archive of contents that is written once.  A stored content is never    *)
(* lost or altered; the catalogue publishes only contents that are stored, *)
(* and may withdraw an entry (vault_status COPY_ERROR) without touching    *)
(* the store.                                                              *)
(***************************************************************************)
CONSTANT Contents

VARIABLES
  store,       \* the contents whose bytes the archive holds
  published    \* the contents the catalogue says it holds

Init == store = {} /\ published = {}

Put(s) == store' = store \cup {s} /\ UNCHANGED published

Publish(s) ==
  /\ s \in store
  /\ published' = published \cup {s}
  /\ UNCHANGED store

Withdraw(s) == published' = published \ {s} /\ UNCHANGED store

Next == \E s \in Contents : Put(s) \/ Publish(s) \/ Withdraw(s)

Spec == Init /\ [][Next]_<<store, published>>
=============================================================================
