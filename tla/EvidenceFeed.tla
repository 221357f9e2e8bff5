---------------------------- MODULE EvidenceFeed ----------------------------
(***************************************************************************)
(* What spec 010 promises to the specs that read kb_evidence (011 and      *)
(* 012): an evidence_uid that has been seen stays.  011 writes uids into   *)
(* files and JSON columns, where no foreign key protects them.             *)
(***************************************************************************)

CONSTANT Uids      \* the evidence_uids there may be

VARIABLE stored    \* those in kb_evidence

Init == stored = {}

Next == stored \subseteq stored' /\ stored' \subseteq Uids

Spec == Init /\ [][Next]_stored
=============================================================================
