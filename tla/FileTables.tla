----------------------------- MODULE FileTables -----------------------------
(***************************************************************************)
(* The state that the file stages share: the personal files on disk and    *)
(* the tables kb_file_instance and kb_file_content.                        *)
(*                                                                         *)
(* A path is its position in sorted(candidates), the order in which a scan *)
(* visits it.  The bytes of a file are one member of Contents and the      *)
(* sha256 of those bytes is that same member (no collisions); a content    *)
(* row is keyed by it, because content_uid = sha256 in this code.          *)
(* Sizes, times, names, extensions and MIME types are left out: no         *)
(* property of these modules depends on them.                              *)
(***************************************************************************)
EXTENDS Naturals, FiniteSets

CONSTANTS
  NPaths,     \* number of candidate document paths under the scan root
  Contents,   \* the possible bytes of a file, and the sha256 of those bytes
  NoSha       \* SQL NULL in a sha256 or duplicate_group_uid column

Missing    == "missing"      \* no file at the path
Unreadable == "unreadable"   \* the file is there, but open/read raises

ASSUME NPathsAssumption == NPaths \in Nat \ {0}
ASSUME ContentsAssumption ==
  /\ NoSha \notin Contents
  /\ {Missing, Unreadable} \cap Contents = {}

Paths  == 1..NPaths
NoPath == 0                  \* SQL NULL in master_file_instance_uid

VARIABLES
  fs,        \* fs[x]: the bytes at path x, or Missing or Unreadable
  inst,      \* inst[x]: the kb_file_instance row keyed by source_path_hash
  content    \* content[s]: the kb_file_content row keyed by sha256

tableVars == <<fs, inst, content>>

(***************************************************************************)
(* Rows.  status = "NONE" (vault = "NONE") stands for "no such row".       *)
(* is_available is 1 exactly when status is DISCOVERED, so it is not a     *)
(* field of its own.  id is the auto-increment key: it orders the rows of  *)
(* one content (created_at, id).                                           *)
(***************************************************************************)
InstRow == [ sha    : Contents \cup {NoSha},
             status : {"NONE", "DISCOVERED", "ERROR"},
             dup    : BOOLEAN,                    \* is_duplicate_instance
             group  : Contents \cup {NoSha},      \* duplicate_group_uid
             id     : Nat ]

NoInst == [sha |-> NoSha, status |-> "NONE", dup |-> FALSE,
           group |-> NoSha, id |-> 0]

VaultStatus == {"NOT_COPIED", "COPIED", "COPY_ERROR"}

ContentRow == [ vault  : VaultStatus \cup {"NONE"},   \* vault_status
                count  : Nat,                         \* instance_count
                master : Paths \cup {NoPath} ]

NoContent == [vault |-> "NONE", count |-> 0, master |-> NoPath]

TablesTypeOK ==
  /\ fs \in [Paths -> Contents \cup {Missing, Unreadable}]
  /\ inst \in [Paths -> InstRow]
  /\ content \in [Contents -> ContentRow]

TablesInit ==
  /\ fs \in [Paths -> Contents \cup {Missing}]
  /\ inst = [x \in Paths |-> NoInst]
  /\ content = [s \in Contents |-> NoContent]

(***************************************************************************)
(* The SELECTs over kb_file_instance that the services share.              *)
(***************************************************************************)
DiscoveredWith(t, s) ==
  {x \in Paths : t[x].status = "DISCOVERED" /\ t[x].sha = s}

\* First row of a non-empty result in the order (created_at, id).
FirstById(t, S) == CHOOSE x \in S : \A y \in S : t[x].id <= t[y].id

\* The paths that hold the bytes s right now.
LiveCopies(s) == {x \in Paths : fs[x] = s}

\* What instance_count, master_file_instance_uid and is_duplicate_instance
\* should say of s, given the instance rows.
AggregatesExact(s) ==
  LET D == DiscoveredWith(inst, s) IN
  /\ content[s].count = Cardinality(D)
  /\ D # {} => /\ content[s].master = FirstById(inst, D)
               /\ \A x \in D : inst[x].dup = (x # content[s].master)
=============================================================================
