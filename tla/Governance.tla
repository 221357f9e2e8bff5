----------------------------- MODULE Governance -----------------------------
(***************************************************************************)
(* Spec 003, services/duplicate_governance.py: contents with two or more   *)
(* instances get a kb_duplicate_group row with a master chosen by rules of *)
(* its own, and a report suggests which copies a person might remove.      *)
(*                                                                         *)
(* The transaction of one content reads one snapshot and writes columns    *)
(* nobody else writes (the group row, duplicate_group_uid), so it is one   *)
(* step.  decision is always PENDING in this code and is left out.         *)
(***************************************************************************)
EXTENDS FileTables

CONSTANT NameRank        \* NameRank[x]: the place of the name of path x under
                         \* the rules shorter path, not copy-like, older

ASSUME NameRankAssumption ==
  /\ NameRank \in [Paths -> Nat]
  /\ \A x, y \in Paths : NameRank[x] = NameRank[y] => x = y

VARIABLES
  groups,    \* groups[s]: the kb_duplicate_group row keyed by s
  govern     \* the govern-duplicates process

governVars == <<groups, govern>>

GroupRow == [exists : BOOLEAN, count : Nat, master : Paths \cup {NoPath}]
NoGroup  == [exists |-> FALSE, count |-> 0, master |-> NoPath]

\* suggested: the (kept, removable) pairs of the report under construction.
GovernState == [ pc        : {"idle", "next"},
                 batch     : SUBSET Contents,
                 suggested : SUBSET (Paths \X Paths) ]

IdleGovern == [pc |-> "idle", batch |-> {}, suggested |-> {}]

GovernTypeOK ==
  /\ groups \in [Contents -> GroupRow]
  /\ govern \in GovernState

GovernInit ==
  /\ groups = [s \in Contents |-> NoGroup]
  /\ govern = IdleGovern

-----------------------------------------------------------------------------
\* _load_candidates, for all contents or for one.
StartGovern(only) ==
  /\ govern.pc = "idle"
  /\ govern' = [IdleGovern EXCEPT !.pc = "next",
                  !.batch = {s \in only : /\ content[s].vault # "NONE"
                                          /\ content[s].count >= 2}]
  /\ UNCHANGED <<tableVars, groups>>

\* Mutant: the duplicate flag is not looked at.
BetterNamed(x, y) == NameRank[x] <= NameRank[y]

\* select_master_candidate: a non-duplicate before a duplicate, then by name.
Preferred(x, y) ==
  \/ ~inst[x].dup /\ inst[y].dup
  \/ inst[x].dup = inst[y].dup /\ NameRank[x] <= NameRank[y]

SelectMaster(D) == CHOOSE x \in D : \A y \in D : Preferred(x, y)

\* _govern_content.  With fewer than two DISCOVERED instances by now, the
\* content is skipped and its old group and links stay as they are.
GovernContent(s) ==
  LET D == DiscoveredWith(inst, s)
      master == SelectMaster(D)
  IN /\ govern.pc = "next" /\ s \in govern.batch
     /\ IF Cardinality(D) < 2
        THEN /\ govern' = [govern EXCEPT !.batch = @ \ {s}]
             /\ UNCHANGED <<inst, groups>>
        ELSE /\ groups' = [groups EXCEPT ![s] =
                             [exists |-> TRUE, count |-> Cardinality(D),
                              master |-> master]]
             /\ inst' = [x \in Paths |-> IF x \in D
                                         THEN [inst[x] EXCEPT !.group = s]
                                         ELSE inst[x]]
             /\ govern' = [govern EXCEPT !.batch = @ \ {s},
                             !.suggested = @ \cup ({master} \X (D \ {master}))]
     /\ UNCHANGED <<fs, content>>

\* The transaction of one content raises: nothing of it stays, the batch
\* goes on.
FailGovern(s) ==
  /\ govern.pc = "next" /\ s \in govern.batch
  /\ govern' = [govern EXCEPT !.batch = @ \ {s}]
  /\ UNCHANGED <<tableVars, groups>>

\* _write_reports, and the end of the run; or the process is killed before.
FinishGovern ==
  /\ govern.pc = "next" /\ govern.batch = {}
  /\ govern' = IdleGovern
  /\ UNCHANGED <<tableVars, groups>>

KillGovern ==
  /\ govern.pc # "idle"
  /\ govern' = IdleGovern
  /\ UNCHANGED <<tableVars, groups>>

GovernWork ==
  \/ StartGovern(Contents)
  \/ \E s \in Contents : StartGovern({s})
  \/ \E s \in Contents : GovernContent(s)
  \/ FinishGovern

GovernFault ==
  \/ \E s \in Contents : FailGovern(s)
  \/ KillGovern
=============================================================================
