--------------------------- MODULE Curated_proofs ---------------------------
(***************************************************************************)
(* Theorems about Curated, for any contents, evidence, builds and          *)
(* manifests.                                                              *)
(*                                                                         *)
(* Two facts carry the argument.  The row of kb_project is held by the     *)
(* build that writes and by no other, so what a build has written stays    *)
(* until it commits or dies.  And kb_evidence only grows, so what was in   *)
(* the snapshot of a plan is still there when the plan is committed.       *)
(***************************************************************************)
EXTENDS Curated, TLAPS, FiniteSetTheorems, WellFoundedInduction

AssetSet == ToSet(Assets)

\* Builders, whatever their plans are and wherever they come from.
BuilderOf(plans, seens) ==
  [ pc   : {"idle", "planned", "writing"},  force   : BOOLEAN,
    plan : plans,                           seen    : seens,
    todo : Seq(AssetSet),                   pending : SUBSET AssetSet ]

BuildersInv ==
  /\ builder = [b \in Builders |-> builder[b]]
  /\ \A b \in Builders :
       builder[b] \in BuilderOf({builder[b].plan}, {builder[b].seen})

FilesInv == file = [a \in AssetSet |-> file[a]]

\* A plan shows evidence that is stored.
PlansAreStored ==
  \A b \in Builders :
    builder[b].pc # "idle" => builder[b].plan.evidence \subseteq stored

\* The build that writes, and no other, holds the row of the project.
LockHeld ==
  /\ lock \in Builders \cup {None}
  /\ \A b \in Builders : builder[b].pc = "writing" <=> lock = b

\* What a build has written is in its files, and in doubt.
WrittenStays ==
  \A b \in Builders :
    /\ builder[b].pc # "writing" => builder[b].pending = {}
    /\ \A a \in builder[b].pending :
         a \in doubtful /\ file[a] = Render(a, builder[b].plan)

\* A forced build leaves no asset out.
ForcedWritesAll ==
  \A b \in Builders :
    builder[b].pc # "idle" /\ builder[b].force =>
      AssetSet \subseteq builder[b].pending \cup ToSet(builder[b].todo)

\* Who begins to write unsettles what was settled.
SettledUnlocked == settled # None => lock = None

Inv ==
  /\ BuildersInv
  /\ FilesInv
  /\ PlansAreStored
  /\ ReferencesAreStored
  /\ LockHeld
  /\ WrittenStays
  /\ RowsMatchFiles
  /\ ForcedWritesAll
  /\ SettledUnlocked
  /\ ForcedBuildIsCurrent
-----------------------------------------------------------------------------
LEMMA AssetsAre ==
  /\ Assets \in Seq(AssetSet)
  /\ AssetSet = {"project_card", "evidence_index", "source_documents"}
  /\ Assets # <<>>
<1>1. /\ DOMAIN Assets = 1..3
      /\ Assets[1] = "project_card"
      /\ Assets[2] = "evidence_index"
      /\ Assets[3] = "source_documents"
      /\ Assets # <<>>
  BY DEF Assets
<1>2. AssetSet = {Assets[i] : i \in 1..3}
  BY <1>1 DEF AssetSet, ToSet
<1>3. AssetSet = {"project_card", "evidence_index", "source_documents"}
  BY <1>1, <1>2
<1> QED
  BY <1>1, <1>3 DEF Assets

\* What is in a list is its head or in its tail.
LEMMA HeadOrTail ==
  ASSUME NEW S, NEW seq \in Seq(S), seq # <<>>
  PROVE  /\ Head(seq) \in S
         /\ Tail(seq) \in Seq(S)
         /\ ToSet(seq) \subseteq {Head(seq)} \cup ToSet(Tail(seq))
<1>1. Head(seq) \in S /\ Tail(seq) \in Seq(S)
  OBVIOUS
<1>2. ASSUME NEW i \in DOMAIN seq, i # 1
      PROVE  seq[i] \in ToSet(Tail(seq))
  <2>1. i - 1 \in DOMAIN Tail(seq) /\ Tail(seq)[i - 1] = seq[i]
    BY <1>2
  <2> QED
    BY <2>1 DEF ToSet
<1>3. seq[1] = Head(seq)
  OBVIOUS
<1> QED
  BY <1>1, <1>2, <1>3 DEF ToSet

LEMMA AnyBuilder ==
  ASSUME NEW plans, NEW seens, NEW r \in BuilderOf(plans, seens)
  PROVE  r \in BuilderOf({r.plan}, {r.seen})
BY DEF BuilderOf

LEMMA IdleIsBuilder ==
  ASSUME NEW plans, NEW seens, None \in plans, {} \in seens
  PROVE  IdleBuilder \in BuilderOf(plans, seens)
<1>1. <<>> \in Seq(AssetSet)
  OBVIOUS
<1> QED
  BY <1>1 DEF IdleBuilder, BuilderOf

LEMMA InitEstablishes == Init => Inv
<1> SUFFICES ASSUME Init
             PROVE  Inv
  OBVIOUS
<1> USE DEF Init
<1>1. BuildersInv
  <2>1. IdleBuilder \in BuilderOf({None}, {{}})
    BY IdleIsBuilder
  <2>2. IdleBuilder \in BuilderOf({IdleBuilder.plan}, {IdleBuilder.seen})
    BY <2>1, AnyBuilder
  <2> QED
    BY <2>2 DEF BuildersInv
<1>2. FilesInv
  BY DEF FilesInv, AssetSet
<1>3. PlansAreStored /\ ForcedWritesAll
  BY DEF PlansAreStored, ForcedWritesAll, IdleBuilder
<1>4. LockHeld
  BY NoneAssumption DEF LockHeld, IdleBuilder
<1>5. WrittenStays
  BY DEF WrittenStays, IdleBuilder
<1>6. RowsMatchFiles
  BY DEF RowsMatchFiles
<1>7. SettledUnlocked /\ ForcedBuildIsCurrent
  BY DEF SettledUnlocked, ForcedBuildIsCurrent
<1>8. ReferencesAreStored
  BY AssetsAre DEF ReferencesAreStored, NoFile, AssetSet
<1> QED
  BY <1>1, <1>2, <1>3, <1>4, <1>5, <1>6, <1>7, <1>8 DEF Inv
-----------------------------------------------------------------------------
LEMMA EnvironmentPreserves ==
  ASSUME Inv, Environment
  PROVE  Inv'
<1>1. /\ UNCHANGED <<rowVars, file, lock, builder, doubtful>>
      /\ settled' = None
      /\ stored \subseteq stored'
  BY DEF Environment, EvidenceStored, RegisterDocument
<1>2. UNCHANGED <<project, mapped, asset>>
  BY <1>1 DEF rowVars
<1>3. BuildersInv' /\ FilesInv'
  BY <1>1 DEF Inv, BuildersInv, FilesInv
<1>4. PlansAreStored'
  BY <1>1 DEF Inv, PlansAreStored
<1>5. ReferencesAreStored'
  BY <1>1, <1>2 DEF Inv, ReferencesAreStored
<1>6. LockHeld' /\ WrittenStays' /\ ForcedWritesAll'
  BY <1>1 DEF Inv, LockHeld, WrittenStays, ForcedWritesAll
<1>7. RowsMatchFiles'
  BY <1>1, <1>2 DEF Inv, RowsMatchFiles, Agrees
<1>8. SettledUnlocked' /\ ForcedBuildIsCurrent'
  BY <1>1 DEF SettledUnlocked, ForcedBuildIsCurrent
<1> QED
  BY <1>3, <1>4, <1>5, <1>6, <1>7, <1>8 DEF Inv

\* A step that moves one builder.
LEMMA OtherBuilders ==
  ASSUME NEW b \in Builders, NEW me, NEW plans, NEW seens, BuildersInv,
         builder' = [builder EXCEPT ![b] = me],
         me \in BuilderOf(plans, seens)
  PROVE  /\ BuildersInv'
         /\ builder'[b] = me
         /\ \A c \in Builders \ {b} : builder'[c] = builder[c]
<1>1. me \in BuilderOf({me.plan}, {me.seen})
  BY AnyBuilder
<1>2. /\ builder' = [c \in Builders |-> builder'[c]]
      /\ builder'[b] = me
      /\ \A c \in Builders \ {b} : builder'[c] = builder[c]
  BY DEF BuildersInv
<1> QED
  BY <1>1, <1>2 DEF BuildersInv

LEMMA PlanPreserves ==
  ASSUME Inv, NEW b \in Builders, NEW docs, NEW force \in Forces,
         PlanBuild(b, docs, force)
  PROVE  Inv'
<1> DEFINE me == [IdleBuilder EXCEPT !.pc = "planned", !.force = force,
                    !.plan = NewPlan(docs), !.seen = Recorded, !.todo = Assets]
<1>1. /\ builder[b].pc = "idle"
      /\ builder' = [builder EXCEPT ![b] = me]
      /\ UNCHANGED <<stored, document, project, mapped, asset, file, lock,
                     doubtful, settled>>
  BY DEF PlanBuild, rowVars
<1>2. /\ me.pc = "planned" /\ me.force = force /\ me.plan = NewPlan(docs)
      /\ me.todo = Assets /\ me.pending = {}
  BY DEF IdleBuilder
<1>3. me \in BuilderOf({None, NewPlan(docs)}, {{}, Recorded})
  <2>1. IdleBuilder \in BuilderOf({None, NewPlan(docs)}, {{}, Recorded})
    BY IdleIsBuilder
  <2>2. force \in BOOLEAN /\ Assets \in Seq(AssetSet)
    BY ForcesAssumption, AssetsAre
  <2> QED
    BY <2>1, <2>2 DEF BuilderOf
<1> HIDE DEF me
<1>4. /\ BuildersInv'
      /\ builder'[b] = me
      /\ \A c \in Builders \ {b} : builder'[c] = builder[c]
  BY <1>1, <1>3, OtherBuilders DEF Inv
<1>5. FilesInv'
  BY <1>1 DEF Inv, FilesInv
<1>6. PlansAreStored'
  <2>1. NewPlan(docs).evidence \subseteq stored
    BY DEF NewPlan
  <2> QED
    BY <1>1, <1>2, <1>4, <2>1 DEF Inv, PlansAreStored
<1>7. ReferencesAreStored' /\ SettledUnlocked' /\ ForcedBuildIsCurrent'
  BY <1>1 DEF Inv, ReferencesAreStored, SettledUnlocked, ForcedBuildIsCurrent
<1>8. LockHeld' /\ WrittenStays'
  BY <1>1, <1>2, <1>4 DEF Inv, LockHeld, WrittenStays
<1>9. RowsMatchFiles'
  BY <1>1 DEF Inv, RowsMatchFiles, Agrees
<1>10. ForcedWritesAll'
  BY <1>2, <1>4 DEF Inv, ForcedWritesAll, AssetSet
<1> QED
  BY <1>4, <1>5, <1>6, <1>7, <1>8, <1>9, <1>10 DEF Inv

LEMMA BeginPreserves ==
  ASSUME Inv, NEW b \in Builders, BeginWriting(b)
  PROVE  Inv'
<1> DEFINE me == [builder[b] EXCEPT !.pc = "writing"]
<1>1. /\ builder[b].pc = "planned" /\ lock = None /\ lock' = b
      /\ builder' = [builder EXCEPT ![b] = me]
      /\ settled' = None
      /\ UNCHANGED <<stored, document, project, mapped, asset, file, doubtful>>
  BY DEF BeginWriting, rowVars
<1>2. builder[b] \in BuilderOf({builder[b].plan}, {builder[b].seen})
  BY DEF Inv, BuildersInv
<1>3. /\ me \in BuilderOf({builder[b].plan}, {builder[b].seen})
      /\ me.pc = "writing" /\ me.force = builder[b].force
      /\ me.plan = builder[b].plan /\ me.todo = builder[b].todo
      /\ me.pending = builder[b].pending
  BY <1>2 DEF BuilderOf
<1> HIDE DEF me
<1>4. /\ BuildersInv' /\ FilesInv'
      /\ builder'[b] = me
      /\ \A c \in Builders \ {b} : builder'[c] = builder[c]
  BY <1>1, <1>3, OtherBuilders DEF Inv, FilesInv
<1>5. PlansAreStored' /\ ForcedWritesAll'
  BY <1>1, <1>3, <1>4 DEF Inv, PlansAreStored, ForcedWritesAll
<1>6. ReferencesAreStored' /\ SettledUnlocked' /\ ForcedBuildIsCurrent'
  BY <1>1 DEF Inv, ReferencesAreStored, SettledUnlocked, ForcedBuildIsCurrent
<1>7. LockHeld'
  BY <1>1, <1>3, <1>4, NoneAssumption DEF Inv, LockHeld
<1>8. WrittenStays'
  BY <1>1, <1>3, <1>4 DEF Inv, WrittenStays
<1>9. RowsMatchFiles'
  BY <1>1 DEF Inv, RowsMatchFiles, Agrees
<1> QED
  BY <1>4, <1>5, <1>6, <1>7, <1>8, <1>9 DEF Inv

LEMMA WritePreserves ==
  ASSUME Inv, NEW b \in Builders, WriteAsset(b)
  PROVE  Inv'
<1> DEFINE a == Head(builder[b].todo)
           plan == builder[b].plan
           skip == SkipAsset(b, a)
           me == IF skip THEN [builder[b] EXCEPT !.todo = Tail(@)]
                 ELSE [builder[b] EXCEPT !.todo = Tail(@),
                                         !.pending = @ \cup {a}]
<1>1. /\ builder[b].pc = "writing" /\ builder[b].todo # <<>>
      /\ builder' = [builder EXCEPT ![b] = me]
      /\ UNCHANGED <<stored, document, project, mapped, asset, lock, settled>>
  BY DEF WriteAsset, Writing, rowVars
<1>2. /\ skip => UNCHANGED <<file, doubtful>>
      /\ ~skip => /\ file' = [file EXCEPT ![a] = Render(a, plan)]
                  /\ doubtful' = doubtful \cup {a}
  BY DEF WriteAsset
<1>3. builder[b].force => ~skip
  BY DEF SkipAsset
<1>4. builder[b] \in BuilderOf({builder[b].plan}, {builder[b].seen})
  BY DEF Inv, BuildersInv
<1>5. /\ a \in AssetSet
      /\ Tail(builder[b].todo) \in Seq(AssetSet)
      /\ ToSet(builder[b].todo) \subseteq {a} \cup ToSet(Tail(builder[b].todo))
  <2>1. builder[b].todo \in Seq(AssetSet)
    BY <1>4 DEF BuilderOf
  <2> QED
    BY <1>1, <2>1, HeadOrTail
<1> HIDE DEF skip, a
<1>6. /\ me \in BuilderOf({plan}, {builder[b].seen})
      /\ me.pc = "writing" /\ me.force = builder[b].force /\ me.plan = plan
      /\ me.todo = Tail(builder[b].todo)
      /\ skip => me.pending = builder[b].pending
      /\ ~skip => me.pending = builder[b].pending \cup {a}
  <2> DEFINE goesOn == [builder[b] EXCEPT !.todo = Tail(@)]
             writes == [builder[b] EXCEPT !.todo = Tail(@), !.pending = @ \cup {a}]
  <2>1. CASE skip
    <3>1. me = goesOn
      BY <2>1
    <3>2. goesOn \in BuilderOf({plan}, {builder[b].seen})
      BY <1>4, <1>5 DEF BuilderOf
    <3>3. /\ goesOn.pc = builder[b].pc /\ goesOn.force = builder[b].force
          /\ goesOn.plan = plan /\ goesOn.pending = builder[b].pending
          /\ goesOn.todo = Tail(builder[b].todo)
      BY <1>4 DEF BuilderOf
    <3> QED
      BY <1>1, <2>1, <3>1, <3>2, <3>3
  <2>2. CASE ~skip
    <3>1. me = writes
      BY <2>2
    <3>2. builder[b].pending \cup {a} \subseteq AssetSet
      BY <1>4, <1>5 DEF BuilderOf
    <3>3. writes \in BuilderOf({plan}, {builder[b].seen})
      BY <1>4, <1>5, <3>2 DEF BuilderOf
    <3>4. /\ writes.pc = builder[b].pc /\ writes.force = builder[b].force
          /\ writes.plan = plan /\ writes.pending = builder[b].pending \cup {a}
          /\ writes.todo = Tail(builder[b].todo)
      BY <1>4 DEF BuilderOf
    <3> QED
      BY <1>1, <2>2, <3>1, <3>3, <3>4
  <2> QED
    BY <2>1, <2>2
<1> HIDE DEF me
<1>7. /\ BuildersInv'
      /\ builder'[b] = me
      /\ \A c \in Builders \ {b} : builder'[c] = builder[c]
  BY <1>1, <1>6, OtherBuilders DEF Inv
<1>8. lock = b /\ settled = None
  BY <1>1, NoneAssumption DEF Inv, LockHeld, SettledUnlocked
<1>9. /\ FilesInv'
      /\ doubtful \subseteq doubtful'
      /\ \A x \in AssetSet : x # a => file'[x] = file[x]
      /\ ~skip => file'[a] = Render(a, plan) /\ a \in doubtful'
      /\ skip => file' = file
  BY <1>2, <1>5 DEF Inv, FilesInv
<1>10. PlansAreStored' /\ LockHeld' /\ SettledUnlocked' /\ ForcedBuildIsCurrent'
  BY <1>1, <1>6, <1>7, <1>8
     DEF Inv, PlansAreStored, LockHeld, SettledUnlocked, ForcedBuildIsCurrent
<1>11. ReferencesAreStored'
  <2>1. \A x \in AssetSet :
          asset'[x] # None => asset'[x].evidence \subseteq stored'
    BY <1>1 DEF Inv, ReferencesAreStored, AssetSet
  <2>2. Render("evidence_index", plan).evidence = plan.evidence
    BY DEF Render
  <2>3. plan.evidence \subseteq stored
    BY <1>1 DEF Inv, PlansAreStored
  <2>4. file'["evidence_index"].is = "whole" =>
          file'["evidence_index"].evidence \subseteq stored
    BY <1>9, <2>2, <2>3, AssetsAre DEF Inv, ReferencesAreStored
  <2> QED
    BY <1>1, <2>1, <2>4 DEF ReferencesAreStored, AssetSet
<1>12. WrittenStays'
  <2>1. ASSUME NEW c \in Builders, c # b
        PROVE  builder'[c].pc # "writing" /\ builder'[c].pending = {}
    BY <1>7, <1>8, <2>1 DEF Inv, LockHeld, WrittenStays
  <2>2. ASSUME NEW x \in me.pending
        PROVE  x \in doubtful' /\ file'[x] = Render(x, plan)
    <3>1. x \in AssetSet
      BY <1>6 DEF BuilderOf
    <3>2. CASE x \in builder[b].pending /\ (skip \/ x # a)
      <4>1. x \in doubtful /\ file[x] = Render(x, plan)
        BY <3>2 DEF Inv, WrittenStays
      <4> QED
        BY <3>1, <3>2, <4>1, <1>9
    <3>3. CASE x = a /\ ~skip
      BY <3>3, <1>9
    <3> QED
      BY <3>2, <3>3, <1>6
  <2> QED
    BY <2>1, <2>2, <1>6, <1>7 DEF WrittenStays
<1>13. RowsMatchFiles'
  <2>1. ASSUME NEW x \in AssetSet, x \notin doubtful'
        PROVE  file'[x] = file[x] /\ x \notin doubtful
    BY <2>1, <1>9
  <2> QED
    BY <2>1, <1>1 DEF Inv, RowsMatchFiles, Agrees, AssetSet
<1>14. ForcedWritesAll'
  BY <1>1, <1>3, <1>5, <1>6, <1>7 DEF Inv, ForcedWritesAll
<1> QED
  BY <1>7, <1>9, <1>10, <1>11, <1>12, <1>13, <1>14 DEF Inv

LEMMA CommitPreserves ==
  ASSUME Inv, NEW b \in Builders, CommitBuild(b)
  PROVE  Inv'
<1> DEFINE plan == builder[b].plan
           pending == builder[b].pending
<1>1. /\ builder[b].pc = "writing" /\ builder[b].todo = <<>>
      /\ project' = Len(plan.docs)
      /\ asset' = [a \in AssetSet |-> IF a \in pending
                                      THEN AssetRow(a, plan) ELSE asset[a]]
      /\ doubtful' = doubtful \ pending
      /\ settled' = IF builder[b].force /\ plan = NewPlan(plan.docs) THEN plan
                    ELSE None
      /\ lock' = None
      /\ builder' = [builder EXCEPT ![b] = IdleBuilder]
      /\ UNCHANGED <<stored, file>>
  BY DEF CommitBuild, AssetSet
<1>2. /\ BuildersInv'
      /\ builder'[b] = IdleBuilder
      /\ \A c \in Builders \ {b} : builder'[c] = builder[c]
  <2>1. IdleBuilder \in BuilderOf({None}, {{}})
    BY IdleIsBuilder
  <2> QED
    BY <1>1, <2>1, OtherBuilders DEF Inv
<1>3. lock = b /\ \A c \in Builders \ {b} : builder[c].pc # "writing"
  BY <1>1 DEF Inv, LockHeld
<1>4. IdleBuilder.pc = "idle" /\ IdleBuilder.pending = {}
  BY DEF IdleBuilder
<1>5. FilesInv' /\ PlansAreStored' /\ SettledUnlocked' /\ ForcedWritesAll'
  BY <1>1, <1>2, <1>4
     DEF Inv, FilesInv, PlansAreStored, SettledUnlocked, ForcedWritesAll
<1>6. LockHeld'
  BY <1>1, <1>2, <1>3, <1>4, NoneAssumption DEF LockHeld
<1>7. WrittenStays'
  BY <1>2, <1>3, <1>4 DEF Inv, WrittenStays
<1>8. pending \subseteq AssetSet
  BY DEF Inv, BuildersInv, BuilderOf
<1>9. \A a \in pending : file'[a] = Render(a, plan)
  BY <1>1 DEF Inv, WrittenStays
<1>10. ReferencesAreStored'
  <2>1. plan.evidence \subseteq stored
    BY <1>1 DEF Inv, PlansAreStored
  <2>2. \A a \in AssetSet : AssetRow(a, plan).evidence = plan.evidence
    BY DEF AssetRow
  <2> QED
    BY <1>1, <2>1, <2>2 DEF Inv, ReferencesAreStored, AssetSet
<1>11. RowsMatchFiles'
  <2> SUFFICES ASSUME NEW a \in AssetSet, a \notin doubtful', asset'[a] # None
               PROVE  Agrees(a)'
    BY DEF RowsMatchFiles, AssetSet
  <2>1. CASE a \in pending
    <3>1. file'[a] = Render(a, plan) /\ asset'[a] = AssetRow(a, plan)
      BY <1>1, <1>9, <2>1
    <3> QED
      BY <3>1, AssetsAre DEF Agrees, Render, AssetRow
  <2>2. CASE a \notin pending
    <3>1. a \notin doubtful /\ asset'[a] = asset[a] /\ file'[a] = file[a]
      BY <1>1, <2>2
    <3> QED
      BY <3>1 DEF Inv, RowsMatchFiles, Agrees, AssetSet
  <2> QED
    BY <2>1, <2>2
<1>12. ForcedBuildIsCurrent'
  <2> SUFFICES ASSUME settled' # None
               PROVE  /\ project' = Len(settled'.docs)
                      /\ \A a \in AssetSet :
                           /\ file'[a] = Render(a, settled')
                           /\ asset'[a] = AssetRow(a, settled')
    BY DEF ForcedBuildIsCurrent, AssetSet
  <2>1. settled' = plan /\ builder[b].force
    BY <1>1
  <2>2. AssetSet \subseteq pending
    BY <1>1, <2>1 DEF Inv, ForcedWritesAll, ToSet
  <2> QED
    BY <1>1, <1>9, <2>1, <2>2
<1> QED
  BY <1>2, <1>5, <1>6, <1>7, <1>10, <1>11, <1>12 DEF Inv

LEMMA AbortPreserves ==
  ASSUME Inv, NEW b \in Builders, NEW cut \in BOOLEAN, AbortBuild(b, cut)
  PROVE  Inv'
<1> DEFINE a == Head(builder[b].todo)
<1>1. /\ builder[b].pc # "idle"
      /\ cut => builder[b].pc = "writing" /\ builder[b].todo # <<>>
      /\ file' = IF cut THEN [file EXCEPT ![a] = TornFile] ELSE file
      /\ doubtful' = IF cut THEN doubtful \cup {a} ELSE doubtful
      /\ lock' = IF lock = b THEN None ELSE lock
      /\ builder' = [builder EXCEPT ![b] = IdleBuilder]
      /\ UNCHANGED <<stored, project, mapped, asset, settled>>
  BY DEF AbortBuild, Writing, rowVars
<1> HIDE DEF a
<1>2. /\ BuildersInv'
      /\ builder'[b] = IdleBuilder
      /\ \A c \in Builders \ {b} : builder'[c] = builder[c]
  <2>1. IdleBuilder \in BuilderOf({None}, {{}})
    BY IdleIsBuilder
  <2> QED
    BY <1>1, <2>1, OtherBuilders DEF Inv
<1>3. IdleBuilder.pc = "idle" /\ IdleBuilder.pending = {}
  BY DEF IdleBuilder
<1>4. cut => lock = b /\ settled = None
  BY <1>1, NoneAssumption DEF Inv, LockHeld, SettledUnlocked
<1>5. /\ FilesInv'
      /\ \A x \in AssetSet : file'[x] = file[x] \/ (cut /\ file'[x] = TornFile)
      /\ \A x \in AssetSet : x \notin doubtful' =>
           x \notin doubtful /\ file'[x] = file[x]
  BY <1>1 DEF Inv, FilesInv
<1>6. PlansAreStored' /\ ForcedWritesAll' /\ SettledUnlocked'
  BY <1>1, <1>2, <1>3 DEF Inv, PlansAreStored, ForcedWritesAll, SettledUnlocked
<1>7. LockHeld'
  BY <1>1, <1>2, <1>3, NoneAssumption DEF Inv, LockHeld
<1>8. ReferencesAreStored'
  BY <1>1, <1>5, AssetsAre DEF Inv, ReferencesAreStored, TornFile, AssetSet
<1>9. WrittenStays'
  <2>1. CASE cut
    BY <2>1, <1>2, <1>3, <1>4 DEF Inv, LockHeld, WrittenStays
  <2>2. CASE ~cut
    BY <2>2, <1>1, <1>2, <1>3 DEF Inv, WrittenStays
  <2> QED
    BY <2>1, <2>2
<1>10. RowsMatchFiles'
  BY <1>1, <1>5 DEF Inv, RowsMatchFiles, Agrees, AssetSet
<1>11. ForcedBuildIsCurrent'
  BY <1>1, <1>4 DEF Inv, ForcedBuildIsCurrent
<1> QED
  BY <1>2, <1>5, <1>6, <1>7, <1>8, <1>9, <1>10, <1>11 DEF Inv
-----------------------------------------------------------------------------
THEOREM Invariant == Spec => []Inv
<1>1. Inv /\ [Next]_vars => Inv'
  <2> SUFFICES ASSUME Inv, [Next]_vars
               PROVE  Inv'
    OBVIOUS
  <2>1. CASE Environment
    BY <2>1, EnvironmentPreserves
  <2>2. ASSUME NEW b \in Builders, BuilderStep(b)
        PROVE  Inv'
    <3>1. ASSUME NEW docs \in Mappings, NEW force \in Forces,
                 PlanBuild(b, docs, force)
          PROVE  Inv'
      BY <3>1, PlanPreserves
    <3>2. CASE BeginWriting(b)
      BY <3>2, BeginPreserves
    <3>3. CASE WriteAsset(b)
      BY <3>3, WritePreserves
    <3>4. CASE CommitBuild(b)
      BY <3>4, CommitPreserves
    <3>5. ASSUME NEW cut \in BOOLEAN, AbortBuild(b, cut)
          PROVE  Inv'
      BY <3>5, AbortPreserves
    <3> QED
      BY <2>2, <3>1, <3>2, <3>3, <3>4, <3>5 DEF BuilderStep
  <2>3. CASE UNCHANGED vars
    BY <2>3 DEF vars, rowVars, Inv, BuildersInv, FilesInv, PlansAreStored,
                ReferencesAreStored, LockHeld, WrittenStays, RowsMatchFiles,
                Agrees, ForcedWritesAll, SettledUnlocked, ForcedBuildIsCurrent
  <2> QED
    BY <2>1, <2>2, <2>3 DEF Next
<1> QED
  BY InitEstablishes, <1>1, PTL DEF Spec

(***************************************************************************)
(* What curated files and rows relate to is in kb_evidence, whatever 010   *)
(* commits between the snapshot of a build and its own commit.             *)
(***************************************************************************)
THEOREM ReferencesStayStored == Spec => []ReferencesAreStored
<1>1. Inv => ReferencesAreStored
  BY DEF Inv
<1> QED
  BY <1>1, Invariant, PTL

(***************************************************************************)
(* A file that no build has in doubt shows what its row says: two builds   *)
(* of one project, however they overlap or die, never mix.                 *)
(***************************************************************************)
THEOREM RowsKeepToFiles == Spec => []RowsMatchFiles
<1>1. Inv => RowsMatchFiles
  BY DEF Inv
<1> QED
  BY <1>1, Invariant, PTL

(***************************************************************************)
(* A forced build leaves exactly its plan, as long as its inputs stay and  *)
(* nobody else writes.                                                     *)
(***************************************************************************)
THEOREM ForcedStaysCurrent == Spec => []ForcedBuildIsCurrent
<1>1. Inv => ForcedBuildIsCurrent
  BY DEF Inv
<1> QED
  BY <1>1, Invariant, PTL

(***************************************************************************)
(* The kb_evidence that 011 reads is any EvidenceFeed: each of its steps   *)
(* is a step of the environment here.  Evidence implements EvidenceFeed,   *)
(* so nothing that 010 does is left out.                                   *)
(***************************************************************************)
THEOREM FeedIsModelled ==
  ASSUME Feed!Next, stored' # stored, settled' = None,
         UNCHANGED <<document, rowVars, file, lock, builder, doubtful>>
  PROVE  Environment
<1> DEFINE new == stored' \ stored
<1>1. stored' = stored \cup new /\ new \in SUBSET Uid /\ ~(new \subseteq stored)
  BY DEF Feed!Next
<1>2. EvidenceStored(new)
  BY <1>1 DEF EvidenceStored
<1> QED
  BY <1>1, <1>2 DEF Environment
-----------------------------------------------------------------------------
(***************************************************************************)
(* Type correctness.  That a list of documents stays short enough follows  *)
(* from the unique key of kb_project_document: a build adds a row only for *)
(* a document that has none (Mapped, a loop), so there are never more rows *)
(* than contents.                                                          *)
(***************************************************************************)
LEMMA LeastNumber ==
  ASSUME NEW T, T \subseteq Nat, T # {}
  PROVE  \E n \in T : \A m \in T : n <= m
<1> DEFINE R == {ss \in Nat \X Nat : ss[1] < ss[2]}
<1>1. IsWellFoundedOn(R, Nat)
  BY NatLessThanWellFounded DEF OpToRel
<1>2. \A m, n \in T : m < n => <<m, n>> \in R
  OBVIOUS
<1> HIDE DEF R
<1>3. PICK n \in T : \A m \in T : ~ (<<m, n>> \in R)
  BY <1>1, WFMin
<1>4. \A m \in T : m \in Nat /\ n \in Nat /\ ~ (m < n)
  BY <1>2, <1>3
<1> QED
  BY <1>4

NoRepeats(rows) == \A i, j \in DOMAIN rows : rows[i] = rows[j] => i = j

\* What one turn of the loop does.
Upserted(rows, s) == IF s \in ToSet(rows) THEN rows ELSE Append(rows, s)

LEMMA UpsertedIs ==
  ASSUME NEW rows \in Seq(Contents), NoRepeats(rows), NEW s \in Contents
  PROVE  /\ Upserted(rows, s) \in Seq(Contents)
         /\ NoRepeats(Upserted(rows, s))
         /\ ToSet(Upserted(rows, s)) = ToSet(rows) \cup {s}
<1>1. CASE s \in ToSet(rows)
  BY <1>1 DEF Upserted
<1>2. CASE s \notin ToSet(rows)
  <2> DEFINE new == Append(rows, s)
  <2>1. /\ new \in Seq(Contents) /\ DOMAIN rows = 1..Len(rows)
        /\ DOMAIN new = 1..(Len(rows) + 1) /\ Len(rows) \in Nat
        /\ new[Len(rows) + 1] = s
        /\ \A i \in 1..Len(rows) : new[i] = rows[i]
    OBVIOUS
  <2>2. \A i \in 1..Len(rows) : rows[i] # s
    BY <1>2, <2>1 DEF ToSet
  <2> HIDE DEF new
  <2>3. NoRepeats(new)
    BY <2>1, <2>2 DEF NoRepeats
  <2>4. ToSet(new) = ToSet(rows) \cup {s}
    <3>1. ToSet(new) \subseteq ToSet(rows) \cup {s}
      <4> SUFFICES ASSUME NEW i \in 1..(Len(rows) + 1)
                   PROVE  new[i] \in ToSet(rows) \cup {s}
        BY <2>1 DEF ToSet
      <4>1. i \in 1..Len(rows) \/ i = Len(rows) + 1
        BY <2>1
      <4> QED
        BY <2>1, <4>1 DEF ToSet
    <3>2. ToSet(rows) \subseteq ToSet(new)
      <4> SUFFICES ASSUME NEW i \in 1..Len(rows)
                   PROVE  rows[i] \in ToSet(new)
        BY <2>1 DEF ToSet
      <4>1. i \in DOMAIN new /\ new[i] = rows[i]
        BY <2>1
      <4> QED
        BY <4>1 DEF ToSet
    <3>3. s \in ToSet(new)
      <4>1. Len(rows) + 1 \in DOMAIN new
        BY <2>1
      <4> QED
        BY <2>1, <4>1 DEF ToSet
    <3> QED
      BY <3>1, <3>2, <3>3
  <2> QED
    BY <1>2, <2>1, <2>3, <2>4 DEF Upserted, new
<1> QED
  BY <1>1, <1>2

\* _upsert_project_document over a list: the rows there are and one for each of
\* docs, each once.
LEMMA MappedIs ==
  ASSUME mapped \in Seq(Contents), NoRepeats(mapped), NEW docs \in Seq(Contents)
  PROVE  /\ Mapped(docs) \in Seq(Contents)
         /\ NoRepeats(Mapped(docs))
         /\ ToSet(Mapped(docs)) = ToSet(mapped) \cup ToSet(docs)
<1> DEFINE last == Len(docs)
           Is(rows, n) == rows = [i \in 0..n |->
                                    IF i = 0 THEN mapped
                                    ELSE Upserted(rows[i - 1], docs[i])]
           all == CHOOSE rows : Is(rows, last)
<1>1. last \in Nat /\ DOMAIN docs = 1..last /\ \A i \in 1..last : docs[i] \in Contents
  OBVIOUS
<1>2. Mapped(docs) = all[last]
  BY DEF Mapped, Upserted
<1> HIDE DEF last
<1>3. \A n \in Nat : \E rows : Is(rows, n)
  <2> DEFINE Bad == {n \in Nat : ~ \E rows : Is(rows, n)}
  <2> SUFFICES ASSUME Bad # {}
               PROVE  FALSE
    OBVIOUS
  <2>1. PICK n \in Bad : \A m \in Bad : n <= m
    BY LeastNumber
  <2>2. CASE n = 0
    <3>1. Is([i \in 0..0 |-> mapped], 0)
      OBVIOUS
    <3> QED
      BY <2>2, <3>1
  <2>3. CASE n # 0
    <3>1. n \in Nat /\ n - 1 \in Nat /\ n - 1 \notin Bad
      <4> HIDE DEF Is
      <4>1. n \in Nat /\ n - 1 \in Nat
        BY <2>3
      <4>2. ~ (n <= n - 1)
        BY <4>1
      <4> QED
        BY <2>1, <4>1, <4>2
    <3>2. PICK rows : Is(rows, n - 1)
      <4> HIDE DEF Is
      <4> QED
        BY <3>1
    <3> DEFINE more == [i \in 0..n |-> IF i = n THEN Upserted(rows[n - 1], docs[n])
                                       ELSE rows[i]]
    <3>3. \A i \in 0..n : more[i] = IF i = 0 THEN mapped
                                    ELSE Upserted(more[i - 1], docs[i])
      <4> TAKE i \in 0..n
      <4>1. CASE i = 0
        BY <2>3, <3>1, <3>2, <4>1
      <4>2. CASE i # 0 /\ i # n
        <5>1. i \in 0..(n - 1) /\ i - 1 \in 0..(n - 1) /\ i - 1 # n
          BY <4>2, <2>1
        <5>2. more[i] = rows[i] /\ more[i - 1] = rows[i - 1]
          BY <4>2, <5>1
        <5>3. rows[i] = Upserted(rows[i - 1], docs[i])
          BY <3>2, <4>2, <5>1
        <5> QED
          BY <4>2, <5>2, <5>3
      <4>3. CASE i = n
        <5>1. n - 1 \in 0..n /\ n - 1 # n
          BY <2>3, <3>1
        <5>2. more[n - 1] = rows[n - 1] /\ more[n] = Upserted(rows[n - 1], docs[n])
          BY <2>1, <5>1
        <5> QED
          BY <2>3, <4>3, <5>2
      <4> QED
        BY <4>1, <4>2, <4>3
    <3>4. more = [i \in 0..n |-> more[i]]
      OBVIOUS
    <3> HIDE DEF more
    <3>5. Is(more, n)
      BY <3>3, <3>4
    <3> QED
      BY <3>5
  <2> QED
    BY <2>2, <2>3
<1>4. Is(all, last)
  BY <1>1, <1>3
<1> HIDE DEF all
<1>5. /\ all[0] = mapped
      /\ \A i \in 1..last : all[i] = Upserted(all[i - 1], docs[i])
  BY <1>1, <1>4
<1> DEFINE Upto(i) == ToSet(mapped) \cup {docs[k] : k \in 1..i}
           Good(i) == /\ all[i] \in Seq(Contents) /\ NoRepeats(all[i])
                      /\ ToSet(all[i]) = Upto(i)
<1>6. \A i \in 0..last : Good(i)
  <2> DEFINE Bad == {i \in 0..last : ~Good(i)}
  <2> SUFFICES ASSUME Bad # {}
               PROVE  FALSE
    OBVIOUS
  <2>1. Bad \subseteq Nat
    BY <1>1
  <2>2. PICK n \in Bad : \A m \in Bad : n <= m
    BY <2>1, LeastNumber
  <2>3. CASE n = 0
    BY <1>5, <2>2, <2>3
  <2>4. CASE n # 0
    <3>1. n \in 1..last /\ n - 1 \in 0..last /\ n - 1 \notin Bad
      BY <1>1, <2>2, <2>4
    <3>2. Good(n - 1)
      BY <3>1
    <3>3. all[n] = Upserted(all[n - 1], docs[n]) /\ docs[n] \in Contents
      BY <1>1, <1>5, <3>1
    <3>4. Upto(n) = Upto(n - 1) \cup {docs[n]}
      BY <3>1
    <3> HIDE DEF Upto
    <3>5. Good(n)
      BY <3>2, <3>3, <3>4, UpsertedIs
    <3> HIDE DEF Good
    <3> QED
      BY <2>2, <3>5
  <2> QED
    BY <2>3, <2>4
<1>7. Upto(last) = ToSet(mapped) \cup ToSet(docs)
  BY <1>1 DEF ToSet
<1>8. Good(last)
  <2> HIDE DEF Good
  <2>1. last \in 0..last
    BY <1>1
  <2> QED
    BY <1>6, <2>1
<1> QED
  BY <1>2, <1>7, <1>8
-----------------------------------------------------------------------------
LEMMA BoundedIs ==
  ASSUME NEW S, NEW n \in Nat, NEW seq
  PROVE  seq \in BoundedSeq(S, n) <=> seq \in Seq(S) /\ Len(seq) <= n
<1>1. ASSUME seq \in BoundedSeq(S, n)
      PROVE  seq \in Seq(S) /\ Len(seq) <= n
  <2>1. PICK m \in 0..n : seq \in [1..m -> S]
    BY <1>1 DEF BoundedSeq, SeqOf
  <2>2. m \in Nat /\ seq \in Seq(S) /\ Len(seq) = m
    BY <2>1
  <2> QED
    BY <2>1, <2>2
<1>2. ASSUME seq \in Seq(S), Len(seq) <= n
      PROVE  seq \in BoundedSeq(S, n)
  <2>1. Len(seq) \in 0..n /\ seq \in [1..Len(seq) -> S]
    BY <1>2
  <2> QED
    BY <2>1 DEF BoundedSeq, SeqOf
<1> QED
  BY <1>1, <1>2

LEMMA EmptyIsBounded ==
  ASSUME NEW S, NEW n \in Nat
  PROVE  <<>> \in BoundedSeq(S, n)
<1>1. 0 \in 0..n /\ <<>> \in [1..0 -> S]
  OBVIOUS
<1> QED
  BY <1>1 DEF BoundedSeq, SeqOf

LEMMA MaxDocsIs ==
  /\ Cardinality(Contents) \in Nat /\ MaxDocs \in Nat
  /\ MaxEntries <= MaxDocs /\ Cardinality(Contents) <= MaxDocs
<1> DEFINE m == MaxEntries
           n == Cardinality(Contents)
           r == IF m >= n THEN m ELSE n
<1>1. m \in Nat /\ n \in Nat
  BY MaxEntriesAssumption, ContentsAssumption, FS_CardinalityType
<1>2. r \in {m, n} /\ \A y \in {m, n} : r >= y
  BY <1>1
<1>3. \A x \in {m, n} : (\A y \in {m, n} : x >= y) => x = r
  BY <1>1
<1> HIDE DEF r
<1>4. Max({m, n}) = r
  BY <1>2, <1>3 DEF Max
<1> QED
  BY <1>1, <1>2, <1>4 DEF MaxDocs

\* Without repeats there are no more rows than contents.
LEMMA RowsAreFew ==
  ASSUME NEW rows \in Seq(Contents), NoRepeats(rows)
  PROVE  Len(rows) <= Cardinality(Contents)
<1>1. rows \in [1..Len(rows) -> Contents] /\ Len(rows) \in Nat
  OBVIOUS
<1>2. rows \in Injection(1..Len(rows), Contents)
  BY <1>1 DEF NoRepeats, Injection, IsInjective
<1>3. Cardinality(1..Len(rows)) <= Cardinality(Contents)
  BY <1>2, ContentsAssumption, FS_Injection
<1>4. Cardinality(1..Len(rows)) = Len(rows)
  <2>1. \A n \in Nat : Cardinality(1..n) = IF 1 > n THEN 0 ELSE n - 1 + 1
    BY FS_Interval
  <2> QED
    BY <1>1, <2>1
<1> QED
  BY <1>3, <1>4

DocsList == BoundedSeq(Contents, MaxDocs)

\* Whatever a build maps is a list that is not too long.
LEMMA MappingsAreLists ==
  ASSUME mapped \in BoundedSeq(Contents, Cardinality(Contents)),
         NEW docs \in Mappings
  PROVE  docs \in DocsList
<1>1. mapped \in Seq(Contents) /\ Len(mapped) <= Cardinality(Contents)
  BY MaxDocsIs, BoundedIs
<1>2. CASE docs \in FromManifest
  <2>1. /\ docs \in Seq({s \in Contents : Resolved(s)})
        /\ Len(docs) <= MaxEntries
    BY <1>2, BoundedIs, MaxEntriesAssumption DEF FromManifest
  <2>2. docs \in Seq(Contents) /\ Len(docs) \in Nat
    BY <2>1
  <2> QED
    BY <2>1, <2>2, MaxDocsIs, BoundedIs, MaxEntriesAssumption DEF DocsList
<1>3. ASSUME NEW s \in Contents, docs = <<s>>
      PROVE  docs \in DocsList
  <2>1. docs \in Seq(Contents) /\ Len(docs) = 1
    BY <1>3
  <2>2. Cardinality(Contents) # 0
    BY <1>3, ContentsAssumption, FS_EmptySet
  <2>3. 1 <= MaxDocs /\ MaxDocs \in Nat
    BY <2>2, MaxDocsIs
  <2> QED
    BY <2>1, <2>3, BoundedIs DEF DocsList
<1>4. ASSUME NEW n \in 1..Len(mapped), docs = SubSeq(mapped, 1, n)
      PROVE  docs \in DocsList
  <2>1. docs \in Seq(Contents) /\ Len(docs) = n /\ n <= Len(mapped)
    BY <1>1, <1>4
  <2>2. Len(mapped) \in Nat /\ n \in Nat
    BY <1>1
  <2> QED
    BY <1>1, <2>1, <2>2, MaxDocsIs, BoundedIs DEF DocsList
<1> QED
  BY <1>2, <1>3, <1>4 DEF Mappings

LEMMA NewPlanIsPlan ==
  ASSUME document \in [Contents -> Parsers \cup {None}], stored \subseteq Uid,
         NEW docs \in DocsList
  PROVE  NewPlan(docs) \in Plan /\ NewPlan(docs).docs = docs
<1>1. [s \in Contents |-> IF s \in ToSet(docs) THEN document[s] ELSE None]
        \in [Contents -> Parsers \cup {None}]
  OBVIOUS
<1>2. {u \in stored : u.content \in ToSet(docs)} \in SUBSET Uid
  OBVIOUS
<1> QED
  BY <1>1, <1>2 DEF NewPlan, Plan, DocsList

LEMMA AssetRowIsRow ==
  ASSUME NEW a, NEW plan \in Plan
  PROVE  AssetRow(a, plan) \in Row
<1>1. plan.docs \in Seq(Contents) /\ plan.evidence \in SUBSET Uid
  BY MaxDocsIs, BoundedIs DEF Plan
<1>2. ToSet(plan.docs) \in SUBSET Contents
  BY <1>1 DEF ToSet
<1> QED
  BY <1>1, <1>2 DEF AssetRow, Row
-----------------------------------------------------------------------------
(* A build that has begun has a plan, and the plan has documents.          *)

BuildersHavePlans ==
  \A b \in Builders :
    builder[b].pc # "idle" =>
      builder[b].plan \in Plan /\ builder[b].plan.docs # <<>>

TypeInv ==
  /\ TypeOK
  /\ FilesInv
  /\ NoRepeats(mapped)
  /\ BuildersHavePlans

LEMMA InitTypes == Init => TypeInv
<1> SUFFICES ASSUME Init
             PROVE  TypeInv
  OBVIOUS
<1> USE DEF Init
<1>1. <<>> \in BoundedSeq(Contents, Cardinality(Contents)) /\ NoRepeats(<<>>)
  BY MaxDocsIs, EmptyIsBounded DEF NoRepeats
<1>2. IdleBuilder \in Builder
  <2>1. <<>> \in BoundedSeq(ToSet(Assets), Len(Assets))
    <3>1. Len(Assets) \in Nat
      BY AssetsAre
    <3> QED
      BY <3>1, EmptyIsBounded
  <2> QED
    BY <2>1 DEF IdleBuilder, Builder
<1>3. BuildersHavePlans
  BY DEF BuildersHavePlans, IdleBuilder
<1>4. FilesInv
  BY DEF FilesInv, AssetSet
<1> QED
  BY <1>1, <1>2, <1>3, <1>4 DEF TypeInv, TypeOK

\* A step that moves one builder, to a state that has a plan if it is not idle.
LEMMA OneBuilderTyped ==
  ASSUME TypeInv, NEW b \in Builders, NEW me \in Builder,
         me.pc # "idle" => me.plan \in Plan /\ me.plan.docs # <<>>,
         builder' = [builder EXCEPT ![b] = me]
  PROVE  builder' \in [Builders -> Builder] /\ BuildersHavePlans'
<1>1. builder \in [Builders -> Builder]
  BY DEF TypeInv, TypeOK
<1>2. /\ builder' \in [Builders -> Builder] /\ builder'[b] = me
      /\ \A c \in Builders \ {b} : builder'[c] = builder[c]
  BY <1>1
<1> QED
  BY <1>2 DEF TypeInv, BuildersHavePlans
LEMMA EnvironmentTyped ==
  ASSUME TypeInv, Environment
  PROVE  TypeInv'
<1>1. /\ UNCHANGED <<project, mapped, asset, file, lock, builder, doubtful>>
      /\ settled' = None
  BY DEF Environment, EvidenceStored, RegisterDocument, rowVars
<1>2. stored' \subseteq Uid
  BY DEF Environment, EvidenceStored, RegisterDocument, TypeInv, TypeOK
<1>3. document' \in [Contents -> Parsers \cup {None}]
  BY DEF Environment, EvidenceStored, RegisterDocument, TypeInv, TypeOK
<1>4. TypeOK'
  BY <1>1, <1>2, <1>3 DEF TypeInv, TypeOK
<1>5. FilesInv' /\ NoRepeats(mapped)' /\ BuildersHavePlans'
  BY <1>1 DEF TypeInv, FilesInv, NoRepeats, BuildersHavePlans
<1> QED
  BY <1>4, <1>5 DEF TypeInv

LEMMA PlanTyped ==
  ASSUME TypeInv, NEW b \in Builders, NEW docs \in Mappings, NEW force \in Forces,
         PlanBuild(b, docs, force)
  PROVE  TypeInv'
<1> DEFINE me == [IdleBuilder EXCEPT !.pc = "planned", !.force = force,
                    !.plan = NewPlan(docs), !.seen = Recorded, !.todo = Assets]
<1>1. /\ docs # <<>>
      /\ builder' = [builder EXCEPT ![b] = me]
      /\ UNCHANGED <<stored, document, project, mapped, asset, file, lock,
                     doubtful, settled>>
  BY DEF PlanBuild, rowVars
<1>2. NewPlan(docs) \in Plan /\ NewPlan(docs).docs = docs
  BY MappingsAreLists, NewPlanIsPlan DEF TypeInv, TypeOK
<1>3. Assets \in BoundedSeq(ToSet(Assets), Len(Assets))
  <2>1. Assets \in Seq(ToSet(Assets)) /\ Len(Assets) \in Nat
    BY AssetsAre DEF AssetSet
  <2> QED
    BY <2>1, BoundedIs
<1>4. Recorded \subseteq ToSet(Assets) /\ force \in BOOLEAN
  BY ForcesAssumption DEF Recorded
<1>5. me \in Builder
  BY <1>2, <1>3, <1>4 DEF IdleBuilder, Builder
<1>6. me.plan = NewPlan(docs)
  BY DEF IdleBuilder
<1> HIDE DEF me
<1>7. builder' \in [Builders -> Builder] /\ BuildersHavePlans'
  BY <1>1, <1>2, <1>5, <1>6, OneBuilderTyped
<1>8. TypeOK' /\ FilesInv' /\ NoRepeats(mapped)'
  BY <1>1, <1>7 DEF TypeInv, TypeOK, FilesInv, NoRepeats
<1> QED
  BY <1>7, <1>8 DEF TypeInv

LEMMA BeginTyped ==
  ASSUME TypeInv, NEW b \in Builders, BeginWriting(b)
  PROVE  TypeInv'
<1> DEFINE me == [builder[b] EXCEPT !.pc = "writing"]
<1>1. /\ builder[b].pc = "planned" /\ lock' = b /\ settled' = None
      /\ builder' = [builder EXCEPT ![b] = me]
      /\ UNCHANGED <<stored, document, project, mapped, asset, file, doubtful>>
  BY DEF BeginWriting, rowVars
<1>2. builder[b] \in Builder
  BY DEF TypeInv, TypeOK
<1>3. me \in Builder /\ me.plan = builder[b].plan
  BY <1>2 DEF Builder
<1>4. me.plan \in Plan /\ me.plan.docs # <<>>
  BY <1>1, <1>3 DEF TypeInv, BuildersHavePlans
<1> HIDE DEF me
<1>5. builder' \in [Builders -> Builder] /\ BuildersHavePlans'
  BY <1>1, <1>3, <1>4, OneBuilderTyped
<1>6. TypeOK' /\ FilesInv' /\ NoRepeats(mapped)'
  BY <1>1, <1>5 DEF TypeInv, TypeOK, FilesInv, NoRepeats
<1> QED
  BY <1>5, <1>6 DEF TypeInv

\* The next asset of a build, and what is then left to do.
LEMMA TodoIs ==
  ASSUME TypeInv, NEW b \in Builders, builder[b].todo # <<>>
  PROVE  /\ Head(builder[b].todo) \in ToSet(Assets)
         /\ Tail(builder[b].todo) \in BoundedSeq(ToSet(Assets), Len(Assets))
<1> DEFINE todo == builder[b].todo
<1>1. todo \in BoundedSeq(ToSet(Assets), Len(Assets)) /\ Len(Assets) \in Nat
  BY AssetsAre DEF TypeInv, TypeOK, Builder
<1> HIDE DEF todo
<1>2. todo \in Seq(ToSet(Assets)) /\ Len(todo) <= Len(Assets)
  BY <1>1, BoundedIs
<1>3. todo # <<>>
  BY DEF todo
<1>4. /\ Head(todo) \in ToSet(Assets)
      /\ Tail(todo) \in Seq(ToSet(Assets)) /\ Len(Tail(todo)) <= Len(Assets)
  BY <1>1, <1>2, <1>3
<1> QED
  BY <1>1, <1>4, BoundedIs DEF todo

LEMMA WriteTyped ==
  ASSUME TypeInv, NEW b \in Builders, WriteAsset(b)
  PROVE  TypeInv'
<1> DEFINE a == Head(builder[b].todo)
           plan == builder[b].plan
           skipped == [builder[b] EXCEPT !.todo = Tail(builder[b].todo)]
           written == [builder[b] EXCEPT !.todo = Tail(builder[b].todo),
                                         !.pending = builder[b].pending \cup {a}]
<1>1. /\ builder[b].pc = "writing" /\ builder[b].todo # <<>>
      /\ UNCHANGED <<stored, document, project, mapped, asset, lock, settled>>
  BY DEF WriteAsset, Writing, rowVars
<1>2. /\ a \in ToSet(Assets)
      /\ Tail(builder[b].todo) \in BoundedSeq(ToSet(Assets), Len(Assets))
  BY <1>1, TodoIs
<1>3. builder[b] \in Builder /\ plan \in Plan /\ plan.docs # <<>>
  BY <1>1 DEF TypeInv, TypeOK, BuildersHavePlans
<1>4. /\ skipped \in Builder /\ skipped.plan = plan
      /\ written \in Builder /\ written.plan = plan
  BY <1>2, <1>3 DEF Builder
<1>5. CASE SkipAsset(b, a)
  <2>1. builder' = [builder EXCEPT ![b] = skipped] /\ UNCHANGED <<file, doubtful>>
    BY <1>5 DEF WriteAsset
  <2> HIDE DEF skipped
  <2>2. builder' \in [Builders -> Builder] /\ BuildersHavePlans'
    BY <1>3, <1>4, <2>1, OneBuilderTyped
  <2>3. TypeOK' /\ FilesInv' /\ NoRepeats(mapped)'
    BY <1>1, <2>1, <2>2 DEF TypeInv, TypeOK, FilesInv, NoRepeats
  <2> QED
    BY <2>2, <2>3 DEF TypeInv
<1>6. CASE ~ SkipAsset(b, a)
  <2>1. /\ builder' = [builder EXCEPT ![b] = written]
        /\ file' = [file EXCEPT ![a] = Render(a, plan)]
        /\ doubtful' = doubtful \cup {a}
    BY <1>6 DEF WriteAsset
  <2> HIDE DEF written
  <2>2. builder' \in [Builders -> Builder] /\ BuildersHavePlans'
    BY <1>3, <1>4, <2>1, OneBuilderTyped
  <2>3. FilesInv' /\ file'[a] = Render(a, plan)
        /\ \A x \in AssetSet \ {a} : file'[x] = file[x]
    BY <1>2, <2>1 DEF TypeInv, FilesInv, AssetSet
  <2>4. \A x \in ToSet(Assets) :
          file'[x] \in {NoFile, TornFile} \cup {Render(x, p) : p \in Plan}
    BY <1>3, <2>3 DEF TypeInv, TypeOK, AssetSet
  <2>5. TypeOK' /\ NoRepeats(mapped)'
    BY <1>1, <1>2, <2>1, <2>2, <2>4 DEF TypeInv, TypeOK, NoRepeats
  <2> QED
    BY <2>2, <2>3, <2>5 DEF TypeInv
<1> QED
  BY <1>5, <1>6

LEMMA IdleTyped == IdleBuilder \in Builder /\ IdleBuilder.pc = "idle"
<1>1. Len(Assets) \in Nat
  BY AssetsAre
<1>2. <<>> \in BoundedSeq(ToSet(Assets), Len(Assets))
  BY <1>1, EmptyIsBounded
<1> QED
  BY <1>2 DEF IdleBuilder, Builder

LEMMA CommitTyped ==
  ASSUME TypeInv, NEW b \in Builders, CommitBuild(b)
  PROVE  TypeInv'
<1> DEFINE plan == builder[b].plan
           pending == builder[b].pending
<1>1. /\ builder[b].pc = "writing"
      /\ project' = Len(plan.docs) /\ mapped' = Mapped(plan.docs)
      /\ asset' = [a \in ToSet(Assets) |-> IF a \in pending
                                           THEN AssetRow(a, plan) ELSE asset[a]]
      /\ doubtful' = doubtful \ pending
      /\ settled' \in {plan, None}
      /\ lock' = None
      /\ builder' = [builder EXCEPT ![b] = IdleBuilder]
      /\ UNCHANGED <<stored, document, file>>
  BY DEF CommitBuild
<1>2. plan \in Plan /\ plan.docs # <<>>
  BY <1>1 DEF TypeInv, BuildersHavePlans
<1> HIDE DEF plan
<1>3. /\ plan.docs \in Seq(Contents) /\ Len(plan.docs) <= MaxDocs
      /\ Len(plan.docs) \in Nat /\ Len(plan.docs) # 0
  <2>1. plan.docs \in BoundedSeq(Contents, MaxDocs)
    BY <1>2 DEF Plan
  <2>2. plan.docs \in Seq(Contents) /\ Len(plan.docs) <= MaxDocs
    BY <2>1, MaxDocsIs, BoundedIs
  <2> QED
    BY <1>2, <2>2
<1>4. project' \in 1..MaxDocs
  BY <1>1, <1>3, MaxDocsIs
<1>5. mapped \in Seq(Contents) /\ NoRepeats(mapped)
  BY MaxDocsIs, BoundedIs DEF TypeInv, TypeOK
<1>6. mapped' \in Seq(Contents) /\ NoRepeats(mapped')
  BY <1>1, <1>3, <1>5, MappedIs
<1>7. mapped' \in BoundedSeq(Contents, Cardinality(Contents))
  BY <1>6, RowsAreFew, MaxDocsIs, BoundedIs
<1>8. asset' \in [ToSet(Assets) -> Row \cup {None}]
  BY <1>1, <1>2, AssetRowIsRow DEF TypeInv, TypeOK
<1>9. builder' \in [Builders -> Builder] /\ BuildersHavePlans'
  BY <1>1, IdleTyped, OneBuilderTyped
<1>10. TypeOK'
  BY <1>1, <1>2, <1>4, <1>7, <1>8, <1>9 DEF TypeInv, TypeOK
<1>11. FilesInv' /\ NoRepeats(mapped)'
  BY <1>1, <1>6 DEF TypeInv, FilesInv, NoRepeats
<1> QED
  BY <1>9, <1>10, <1>11 DEF TypeInv

LEMMA AbortTyped ==
  ASSUME TypeInv, NEW b \in Builders, NEW cut \in BOOLEAN, AbortBuild(b, cut)
  PROVE  TypeInv'
<1> DEFINE a == Head(builder[b].todo)
<1>1. /\ lock' \in {None, lock}
      /\ builder' = [builder EXCEPT ![b] = IdleBuilder]
      /\ UNCHANGED <<stored, document, project, mapped, asset, settled>>
  BY DEF AbortBuild, rowVars
<1>2. builder' \in [Builders -> Builder] /\ BuildersHavePlans'
  BY <1>1, IdleTyped, OneBuilderTyped
<1>3. CASE cut
  <2>1. /\ builder[b].todo # <<>>
        /\ file' = [file EXCEPT ![a] = TornFile]
        /\ doubtful' = doubtful \cup {a}
    BY <1>3 DEF AbortBuild, Writing
  <2>2. a \in ToSet(Assets)
    BY <2>1, TodoIs
  <2>3. FilesInv' /\ file'[a] = TornFile
        /\ \A x \in AssetSet \ {a} : file'[x] = file[x]
    BY <2>1, <2>2 DEF TypeInv, FilesInv, AssetSet
  <2>4. \A x \in ToSet(Assets) :
          file'[x] \in {NoFile, TornFile} \cup {Render(x, p) : p \in Plan}
    BY <2>3 DEF TypeInv, TypeOK, AssetSet
  <2>5. TypeOK' /\ NoRepeats(mapped)'
    BY <1>1, <1>2, <2>1, <2>2, <2>4 DEF TypeInv, TypeOK, NoRepeats
  <2> QED
    BY <1>2, <2>3, <2>5 DEF TypeInv
<1>4. CASE ~cut
  <2>1. UNCHANGED <<file, doubtful>>
    BY <1>4 DEF AbortBuild
  <2>2. TypeOK' /\ FilesInv' /\ NoRepeats(mapped)'
    BY <1>1, <1>2, <2>1 DEF TypeInv, TypeOK, FilesInv, NoRepeats
  <2> QED
    BY <1>2, <2>2 DEF TypeInv
<1> QED
  BY <1>3, <1>4

LEMMA TypeStep == TypeInv /\ [Next]_vars => TypeInv'
<1> SUFFICES ASSUME TypeInv, [Next]_vars
             PROVE  TypeInv'
  OBVIOUS
<1>1. CASE Environment
  BY <1>1, EnvironmentTyped
<1>2. ASSUME NEW b \in Builders, BuilderStep(b)
      PROVE  TypeInv'
  <2>1. ASSUME NEW docs \in Mappings, NEW force \in Forces,
               PlanBuild(b, docs, force)
        PROVE  TypeInv'
    BY <2>1, PlanTyped
  <2>2. CASE BeginWriting(b)
    BY <2>2, BeginTyped
  <2>3. CASE WriteAsset(b)
    BY <2>3, WriteTyped
  <2>4. CASE CommitBuild(b)
    BY <2>4, CommitTyped
  <2>5. ASSUME NEW cut \in BOOLEAN, AbortBuild(b, cut)
        PROVE  TypeInv'
    BY <2>5, AbortTyped
  <2> QED
    BY <1>2, <2>1, <2>2, <2>3, <2>4, <2>5 DEF BuilderStep
<1>3. CASE UNCHANGED vars
  BY <1>3 DEF vars, rowVars, TypeInv, TypeOK, FilesInv, NoRepeats,
              BuildersHavePlans
<1> QED
  BY <1>1, <1>2, <1>3 DEF Next

\* Every row, file and build of 011 is well formed at all times, and no document
\* is mapped twice (_upsert_project_document).
THEOREM TypeCorrect == Spec => []TypeOK
<1>1. TypeInv => TypeOK
  BY DEF TypeInv
<1> QED
  BY InitTypes, TypeStep, <1>1, PTL DEF Spec
-----------------------------------------------------------------------------
(***************************************************************************)
(* A mapping has a document, as long as no manifest gives a document_uid   *)
(* of its own: it had one when the build planned it, and 006 replaces a    *)
(* kb_document but never removes one.                                      *)
(***************************************************************************)
Documented(docs) == \A s \in ToSet(docs) : s \in Contents /\ document[s] # None

DocumentsInv ==
  /\ Documented(mapped)
  /\ \A b \in Builders : builder[b].pc # "idle" => Documented(builder[b].plan.docs)

LEMMA MappingsAreDocumented ==
  ASSUME Named = FALSE, TypeInv, DocumentsInv, NEW docs \in Mappings
  PROVE  Documented(docs)
<1>1. mapped \in Seq(Contents)
  BY MaxDocsIs, BoundedIs DEF TypeInv, TypeOK
<1>2. CASE docs \in FromManifest
  <2>1. docs \in Seq({s \in Contents : Resolved(s)})
    BY <1>2, BoundedIs, MaxEntriesAssumption DEF FromManifest
  <2>2. \A i \in DOMAIN docs : docs[i] \in {s \in Contents : Resolved(s)}
    BY <2>1
  <2>3. \A s \in {s \in Contents : Resolved(s)} : document[s] # None
    BY DEF Resolved
  <2> QED
    BY <2>2, <2>3 DEF Documented, ToSet
<1>3. ASSUME NEW s \in Contents, document[s] # None, docs = <<s>>
      PROVE  Documented(docs)
  <2>1. \A i \in DOMAIN docs : docs[i] = s
    BY <1>3
  <2> QED
    BY <1>3, <2>1 DEF Documented, ToSet
<1>4. ASSUME NEW n \in 1..Len(mapped), docs = SubSeq(mapped, 1, n)
      PROVE  Documented(docs)
  <2>1. \A i \in DOMAIN docs : i \in DOMAIN mapped /\ docs[i] = mapped[i]
    BY <1>1, <1>4
  <2> QED
    BY <2>1 DEF DocumentsInv, Documented, ToSet
<1> QED
  BY <1>2, <1>3, <1>4 DEF Mappings

LEMMA DocumentsStep ==
  ASSUME Named = FALSE, TypeInv, DocumentsInv, [Next]_vars
  PROVE  DocumentsInv'
<1>1. builder \in [Builders -> Builder]
  BY DEF TypeInv, TypeOK
<1>2. CASE Environment
  <2>1. UNCHANGED <<mapped, builder>>
    BY <1>2 DEF Environment, EvidenceStored, RegisterDocument, rowVars
  <2>2. \A s \in Contents : document[s] # None => document'[s] # None
    BY <1>2, NoneAssumption
       DEF Environment, EvidenceStored, RegisterDocument, TypeInv, TypeOK
  <2> QED
    BY <2>1, <2>2 DEF DocumentsInv, Documented
<1>3. ASSUME NEW b \in Builders, NEW docs \in Mappings, NEW force \in Forces,
             PlanBuild(b, docs, force)
      PROVE  DocumentsInv'
  <2> DEFINE me == [IdleBuilder EXCEPT !.pc = "planned", !.force = force,
                      !.plan = NewPlan(docs), !.seen = Recorded, !.todo = Assets]
  <2>1. /\ builder' = [builder EXCEPT ![b] = me]
        /\ UNCHANGED <<document, mapped>>
    BY <1>3 DEF PlanBuild, rowVars
  <2>2. me.plan.docs = docs
    BY DEF IdleBuilder, NewPlan
  <2> HIDE DEF me
  <2>3. /\ builder'[b] = me
        /\ \A c \in Builders \ {b} : builder'[c] = builder[c]
    BY <1>1, <2>1
  <2>4. Documented(docs)
    BY MappingsAreDocumented
  <2> QED
    BY <2>1, <2>2, <2>3, <2>4 DEF DocumentsInv, Documented
<1>4. ASSUME NEW b \in Builders, BeginWriting(b) \/ WriteAsset(b)
      PROVE  DocumentsInv'
  <2>1. UNCHANGED <<document, mapped>> /\ builder[b].pc # "idle"
    BY <1>4 DEF BeginWriting, WriteAsset, Writing, rowVars
  <2>2. builder[b] \in Builder
    BY <1>1
  <2>3. /\ builder'[b].plan = builder[b].plan
        /\ \A c \in Builders \ {b} : builder'[c] = builder[c]
    BY <1>1, <1>4, <2>2 DEF BeginWriting, WriteAsset, Builder
  <2> QED
    BY <2>1, <2>3 DEF DocumentsInv, Documented
<1>5. ASSUME NEW b \in Builders, CommitBuild(b)
      PROVE  DocumentsInv'
  <2> DEFINE docs == builder[b].plan.docs
  <2>1. /\ builder[b].pc = "writing" /\ mapped' = Mapped(docs)
        /\ builder' = [builder EXCEPT ![b] = IdleBuilder]
        /\ UNCHANGED document
    BY <1>5 DEF CommitBuild
  <2>2. builder[b].plan \in Plan
    BY <2>1 DEF TypeInv, BuildersHavePlans
  <2>3. docs \in Seq(Contents)
    BY <2>2, MaxDocsIs, BoundedIs DEF Plan
  <2>4. mapped \in Seq(Contents) /\ NoRepeats(mapped)
    BY MaxDocsIs, BoundedIs DEF TypeInv, TypeOK
  <2>5. Documented(mapped) /\ Documented(docs)
    BY <2>1 DEF DocumentsInv
  <2> HIDE DEF docs
  <2>6. ToSet(mapped') = ToSet(mapped) \cup ToSet(docs)
    BY <2>1, <2>3, <2>4, MappedIs
  <2>7. Documented(mapped)'
    BY <2>1, <2>5, <2>6 DEF Documented
  <2>8. /\ builder'[b] = IdleBuilder
        /\ \A c \in Builders \ {b} : builder'[c] = builder[c]
    BY <1>1, <2>1
  <2> QED
    BY <2>1, <2>7, <2>8, IdleTyped DEF DocumentsInv, Documented
<1>6. ASSUME NEW b \in Builders, NEW cut \in BOOLEAN, AbortBuild(b, cut)
      PROVE  DocumentsInv'
  <2>1. /\ UNCHANGED <<document, mapped>>
        /\ builder' = [builder EXCEPT ![b] = IdleBuilder]
    BY <1>6 DEF AbortBuild, rowVars
  <2>2. /\ builder'[b] = IdleBuilder
        /\ \A c \in Builders \ {b} : builder'[c] = builder[c]
    BY <1>1, <2>1
  <2> QED
    BY <2>1, <2>2, IdleTyped DEF DocumentsInv, Documented
<1>7. CASE UNCHANGED vars
  BY <1>7 DEF vars, rowVars, DocumentsInv, Documented
<1> QED
  BY <1>2, <1>3, <1>4, <1>5, <1>6, <1>7 DEF Next, BuilderStep

\* plan.md of 011: a mapping without a kb_document is skipped.  It is, unless the
\* manifest gives a document_uid: then the code looks up nothing.
THEOREM MappedStayDocumented ==
  ASSUME Named = FALSE
  PROVE  Spec => []MappedHasDocument
<1>1. Init => DocumentsInv
  BY DEF Init, DocumentsInv, Documented, ToSet, IdleBuilder
<1>2. TypeInv /\ DocumentsInv /\ [Next]_vars => DocumentsInv'
  BY DocumentsStep
<1>3. DocumentsInv => MappedHasDocument
  BY DEF DocumentsInv, Documented, MappedHasDocument
<1> QED
  BY InitTypes, TypeStep, <1>1, <1>2, <1>3, PTL DEF Spec
=============================================================================
