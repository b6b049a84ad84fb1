-------------------------- MODULE YellowstoneProofs --------------------------
(***************************************************************************)
(* What holds of the Yellowstone listener for every chain, every set of    *)
(* programs, every replay window and page size, and any number of crashes  *)
(* and errors.                                                             *)
(*                                                                         *)
(* The argument has layers.  Inv is the type invariant with what the       *)
(* handlers take for granted: that the row at hand is on the chain, that a *)
(* fresh head is a slot and that an open window has both ends.  LiveIsReady*)
(* and CursorsAdvance follow from Inv step by step.  DoneIsProjected and   *)
(* RowsBelongToWindow are not inductive: DoneInv adds what has become of   *)
(* the row being worked on, WindowInv adds that the range the process      *)
(* works on is the range in the database.  NothingSkipped and the ordered  *)
(* ingest rest on IngestInv, which says where what is still lacked lies    *)
(* for the configured programs.  ScopeInv, at the end, says the same of    *)
(* the extensions, whose registration has to be heard before their         *)
(* transactions count, under OnlyRegistered.                               *)
(***************************************************************************)
EXTENDS YellowstoneIndexer, FiniteSetTheorems, WellFoundedInduction, TLAPS

\* The blocks are among those the chain may confirm.
ChainKnown ==
    /\ Len(blocks) <= MaxSlot
    /\ \A s \in DOMAIN blocks : blocks[s] \in BlockChoices[s]

\* The row at hand is on the chain; where a registry change is applied, it has one.
RowKnown ==
    /\ pc \in {"change", "late", "advance", "finish", "record", "rescope", "regenerate"}
          => row \in OnChain
    /\ pc \in {"change", "late", "rescope"} => Content(row).op # "none"

\* A fresh head is a slot.
HeadKnown == headFresh => headCache # NoSlot

\* An open window has both its ends, and a recovery has a target.
WindowKnown ==
    /\ recTarget # NoSlot => recFrom # NoSlot
    /\ pc \in {"mark", "begin", "stage", "resolve", "project", "change", "late", "advance",
               "finish", "complete", "cleanup"} => targetSlot # NoSlot

\* The base of every proof below.
Inv == TypeOK /\ ChainKnown /\ RowKnown /\ HeadKnown /\ WindowKnown

-----------------------------------------------------------------------------
(* Operators of the model. *)

\* First picks the least transaction of any non-empty set, finite or not: the order of
\* the chain is well founded.
LEMMA FirstIsLeast ==
    ASSUME NEW T, T \subseteq Nat \X Nat, T # {}
    PROVE  First(T) \in T /\ \A u \in T \ {First(T)} : Before(First(T), u)
<1> DEFINE R == LexPairOrdering(OpToRel(<, Nat), OpToRel(<, Nat), Nat, Nat)
<1>1. IsWellFoundedOn(R, Nat \X Nat)
  BY NatLessThanWellFounded, WFLexPairOrdering
<1>2. PICK t \in T : \A u \in T : <<u, t>> \notin R
  BY <1>1, WFMin
<1>3. \A u \in T \ {t} : Before(t, u)
  <2> SUFFICES ASSUME NEW u \in T \ {t} PROVE Before(t, u)
    OBVIOUS
  <2>1. t \in Nat \X Nat /\ u \in Nat \X Nat
    OBVIOUS
  <2>2. <<u, t>> \notin R
    BY <1>2
  <2>3. /\ ~(u[1] < t[1])
        /\ ~(u[1] = t[1] /\ u[2] < t[2])
    BY <2>1, <2>2 DEF LexPairOrdering, OpToRel
  <2> QED
    BY <2>1, <2>3 DEF Before
<1>4. \E x \in T : \A u \in T \ {x} : Before(x, u)
  BY <1>3
<1> QED
  BY <1>4 DEF First

\* Slots and transaction indexes count from one.
LEMMA ChainPositions == TypeOK => OnChain \subseteq (Nat \ {0}) \X (Nat \ {0})
BY DEF TypeOK, OnChain

\* A registry change names an extension.
LEMMA ChangeNamesExtension ==
    ASSUME TypeOK, ChainKnown, NEW t \in OnChain, Content(t).op # "none"
    PROVE  Content(t).ext \in Extensions
<1>1. PICK s \in DOMAIN blocks : \E i \in DOMAIN blocks[s] : t = <<s, i>>
  BY DEF OnChain
<1>2. s \in 1 .. MaxSlot /\ blocks[s] \in BlockChoices[s]
  BY ConstantsAssumption DEF ChainKnown, TypeOK
<1> QED
  BY <1>1, <1>2, RegistryAssumption DEF Content

-----------------------------------------------------------------------------
(* The invariant. *)

\* The listener starts in it.
LEMMA InitInv == Init => Inv
<1> SUFFICES ASSUME Init PROVE Inv
  OBVIOUS
<1>1. OnChain = {}
  BY DEF Init, OnChain
<1>2. blocks \in Seq(Seq(Transaction)) /\ BasePrograms \subseteq Programs
  BY DEF Init, Programs
<1>3. SlotTypes
  BY DEF Init, SlotTypes
<1>4. StatusTypes
  BY DEF Init, StatusTypes
<1>5. ScopeTypes
  BY <1>2 DEF Init, ScopeTypes
<1>6. RowTypes
  BY <1>1 DEF Init, RowTypes
<1>7. ChainKnown
  BY ConstantsAssumption DEF Init, ChainKnown
<1> QED
  BY <1>2, <1>3, <1>4, <1>5, <1>6, <1>7 DEF Inv, TypeOK, Init, RowKnown, HeadKnown, WindowKnown

\* Nothing but the cluster touches the chain.
LEMMA ChainGrowsOnlyByConfirmation == [Next]_vars => ConfirmSlot \/ UNCHANGED blocks
<1> SUFFICES ASSUME [Next]_vars, ~ConfirmSlot PROVE UNCHANGED blocks
  OBVIOUS
<1>1. CASE HeadCacheExpires \/ Start \/ Heartbeat \/ UNCHANGED vars
  BY <1>1 DEF HeadCacheExpires, Start, Heartbeat, vars, chainVars
<1>2. CASE Recovering
  <2> USE DEF chainVars
  <2>1. CASE DecideStream \/ DecideRecover
    BY <2>1 DEF DecideStream, DecideRecover
  <2>2. CASE MarkRecoveryGeneration \/ BeginRecovery \/ StagingDone \/ ResolveSlot \/ IndexesResolved
    BY <2>2 DEF MarkRecoveryGeneration, BeginRecovery, StagingDone, ResolveSlot, IndexesResolved
  <2>3. CASE StageProgram \/ StageRegistered \/ ProjectRow \/ ApplyRecoveryChange
    BY <2>3 DEF StageProgram, StageRegistered, ProjectRow, ApplyRecoveryChange
  <2>4. CASE AdvanceCheckpoint \/ FinishRow \/ BatchDone \/ CompleteRecovery \/ CleanupRecovery
    BY <2>4 DEF AdvanceCheckpoint, FinishRow, BatchDone, CompleteRecovery, CleanupRecovery
  <2> QED
    BY <1>2, <2>1, <2>2, <2>3, <2>4 DEF Recovering
<1>3. CASE Streaming
  BY <1>3 DEF Streaming, ApplyRecoveredScope, Subscribe, SubscribeRefused, DeliverTransaction, RecordCheckpoint,
     Rescope, RescopeUnneeded, Regenerate, DeliverSlot, chainVars
<1>4. CASE Faults
  BY <1>4 DEF Faults, Crash, OpeningFails, RecoveryFails, SubscribeFails, RescopeFails, StreamFails, StreamEnds, chainVars
<1> QED
  BY <1>1, <1>2, <1>3, <1>4 DEF Next, Listener

\* What has been confirmed stays confirmed.
LEMMA ChainOnlyGrows ==
    ASSUME Inv, [Next]_vars
    PROVE  /\ OnChain \subseteq OnChain'
           /\ \A t \in OnChain : Content(t)' = Content(t)
           /\ blocks' \in Seq(Seq(Transaction))
<1>1. CASE ConfirmSlot
  <2>1. PICK b \in BlockChoices[HeadSlot + 1] : blocks' = Append(blocks, b)
    BY <1>1 DEF ConfirmSlot
  <2>2. HeadSlot \in Nat /\ HeadSlot < MaxSlot /\ blocks \in Seq(Seq(Transaction))
    BY <1>1 DEF ConfirmSlot, HeadSlot, Inv, TypeOK
  <2>3. b \in Seq(Transaction)
    BY <2>2, ConstantsAssumption
  <2>4. \A s \in DOMAIN blocks : s \in DOMAIN blocks' /\ blocks'[s] = blocks[s]
    BY <2>1, <2>2, <2>3
  <2>5. blocks' \in Seq(Seq(Transaction))
    BY <2>1, <2>2, <2>3
  <2>6. ASSUME NEW t \in OnChain PROVE t \in OnChain' /\ Content(t)' = Content(t)
    <3>1. PICK s \in DOMAIN blocks : \E i \in DOMAIN blocks[s] : t = <<s, i>>
      BY DEF OnChain
    <3> QED
      BY <3>1, <2>4 DEF OnChain, Content
  <2> QED
    BY <2>5, <2>6
<1>2. CASE UNCHANGED blocks
  BY <1>2 DEF OnChain, Content, Inv, TypeOK
<1> QED
  BY <1>1, <1>2, ChainGrowsOnlyByConfirmation

\* The chain only ever grows by a block it may confirm.
LEMMA ChainStep == Inv /\ [Next]_vars => ChainKnown'
<1> SUFFICES ASSUME Inv, [Next]_vars PROVE ChainKnown'
  OBVIOUS
<1>1. CASE ConfirmSlot
  <2>1. PICK b \in BlockChoices[HeadSlot + 1] : blocks' = Append(blocks, b)
    BY <1>1 DEF ConfirmSlot
  <2>2. HeadSlot \in Nat /\ HeadSlot < MaxSlot
    BY <1>1 DEF ConfirmSlot, HeadSlot, Inv, TypeOK
  <2>3. Len(blocks') = HeadSlot + 1 /\ blocks'[HeadSlot + 1] = b
        /\ \A s \in 1 .. HeadSlot : blocks'[s] = blocks[s]
    BY <2>1 DEF HeadSlot, Inv, TypeOK
  <2>4. blocks \in Seq(Seq(Transaction)) /\ DOMAIN blocks = 1 .. HeadSlot
    BY DEF HeadSlot, Inv, TypeOK
  <2>5. DOMAIN blocks' = 1 .. HeadSlot + 1
    BY <2>1, <2>4 DEF HeadSlot
  <2>6. ASSUME NEW s \in 1 .. HeadSlot + 1 PROVE blocks'[s] \in BlockChoices[s]
    BY <2>1, <2>2, <2>3, <2>4 DEF ChainKnown, Inv
  <2> QED
    BY <2>2, <2>3, <2>5, <2>6, ConstantsAssumption DEF ChainKnown
<1>2. CASE UNCHANGED blocks
  BY <1>2 DEF Inv, ChainKnown
<1> QED
  BY <1>1, <1>2, ChainGrowsOnlyByConfirmation

\* The definitions of the variable tuples, which every step of every action needs.
USE DEF chainVars, cursorVars, windowVars, statusVars, rowVars, scopeVars, headVars,
        rangeVars, streamVars, historyVars, budgetVars

\* The frame of the slot-valued variables.
slotFrame == <<cursorVars, windowVars, headCache, rangeVars, streamSlot, historyVars, budgetVars>>

\* Every slot stays a natural number: no subtraction of the recovery range goes below zero.
LEMMA SlotTypesStep == Inv /\ [Next]_vars => SlotTypes'
<1> SUFFICES ASSUME Inv, [Next]_vars PROVE SlotTypes'
  OBVIOUS
<1>1. /\ SlotTypes /\ HeadKnown /\ WindowKnown /\ RowTypes
      /\ OnChain \subseteq Nat \X Nat
      /\ HeadSlot \in Nat /\ ReplayWindow \in Nat
  BY ChainPositions, ConstantsAssumption DEF Inv, TypeOK, HeadSlot
<1>2. ASSUME NEW t \in OnChain \cup {NoTx} PROVE Slot(t) \in Nat
  BY <1>1 DEF Slot, NoTx
<1>3. CASE UNCHANGED slotFrame
  BY <1>1, <1>3 DEF slotFrame, SlotTypes
<1>4. CASE Crash
  BY <1>1, <1>4 DEF Crash, SlotTypes
<1>5. CASE DecideStream
  BY <1>1, <1>5 DEF DecideStream, ReadHead, CurrentHeadSlot, RecoveryNotRequired,
     DurableResumeSlot, Larger, NoSlot, HeadKnown, SlotTypes
<1>6. CASE DecideRecover
  BY <1>1, <1>6 DEF DecideRecover, ReadHead, CurrentHeadSlot, RecoveryFromSlot,
     DurableResumeSlot, Larger, NoSlot, HeadKnown, WindowKnown, SlotTypes
<1>7. CASE MarkRecoveryGeneration
  BY <1>1, <1>7 DEF MarkRecoveryGeneration, MarkFilterGeneration, Larger, Smaller, NoSlot, SlotTypes
<1>8. CASE OpeningFails \/ RecoveryFails \/ SubscribeFails \/ RescopeFails \/ StreamFails \/ StreamEnds
  <2>1. LoopAgain /\ errors' = errors + 1 /\ UNCHANGED <<cursorVars, windowVars, headCache, historyVars, crashes>>
    BY <1>8 DEF OpeningFails, RecoveryFails, SubscribeFails, RescopeFails, StreamFails, StreamEnds
  <2> QED
    BY <1>1, <2>1 DEF LoopAgain, SlotTypes
<1>9. CASE BeginRecovery
  BY <1>1, <1>9 DEF BeginRecovery, SlotTypes
<1>10. CASE AdvanceCheckpoint \/ RecordCheckpoint
  BY <1>1, <1>2, <1>10 DEF AdvanceCheckpoint, RecordCheckpoint, UpdateCheckpoint, Larger, SlotTypes, RowTypes
<1>11. CASE CompleteRecovery
  BY <1>1, <1>11 DEF CompleteRecovery, Larger, NoSlot, SlotTypes
<1>12. CASE CleanupRecovery
  BY <1>1, <1>12 DEF CleanupRecovery, WindowKnown, SlotTypes
<1>13. CASE ApplyRecoveredScope
  BY <1>1, <1>13 DEF ApplyRecoveredScope, MarkFilterGeneration, Larger, Smaller, NoSlot, SlotTypes
<1>14. CASE Subscribe
  BY <1>1, <1>14 DEF Subscribe, SlotTypes
<1>15. CASE SubscribeRefused
  <2>1. LoopAgain /\ UNCHANGED <<cursorVars, windowVars, headCache, historyVars, budgetVars>>
    BY <1>15 DEF SubscribeRefused
  <2> QED
    BY <1>1, <2>1 DEF LoopAgain, SlotTypes
<1>16. CASE Regenerate
  BY <1>1, <1>2, <1>16 DEF Regenerate, MarkFilterGeneration, LoopAgain, Larger, Smaller, NoSlot, SlotTypes, RowTypes
<1>17. CASE DeliverSlot
  BY <1>1, <1>17 DEF DeliverSlot, SlotTypes
<1>18. CASE ConfirmSlot \/ HeadCacheExpires \/ Start \/ Heartbeat \/ UNCHANGED vars
  BY <1>3, <1>18 DEF ConfirmSlot, HeadCacheExpires, Start, Heartbeat, vars, slotFrame
<1>19. CASE \/ StageProgram \/ StagingDone \/ ResolveSlot \/ IndexesResolved \/ ProjectRow
            \/ ApplyRecoveryChange \/ StageRegistered \/ FinishRow \/ BatchDone
  BY <1>3, <1>19 DEF StageProgram, StagingDone, ResolveSlot, IndexesResolved, ProjectRow,
     ApplyRecoveryChange, StageRegistered, FinishRow, BatchDone, slotFrame
<1>20. CASE DeliverTransaction \/ Rescope \/ RescopeUnneeded
  BY <1>3, <1>20 DEF DeliverTransaction, Rescope, RescopeUnneeded, slotFrame
<1> QED
  BY <1>4, <1>5, <1>6, <1>7, <1>8, <1>9, <1>10, <1>11, <1>12, <1>13, <1>14, <1>15, <1>16,
     <1>17, <1>18, <1>19, <1>20 DEF Next, Listener, Recovering, Streaming, Faults

\* The phase and the place in the loop stay among those the code names.
LEMMA StatusTypesStep == Inv /\ [Next]_vars => StatusTypes'
<1> SUFFICES ASSUME StatusTypes, [Next]_vars PROVE StatusTypes'
  BY DEF Inv, TypeOK
<1> USE DEF StatusTypes
<1>1. CASE ConfirmSlot \/ HeadCacheExpires \/ Start \/ Crash \/ Heartbeat \/ UNCHANGED vars
  BY <1>1 DEF ConfirmSlot, HeadCacheExpires, Start, Crash, Heartbeat, vars
<1>2. CASE DecideStream \/ DecideRecover
  BY <1>2 DEF DecideStream, DecideRecover, ReadHead
<1>3. CASE MarkRecoveryGeneration \/ BeginRecovery \/ StageProgram \/ StagingDone
  BY <1>3 DEF MarkRecoveryGeneration, BeginRecovery, StageProgram, StagingDone
<1>4. CASE ResolveSlot \/ IndexesResolved \/ BatchDone \/ FinishRow
  BY <1>4 DEF ResolveSlot, IndexesResolved, BatchDone, FinishRow
<1>5. CASE ProjectRow \/ ApplyRecoveryChange \/ StageRegistered \/ AdvanceCheckpoint
  BY <1>5 DEF ProjectRow, ApplyRecoveryChange, StageRegistered, AdvanceCheckpoint
<1>6. CASE CompleteRecovery \/ CleanupRecovery \/ ApplyRecoveredScope
  BY <1>6 DEF CompleteRecovery, CleanupRecovery, ApplyRecoveredScope
<1>7. CASE Subscribe \/ SubscribeRefused \/ DeliverTransaction \/ RecordCheckpoint
  BY <1>7 DEF Subscribe, SubscribeRefused, DeliverTransaction, RecordCheckpoint,
     MarkStreamConnected, MarkError, LoopAgain
<1>8. CASE Rescope \/ RescopeUnneeded \/ Regenerate
  BY <1>8 DEF Rescope, RescopeUnneeded, Regenerate, MarkStreamDisconnected, LoopAgain
<1>9. CASE DeliverSlot
  BY <1>9 DEF DeliverSlot, MarkStreamCaughtUp
<1>10. CASE OpeningFails \/ RecoveryFails \/ SubscribeFails
  BY <1>10 DEF OpeningFails, RecoveryFails, SubscribeFails, MarkError, LoopAgain
<1>11. CASE RescopeFails \/ StreamFails \/ StreamEnds
  BY <1>11 DEF RescopeFails, StreamFails, StreamEnds, MarkStreamDisconnected, MarkError, LoopAgain
<1> QED
  BY <1>1, <1>2, <1>3, <1>4, <1>5, <1>6, <1>7, <1>8, <1>9, <1>10, <1>11
     DEF Next, Listener, Recovering, Streaming, Faults

\* The frame of the program sets.
scopeFrame == <<generation, todo, scopeVars, persisted>>

\* The filter always holds the configured programs; only extensions come and go.
LEMMA ScopeTypesStep == Inv /\ [Next]_vars => ScopeTypes'
<1> SUFFICES ASSUME Inv, [Next]_vars PROVE ScopeTypes'
  OBVIOUS
<1>1. /\ ScopeTypes /\ RowKnown
      /\ BasePrograms \subseteq Programs /\ Extensions \subseteq Programs
  BY DEF Inv, TypeOK, Programs
<1>2. pc \in {"change", "rescope"} => Content(row).ext \in Extensions
  BY ChangeNamesExtension DEF Inv, RowKnown
<1>3. CASE UNCHANGED scopeFrame
  BY <1>1, <1>3 DEF scopeFrame, ScopeTypes
<1>4. CASE Crash
  BY <1>1, <1>4 DEF Crash, ScopeTypes
<1>5. CASE Start
  BY <1>1, <1>5 DEF Start, ScopeTypes
<1>6. CASE DecideStream \/ DecideRecover
  BY <1>1, <1>6 DEF DecideStream, DecideRecover, ScopeTypes
<1>7. CASE MarkRecoveryGeneration
  BY <1>1, <1>7 DEF MarkRecoveryGeneration, MarkFilterGeneration, ScopeTypes
<1>8. CASE BeginRecovery
  BY <1>1, <1>8 DEF BeginRecovery, ScopeTypes
<1>9. CASE StageProgram
  BY <1>1, <1>9 DEF StageProgram, ScopeTypes
<1>10. CASE ApplyRecoveryChange
  BY <1>1, <1>2, <1>10 DEF ApplyRecoveryChange, ScopeTypes
<1>11. CASE ApplyRecoveredScope
  <2>1. RecoveredFilter \subseteq Programs /\ BasePrograms \subseteq RecoveredFilter
    BY <1>1 DEF RecoveredFilter, ScopeTypes
  <2> QED
    BY <1>1, <1>11, <2>1 DEF ApplyRecoveredScope, MarkFilterGeneration, ScopeTypes
<1>12. CASE Rescope \/ RescopeFails
  <2>1. ChangedScope \subseteq Extensions
    BY <1>1, <1>2, <1>12 DEF Rescope, RescopeFails, ChangedScope, ScopeTypes
  <2>2. CASE Rescope
    BY <1>1, <2>1, <2>2 DEF Rescope, ScopeTypes
  <2>3. CASE RescopeFails
    BY <1>1, <2>1, <2>3 DEF RescopeFails, LoopAgain, ScopeTypes
  <2> QED
    BY <1>12, <2>2, <2>3
<1>13. CASE OpeningFails \/ RecoveryFails \/ SubscribeFails \/ StreamFails \/ StreamEnds \/ SubscribeRefused
  <2>1. LoopAgain /\ UNCHANGED <<generation, scopeVars, persisted>>
    BY <1>13 DEF OpeningFails, RecoveryFails, SubscribeFails, StreamFails, StreamEnds, SubscribeRefused
  <2> QED
    BY <1>1, <2>1 DEF LoopAgain, ScopeTypes
<1>14. CASE Regenerate
  BY <1>1, <1>14 DEF Regenerate, MarkFilterGeneration, LoopAgain, ScopeTypes
<1>15. CASE ConfirmSlot \/ HeadCacheExpires \/ Heartbeat \/ UNCHANGED vars
  BY <1>3, <1>15 DEF ConfirmSlot, HeadCacheExpires, Heartbeat, vars, scopeFrame
<1>16. CASE StagingDone \/ ResolveSlot \/ IndexesResolved \/ ProjectRow \/ StageRegistered
  BY <1>3, <1>16 DEF StagingDone, ResolveSlot, IndexesResolved, ProjectRow, StageRegistered, scopeFrame
<1>17. CASE AdvanceCheckpoint \/ FinishRow \/ BatchDone \/ CompleteRecovery \/ CleanupRecovery
  BY <1>3, <1>17 DEF AdvanceCheckpoint, FinishRow, BatchDone, CompleteRecovery, CleanupRecovery, scopeFrame
<1>18. CASE Subscribe \/ DeliverTransaction \/ RecordCheckpoint \/ RescopeUnneeded \/ DeliverSlot
  BY <1>3, <1>18 DEF Subscribe, DeliverTransaction, RecordCheckpoint, RescopeUnneeded, DeliverSlot, scopeFrame
<1> QED
  BY <1>4, <1>5, <1>6, <1>7, <1>8, <1>9, <1>10, <1>11, <1>12, <1>13, <1>14, <1>15, <1>16,
     <1>17, <1>18 DEF Next, Listener, Recovering, Streaming, Faults

\* A cursor is the oldest signature of a full page, or nothing.
LEMMA CursorOnChain ==
    ASSUME Inv, NEW p, NEW from
    PROVE  Page(p) \subseteq OnChain /\ NextCursor(p, from) \in OnChain \cup {NoTx}
<1>1. Page(p) \subseteq OnChain
  BY DEF Page, Mentions
<1>2. CASE Page(p) = {}
  <2>1. Cardinality(Page(p)) = 0
    BY <1>2, FS_EmptySet
  <2> QED
    BY <1>1, <2>1, ConstantsAssumption DEF NextCursor
<1>3. CASE Page(p) # {}
  <2>1. Page(p) \subseteq Nat \X Nat
    BY <1>1, ChainPositions DEF Inv
  <2>2. First(Page(p)) \in Page(p)
    BY <1>3, <2>1, FirstIsLeast
  <2> QED
    BY <1>1, <2>2 DEF NextCursor
<1> QED
  BY <1>2, <1>3

\* A page stages transactions of the chain only.
LEMMA StagePageTypes ==
    ASSUME Inv, NEW p \in Programs, NEW from, StagePage(p, from)
    PROVE  /\ unindexed' \subseteq OnChain
           /\ cursor' \in [Programs -> OnChain \cup {NoTx}]
           /\ UNCHANGED <<indexed, finished>>
BY CursorOnChain DEF StagePage, Inv, TypeOK, RowTypes

\* The recovery's next row is the least one whose index is known ...
LEMMA NextRowIsLeast ==
    ASSUME Inv, indexed # {}
    PROVE  NextRow \in indexed /\ \A u \in indexed \ {NextRow} : Before(NextRow, u)
<1>1. indexed \subseteq Nat \X Nat
  BY ChainPositions DEF Inv, TypeOK, RowTypes
<1> QED
  BY <1>1, FirstIsLeast DEF NextRow

\* ... and the stream's next delivery is the least one still to come.
LEMMA NextDeliveryIsLeast ==
    ASSUME Inv, Deliverable # {}
    PROVE  /\ First(Deliverable) \in Deliverable
           /\ \A u \in Deliverable \ {First(Deliverable)} : Before(First(Deliverable), u)
<1>1. Deliverable \subseteq Nat \X Nat
  BY ChainPositions DEF Inv, Deliverable
<1> QED
  BY <1>1, FirstIsLeast

\* The frame of the rows.
rowFrame == <<projected, rowVars, row, streamTx>>

\* Rows, cursors and the read model hold transactions of the chain.
LEMMA RowTypesStep == Inv /\ [Next]_vars => RowTypes'
<1> SUFFICES ASSUME Inv, [Next]_vars PROVE RowTypes'
  OBVIOUS
<1>1. RowTypes /\ RowKnown /\ ScopeTypes
  BY DEF Inv, TypeOK
<1>2. CASE ConfirmSlot
  BY <1>1, <1>2, ChainOnlyGrows DEF ConfirmSlot, RowTypes
<1> SUFFICES ASSUME ~ConfirmSlot, OnChain' = OnChain PROVE RowTypes'
  BY <1>2, ChainGrowsOnlyByConfirmation DEF OnChain
<1>3. CASE UNCHANGED rowFrame
  BY <1>1, <1>3 DEF rowFrame, RowTypes
<1>4. CASE Crash
  BY <1>1, <1>4 DEF Crash, RowTypes
<1>5. CASE DecideRecover
  BY <1>1, <1>5 DEF DecideRecover, RowTypes
<1>6. CASE StageProgram
  <2>1. PICK p \in Programs : StagePage(p, fromSlot)
    BY <1>1, <1>6 DEF StageProgram, ScopeTypes
  <2> QED
    BY <1>1, <1>6, <2>1, StagePageTypes DEF StageProgram, RowTypes
<1>7. CASE StageRegistered
  <2>1. Content(row).ext \in Programs
    BY <1>1, <1>7, ChangeNamesExtension DEF StageRegistered, Inv, RowKnown, Programs
  <2>2. StagePage(Content(row).ext, RegisteredFromSlot(Slot(row)))
    BY <1>7 DEF StageRegistered
  <2> QED
    BY <1>1, <1>7, <2>1, <2>2, StagePageTypes DEF StageRegistered, RowTypes
<1>8. CASE ResolveSlot
  BY <1>1, <1>8 DEF ResolveSlot, RowTypes
<1>9. CASE ProjectRow
  <2>1. NextRow \in OnChain
    BY <1>1, <1>9, NextRowIsLeast DEF ProjectRow, RowTypes
  <2> QED
    BY <1>1, <1>9, <2>1 DEF ProjectRow, RowTypes
<1>10. CASE FinishRow
  BY <1>1, <1>10 DEF FinishRow, RowTypes, RowKnown
<1>11. CASE CleanupRecovery
  BY <1>1, <1>11 DEF CleanupRecovery, RowTypes
<1>12. CASE DeliverTransaction
  <2>1. First(Deliverable) \in OnChain
    BY <1>12, NextDeliveryIsLeast DEF DeliverTransaction, Deliverable
  <2> QED
    BY <1>1, <1>12, <2>1 DEF DeliverTransaction, RowTypes
<1>13. CASE RecordCheckpoint
  BY <1>1, <1>13 DEF RecordCheckpoint, RowTypes
<1>14. CASE Subscribe \/ RescopeUnneeded \/ DeliverSlot
  BY <1>1, <1>14 DEF Subscribe, RescopeUnneeded, DeliverSlot, RowTypes
<1>15. CASE OpeningFails \/ RecoveryFails \/ SubscribeFails \/ StreamFails \/ StreamEnds
            \/ SubscribeRefused \/ RescopeFails \/ Regenerate
  <2>1. LoopAgain /\ UNCHANGED <<projected, rowVars>>
    BY <1>15 DEF OpeningFails, RecoveryFails, SubscribeFails, StreamFails, StreamEnds,
       SubscribeRefused, RescopeFails, Regenerate
  <2> QED
    BY <1>1, <2>1 DEF LoopAgain, RowTypes
<1>16. CASE HeadCacheExpires \/ Start \/ Heartbeat \/ UNCHANGED vars
  BY <1>3, <1>16 DEF HeadCacheExpires, Start, Heartbeat, vars, rowFrame
<1>17. CASE DecideStream \/ MarkRecoveryGeneration \/ BeginRecovery \/ StagingDone \/ IndexesResolved
  BY <1>3, <1>17 DEF DecideStream, MarkRecoveryGeneration, BeginRecovery, StagingDone, IndexesResolved, rowFrame
<1>18. CASE ApplyRecoveryChange \/ AdvanceCheckpoint \/ BatchDone \/ CompleteRecovery
  BY <1>3, <1>18 DEF ApplyRecoveryChange, AdvanceCheckpoint, BatchDone, CompleteRecovery, rowFrame
<1>19. CASE ApplyRecoveredScope \/ Rescope
  BY <1>3, <1>19 DEF ApplyRecoveredScope, Rescope, rowFrame
<1> QED
  BY <1>4, <1>5, <1>6, <1>7, <1>8, <1>9, <1>10, <1>11, <1>12, <1>13, <1>14, <1>15, <1>16,
     <1>17, <1>18, <1>19 DEF Next, Listener, Recovering, Streaming, Faults

\* The handlers that look at the row at hand have one.
LEMMA RowKnownStep == Inv /\ [Next]_vars => RowKnown'
<1> SUFFICES ASSUME Inv, [Next]_vars PROVE RowKnown'
  OBVIOUS
<1>1. RowKnown /\ RowTypes
  BY DEF Inv, TypeOK
<1>2. CASE UNCHANGED <<pc, row>>
  BY <1>1, <1>2, ChainOnlyGrows DEF RowKnown
<1> SUFFICES ASSUME UNCHANGED blocks PROVE RowKnown'
  BY <1>2, ChainGrowsOnlyByConfirmation DEF ConfirmSlot
<1>3. OnChain' = OnChain /\ \A t : Content(t)' = Content(t)
  BY DEF OnChain, Content
<1>4. CASE pc' \notin {"change", "late", "advance", "finish", "record", "rescope", "regenerate"}
  BY <1>4 DEF RowKnown
<1>5. CASE ProjectRow
  <2>1. NextRow \in OnChain
    BY <1>1, <1>5, NextRowIsLeast DEF ProjectRow, RowTypes
  <2> QED
    BY <1>3, <1>5, <2>1 DEF ProjectRow, RowKnown, Content
<1>6. CASE ApplyRecoveryChange \/ StageRegistered \/ AdvanceCheckpoint
  BY <1>1, <1>3, <1>6 DEF ApplyRecoveryChange, StageRegistered, AdvanceCheckpoint, RowKnown
<1>7. CASE DeliverTransaction
  <2>1. First(Deliverable) \in OnChain
    BY <1>7, NextDeliveryIsLeast DEF DeliverTransaction, Deliverable
  <2> QED
    BY <1>3, <1>7, <2>1 DEF DeliverTransaction, RowKnown
<1>8. CASE RecordCheckpoint \/ Rescope
  BY <1>1, <1>3, <1>8 DEF RecordCheckpoint, Rescope, RowKnown
<1>9. CASE ConfirmSlot \/ HeadCacheExpires \/ Heartbeat \/ UNCHANGED vars
  BY <1>2, <1>9 DEF ConfirmSlot, HeadCacheExpires, Heartbeat, vars
<1>10. CASE Start \/ Crash \/ DecideStream \/ DecideRecover \/ MarkRecoveryGeneration \/ BeginRecovery
  BY <1>4, <1>10 DEF Start, Crash, DecideStream, DecideRecover, MarkRecoveryGeneration, BeginRecovery
<1>11. CASE StageProgram \/ StagingDone \/ ResolveSlot \/ IndexesResolved \/ FinishRow \/ BatchDone
            \/ CompleteRecovery \/ CleanupRecovery
  BY <1>4, <1>11 DEF StageProgram, StagingDone, ResolveSlot, IndexesResolved, FinishRow, BatchDone,
     CompleteRecovery, CleanupRecovery
<1>12. CASE ApplyRecoveredScope \/ Subscribe \/ RescopeUnneeded \/ DeliverSlot
  BY <1>4, <1>12 DEF ApplyRecoveredScope, Subscribe, RescopeUnneeded, DeliverSlot
<1>13. CASE OpeningFails \/ RecoveryFails \/ SubscribeFails \/ StreamFails \/ StreamEnds
            \/ SubscribeRefused \/ RescopeFails \/ Regenerate
  <2>1. LoopAgain
    BY <1>13 DEF OpeningFails, RecoveryFails, SubscribeFails, StreamFails, StreamEnds,
       SubscribeRefused, RescopeFails, Regenerate
  <2> QED
    BY <1>4, <2>1 DEF LoopAgain
<1> QED
  BY <1>5, <1>6, <1>7, <1>8, <1>9, <1>10, <1>11, <1>12, <1>13
     DEF Next, Listener, Recovering, Streaming, Faults

\* The cached head is only fresh once it has been read.
LEMMA HeadKnownStep == Inv /\ [Next]_vars => HeadKnown'
<1> SUFFICES ASSUME Inv, [Next]_vars PROVE HeadKnown'
  OBVIOUS
<1>1. HeadKnown /\ SlotTypes /\ HeadSlot \in Nat
  BY DEF Inv, TypeOK, HeadSlot
<1>2. CASE UNCHANGED headVars
  BY <1>1, <1>2 DEF HeadKnown
<1>3. CASE HeadCacheExpires \/ Crash
  BY <1>3 DEF HeadCacheExpires, Crash, HeadKnown
<1>4. CASE DecideStream \/ DecideRecover
  <2>1. PICK h : ReadHead(h)
    BY <1>4 DEF DecideStream, DecideRecover
  <2>2. CurrentHeadSlot # NoSlot
    BY <1>1 DEF CurrentHeadSlot, HeadKnown, NoSlot
  <2>3. UNCHANGED headVars \/ headCache' # NoSlot
    BY <2>1, <2>2 DEF ReadHead
  <2> QED
    BY <1>2, <2>3 DEF HeadKnown
<1>5. CASE DeliverSlot
  <2>1. UNCHANGED headVars \/ headCache' = streamSlot
    BY <1>5 DEF DeliverSlot
  <2>2. streamSlot # NoSlot
    BY <1>1 DEF SlotTypes, NoSlot
  <2> QED
    BY <1>2, <2>1, <2>2 DEF HeadKnown
<1>6. CASE ConfirmSlot \/ Start \/ Heartbeat \/ UNCHANGED vars
  BY <1>2, <1>6 DEF ConfirmSlot, Start, Heartbeat, vars
<1>7. CASE MarkRecoveryGeneration \/ BeginRecovery \/ StageProgram \/ StagingDone \/ ResolveSlot
           \/ IndexesResolved \/ ProjectRow \/ ApplyRecoveryChange \/ StageRegistered
  BY <1>2, <1>7 DEF MarkRecoveryGeneration, BeginRecovery, StageProgram, StagingDone, ResolveSlot,
     IndexesResolved, ProjectRow, ApplyRecoveryChange, StageRegistered
<1>8. CASE AdvanceCheckpoint \/ FinishRow \/ BatchDone \/ CompleteRecovery \/ CleanupRecovery
           \/ ApplyRecoveredScope \/ Subscribe \/ SubscribeRefused
  BY <1>2, <1>8 DEF AdvanceCheckpoint, FinishRow, BatchDone, CompleteRecovery, CleanupRecovery,
     ApplyRecoveredScope, Subscribe, SubscribeRefused
<1>9. CASE DeliverTransaction \/ RecordCheckpoint \/ Rescope \/ RescopeUnneeded \/ Regenerate
  BY <1>2, <1>9 DEF DeliverTransaction, RecordCheckpoint, Rescope, RescopeUnneeded, Regenerate
<1>10. CASE OpeningFails \/ RecoveryFails \/ SubscribeFails \/ RescopeFails \/ StreamFails \/ StreamEnds
  BY <1>2, <1>10 DEF OpeningFails, RecoveryFails, SubscribeFails, RescopeFails, StreamFails, StreamEnds
<1> QED
  BY <1>3, <1>4, <1>5, <1>6, <1>7, <1>8, <1>9, <1>10 DEF Next, Listener, Recovering, Streaming, Faults

\* A window is opened and closed as a pair.
LEMMA WindowKnownStep == Inv /\ [Next]_vars => WindowKnown'
<1> SUFFICES ASSUME Inv, [Next]_vars PROVE WindowKnown'
  OBVIOUS
<1>1. WindowKnown /\ SlotTypes /\ HeadKnown /\ HeadSlot \in Nat
  BY DEF Inv, TypeOK, HeadSlot
<1>2. CASE UNCHANGED <<windowVars, targetSlot, pc>>
  BY <1>1, <1>2 DEF WindowKnown
<1>3. CASE UNCHANGED windowVars /\ pc' \in {"down", "decide", "scope", "subscribe", "stream", "record", "rescope", "regenerate"}
  BY <1>1, <1>3 DEF WindowKnown
<1>4. CASE DecideRecover
  <2>1. PICK h : ReadHead(h) /\ targetSlot' = h
    BY <1>4 DEF DecideRecover
  <2>2. targetSlot' # NoSlot
    BY <1>1, <2>1 DEF ReadHead, CurrentHeadSlot, HeadKnown, NoSlot
  <2> QED
    BY <1>1, <1>4, <2>2 DEF DecideRecover, WindowKnown
<1>5. CASE MarkRecoveryGeneration \/ StagingDone \/ IndexesResolved \/ ProjectRow \/ ApplyRecoveryChange
  BY <1>1, <1>5 DEF MarkRecoveryGeneration, StagingDone, IndexesResolved, ProjectRow,
     ApplyRecoveryChange, WindowKnown
<1>6. CASE StageRegistered \/ AdvanceCheckpoint \/ FinishRow \/ BatchDone
  BY <1>1, <1>6 DEF StageRegistered, AdvanceCheckpoint, FinishRow, BatchDone, WindowKnown
<1>7. CASE BeginRecovery
  BY <1>1, <1>7 DEF BeginRecovery, WindowKnown, SlotTypes, NoSlot
<1>8. CASE CompleteRecovery
  BY <1>1, <1>8 DEF CompleteRecovery, WindowKnown
<1>9. CASE ConfirmSlot \/ HeadCacheExpires \/ Heartbeat \/ StageProgram \/ ResolveSlot \/ UNCHANGED vars
  BY <1>2, <1>9 DEF ConfirmSlot, HeadCacheExpires, Heartbeat, StageProgram, ResolveSlot, vars
<1>10. CASE Start \/ Crash \/ DecideStream \/ CleanupRecovery \/ ApplyRecoveredScope \/ Subscribe
  BY <1>3, <1>10 DEF Start, Crash, DecideStream, CleanupRecovery, ApplyRecoveredScope, Subscribe
<1>11. CASE DeliverTransaction \/ RecordCheckpoint \/ Rescope \/ RescopeUnneeded \/ DeliverSlot
  BY <1>3, <1>11 DEF DeliverTransaction, RecordCheckpoint, Rescope, RescopeUnneeded, DeliverSlot
<1>12. CASE OpeningFails \/ RecoveryFails \/ SubscribeFails \/ StreamFails \/ StreamEnds
            \/ SubscribeRefused \/ RescopeFails \/ Regenerate
  <2>1. LoopAgain /\ UNCHANGED windowVars
    BY <1>12 DEF OpeningFails, RecoveryFails, SubscribeFails, StreamFails, StreamEnds,
       SubscribeRefused, RescopeFails, Regenerate
  <2> QED
    BY <1>3, <2>1 DEF LoopAgain
<1> QED
  BY <1>4, <1>5, <1>6, <1>7, <1>8, <1>9, <1>10, <1>11, <1>12
     DEF Next, Listener, Recovering, Streaming, Faults

(***************************************************************************)
(* Every variable keeps its type; with it, the chain, the row at hand, the *)
(* cached head and the recovery window are what the handlers take them for.*)
(***************************************************************************)
THEOREM Invariance == Spec => []Inv
<1>1. Init => Inv
  BY InitInv
<1>2. Inv /\ [Next]_vars => Inv'
  <2> SUFFICES ASSUME Inv, [Next]_vars PROVE Inv'
    OBVIOUS
  <2>1. TypeOK'
    BY ChainOnlyGrows, SlotTypesStep, StatusTypesStep, ScopeTypesStep, RowTypesStep DEF TypeOK
  <2> QED
    BY <2>1, ChainStep, RowKnownStep, HeadKnownStep, WindowKnownStep DEF Inv
<1> QED
  BY <1>1, <1>2, PTL DEF Spec

(***************************************************************************)
(* TypeOK holds for every chain, program set, window and page size.        *)
(***************************************************************************)
THEOREM TypeCorrect == Spec => []TypeOK
BY Invariance, PTL DEF Inv

-----------------------------------------------------------------------------
(***************************************************************************)
(* 'live' is never stored, nor left standing, without its conditions: each *)
(* statement that takes one of them away also takes the phase away.        *)
(***************************************************************************)
LEMMA LiveIsReadyStep == Inv /\ LiveIsReady /\ [Next]_vars => LiveIsReady'
<1> SUFFICES ASSUME Inv, LiveIsReady, [Next]_vars, phase' = "live" PROVE Ready'
  BY DEF LiveIsReady
<1>1. SlotTypes /\ (phase = "live" => Ready)
  BY DEF Inv, TypeOK, LiveIsReady
<1>2. CASE UNCHANGED <<statusVars, coverage, recTarget>>
  BY <1>1, <1>2 DEF Ready
<1>3. CASE phase' # "live"
  BY <1>3
<1>4. CASE DeliverSlot
  <2>1. CASE UNCHANGED statusVars
    BY <1>2, <1>4, <2>1 DEF DeliverSlot
  <2>2. CASE MarkStreamCaughtUp
    BY <1>1, <1>4, <2>2 DEF DeliverSlot, MarkStreamCaughtUp, Ready
  <2> QED
    BY <1>4, <2>1, <2>2 DEF DeliverSlot
<1>5. CASE MarkRecoveryGeneration \/ ApplyRecoveredScope
  <2>1. coverage' = coverage \/ coverage' = Smaller(coverage, Larger(fromSlot - 1, 0))
    BY <1>5 DEF MarkRecoveryGeneration, ApplyRecoveredScope, MarkFilterGeneration
  <2>2. coverage # NoSlot => coverage' # NoSlot
    BY <1>1, <2>1 DEF Larger, Smaller, SlotTypes, NoSlot
  <2> QED
    BY <1>1, <1>5, <2>2 DEF MarkRecoveryGeneration, ApplyRecoveredScope, Ready
<1>6. CASE Subscribe
  BY <1>1, <1>6 DEF Subscribe, MarkStreamConnected, Ready
<1>7. CASE Start \/ BeginRecovery \/ CompleteRecovery \/ RecoveryFails
  BY <1>3, <1>7 DEF Start, BeginRecovery, CompleteRecovery, RecoveryFails
<1>8. CASE SubscribeRefused \/ SubscribeFails \/ RescopeFails \/ StreamFails
  BY <1>3, <1>8 DEF SubscribeRefused, SubscribeFails, RescopeFails, StreamFails, MarkError
<1>9. CASE StreamEnds \/ Regenerate
  BY <1>3, <1>9 DEF StreamEnds, Regenerate, MarkStreamDisconnected
<1>10. CASE ConfirmSlot \/ HeadCacheExpires \/ Crash \/ Heartbeat \/ OpeningFails \/ UNCHANGED vars
  BY <1>2, <1>10 DEF ConfirmSlot, HeadCacheExpires, Crash, Heartbeat, OpeningFails, vars
<1>11. CASE DecideStream \/ DecideRecover \/ StageProgram \/ StagingDone \/ ResolveSlot \/ IndexesResolved
  BY <1>2, <1>11 DEF DecideStream, DecideRecover, StageProgram, StagingDone, ResolveSlot, IndexesResolved
<1>12. CASE ProjectRow \/ ApplyRecoveryChange \/ StageRegistered \/ AdvanceCheckpoint
            \/ FinishRow \/ BatchDone \/ CleanupRecovery
  BY <1>2, <1>12 DEF ProjectRow, ApplyRecoveryChange, StageRegistered, AdvanceCheckpoint,
     FinishRow, BatchDone, CleanupRecovery
<1>13. CASE DeliverTransaction \/ RecordCheckpoint \/ Rescope \/ RescopeUnneeded
  BY <1>2, <1>13 DEF DeliverTransaction, RecordCheckpoint, Rescope, RescopeUnneeded
<1> QED
  BY <1>4, <1>5, <1>6, <1>7, <1>8, <1>9, <1>10, <1>11, <1>12, <1>13
     DEF Next, Listener, Recovering, Streaming, Faults

\* The readiness probe never reads a 'live' some statement should not have written.
THEOREM LiveIsAlwaysReady == Spec => []LiveIsReady
<1>1. Init => LiveIsReady
  BY DEF Init, LiveIsReady
<1> QED
  BY <1>1, LiveIsReadyStep, Invariance, PTL DEF Spec

(***************************************************************************)
(* No action takes a durable cursor back, except that a new filter         *)
(* generation lowers the coverage; no event leaves the read model.         *)
(***************************************************************************)
LEMMA CursorsAdvanceStep ==
    ASSUME Inv, [Next]_vars
    PROVE  /\ checkpoint' >= checkpoint
           /\ projected \subseteq projected'
           /\ coverage' < coverage => generation' # generation
<1>1. SlotTypes /\ RowTypes /\ OnChain \subseteq Nat \X Nat
  BY ChainPositions DEF Inv, TypeOK
<1>2. /\ checkpoint \in Int /\ coverage \in Int
      /\ checkpoint >= checkpoint /\ ~(coverage < coverage)
      /\ Slot(row) \in Nat
  BY <1>1 DEF SlotTypes, RowTypes, Slot, NoTx, NoSlot
<1>3. CASE UNCHANGED <<checkpoint, coverage, projected>>
  BY <1>2, <1>3
<1>4. CASE MarkRecoveryGeneration
  BY <1>1, <1>2, <1>4 DEF MarkRecoveryGeneration, MarkFilterGeneration
<1>5. CASE ApplyRecoveredScope \/ Regenerate
  BY <1>1, <1>2, <1>5 DEF ApplyRecoveredScope, Regenerate, MarkFilterGeneration
<1>6. CASE ProjectRow \/ DeliverTransaction
  BY <1>2, <1>6 DEF ProjectRow, DeliverTransaction
<1>7. CASE AdvanceCheckpoint \/ RecordCheckpoint
  <2>1. UpdateCheckpoint(Slot(row)) /\ UNCHANGED <<coverage, projected>>
    BY <1>7 DEF AdvanceCheckpoint, RecordCheckpoint
  <2> QED
    BY <1>2, <2>1 DEF UpdateCheckpoint, Larger
<1>8. CASE CompleteRecovery
  BY <1>1, <1>2, <1>8 DEF CompleteRecovery, Larger, SlotTypes, NoSlot
<1>9. CASE ConfirmSlot \/ HeadCacheExpires \/ Crash \/ Start \/ Heartbeat \/ UNCHANGED vars
  BY <1>3, <1>9 DEF ConfirmSlot, HeadCacheExpires, Crash, Start, Heartbeat, vars
<1>10. CASE DecideStream \/ DecideRecover \/ BeginRecovery \/ StageProgram \/ StagingDone
            \/ ResolveSlot \/ IndexesResolved
  BY <1>3, <1>10 DEF DecideStream, DecideRecover, BeginRecovery, StageProgram, StagingDone,
     ResolveSlot, IndexesResolved
<1>11. CASE ApplyRecoveryChange \/ StageRegistered \/ FinishRow \/ BatchDone \/ CleanupRecovery
  BY <1>3, <1>11 DEF ApplyRecoveryChange, StageRegistered, FinishRow, BatchDone, CleanupRecovery
<1>12. CASE Subscribe \/ SubscribeRefused \/ Rescope \/ RescopeUnneeded \/ DeliverSlot
  BY <1>3, <1>12 DEF Subscribe, SubscribeRefused, Rescope, RescopeUnneeded, DeliverSlot
<1>13. CASE OpeningFails \/ RecoveryFails \/ SubscribeFails \/ RescopeFails \/ StreamFails \/ StreamEnds
  BY <1>3, <1>13 DEF OpeningFails, RecoveryFails, SubscribeFails, RescopeFails, StreamFails, StreamEnds
<1> QED
  BY <1>4, <1>5, <1>6, <1>7, <1>8, <1>9, <1>10, <1>11, <1>12, <1>13
     DEF Next, Listener, Recovering, Streaming, Faults

\* The checkpoint, the coverage under one generation and the read model only grow.
THEOREM CursorsAlwaysAdvance == Spec => CursorsAdvance
<1>1. Inv /\ [Next]_vars => [NeverBack]_vars
  BY CursorsAdvanceStep DEF NeverBack
<1> QED
  BY <1>1, Invariance, PTL DEF Spec, CursorsAdvance

-----------------------------------------------------------------------------
\* The recovery has projected the row it is about to mark done, if it had to.
RowProjected == pc \in {"change", "late", "advance", "finish"} /\ Projectable(row, BasePrograms)
                    => row \in projected

\* The strengthening DoneIsProjected needs: FinishRow can only rely on the row itself.
DoneInv == RowProjected /\ DoneIsProjected

\* What was done stays projected, and the row at hand is projected before it is done.
LEMMA DoneStep == Inv /\ DoneInv /\ [Next]_vars => DoneInv'
<1> SUFFICES ASSUME Inv, DoneInv, [Next]_vars PROVE DoneInv'
  OBVIOUS
<1>1. RowTypes /\ RowKnown /\ RowProjected /\ DoneIsProjected /\ projected \subseteq projected'
  BY CursorsAdvanceStep DEF Inv, TypeOK, DoneInv
<1>2. \A t \in OnChain : Projectable(t, BasePrograms)' <=> Projectable(t, BasePrograms)
  BY ChainOnlyGrows DEF Projectable
<1>3. CASE UNCHANGED <<pc, row>> /\ finished' \subseteq finished
  BY <1>1, <1>2, <1>3 DEF RowProjected, DoneIsProjected, DoneInv, RowTypes, RowKnown
<1>4. CASE pc' \notin {"change", "late", "advance", "finish"} /\ finished' \subseteq finished
  BY <1>1, <1>2, <1>4 DEF RowProjected, DoneIsProjected, DoneInv, RowTypes
<1>5. CASE ProjectRow
  <2>1. NextRow \in OnChain
    BY <1>1, <1>5, NextRowIsLeast DEF ProjectRow, RowTypes
  <2>2. Projectable(NextRow, BasePrograms) => Projectable(NextRow, RecoveryScope)
    BY DEF Projectable, RecoveryScope
  <2>3. row' = NextRow /\ (Projectable(NextRow, BasePrograms) => NextRow \in projected') /\ UNCHANGED finished
    BY <1>5, <2>2 DEF ProjectRow
  <2> QED
    BY <1>1, <1>2, <2>1, <2>3 DEF RowProjected, DoneIsProjected, DoneInv, RowTypes
<1>6. CASE ApplyRecoveryChange \/ StageRegistered \/ AdvanceCheckpoint
  <2>1. pc \in {"change", "late", "advance"} /\ UNCHANGED <<row, finished>>
    BY <1>6 DEF ApplyRecoveryChange, StageRegistered, StagePage, AdvanceCheckpoint
  <2> QED
    BY <1>1, <1>2, <2>1 DEF RowProjected, DoneIsProjected, DoneInv, RowTypes, RowKnown
<1>7. CASE FinishRow
  <2>1. finished' = finished \cup {row} /\ row \in OnChain /\ pc' = "project"
        /\ (Projectable(row, BasePrograms) => row \in projected)
    BY <1>1, <1>7 DEF FinishRow, RowKnown, RowProjected
  <2> QED
    BY <1>1, <1>2, <2>1 DEF RowProjected, DoneIsProjected, DoneInv, RowTypes
<1>8. CASE ConfirmSlot \/ HeadCacheExpires \/ Heartbeat \/ UNCHANGED vars
  BY <1>3, <1>8 DEF ConfirmSlot, HeadCacheExpires, Heartbeat, vars
<1>9. CASE Start \/ Crash \/ DecideStream \/ DecideRecover \/ MarkRecoveryGeneration \/ BeginRecovery
  BY <1>4, <1>9 DEF Start, Crash, DecideStream, DecideRecover, MarkRecoveryGeneration, BeginRecovery
<1>10. CASE StageProgram \/ StagingDone \/ ResolveSlot \/ IndexesResolved \/ BatchDone
  BY <1>4, <1>10 DEF StageProgram, StagePage, StagingDone, ResolveSlot, IndexesResolved, BatchDone
<1>11. CASE CompleteRecovery \/ CleanupRecovery \/ ApplyRecoveredScope \/ Subscribe
  BY <1>4, <1>11 DEF CompleteRecovery, CleanupRecovery, ApplyRecoveredScope, Subscribe
<1>12. CASE DeliverTransaction \/ RecordCheckpoint \/ Rescope \/ RescopeUnneeded \/ DeliverSlot
  BY <1>4, <1>12 DEF DeliverTransaction, RecordCheckpoint, Rescope, RescopeUnneeded, DeliverSlot
<1>13. CASE OpeningFails \/ RecoveryFails \/ SubscribeFails \/ StreamFails \/ StreamEnds
            \/ SubscribeRefused \/ RescopeFails \/ Regenerate
  <2>1. LoopAgain /\ UNCHANGED finished
    BY <1>13 DEF OpeningFails, RecoveryFails, SubscribeFails, StreamFails, StreamEnds,
       SubscribeRefused, RescopeFails, Regenerate
  <2> QED
    BY <1>4, <2>1 DEF LoopAgain
<1> QED
  BY <1>5, <1>6, <1>7, <1>8, <1>9, <1>10, <1>11, <1>12, <1>13
     DEF Next, Listener, Recovering, Streaming, Faults

(***************************************************************************)
(* A staged transaction of a configured program is marked done only once   *)
(* its events are in the read model, also across failures and restarts.    *)
(***************************************************************************)
THEOREM DoneIsAlwaysProjected == Spec => []DoneIsProjected
<1>1. Init => DoneInv
  BY DEF Init, DoneInv, RowProjected, DoneIsProjected
<1>2. Spec => []DoneInv
  BY <1>1, DoneStep, Invariance, PTL DEF Spec
<1> QED
  BY <1>2, PTL DEF DoneInv

-----------------------------------------------------------------------------
\* The places where the window is decided but not yet written, where it is worked on, and
\* where a row of it is at hand.
Opening == {"mark", "begin"}
Working == {"stage", "resolve", "project", "change", "late", "advance", "finish", "complete"}
WithRow == {"change", "late", "advance", "finish"}

\* from_slot is exclusive, target_slot inclusive.
Within(T, from, target) == \A t \in T : from < Slot(t) /\ Slot(t) <= target

\* The recovery at work is that of the window in the database, and what it has staged
\* or is about to keep lies in it.
WindowInv ==
    /\ pc \in Opening => Within(Rows, fromSlot, targetSlot)
    /\ pc \in Opening /\ recTarget # NoSlot => recFrom = fromSlot /\ recTarget = targetSlot
    /\ pc \in Working => recFrom = fromSlot /\ recTarget = targetSlot
    /\ pc \in WithRow => row \in indexed
    /\ recTarget # NoSlot => Within(Rows, recFrom, recTarget)

\* Staging, projecting, failing and restarting keep it: only DecideRecover meets rows of
\* another window, and deletes them.
LEMMA WindowStep == Inv /\ WindowInv /\ [Next]_vars => WindowInv'
<1> SUFFICES ASSUME Inv, WindowInv, [Next]_vars PROVE WindowInv'
  OBVIOUS
<1> USE DEF Opening, Working, WithRow
<1>1. WindowInv /\ WindowKnown /\ RowTypes /\ SlotTypes
  BY DEF Inv, TypeOK
<1>2. CASE UNCHANGED <<pc, windowVars, rangeVars, unindexed, indexed, finished, row>>
  BY <1>1, <1>2 DEF WindowInv, Within, Rows, Slot
<1>3. CASE Rows' \subseteq Rows /\ UNCHANGED windowVars
           /\ pc' \notin Opening \cup Working \cup WithRow
  BY <1>1, <1>3 DEF WindowInv, Within, Slot
<1>4. CASE DecideRecover
  <2>1. PICK h : ReadHead(h) /\ fromSlot' = RecoveryFromSlot(h) /\ targetSlot' = h
    BY <1>4 DEF DecideRecover
  <2>2. CASE recTarget # NoSlot
    <3>1. fromSlot' = recFrom /\ targetSlot' = recTarget /\ Rows' \subseteq Rows
      BY <1>4, <2>1, <2>2 DEF DecideRecover, ReadHead, RecoveryFromSlot, Rows
    <3> QED
      BY <1>1, <1>4, <2>2, <3>1 DEF DecideRecover, WindowInv, Within, Slot
  <2>3. CASE recTarget = NoSlot
    <3>1. Rows' = {} /\ UNCHANGED windowVars /\ pc' = "mark"
      BY <1>4, <2>3 DEF DecideRecover, RowsAreStale, Rows
    <3> QED
      BY <2>3, <3>1 DEF WindowInv, Within
  <2> QED
    BY <2>2, <2>3
<1>5. CASE MarkRecoveryGeneration
  BY <1>1, <1>5 DEF MarkRecoveryGeneration, WindowInv, Within, Rows, Slot
<1>6. CASE BeginRecovery
  <2>1. Rows' = Rows
    BY <1>6 DEF BeginRecovery, Rows
  <2> QED
    BY <1>1, <1>6, <2>1 DEF BeginRecovery, WindowInv, Within, Slot
<1>7. ASSUME pc \in Working, NEW p, NEW from \in Nat, from >= fromSlot, StagePage(p, from)
      PROVE  Within(Rows', fromSlot, targetSlot) /\ UNCHANGED indexed
  <2>1. Within(Rows, fromSlot, targetSlot)
    BY <1>1, <1>7 DEF WindowInv, WindowKnown
  <2>2. ASSUME NEW t \in Rows' PROVE t \in Rows \/ (from < Slot(t) /\ Slot(t) <= targetSlot /\ t \in OnChain)
    BY <1>7, <2>2, CursorOnChain DEF StagePage, Rows
  <2>3. \A t \in OnChain : Slot(t) \in Nat
    BY ChainPositions DEF Inv, Slot
  <2> QED
    BY <1>1, <1>7, <2>1, <2>2, <2>3 DEF Within, SlotTypes, StagePage
<1>8. CASE StageProgram
  <2>1. PICK p : StagePage(p, fromSlot)
    BY <1>8 DEF StageProgram
  <2>2. Within(Rows', fromSlot, targetSlot)
    BY <1>1, <1>7, <1>8, <2>1 DEF StageProgram, SlotTypes
  <2> QED
    BY <1>1, <1>8, <2>2 DEF StageProgram, WindowInv, Within, Slot
<1>9. CASE StageRegistered
  <2>1. row \in indexed /\ Slot(row) > fromSlot /\ Slot(row) \in Nat
    BY <1>1, <1>9, ChainPositions
       DEF StageRegistered, WindowInv, WindowKnown, Within, Rows, RowTypes, Inv, Slot
  <2>2. RegisteredFromSlot(Slot(row)) \in Nat /\ RegisteredFromSlot(Slot(row)) >= fromSlot
    BY <1>1, <2>1 DEF RegisteredFromSlot, Larger, SlotTypes
  <2>3. StagePage(Content(row).ext, RegisteredFromSlot(Slot(row))) /\ pc \in Working
    BY <1>9 DEF StageRegistered
  <2>4. Within(Rows', fromSlot, targetSlot) /\ UNCHANGED indexed
    BY <1>7, <2>2, <2>3
  <2> QED
    BY <1>1, <1>9, <2>1, <2>4 DEF StageRegistered, WindowInv, Within, Slot
<1>10. CASE ResolveSlot
  <2>1. Rows' \subseteq Rows
    BY <1>10 DEF ResolveSlot, Rows
  <2> QED
    BY <1>1, <1>10, <2>1 DEF ResolveSlot, WindowInv, Within, Slot
<1>11. CASE ProjectRow
  <2>1. NextRow \in indexed /\ Rows' = Rows
    BY <1>11, NextRowIsLeast DEF ProjectRow, Rows
  <2> QED
    BY <1>1, <1>11, <2>1 DEF ProjectRow, WindowInv, Within, Slot
<1>12. CASE StagingDone \/ IndexesResolved \/ BatchDone
  BY <1>1, <1>12 DEF StagingDone, IndexesResolved, BatchDone, WindowInv, Within, Rows, Slot
<1>13. CASE ApplyRecoveryChange \/ AdvanceCheckpoint
  BY <1>1, <1>13 DEF ApplyRecoveryChange, AdvanceCheckpoint, WindowInv, Within, Rows, Slot
<1>14. CASE FinishRow
  <2>1. Rows' \subseteq Rows
    BY <1>1, <1>14 DEF FinishRow, Rows, WindowInv
  <2> QED
    BY <1>1, <1>14, <2>1 DEF FinishRow, WindowInv, Within, Slot
<1>15. CASE CompleteRecovery
  BY <1>15 DEF CompleteRecovery, WindowInv
<1>16. CASE ConfirmSlot \/ HeadCacheExpires \/ Heartbeat \/ UNCHANGED vars
  BY <1>2, <1>16 DEF ConfirmSlot, HeadCacheExpires, Heartbeat, vars
<1>17. CASE Start \/ Crash \/ DecideStream \/ CleanupRecovery \/ ApplyRecoveredScope \/ Subscribe
  BY <1>3, <1>17 DEF Start, Crash, DecideStream, CleanupRecovery, ApplyRecoveredScope, Subscribe, Rows
<1>18. CASE DeliverTransaction \/ RecordCheckpoint \/ Rescope \/ RescopeUnneeded \/ DeliverSlot
  BY <1>3, <1>18 DEF DeliverTransaction, RecordCheckpoint, Rescope, RescopeUnneeded, DeliverSlot, Rows
<1>19. CASE OpeningFails \/ RecoveryFails \/ SubscribeFails \/ StreamFails \/ StreamEnds
            \/ SubscribeRefused \/ RescopeFails \/ Regenerate
  <2>1. LoopAgain /\ UNCHANGED <<windowVars, rowVars>>
    BY <1>19 DEF OpeningFails, RecoveryFails, SubscribeFails, StreamFails, StreamEnds,
       SubscribeRefused, RescopeFails, Regenerate
  <2> QED
    BY <1>3, <2>1 DEF LoopAgain, Rows
<1> QED
  BY <1>4, <1>5, <1>6, <1>8, <1>9, <1>10, <1>11, <1>12, <1>13, <1>14, <1>15, <1>16, <1>17,
     <1>18, <1>19 DEF Next, Listener, Recovering, Streaming, Faults

(***************************************************************************)
(* The staging table never mixes two windows: whatever crashed or failed,  *)
(* the rows of an open window lie in it.                                   *)
(***************************************************************************)
THEOREM RowsAlwaysBelongToWindow == Spec => []RowsBelongToWindow
<1>1. Init => WindowInv
  BY DEF Init, WindowInv, Opening, Working, WithRow
<1>2. Spec => []WindowInv
  BY <1>1, WindowStep, Invariance, PTL DEF Spec
<1>3. WindowInv => RowsBelongToWindow
  BY DEF WindowInv, RowsBelongToWindow, Within
<1> QED
  BY <1>2, <1>3, PTL

(***************************************************************************)
(* Whatever crashed or failed, the recovery window is sound: the three     *)
(* invariants about it together.                                           *)
(***************************************************************************)
THEOREM WindowAlwaysSound == Spec => []WindowIsSound
<1>1. RowsBelongToWindow /\ DoneIsProjected /\ LiveIsReady => WindowIsSound
  BY DEF WindowIsSound
<1> QED
  BY <1>1, RowsAlwaysBelongToWindow, DoneIsAlwaysProjected, LiveIsAlwaysReady, PTL

-----------------------------------------------------------------------------
(***************************************************************************)
(* Nothing is skipped.  NothingSkipped says nothing of the process, so it  *)
(* is far from being inductive.  IngestInv says where a transaction that   *)
(* is still owed can be, at every place of the listener's loop: ahead of   *)
(* the cursors, ahead of the stream, or in an open window, where it is     *)
(* staged or still to be paged.  Both NothingSkipped and the refinement of *)
(* OrderedIngest follow.                                                   *)
(***************************************************************************)

(* The signature pages. *)

\* A chain of finitely many blocks has finitely many transactions.
LEMMA ChainFinite == TypeOK => IsFiniteSet(OnChain)
<1> SUFFICES ASSUME TypeOK PROVE IsFiniteSet(OnChain)
  OBVIOUS
<1> DEFINE Block(s) == {<<s, i>> : i \in DOMAIN blocks[s]}
           all == {Block(s) : s \in DOMAIN blocks}
<1>1. blocks \in Seq(Seq(Transaction)) /\ DOMAIN blocks = 1 .. Len(blocks) /\ Len(blocks) \in Nat
  BY DEF TypeOK
<1>2. ASSUME NEW s \in DOMAIN blocks PROVE IsFiniteSet(Block(s))
  <2>1. blocks[s] \in Seq(Transaction)
    BY <1>1
  <2>2. DOMAIN blocks[s] = 1 .. Len(blocks[s]) /\ Len(blocks[s]) \in Nat
    BY <2>1
  <2>3. IsFiniteSet(DOMAIN blocks[s])
    BY <2>2, FS_Interval
  <2> DEFINE f == [i \in DOMAIN blocks[s] |-> <<s, i>>]
  <2>4. f \in Surjection(DOMAIN blocks[s], Block(s))
    BY DEF Surjection
  <2> QED
    BY <2>3, <2>4, FS_Surjection
<1>3. IsFiniteSet(all)
  <2>1. IsFiniteSet(DOMAIN blocks)
    BY <1>1, FS_Interval
  <2> DEFINE f == [s \in DOMAIN blocks |-> Block(s)]
  <2>2. f \in Surjection(DOMAIN blocks, all)
    BY DEF Surjection
  <2> QED
    BY <2>1, <2>2, FS_Surjection
<1>4. \A T \in all : IsFiniteSet(T)
  BY <1>2
<1>5. IsFiniteSet(UNION all)
  <2> HIDE DEF all
  <2> QED
    BY <1>3, <1>4, FS_UNION
<1> QED
  BY <1>5 DEF OnChain

\* The order of the chain is total on positions.
LEMMA BeforeIsTotal ==
    /\ \A t \in Nat \X Nat : ~Before(t, t)
    /\ \A t, u \in Nat \X Nat : t # u => Before(t, u) \/ Before(u, t)
    /\ \A t, u \in Nat \X Nat : Before(t, u) => ~Before(u, t)
    /\ \A t, u, v \in Nat \X Nat : Before(t, u) /\ Before(u, v) => Before(t, v)
    /\ \A t, u \in Nat \X Nat : Before(t, u) => Slot(t) <= Slot(u)
BY DEF Before, Slot

\* The transactions a page is taken from.
Older(p) == {t \in Mentions(p) : cursor[p] = NoTx \/ Before(t, cursor[p])}
After(p, t) == {u \in Older(p) : Before(t, u)}

LEMMA OlderTypes ==
    ASSUME Inv, NEW p
    PROVE  /\ Older(p) \subseteq OnChain /\ OnChain \subseteq Nat \X Nat
           /\ IsFiniteSet(Older(p))
           /\ \A t : IsFiniteSet(After(p, t)) /\ Cardinality(After(p, t)) \in Nat
           /\ Page(p) = {t \in Older(p) : Cardinality(After(p, t)) < PageSize}
           /\ IsFiniteSet(Page(p)) /\ Cardinality(Page(p)) \in Nat
<1>1. Older(p) \subseteq OnChain /\ OnChain \subseteq Nat \X Nat
  BY ChainPositions DEF Older, Mentions, Inv
<1>2. IsFiniteSet(Older(p))
  BY <1>1, ChainFinite, FS_Subset DEF Inv
<1>3. ASSUME NEW t PROVE IsFiniteSet(After(p, t)) /\ Cardinality(After(p, t)) \in Nat
  BY <1>2, FS_Subset, FS_CardinalityType DEF After
<1>4. Page(p) = {t \in Older(p) : Cardinality(After(p, t)) < PageSize}
  BY DEF Page, Older, After
<1>5. IsFiniteSet(Page(p)) /\ Cardinality(Page(p)) \in Nat
  BY <1>2, <1>4, FS_Subset, FS_CardinalityType
<1> QED
  BY <1>1, <1>2, <1>3, <1>4, <1>5

\* A page leaves no gap: what is newer than one of its transactions is in it.
LEMMA PageIsNewest ==
    ASSUME Inv, NEW p, NEW t \in Page(p), NEW u \in Older(p), Before(t, u)
    PROVE  u \in Page(p)
<1>1. t \in Nat \X Nat /\ u \in Nat \X Nat
  BY OlderTypes
<1>2. After(p, u) \subseteq After(p, t)
  <2> SUFFICES ASSUME NEW v \in After(p, u) PROVE v \in After(p, t)
    OBVIOUS
  <2>1. v \in Older(p) /\ Before(u, v) /\ v \in Nat \X Nat
    BY OlderTypes DEF After
  <2> QED
    BY <1>1, <2>1, BeforeIsTotal DEF After
<1>3. Cardinality(After(p, u)) <= Cardinality(After(p, t))
  BY <1>2, OlderTypes, FS_Subset
<1>4. Cardinality(After(p, t)) < PageSize
  BY OlderTypes
<1>5. Cardinality(After(p, u)) \in Nat /\ Cardinality(After(p, t)) \in Nat /\ PageSize \in Nat
  BY OlderTypes, ConstantsAssumption
<1> QED
  BY <1>3, <1>4, <1>5, OlderTypes

\* A page that is not full is the last one.
LEMMA ShortPageIsLast ==
    ASSUME Inv, NEW p, Cardinality(Page(p)) < PageSize
    PROVE  Page(p) = Older(p)
<1> DEFINE rest == Older(p) \ Page(p)
           sizes == {Cardinality(After(p, t)) : t \in rest}
<1>1. /\ \A t : Cardinality(After(p, t)) \in Nat /\ IsFiniteSet(After(p, t))
      /\ Page(p) \subseteq Older(p) /\ Older(p) \subseteq Nat \X Nat
      /\ Cardinality(Page(p)) \in Nat /\ IsFiniteSet(Page(p)) /\ PageSize \in Nat
  BY OlderTypes, ConstantsAssumption
<1>2. SUFFICES ASSUME rest # {} PROVE FALSE
  BY <1>1
<1>3. PICK n \in sizes : \A m \in sizes : ~(m < n)
  <2>1. sizes \subseteq Nat /\ sizes # {}
    BY <1>1, <1>2
  <2>2. \E n \in sizes : \A m \in sizes : <<m, n>> \notin OpToRel(<, Nat)
    BY <2>1, NatLessThanWellFounded, WFMin
  <2> QED
    BY <2>1, <2>2 DEF OpToRel
<1>4. PICK t \in rest : Cardinality(After(p, t)) = n
  BY <1>3
<1>5. After(p, t) \subseteq Page(p)
  <2> SUFFICES ASSUME NEW u \in After(p, t), u \notin Page(p) PROVE FALSE
    OBVIOUS
  <2>1. u \in rest /\ Before(t, u) /\ t \in Nat \X Nat /\ u \in Nat \X Nat
    BY <1>1 DEF After
  <2>2. After(p, u) \subseteq After(p, t)
    <3> SUFFICES ASSUME NEW v \in After(p, u) PROVE v \in After(p, t)
      OBVIOUS
    <3>1. v \in Older(p) /\ Before(u, v) /\ v \in Nat \X Nat
      BY <1>1 DEF After
    <3> QED
      BY <2>1, <3>1, BeforeIsTotal DEF After
  <2>3. u \notin After(p, u)
    BY <2>1, BeforeIsTotal DEF After
  <2>4. /\ Cardinality(After(p, u)) <= Cardinality(After(p, t))
        /\ Cardinality(After(p, u)) # Cardinality(After(p, t))
    BY <1>1, <2>2, <2>3, FS_Subset
  <2>5. Cardinality(After(p, u)) \in sizes
    BY <2>1
  <2> QED
    BY <1>1, <1>3, <1>4, <2>4, <2>5
<1>6. Cardinality(After(p, t)) <= Cardinality(Page(p))
  BY <1>1, <1>5, FS_Subset
<1>7. ~(Cardinality(After(p, t)) < PageSize)
  BY <1>4, OlderTypes
<1> QED
  BY <1>1, <1>6, <1>7

-----------------------------------------------------------------------------
(* The invariant. *)

\* Where the listener is past a recovery.
Streamed == {"cleanup", "scope", "subscribe", "stream", "record", "rescope", "regenerate"}

\* A transaction of a configured program that ingestion answers for and has not read.
Outstanding(t) == Expected(t) /\ t \notin projected

\* Nothing the process or the database knows lies beyond the head.
BehindHead ==
    /\ checkpoint <= HeadSlot /\ coverage <= HeadSlot
    /\ recFrom <= HeadSlot /\ recTarget <= HeadSlot
    /\ headCache <= HeadSlot
    /\ fromSlot <= HeadSlot /\ targetSlot <= HeadSlot
    /\ streamSlot <= HeadSlot + 1

\* Before the first recovery nothing is claimed; from then on there is a coverage or a window.
Begun ==
    /\ baseline = NoSlot <=> coverage = NoSlot /\ recTarget = NoSlot
    /\ baseline = NoSlot => checkpoint = NoSlot
    /\ pc \in Working => recTarget # NoSlot
    /\ pc \in Streamed => recTarget = NoSlot /\ coverage # NoSlot

\* A window reaches at least as far as the cursors do.
CursorsInWindow ==
    /\ recTarget # NoSlot => checkpoint <= recTarget /\ coverage <= recTarget
    /\ pc \in Opening => checkpoint <= targetSlot /\ coverage <= targetSlot

\* What mentions p between from and target is staged: from the cursor of p on while it has
\* one, all of it once p is done with.
InRange(t, from, target) == from < Slot(t) /\ Slot(t) <= target

Staged(p, from, target) ==
    cursor[p] # NoTx =>
        \A t \in Mentions(p) : InRange(t, from, target) /\ ~Before(t, cursor[p]) => t \in Rows

AllStaged(p) ==
    \A t \in Mentions(p) : InRange(t, fromSlot, targetSlot) => t \in Rows

StagingSound ==
    /\ recTarget # NoSlot => \A p \in BasePrograms : Staged(p, recFrom, recTarget)
    /\ pc \in Opening => \A p \in BasePrograms : Staged(p, fromSlot, targetSlot)
    /\ pc \in Working => \A p \in BasePrograms \ todo : AllStaged(p)
    /\ pc \in Working \ {"stage"} => todo = {}

\* Once the indexes are resolved only rows of extensions are still without; in the end no
\* row is left.
QueueOrdered ==
    /\ pc \in WithRow \cup {"project", "complete"} =>
          \A t \in unindexed : Content(t).touch \cap BasePrograms = {}
    /\ pc = "complete" => unindexed = {} /\ indexed = {}

\* The row the stream is at belongs to the slot it is delivering.
RowInStream == pc \in {"record", "rescope", "regenerate"} => Slot(row) = streamSlot

\* What is outstanding is ahead of the cursors, of the range at hand and of the stream.
Ahead(t) ==
    /\ recTarget = NoSlot => Slot(t) >= checkpoint /\ Slot(t) >= coverage
    /\ recTarget # NoSlot => Slot(t) > recFrom
    /\ pc \in Opening \cup {"scope", "subscribe"} => Slot(t) >= fromSlot
    /\ pc = "cleanup" => Slot(t) > targetSlot
    /\ pc = "stream" => Slot(t) >= streamSlot /\ Before(streamTx, t)
    /\ pc \in {"record", "rescope", "regenerate"} => Slot(t) >= streamSlot /\ Before(row, t)

OutstandingAhead == \A t \in OnChain : Outstanding(t) => Ahead(t)

IngestInv == /\ BehindHead /\ Begun /\ CursorsInWindow /\ StagingSound /\ QueueOrdered
             /\ RowInStream /\ OutstandingAhead

\* Everything known when a step begins.
Known == Inv /\ DoneInv /\ WindowInv /\ IngestInv

-----------------------------------------------------------------------------
(* The chain under a step. *)

\* The definitions of the variable tuples, which every step of every action needs.
USE DEF chainVars, cursorVars, windowVars, statusVars, rowVars, scopeVars, headVars,
        rangeVars, streamVars, historyVars, budgetVars

\* No slot is below every slot.
LEMMA NoSlotIsLowest ==
    /\ NoSlot \in Int
    /\ \A n \in Nat : NoSlot < n /\ NoSlot <= n /\ NoSlot # n /\ 0 <= n /\ 0 <= n + 1
BY DEF NoSlot

\* A step that confirms nothing leaves the chain alone; one that does adds the next slot.
LEMMA ChainUnderStep ==
    ASSUME Inv, [Next]_vars
    PROVE  /\ ~ConfirmSlot => /\ OnChain' = OnChain /\ HeadSlot' = HeadSlot
                              /\ \A t : Content(t)' = Content(t)
                              /\ \A p : Mentions(p)' = Mentions(p)
           /\ ConfirmSlot => /\ HeadSlot' = HeadSlot + 1
                             /\ \A t \in OnChain' \ OnChain : Slot(t) = HeadSlot + 1
           /\ HeadSlot \in Nat
           /\ \A t \in OnChain : Slot(t) \in Nat \ {0} /\ Slot(t) <= HeadSlot
<1>1. HeadSlot \in Nat /\ blocks \in Seq(Seq(Transaction)) /\ DOMAIN blocks = 1 .. HeadSlot
  BY DEF HeadSlot, Inv, TypeOK
<1>2. \A t \in OnChain : Slot(t) \in Nat \ {0} /\ Slot(t) <= HeadSlot
  BY <1>1 DEF OnChain, Slot
<1>3. ASSUME ~ConfirmSlot
      PROVE  /\ OnChain' = OnChain /\ HeadSlot' = HeadSlot
             /\ \A t : Content(t)' = Content(t)
             /\ \A p : Mentions(p)' = Mentions(p)
  <2>1. blocks' = blocks
    BY <1>3, ChainGrowsOnlyByConfirmation
  <2>2. OnChain' = OnChain /\ HeadSlot' = HeadSlot /\ \A t : Content(t)' = Content(t)
    BY <2>1 DEF OnChain, HeadSlot, Content
  <2> QED
    BY <2>2 DEF Mentions
<1>4. ASSUME ConfirmSlot
      PROVE  HeadSlot' = HeadSlot + 1 /\ \A t \in OnChain' \ OnChain : Slot(t) = HeadSlot + 1
  <2>1. PICK b \in BlockChoices[HeadSlot + 1] : blocks' = Append(blocks, b)
    BY <1>4 DEF ConfirmSlot
  <2>2. DOMAIN blocks' = 1 .. HeadSlot + 1 /\ \A s \in 1 .. HeadSlot : blocks'[s] = blocks[s]
    BY <1>1, <2>1 DEF HeadSlot
  <2>3. HeadSlot' = HeadSlot + 1
    BY <1>1, <2>1 DEF HeadSlot
  <2>4. ASSUME NEW t \in OnChain' \ OnChain PROVE Slot(t) = HeadSlot + 1
    <3>1. PICK s \in DOMAIN blocks' : \E i \in DOMAIN blocks'[s] : t = <<s, i>>
      BY DEF OnChain
    <3>2. s \notin 1 .. HeadSlot
      BY <1>1, <2>2, <3>1 DEF OnChain
    <3> QED
      BY <1>1, <2>2, <3>1, <3>2 DEF Slot
  <2> QED
    BY <2>3, <2>4
<1> QED
  BY <1>1, <1>2, <1>3, <1>4

\* The frame of what makes a transaction outstanding.
LEMMA OutstandingUnderStep ==
    ASSUME Inv, [Next]_vars, NEW t \in OnChain, Outstanding(t)'
    PROVE  Outstanding(t) \/ (BeginRecovery /\ baseline = NoSlot)
<1>1. projected \subseteq projected' /\ Content(t)' = Content(t)
  BY CursorsAdvanceStep, ChainOnlyGrows
<1>2. CASE UNCHANGED historyVars
  BY <1>1, <1>2 DEF Outstanding, Expected, Owed, Projectable, Slot
<1>3. CASE BeginRecovery
  BY <1>1, <1>3 DEF BeginRecovery, Outstanding, Expected, Owed, Projectable, Slot
<1>4. CASE ConfirmSlot \/ HeadCacheExpires \/ Start \/ Crash \/ Heartbeat \/ UNCHANGED vars
  BY <1>2, <1>4 DEF ConfirmSlot, HeadCacheExpires, Start, Crash, Heartbeat, vars
<1>5. CASE DecideStream \/ DecideRecover \/ MarkRecoveryGeneration \/ StageProgram \/ StagingDone
  BY <1>2, <1>5 DEF DecideStream, DecideRecover, MarkRecoveryGeneration, StageProgram, StagingDone
<1>6. CASE ResolveSlot \/ IndexesResolved \/ ProjectRow \/ ApplyRecoveryChange \/ StageRegistered
  BY <1>2, <1>6 DEF ResolveSlot, IndexesResolved, ProjectRow, ApplyRecoveryChange, StageRegistered
<1>7. CASE AdvanceCheckpoint \/ FinishRow \/ BatchDone \/ CompleteRecovery \/ CleanupRecovery
  BY <1>2, <1>7 DEF AdvanceCheckpoint, FinishRow, BatchDone, CompleteRecovery, CleanupRecovery
<1>8. CASE Streaming
  BY <1>2, <1>8 DEF Streaming, ApplyRecoveredScope, Subscribe, SubscribeRefused, DeliverTransaction,
     RecordCheckpoint, Rescope, RescopeUnneeded, Regenerate, DeliverSlot
<1>9. CASE Faults
  BY <1>2, <1>4, <1>9 DEF Faults, OpeningFails, RecoveryFails, SubscribeFails, RescopeFails, StreamFails, StreamEnds
<1> QED
  BY <1>3, <1>4, <1>5, <1>6, <1>7, <1>8, <1>9 DEF Next, Listener, Recovering

-----------------------------------------------------------------------------
(* The invariant is preserved, part by part. *)

\* Every slot the listener stores was the head, or the slot of a transaction, when it read it.
LEMMA BehindHeadStep == Known /\ [Next]_vars => BehindHead'
<1> SUFFICES ASSUME Known, [Next]_vars PROVE BehindHead'
  OBVIOUS
<1>1. /\ SlotTypes /\ HeadKnown /\ WindowKnown /\ RowKnown /\ BehindHead /\ HeadSlot \in Nat
      /\ HeadSlot' \in {HeadSlot, HeadSlot + 1} /\ HeadSlot' >= HeadSlot /\ HeadSlot' \in Nat
      /\ ReplayWindow \in Nat
  BY ChainUnderStep, ConstantsAssumption DEF Known, Inv, TypeOK, IngestInv
<1>2. \A t \in OnChain : Slot(t) \in Nat /\ Slot(t) <= HeadSlot
  BY ChainUnderStep DEF Known
<1>0. NoSlot <= HeadSlot' /\ 0 <= HeadSlot' /\ 0 <= HeadSlot' + 1 /\ NoSlot \in Int
  BY <1>1, NoSlotIsLowest
<1>p. HeadSlot' \in Nat /\ HeadSlot \in Nat /\ HeadSlot <= HeadSlot'
  BY <1>1
<1>z. /\ {checkpoint, coverage, recFrom, recTarget, headCache, targetSlot, fromSlot, streamSlot} \subseteq Int
      /\ checkpoint <= HeadSlot' /\ coverage <= HeadSlot' /\ recFrom <= HeadSlot'
      /\ recTarget <= HeadSlot' /\ headCache <= HeadSlot'
  <2>1. {checkpoint, coverage, recFrom, recTarget, headCache, targetSlot, fromSlot, streamSlot} \subseteq Int
    BY <1>1, <1>0 DEF SlotTypes
  <2> QED
    BY <1>1, <2>1 DEF BehindHead
<1>3. CASE UNCHANGED <<cursorVars, windowVars, headCache, rangeVars, streamSlot>>
  BY <1>1, <1>3 DEF BehindHead, SlotTypes, NoSlot
<1>4. CASE LoopAgain /\ UNCHANGED <<cursorVars, windowVars, headCache>>
  BY <1>0, <1>z, <1>4 DEF LoopAgain, BehindHead
<1>5. CASE Crash
  BY <1>0, <1>z, <1>5 DEF Crash, BehindHead
<1>6. CASE DecideStream
  BY <1>1, <1>6 DEF DecideStream, ReadHead, CurrentHeadSlot, DurableResumeSlot, Larger, RecoveryNotRequired,
     NoSlot, BehindHead, SlotTypes
<1>7. CASE DecideRecover
  BY <1>1, <1>7 DEF DecideRecover, ReadHead, CurrentHeadSlot, RecoveryFromSlot, DurableResumeSlot, Larger,
     NoSlot, BehindHead, SlotTypes
<1>8. CASE MarkRecoveryGeneration \/ ApplyRecoveredScope
  <2>1. /\ coverage' = coverage \/ coverage' = Smaller(coverage, Larger(fromSlot - 1, 0))
        /\ UNCHANGED <<checkpoint, windowVars, headCache, rangeVars, streamSlot>>
    BY <1>8 DEF MarkRecoveryGeneration, ApplyRecoveredScope, MarkFilterGeneration
  <2> QED
    BY <1>1, <2>1 DEF Larger, Smaller, NoSlot, BehindHead, SlotTypes
<1>9. CASE Regenerate
  <2>1. Slot(row) \in Nat
    BY <1>1, <1>2, <1>9 DEF Regenerate, RowKnown
  <2>2. /\ coverage' = coverage \/ coverage' = Smaller(coverage, Larger(Slot(row) - 1, 0))
        /\ LoopAgain /\ UNCHANGED <<checkpoint, windowVars, headCache>>
    BY <1>9 DEF Regenerate, MarkFilterGeneration
  <2>3. coverage' <= HeadSlot'
    BY <1>1, <1>z, <2>1, <2>2 DEF Larger, Smaller
  <2> QED
    BY <1>0, <1>z, <2>2, <2>3 DEF LoopAgain, BehindHead
<1>10. CASE BeginRecovery
  BY <1>1, <1>10 DEF BeginRecovery, BehindHead, SlotTypes, NoSlot
<1>11. CASE AdvanceCheckpoint \/ RecordCheckpoint
  <2>1. row \in OnChain
    BY <1>1, <1>11 DEF AdvanceCheckpoint, RecordCheckpoint, RowKnown
  <2>2. /\ checkpoint' = Larger(checkpoint, Slot(row))
        /\ UNCHANGED <<coverage, windowVars, headCache, rangeVars, streamSlot>>
    BY <1>11 DEF AdvanceCheckpoint, RecordCheckpoint, UpdateCheckpoint
  <2> QED
    BY <1>1, <1>2, <2>1, <2>2 DEF Larger, BehindHead, SlotTypes, NoSlot
<1>12. CASE CompleteRecovery
  BY <1>1, <1>12 DEF CompleteRecovery, Larger, BehindHead, SlotTypes, NoSlot
<1>13. CASE CleanupRecovery
  BY <1>1, <1>13 DEF CleanupRecovery, BehindHead, SlotTypes, NoSlot
<1>14. CASE Subscribe
  BY <1>1, <1>14 DEF Subscribe, BehindHead, SlotTypes, NoSlot
<1>15. CASE DeliverSlot
  BY <1>1, <1>15 DEF DeliverSlot, BehindHead, SlotTypes, NoSlot
<1>16. CASE ConfirmSlot \/ HeadCacheExpires \/ Start \/ Heartbeat \/ UNCHANGED vars
  BY <1>3, <1>16 DEF ConfirmSlot, HeadCacheExpires, Start, Heartbeat, vars
<1>17. CASE \/ StageProgram \/ StagingDone \/ ResolveSlot \/ IndexesResolved \/ ProjectRow
            \/ ApplyRecoveryChange \/ StageRegistered \/ FinishRow \/ BatchDone
  BY <1>3, <1>17 DEF StageProgram, StagingDone, ResolveSlot, IndexesResolved, ProjectRow,
     ApplyRecoveryChange, StageRegistered, FinishRow, BatchDone
<1>18. CASE DeliverTransaction \/ Rescope \/ RescopeUnneeded
  BY <1>3, <1>18 DEF DeliverTransaction, Rescope, RescopeUnneeded
<1>19. CASE OpeningFails \/ RecoveryFails \/ SubscribeFails \/ RescopeFails \/ StreamFails
            \/ StreamEnds \/ SubscribeRefused
  BY <1>4, <1>19 DEF OpeningFails, RecoveryFails, SubscribeFails, RescopeFails, StreamFails,
     StreamEnds, SubscribeRefused
<1> QED
  BY <1>5, <1>6, <1>7, <1>8, <1>9, <1>10, <1>11, <1>12, <1>13, <1>14, <1>15, <1>16, <1>17,
     <1>18, <1>19 DEF Next, Listener, Recovering, Streaming, Faults

\* A recovery has an open window, a stream has none and a coverage to start from.
LEMMA BegunStep == Known /\ [Next]_vars => Begun'
<1> SUFFICES ASSUME Known, [Next]_vars PROVE Begun'
  OBVIOUS
<1> USE DEF Opening, Working, WithRow, Streamed
<1>1. /\ SlotTypes /\ WindowKnown /\ Begun
  BY DEF Known, Inv, TypeOK, IngestInv
<1>2. CASE UNCHANGED <<cursorVars, windowVars, baseline, pc>>
  BY <1>1, <1>2 DEF Begun
<1>3. CASE UNCHANGED <<cursorVars, windowVars, baseline>> /\ pc' \notin Working \cup Streamed
  BY <1>1, <1>3 DEF Begun
<1>4. CASE /\ UNCHANGED <<cursorVars, windowVars, baseline>>
           /\ (pc \in Working /\ pc' \in Working) \/ (pc \in Streamed /\ pc' \in Streamed)
  BY <1>1, <1>4 DEF Begun
<1>5. CASE DecideStream
  BY <1>1, <1>5 DEF DecideStream, RecoveryNotRequired, Begun
<1>6. CASE MarkRecoveryGeneration \/ ApplyRecoveredScope
  <2>1. coverage' = coverage \/ coverage' = Smaller(coverage, Larger(fromSlot - 1, 0))
    BY <1>6 DEF MarkRecoveryGeneration, ApplyRecoveredScope, MarkFilterGeneration
  <2>2. coverage' = NoSlot <=> coverage = NoSlot
    BY <1>1, <1>6, <2>1 DEF MarkRecoveryGeneration, ApplyRecoveredScope, MarkFilterGeneration,
       Larger, Smaller, SlotTypes, NoSlot
  <2>3. /\ UNCHANGED <<checkpoint, windowVars, baseline>>
        /\ pc' \notin Working /\ (pc' \in Streamed => pc \in Streamed)
    BY <1>6 DEF MarkRecoveryGeneration, ApplyRecoveredScope
  <2> QED
    BY <1>1, <2>2, <2>3 DEF Begun
<1>7. CASE Regenerate
  <2>1. coverage' = coverage \/ coverage' = Smaller(coverage, Larger(Slot(row) - 1, 0))
    BY <1>7 DEF Regenerate, MarkFilterGeneration
  <2>2. coverage' = NoSlot <=> coverage = NoSlot
    <3>1. coverage' # coverage => coverage # NoSlot
      BY <1>7 DEF Regenerate, MarkFilterGeneration
    <3>2. Slot(row) \in Nat
      BY <1>7, ChainUnderStep DEF Regenerate, Known, Inv, RowKnown
    <3> QED
      BY <1>1, <2>1, <3>1, <3>2 DEF Larger, Smaller, SlotTypes, NoSlot
  <2> QED
    BY <1>1, <1>7, <2>2 DEF Regenerate, LoopAgain, Begun
<1>8. CASE BeginRecovery
  <2>1. fromSlot # NoSlot /\ targetSlot # NoSlot
    BY <1>1, <1>8 DEF BeginRecovery, SlotTypes, NoSlot, WindowKnown
  <2> QED
    BY <1>1, <1>8, <2>1 DEF BeginRecovery, Begun
<1>9. CASE AdvanceCheckpoint \/ RecordCheckpoint
  BY <1>1, <1>9 DEF AdvanceCheckpoint, RecordCheckpoint, Begun
<1>10. CASE CompleteRecovery
  BY <1>1, <1>10 DEF CompleteRecovery, Begun, Larger, SlotTypes, NoSlot, WindowKnown
<1>11. CASE ConfirmSlot \/ HeadCacheExpires \/ Heartbeat \/ StageProgram \/ ResolveSlot \/ UNCHANGED vars
  BY <1>2, <1>11 DEF ConfirmSlot, HeadCacheExpires, Heartbeat, StageProgram, ResolveSlot, vars
<1>12. CASE Start \/ Crash \/ DecideRecover
  BY <1>3, <1>12 DEF Start, Crash, DecideRecover
<1>13. CASE StagingDone \/ IndexesResolved \/ ProjectRow \/ ApplyRecoveryChange \/ StageRegistered
            \/ FinishRow \/ BatchDone
  BY <1>4, <1>13 DEF StagingDone, IndexesResolved, ProjectRow, ApplyRecoveryChange, StageRegistered,
     FinishRow, BatchDone
<1>14. CASE CleanupRecovery \/ Subscribe \/ DeliverTransaction \/ Rescope \/ RescopeUnneeded \/ DeliverSlot
  BY <1>4, <1>14 DEF CleanupRecovery, Subscribe, DeliverTransaction, Rescope, RescopeUnneeded, DeliverSlot
<1>15. CASE OpeningFails \/ RecoveryFails \/ SubscribeFails \/ RescopeFails \/ StreamFails
            \/ StreamEnds \/ SubscribeRefused
  <2>1. LoopAgain /\ UNCHANGED <<cursorVars, windowVars, baseline>>
    BY <1>15 DEF OpeningFails, RecoveryFails, SubscribeFails, RescopeFails, StreamFails,
       StreamEnds, SubscribeRefused
  <2> QED
    BY <1>3, <2>1 DEF LoopAgain
<1> QED
  BY <1>5, <1>6, <1>7, <1>8, <1>9, <1>10, <1>11, <1>12, <1>13, <1>14, <1>15
     DEF Next, Listener, Recovering, Streaming, Faults

\* A window is opened beyond the cursors, and only its own rows move the checkpoint in it.
LEMMA CursorsInWindowStep == Known /\ [Next]_vars => CursorsInWindow'
<1> SUFFICES ASSUME Known, [Next]_vars PROVE CursorsInWindow'
  OBVIOUS
<1> USE DEF Opening, Working, WithRow, Streamed
<1>1. /\ SlotTypes /\ WindowKnown /\ Begun /\ CursorsInWindow /\ HeadKnown /\ HeadSlot \in Nat
      /\ ReplayWindow \in Nat
  BY ConstantsAssumption DEF Known, Inv, TypeOK, IngestInv, HeadSlot
<1>2. CASE UNCHANGED <<cursorVars, windowVars, targetSlot, pc>>
  BY <1>1, <1>2 DEF CursorsInWindow
<1>3. CASE UNCHANGED <<cursorVars, windowVars>> /\ pc' \notin Opening
  BY <1>1, <1>3 DEF CursorsInWindow
<1>4. CASE recTarget' = NoSlot /\ pc' \notin Opening
  BY <1>4 DEF CursorsInWindow
<1>5. CASE DecideRecover
  <2>1. PICK h : ReadHead(h) /\ ~RecoveryNotRequired(h) /\ targetSlot' = h
    BY <1>5 DEF DecideRecover
  <2>2. CASE recTarget # NoSlot
    BY <1>1, <1>5, <2>1, <2>2 DEF DecideRecover, ReadHead, CursorsInWindow
  <2>3. CASE recTarget = NoSlot
    <3>1. h \in Nat /\ h = targetSlot'
      BY <1>1, <2>1, <2>3 DEF ReadHead, CurrentHeadSlot, HeadKnown, SlotTypes
    <3>2. checkpoint <= h /\ coverage <= h
      BY <1>1, <2>1, <2>3, <3>1 DEF RecoveryNotRequired, DurableResumeSlot, Larger, Begun, SlotTypes, NoSlot
    <3> QED
      BY <1>5, <2>3, <3>1, <3>2 DEF DecideRecover, CursorsInWindow
  <2> QED
    BY <2>2, <2>3
<1>6. CASE MarkRecoveryGeneration
  <2>1. coverage' = coverage \/ coverage' = Smaller(coverage, Larger(fromSlot - 1, 0))
    BY <1>6 DEF MarkRecoveryGeneration, MarkFilterGeneration
  <2>2. coverage' <= coverage /\ coverage' \in Int
    BY <1>1, <2>1 DEF Larger, Smaller, SlotTypes, NoSlot
  <2> QED
    BY <1>1, <1>6, <2>2 DEF MarkRecoveryGeneration, CursorsInWindow, SlotTypes, NoSlot
<1>7. CASE BeginRecovery
  BY <1>1, <1>7 DEF BeginRecovery, CursorsInWindow
<1>8. CASE AdvanceCheckpoint
  <2>1. row \in indexed /\ Within(Rows, recFrom, recTarget) /\ recTarget # NoSlot
    BY <1>1, <1>8 DEF AdvanceCheckpoint, Known, WindowInv, Begun
  <2>2. Slot(row) <= recTarget
    BY <2>1 DEF Within, Rows
  <2> QED
    BY <1>1, <1>8, <2>1, <2>2 DEF AdvanceCheckpoint, UpdateCheckpoint, Larger, CursorsInWindow
<1>9. CASE RecordCheckpoint \/ ApplyRecoveredScope \/ Regenerate
  BY <1>1, <1>4, <1>9 DEF RecordCheckpoint, ApplyRecoveredScope, Regenerate, LoopAgain, Begun
<1>10. CASE CompleteRecovery
  BY <1>4, <1>10 DEF CompleteRecovery
<1>11. CASE ConfirmSlot \/ HeadCacheExpires \/ Heartbeat \/ UNCHANGED vars
  BY <1>2, <1>11 DEF ConfirmSlot, HeadCacheExpires, Heartbeat, vars
<1>12. CASE Start \/ Crash \/ DecideStream
  BY <1>3, <1>12 DEF Start, Crash, DecideStream
<1>13. CASE StageProgram \/ StagingDone \/ ResolveSlot \/ IndexesResolved \/ ProjectRow
            \/ ApplyRecoveryChange \/ StageRegistered \/ FinishRow \/ BatchDone \/ CleanupRecovery
  BY <1>3, <1>13 DEF StageProgram, StagingDone, ResolveSlot, IndexesResolved, ProjectRow,
     ApplyRecoveryChange, StageRegistered, FinishRow, BatchDone, CleanupRecovery
<1>14. CASE Subscribe \/ DeliverTransaction \/ Rescope \/ RescopeUnneeded \/ DeliverSlot
  BY <1>3, <1>14 DEF Subscribe, DeliverTransaction, Rescope, RescopeUnneeded, DeliverSlot
<1>15. CASE OpeningFails \/ RecoveryFails \/ SubscribeFails \/ RescopeFails \/ StreamFails
            \/ StreamEnds \/ SubscribeRefused
  <2>1. LoopAgain /\ UNCHANGED <<cursorVars, windowVars>>
    BY <1>15 DEF OpeningFails, RecoveryFails, SubscribeFails, RescopeFails, StreamFails,
       StreamEnds, SubscribeRefused
  <2> QED
    BY <1>3, <2>1 DEF LoopAgain
<1> QED
  BY <1>5, <1>6, <1>7, <1>8, <1>9, <1>10, <1>11, <1>12, <1>13, <1>14, <1>15
     DEF Next, Listener, Recovering, Streaming, Faults

\* The stream delivers the slot it is at.
LEMMA RowInStreamStep == Known /\ [Next]_vars => RowInStream'
<1> SUFFICES ASSUME Known, [Next]_vars PROVE RowInStream'
  OBVIOUS
<1>1. RowInStream
  BY DEF Known, IngestInv
<1>2. CASE UNCHANGED <<pc, row, streamSlot>>
  BY <1>1, <1>2 DEF RowInStream, Slot
<1>3. CASE pc' \notin {"record", "rescope", "regenerate"}
  BY <1>3 DEF RowInStream
<1>4. CASE DeliverTransaction
  <2>1. Slot(First(Deliverable)) = streamSlot
    BY <1>4, NextDeliveryIsLeast DEF DeliverTransaction, Deliverable, Known
  <2> QED
    BY <1>4, <2>1 DEF DeliverTransaction, RowInStream, Slot
<1>5. CASE RecordCheckpoint \/ Rescope
  BY <1>1, <1>5 DEF RecordCheckpoint, Rescope, RowInStream, Slot
<1>6. CASE ConfirmSlot \/ HeadCacheExpires \/ Heartbeat \/ UNCHANGED vars
  BY <1>2, <1>6 DEF ConfirmSlot, HeadCacheExpires, Heartbeat, vars
<1>7. CASE Start \/ Crash \/ DecideStream \/ DecideRecover \/ MarkRecoveryGeneration \/ BeginRecovery
  BY <1>3, <1>7 DEF Start, Crash, DecideStream, DecideRecover, MarkRecoveryGeneration, BeginRecovery
<1>8. CASE StageProgram \/ StagingDone \/ ResolveSlot \/ IndexesResolved \/ ProjectRow
            \/ ApplyRecoveryChange \/ StageRegistered
  BY <1>3, <1>8 DEF StageProgram, StagingDone, ResolveSlot, IndexesResolved, ProjectRow,
     ApplyRecoveryChange, StageRegistered
<1>9. CASE AdvanceCheckpoint \/ FinishRow \/ BatchDone \/ CompleteRecovery \/ CleanupRecovery
  BY <1>3, <1>9 DEF AdvanceCheckpoint, FinishRow, BatchDone, CompleteRecovery, CleanupRecovery
<1>10. CASE ApplyRecoveredScope \/ Subscribe \/ RescopeUnneeded \/ DeliverSlot
  BY <1>3, <1>10 DEF ApplyRecoveredScope, Subscribe, RescopeUnneeded, DeliverSlot
<1>11. CASE OpeningFails \/ RecoveryFails \/ SubscribeFails \/ RescopeFails \/ StreamFails
            \/ StreamEnds \/ SubscribeRefused \/ Regenerate
  <2>1. LoopAgain
    BY <1>11 DEF OpeningFails, RecoveryFails, SubscribeFails, RescopeFails, StreamFails,
       StreamEnds, SubscribeRefused, Regenerate
  <2> QED
    BY <1>3, <2>1 DEF LoopAgain
<1> QED
  BY <1>4, <1>5, <1>6, <1>7, <1>8, <1>9, <1>10, <1>11
     DEF Next, Listener, Recovering, Streaming, Faults

\* A program's transactions up to the head do not change when the chain grows.
LEMMA MentionsUnderStep ==
    ASSUME Inv, [Next]_vars, NEW p, NEW t \in Mentions(p)', Slot(t) <= HeadSlot
    PROVE  t \in Mentions(p)
<1>1. CASE ~ConfirmSlot
  BY <1>1, ChainUnderStep
<1>2. CASE ConfirmSlot
  <2>1. t \in OnChain
    BY <1>2, ChainUnderStep DEF Mentions
  <2>2. Content(t)' = Content(t)
    BY <2>1, ChainOnlyGrows
  <2> QED
    BY <2>1, <2>2 DEF Mentions
<1> QED
  BY <1>1, <1>2

\* One page keeps the staging of its program sound: what is newer than the cursor it leaves
\* is staged, and everything is when it leaves none.
LEMMA PageKeepsStaging ==
    ASSUME Inv, NEW p \in Programs, NEW from \in Nat, targetSlot \in Nat,
           StagePage(p, from), Staged(p, from, targetSlot)
    PROVE  /\ Rows \subseteq Rows'
           /\ \A q \in Programs \ {p} : cursor'[q] = cursor[q]
           /\ cursor'[p] # NoTx => \A t \in Mentions(p) :
                  InRange(t, from, targetSlot) /\ ~Before(t, cursor'[p]) => t \in Rows'
           /\ cursor'[p] = NoTx => \A t \in Mentions(p) :
                  InRange(t, from, targetSlot) => t \in Rows'
<1>1. cursor \in [Programs -> OnChain \cup {NoTx}]
  BY DEF Inv, TypeOK, RowTypes
<1>2. cursor'[p] = NextCursor(p, from) /\ \A q \in Programs \ {p} : cursor'[q] = cursor[q]
  BY <1>1 DEF StagePage
<1>3. /\ Rows \subseteq Rows'
      /\ \A t \in Page(p) : InRange(t, from, targetSlot) => t \in Rows'
  BY DEF StagePage, Rows, InRange
<1>4. ASSUME NEW t \in Mentions(p), InRange(t, from, targetSlot), t \notin Rows
      PROVE  t \in Older(p)
  BY <1>4 DEF Staged, Older
<1>5. OnChain \subseteq (Nat \ {0}) \X (Nat \ {0}) /\ Mentions(p) \subseteq OnChain
  BY ChainPositions DEF Inv, Mentions
<1>6. /\ Page(p) \subseteq Older(p) /\ Older(p) \subseteq OnChain
      /\ Cardinality(Page(p)) \in Nat /\ IsFiniteSet(Page(p)) /\ PageSize \in Nat \ {0}
  BY OlderTypes, ConstantsAssumption
<1>7. Page(p) # {} => /\ First(Page(p)) \in Page(p)
                      /\ \A u \in Page(p) \ {First(Page(p))} : Before(First(Page(p)), u)
  <2>1. Page(p) \subseteq Nat \X Nat
    BY <1>5, <1>6
  <2> QED
    BY <2>1, FirstIsLeast
<1>8. Page(p) = {} => Cardinality(Page(p)) < PageSize
  BY <1>6, FS_EmptySet
\* A transaction that is neither staged nor in the page is older than the page.
<1>9. ASSUME NEW t \in Mentions(p), InRange(t, from, targetSlot), t \notin Rows'
      PROVE  /\ t \in Older(p) /\ t \notin Page(p)
             /\ Page(p) # {} => Before(t, First(Page(p))) /\ ~(Slot(First(Page(p))) <= from)
  <2>1. t \in Older(p) /\ t \notin Page(p)
    BY <1>3, <1>4, <1>9
  <2>2. ASSUME Page(p) # {}
        PROVE  Before(t, First(Page(p))) /\ ~(Slot(First(Page(p))) <= from)
    <3> DEFINE f == First(Page(p))
    <3>1. f \in Page(p) /\ f \in Nat \X Nat /\ t \in Nat \X Nat
      BY <1>5, <1>6, <1>7, <2>2
    <3>2. ~Before(f, t)
      BY <2>1, <3>1, PageIsNewest
    <3>3. Before(t, f)
      BY <2>1, <3>1, <3>2, BeforeIsTotal
    <3>4. Slot(t) <= Slot(f) /\ Slot(t) \in Nat /\ Slot(f) \in Nat
      BY <3>1, <3>3, BeforeIsTotal DEF Slot
    <3>5. ~(Slot(f) <= from)
      BY <1>9, <3>4 DEF InRange
    <3> QED
      BY <3>3, <3>5
  <2> QED
    BY <2>1, <2>2
<1>10. CASE cursor'[p] # NoTx
  <2>1. cursor'[p] = First(Page(p)) /\ ~(Cardinality(Page(p)) < PageSize)
    BY <1>2, <1>6, <1>10 DEF NextCursor
  <2>2. Page(p) # {}
    BY <1>8, <2>1
  <2> QED
    BY <1>2, <1>3, <1>9, <1>10, <2>1, <2>2
<1>11. CASE cursor'[p] = NoTx
  <2>1. NoTx \notin OnChain
    BY <1>5 DEF NoTx
  <2>2. Page(p) # {} => First(Page(p)) # NoTx /\ Slot(First(Page(p))) \in Nat
    BY <1>5, <1>6, <1>7, <2>1 DEF Slot
  <2>3. Cardinality(Page(p)) < PageSize \/ (Page(p) # {} /\ Slot(First(Page(p))) <= from)
    BY <1>2, <1>6, <1>8, <1>11, <2>2 DEF NextCursor
  <2>4. Cardinality(Page(p)) < PageSize => Page(p) = Older(p)
    BY ShortPageIsLast
  <2> QED
    BY <1>2, <1>3, <1>9, <1>11, <2>3, <2>4
<1> QED
  BY <1>10, <1>11

\* The recovery's staging of the configured programs leaves no gap, across failures and
\* restarts: a cursor is only kept with the rows that are newer.
LEMMA StagingSoundStep == Known /\ [Next]_vars => StagingSound'
<1> SUFFICES ASSUME Known, [Next]_vars PROVE StagingSound'
  OBVIOUS
<1> USE DEF Opening, Working, WithRow
<1>1. /\ SlotTypes /\ RowTypes /\ WindowKnown /\ Begun /\ StagingSound /\ BehindHead /\ WindowInv /\ RowKnown
      /\ HeadSlot \in Nat /\ Inv
  BY DEF Known, Inv, TypeOK, IngestInv, HeadSlot
<1>2. ASSUME NEW from, NEW target \in Nat \cup {NoSlot}, target <= HeadSlot, NEW p, NEW t \in Mentions(p)',
             InRange(t, from, target)
      PROVE  t \in Mentions(p)
  <2>1. t \in OnChain'
    BY DEF Mentions
  <2>2. Slot(t) <= HeadSlot
    BY <1>1, <1>2, <2>1, ChainUnderStep, NoSlotIsLowest DEF InRange
  <2> QED
    BY <2>2, <1>1, MentionsUnderStep
<1>3. ASSUME NEW from, NEW target \in Nat \cup {NoSlot}, target <= HeadSlot, NEW p, UNCHANGED cursor,
             Rows \subseteq Rows', Staged(p, from, target)
      PROVE  cursor'[p] # NoTx =>
                 \A t \in Mentions(p)' : InRange(t, from, target) /\ ~Before(t, cursor'[p]) => t \in Rows'
  BY <1>2, <1>3 DEF Staged
<1>4. ASSUME NEW p, Rows \subseteq Rows', AllStaged(p), UNCHANGED rangeVars
      PROVE  AllStaged(p)'
  <2>1. targetSlot \in Nat \cup {NoSlot} /\ targetSlot <= HeadSlot
    BY <1>1 DEF SlotTypes, BehindHead
  <2> QED
    BY <1>2, <1>4, <2>1 DEF AllStaged, InRange, Slot
<1>5. recTarget \in Nat \cup {NoSlot} /\ recTarget <= HeadSlot /\ targetSlot \in Nat \cup {NoSlot} /\ targetSlot <= HeadSlot
  BY <1>1 DEF SlotTypes, BehindHead
<1>6. ASSUME UNCHANGED <<cursor, windowVars>>, Rows \subseteq Rows'
      PROVE  recTarget' # NoSlot => \A p \in BasePrograms : Staged(p, recFrom, recTarget)'
  BY <1>1, <1>3, <1>5, <1>6 DEF StagingSound, Staged, InRange, Slot, Before
<1>7. CASE UNCHANGED <<cursor, windowVars, rangeVars, todo, pc>> /\ Rows \subseteq Rows'
  <2>1. pc \in Opening => \A p \in BasePrograms : Staged(p, fromSlot, targetSlot)'
    BY <1>1, <1>3, <1>5, <1>7 DEF StagingSound, Staged, InRange, Slot, Before
  <2> QED
    BY <1>1, <1>4, <1>6, <1>7, <2>1 DEF StagingSound
<1>8. CASE UNCHANGED <<rowVars, windowVars>> /\ pc' \notin Opening \cup Working
  <2>1. Rows' = Rows
    BY <1>8 DEF Rows
  <2> QED
    BY <1>6, <1>8, <2>1 DEF StagingSound
<1>9. CASE recTarget' = NoSlot /\ pc' \notin Opening \cup Working
  BY <1>9 DEF StagingSound
<1>10. CASE /\ UNCHANGED <<cursor, windowVars, rangeVars, todo>> /\ Rows \subseteq Rows'
            /\ pc \in Working \ {"stage"} /\ pc' \in Working
  BY <1>1, <1>4, <1>6, <1>10 DEF StagingSound
<1>11. CASE DecideRecover
  <2>1. PICK h : ReadHead(h) /\ fromSlot' = RecoveryFromSlot(h) /\ targetSlot' = h
    BY <1>11 DEF DecideRecover
  <2>2. pc' = "mark" /\ UNCHANGED windowVars
    BY <1>11 DEF DecideRecover
  <2>3. CASE RowsAreStale
    <3>1. \A p \in BasePrograms : cursor'[p] = NoTx
      BY <1>11, <2>3 DEF DecideRecover, Programs
    <3> QED
      BY <2>2, <3>1 DEF StagingSound, Staged
  <2>4. CASE ~RowsAreStale
    <3>1. UNCHANGED rowVars /\ recTarget # NoSlot
      BY <1>11, <2>4 DEF DecideRecover, RowsAreStale
    <3>2. fromSlot' = recFrom /\ targetSlot' = recTarget /\ Rows' = Rows
      BY <2>1, <3>1 DEF ReadHead, RecoveryFromSlot, Rows
    <3>3. \A p \in BasePrograms : Staged(p, recFrom, recTarget)'
      BY <1>6, <2>2, <3>1, <3>2
    <3> QED
      BY <2>2, <3>2, <3>3 DEF StagingSound, Staged, InRange
  <2> QED
    BY <2>3, <2>4
<1>12. CASE MarkRecoveryGeneration
  <2>1. Rows' = Rows
    BY <1>12 DEF MarkRecoveryGeneration, Rows
  <2>2. \A p \in BasePrograms : Staged(p, fromSlot, targetSlot)'
    BY <1>1, <1>3, <1>5, <1>12, <2>1 DEF MarkRecoveryGeneration, StagingSound, Staged, InRange, Slot, Before
  <2> QED
    BY <1>6, <1>12, <2>1, <2>2 DEF MarkRecoveryGeneration, StagingSound
<1>13. CASE BeginRecovery
  <2>1. Rows' = Rows /\ pc = "begin" /\ pc' = "stage" /\ UNCHANGED cursor
        /\ recFrom' = fromSlot /\ recTarget' = targetSlot /\ BasePrograms \ todo' = {}
    BY <1>13 DEF BeginRecovery, Rows
  <2>2. \A p \in BasePrograms : Staged(p, recFrom, recTarget)'
    BY <1>1, <1>3, <1>5, <2>1 DEF StagingSound, Staged, InRange, Slot, Before
  <2> QED
    BY <2>1, <2>2 DEF StagingSound
<1>14. CASE StageProgram
  <2> DEFINE p == CHOOSE q \in todo : TRUE
  <2>1. /\ p \in todo /\ StagePage(p, fromSlot)
        /\ todo' = (IF cursor'[p] = NoTx THEN todo \ {p} ELSE todo)
        /\ pc = "stage" /\ pc' = "stage" /\ UNCHANGED <<windowVars, rangeVars>>
    BY <1>14 DEF StageProgram
  <2> HIDE DEF p
  <2>2. recFrom = fromSlot /\ recTarget = targetSlot /\ recTarget # NoSlot /\ fromSlot \in Nat /\ targetSlot \in Nat
    BY <1>1, <2>1 DEF WindowInv, WindowKnown, SlotTypes
  <2>3. \A q : Mentions(q)' = Mentions(q)
    BY <1>1, <1>14, ChainUnderStep DEF StageProgram, ConfirmSlot
  <2>4. CASE p \in BasePrograms
    <3>1. Staged(p, fromSlot, targetSlot)
      BY <1>1, <2>2, <2>4 DEF StagingSound
    <3>2. /\ Rows \subseteq Rows'
          /\ \A q \in BasePrograms \ {p} : cursor'[q] = cursor[q]
          /\ cursor'[p] # NoTx => \A t \in Mentions(p) :
                 InRange(t, fromSlot, targetSlot) /\ ~Before(t, cursor'[p]) => t \in Rows'
          /\ cursor'[p] = NoTx => \A t \in Mentions(p) :
                 InRange(t, fromSlot, targetSlot) => t \in Rows'
      BY <1>1, <2>1, <2>2, <2>4, <3>1, PageKeepsStaging DEF Programs
    <3>3. ASSUME NEW q \in BasePrograms PROVE Staged(q, recFrom, recTarget)'
      BY <1>1, <2>1, <2>2, <2>3, <3>2 DEF StagingSound, Staged, InRange, Slot, Before
    <3>4. ASSUME NEW q \in BasePrograms \ todo' PROVE AllStaged(q)'
      BY <1>1, <2>1, <2>2, <2>3, <3>2 DEF StagingSound, AllStaged, InRange, Slot
    <3> QED
      BY <2>1, <3>3, <3>4 DEF StagingSound
  <2>5. CASE p \notin BasePrograms
    <3>1. /\ Rows \subseteq Rows'
          /\ \A q \in BasePrograms : cursor'[q] = cursor[q]
      BY <1>1, <2>1, <2>5 DEF StagePage, Rows, RowTypes, Programs
    <3>2. ASSUME NEW q \in BasePrograms PROVE Staged(q, recFrom, recTarget)'
      BY <1>1, <2>1, <2>2, <2>3, <3>1 DEF StagingSound, Staged, InRange, Slot, Before
    <3>3. ASSUME NEW q \in BasePrograms \ todo' PROVE AllStaged(q)'
      BY <1>1, <2>1, <2>3, <2>5, <3>1 DEF StagingSound, AllStaged, InRange, Slot
    <3> QED
      BY <2>1, <3>2, <3>3 DEF StagingSound
  <2> QED
    BY <2>4, <2>5
<1>15. CASE StageRegistered
  <2> DEFINE p == Content(row).ext
  <2>1. StagePage(p, RegisteredFromSlot(Slot(row))) /\ pc = "late" /\ pc' \in {"late", "advance"}
        /\ UNCHANGED <<windowVars, rangeVars, todo>>
    BY <1>15 DEF StageRegistered
  <2>2. p \notin BasePrograms
    BY <1>1, <2>1, ChangeNamesExtension, ConstantsAssumption DEF Inv, RowKnown
  <2> HIDE DEF p
  <2>3. /\ Rows \subseteq Rows'
        /\ \A q \in BasePrograms : cursor'[q] = cursor[q]
    BY <1>1, <2>1, <2>2 DEF StagePage, Rows, RowTypes, Programs
  <2>4. \A q : Mentions(q)' = Mentions(q)
    BY <1>1, <1>15, ChainUnderStep DEF StageRegistered, ConfirmSlot
  <2>5. ASSUME NEW q \in BasePrograms, recTarget # NoSlot PROVE Staged(q, recFrom, recTarget)'
    BY <1>1, <2>1, <2>3, <2>4, <2>5 DEF StagingSound, Staged, InRange, Slot, Before
  <2>6. \A q \in BasePrograms \ todo : AllStaged(q)'
    BY <1>1, <1>4, <2>1, <2>3 DEF StagingSound
  <2> QED
    BY <1>1, <2>1, <2>5, <2>6 DEF StagingSound
<1>16. CASE StagingDone
  <2>1. Rows' = Rows /\ todo = {}
    BY <1>16 DEF StagingDone, Rows
  <2> QED
    BY <1>1, <1>4, <1>6, <1>16, <2>1 DEF StagingDone, StagingSound
<1>17. CASE ResolveSlot
  <2>1. Rows \subseteq Rows'
    BY <1>17 DEF ResolveSlot, Rows
  <2> QED
    BY <1>7, <1>17, <2>1 DEF ResolveSlot
<1>18. CASE IndexesResolved \/ ProjectRow \/ ApplyRecoveryChange \/ AdvanceCheckpoint \/ BatchDone
  <2>1. UNCHANGED <<rowVars, windowVars, rangeVars, todo>> /\ pc \in Working \ {"stage"} /\ pc' \in Working
    BY <1>18 DEF IndexesResolved, ProjectRow, ApplyRecoveryChange, AdvanceCheckpoint, BatchDone
  <2> QED
    BY <1>10, <2>1 DEF Rows
<1>19. CASE FinishRow
  <2>1. Rows \subseteq Rows'
    BY <1>19 DEF FinishRow, Rows
  <2> QED
    BY <1>10, <1>19, <2>1 DEF FinishRow
<1>20. CASE CompleteRecovery \/ CleanupRecovery
  BY <1>1, <1>9, <1>20 DEF CompleteRecovery, CleanupRecovery, Begun, Streamed
<1>21. CASE ConfirmSlot \/ HeadCacheExpires \/ Heartbeat \/ UNCHANGED vars
  BY <1>7, <1>21 DEF ConfirmSlot, HeadCacheExpires, Heartbeat, vars, Rows
<1>22. CASE Start \/ Crash \/ DecideStream \/ ApplyRecoveredScope \/ Subscribe
  BY <1>8, <1>22 DEF Start, Crash, DecideStream, ApplyRecoveredScope, Subscribe
<1>23. CASE DeliverTransaction \/ RecordCheckpoint \/ Rescope \/ RescopeUnneeded \/ DeliverSlot
  BY <1>8, <1>23 DEF DeliverTransaction, RecordCheckpoint, Rescope, RescopeUnneeded, DeliverSlot
<1>24. CASE OpeningFails \/ RecoveryFails \/ SubscribeFails \/ RescopeFails \/ StreamFails
            \/ StreamEnds \/ SubscribeRefused \/ Regenerate
  <2>1. LoopAgain /\ UNCHANGED <<rowVars, windowVars>>
    BY <1>24 DEF OpeningFails, RecoveryFails, SubscribeFails, RescopeFails, StreamFails,
       StreamEnds, SubscribeRefused, Regenerate
  <2> QED
    BY <1>8, <2>1 DEF LoopAgain
<1> QED
  BY <1>11, <1>12, <1>13, <1>14, <1>15, <1>16, <1>17, <1>18, <1>19, <1>20, <1>21, <1>22,
     <1>23, <1>24 DEF Next, Listener, Recovering, Streaming, Faults

\* Staging a registered extension adds no row of a configured program: those are staged.
LEMMA QueueOrderedStep == Known /\ [Next]_vars => QueueOrdered'
<1> SUFFICES ASSUME Known, [Next]_vars PROVE QueueOrdered'
  OBVIOUS
<1> USE DEF Opening, Working, WithRow
<1>1. QueueOrdered /\ StagingSound /\ WindowInv /\ WindowKnown /\ SlotTypes /\ RowTypes /\ Inv
  BY DEF Known, IngestInv, Inv, TypeOK
<1>2. \A t \in unindexed : Content(t)' = Content(t)
  BY <1>1, ChainOnlyGrows DEF RowTypes
<1>3. CASE UNCHANGED <<pc, unindexed, indexed>>
  BY <1>1, <1>2, <1>3 DEF QueueOrdered
<1>4. CASE pc' \notin WithRow \cup {"project", "complete"}
  BY <1>4 DEF QueueOrdered
<1>5. CASE /\ pc \in WithRow \cup {"project"} /\ pc' \in WithRow \cup {"project"}
           /\ UNCHANGED unindexed
  BY <1>1, <1>2, <1>5 DEF QueueOrdered
<1>6. CASE IndexesResolved
  BY <1>6 DEF IndexesResolved, QueueOrdered
<1>7. CASE BatchDone
  BY <1>1, <1>2, <1>7 DEF BatchDone, QueueOrdered
<1>8. CASE StageRegistered
  <2> DEFINE p == Content(row).ext
             from == RegisteredFromSlot(Slot(row))
  <2>1. StagePage(p, from) /\ pc = "late" /\ pc' \in {"late", "advance"} /\ todo = {}
    BY <1>1, <1>8 DEF StageRegistered, StagingSound
  <2>2. row \in indexed /\ Slot(row) > fromSlot /\ Slot(row) \in Nat
    BY <1>1, <2>1, ChainPositions DEF WindowInv, WindowKnown, Within, Rows, RowTypes, Inv, Slot
  <2>3. from \in Nat /\ from >= fromSlot
    BY <1>1, <2>2 DEF RegisteredFromSlot, Larger, SlotTypes
  <2> HIDE DEF p, from
  <2>4. ASSUME NEW t \in unindexed', Content(t).touch \cap BasePrograms # {} PROVE FALSE
    <3>1. t \notin unindexed
      BY <1>1, <2>1, <2>4 DEF QueueOrdered
    <3>2. t \in Page(p) /\ from < Slot(t) /\ Slot(t) <= targetSlot /\ t \notin indexed \cup finished
      BY <2>1, <3>1 DEF StagePage
    <3>3. t \in OnChain /\ Slot(t) \in Nat
      BY <1>1, <3>2, ChainPositions DEF Page, Mentions, Slot, Inv
    <3>4. PICK q \in BasePrograms : t \in Mentions(q)
      BY <2>4, <3>3 DEF Mentions
    <3>5. AllStaged(q)
      BY <1>1, <2>1 DEF StagingSound
    <3>6. InRange(t, fromSlot, targetSlot)
      BY <1>1, <2>3, <3>2, <3>3 DEF InRange, SlotTypes
    <3> QED
      BY <3>1, <3>2, <3>4, <3>5, <3>6 DEF AllStaged, Rows
  <2>5. \A t : Content(t)' = Content(t)
    BY <1>1, <1>8, ChainUnderStep DEF StageRegistered, ConfirmSlot
  <2> QED
    BY <2>1, <2>4, <2>5 DEF QueueOrdered
<1>9. CASE ProjectRow \/ ApplyRecoveryChange \/ AdvanceCheckpoint \/ FinishRow
  BY <1>5, <1>9 DEF ProjectRow, ApplyRecoveryChange, AdvanceCheckpoint, FinishRow
<1>10. CASE ConfirmSlot \/ HeadCacheExpires \/ Heartbeat \/ UNCHANGED vars
  BY <1>3, <1>10 DEF ConfirmSlot, HeadCacheExpires, Heartbeat, vars
<1>11. CASE Start \/ Crash \/ DecideStream \/ DecideRecover \/ MarkRecoveryGeneration \/ BeginRecovery
  BY <1>4, <1>11 DEF Start, Crash, DecideStream, DecideRecover, MarkRecoveryGeneration, BeginRecovery
<1>12. CASE StageProgram \/ StagingDone \/ ResolveSlot \/ CompleteRecovery \/ CleanupRecovery
  BY <1>4, <1>12 DEF StageProgram, StagingDone, ResolveSlot, CompleteRecovery, CleanupRecovery
<1>13. CASE ApplyRecoveredScope \/ Subscribe \/ DeliverTransaction \/ RecordCheckpoint \/ Rescope
            \/ RescopeUnneeded \/ DeliverSlot
  BY <1>4, <1>13 DEF ApplyRecoveredScope, Subscribe, DeliverTransaction, RecordCheckpoint, Rescope,
     RescopeUnneeded, DeliverSlot
<1>14. CASE OpeningFails \/ RecoveryFails \/ SubscribeFails \/ RescopeFails \/ StreamFails
            \/ StreamEnds \/ SubscribeRefused \/ Regenerate
  <2>1. LoopAgain
    BY <1>14 DEF OpeningFails, RecoveryFails, SubscribeFails, RescopeFails, StreamFails,
       StreamEnds, SubscribeRefused, Regenerate
  <2> QED
    BY <1>4, <2>1 DEF LoopAgain
<1> QED
  BY <1>6, <1>7, <1>8, <1>9, <1>10, <1>11, <1>12, <1>13, <1>14
     DEF Next, Listener, Recovering, Streaming, Faults

\* A transaction the next delivery leaves behind is not outstanding: the filter of the
\* stream holds the configured programs.
LEMMA OutstandingIsDeliverable ==
    ASSUME Inv, NEW t \in OnChain, Outstanding(t), Slot(t) = streamSlot, Before(streamTx, t)
    PROVE  t \in Deliverable
BY DEF Outstanding, Expected, Projectable, Deliverable, Inv, TypeOK, ScopeTypes

\* A recovery is over when nothing outstanding is left in its window.
LEMMA WindowIsProjected ==
    ASSUME Known, pc = "complete", NEW t \in OnChain, Outstanding(t)
    PROVE  Slot(t) > targetSlot
<1> SUFFICES ASSUME ~(Slot(t) > targetSlot) PROVE FALSE
  OBVIOUS
<1> USE DEF Working
<1>1. /\ StagingSound /\ QueueOrdered /\ WindowInv /\ Begun /\ OutstandingAhead /\ DoneIsProjected
      /\ SlotTypes /\ WindowKnown /\ Inv
  BY DEF Known, Inv, TypeOK, IngestInv, DoneInv
<1>2. recTarget # NoSlot /\ recFrom = fromSlot /\ recTarget = targetSlot /\ todo = {}
  BY <1>1 DEF Begun, WindowInv, StagingSound
<1>3. Slot(t) > recFrom
  BY <1>1, <1>2 DEF OutstandingAhead, Ahead
<1>4. Slot(t) \in Nat /\ targetSlot \in Nat /\ fromSlot \in Nat
  BY <1>1, <1>2, ChainUnderStep, ChainPositions DEF Slot, SlotTypes, Inv
<1>5. InRange(t, fromSlot, targetSlot)
  BY <1>2, <1>3, <1>4 DEF InRange
<1>6. PICK p \in BasePrograms : t \in Mentions(p)
  BY DEF Outstanding, Expected, Projectable, Mentions
<1>7. t \in finished
  BY <1>1, <1>2, <1>5, <1>6 DEF StagingSound, AllStaged, QueueOrdered, Rows
<1> QED
  BY <1>1, <1>7 DEF DoneIsProjected, Outstanding, Expected

\* What is outstanding stays ahead, at every place of the loop.
LEMMA OutstandingAheadStep == Known /\ [Next]_vars => OutstandingAhead'
<1> SUFFICES ASSUME Known, [Next]_vars, NEW t \in OnChain', Outstanding(t)' PROVE Ahead(t)'
  BY DEF OutstandingAhead
<1> USE DEF Opening, Working, WithRow, Streamed
<1>1. /\ SlotTypes /\ RowTypes /\ RowKnown /\ WindowKnown /\ Begun /\ CursorsInWindow /\ BehindHead
      /\ WindowInv /\ RowInStream /\ OutstandingAhead /\ Inv /\ HeadSlot \in Nat
  BY DEF Known, Inv, TypeOK, IngestInv, HeadSlot
<1>2. OnChain \subseteq Nat \X Nat /\ \A u \in OnChain : Slot(u) \in Nat /\ Slot(u) <= HeadSlot
  BY <1>1, ChainUnderStep, ChainPositions DEF Inv
<1>3. CASE t \notin OnChain
  <2>1. ConfirmSlot
    BY <1>1, <1>3, ChainUnderStep
  <2>2. Slot(t) = HeadSlot + 1
    BY <1>1, <1>3, <2>1, ChainUnderStep
  <2>3. UNCHANGED <<cursorVars, windowVars, rangeVars, streamVars, row, pc>>
    BY <2>1 DEF ConfirmSlot
  <2>4. streamTx \in OnChain \cup {NoTx} => Slot(streamTx) < Slot(t)
    BY <1>1, <1>2, <2>2 DEF Slot, NoTx
  <2>5. row \in OnChain => Slot(row) < Slot(t)
    BY <1>1, <1>2, <2>2
  <2>6. Before(streamTx, t)
    BY <1>1, <2>4 DEF RowTypes, Before, Slot
  <2>7. pc \in {"record", "rescope", "regenerate"} => Before(row, t)
    BY <1>1, <2>5 DEF RowKnown, Before, Slot
  <2>8. /\ Slot(t) >= checkpoint /\ Slot(t) >= coverage /\ Slot(t) > recFrom
        /\ Slot(t) >= fromSlot /\ Slot(t) > targetSlot /\ Slot(t) >= streamSlot
    BY <1>1, <2>2, NoSlotIsLowest DEF BehindHead, SlotTypes
  <2> QED
    BY <2>3, <2>6, <2>7, <2>8 DEF Ahead, Slot, Before
<1> SUFFICES ASSUME t \in OnChain PROVE Ahead(t)'
  BY <1>3
<1>4. Slot(t) \in Nat /\ t \in Nat \X Nat /\ Slot(t)' = Slot(t)
  BY <1>2 DEF Slot
<1>5. CASE BeginRecovery
  <2>1. /\ recFrom' = fromSlot /\ recTarget' = targetSlot /\ pc = "begin" /\ pc' = "stage"
        /\ baseline' = (IF baseline = NoSlot THEN fromSlot ELSE baseline)
        /\ seams' = seams \cup {fromSlot}
    BY <1>5 DEF BeginRecovery
  <2>2. Slot(t) \notin seams' /\ Slot(t) > baseline'
    BY <1>4 DEF Outstanding, Expected, Owed
  <2>3. Slot(t) > fromSlot
    <3>1. CASE baseline = NoSlot
      BY <2>1, <2>2, <3>1
    <3>2. CASE baseline # NoSlot
      <4>1. Outstanding(t)
        BY <1>1, <3>2, OutstandingUnderStep
      <4>2. Slot(t) >= fromSlot
        BY <1>1, <2>1, <4>1 DEF OutstandingAhead, Ahead
      <4> QED
        BY <1>1, <1>4, <2>1, <2>2, <4>2 DEF SlotTypes
    <3> QED
      BY <3>1, <3>2
  <2>4. targetSlot # NoSlot
    BY <1>1, <2>1 DEF WindowKnown
  <2> QED
    BY <1>4, <2>1, <2>3, <2>4 DEF Ahead
<1>6. ASSUME ~BeginRecovery PROVE Outstanding(t) /\ Ahead(t)
  BY <1>1, <1>6, OutstandingUnderStep DEF OutstandingAhead
<1>7. CASE UNCHANGED <<cursorVars, windowVars, rangeVars, streamVars, row, pc>>
  <2>1. CASE BeginRecovery
    BY <1>5, <2>1
  <2>2. CASE ~BeginRecovery
    BY <1>6, <1>7, <2>2 DEF Ahead, Slot, Before
  <2> QED
    BY <2>1, <2>2
<1>8. CASE /\ ~BeginRecovery /\ UNCHANGED <<cursorVars, windowVars>>
           /\ pc' \notin Opening \cup {"cleanup", "scope", "subscribe", "stream", "record", "rescope", "regenerate"}
  BY <1>4, <1>6, <1>8 DEF Ahead
<1>9. CASE DecideStream
  <2>1. ~BeginRecovery
    BY <1>9 DEF DecideStream, BeginRecovery
  <2>2. recTarget = NoSlot /\ UNCHANGED <<cursorVars, windowVars>> /\ pc' = "scope"
        /\ fromSlot' = DurableResumeSlot
    BY <1>9 DEF DecideStream, RecoveryNotRequired
  <2> QED
    BY <1>4, <1>6, <2>1, <2>2 DEF Ahead, DurableResumeSlot, Larger
<1>10. CASE DecideRecover
  <2>1. ~BeginRecovery
    BY <1>10 DEF DecideRecover, BeginRecovery
  <2>2. PICK h : ReadHead(h) /\ fromSlot' = RecoveryFromSlot(h)
    BY <1>10 DEF DecideRecover
  <2>3. UNCHANGED <<cursorVars, windowVars>> /\ pc' = "mark"
    BY <1>10 DEF DecideRecover
  <2>4. baseline # NoSlot
    BY <2>1, <1>6 DEF Outstanding, Expected, Owed
  <2>5. CASE recTarget # NoSlot
    <3>1. fromSlot' = recFrom /\ recFrom \in Int
      BY <1>1, <2>2, <2>5, NoSlotIsLowest DEF RecoveryFromSlot, SlotTypes
    <3> QED
      BY <1>4, <1>6, <2>1, <2>3, <2>5, <3>1 DEF Ahead
  <2>6. CASE recTarget = NoSlot
    <3>1. fromSlot' = DurableResumeSlot
      BY <1>1, <2>2, <2>4, <2>6 DEF RecoveryFromSlot, Begun
    <3> QED
      BY <1>4, <1>6, <2>1, <2>3, <2>6, <3>1 DEF Ahead, DurableResumeSlot, Larger
  <2> QED
    BY <2>5, <2>6
<1>11. CASE MarkRecoveryGeneration \/ ApplyRecoveredScope
  <2>1. ~BeginRecovery
    BY <1>11 DEF MarkRecoveryGeneration, ApplyRecoveredScope, BeginRecovery
  <2>2. /\ coverage' = coverage \/ coverage' = Smaller(coverage, Larger(fromSlot - 1, 0))
        /\ UNCHANGED <<checkpoint, windowVars, fromSlot>>
        /\ pc \in {"mark", "scope"} /\ pc' \in {"begin", "subscribe"}
    BY <1>11 DEF MarkRecoveryGeneration, ApplyRecoveredScope, MarkFilterGeneration
  <2>3. coverage' <= coverage /\ coverage' \in Int /\ coverage \in Int
    BY <1>1, <2>2, NoSlotIsLowest DEF Larger, Smaller, SlotTypes
  <2> QED
    BY <1>4, <1>6, <2>1, <2>2, <2>3 DEF Ahead
<1>12. CASE Regenerate
  <2>1. ~BeginRecovery
    BY <1>12 DEF Regenerate, BeginRecovery
  <2>2. Slot(row) \in Nat
    BY <1>1, <1>2, <1>12 DEF Regenerate, RowKnown
  <2>3. /\ coverage' = coverage \/ coverage' = Smaller(coverage, Larger(Slot(row) - 1, 0))
        /\ UNCHANGED <<checkpoint, windowVars>> /\ pc' = "decide"
    BY <1>12 DEF Regenerate, MarkFilterGeneration, LoopAgain
  <2>4. coverage' <= coverage /\ coverage' \in Int /\ coverage \in Int
    BY <1>1, <2>2, <2>3, NoSlotIsLowest DEF Larger, Smaller, SlotTypes
  <2> QED
    BY <1>4, <1>6, <2>1, <2>3, <2>4 DEF Ahead
<1>13. CASE AdvanceCheckpoint
  <2>1. ~BeginRecovery
    BY <1>13 DEF AdvanceCheckpoint, BeginRecovery
  <2>2. recTarget # NoSlot /\ UNCHANGED windowVars /\ pc' = "finish"
    BY <1>1, <1>13 DEF AdvanceCheckpoint, Begun
  <2> QED
    BY <1>4, <1>6, <2>1, <2>2 DEF Ahead
<1>14. CASE CompleteRecovery
  <2>1. ~BeginRecovery
    BY <1>14 DEF CompleteRecovery, BeginRecovery
  <2>2. Slot(t) > targetSlot
    BY <1>6, <1>14, <2>1, WindowIsProjected DEF CompleteRecovery
  <2>3. /\ coverage' = Larger(coverage, targetSlot) /\ UNCHANGED <<checkpoint, targetSlot>>
        /\ recTarget' = NoSlot /\ pc = "complete" /\ pc' = "cleanup"
    BY <1>14 DEF CompleteRecovery
  <2>4. recTarget # NoSlot /\ recTarget = targetSlot /\ checkpoint <= targetSlot /\ coverage <= targetSlot
    BY <1>1, <2>3 DEF Begun, WindowInv, CursorsInWindow
  <2>5. checkpoint \in Int /\ coverage \in Int /\ targetSlot \in Int
    BY <1>1, NoSlotIsLowest DEF SlotTypes
  <2> QED
    BY <1>4, <2>2, <2>3, <2>4, <2>5 DEF Ahead, Larger
<1>15. CASE CleanupRecovery
  <2>1. ~BeginRecovery
    BY <1>15 DEF CleanupRecovery, BeginRecovery
  <2>2. fromSlot' = targetSlot /\ pc = "cleanup" /\ pc' = "scope" /\ UNCHANGED <<cursorVars, windowVars>>
    BY <1>15 DEF CleanupRecovery
  <2>3. targetSlot \in Int
    BY <1>1, NoSlotIsLowest DEF SlotTypes
  <2> QED
    BY <1>4, <1>6, <2>1, <2>2, <2>3 DEF Ahead
<1>16. CASE Subscribe
  <2>1. ~BeginRecovery
    BY <1>16 DEF Subscribe, BeginRecovery
  <2>2. streamSlot' = fromSlot /\ streamTx' = NoTx /\ pc = "subscribe" /\ pc' = "stream"
        /\ UNCHANGED <<cursorVars, windowVars>>
    BY <1>16 DEF Subscribe
  <2>3. Before(NoTx, t)
    BY <1>1, ChainPositions DEF Before, NoTx, Inv
  <2> QED
    BY <1>4, <1>6, <2>1, <2>2, <2>3 DEF Ahead, Slot, Before
<1>17. CASE DeliverTransaction
  <2>1. ~BeginRecovery
    BY <1>17 DEF DeliverTransaction, BeginRecovery
  <2>2. /\ row' = First(Deliverable) /\ row' \in projected' /\ pc = "stream" /\ pc' = "record"
        /\ UNCHANGED <<cursorVars, windowVars, streamVars>> /\ Deliverable # {}
    BY <1>17 DEF DeliverTransaction
  <2>3. t # row'
    BY <2>2 DEF Outstanding
  <2>4. row' \in Deliverable /\ \A u \in Deliverable \ {row'} : Before(row', u)
    BY <1>1, <2>2, NextDeliveryIsLeast
  <2>5. Slot(t) >= streamSlot /\ Before(streamTx, t)
    BY <1>6, <2>1, <2>2 DEF Ahead
  <2>6. Before(row', t)
    <3>1. CASE Slot(t) = streamSlot
      <4>1. t \in Deliverable
        BY <1>1, <1>6, <2>1, <2>5, <3>1, OutstandingIsDeliverable
      <4> QED
        BY <2>3, <2>4, <4>1
    <3>2. CASE Slot(t) # streamSlot
      <4>1. row' \in OnChain /\ Slot(row') = streamSlot
        BY <2>4 DEF Deliverable, Slot
      <4>2. Slot(row') < Slot(t)
        BY <1>1, <1>4, <2>5, <3>2, <4>1 DEF SlotTypes
      <4> QED
        BY <4>2 DEF Before, Slot
    <3> QED
      BY <3>1, <3>2
  <2> QED
    BY <1>4, <1>6, <2>1, <2>2, <2>5, <2>6 DEF Ahead, Before, Slot
<1>18. CASE RecordCheckpoint
  <2>1. ~BeginRecovery
    BY <1>18 DEF RecordCheckpoint, BeginRecovery
  <2>2. /\ checkpoint' = Larger(checkpoint, Slot(row)) /\ UNCHANGED <<coverage, windowVars, streamSlot>>
        /\ pc = "record"
        /\ \/ pc' = "rescope" /\ row' = row
           \/ pc' = "stream" /\ streamTx' = row
    BY <1>18 DEF RecordCheckpoint, UpdateCheckpoint
  <2>3. Slot(row) = streamSlot /\ Slot(t) >= streamSlot /\ Before(row, t)
    BY <1>1, <1>6, <2>1, <2>2 DEF RowInStream, Ahead
  <2> QED
    BY <1>4, <1>6, <2>1, <2>2, <2>3 DEF Ahead, Larger, Before, Slot
<1>19. CASE Rescope
  <2>1. ~BeginRecovery
    BY <1>19 DEF Rescope, BeginRecovery
  <2>2. /\ UNCHANGED <<cursorVars, windowVars, streamSlot, row>>
        /\ pc = "rescope" /\ pc' = "regenerate"
    BY <1>19 DEF Rescope
  <2> QED
    BY <1>4, <1>6, <2>1, <2>2 DEF Ahead, Before
<1>20. CASE RescopeUnneeded
  <2>1. ~BeginRecovery
    BY <1>20 DEF RescopeUnneeded, BeginRecovery
  <2>2. /\ UNCHANGED <<cursorVars, windowVars, streamSlot>> /\ streamTx' = row
        /\ pc = "rescope" /\ pc' = "stream"
    BY <1>20 DEF RescopeUnneeded
  <2> QED
    BY <1>4, <1>6, <2>1, <2>2 DEF Ahead, Before
<1>21. CASE DeliverSlot
  <2>1. ~BeginRecovery
    BY <1>21 DEF DeliverSlot, BeginRecovery
  <2>2. /\ UNCHANGED <<cursorVars, windowVars, pc>> /\ streamSlot' = streamSlot + 1 /\ streamTx' = NoTx
        /\ pc = "stream" /\ Deliverable = {}
    BY <1>21 DEF DeliverSlot
  <2>3. Slot(t) >= streamSlot /\ Slot(t) # streamSlot
    BY <1>1, <1>6, <2>1, <2>2, OutstandingIsDeliverable DEF Ahead
  <2>4. Slot(t) >= streamSlot + 1 /\ Before(NoTx, t)
    BY <1>1, <1>4, <2>3, ChainPositions DEF SlotTypes, Before, NoTx, Inv
  <2> QED
    BY <1>4, <1>6, <2>1, <2>2, <2>4 DEF Ahead, Before, Slot
<1>22. CASE ConfirmSlot \/ HeadCacheExpires \/ Heartbeat \/ UNCHANGED vars
  BY <1>7, <1>22 DEF ConfirmSlot, HeadCacheExpires, Heartbeat, vars
<1>23. CASE Start \/ Crash
  BY <1>8, <1>23 DEF Start, Crash, BeginRecovery
<1>24. CASE StageProgram \/ StagingDone \/ ResolveSlot \/ IndexesResolved \/ ProjectRow
            \/ ApplyRecoveryChange \/ StageRegistered \/ FinishRow \/ BatchDone
  BY <1>8, <1>24 DEF StageProgram, StagingDone, ResolveSlot, IndexesResolved, ProjectRow,
     ApplyRecoveryChange, StageRegistered, FinishRow, BatchDone, BeginRecovery
<1>25. CASE OpeningFails \/ RecoveryFails \/ SubscribeFails \/ RescopeFails \/ StreamFails
            \/ StreamEnds \/ SubscribeRefused
  <2>1. LoopAgain /\ UNCHANGED <<cursorVars, windowVars>>
    BY <1>25 DEF OpeningFails, RecoveryFails, SubscribeFails, RescopeFails, StreamFails,
       StreamEnds, SubscribeRefused
  <2> QED
    BY <1>5, <1>8, <2>1 DEF LoopAgain
<1> QED
  BY <1>5, <1>9, <1>10, <1>11, <1>12, <1>13, <1>14, <1>15, <1>16, <1>17, <1>18, <1>19,
     <1>20, <1>21, <1>22, <1>23, <1>24, <1>25 DEF Next, Listener, Recovering, Streaming, Faults

-----------------------------------------------------------------------------
(* The theorems. *)

\* The listener starts with nothing owed, claimed, staged or delivered.
LEMMA InitKnown == Init => Known
<1> SUFFICES ASSUME Init PROVE Known
  OBVIOUS
<1> USE DEF Opening, Working, WithRow, Streamed
<1>1. OnChain = {} /\ HeadSlot = 0 /\ HeadSlot + 1 = 1
  BY DEF Init, OnChain, HeadSlot
<1>2. DoneInv /\ WindowInv
  BY DEF Init, DoneInv, RowProjected, DoneIsProjected, WindowInv
<1>3. BehindHead
  BY <1>1, NoSlotIsLowest DEF Init, BehindHead
<1>4. Begun /\ CursorsInWindow /\ StagingSound /\ QueueOrdered /\ RowInStream
  BY DEF Init, Begun, CursorsInWindow, StagingSound, QueueOrdered, RowInStream
<1>5. OutstandingAhead
  BY <1>1 DEF OutstandingAhead
<1> QED
  BY <1>2, <1>3, <1>4, <1>5, InitInv DEF Known, IngestInv

\* Every step keeps the whole invariant.
LEMMA KnownStep == Known /\ Inv' /\ [Next]_vars => Known'
<1> SUFFICES ASSUME Known, Inv', [Next]_vars PROVE Known'
  OBVIOUS
<1>1. DoneInv' /\ WindowInv'
  BY DoneStep, WindowStep DEF Known
<1> QED
  BY <1>1, BehindHeadStep, BegunStep, CursorsInWindowStep, StagingSoundStep, QueueOrderedStep,
     RowInStreamStep, OutstandingAheadStep DEF Known, IngestInv

(***************************************************************************)
(* Wherever the listener is, a transaction that is still owed lies ahead   *)
(* of its cursors, of the range it works on and of its stream, and what is *)
(* in an open window is staged or still to be paged.                       *)
(***************************************************************************)
THEOREM NothingGetsBehind == Spec => []Known
<1>1. Spec => []Inv
  BY Invariance
<1>2. Init => Known
  BY InitKnown
<1>3. Known /\ Inv' /\ [Next]_vars => Known'
  BY KnownStep
<1> QED
  BY <1>1, <1>2, <1>3, PTL DEF Spec

(***************************************************************************)
(* A transaction of a configured program below the durable cursor is in    *)
(* the read model, whatever crashed or failed in between.                  *)
(***************************************************************************)
THEOREM NothingEverSkipped == Spec => []NothingSkipped
<1>1. Known => NothingSkipped
  <2> SUFFICES ASSUME Known, NEW t \in OnChain, Expected(t), Claimed(t), t \notin projected PROVE FALSE
    BY DEF NothingSkipped
  <2>1. Ahead(t) /\ SlotTypes /\ Inv
    BY DEF Known, IngestInv, OutstandingAhead, Outstanding, Inv, TypeOK
  <2>2. Slot(t) \in Nat
    BY <2>1, ChainPositions DEF Inv, Slot
  <2>3. CASE recTarget = NoSlot
    BY <2>1, <2>2, <2>3, NoSlotIsLowest DEF Ahead, Claimed, DurableResumeSlot, Larger, SlotTypes
  <2>4. CASE recTarget # NoSlot
    BY <2>1, <2>2, <2>4, NoSlotIsLowest DEF Ahead, Claimed, SlotTypes
  <2> QED
    BY <2>3, <2>4
<1> QED
  BY <1>1, NothingGetsBehind, PTL

-----------------------------------------------------------------------------
(* The refinement of OrderedIngest. *)

\* What the abstract reader has taken, and what it is owed.
Taken == {t \in projected : Projectable(t, BasePrograms)}

LEMMA IngestOwed ==
    ASSUME Inv
    PROVE  /\ Ingest!OnChain = OnChain
           /\ \A t \in OnChain : t \in Ingest!Owed <=> Outstanding(t)
           /\ Ingest!Owed \subseteq OnChain
           /\ \A t, u : Ingest!Before(t, u) <=> Before(t, u)
BY DEF Ingest!OnChain, OnChain, Ingest!Owed, Outstanding, Expected, Owed, Projectable, ConcernsBase,
   Content, Slot, Ingest!Before, Before, NoSlot

\* The recovery projects the least row of the window, so nothing owed lies before it.
LEMMA ProjectRowIsOrdered ==
    ASSUME Known, ProjectRow, NEW u \in OnChain, Outstanding(u)
    PROVE  ~Before(u, NextRow)
<1> SUFFICES ASSUME Before(u, NextRow) PROVE FALSE
  OBVIOUS
<1> USE DEF Working, WithRow
<1>1. /\ StagingSound /\ QueueOrdered /\ WindowInv /\ Begun /\ OutstandingAhead /\ DoneIsProjected
      /\ SlotTypes /\ RowTypes /\ WindowKnown /\ Inv
  BY DEF Known, Inv, TypeOK, IngestInv, DoneInv
<1>2. pc = "project" /\ indexed # {} /\ recTarget # NoSlot /\ recFrom = fromSlot /\ recTarget = targetSlot /\ todo = {}
  BY <1>1 DEF ProjectRow, Begun, WindowInv, StagingSound
<1>3. NextRow \in indexed /\ \A v \in indexed \ {NextRow} : Before(NextRow, v)
  BY <1>1, <1>2, NextRowIsLeast
<1>4. NextRow \in Nat \X Nat /\ u \in Nat \X Nat
  BY <1>1, <1>3, ChainPositions DEF RowTypes, Inv
<1>5. Slot(u) > recFrom
  BY <1>1, <1>2 DEF OutstandingAhead, Ahead
<1>6. Slot(NextRow) <= recTarget
  BY <1>1, <1>2, <1>3 DEF WindowInv, Within, Rows
<1>7. InRange(u, fromSlot, targetSlot)
  <2>1. Slot(u) <= Slot(NextRow) /\ Slot(u) \in Nat /\ Slot(NextRow) \in Nat /\ recTarget \in Nat
    BY <1>1, <1>2, <1>4, BeforeIsTotal DEF Slot, SlotTypes
  <2> QED
    BY <1>2, <1>5, <1>6, <2>1 DEF InRange
<1>8. PICK p \in BasePrograms : u \in Mentions(p)
  BY DEF Outstanding, Expected, Projectable, Mentions
<1>9. u \in indexed
  BY <1>1, <1>2, <1>7, <1>8
     DEF StagingSound, AllStaged, QueueOrdered, Rows, DoneIsProjected, Outstanding, Expected, Mentions
<1> QED
  BY <1>3, <1>4, <1>9, BeforeIsTotal

\* The stream delivers the least transaction still to come, so nothing owed lies before it.
LEMMA DeliveryIsOrdered ==
    ASSUME Known, DeliverTransaction, NEW u \in OnChain, Outstanding(u)
    PROVE  ~Before(u, First(Deliverable))
<1> DEFINE f == First(Deliverable)
<1> SUFFICES ASSUME Before(u, f) PROVE FALSE
  OBVIOUS
<1>1. /\ OutstandingAhead /\ SlotTypes /\ Inv /\ pc = "stream" /\ Deliverable # {}
  BY DEF Known, Inv, TypeOK, IngestInv, DeliverTransaction
<1>2. f \in Deliverable /\ \A v \in Deliverable \ {f} : Before(f, v)
  BY <1>1, NextDeliveryIsLeast
<1>3. f \in Nat \X Nat /\ u \in Nat \X Nat /\ Slot(f) = streamSlot
  BY <1>1, <1>2, ChainPositions DEF Deliverable, Inv
<1> HIDE DEF f
<1>4. Slot(u) >= streamSlot /\ Before(streamTx, u)
  BY <1>1 DEF OutstandingAhead, Ahead
<1>5. Slot(u) = streamSlot
  <2>1. Slot(u) <= Slot(f) /\ Slot(u) \in Nat /\ Slot(f) \in Nat
    BY <1>3, BeforeIsTotal DEF Slot
  <2> QED
    BY <1>3, <1>4, <2>1
<1>6. u \in Deliverable
  BY <1>1, <1>4, <1>5, OutstandingIsDeliverable
<1> QED
  BY <1>2, <1>3, <1>6, BeforeIsTotal

\* Reading a transaction takes it, if it is one of a configured program and new.
LEMMA ReadingTakes ==
    ASSUME Known, [Next]_vars, ~ConfirmSlot, NEW t \in OnChain, UNCHANGED historyVars,
           projected' \in {projected, projected \cup {t}},
           \A u \in OnChain : Outstanding(u) => ~Before(u, t)
    PROVE  [Ingest!Next]_(Ingest!vars)
<1>1. Inv /\ blocks' = blocks /\ \A u : Content(u)' = Content(u)
  BY ChainUnderStep, ChainGrowsOnlyByConfirmation DEF Known
<1>2. \A u : Projectable(u, BasePrograms)' <=> Projectable(u, BasePrograms)
  BY <1>1 DEF Projectable
<1>3. CASE Taken' = Taken
  BY <1>1, <1>3 DEF Ingest!vars, Taken
<1>4. CASE Taken' # Taken
  <2>1. Taken' = Taken \cup {t} /\ t \notin Taken
    BY <1>2, <1>4 DEF Taken
  <2>2. t \in Ingest!OnChain \ Taken /\ \A u \in Ingest!Owed : ~Ingest!Before(u, t)
    BY <1>1, <2>1, IngestOwed
  <2>3. Ingest!Take(t)
    BY <1>1, <2>1, <2>2 DEF Ingest!Take, Taken
  <2> QED
    BY <2>2, <2>3 DEF Ingest!Next
<1> QED
  BY <1>3, <1>4

\* A step that confirms, reads and opens nothing is invisible to the reader.
LEMMA NothingRead ==
    ASSUME Inv, [Next]_vars, ~ConfirmSlot, UNCHANGED <<projected, historyVars>>
    PROVE  UNCHANGED Ingest!vars
<1>1. blocks' = blocks /\ \A u : Content(u)' = Content(u)
  BY ChainUnderStep, ChainGrowsOnlyByConfirmation
<1>2. \A u : Projectable(u, BasePrograms)' <=> Projectable(u, BasePrograms)
  BY <1>1 DEF Projectable
<1> QED
  BY <1>1, <1>2 DEF Ingest!vars

\* Every step of the listener is a step of the ordered ingest, or none.
LEMMA IngestStep == Known /\ [Next]_vars => [Ingest!Next]_(Ingest!vars)
<1> SUFFICES ASSUME Known, [Next]_vars PROVE [Ingest!Next]_(Ingest!vars)
  OBVIOUS
<1> USE DEF Opening
<1>1. /\ SlotTypes /\ RowTypes /\ Begun /\ OutstandingAhead /\ BehindHead /\ Inv /\ HeadSlot \in Nat
  BY DEF Known, Inv, TypeOK, IngestInv, HeadSlot
<1>2. CASE ConfirmSlot
  <2>1. PICK b \in BlockChoices[HeadSlot + 1] : blocks' = Append(blocks, b)
    BY <1>2 DEF ConfirmSlot
  <2>2. blocks \in Seq(Seq(Transaction)) /\ Len(blocks) = HeadSlot
    BY <1>1 DEF Inv, TypeOK, HeadSlot
  <2>3. Len(blocks') = Len(blocks) + 1 /\ \A s \in DOMAIN blocks : blocks'[s] = blocks[s]
    BY <2>1, <2>2
  <2>4. UNCHANGED <<baseline, seams, projected>>
    BY <1>2 DEF ConfirmSlot
  <2>5. \A t \in projected : Projectable(t, BasePrograms)' <=> Projectable(t, BasePrograms)
    BY <1>1, ChainOnlyGrows DEF RowTypes, Projectable
  <2>6. UNCHANGED Taken
    BY <2>4, <2>5 DEF Taken
  <2> QED
    BY <2>3, <2>4, <2>6 DEF Ingest!Next, Ingest!Confirm, Taken
<1> SUFFICES ASSUME ~ConfirmSlot PROVE [Ingest!Next]_(Ingest!vars)
  BY <1>2
<1>3. CASE UNCHANGED <<projected, historyVars>>
  BY <1>1, <1>3, NothingRead
<1>4. CASE BeginRecovery
  <2>1. /\ pc = "begin" /\ UNCHANGED projected /\ fromSlot \in Nat
        /\ baseline' = (IF baseline = NoSlot THEN fromSlot ELSE baseline)
        /\ seams' = seams \cup {fromSlot}
    BY <1>1, <1>4 DEF BeginRecovery, SlotTypes
  <2>2. blocks' = blocks /\ \A u : Content(u)' = Content(u)
    BY <1>1, ChainUnderStep, ChainGrowsOnlyByConfirmation
  <2>3. UNCHANGED Taken
    BY <2>1, <2>2 DEF Taken, Projectable
  <2>4. CASE baseline = NoSlot
    <3>1. Ingest!Begin
      BY <2>1, <2>2, <2>3, <2>4 DEF Ingest!Begin, Taken, NoSlot
    <3> QED
      BY <3>1 DEF Ingest!Next
  <2>5. CASE baseline # NoSlot
    <3>1. fromSlot \in 0 .. Len(blocks)
      BY <1>1, <2>1 DEF BehindHead, HeadSlot
    <3>2. \A u \in Ingest!Owed : u[1] >= fromSlot
      BY <1>1, <2>1, IngestOwed DEF OutstandingAhead, Ahead, Slot
    <3>3. Ingest!GiveUp(fromSlot)
      BY <2>1, <2>2, <2>3, <2>5, <3>2 DEF Ingest!GiveUp, Taken, NoSlot
    <3> QED
      BY <3>1, <3>3 DEF Ingest!Next
  <2> QED
    BY <2>4, <2>5
<1>5. CASE ProjectRow
  <2>1. NextRow \in OnChain
    BY <1>1, <1>5, NextRowIsLeast DEF ProjectRow, RowTypes
  <2>2. projected' \in {projected, projected \cup {NextRow}} /\ UNCHANGED historyVars
    BY <1>5 DEF ProjectRow
  <2> QED
    BY <1>5, <2>1, <2>2, ProjectRowIsOrdered, ReadingTakes
<1>6. CASE DeliverTransaction
  <2>1. First(Deliverable) \in OnChain
    BY <1>1, <1>6, NextDeliveryIsLeast DEF DeliverTransaction, Deliverable
  <2>2. projected' \in {projected, projected \cup {First(Deliverable)}} /\ UNCHANGED historyVars
    BY <1>6 DEF DeliverTransaction
  <2> QED
    BY <1>6, <2>1, <2>2, DeliveryIsOrdered, ReadingTakes
<1>7. CASE HeadCacheExpires \/ Start \/ Crash \/ Heartbeat \/ UNCHANGED vars
  BY <1>3, <1>7 DEF HeadCacheExpires, Start, Crash, Heartbeat, vars
<1>8. CASE DecideStream \/ DecideRecover \/ MarkRecoveryGeneration \/ StageProgram \/ StagingDone
  BY <1>3, <1>8 DEF DecideStream, DecideRecover, MarkRecoveryGeneration, StageProgram, StagingDone
<1>9. CASE ResolveSlot \/ IndexesResolved \/ ApplyRecoveryChange \/ StageRegistered
  BY <1>3, <1>9 DEF ResolveSlot, IndexesResolved, ApplyRecoveryChange, StageRegistered
<1>10. CASE AdvanceCheckpoint \/ FinishRow \/ BatchDone \/ CompleteRecovery \/ CleanupRecovery
  BY <1>3, <1>10 DEF AdvanceCheckpoint, FinishRow, BatchDone, CompleteRecovery, CleanupRecovery
<1>11. CASE ApplyRecoveredScope \/ Subscribe \/ SubscribeRefused \/ RecordCheckpoint \/ Rescope
            \/ RescopeUnneeded \/ Regenerate \/ DeliverSlot
  BY <1>3, <1>11 DEF ApplyRecoveredScope, Subscribe, SubscribeRefused, RecordCheckpoint, Rescope,
     RescopeUnneeded, Regenerate, DeliverSlot
<1>12. CASE OpeningFails \/ RecoveryFails \/ SubscribeFails \/ RescopeFails \/ StreamFails \/ StreamEnds
  BY <1>3, <1>12 DEF OpeningFails, RecoveryFails, SubscribeFails, RescopeFails, StreamFails, StreamEnds
<1> QED
  BY <1>4, <1>5, <1>6, <1>7, <1>8, <1>9, <1>10, <1>11, <1>12
     DEF Next, Listener, Recovering, Streaming, Faults

(***************************************************************************)
(* The listener implements the ordered ingest: the read model first sees   *)
(* the configured programs' transactions in chain order, and what is given *)
(* up is the rest of a slot a recovery started from, after everything      *)
(* before it.                                                              *)
(***************************************************************************)
THEOREM IngestIsOrdered == Spec => ImplementsOrderedIngest
<1>1. Init => Ingest!Init
  BY DEF Init, Ingest!Init, NoSlot
<1>2. Known /\ [Next]_vars => [Ingest!Next]_(Ingest!vars)
  BY IngestStep
<1> QED
  BY <1>1, <1>2, NothingGetsBehind, PTL DEF Spec, ImplementsOrderedIngest, Ingest!Spec
-----------------------------------------------------------------------------
(* One scope. *)

\* Where the filter generation in the database is that of the filter.
Generated == {"begin", "cleanup", "subscribe", "stream", "record", "rescope"} \cup Working

\* As long as no call fails, the copies of the scope differ in known places only: the
\* coordinator is ahead of the listener between a change and the end of its recovery.
SameScope ==
    /\ errors = 0
    /\ pc # "down" => tracked = BasePrograms \cup discovered /\ persisted = coordDiscovered
    /\ pc \notin (Working \ {"stage"}) \cup {"down", "cleanup", "scope"} => discovered = persisted
    /\ pc \in Generated => generation = tracked

\* A change reaches every copy, or the process stops and reads the persisted one.
LEMMA SameScopeStep ==
    ASSUME MaxErrors = 0, Inv, SameScope, [Next]_vars
    PROVE  SameScope'
<1> USE DEF Working, Generated
<1>1. ScopeTypes /\ RowKnown /\ errors = 0 /\ ~(errors < MaxErrors)
  BY DEF Inv, TypeOK, SameScope
<1>2. CASE UNCHANGED <<errors, tracked, discovered, persisted, coordDiscovered, generation, pc>>
  BY <1>2 DEF SameScope
<1>3. CASE Crash
  BY <1>1, <1>3 DEF Crash, SameScope
<1>4. CASE Start
  BY <1>1, <1>4 DEF Start, SameScope
<1>5. CASE DecideStream \/ DecideRecover
  BY <1>1, <1>5 DEF DecideStream, DecideRecover, SameScope
<1>6. CASE MarkRecoveryGeneration
  BY <1>1, <1>6 DEF MarkRecoveryGeneration, MarkFilterGeneration, SameScope
<1>7. CASE BeginRecovery \/ StageProgram \/ StagingDone \/ ResolveSlot \/ IndexesResolved
  BY <1>1, <1>7 DEF BeginRecovery, StageProgram, StagingDone, ResolveSlot, IndexesResolved, SameScope
<1>8. CASE ProjectRow
  BY <1>1, <1>8 DEF ProjectRow, SameScope
<1>9. CASE ApplyRecoveryChange
  <2>1. persisted' = coordDiscovered' /\ pc = "change" /\ pc' \in {"late", "advance"}
        /\ UNCHANGED <<errors, tracked, discovered, generation>>
    BY <1>9 DEF ApplyRecoveryChange, SameScope
  <2> QED
    BY <1>1, <2>1 DEF SameScope
<1>10. CASE StageRegistered \/ AdvanceCheckpoint \/ FinishRow \/ BatchDone \/ CompleteRecovery \/ CleanupRecovery
  BY <1>1, <1>10 DEF StageRegistered, AdvanceCheckpoint, FinishRow, BatchDone, CompleteRecovery,
     CleanupRecovery, SameScope
<1>11. CASE ApplyRecoveredScope
  <2>1. tracked' = BasePrograms \cup discovered' /\ discovered' = persisted' /\ generation' = tracked'
    BY <1>1, <1>11 DEF ApplyRecoveredScope, MarkFilterGeneration, RecoveredFilter, SameScope
  <2> QED
    BY <1>1, <1>11, <2>1 DEF ApplyRecoveredScope, SameScope
<1>12. CASE Subscribe \/ DeliverTransaction \/ RecordCheckpoint \/ RescopeUnneeded \/ DeliverSlot
  BY <1>1, <1>12 DEF Subscribe, DeliverTransaction, RecordCheckpoint, RescopeUnneeded, DeliverSlot, SameScope
<1>13. CASE Rescope
  BY <1>1, <1>13 DEF Rescope, SameScope
<1>14. CASE Regenerate \/ SubscribeRefused
  BY <1>1, <1>14 DEF Regenerate, SubscribeRefused, LoopAgain, SameScope
<1>15. CASE ConfirmSlot \/ HeadCacheExpires \/ Heartbeat \/ UNCHANGED vars
  BY <1>2, <1>15 DEF ConfirmSlot, HeadCacheExpires, Heartbeat, vars
<1>16. ~(OpeningFails \/ RecoveryFails \/ SubscribeFails \/ RescopeFails \/ StreamFails \/ StreamEnds)
  BY <1>1 DEF OpeningFails, RecoveryFails, SubscribeFails, RescopeFails, StreamFails, StreamEnds
<1> QED
  BY <1>3, <1>4, <1>5, <1>6, <1>7, <1>8, <1>9, <1>10, <1>11, <1>12, <1>13, <1>14, <1>15, <1>16
     DEF Next, Listener, Recovering, Streaming, Faults

\* At the start there is no scope but the configured one.
LEMMA InitSameScope == Init => SameScope
BY DEF Init, SameScope, Working, Generated

(***************************************************************************)
(* While the stream runs, its filter, the listener's set, the persisted    *)
(* set and the generation in the database are one scope, whatever the      *)
(* registry did and however often the process stopped, unless a call       *)
(* failed.                                                                 *)
(***************************************************************************)
THEOREM ScopeIsOne ==
    ASSUME MaxErrors = 0
    PROVE  Spec => []OneScope
<1>1. Inv /\ SameScope /\ [Next]_vars => SameScope'
  BY SameScopeStep
<1>2. SameScope => OneScope
  BY DEF SameScope, OneScope, Working, Generated
<1> QED
  BY <1>1, <1>2, InitSameScope, Invariance, PTL DEF Spec

-----------------------------------------------------------------------------
(* What the coverage claims of extensions. *)

\* No call fails, the stream follows the registry, and nothing is removed from it.
OnlyRegistered ==
    /\ MaxErrors = 0
    /\ AutoDiscovery
    /\ \A s \in 1 .. MaxSlot : \A b \in BlockChoices[s] : \A i \in DOMAIN b : b[i].op # "remove"

\* A registration nobody has acted on yet, and a transaction of a registered extension
\* that is not in the read model.
Unheard(t) == Content(t).ok /\ Content(t).op = "register" /\ Content(t).ext \notin persisted
LackedBy(e, t) == /\ Owed(t) /\ Content(t).ok /\ t \notin projected
                  /\ e \in Content(t).touch \cap Extensions /\ RegisteredAt(e, t)

\* What ingestion answers for and has not done.
Pending(t) == \/ Outstanding(t)
              \/ Owed(t) /\ Unheard(t)
              \/ \E e \in persisted : LackedBy(e, t)

\* Where it can be. Unlike Ahead, the row at hand may be pending: its registration is
\* projected before it is acted on.
AheadOf(t) ==
    /\ recTarget = NoSlot => Slot(t) >= checkpoint /\ Slot(t) > coverage
    /\ recTarget # NoSlot => Slot(t) > recFrom
    /\ pc \in Opening \cup {"scope", "subscribe"} => Slot(t) >= fromSlot
    /\ pc = "cleanup" => Slot(t) > targetSlot
    /\ pc = "stream" => Slot(t) >= streamSlot /\ Before(streamTx, t)
    /\ pc \in {"record", "rescope"} => Slot(t) >= streamSlot /\ ~Before(t, row)
    /\ pc = "regenerate" => Slot(t) >= streamSlot /\ Before(row, t)

PendingAhead == \A t \in OnChain : Pending(t) => AheadOf(t)

\* The programs a recovery knows, and the rows it has for them.
ProgramsKnown ==
    /\ pc # "down" => discovered \subseteq persisted
    /\ todo \subseteq BasePrograms \cup persisted
    /\ \A p \in Programs : cursor[p] # NoTx => p \in BasePrograms \cup persisted
    /\ pc = "late" => Content(row).ext \in persisted \ discovered

RowsHeard ==
    /\ \A t \in Rows : Content(t).touch \cap (BasePrograms \cup persisted) # {}
    /\ \A t \in finished : Content(t).ok => t \in projected /\ ~Unheard(t)

RowHeard ==
    /\ pc \in WithRow => (Content(row).ok => row \in projected) /\ \A u \in indexed : ~Before(u, row)
    /\ pc \in {"late", "advance", "finish"} => ~Unheard(row)
    /\ pc \in {"record", "rescope", "regenerate"} => row \in projected

\* StagingSound, for all programs of the window's generation.
ScopeStaged ==
    /\ recTarget # NoSlot => \A p \in generation : Staged(p, recFrom, recTarget)
    /\ pc \in Opening => \A p \in tracked : Staged(p, fromSlot, targetSlot)
    /\ pc \in Working => \A p \in generation \ todo : AllStaged(p)

\* An extension registered on the way is staged from its registration on.
StagedLate(e) == \A t \in OnChain : LackedBy(e, t) /\ Slot(t) <= targetSlot => t \in Rows

LateStaged ==
    /\ pc = "late" =>
        /\ Staged(Content(row).ext, RegisteredFromSlot(Slot(row)), targetSlot)
        /\ \A t \in OnChain : LackedBy(Content(row).ext, t) => Slot(t) >= Slot(row)
    /\ pc \in Working \ {"stage"} =>
        \A e \in persisted \ discovered : (pc = "late" /\ e = Content(row).ext) \/ StagedLate(e)

ScopeInv == /\ SameScope /\ ProgramsKnown /\ RowsHeard /\ RowHeard /\ ScopeStaged
            /\ LateStaged /\ PendingAhead

\* Everything known of a listener whose calls succeed when a step begins.
AllKnown == Known /\ ScopeInv

\* The registry only grows.
LEMMA OnlyRegistrations ==
    ASSUME OnlyRegistered, Inv, NEW t \in OnChain
    PROVE  Content(t).op \in {"none", "register"}
<1>1. PICK s \in DOMAIN blocks : \E i \in DOMAIN blocks[s] : t = <<s, i>>
  BY DEF OnChain
<1>2. PICK i \in DOMAIN blocks[s] : t = <<s, i>>
  BY <1>1
<1>3. s \in 1 .. MaxSlot /\ blocks[s] \in BlockChoices[s] /\ blocks[s] \in Seq(Transaction)
  BY <1>1, ConstantsAssumption DEF ChainKnown, Inv, TypeOK
<1>4. blocks[s][i] \in Transaction /\ blocks[s][i].op # "remove"
  BY <1>2, <1>3 DEF OnlyRegistered
<1>5. Content(t) = blocks[s][i]
  BY <1>2 DEF Content
<1> QED
  BY <1>4, <1>5 DEF Transaction

\* A change on the chain is one of the registry factory, so of a configured program.
LEMMA ChangeTouchesBase ==
    ASSUME Inv, NEW t \in OnChain, Content(t).op # "none"
    PROVE  \E p \in BasePrograms : t \in Mentions(p)
<1>1. PICK s \in DOMAIN blocks : \E i \in DOMAIN blocks[s] : t = <<s, i>>
  BY DEF OnChain
<1>2. s \in 1 .. MaxSlot /\ blocks[s] \in BlockChoices[s]
  BY <1>1, ConstantsAssumption DEF ChainKnown, Inv, TypeOK
<1> QED
  BY <1>1, <1>2, RegistryAssumption DEF Content, Mentions

\* A transaction of an extension nobody knows has an unheard registration before it.
LEMMA UnheardBefore ==
    ASSUME NEW e, NEW t, LackedBy(e, t), e \notin persisted
    PROVE  \E u \in OnChain : Owed(u) /\ Unheard(u) /\ ~Before(t, u)
BY DEF LackedBy, RegisteredAt, Unheard

\* Only the start of a recovery changes what is owed.
LEMMA HistoryUnderStep == [Next]_vars => BeginRecovery \/ UNCHANGED historyVars
<1> SUFFICES ASSUME [Next]_vars, ~BeginRecovery PROVE UNCHANGED historyVars
  OBVIOUS
<1>1. CASE ConfirmSlot \/ HeadCacheExpires \/ Start \/ Crash \/ Heartbeat \/ UNCHANGED vars
  BY <1>1 DEF ConfirmSlot, HeadCacheExpires, Start, Crash, Heartbeat, vars
<1>2. CASE DecideStream \/ DecideRecover \/ MarkRecoveryGeneration \/ StageProgram \/ StagingDone
  BY <1>2 DEF DecideStream, DecideRecover, MarkRecoveryGeneration, StageProgram, StagingDone
<1>3. CASE ResolveSlot \/ IndexesResolved \/ ProjectRow \/ ApplyRecoveryChange \/ StageRegistered
  BY <1>3 DEF ResolveSlot, IndexesResolved, ProjectRow, ApplyRecoveryChange, StageRegistered
<1>4. CASE AdvanceCheckpoint \/ FinishRow \/ BatchDone \/ CompleteRecovery \/ CleanupRecovery
  BY <1>4 DEF AdvanceCheckpoint, FinishRow, BatchDone, CompleteRecovery, CleanupRecovery
<1>5. CASE Streaming
  BY <1>5 DEF Streaming, ApplyRecoveredScope, Subscribe, SubscribeRefused, DeliverTransaction,
     RecordCheckpoint, Rescope, RescopeUnneeded, Regenerate, DeliverSlot
<1>6. CASE Faults
  BY <1>1, <1>6 DEF Faults, OpeningFails, RecoveryFails, SubscribeFails, RescopeFails, StreamFails, StreamEnds
<1> QED
  BY <1>1, <1>2, <1>3, <1>4, <1>5, <1>6 DEF Next, Listener, Recovering

LEMMA OwedUnderStep ==
    ASSUME Inv, [Next]_vars, ~(BeginRecovery /\ baseline = NoSlot), NEW t, Owed(t)'
    PROVE  Owed(t)
<1>1. CASE UNCHANGED historyVars
  BY <1>1 DEF Owed, Slot
<1>2. CASE BeginRecovery
  BY <1>2 DEF BeginRecovery, Owed, Slot
<1> QED
  BY <1>1, <1>2, HistoryUnderStep

\* Nothing on the chain comes to be lacked but at the first window's start.
LEMMA LackedUnderStep ==
    ASSUME Inv, [Next]_vars, ~(BeginRecovery /\ baseline = NoSlot), NEW e, NEW t \in OnChain,
           LackedBy(e, t)'
    PROVE  LackedBy(e, t)
<1>1. Owed(t) /\ projected \subseteq projected' /\ Content(t)' = Content(t)
  BY OwedUnderStep, CursorsAdvanceStep, ChainOnlyGrows DEF LackedBy
<1>2. PICK u \in OnChain' :
        /\ Owed(u)' /\ ~Before(t, u)'
        /\ Content(u)'.ok /\ Content(u)'.op = "register" /\ Content(u)'.ext = e
        /\ \A v \in OnChain' : Content(v)'.ok /\ Content(v)'.op = "remove" /\ Content(v)'.ext = e
                                 => Before(v, u)' \/ Before(t, v)'
  BY DEF LackedBy, RegisteredAt
<1>3. HeadSlot \in Nat /\ \A v \in OnChain : Slot(v) \in Nat \ {0} /\ Slot(v) <= HeadSlot
  BY ChainUnderStep
<1>4. u \in OnChain
  <2> SUFFICES ASSUME u \notin OnChain PROVE FALSE
    OBVIOUS
  <2>1. Slot(u) = HeadSlot + 1
    BY ChainUnderStep
  <2>2. Slot(t) < Slot(u)
    BY <1>3, <2>1
  <2> QED
    BY <1>2, <2>2 DEF Before, Slot
<1>5. OnChain \subseteq OnChain' /\ \A v \in OnChain : Content(v)' = Content(v)
  BY ChainOnlyGrows
<1>6. Owed(u)
  BY <1>2, OwedUnderStep
<1>7. RegisteredAt(e, t)
  BY <1>2, <1>4, <1>5, <1>6 DEF RegisteredAt, Before
<1> QED
  BY <1>1, <1>7 DEF LackedBy

-----------------------------------------------------------------------------
(* The invariant is preserved, part by part. *)

\* The persisted scope grows by the extension a row registers, or not at all.
LEMMA ScopeGrows ==
    ASSUME OnlyRegistered, AllKnown, [Next]_vars
    PROVE  \/ UNCHANGED persisted
           \/ /\ ApplyRecoveryChange \/ Rescope
              /\ Content(row).ext \in Extensions \ persisted
              /\ persisted' = persisted \cup {Content(row).ext}
<1> USE DEF Working
<1>1. SameScope /\ RowKnown /\ Inv /\ errors = 0 /\ ~(errors < MaxErrors)
  BY DEF AllKnown, Known, ScopeInv, SameScope, Inv, OnlyRegistered
<1>2. CASE ApplyRecoveryChange
  <2>1. pc = "change" /\ row \in OnChain /\ Content(row).op = "register" /\ Content(row).ext \in Extensions
    BY <1>1, <1>2, OnlyRegistrations, ChangeNamesExtension DEF ApplyRecoveryChange, RowKnown, Inv
  <2>2. persisted = coordDiscovered
    BY <1>1, <2>1 DEF SameScope
  <2> QED
    BY <1>2, <2>1, <2>2 DEF ApplyRecoveryChange
<1>3. CASE Rescope
  <2>1. pc = "rescope" /\ row \in OnChain /\ Content(row).op = "register" /\ Content(row).ext \in Extensions
    BY <1>1, <1>3, OnlyRegistrations, ChangeNamesExtension DEF Rescope, RowKnown, Inv
  <2>2. persisted = discovered
    BY <1>1, <2>1 DEF SameScope
  <2> QED
    BY <1>3, <2>1, <2>2 DEF Rescope, ChangedScope
<1>4. CASE ConfirmSlot \/ HeadCacheExpires \/ Start \/ Crash \/ Heartbeat \/ UNCHANGED vars
  BY <1>4 DEF ConfirmSlot, HeadCacheExpires, Start, Crash, Heartbeat, vars
<1>5. CASE DecideStream \/ DecideRecover \/ MarkRecoveryGeneration \/ BeginRecovery \/ StageProgram \/ StagingDone
  BY <1>5 DEF DecideStream, DecideRecover, MarkRecoveryGeneration, BeginRecovery, StageProgram, StagingDone
<1>6. CASE ResolveSlot \/ IndexesResolved \/ ProjectRow \/ StageRegistered
  BY <1>6 DEF ResolveSlot, IndexesResolved, ProjectRow, StageRegistered
<1>7. CASE AdvanceCheckpoint \/ FinishRow \/ BatchDone \/ CompleteRecovery \/ CleanupRecovery
  BY <1>7 DEF AdvanceCheckpoint, FinishRow, BatchDone, CompleteRecovery, CleanupRecovery
<1>8. CASE ApplyRecoveredScope \/ Subscribe \/ SubscribeRefused \/ DeliverTransaction \/ RecordCheckpoint
           \/ RescopeUnneeded \/ Regenerate \/ DeliverSlot
  BY <1>8 DEF ApplyRecoveredScope, Subscribe, SubscribeRefused, DeliverTransaction,
     RecordCheckpoint, RescopeUnneeded, Regenerate, DeliverSlot
<1>9. ~(OpeningFails \/ RecoveryFails \/ SubscribeFails \/ RescopeFails \/ StreamFails \/ StreamEnds)
  BY <1>1 DEF OpeningFails, RecoveryFails, SubscribeFails, RescopeFails, StreamFails, StreamEnds
<1> QED
  BY <1>2, <1>3, <1>4, <1>5, <1>6, <1>7, <1>8, <1>9 DEF Next, Listener, Recovering, Streaming, Faults

\* A call that fails is no step of such a listener.
LEMMA NoCallFails ==
    ASSUME OnlyRegistered, AllKnown
    PROVE  ~(OpeningFails \/ RecoveryFails \/ SubscribeFails \/ RescopeFails \/ StreamFails \/ StreamEnds)
<1>1. errors = 0 /\ ~(errors < MaxErrors)
  BY DEF AllKnown, ScopeInv, SameScope, OnlyRegistered
<1> QED
  BY <1>1 DEF OpeningFails, RecoveryFails, SubscribeFails, RescopeFails, StreamFails, StreamEnds

\* A recovery pages for programs of the persisted scope only.
LEMMA ProgramsKnownStep ==
    ASSUME OnlyRegistered, AllKnown, [Next]_vars
    PROVE  ProgramsKnown'
<1> USE DEF Working
<1>1. SameScope /\ ProgramsKnown /\ RowTypes /\ RowKnown /\ ScopeTypes /\ Inv /\ persisted \subseteq persisted'
  BY ScopeGrows DEF AllKnown, Known, ScopeInv, Inv, TypeOK
<1>2. CASE UNCHANGED <<discovered, todo, cursor, pc, row, blocks>>
  BY <1>1, <1>2 DEF ProgramsKnown, Content
<1>3. CASE UNCHANGED <<discovered, todo, cursor>> /\ pc' # "late" /\ (pc = "down" => pc' = "down")
  BY <1>1, <1>3 DEF ProgramsKnown
<1>4. CASE ConfirmSlot
  <2>1. UNCHANGED <<discovered, todo, cursor, pc, row>>
    BY <1>4 DEF ConfirmSlot
  <2>2. pc = "late" => Content(row)' = Content(row)
    BY <1>1, <2>1, ChainOnlyGrows DEF RowKnown, Content
  <2> QED
    BY <1>1, <2>1, <2>2 DEF ProgramsKnown
<1>5. CASE Start \/ Crash
  BY <1>1, <1>5 DEF Start, Crash, ProgramsKnown
<1>6. CASE DecideRecover
  BY <1>1, <1>6 DEF DecideRecover, ProgramsKnown
<1>7. CASE BeginRecovery
  BY <1>1, <1>7 DEF BeginRecovery, ProgramsKnown, SameScope
<1>8. CASE StageProgram
  <2> DEFINE p == CHOOSE q \in todo : TRUE
  <2>1. p \in todo /\ StagePage(p, fromSlot) /\ todo' \subseteq todo /\ pc = "stage" /\ pc' = "stage"
        /\ UNCHANGED <<discovered, persisted>>
    BY <1>8 DEF StageProgram
  <2> HIDE DEF p
  <2>2. \A q \in Programs \ {p} : cursor'[q] = cursor[q]
    BY <1>1, <2>1 DEF StagePage, RowTypes
  <2> QED
    BY <1>1, <2>1, <2>2 DEF ProgramsKnown
<1>9. CASE StageRegistered
  <2> DEFINE p == Content(row).ext
  <2>1. StagePage(p, RegisteredFromSlot(Slot(row))) /\ pc = "late" /\ pc' \in {"late", "advance"}
        /\ UNCHANGED <<discovered, persisted, todo, row, blocks>>
    BY <1>9 DEF StageRegistered
  <2>2. p \in persisted \ discovered /\ Content(row)' = Content(row)
    BY <1>1, <2>1 DEF ProgramsKnown, Content
  <2> HIDE DEF p
  <2>3. \A q \in Programs \ {p} : cursor'[q] = cursor[q]
    BY <1>1, <2>1 DEF StagePage, RowTypes
  <2> QED
    BY <1>1, <2>1, <2>2, <2>3 DEF ProgramsKnown, p
<1>10. CASE ApplyRecoveryChange
  <2>1. /\ UNCHANGED <<discovered, todo, cursor, row, blocks>> /\ pc = "change" /\ persisted' = coordDiscovered'
        /\ pc' = "late" => Content(row).ext \in coordDiscovered' \ coordDiscovered
    BY <1>1, <1>10 DEF ApplyRecoveryChange, SameScope
  <2>2. persisted = coordDiscovered /\ discovered \subseteq persisted /\ Content(row)' = Content(row)
    BY <1>1, <2>1 DEF SameScope, ProgramsKnown, Content
  <2> QED
    BY <1>1, <2>1, <2>2 DEF ProgramsKnown
<1>11. CASE CleanupRecovery
  BY <1>1, <1>11 DEF CleanupRecovery, ProgramsKnown
<1>12. CASE ApplyRecoveredScope
  BY <1>1, <1>12 DEF ApplyRecoveredScope, ProgramsKnown, SameScope
<1>13. CASE Rescope
  BY <1>1, <1>13 DEF Rescope, ProgramsKnown
<1>14. CASE Regenerate \/ SubscribeRefused
  BY <1>1, <1>14 DEF Regenerate, SubscribeRefused, LoopAgain, ProgramsKnown
<1>15. CASE HeadCacheExpires \/ Heartbeat \/ UNCHANGED vars
  BY <1>2, <1>15 DEF HeadCacheExpires, Heartbeat, vars
<1>16. CASE DecideStream \/ MarkRecoveryGeneration \/ StagingDone \/ ResolveSlot \/ IndexesResolved \/ ProjectRow
  BY <1>3, <1>16 DEF DecideStream, MarkRecoveryGeneration, StagingDone, ResolveSlot, IndexesResolved, ProjectRow
<1>17. CASE AdvanceCheckpoint \/ FinishRow \/ BatchDone \/ CompleteRecovery
  BY <1>3, <1>17 DEF AdvanceCheckpoint, FinishRow, BatchDone, CompleteRecovery
<1>18. CASE Subscribe \/ DeliverTransaction \/ RecordCheckpoint \/ RescopeUnneeded \/ DeliverSlot
  BY <1>3, <1>18 DEF Subscribe, DeliverTransaction, RecordCheckpoint, RescopeUnneeded, DeliverSlot
<1> QED
  BY <1>4, <1>5, <1>6, <1>7, <1>8, <1>9, <1>10, <1>11, <1>12, <1>13, <1>14, <1>15, <1>16,
     <1>17, <1>18, NoCallFails DEF Next, Listener, Recovering, Streaming, Faults

\* What is heard of stays heard of.
LEMMA UnheardUnderStep ==
    ASSUME OnlyRegistered, AllKnown, [Next]_vars, NEW t \in OnChain
    PROVE  Unheard(t)' => Unheard(t)
<1>1. persisted \subseteq persisted' /\ Content(t)' = Content(t)
  BY ScopeGrows, ChainOnlyGrows DEF AllKnown, Known
<1> QED
  BY <1>1 DEF Unheard

\* Staged rows mention a program of the scope; the ones that are done were acted on.
LEMMA RowsHeardStep ==
    ASSUME OnlyRegistered, AllKnown, [Next]_vars
    PROVE  RowsHeard'
<1> USE DEF WithRow
<1>1. /\ SameScope /\ ProgramsKnown /\ RowsHeard /\ RowHeard /\ RowTypes /\ RowKnown /\ Inv
      /\ persisted \subseteq persisted' /\ projected \subseteq projected'
  BY ScopeGrows, CursorsAdvanceStep DEF AllKnown, Known, ScopeInv, Inv, TypeOK
<1>2. /\ \A t \in OnChain : Content(t)' = Content(t) /\ (Unheard(t)' => Unheard(t))
      /\ Rows \subseteq OnChain /\ finished \subseteq OnChain
  BY <1>1, ChainOnlyGrows, UnheardUnderStep DEF Rows, RowTypes
<1>3. CASE Rows' \subseteq Rows /\ finished' \subseteq finished
  BY <1>1, <1>2, <1>3 DEF RowsHeard
<1>4. ASSUME NEW p \in BasePrograms \cup persisted, NEW from, StagePage(p, from) PROVE RowsHeard'
  <2>1. finished' = finished /\ \A t \in Rows' \ Rows : t \in Mentions(p)
    BY <1>4 DEF StagePage, Rows, Page
  <2>2. \A t \in Rows' \ Rows : t \in OnChain /\ p \in Content(t).touch
    BY <2>1 DEF Mentions
  <2> QED
    BY <1>1, <1>2, <1>4, <2>1, <2>2 DEF RowsHeard
<1>5. CASE StageProgram
  <2>1. PICK p \in todo : StagePage(p, fromSlot)
    BY <1>5 DEF StageProgram
  <2> QED
    BY <1>1, <1>4, <2>1 DEF ProgramsKnown
<1>6. CASE StageRegistered
  BY <1>1, <1>4, <1>6 DEF StageRegistered, ProgramsKnown
<1>7. CASE FinishRow
  <2>1. pc = "finish" /\ row \in OnChain /\ finished' = finished \cup {row} /\ UNCHANGED unindexed
        /\ indexed' \subseteq indexed
    BY <1>1, <1>7 DEF FinishRow, RowKnown
  <2>2. row \in indexed
    BY <2>1 DEF AllKnown, Known, WindowInv
  <2>3. Rows' \subseteq Rows
    BY <2>1, <2>2 DEF Rows
  <2>4. (Content(row).ok => row \in projected) /\ ~Unheard(row)
    BY <1>1, <2>1 DEF RowHeard
  <2> QED
    BY <1>1, <1>2, <2>1, <2>3, <2>4 DEF RowsHeard
<1>8. CASE ResolveSlot
  BY <1>3, <1>8 DEF ResolveSlot, Rows
<1>9. CASE ConfirmSlot \/ HeadCacheExpires \/ Start \/ Crash \/ Heartbeat \/ UNCHANGED vars
  BY <1>3, <1>9 DEF ConfirmSlot, HeadCacheExpires, Start, Crash, Heartbeat, vars, Rows
<1>10. CASE DecideStream \/ DecideRecover \/ MarkRecoveryGeneration \/ BeginRecovery \/ StagingDone
  BY <1>3, <1>10 DEF DecideStream, DecideRecover, MarkRecoveryGeneration, BeginRecovery, StagingDone, Rows
<1>11. CASE IndexesResolved \/ ProjectRow \/ ApplyRecoveryChange \/ AdvanceCheckpoint \/ BatchDone
  BY <1>3, <1>11 DEF IndexesResolved, ProjectRow, ApplyRecoveryChange, AdvanceCheckpoint, BatchDone, Rows
<1>12. CASE CompleteRecovery \/ CleanupRecovery \/ ApplyRecoveredScope \/ Subscribe \/ SubscribeRefused
  BY <1>3, <1>12 DEF CompleteRecovery, CleanupRecovery, ApplyRecoveredScope, Subscribe, SubscribeRefused, Rows
<1>13. CASE DeliverTransaction \/ RecordCheckpoint \/ Rescope \/ RescopeUnneeded \/ Regenerate \/ DeliverSlot
  BY <1>3, <1>13 DEF DeliverTransaction, RecordCheckpoint, Rescope, RescopeUnneeded, Regenerate, DeliverSlot, Rows
<1> QED
  BY <1>5, <1>6, <1>7, <1>8, <1>9, <1>10, <1>11, <1>12, <1>13, NoCallFails
     DEF Next, Listener, Recovering, Streaming, Faults

\* The row at hand is the oldest one with an index, and is acted on before it is done.
LEMMA RowHeardStep ==
    ASSUME OnlyRegistered, AllKnown, [Next]_vars
    PROVE  RowHeard'
<1> USE DEF WithRow, Working
<1>1. /\ SameScope /\ RowsHeard /\ RowHeard /\ RowTypes /\ RowKnown /\ Inv
      /\ projected \subseteq projected'
  BY CursorsAdvanceStep DEF AllKnown, Known, ScopeInv, Inv, TypeOK
<1>2. \A t \in OnChain : Content(t)' = Content(t) /\ (Unheard(t)' => Unheard(t))
  BY <1>1, ChainOnlyGrows, UnheardUnderStep
<1>3. CASE UNCHANGED <<pc, row, indexed>>
  <2>1. \A u : Before(u, row)' <=> Before(u, row)
    BY <1>3 DEF Before
  <2> QED
    BY <1>1, <1>2, <1>3, <2>1 DEF RowHeard, RowKnown
<1>4. CASE pc' \notin WithRow \cup {"record", "rescope", "regenerate"}
  BY <1>4 DEF RowHeard
<1>5. CASE ProjectRow
  <2>1. /\ pc = "project" /\ indexed # {} /\ row' = NextRow /\ UNCHANGED <<indexed, blocks, persisted>>
        /\ projected' = (IF Projectable(NextRow, RecoveryScope) THEN projected \cup {NextRow} ELSE projected)
        /\ pc' = (IF Projectable(NextRow, RecoveryScope) /\ Content(NextRow).op # "none"
                    THEN "change" ELSE "advance")
    BY <1>5 DEF ProjectRow
  <2>2. NextRow \in indexed /\ NextRow \in OnChain /\ \A u \in indexed \ {NextRow} : Before(NextRow, u)
    BY <1>1, <2>1, NextRowIsLeast DEF RowTypes
  <2>3. \A u \in indexed : ~Before(u, NextRow)
    <3>1. OnChain \subseteq Nat \X Nat /\ indexed \subseteq OnChain
      BY <1>1, ChainPositions DEF Inv, RowTypes
    <3> QED
      BY <2>2, <3>1, BeforeIsTotal
  <2>4. Content(NextRow).ok => Projectable(NextRow, RecoveryScope)
    BY <1>1, <2>1, <2>2 DEF Projectable, RecoveryScope, SameScope, RowsHeard, Rows
  <2>5. pc' = "advance" => ~Unheard(NextRow)
    BY <2>1, <2>4 DEF Unheard
  <2>6. \A u : Before(u, row)' <=> Before(u, NextRow)
    BY <2>1 DEF Before
  <2>7. Content(row)' = Content(NextRow) /\ (Unheard(row)' <=> Unheard(NextRow))
    BY <2>1 DEF Content, Unheard
  <2>8. pc' \in {"change", "advance"}
    BY <2>1
  <2> QED
    BY <2>1, <2>3, <2>4, <2>5, <2>6, <2>7, <2>8 DEF RowHeard
<1>6. CASE ApplyRecoveryChange
  <2>1. /\ pc = "change" /\ pc' \in {"late", "advance"} /\ UNCHANGED <<row, indexed, projected, blocks>>
        /\ persisted' = coordDiscovered'
        /\ Content(row).op = "register" => Content(row).ext \in coordDiscovered'
    BY <1>1, <1>6 DEF ApplyRecoveryChange, SameScope
  <2>2. Content(row)' = Content(row) /\ ~Unheard(row)'
    BY <2>1 DEF Content, Unheard
  <2>3. \A u : Before(u, row)' <=> Before(u, row)
    BY <2>1 DEF Before
  <2> QED
    BY <1>1, <2>1, <2>2, <2>3 DEF RowHeard
<1>7. CASE StageRegistered \/ AdvanceCheckpoint
  <2>1. pc \in {"late", "advance"} /\ pc' \in {"late", "advance", "finish"} /\ UNCHANGED <<row, indexed, projected, blocks, persisted>>
    BY <1>7 DEF StageRegistered, StagePage, AdvanceCheckpoint
  <2>2. \A u : Before(u, row)' <=> Before(u, row)
    BY <2>1 DEF Before
  <2>3. Content(row)' = Content(row) /\ (Unheard(row)' <=> Unheard(row))
    BY <2>1 DEF Content, Unheard
  <2> QED
    BY <1>1, <2>1, <2>2, <2>3 DEF RowHeard
<1>8. CASE DeliverTransaction
  BY <1>8 DEF DeliverTransaction, RowHeard
<1>9. CASE RecordCheckpoint
  BY <1>1, <1>9 DEF RecordCheckpoint, RowHeard
<1>10. CASE Rescope
  BY <1>1, <1>10 DEF Rescope, RowHeard
<1>11. CASE ConfirmSlot \/ HeadCacheExpires \/ Heartbeat \/ UNCHANGED vars
  BY <1>3, <1>11 DEF ConfirmSlot, HeadCacheExpires, Heartbeat, vars
<1>12. CASE Start \/ Crash \/ DecideStream \/ DecideRecover \/ MarkRecoveryGeneration \/ BeginRecovery
  BY <1>4, <1>12 DEF Start, Crash, DecideStream, DecideRecover, MarkRecoveryGeneration, BeginRecovery
<1>13. CASE StageProgram \/ StagingDone \/ ResolveSlot \/ IndexesResolved \/ FinishRow \/ BatchDone
  BY <1>4, <1>13 DEF StageProgram, StagingDone, ResolveSlot, IndexesResolved, FinishRow, BatchDone
<1>14. CASE CompleteRecovery \/ CleanupRecovery \/ ApplyRecoveredScope \/ Subscribe \/ SubscribeRefused
            \/ RescopeUnneeded \/ Regenerate \/ DeliverSlot
  BY <1>4, <1>14 DEF CompleteRecovery, CleanupRecovery, ApplyRecoveredScope, Subscribe, SubscribeRefused,
     RescopeUnneeded, Regenerate, DeliverSlot, LoopAgain
<1> QED
  BY <1>5, <1>6, <1>7, <1>8, <1>9, <1>10, <1>11, <1>12, <1>13, <1>14, NoCallFails
     DEF Next, Listener, Recovering, Streaming, Faults

\* What was staged stays staged while its cursor stands.
LEMMA StagedUnderStep ==
    ASSUME Inv, [Next]_vars, NEW from, NEW target \in Nat \cup {NoSlot}, target <= HeadSlot, NEW p,
           cursor'[p] = cursor[p], Rows \subseteq Rows', Staged(p, from, target)
    PROVE  cursor'[p] # NoTx =>
               \A t \in Mentions(p)' : InRange(t, from, target) /\ ~Before(t, cursor'[p]) => t \in Rows'
<1>1. ASSUME NEW t \in Mentions(p)', InRange(t, from, target) PROVE t \in Mentions(p)
  <2>1. t \in OnChain'
    BY DEF Mentions
  <2>2. HeadSlot \in Nat
    BY ChainUnderStep
  <2>3. Slot(t) <= HeadSlot
    BY <1>1, <2>1, <2>2, ChainUnderStep, NoSlotIsLowest DEF InRange
  <2> QED
    BY <2>3, MentionsUnderStep
<1> QED
  BY <1>1 DEF Staged

LEMMA AllStagedUnderStep ==
    ASSUME Inv, BehindHead, [Next]_vars, NEW p, UNCHANGED rangeVars, Rows \subseteq Rows', AllStaged(p)
    PROVE  AllStaged(p)'
<1>1. targetSlot \in Nat \cup {NoSlot} /\ targetSlot <= HeadSlot /\ HeadSlot \in Nat
  BY ChainUnderStep DEF Inv, TypeOK, SlotTypes, BehindHead
<1>2. ASSUME NEW t \in Mentions(p)', InRange(t, fromSlot, targetSlot) PROVE t \in Mentions(p)
  <2>1. t \in OnChain'
    BY DEF Mentions
  <2>2. Slot(t) <= HeadSlot
    BY <1>1, <1>2, <2>1, ChainUnderStep, NoSlotIsLowest DEF InRange
  <2> QED
    BY <2>2, MentionsUnderStep
<1> QED
  BY <1>2 DEF AllStaged, InRange, Slot

\* The staging of the generation's programs leaves no gap, across restarts: a window that is
\* resumed over another program set is staged anew.
LEMMA ScopeStagedStep ==
    ASSUME OnlyRegistered, AllKnown, [Next]_vars
    PROVE  ScopeStaged'
<1> USE DEF Opening, Working, WithRow
<1>1. /\ SlotTypes /\ RowTypes /\ WindowKnown /\ Begun /\ ScopeStaged /\ BehindHead /\ WindowInv
      /\ StagingSound /\ RowKnown /\ HeadSlot \in Nat /\ Inv /\ SameScope /\ ProgramsKnown /\ ScopeTypes
  BY DEF AllKnown, ScopeInv, Known, Inv, TypeOK, IngestInv, HeadSlot
<1>2. /\ recTarget \in Nat \cup {NoSlot} /\ recTarget <= HeadSlot
      /\ targetSlot \in Nat \cup {NoSlot} /\ targetSlot <= HeadSlot
  BY <1>1 DEF SlotTypes, BehindHead
<1>3. ASSUME UNCHANGED <<cursor, windowVars, generation>>, Rows \subseteq Rows'
      PROVE  recTarget' # NoSlot => \A p \in generation' : Staged(p, recFrom, recTarget)'
  BY <1>1, <1>2, <1>3, StagedUnderStep DEF ScopeStaged, Staged, InRange, Slot, Before
<1>4. ASSUME UNCHANGED <<cursor, rangeVars, tracked>>, Rows \subseteq Rows', pc \in Opening
      PROVE  \A p \in tracked' : Staged(p, fromSlot, targetSlot)'
  BY <1>1, <1>2, <1>4, StagedUnderStep DEF ScopeStaged, Staged, InRange, Slot, Before
<1>5. ASSUME UNCHANGED <<rangeVars, todo, generation>>, Rows \subseteq Rows', pc \in Working
      PROVE  \A p \in generation' \ todo' : AllStaged(p)'
  BY <1>1, <1>5, AllStagedUnderStep DEF ScopeStaged
<1>6. CASE UNCHANGED <<cursor, windowVars, rangeVars, todo, pc, generation, tracked>> /\ Rows \subseteq Rows'
  BY <1>3, <1>4, <1>5, <1>6 DEF ScopeStaged
<1>7. CASE UNCHANGED <<rowVars, windowVars, generation>> /\ pc' \notin Opening \cup Working
  <2>1. Rows' = Rows
    BY <1>7 DEF Rows
  <2> QED
    BY <1>3, <1>7, <2>1 DEF ScopeStaged
<1>8. CASE recTarget' = NoSlot /\ pc' \notin Opening \cup Working
  BY <1>8 DEF ScopeStaged
<1>9. CASE /\ UNCHANGED <<cursor, windowVars, rangeVars, todo, generation>> /\ Rows \subseteq Rows'
           /\ pc \in Working /\ pc' \in Working
  BY <1>3, <1>5, <1>9 DEF ScopeStaged
<1>10. CASE DecideRecover
  <2>1. PICK h : ReadHead(h) /\ fromSlot' = RecoveryFromSlot(h) /\ targetSlot' = h
    BY <1>10 DEF DecideRecover
  <2>2. pc' = "mark" /\ UNCHANGED <<windowVars, generation, tracked>>
    BY <1>10 DEF DecideRecover
  <2>3. CASE RowsAreStale
    <3>1. \A p \in Programs : cursor'[p] = NoTx
      BY <1>10, <2>3 DEF DecideRecover
    <3> QED
      BY <1>1, <2>2, <3>1 DEF ScopeStaged, Staged, ScopeTypes
  <2>4. CASE ~RowsAreStale
    <3>1. UNCHANGED rowVars /\ recTarget # NoSlot /\ generation = tracked
      BY <1>10, <2>4 DEF DecideRecover, RowsAreStale
    <3>2. fromSlot' = recFrom /\ targetSlot' = recTarget /\ Rows' = Rows
      BY <2>1, <3>1 DEF ReadHead, RecoveryFromSlot, Rows
    <3>3. \A p \in generation' : Staged(p, recFrom, recTarget)'
      BY <1>3, <2>2, <3>1, <3>2
    <3> QED
      BY <2>2, <3>1, <3>2, <3>3 DEF ScopeStaged, Staged, InRange
  <2> QED
    BY <2>3, <2>4
<1>11. CASE MarkRecoveryGeneration
  <2>1. /\ Rows' = Rows /\ pc = "mark" /\ pc' = "begin" /\ generation' = tracked
        /\ UNCHANGED <<tracked, windowVars, rangeVars, cursor>>
    BY <1>11 DEF MarkRecoveryGeneration, MarkFilterGeneration, Rows
  <2>2. \A p \in tracked' : Staged(p, fromSlot, targetSlot)'
    BY <1>4, <2>1
  <2>3. recTarget # NoSlot => recFrom = fromSlot /\ recTarget = targetSlot
    BY <1>1, <2>1 DEF WindowInv
  <2> QED
    BY <2>1, <2>2, <2>3 DEF ScopeStaged, Staged, InRange
<1>12. CASE BeginRecovery
  <2>1. /\ Rows' = Rows /\ pc = "begin" /\ pc' = "stage" /\ recFrom' = fromSlot /\ recTarget' = targetSlot
        /\ UNCHANGED <<cursor, rangeVars, tracked, generation>> /\ todo' = BasePrograms \cup coordDiscovered
    BY <1>12 DEF BeginRecovery, Rows
  <2>2. generation = tracked /\ tracked = todo'
    BY <1>1, <2>1 DEF SameScope, Generated
  <2>3. \A p \in tracked' : Staged(p, fromSlot, targetSlot)'
    BY <1>4, <2>1
  <2> QED
    BY <2>1, <2>2, <2>3 DEF ScopeStaged, Staged, InRange
<1>13. CASE StageProgram
  <2> DEFINE p == CHOOSE q \in todo : TRUE
  <2>1. /\ p \in todo /\ StagePage(p, fromSlot)
        /\ todo' = (IF cursor'[p] = NoTx THEN todo \ {p} ELSE todo)
        /\ pc = "stage" /\ pc' = "stage" /\ UNCHANGED <<windowVars, rangeVars, generation>>
    BY <1>13 DEF StageProgram
  <2> HIDE DEF p
  <2>2. recFrom = fromSlot /\ recTarget = targetSlot /\ recTarget # NoSlot /\ fromSlot \in Nat /\ targetSlot \in Nat
    BY <1>1, <2>1 DEF WindowInv, WindowKnown, SlotTypes
  <2>3. \A q : Mentions(q)' = Mentions(q)
    BY <1>1, <1>13, ChainUnderStep DEF StageProgram, ConfirmSlot
  <2>4. p \in generation /\ p \in Programs /\ generation \subseteq Programs
    BY <1>1, <2>1 DEF SameScope, ProgramsKnown, Generated, ScopeTypes
  <2>5. Staged(p, fromSlot, targetSlot)
    BY <1>1, <2>2, <2>4 DEF ScopeStaged
  <2>6. /\ Rows \subseteq Rows'
        /\ \A q \in Programs \ {p} : cursor'[q] = cursor[q]
        /\ cursor'[p] # NoTx => \A t \in Mentions(p) :
               InRange(t, fromSlot, targetSlot) /\ ~Before(t, cursor'[p]) => t \in Rows'
        /\ cursor'[p] = NoTx => \A t \in Mentions(p) :
               InRange(t, fromSlot, targetSlot) => t \in Rows'
    BY <1>1, <2>1, <2>2, <2>4, <2>5, PageKeepsStaging
  <2>7. ASSUME NEW q \in generation' PROVE Staged(q, recFrom, recTarget)'
    BY <1>1, <2>1, <2>2, <2>3, <2>4, <2>6 DEF ScopeStaged, Staged, InRange, Slot, Before
  <2>8. ASSUME NEW q \in generation' \ todo' PROVE AllStaged(q)'
    BY <1>1, <2>1, <2>2, <2>3, <2>6 DEF ScopeStaged, AllStaged, InRange, Slot
  <2> QED
    BY <2>1, <2>7, <2>8 DEF ScopeStaged
<1>14. CASE StageRegistered
  <2> DEFINE p == Content(row).ext
  <2>1. StagePage(p, RegisteredFromSlot(Slot(row))) /\ pc = "late" /\ pc' \in {"late", "advance"}
        /\ UNCHANGED <<windowVars, rangeVars, todo, generation>>
    BY <1>14 DEF StageRegistered
  <2>2. p \notin generation /\ generation \subseteq Programs
    BY <1>1, <2>1, ConstantsAssumption DEF ProgramsKnown, SameScope, Generated, ScopeTypes
  <2> HIDE DEF p
  <2>3. /\ Rows \subseteq Rows'
        /\ \A q \in generation : cursor'[q] = cursor[q]
    BY <1>1, <2>1, <2>2 DEF StagePage, Rows, RowTypes
  <2>4. \A q : Mentions(q)' = Mentions(q)
    BY <1>1, <1>14, ChainUnderStep DEF StageRegistered, ConfirmSlot
  <2>5. ASSUME NEW q \in generation', recTarget # NoSlot PROVE Staged(q, recFrom, recTarget)'
    BY <1>1, <2>1, <2>3, <2>4, <2>5 DEF ScopeStaged, Staged, InRange, Slot, Before
  <2>6. \A q \in generation' \ todo' : AllStaged(q)'
    BY <1>5, <2>1, <2>3
  <2> QED
    BY <2>1, <2>5, <2>6 DEF ScopeStaged
<1>15. CASE ResolveSlot
  <2>1. Rows \subseteq Rows'
    BY <1>15 DEF ResolveSlot, Rows
  <2> QED
    BY <1>6, <1>15, <2>1 DEF ResolveSlot
<1>16. CASE StagingDone \/ IndexesResolved \/ ProjectRow \/ ApplyRecoveryChange \/ AdvanceCheckpoint \/ BatchDone
  <2>1. UNCHANGED <<rowVars, windowVars, rangeVars, todo, generation>> /\ pc \in Working /\ pc' \in Working
    BY <1>16 DEF StagingDone, IndexesResolved, ProjectRow, ApplyRecoveryChange, AdvanceCheckpoint, BatchDone
  <2> QED
    BY <1>9, <2>1 DEF Rows
<1>17. CASE FinishRow
  <2>1. Rows \subseteq Rows'
    BY <1>17 DEF FinishRow, Rows
  <2> QED
    BY <1>9, <1>17, <2>1 DEF FinishRow
<1>18. CASE CompleteRecovery \/ CleanupRecovery
  BY <1>1, <1>8, <1>18 DEF CompleteRecovery, CleanupRecovery, Begun, Streamed
<1>19. CASE ApplyRecoveredScope \/ Regenerate
  BY <1>1, <1>8, <1>19 DEF ApplyRecoveredScope, Regenerate, LoopAgain, Begun, Streamed
<1>20. CASE ConfirmSlot \/ HeadCacheExpires \/ Heartbeat \/ UNCHANGED vars
  BY <1>6, <1>20 DEF ConfirmSlot, HeadCacheExpires, Heartbeat, vars, Rows
<1>21. CASE Start \/ Crash \/ DecideStream \/ Subscribe \/ SubscribeRefused
  BY <1>7, <1>21 DEF Start, Crash, DecideStream, Subscribe, SubscribeRefused, LoopAgain
<1>22. CASE DeliverTransaction \/ RecordCheckpoint \/ Rescope \/ RescopeUnneeded \/ DeliverSlot
  BY <1>7, <1>22 DEF DeliverTransaction, RecordCheckpoint, Rescope, RescopeUnneeded, DeliverSlot
<1> QED
  BY <1>10, <1>11, <1>12, <1>13, <1>14, <1>15, <1>16, <1>17, <1>18, <1>19, <1>20, <1>21,
     <1>22, NoCallFails DEF Next, Listener, Recovering, Streaming, Faults

\* A registration a recovery has not met is no older than the row at hand.
LEMMA RowIsOldest ==
    ASSUME AllKnown, pc = "change", NEW u \in OnChain, Owed(u), Unheard(u)
    PROVE  ~Before(u, row) /\ Slot(u) >= Slot(row)
<1> USE DEF Working, WithRow
<1>1. /\ StagingSound /\ QueueOrdered /\ WindowInv /\ Begun /\ PendingAhead /\ RowsHeard /\ RowHeard
      /\ SlotTypes /\ WindowKnown /\ RowKnown /\ RowTypes /\ Inv
  BY DEF AllKnown, ScopeInv, Known, Inv, TypeOK, IngestInv
<1>2. recTarget # NoSlot /\ recFrom = fromSlot /\ recTarget = targetSlot /\ todo = {} /\ row \in indexed
  BY <1>1 DEF Begun, WindowInv, StagingSound
<1>3. OnChain \subseteq (Nat \ {0}) \X (Nat \ {0}) /\ row \in OnChain
  BY <1>1, ChainPositions DEF Inv, RowKnown
<1>4. Slot(u) \in Nat /\ Slot(row) \in Nat /\ targetSlot \in Nat /\ fromSlot \in Nat
  BY <1>1, <1>2, <1>3 DEF Slot, SlotTypes
<1>5. Slot(u) > fromSlot
  BY <1>1, <1>2 DEF PendingAhead, Pending, AheadOf
<1>6. Slot(row) <= targetSlot
  BY <1>1, <1>2 DEF WindowInv, Within, Rows
<1>7. CASE Slot(u) > targetSlot
  BY <1>4, <1>6, <1>7 DEF Before, Slot
<1>8. CASE ~(Slot(u) > targetSlot)
  <2>1. PICK p \in BasePrograms : u \in Mentions(p)
    BY <1>1, ChangeTouchesBase DEF Unheard
  <2>2. u \in Rows
    BY <1>1, <1>2, <1>4, <1>5, <1>8, <2>1 DEF StagingSound, AllStaged, InRange
  <2>3. u \notin finished
    BY <1>1 DEF RowsHeard, Unheard
  <2>4. u \notin unindexed
    BY <1>1, <2>1 DEF QueueOrdered, Mentions
  <2>5. ~Before(u, row)
    BY <1>1, <2>2, <2>3, <2>4 DEF RowHeard, Rows
  <2> QED
    BY <1>4, <2>5 DEF Before, Slot
<1> QED
  BY <1>7, <1>8

LEMMA StagedLateUnderStep ==
    ASSUME Inv, BehindHead, [Next]_vars, ~BeginRecovery, UNCHANGED targetSlot, Rows \subseteq Rows', NEW e,
           StagedLate(e)
    PROVE  StagedLate(e)'
<1>1. targetSlot \in Nat \cup {NoSlot} /\ targetSlot <= HeadSlot /\ HeadSlot \in Nat
  BY ChainUnderStep DEF Inv, TypeOK, SlotTypes, BehindHead
<1>2. ASSUME NEW t \in OnChain', LackedBy(e, t)', Slot(t) <= targetSlot PROVE t \in Rows'
  <2>1. t \in OnChain
    <3> SUFFICES ASSUME t \notin OnChain PROVE FALSE
      OBVIOUS
    <3>1. Slot(t) = HeadSlot + 1
      BY ChainUnderStep
    <3> QED
      BY <1>1, <1>2, <3>1, NoSlotIsLowest
  <2>2. LackedBy(e, t)
    BY <1>2, <2>1, LackedUnderStep
  <2> QED
    BY <1>2, <2>1, <2>2 DEF StagedLate
<1> QED
  BY <1>2 DEF StagedLate, Slot

\* A registered extension's pages, from its registration on, are staged behind the row.
LEMMA LateStagedStep ==
    ASSUME OnlyRegistered, AllKnown, [Next]_vars
    PROVE  LateStaged'
<1> USE DEF Working, WithRow
<1>1. /\ SlotTypes /\ RowTypes /\ WindowKnown /\ Begun /\ BehindHead /\ WindowInv /\ RowKnown
      /\ HeadSlot \in Nat /\ Inv /\ SameScope /\ ProgramsKnown /\ ScopeTypes /\ LateStaged
  BY DEF AllKnown, ScopeInv, Known, Inv, TypeOK, IngestInv, HeadSlot
<1>2. targetSlot \in Nat \cup {NoSlot} /\ targetSlot <= HeadSlot
  BY <1>1 DEF SlotTypes, BehindHead
<1>3. CASE pc' \notin Working \ {"stage"}
  BY <1>3 DEF LateStaged
<1>4. CASE /\ pc \in Working \ {"stage", "late"} /\ pc' \in Working \ {"stage", "late"}
           /\ UNCHANGED <<persisted, discovered, targetSlot>> /\ Rows \subseteq Rows' /\ ~BeginRecovery
  BY <1>1, <1>4, StagedLateUnderStep DEF LateStaged
<1>5. CASE /\ UNCHANGED <<pc, row, cursor, persisted, discovered, rangeVars>> /\ Rows' = Rows
           /\ ~BeginRecovery
  <2>1. CASE pc # "late"
    BY <1>1, <1>3, <1>4, <1>5, <2>1
  <2>2. CASE pc = "late"
    <3>0. PICK e, from : e = Content(row).ext /\ from = RegisteredFromSlot(Slot(row))
      OBVIOUS
    <3>1. row \in OnChain /\ Content(row)' = Content(row) /\ Slot(row)' = Slot(row) /\ Slot(row) <= HeadSlot
          /\ Slot(row) \in Nat
      BY <1>1, <1>5, <2>2, ChainOnlyGrows, ChainUnderStep DEF RowKnown, Content, Slot
    <3>2. /\ Staged(e, from, targetSlot)
          /\ \A t \in OnChain : LackedBy(e, t) => Slot(t) >= Slot(row)
          /\ \A x \in persisted \ discovered : x = e \/ StagedLate(x)
      BY <1>1, <2>2, <3>0 DEF LateStaged
    <3>3. Content(row)'.ext = e /\ RegisteredFromSlot(Slot(row))' = from
      BY <3>0, <3>1 DEF RegisteredFromSlot, Larger
    <3>4. Staged(e, from, targetSlot)'
      BY <1>1, <1>2, <1>5, <3>2, StagedUnderStep DEF Staged, InRange, Slot, Before
    <3>5. ASSUME NEW t \in OnChain', LackedBy(e, t)' PROVE Slot(t) >= Slot(row)
      <4>1. CASE t \in OnChain
        BY <1>1, <1>5, <3>2, <3>5, <4>1, LackedUnderStep
      <4>2. CASE t \notin OnChain
        <5>1. Slot(t) = HeadSlot + 1
          BY <1>1, <4>2, ChainUnderStep
        <5> QED
          BY <1>1, <3>1, <5>1
      <4> QED
        BY <4>1, <4>2
    <3>6. \A x \in persisted \ discovered : x = e \/ StagedLate(x)'
      BY <1>1, <1>5, <3>2, StagedLateUnderStep
    <3>7. \A t \in OnChain' : LackedBy(e, t)' => Slot(t)' >= Slot(row)'
      BY <3>1, <3>5 DEF Slot
    <3> QED
      BY <1>5, <2>2, <3>3, <3>4, <3>6, <3>7 DEF LateStaged
  <2> QED
    BY <2>1, <2>2
<1>6. CASE ApplyRecoveryChange
  <2>0. PICK e : e = Content(row).ext
    OBVIOUS
  <2>1. /\ pc = "change" /\ pc' \in {"late", "advance"} /\ Rows' = Rows /\ ~BeginRecovery
        /\ UNCHANGED <<row, cursor, discovered, rangeVars, blocks, projected, historyVars>>
    BY <1>6 DEF ApplyRecoveryChange, Rows, BeginRecovery
  <2>2. Content(row)' = Content(row) /\ Slot(row)' = Slot(row) /\ row \in OnChain /\ persisted = coordDiscovered
    BY <1>1, <2>1 DEF Content, Slot, RowKnown, SameScope
  <2>3. \A x \in persisted \ discovered : StagedLate(x)'
    BY <1>1, <2>1, StagedLateUnderStep DEF LateStaged
  <2>4. CASE UNCHANGED persisted
    <3>1. pc' # "late"
      BY <1>6, <2>2, <2>4 DEF ApplyRecoveryChange
    <3> QED
      BY <2>1, <2>3, <2>4, <3>1 DEF LateStaged
  <2>5. CASE e \in Extensions \ persisted /\ persisted' = persisted \cup {e}
    <3>1. pc' = "late"
      BY <1>6, <2>0, <2>2, <2>5 DEF ApplyRecoveryChange
    <3>2. cursor'[e] = NoTx
      BY <1>1, <2>1, <2>5, ConstantsAssumption DEF ProgramsKnown, Programs
    <3>3. ASSUME NEW t \in OnChain', LackedBy(e, t)' PROVE Slot(t) >= Slot(row)
      <4>1. t \in OnChain
        BY <2>1, <3>3 DEF OnChain
      <4>2. LackedBy(e, t)
        BY <1>1, <2>1, <3>3, <4>1, LackedUnderStep
      <4>3. PICK u \in OnChain : Owed(u) /\ Unheard(u) /\ ~Before(t, u)
        BY <2>5, <4>2, UnheardBefore
      <4>4. Slot(u) >= Slot(row)
        BY <2>1, <4>3, RowIsOldest
      <4>5. Slot(t) \in Nat /\ Slot(u) \in Nat /\ Slot(row) \in Nat
        BY <1>1, <2>2, <4>1, <4>3, ChainUnderStep
      <4>6. ~(Slot(t) < Slot(u))
        BY <4>3 DEF Before, Slot
      <4> QED
        BY <4>4, <4>5, <4>6
    <3>4. Content(row)'.ext = e
      BY <2>0, <2>2
    <3>5. Staged(e, RegisteredFromSlot(Slot(row)), targetSlot)'
      BY <3>2 DEF Staged
    <3>6. \A t \in OnChain' : LackedBy(e, t)' => Slot(t)' >= Slot(row)'
      BY <2>2, <3>3 DEF Slot
    <3>7. \A x \in persisted' \ discovered' : x = e \/ StagedLate(x)'
      BY <2>1, <2>3, <2>5
    <3> QED
      BY <3>1, <3>4, <3>5, <3>6, <3>7 DEF LateStaged
  <2> QED
    BY <1>6, <2>0, <2>4, <2>5, ScopeGrows DEF ApplyRecoveryChange, Rescope
<1>7. CASE StageRegistered
  <2>0. PICK e, from : e = Content(row).ext /\ from = RegisteredFromSlot(Slot(row))
    OBVIOUS
  <2>1. /\ StagePage(e, from) /\ pc = "late" /\ ~BeginRecovery
        /\ pc' = (IF cursor'[e] = NoTx THEN "advance" ELSE "late")
        /\ UNCHANGED <<row, rangeVars, blocks, projected, historyVars, persisted, discovered>>
    BY <1>7, <2>0 DEF StageRegistered, BeginRecovery
  <2>2. row \in OnChain /\ Content(row)' = Content(row) /\ Slot(row)' = Slot(row) /\ Slot(row) \in Nat \ {0}
    BY <1>1, <2>1, ChainUnderStep DEF RowKnown, Content, Slot
  <2>3. e \in Programs /\ from \in Nat /\ from < Slot(row) /\ targetSlot \in Nat
    BY <1>1, <2>0, <2>1, <2>2 DEF ProgramsKnown, ScopeTypes, Programs, RegisteredFromSlot, Larger, WindowKnown, SlotTypes
  <2>4. /\ Staged(e, from, targetSlot)
        /\ \A t \in OnChain : LackedBy(e, t) => Slot(t) >= Slot(row)
        /\ \A x \in persisted \ discovered : x = e \/ StagedLate(x)
    BY <1>1, <2>0, <2>1 DEF LateStaged
  <2>5. OnChain' = OnChain /\ Mentions(e)' = Mentions(e)
    BY <2>1, <2>3 DEF OnChain, Mentions, Content
  <2>6. Content(row)'.ext = e /\ RegisteredFromSlot(Slot(row))' = from
    BY <2>0, <2>2 DEF RegisteredFromSlot, Larger
  <2>7. /\ Rows \subseteq Rows'
        /\ cursor'[e] # NoTx => \A t \in Mentions(e) :
               InRange(t, from, targetSlot) /\ ~Before(t, cursor'[e]) => t \in Rows'
        /\ cursor'[e] = NoTx => \A t \in Mentions(e) : InRange(t, from, targetSlot) => t \in Rows'
    BY <1>1, <2>1, <2>3, <2>4, PageKeepsStaging
  <2>8. \A t \in OnChain' : LackedBy(e, t)' => LackedBy(e, t) /\ Slot(t) >= Slot(row)
    BY <1>1, <2>1, <2>4, <2>5, LackedUnderStep
  <2>9. \A x \in persisted' \ discovered' : x = e \/ StagedLate(x)'
    BY <1>1, <2>1, <2>4, <2>7, StagedLateUnderStep
  <2>10. CASE cursor'[e] # NoTx
    <3>1. Staged(e, from, targetSlot)'
      BY <2>1, <2>3, <2>5, <2>7 DEF Staged, InRange, Slot, Before
    <3> QED
      BY <2>1, <2>2, <2>3, <2>6, <2>8, <2>9, <2>10, <3>1 DEF LateStaged, Slot
  <2>11. CASE cursor'[e] = NoTx
    <3>1. ASSUME NEW t \in OnChain', LackedBy(e, t)', Slot(t) <= targetSlot PROVE t \in Rows'
      <4>1. t \in OnChain /\ LackedBy(e, t) /\ Slot(t) >= Slot(row)
        BY <2>5, <2>8, <3>1
      <4>2. t \in Mentions(e) /\ Slot(t) \in Nat
        BY <1>1, <4>1, ChainUnderStep DEF LackedBy, Mentions
      <4>3. InRange(t, from, targetSlot)
        BY <2>2, <2>3, <3>1, <4>1, <4>2 DEF InRange
      <4> QED
        BY <2>7, <2>11, <4>2, <4>3
    <3>2. StagedLate(e)'
      BY <2>1, <2>3, <3>1 DEF StagedLate, Slot
    <3> QED
      BY <2>1, <2>9, <2>11, <3>2 DEF LateStaged
  <2> QED
    BY <2>10, <2>11
<1>8. CASE StagingDone
  BY <1>1, <1>8 DEF StagingDone, SameScope, LateStaged
<1>9. CASE ResolveSlot
  <2>1. Rows \subseteq Rows'
    BY <1>9 DEF ResolveSlot, Rows
  <2> QED
    BY <1>4, <1>9, <2>1 DEF ResolveSlot, BeginRecovery
<1>10. CASE IndexesResolved \/ ProjectRow \/ AdvanceCheckpoint \/ FinishRow \/ BatchDone
  <2>1. Rows \subseteq Rows'
    BY <1>10 DEF IndexesResolved, ProjectRow, AdvanceCheckpoint, FinishRow, BatchDone, Rows
  <2>2. ~(pc' = "late")
    BY <1>10 DEF IndexesResolved, ProjectRow, AdvanceCheckpoint, FinishRow, BatchDone
  <2> QED
    BY <1>3, <1>4, <1>10, <2>1, <2>2 DEF IndexesResolved, ProjectRow, AdvanceCheckpoint, FinishRow, BatchDone, BeginRecovery
<1>11. CASE ConfirmSlot \/ HeadCacheExpires \/ Heartbeat \/ UNCHANGED vars
  <2>1. UNCHANGED <<pc, row, cursor, persisted, discovered, rangeVars>> /\ Rows' = Rows
    BY <1>11 DEF ConfirmSlot, HeadCacheExpires, Heartbeat, vars, Rows
  <2>2. CASE BeginRecovery
    BY <1>3, <2>2 DEF BeginRecovery
  <2> QED
    BY <1>5, <2>1, <2>2
<1>12. CASE Start \/ Crash \/ DecideStream \/ DecideRecover \/ MarkRecoveryGeneration \/ BeginRecovery \/ StageProgram
  BY <1>3, <1>12 DEF Start, Crash, DecideStream, DecideRecover, MarkRecoveryGeneration, BeginRecovery, StageProgram
<1>13. CASE CompleteRecovery \/ CleanupRecovery \/ ApplyRecoveredScope \/ Subscribe \/ SubscribeRefused
  BY <1>3, <1>13 DEF CompleteRecovery, CleanupRecovery, ApplyRecoveredScope, Subscribe, SubscribeRefused, LoopAgain
<1>14. CASE DeliverTransaction \/ RecordCheckpoint \/ Rescope \/ RescopeUnneeded \/ Regenerate \/ DeliverSlot
  BY <1>3, <1>14 DEF DeliverTransaction, RecordCheckpoint, Rescope, RescopeUnneeded, Regenerate, DeliverSlot, LoopAgain
<1> QED
  BY <1>6, <1>7, <1>8, <1>9, <1>10, <1>11, <1>12, <1>13, <1>14, NoCallFails
     DEF Next, Listener, Recovering, Streaming, Faults

\* Later on the chain is ahead as well.
LEMMA AheadIsUpward ==
    ASSUME Inv, pc \in {"record", "rescope", "regenerate"} => row \in OnChain, NEW u \in OnChain,
           NEW t \in OnChain, ~Before(t, u), AheadOf(u)
    PROVE  AheadOf(t)
<1> USE DEF Opening
<1>1. SlotTypes /\ RowTypes /\ OnChain \subseteq (Nat \ {0}) \X (Nat \ {0})
  BY ChainPositions DEF Inv, TypeOK
<1>2. Slot(t) \in Nat /\ Slot(u) \in Nat /\ Slot(t) >= Slot(u)
  BY <1>1 DEF Before, Slot
<1>3. t = u \/ Before(u, t)
  BY <1>1, BeforeIsTotal
<1>4. streamTx \in Nat \X Nat /\ (Before(streamTx, u) => Before(streamTx, t))
  BY <1>1, <1>3, BeforeIsTotal DEF RowTypes, NoTx
<1>5. row \in OnChain => /\ Before(row, u) => Before(row, t)
                         /\ ~Before(u, row) => ~Before(t, row)
  BY <1>1, <1>3, BeforeIsTotal
<1>6. /\ checkpoint \in Int /\ coverage \in Int /\ recFrom \in Int /\ targetSlot \in Int
      /\ fromSlot \in Nat /\ streamSlot \in Nat
  BY <1>1, NoSlotIsLowest DEF SlotTypes
<1> QED
  BY <1>2, <1>4, <1>5, <1>6 DEF AheadOf

\* What a step makes pending is a transaction of the extension it lets into the scope.
LEMMA PendingUnderStep ==
    ASSUME OnlyRegistered, AllKnown, [Next]_vars, ~(BeginRecovery /\ baseline = NoSlot),
           NEW t \in OnChain, Pending(t)'
    PROVE  /\ Pending(t) \/ \E e \in persisted' \ persisted : LackedBy(e, t)
           /\ AheadOf(t)
<1>1. Inv /\ PendingAhead /\ RowKnown
  BY DEF AllKnown, Known, ScopeInv, Inv
<1>2. CASE Outstanding(t)'
  <2>1. Pending(t)
    BY <1>1, <1>2, OutstandingUnderStep DEF Pending
  <2> QED
    BY <1>1, <2>1 DEF PendingAhead
<1>3. CASE Owed(t)' /\ Unheard(t)'
  <2>1. Pending(t)
    BY <1>1, <1>3, OwedUnderStep, UnheardUnderStep DEF Pending
  <2> QED
    BY <1>1, <2>1 DEF PendingAhead
<1>4. ASSUME NEW e \in persisted', LackedBy(e, t)'
      PROVE  (Pending(t) \/ \E x \in persisted' \ persisted : LackedBy(x, t)) /\ AheadOf(t)
  <2>1. LackedBy(e, t)
    BY <1>1, <1>4, LackedUnderStep
  <2>2. CASE e \in persisted
    BY <1>1, <2>1, <2>2 DEF Pending, PendingAhead
  <2>3. CASE e \notin persisted
    <3>1. PICK u \in OnChain : Owed(u) /\ Unheard(u) /\ ~Before(t, u)
      BY <2>1, <2>3, UnheardBefore
    <3>2. AheadOf(u)
      BY <1>1, <3>1 DEF Pending, PendingAhead
    <3>3. AheadOf(t)
      BY <1>1, <3>1, <3>2, AheadIsUpward DEF RowKnown
    <3> QED
      BY <2>1, <2>3, <3>3
  <2> QED
    BY <2>2, <2>3
<1> QED
  BY <1>2, <1>3, <1>4 DEF Pending

\* The stream's filter holds whatever can be pending.
LEMMA PendingIsDeliverable ==
    ASSUME AllKnown, pc = "stream", NEW t \in OnChain, Pending(t), Slot(t) = streamSlot, Before(streamTx, t)
    PROVE  t \in Deliverable
<1>1. SameScope /\ ScopeTypes /\ Inv
  BY DEF AllKnown, Known, ScopeInv, Inv, TypeOK
<1>2. tracked = BasePrograms \cup persisted
  BY <1>1 DEF SameScope, Working
<1>3. Projectable(t, tracked)
  <2>1. CASE Outstanding(t)
    BY <1>2, <2>1 DEF Outstanding, Expected, Projectable
  <2>2. CASE Unheard(t)
    BY <1>1, <1>2, <2>2, ChangeTouchesBase DEF Unheard, Projectable, Mentions
  <2>3. CASE \E e \in persisted : LackedBy(e, t)
    BY <1>2, <2>3 DEF LackedBy, Projectable
  <2> QED
    BY <2>1, <2>2, <2>3 DEF Pending
<1> QED
  BY <1>3 DEF Deliverable

\* A recovery is over when nothing pending is left in its window.
LEMMA WindowIsHeard ==
    ASSUME AllKnown, pc = "complete", NEW t \in OnChain, Pending(t)
    PROVE  Slot(t) > targetSlot
<1> USE DEF Working
<1>1. /\ StagingSound /\ QueueOrdered /\ WindowInv /\ Begun /\ PendingAhead /\ RowsHeard /\ ScopeStaged
      /\ LateStaged /\ SameScope /\ SlotTypes /\ WindowKnown /\ Inv /\ Known
  BY DEF AllKnown, ScopeInv, Known, Inv, TypeOK, IngestInv
<1>2. recTarget # NoSlot /\ recFrom = fromSlot /\ recTarget = targetSlot /\ todo = {}
  BY <1>1 DEF Begun, WindowInv, StagingSound
<1>3. CASE Outstanding(t)
  BY <1>1, <1>3, WindowIsProjected
<1>4. Slot(t) > recFrom /\ Slot(t) \in Nat /\ targetSlot \in Nat /\ fromSlot \in Nat
  BY <1>1, <1>2, ChainPositions DEF PendingAhead, AheadOf, Slot, SlotTypes, Inv
<1>5. Rows = finished
  BY <1>1 DEF QueueOrdered, Rows
<1>6. ASSUME ~(Slot(t) > targetSlot) PROVE InRange(t, fromSlot, targetSlot)
  BY <1>2, <1>4, <1>6 DEF InRange
<1>7. CASE Owed(t) /\ Unheard(t)
  <2> SUFFICES ASSUME ~(Slot(t) > targetSlot) PROVE FALSE
    OBVIOUS
  <2>1. PICK p \in BasePrograms : t \in Mentions(p)
    BY <1>1, <1>7, ChangeTouchesBase DEF Unheard
  <2>2. t \in finished
    BY <1>1, <1>2, <1>5, <1>6, <2>1 DEF StagingSound, AllStaged
  <2> QED
    BY <1>1, <1>7, <2>2 DEF RowsHeard, Unheard
<1>8. ASSUME NEW e \in persisted, LackedBy(e, t), ~(Slot(t) > targetSlot) PROVE FALSE
  <2>1. t \in Mentions(e)
    BY <1>8 DEF LackedBy, Mentions
  <2>2. CASE e \in discovered
    <3>1. AllStaged(e)
      BY <1>1, <1>2, <2>2 DEF SameScope, Generated, ScopeStaged
    <3> QED
      BY <1>1, <1>5, <1>6, <1>8, <2>1, <3>1 DEF AllStaged, RowsHeard, LackedBy
  <2>3. CASE e \notin discovered
    <3>1. StagedLate(e)
      BY <1>1, <2>3 DEF LateStaged
    <3>2. Slot(t) <= targetSlot
      BY <1>4, <1>8
    <3> QED
      BY <1>1, <1>5, <1>8, <3>1, <3>2 DEF StagedLate, RowsHeard, LackedBy
  <2> QED
    BY <2>2, <2>3
<1> QED
  BY <1>3, <1>7, <1>8 DEF Pending

\* What is pending stays ahead, at every place of the loop.
LEMMA PendingAheadStep ==
    ASSUME OnlyRegistered, AllKnown, [Next]_vars
    PROVE  PendingAhead'
<1> SUFFICES ASSUME NEW t \in OnChain', Pending(t)' PROVE AheadOf(t)'
  BY DEF PendingAhead
<1> USE DEF Opening, Working, WithRow, Streamed
<1>1. /\ SlotTypes /\ RowTypes /\ RowKnown /\ WindowKnown /\ Begun /\ CursorsInWindow /\ BehindHead
      /\ WindowInv /\ RowInStream /\ RowHeard /\ SameScope /\ ScopeTypes /\ Inv /\ HeadSlot \in Nat
  BY DEF AllKnown, ScopeInv, Known, Inv, TypeOK, IngestInv, HeadSlot
<1>2. OnChain \subseteq Nat \X Nat /\ \A u \in OnChain : Slot(u) \in Nat /\ Slot(u) <= HeadSlot
  BY <1>1, ChainUnderStep, ChainPositions DEF Inv
<1>3. CASE t \notin OnChain
  <2>1. ConfirmSlot
    BY <1>1, <1>3, ChainUnderStep
  <2>2. Slot(t) = HeadSlot + 1
    BY <1>1, <1>3, <2>1, ChainUnderStep
  <2>3. UNCHANGED <<cursorVars, windowVars, rangeVars, streamVars, row, pc>>
    BY <2>1 DEF ConfirmSlot
  <2>4. streamTx \in OnChain \cup {NoTx} => Slot(streamTx) < Slot(t)
    BY <1>1, <1>2, <2>2 DEF Slot, NoTx
  <2>5. row \in OnChain => Slot(row) < Slot(t) /\ Slot(row) \in Nat
    BY <1>1, <1>2, <2>2
  <2>6. Before(streamTx, t)
    BY <1>1, <2>4 DEF RowTypes, Before, Slot
  <2>7. pc \in {"record", "rescope", "regenerate"} => Before(row, t) /\ ~Before(t, row)
    BY <1>1, <2>2, <2>5 DEF RowKnown, Before, Slot
  <2>8. /\ Slot(t) >= checkpoint /\ Slot(t) > coverage /\ Slot(t) > recFrom
        /\ Slot(t) >= fromSlot /\ Slot(t) > targetSlot /\ Slot(t) >= streamSlot
    BY <1>1, <2>2, NoSlotIsLowest DEF BehindHead, SlotTypes
  <2> QED
    BY <2>3, <2>6, <2>7, <2>8 DEF AheadOf, Slot, Before
<1> SUFFICES ASSUME t \in OnChain PROVE AheadOf(t)'
  BY <1>3
<1>4. Slot(t) \in Nat /\ t \in Nat \X Nat /\ Slot(t)' = Slot(t)
  BY <1>2 DEF Slot
<1>5. CASE BeginRecovery
  <2>1. /\ recFrom' = fromSlot /\ recTarget' = targetSlot /\ pc = "begin" /\ pc' = "stage"
        /\ baseline' = (IF baseline = NoSlot THEN fromSlot ELSE baseline)
        /\ seams' = seams \cup {fromSlot}
    BY <1>5 DEF BeginRecovery
  <2>2. Slot(t) \notin seams' /\ Slot(t) > baseline'
    BY <1>4 DEF Pending, Outstanding, Expected, LackedBy, Owed
  <2>3. Slot(t) > fromSlot
    <3>1. CASE baseline = NoSlot
      BY <2>1, <2>2, <3>1
    <3>2. CASE baseline # NoSlot
      <4>1. Slot(t) >= fromSlot
        BY <2>1, <3>2, PendingUnderStep DEF AheadOf
      <4> QED
        BY <1>1, <1>4, <2>1, <2>2, <4>1 DEF SlotTypes
    <3> QED
      BY <3>1, <3>2
  <2>4. targetSlot # NoSlot
    BY <1>1, <2>1 DEF WindowKnown
  <2> QED
    BY <1>4, <2>1, <2>3, <2>4 DEF AheadOf
<1>6. ASSUME ~BeginRecovery
      PROVE  /\ AheadOf(t)
             /\ UNCHANGED persisted => Pending(t)
  BY <1>6, PendingUnderStep
<1>7. CASE UNCHANGED <<cursorVars, windowVars, rangeVars, streamVars, row, pc>>
  <2>1. CASE ~BeginRecovery
    BY <1>6, <1>7, <2>1 DEF AheadOf, Slot, Before
  <2> QED
    BY <1>5, <2>1
<1>8. CASE /\ ~BeginRecovery /\ UNCHANGED <<cursorVars, windowVars>>
           /\ pc' \notin Opening \cup {"cleanup", "scope", "subscribe", "stream", "record", "rescope", "regenerate"}
  BY <1>4, <1>6, <1>8 DEF AheadOf
<1>9. CASE DecideStream
  <2>1. ~BeginRecovery
    BY <1>9 DEF DecideStream, BeginRecovery
  <2>2. recTarget = NoSlot /\ UNCHANGED <<cursorVars, windowVars>> /\ pc' = "scope"
        /\ fromSlot' = DurableResumeSlot
    BY <1>9 DEF DecideStream, RecoveryNotRequired
  <2>3. checkpoint \in Int /\ coverage \in Int
    BY <1>1, NoSlotIsLowest DEF SlotTypes
  <2> QED
    BY <1>4, <1>6, <2>1, <2>2, <2>3 DEF AheadOf, DurableResumeSlot, Larger
<1>10. CASE DecideRecover
  <2>1. ~BeginRecovery
    BY <1>10 DEF DecideRecover, BeginRecovery
  <2>2. PICK h : ReadHead(h) /\ fromSlot' = RecoveryFromSlot(h)
    BY <1>10 DEF DecideRecover
  <2>3. UNCHANGED <<cursorVars, windowVars, historyVars>> /\ pc' = "mark"
    BY <1>10 DEF DecideRecover
  <2>4. baseline # NoSlot
    BY <2>3 DEF Pending, Outstanding, Expected, LackedBy, Owed
  <2>5. checkpoint \in Int /\ coverage \in Int
    BY <1>1, NoSlotIsLowest DEF SlotTypes
  <2>6. CASE recTarget # NoSlot
    <3>1. fromSlot' = recFrom /\ recFrom \in Int
      BY <1>1, <2>2, <2>6, NoSlotIsLowest DEF RecoveryFromSlot, SlotTypes
    <3> QED
      BY <1>4, <1>6, <2>1, <2>3, <2>6, <3>1 DEF AheadOf
  <2>7. CASE recTarget = NoSlot
    <3>1. fromSlot' = DurableResumeSlot
      BY <1>1, <2>2, <2>4, <2>7 DEF RecoveryFromSlot, Begun
    <3> QED
      BY <1>4, <1>6, <2>1, <2>3, <2>5, <2>7, <3>1 DEF AheadOf, DurableResumeSlot, Larger
  <2> QED
    BY <2>6, <2>7
<1>11. CASE MarkRecoveryGeneration \/ ApplyRecoveredScope
  <2>1. ~BeginRecovery
    BY <1>11 DEF MarkRecoveryGeneration, ApplyRecoveredScope, BeginRecovery
  <2>2. /\ coverage' = coverage \/ coverage' = Smaller(coverage, Larger(fromSlot - 1, 0))
        /\ UNCHANGED <<checkpoint, windowVars, fromSlot>>
        /\ pc \in {"mark", "scope"} /\ pc' \in {"begin", "subscribe"}
    BY <1>11 DEF MarkRecoveryGeneration, ApplyRecoveredScope, MarkFilterGeneration
  <2>3. coverage' <= coverage /\ coverage' \in Int /\ coverage \in Int
    BY <1>1, <2>2, NoSlotIsLowest DEF Larger, Smaller, SlotTypes
  <2> QED
    BY <1>4, <1>6, <2>1, <2>2, <2>3 DEF AheadOf
<1>12. CASE Regenerate
  <2>1. ~BeginRecovery
    BY <1>12 DEF Regenerate, BeginRecovery
  <2>2. Slot(row) \in Nat
    BY <1>1, <1>2, <1>12 DEF Regenerate, RowKnown
  <2>3. /\ coverage' = coverage \/ coverage' = Smaller(coverage, Larger(Slot(row) - 1, 0))
        /\ UNCHANGED <<checkpoint, windowVars>> /\ pc' = "decide"
    BY <1>12 DEF Regenerate, MarkFilterGeneration, LoopAgain
  <2>4. coverage' <= coverage /\ coverage' \in Int /\ coverage \in Int
    BY <1>1, <2>2, <2>3, NoSlotIsLowest DEF Larger, Smaller, SlotTypes
  <2> QED
    BY <1>4, <1>6, <2>1, <2>3, <2>4 DEF AheadOf
<1>13. CASE AdvanceCheckpoint
  <2>1. ~BeginRecovery
    BY <1>13 DEF AdvanceCheckpoint, BeginRecovery
  <2>2. recTarget # NoSlot /\ UNCHANGED windowVars /\ pc' = "finish"
    BY <1>1, <1>13 DEF AdvanceCheckpoint, Begun
  <2> QED
    BY <1>4, <1>6, <2>1, <2>2 DEF AheadOf
<1>14. CASE CompleteRecovery
  <2>1. ~BeginRecovery
    BY <1>14 DEF CompleteRecovery, BeginRecovery
  <2>2. Slot(t) > targetSlot
    BY <1>6, <1>14, <2>1, WindowIsHeard DEF CompleteRecovery
  <2>3. /\ coverage' = Larger(coverage, targetSlot) /\ UNCHANGED <<checkpoint, targetSlot>>
        /\ recTarget' = NoSlot /\ pc = "complete" /\ pc' = "cleanup"
    BY <1>14 DEF CompleteRecovery
  <2>4. recTarget # NoSlot /\ recTarget = targetSlot /\ checkpoint <= targetSlot /\ coverage <= targetSlot
    BY <1>1, <2>3 DEF Begun, WindowInv, CursorsInWindow
  <2>5. checkpoint \in Int /\ coverage \in Int /\ targetSlot \in Int
    BY <1>1, NoSlotIsLowest DEF SlotTypes
  <2> QED
    BY <1>4, <2>2, <2>3, <2>4, <2>5 DEF AheadOf, Larger
<1>15. CASE CleanupRecovery
  <2>1. ~BeginRecovery
    BY <1>15 DEF CleanupRecovery, BeginRecovery
  <2>2. fromSlot' = targetSlot /\ pc = "cleanup" /\ pc' = "scope" /\ UNCHANGED <<cursorVars, windowVars>>
    BY <1>15 DEF CleanupRecovery
  <2>3. targetSlot \in Int
    BY <1>1, NoSlotIsLowest DEF SlotTypes
  <2> QED
    BY <1>4, <1>6, <2>1, <2>2, <2>3 DEF AheadOf
<1>16. CASE Subscribe
  <2>1. ~BeginRecovery
    BY <1>16 DEF Subscribe, BeginRecovery
  <2>2. streamSlot' = fromSlot /\ streamTx' = NoTx /\ pc = "subscribe" /\ pc' = "stream"
        /\ UNCHANGED <<cursorVars, windowVars>>
    BY <1>16 DEF Subscribe
  <2>3. Before(NoTx, t)
    BY <1>1, ChainPositions DEF Before, NoTx, Inv
  <2> QED
    BY <1>4, <1>6, <2>1, <2>2, <2>3 DEF AheadOf, Slot, Before
<1>17. CASE DeliverTransaction
  <2>1. ~BeginRecovery
    BY <1>17 DEF DeliverTransaction, BeginRecovery
  <2>2. /\ row' = First(Deliverable) /\ pc = "stream" /\ pc' = "record"
        /\ UNCHANGED <<cursorVars, windowVars, streamVars, persisted>> /\ Deliverable # {}
    BY <1>17 DEF DeliverTransaction
  <2>3. Pending(t) /\ Slot(t) >= streamSlot /\ Before(streamTx, t)
    BY <1>6, <2>1, <2>2 DEF AheadOf
  <2>4. row' \in Deliverable /\ \A u \in Deliverable \ {row'} : Before(row', u)
    BY <1>1, <2>2, NextDeliveryIsLeast
  <2>5. row' \in OnChain /\ row' \in Nat \X Nat /\ Slot(row') = streamSlot
    BY <1>2, <2>4 DEF Deliverable, Slot
  <2>6. ~Before(t, row')
    <3>1. CASE Slot(t) = streamSlot
      <4>1. t \in Deliverable
        BY <2>2, <2>3, <3>1, PendingIsDeliverable
      <4> QED
        BY <1>4, <2>4, <2>5, <4>1, BeforeIsTotal
    <3>2. CASE Slot(t) # streamSlot
      <4>1. Slot(row') < Slot(t) /\ Slot(row') \in Nat
        BY <1>1, <1>4, <2>3, <2>5, <3>2 DEF SlotTypes
      <4> QED
        BY <1>4, <4>1 DEF Before, Slot
    <3> QED
      BY <3>1, <3>2
  <2> QED
    BY <1>4, <1>6, <2>1, <2>2, <2>3, <2>6 DEF AheadOf, Before, Slot
<1>18. CASE RecordCheckpoint
  <2>1. ~BeginRecovery
    BY <1>18 DEF RecordCheckpoint, BeginRecovery
  <2>2. /\ checkpoint' = Larger(checkpoint, Slot(row)) /\ UNCHANGED <<coverage, windowVars, streamSlot, persisted, blocks, projected>>
        /\ pc = "record"
        /\ \/ pc' = "rescope" /\ row' = row
           \/ pc' = "stream" /\ streamTx' = row /\ ~(AutoDiscovery /\ Content(row).op # "none")
    BY <1>18 DEF RecordCheckpoint, UpdateCheckpoint
  <2>3. Slot(row) = streamSlot /\ Slot(t) >= streamSlot /\ ~Before(t, row) /\ row \in projected /\ row \in OnChain
    BY <1>1, <1>6, <2>1, <2>2 DEF RowInStream, AheadOf, RowHeard, RowKnown
  <2>4. pc' = "stream" => Before(row, t)
    <3> SUFFICES ASSUME pc' = "stream" PROVE Before(row, t)
      OBVIOUS
    <3>1. Content(row).op = "none"
      BY <2>2 DEF OnlyRegistered
    <3>2. Pending(t) /\ ~Unheard(row)
      BY <1>6, <2>1, <2>2, <3>1 DEF Unheard
    <3>3. t # row
      BY <2>3, <3>2 DEF Pending, Outstanding, LackedBy
    <3> QED
      BY <1>2, <1>4, <2>3, <3>3, BeforeIsTotal
  <2>5. checkpoint \in Int /\ streamSlot \in Int /\ (recTarget = NoSlot => Slot(t) >= checkpoint /\ Slot(t) > coverage)
    BY <1>1, <1>6, <2>1, NoSlotIsLowest DEF SlotTypes, AheadOf
  <2>6. Slot(t) >= checkpoint' \/ recTarget # NoSlot
    BY <2>2, <2>3, <2>5 DEF Larger
  <2>7. recTarget # NoSlot => Slot(t) > recFrom
    BY <1>6, <2>1 DEF AheadOf
  <2> QED
    BY <1>4, <2>2, <2>3, <2>4, <2>5, <2>6, <2>7 DEF AheadOf, Before, Slot
<1>19. CASE Rescope
  <2>1. ~BeginRecovery
    BY <1>19 DEF Rescope, BeginRecovery
  <2>2. /\ UNCHANGED <<cursorVars, windowVars, streamSlot, row, blocks, projected>>
        /\ pc = "rescope" /\ pc' = "regenerate" /\ persisted' = ChangedScope
    BY <1>19 DEF Rescope
  <2>3. row \in projected /\ row \in OnChain
    BY <1>1, <2>2 DEF RowHeard, RowKnown
  <2>4. ~Unheard(row)'
    BY <2>2 DEF Unheard, ChangedScope, Content
  <2>5. t # row
    BY <2>2, <2>3, <2>4 DEF Pending, Outstanding, LackedBy
  <2>6. Slot(t) >= streamSlot /\ ~Before(t, row)
    BY <1>6, <2>1, <2>2 DEF AheadOf
  <2>7. Before(row, t)
    BY <1>2, <1>4, <2>3, <2>5, <2>6, BeforeIsTotal
  <2> QED
    BY <1>4, <1>6, <2>1, <2>2, <2>6, <2>7 DEF AheadOf, Before
<1>20. CASE RescopeUnneeded
  <2>1. ~BeginRecovery
    BY <1>20 DEF RescopeUnneeded, BeginRecovery
  <2>2. /\ UNCHANGED <<cursorVars, windowVars, streamSlot, persisted, blocks, projected>> /\ streamTx' = row
        /\ pc = "rescope" /\ pc' = "stream" /\ ChangedScope = discovered
    BY <1>20 DEF RescopeUnneeded
  <2>3. row \in projected /\ row \in OnChain /\ persisted = discovered
    BY <1>1, <2>2 DEF RowHeard, RowKnown, SameScope
  <2>4. ~Unheard(row)
    BY <2>2, <2>3 DEF Unheard, ChangedScope
  <2>5. t # row
    BY <1>6, <2>1, <2>2, <2>3, <2>4 DEF Pending, Outstanding, LackedBy
  <2>6. Slot(t) >= streamSlot /\ ~Before(t, row)
    BY <1>6, <2>1, <2>2 DEF AheadOf
  <2>7. Before(row, t)
    BY <1>2, <1>4, <2>3, <2>5, <2>6, BeforeIsTotal
  <2> QED
    BY <1>4, <1>6, <2>1, <2>2, <2>6, <2>7 DEF AheadOf, Before
<1>21. CASE DeliverSlot
  <2>1. ~BeginRecovery
    BY <1>21 DEF DeliverSlot, BeginRecovery
  <2>2. /\ UNCHANGED <<cursorVars, windowVars, pc, persisted>> /\ streamSlot' = streamSlot + 1 /\ streamTx' = NoTx
        /\ pc = "stream" /\ Deliverable = {}
    BY <1>21 DEF DeliverSlot
  <2>3. Slot(t) >= streamSlot /\ Slot(t) # streamSlot
    BY <1>6, <2>1, <2>2, PendingIsDeliverable DEF AheadOf
  <2>4. Slot(t) >= streamSlot + 1 /\ Before(NoTx, t)
    BY <1>1, <1>4, <2>3, ChainPositions DEF SlotTypes, Before, NoTx, Inv
  <2> QED
    BY <1>4, <1>6, <2>1, <2>2, <2>4 DEF AheadOf, Before, Slot
<1>22. CASE ConfirmSlot \/ HeadCacheExpires \/ Heartbeat \/ UNCHANGED vars
  BY <1>7, <1>22 DEF ConfirmSlot, HeadCacheExpires, Heartbeat, vars
<1>23. CASE Start \/ Crash
  BY <1>8, <1>23 DEF Start, Crash, BeginRecovery
<1>24. CASE StageProgram \/ StagingDone \/ ResolveSlot \/ IndexesResolved \/ ProjectRow
            \/ ApplyRecoveryChange \/ StageRegistered \/ FinishRow \/ BatchDone
  BY <1>8, <1>24 DEF StageProgram, StagingDone, ResolveSlot, IndexesResolved, ProjectRow,
     ApplyRecoveryChange, StageRegistered, FinishRow, BatchDone, BeginRecovery
<1>25. CASE SubscribeRefused
  BY <1>8, <1>25 DEF SubscribeRefused, LoopAgain, BeginRecovery
<1> QED
  BY <1>5, <1>9, <1>10, <1>11, <1>12, <1>13, <1>14, <1>15, <1>16, <1>17, <1>18, <1>19, <1>20,
     <1>21, <1>22, <1>23, <1>24, <1>25, NoCallFails DEF Next, Listener, Recovering, Streaming, Faults

\* At the start nothing is registered, staged or lacked.
LEMMA InitScopeInv == Init => ScopeInv
<1> SUFFICES ASSUME Init PROVE ScopeInv
  OBVIOUS
<1> USE DEF Opening, Working, WithRow
<1>1. OnChain = {}
  BY DEF Init, OnChain
<1>2. ProgramsKnown /\ RowsHeard /\ RowHeard /\ ScopeStaged /\ LateStaged
  BY DEF Init, ProgramsKnown, RowsHeard, Rows, RowHeard, ScopeStaged, LateStaged
<1>3. PendingAhead
  BY <1>1 DEF PendingAhead
<1> QED
  BY <1>2, <1>3, InitSameScope DEF ScopeInv

(***************************************************************************)
(* As long as no call fails and the registry only registers, the scope is  *)
(* one scope everywhere and every transaction of a configured or           *)
(* registered program up to the coverage slot is in the read model once no *)
(* recovery window is open: however often the process stopped in between,  *)
(* wherever in its slot an extension was registered, and whether the       *)
(* stream or a recovery met it.                                            *)
(***************************************************************************)
THEOREM ScopeIsAlwaysCovered ==
    ASSUME OnlyRegistered
    PROVE  Spec => []ScopeIsCovered
<1>1. Known /\ ScopeInv /\ [Next]_vars => ScopeInv'
  <2> SUFFICES ASSUME Known, ScopeInv, [Next]_vars PROVE ScopeInv'
    OBVIOUS
  <2>1. AllKnown
    BY DEF AllKnown
  <2>2. SameScope'
    BY SameScopeStep DEF Known, ScopeInv, OnlyRegistered
  <2> QED
    BY <2>1, <2>2, ProgramsKnownStep, RowsHeardStep, RowHeardStep, ScopeStagedStep, LateStagedStep,
       PendingAheadStep DEF ScopeInv
<1>2. Known /\ ScopeInv => ScopeIsCovered
  <2> SUFFICES ASSUME Known, ScopeInv PROVE ScopeIsCovered
    OBVIOUS
  <2>1. OneScope
    BY DEF ScopeInv, SameScope, OneScope, Working, Generated
  <2>2. ASSUME recTarget = NoSlot, NEW t \in OnChain, InScope(t), Slot(t) <= coverage, t \notin projected
        PROVE  FALSE
    <3>1. SlotTypes /\ PendingAhead /\ OnChain \subseteq Nat \X Nat
      BY ChainPositions DEF Known, Inv, TypeOK, ScopeInv
    <3>2. \A u \in OnChain : Slot(u) \in Nat
      BY <3>1 DEF Slot
    <3>3. coverage \in Int
      BY <3>1, NoSlotIsLowest DEF SlotTypes
    <3>4. ASSUME NEW u \in OnChain, Pending(u) PROVE Slot(u) > coverage
      BY <2>2, <3>1, <3>4 DEF PendingAhead, AheadOf
    <3>5. CASE Expected(t)
      <4>1. Pending(t)
        BY <2>2, <3>5 DEF Pending, Outstanding
      <4> QED
        BY <2>2, <3>2, <3>3, <3>4, <4>1
    <3>6. CASE ~Expected(t)
      <4>1. PICK e \in Content(t).touch \cap Extensions : LackedBy(e, t)
        BY <2>2, <3>6 DEF InScope, LackedBy
      <4>2. CASE e \in persisted
        <5>1. Pending(t)
          BY <4>1, <4>2 DEF Pending
        <5> QED
          BY <2>2, <3>2, <3>3, <3>4, <5>1
      <4>3. CASE e \notin persisted
        <5>1. PICK u \in OnChain : Owed(u) /\ Unheard(u) /\ ~Before(t, u)
          BY <4>1, <4>3, UnheardBefore
        <5>2. Slot(u) > coverage
          BY <3>4, <5>1 DEF Pending
        <5>3. ~(Slot(t) < Slot(u))
          BY <5>1 DEF Before, Slot
        <5> QED
          BY <2>2, <3>2, <3>3, <5>2, <5>3
      <4> QED
        BY <4>2, <4>3
    <3> QED
      BY <3>5, <3>6
  <2> QED
    BY <2>1, <2>2 DEF ScopeIsCovered, CoverageIsProjected
<1> QED
  BY <1>1, <1>2, InitScopeInv, NothingGetsBehind, PTL DEF Spec
=============================================================================
