------------------------- MODULE YellowstoneIndexer -------------------------
(***************************************************************************)
(* The Yellowstone event listener of services/indexer-core together with   *)
(* its HTTP recovery: listeners/event_listener.rs, listeners/recovery.rs,  *)
(* database/checkpoint.rs, database/runtime_state.rs and grpc/client.rs.   *)
(*                                                                         *)
(* One process follows a chain of confirmed slots.  It reads transactions  *)
(* from a gRPC stream that can replay a bounded number of slots; after a   *)
(* longer outage it pages signatures over HTTP, stages them in a table and *)
(* projects them in order before it subscribes again.  Everything in       *)
(* PostgreSQL survives a crash, everything in the process does not.        *)
(*                                                                         *)
(* The state machine is cut at every statement or transaction the code     *)
(* commits, so that a crash or a failed call can fall between any two.     *)
(***************************************************************************)
EXTENDS Integers, Sequences, FiniteSets

CONSTANTS
    BasePrograms,   \* programs configured at start, the registry factory among them
    Extensions,     \* programs the registry factory may register or remove
    BlockChoices,   \* BlockChoices[s]: the blocks the chain may confirm at slot s
    ReplayWindow,   \* YELLOWSTONE_REPLAY_WINDOW_SLOTS
    PageSize,       \* RECOVERY_SIGNATURE_PAGE_SIZE
    AutoDiscovery,  \* ENABLE_EXTENSION_AUTO_DISCOVERY: the stream follows the registry
    MaxSlot,        \* bound: the chain stops growing here
    MaxCrashes,     \* bound: process crashes
    MaxErrors       \* bound: failed RPC, database and stream calls

Programs == BasePrograms \cup Extensions
NoSlot == -1        \* SQL NULL, Rust None
NoTx == <<0, 0>>

(***************************************************************************)
(* A transaction: the programs its logs name, whether it succeeded, and    *)
(* the extension change it logs, if any.                                   *)
(***************************************************************************)
Transaction == [touch : SUBSET Programs, ok : BOOLEAN,
                op : {"none", "register", "remove"}, ext : Extensions \cup {"none"}]

ASSUME ConstantsAssumption ==
    /\ BasePrograms # {}
    /\ IsFiniteSet(BasePrograms) /\ IsFiniteSet(Extensions)
    /\ BasePrograms \cap Extensions = {}
    /\ ReplayWindow \in Nat \ {0}
    /\ PageSize \in Nat \ {0}
    /\ AutoDiscovery \in BOOLEAN
    /\ MaxSlot \in Nat /\ MaxCrashes \in Nat /\ MaxErrors \in Nat
    /\ BlockChoices \in [1 .. MaxSlot -> SUBSET Seq(Transaction)]

(***************************************************************************)
(* A registry change is logged by a transaction that ran the registry      *)
(* factory, which is one of the base programs.                             *)
(***************************************************************************)
ASSUME RegistryAssumption ==
    \A s \in 1 .. MaxSlot : \A b \in BlockChoices[s] : \A i \in DOMAIN b :
        b[i].op # "none" => /\ b[i].touch \cap BasePrograms # {}
                            /\ b[i].ext \in Extensions

VARIABLES
    blocks,         \* the confirmed blocks; the head slot is Len(blocks)
    \* PostgreSQL
    projected,      \* transactions whose events are in the read model
    checkpoint,     \* sync_checkpoints.last_processed_slot
    coverage,       \* indexer_runtime_state.coverage_slot
    recFrom,        \* indexer_runtime_state.recovery_from_slot
    recTarget,      \* indexer_runtime_state.recovery_target_slot
    generation,     \* ....filter_generation_hash, as the program set it hashes; {} is NULL
    phase,          \* indexer_runtime_state.phase
    connected,      \* indexer_runtime_state.grpc_connected
    lastError,      \* indexer_runtime_state.last_error IS NOT NULL
    persisted,      \* ....discovered_extension_program_ids
    unindexed,      \* indexer_recovery_transactions: 'staged', transaction_index NULL
    indexed,        \* 'staged', transaction_index known
    finished,       \* 'done'
    cursor,         \* indexer_program_cursors of the recovery mode; NoTx when absent
    \* the process
    pc,             \* where the listener is
    discovered,     \* EventListener.discovered_extension_program_ids
    coordDiscovered,\* RecoveryCoordinator.discovered_extension_program_ids
    tracked,        \* AlchemeGrpcClient.tracked_program_ids
    headCache,      \* RecoveryHeadCache.slot
    headFresh,      \* whether the cached head is younger than its maximum age
    fromSlot,       \* recovery from_slot, then subscription_resume_slot
    targetSlot,     \* recovery target_slot, then stream_catchup_target_slot
    todo,           \* programs the running recovery has still to stage
    row,            \* the transaction being projected
    streamSlot,     \* the slot the stream is delivering
    streamTx,       \* the last transaction of that slot it delivered
    \* history and budgets
    baseline,       \* from_slot of the first recovery: nothing older was ever asked for
    seams,          \* every from_slot a recovery started at
    crashes, errors

chainVars == <<blocks>>
cursorVars == <<checkpoint, coverage>>
windowVars == <<recFrom, recTarget>>
statusVars == <<phase, connected, lastError>>
rowVars == <<unindexed, indexed, finished, cursor>>
scopeVars == <<discovered, coordDiscovered, tracked>>
headVars == <<headCache, headFresh>>
rangeVars == <<fromSlot, targetSlot>>
streamVars == <<streamSlot, streamTx>>
historyVars == <<baseline, seams>>
budgetVars == <<crashes, errors>>
vars == <<blocks, projected, checkpoint, coverage, recFrom, recTarget, generation,
          phase, connected, lastError, persisted, unindexed, indexed, finished,
          cursor, pc, discovered, coordDiscovered, tracked, headCache, headFresh,
          fromSlot, targetSlot, todo, row, streamSlot, streamTx, baseline, seams,
          crashes, errors>>

-----------------------------------------------------------------------------
(* Slots and transactions. *)

Larger(a, b) == IF a >= b THEN a ELSE b
Smaller(a, b) == IF a <= b THEN a ELSE b

HeadSlot == Len(blocks)
OnChain == UNION {{<<s, i>> : i \in DOMAIN blocks[s]} : s \in DOMAIN blocks}
Slot(t) == t[1]
Content(t) == blocks[t[1]][t[2]]

\* The order of the chain: by slot, then by transaction index.
Before(t, u) == \/ t[1] < u[1]
                \/ t[1] = u[1] /\ t[2] < u[2]

First(T) == CHOOSE t \in T : \A u \in T \ {t} : Before(t, u)
Mentions(p) == {t \in OnChain : p \in Content(t).touch}

\* durable_resume_slot: None is below every slot, so the larger of the two is the Some.
DurableResumeSlot == Larger(checkpoint, coverage)

SlotTypes ==
    /\ {checkpoint, coverage, recFrom, recTarget} \subseteq Nat \cup {NoSlot}
    /\ {headCache, targetSlot, baseline} \subseteq Nat \cup {NoSlot}
    /\ {fromSlot, streamSlot, crashes, errors} \subseteq Nat
    /\ seams \subseteq Nat

StatusTypes ==
    /\ phase \in {"starting", "catching_up", "degraded", "error", "live"}
    /\ {connected, lastError, headFresh} \subseteq BOOLEAN
    /\ pc \in {"down", "decide", "mark", "begin", "stage", "resolve", "project", "change",
               "late", "advance", "finish", "complete", "cleanup", "scope", "subscribe",
               "stream", "record", "rescope", "regenerate"}

ScopeTypes ==
    /\ generation \subseteq Programs /\ todo \subseteq Programs
    /\ tracked \subseteq Programs /\ BasePrograms \subseteq tracked
    /\ persisted \subseteq Extensions
    /\ discovered \subseteq Extensions /\ coordDiscovered \subseteq Extensions

RowTypes ==
    /\ projected \cup unindexed \cup indexed \cup finished \subseteq OnChain
    /\ cursor \in [Programs -> OnChain \cup {NoTx}]
    /\ {row, streamTx} \subseteq OnChain \cup {NoTx}

TypeOK ==
    /\ blocks \in Seq(Seq(Transaction))
    /\ SlotTypes /\ StatusTypes /\ ScopeTypes /\ RowTypes

Init ==
    /\ blocks = <<>> /\ projected = {}
    /\ checkpoint = NoSlot /\ coverage = NoSlot
    /\ recFrom = NoSlot /\ recTarget = NoSlot /\ generation = {}
    /\ phase = "starting" /\ connected = FALSE /\ lastError = FALSE
    /\ persisted = {}
    /\ unindexed = {} /\ indexed = {} /\ finished = {}
    /\ cursor = [p \in Programs |-> NoTx]
    /\ pc = "down"
    /\ discovered = {} /\ coordDiscovered = {} /\ tracked = BasePrograms
    /\ headCache = NoSlot /\ headFresh = FALSE
    /\ fromSlot = 0 /\ targetSlot = NoSlot
    /\ todo = {} /\ row = NoTx /\ streamSlot = 0 /\ streamTx = NoTx
    /\ baseline = NoSlot /\ seams = {}
    /\ crashes = 0 /\ errors = 0

-----------------------------------------------------------------------------
(* Statements on indexer_runtime_state. *)

\* mark_filter_generation: a new program set takes the coverage back to the slot
\* before the one it is effective from.
MarkFilterGeneration(newTracked, slot) ==
    /\ generation' = newTracked
    /\ coverage' = IF generation # newTracked /\ coverage # NoSlot
                   THEN Smaller(coverage, Larger(slot - 1, 0))
                   ELSE coverage

\* mark_error, which the listener follows with mark_stream_disconnected.
MarkError == phase' = "error" /\ lastError' = TRUE /\ connected' = FALSE

MarkStreamDisconnected ==
    /\ connected' = FALSE
    /\ phase' = IF phase = "live" THEN "starting" ELSE phase
    /\ UNCHANGED lastError

MarkStreamConnected ==
    /\ connected' = TRUE /\ lastError' = FALSE
    /\ phase' = IF phase = "error" THEN "starting" ELSE phase

MarkStreamCaughtUp ==
    /\ phase' = IF connected /\ coverage # NoSlot /\ recTarget = NoSlot /\ ~lastError
                THEN "live" ELSE phase
    /\ UNCHANGED <<connected, lastError>>

-----------------------------------------------------------------------------
(* The chain, the clock and the process around the listener. *)

\* The next iteration of the outer loop: what one iteration binds goes out of scope.
LoopAgain ==
    /\ pc' = "decide"
    /\ fromSlot' = 0 /\ targetSlot' = NoSlot
    /\ todo' = {} /\ row' = NoTx
    /\ streamSlot' = 0 /\ streamTx' = NoTx

\* The cluster confirms the next slot with one of its possible blocks.
ConfirmSlot ==
    /\ HeadSlot < MaxSlot
    /\ \E b \in BlockChoices[HeadSlot + 1] : blocks' = Append(blocks, b)
    /\ UNCHANGED <<projected, cursorVars, windowVars, generation, statusVars, persisted,
                   rowVars, pc, scopeVars, headVars, rangeVars, todo, row, streamVars,
                   historyVars, budgetVars>>

\* The cached head grows older than half the replay window.
HeadCacheExpires ==
    /\ headFresh /\ headFresh' = FALSE
    /\ UNCHANGED <<chainVars, projected, cursorVars, windowVars, generation, statusVars,
                   persisted, rowVars, pc, scopeVars, headCache, rangeVars, todo, row,
                   streamVars, historyVars, budgetVars>>

\* The process stops anywhere; a failed `?` in the outer loop ends it as well.
Crash ==
    /\ pc # "down" /\ crashes < MaxCrashes
    /\ crashes' = crashes + 1
    /\ pc' = "down"
    /\ fromSlot' = 0 /\ targetSlot' = NoSlot
    /\ todo' = {} /\ row' = NoTx /\ streamSlot' = 0 /\ streamTx' = NoTx
    /\ discovered' = {} /\ coordDiscovered' = {} /\ tracked' = BasePrograms
    /\ headCache' = NoSlot /\ headFresh' = FALSE
    /\ UNCHANGED <<chainVars, projected, cursorVars, windowVars, generation, statusVars,
                   persisted, rowVars, historyVars, errors>>

\* EventListener::start up to its loop: mark_listener_started, then the persisted scope.
Start ==
    /\ pc = "down"
    /\ pc' = "decide"
    /\ phase' = "starting" /\ lastError' = FALSE /\ connected' = FALSE
    /\ discovered' = persisted
    /\ coordDiscovered' = persisted
    /\ tracked' = BasePrograms \cup persisted
    /\ UNCHANGED <<chainVars, projected, cursorVars, windowVars, generation, persisted,
                   rowVars, headVars, rangeVars, todo, row, streamVars, historyVars,
                   budgetVars>>

-----------------------------------------------------------------------------
(* recover_if_required: decide, then open the window. *)

\* current_head_slot: the cached head while it is fresh, otherwise getSlot.
CurrentHeadSlot == IF headFresh THEN headCache ELSE HeadSlot

ReadHead(h) ==
    IF recTarget # NoSlot
    THEN h = recTarget /\ UNCHANGED headVars
    ELSE h = CurrentHeadSlot /\ headCache' = h /\ headFresh' = TRUE

\* Defect: one slot more than the provider replays.
RecoveryNotRequiredLate(h) ==
    /\ recTarget = NoSlot
    /\ coverage # NoSlot
    /\ h - DurableResumeSlot <= ReplayWindow + 1

RecoveryNotRequired(h) ==
    /\ recTarget = NoSlot
    /\ coverage # NoSlot
    /\ h - DurableResumeSlot <= ReplayWindow

\* Defect: head_slot - replay_window_slots without saturation.
RecoveryFromSlotUnderflow(h) ==
    IF recTarget # NoSlot THEN recFrom
    ELSE IF coverage = NoSlot /\ checkpoint = NoSlot THEN h - ReplayWindow
    ELSE IF coverage = NoSlot THEN checkpoint
    ELSE DurableResumeSlot

RecoveryFromSlot(h) ==
    IF recTarget # NoSlot THEN recFrom
    ELSE IF coverage = NoSlot /\ checkpoint = NoSlot THEN Larger(h - ReplayWindow, 0)
    ELSE IF coverage = NoSlot THEN checkpoint
    ELSE DurableResumeSlot

\* The stream can replay everything since the durable cursor.
DecideStream ==
    /\ pc = "decide"
    /\ \E h \in {recTarget, CurrentHeadSlot} :
        /\ ReadHead(h) /\ RecoveryNotRequired(h)
        /\ targetSlot' = h
    /\ fromSlot' = DurableResumeSlot
    /\ coordDiscovered' = discovered
    /\ pc' = "scope"
    /\ UNCHANGED <<chainVars, projected, cursorVars, windowVars, generation, statusVars,
                   persisted, rowVars, discovered, tracked, todo, row, streamVars,
                   historyVars, budgetVars>>

\* Defect: rows that outlived their window pass for those of the next.
RowsAreStaleByHash == generation # tracked

\* The rows were not staged for an open window over the present program set.
RowsAreStale == recTarget = NoSlot \/ generation # tracked

\* A window is open or has to be; stale rows and cursors are deleted.
DecideRecover ==
    /\ pc = "decide"
    /\ \E h \in {recTarget, CurrentHeadSlot} :
        /\ ReadHead(h) /\ ~RecoveryNotRequired(h)
        /\ fromSlot' = RecoveryFromSlot(h)
        /\ targetSlot' = h
    /\ coordDiscovered' = discovered
    /\ IF RowsAreStale
       THEN /\ unindexed' = {} /\ indexed' = {} /\ finished' = {}
            /\ cursor' = [p \in Programs |-> NoTx]
       ELSE UNCHANGED rowVars
    /\ pc' = "mark"
    /\ UNCHANGED <<chainVars, projected, cursorVars, windowVars, generation, statusVars,
                   persisted, discovered, tracked, todo, row, streamVars, historyVars,
                   budgetVars>>

MarkRecoveryGeneration ==
    /\ pc = "mark"
    /\ MarkFilterGeneration(tracked, fromSlot)
    /\ pc' = "begin"
    /\ UNCHANGED <<chainVars, projected, checkpoint, windowVars, statusVars, persisted,
                   rowVars, scopeVars, headVars, rangeVars, todo, row, streamVars,
                   historyVars, budgetVars>>

\* The window or its generation cannot be written: nothing is degraded yet.
OpeningFails ==
    /\ pc \in {"mark", "begin"}
    /\ errors < MaxErrors /\ errors' = errors + 1
    /\ LoopAgain
    /\ UNCHANGED <<chainVars, projected, cursorVars, windowVars, generation, statusVars,
                   persisted, rowVars, scopeVars, headVars, historyVars, crashes>>

BeginRecovery ==
    /\ pc = "begin"
    /\ phase' = "catching_up" /\ connected' = FALSE /\ lastError' = FALSE
    /\ recFrom' = fromSlot /\ recTarget' = targetSlot
    /\ todo' = BasePrograms \cup coordDiscovered   \* current_program_ids
    /\ pc' = "stage"
    /\ baseline' = IF baseline = NoSlot THEN fromSlot ELSE baseline
    /\ seams' = seams \cup {fromSlot}
    /\ UNCHANGED <<chainVars, projected, cursorVars, generation, persisted, rowVars,
                   scopeVars, headVars, rangeVars, row, streamVars, budgetVars>>

-----------------------------------------------------------------------------
(* run_recovery: stage, resolve, project, complete, clean up. *)

\* One page of getSignaturesForAddress: the newest PageSize below the cursor.
Page(p) ==
    LET older == {t \in Mentions(p) : cursor[p] = NoTx \/ Before(t, cursor[p])}
    IN {t \in older : Cardinality({u \in older : Before(t, u)}) < PageSize}

\* Defect: a page that is exactly full counts as the last one.
NextCursorShort(p, from) ==
    LET page == Page(p)
        full == Cardinality(page) > PageSize
    IN IF full /\ Slot(First(page)) > from THEN First(page) ELSE NoTx

\* The cursor a page leaves: its oldest signature while there is more to fetch.
NextCursor(p, from) ==
    LET page == Page(p)
        full == Cardinality(page) >= PageSize
    IN IF full /\ Slot(First(page)) > from THEN First(page) ELSE NoTx

\* One committed page of stage_one_program; a row already known keeps its state.
StagePage(p, from) ==
    /\ unindexed' = unindexed \cup
           ({t \in Page(p) : from < Slot(t) /\ Slot(t) <= targetSlot}
                \ (indexed \cup finished))
    /\ cursor' = [cursor EXCEPT ![p] = NextCursor(p, from)]
    /\ UNCHANGED <<indexed, finished>>

\* The programs are staged one after the other, in the order of their set.
StageProgram ==
    /\ pc = "stage" /\ todo # {}
    /\ LET p == CHOOSE q \in todo : TRUE IN
        /\ StagePage(p, fromSlot)
        /\ todo' = IF cursor'[p] = NoTx THEN todo \ {p} ELSE todo
    /\ UNCHANGED <<chainVars, projected, cursorVars, windowVars, generation, statusVars,
                   persisted, pc, scopeVars, headVars, rangeVars, row, streamVars,
                   historyVars, budgetVars>>

StagingDone ==
    /\ pc = "stage" /\ todo = {}
    /\ pc' = "resolve"
    /\ UNCHANGED <<chainVars, projected, cursorVars, windowVars, generation, statusVars,
                   persisted, rowVars, scopeVars, headVars, rangeVars, todo, row,
                   streamVars, historyVars, budgetVars>>

\* resolve_transaction_indexes commits slot by slot.
ResolveSlot ==
    /\ pc = "resolve" /\ unindexed # {}
    /\ LET s == Slot(First(unindexed))
           resolved == {t \in unindexed : Slot(t) = s}
       IN /\ unindexed' = unindexed \ resolved
          /\ indexed' = indexed \cup resolved
    /\ UNCHANGED <<chainVars, projected, cursorVars, windowVars, generation, statusVars,
                   persisted, finished, cursor, pc, scopeVars, headVars, rangeVars, todo,
                   row, streamVars, historyVars, budgetVars>>

IndexesResolved ==
    /\ pc = "resolve" /\ unindexed = {}
    /\ pc' = "project"
    /\ UNCHANGED <<chainVars, projected, cursorVars, windowVars, generation, statusVars,
                   persisted, rowVars, scopeVars, headVars, rangeVars, todo, row,
                   streamVars, historyVars, budgetVars>>

\* project_one: a failed transaction, or one whose logs name no program in scope,
\* is skipped without an error.
Projectable(t, programs) == Content(t).ok /\ Content(t).touch \cap programs # {}

\* current_program_id_set of the coordinator.
RecoveryScope == BasePrograms \cup coordDiscovered

\* Defect: the queue without its order by slot.
NextRowUnordered == CHOOSE t \in indexed : \A u \in indexed \ {t} : Before(u, t)

\* ORDER BY slot, transaction_index.
NextRow == First(indexed)

ProjectRow ==
    /\ pc = "project" /\ indexed # {}
    /\ LET t == NextRow
           hit == Projectable(t, RecoveryScope)
       IN /\ row' = t
          /\ projected' = IF hit THEN projected \cup {t} ELSE projected
          /\ pc' = IF hit /\ Content(t).op # "none" THEN "change" ELSE "advance"
    /\ UNCHANGED <<chainVars, cursorVars, windowVars, generation, statusVars, persisted,
                   rowVars, scopeVars, headVars, rangeVars, todo, streamVars, historyVars,
                   budgetVars>>

\* A registration or removal met by the recovery: set, persist, stage a new program.
ApplyRecoveryChange ==
    /\ pc = "change"
    /\ LET e == Content(row).ext
           new == IF Content(row).op = "register" THEN coordDiscovered \cup {e}
                                                  ELSE coordDiscovered \ {e}
       IN /\ coordDiscovered' = new
          /\ persisted' = IF new # coordDiscovered THEN new ELSE persisted
          /\ pc' = IF new \ coordDiscovered # {} THEN "late" ELSE "advance"
    /\ UNCHANGED <<chainVars, projected, cursorVars, windowVars, generation, statusVars,
                   rowVars, discovered, tracked, headVars, rangeVars, todo, row,
                   streamVars, historyVars, budgetVars>>

\* Defect: the slot of the registration is left out.
RegisteredFromSlotExclusive(slot) == slot

\* registered_program_recovery_from_slot: staging is exclusive, so the slot before.
RegisteredFromSlot(slot) == Larger(slot - 1, 0)

\* stage_one_program for the program just registered.
StageRegistered ==
    /\ pc = "late"
    /\ LET p == Content(row).ext IN
        /\ StagePage(p, RegisteredFromSlot(Slot(row)))
        /\ pc' = IF cursor'[p] = NoTx THEN "advance" ELSE "late"
    /\ UNCHANGED <<chainVars, projected, cursorVars, windowVars, generation, statusVars,
                   persisted, scopeVars, headVars, rangeVars, todo, row, streamVars,
                   historyVars, budgetVars>>

\* Defect: the upsert without GREATEST.
UpdateCheckpointLast(slot) == checkpoint' = slot

\* checkpoint_upsert_sql: the slot never goes back.
UpdateCheckpoint(slot) == checkpoint' = Larger(checkpoint, slot)

AdvanceCheckpoint ==
    /\ pc = "advance"
    /\ UpdateCheckpoint(Slot(row))
    /\ pc' = "finish"
    /\ UNCHANGED <<chainVars, projected, coverage, windowVars, generation, statusVars,
                   persisted, rowVars, scopeVars, headVars, rangeVars, todo, row,
                   streamVars, historyVars, budgetVars>>

FinishRow ==
    /\ pc = "finish"
    /\ indexed' = indexed \ {row} /\ finished' = finished \cup {row}
    /\ row' = NoTx
    /\ pc' = "project"
    /\ UNCHANGED <<chainVars, projected, cursorVars, windowVars, generation, statusVars,
                   persisted, unindexed, cursor, scopeVars, headVars, rangeVars, todo,
                   streamVars, historyVars, budgetVars>>

\* pending_recovery_count: rows staged meanwhile send the recovery round again.
BatchDone ==
    /\ pc = "project" /\ indexed = {}
    /\ pc' = IF unindexed # {} THEN "resolve" ELSE "complete"
    /\ UNCHANGED <<chainVars, projected, cursorVars, windowVars, generation, statusVars,
                   persisted, rowVars, scopeVars, headVars, rangeVars, todo, row,
                   streamVars, historyVars, budgetVars>>

CompleteRecovery ==
    /\ pc = "complete"
    /\ phase' = "starting" /\ lastError' = FALSE /\ UNCHANGED connected
    /\ coverage' = Larger(coverage, targetSlot)
    /\ recFrom' = NoSlot /\ recTarget' = NoSlot
    /\ pc' = "cleanup"
    /\ UNCHANGED <<chainVars, projected, checkpoint, generation, persisted, rowVars,
                   scopeVars, headVars, rangeVars, todo, row, streamVars, historyVars,
                   budgetVars>>

CleanupRecovery ==
    /\ pc = "cleanup"
    /\ finished' = {} /\ cursor' = [p \in Programs |-> NoTx]
    /\ fromSlot' = targetSlot
    /\ pc' = "scope"
    /\ UNCHANGED <<chainVars, projected, cursorVars, windowVars, generation, statusVars,
                   persisted, unindexed, indexed, scopeVars, headVars, targetSlot, todo,
                   row, streamVars, historyVars, budgetVars>>

\* run_recovery returned an error: mark_recovery_degraded, back to the loop's top.
RecoveryFails ==
    /\ pc \in {"stage", "resolve", "project", "change", "late", "advance", "finish",
               "complete", "cleanup"}
    /\ errors < MaxErrors /\ errors' = errors + 1
    /\ phase' = "degraded" /\ connected' = FALSE /\ lastError' = TRUE
    /\ LoopAgain
    /\ UNCHANGED <<chainVars, projected, cursorVars, windowVars, generation, persisted,
                   rowVars, scopeVars, headVars, historyVars, crashes>>

-----------------------------------------------------------------------------
(* The stream: subscribe, deliver, record, resubscribe. *)

\* apply_recovered_extension_scope returns early when the set is the listener's own.
RecoveredFilter == IF coordDiscovered = discovered THEN tracked
                                                   ELSE BasePrograms \cup coordDiscovered

\* The recovered scope is taken over, then mark_filter_generation from the resume slot.
ApplyRecoveredScope ==
    /\ pc = "scope"
    /\ discovered' = coordDiscovered
    /\ tracked' = RecoveredFilter
    /\ MarkFilterGeneration(tracked', fromSlot)
    /\ pc' = "subscribe"
    /\ UNCHANGED <<chainVars, projected, checkpoint, windowVars, statusVars, persisted,
                   rowVars, coordDiscovered, headVars, rangeVars, todo, row, streamVars,
                   historyVars, budgetVars>>

\* The provider replays ReplayWindow slots; from_slot is inclusive.
Replayable == HeadSlot - fromSlot <= ReplayWindow

Subscribe ==
    /\ pc = "subscribe" /\ Replayable
    /\ MarkStreamConnected
    /\ streamSlot' = fromSlot /\ streamTx' = NoTx
    /\ pc' = "stream"
    /\ UNCHANGED <<chainVars, projected, cursorVars, windowVars, generation, persisted,
                   rowVars, scopeVars, headVars, rangeVars, todo, row, historyVars,
                   budgetVars>>

\* The provider no longer has from_slot.
SubscribeRefused ==
    /\ pc = "subscribe" /\ ~Replayable
    /\ MarkError
    /\ LoopAgain
    /\ UNCHANGED <<chainVars, projected, cursorVars, windowVars, generation, persisted,
                   rowVars, scopeVars, headVars, historyVars, budgetVars>>

SubscribeFails ==
    /\ pc = "subscribe"
    /\ errors < MaxErrors /\ errors' = errors + 1
    /\ MarkError
    /\ LoopAgain
    /\ UNCHANGED <<chainVars, projected, cursorVars, windowVars, generation, persisted,
                   rowVars, scopeVars, headVars, historyVars, crashes>>

\* The transactions of the current slot that match the filter and are still to come:
\* the stream leaves failed transactions out.
Deliverable == {t \in OnChain : /\ Slot(t) = streamSlot /\ Before(streamTx, t)
                                /\ Projectable(t, tracked)}

\* handle_transaction_update: the events reach the read model ...
DeliverTransaction ==
    /\ pc = "stream" /\ Deliverable # {}
    /\ row' = First(Deliverable)
    /\ projected' = projected \cup {row'}
    /\ pc' = "record"
    /\ UNCHANGED <<chainVars, cursorVars, windowVars, generation, statusVars, persisted,
                   rowVars, scopeVars, headVars, rangeVars, todo, streamVars, historyVars,
                   budgetVars>>

\* ... then the checkpoint follows ...
RecordCheckpoint ==
    /\ pc = "record"
    /\ UpdateCheckpoint(Slot(row))
    /\ IF AutoDiscovery /\ Content(row).op # "none"
       THEN pc' = "rescope" /\ UNCHANGED <<row, streamTx>>
       ELSE pc' = "stream" /\ row' = NoTx /\ streamTx' = row
    /\ UNCHANGED <<chainVars, projected, coverage, windowVars, generation, statusVars,
                   persisted, rowVars, scopeVars, headVars, rangeVars, todo, streamSlot,
                   historyVars, budgetVars>>

\* ... and a registry change alters the scope.
ChangedScope == IF Content(row).op = "register"
                THEN discovered \cup {Content(row).ext} ELSE discovered \ {Content(row).ext}

\* apply_extension_registry_changes persists the new set, then filters by it.
Rescope ==
    /\ pc = "rescope" /\ ChangedScope # discovered
    /\ discovered' = ChangedScope /\ persisted' = ChangedScope
    /\ coordDiscovered' = ChangedScope
    /\ tracked' = BasePrograms \cup ChangedScope
    /\ pc' = "regenerate"
    /\ UNCHANGED <<chainVars, projected, cursorVars, windowVars, generation, statusVars,
                   rowVars, headVars, rangeVars, todo, row, streamVars, historyVars,
                   budgetVars>>

\* The set in memory has changed when the statement that persists it fails.
RescopeFails ==
    /\ pc = "rescope" /\ ChangedScope # discovered
    /\ errors < MaxErrors /\ errors' = errors + 1
    /\ discovered' = ChangedScope
    /\ MarkError
    /\ LoopAgain
    /\ UNCHANGED <<chainVars, projected, cursorVars, windowVars, generation, persisted,
                   rowVars, coordDiscovered, tracked, headVars, historyVars, crashes>>

RescopeUnneeded ==
    /\ pc = "rescope" /\ ChangedScope = discovered
    /\ streamTx' = row /\ row' = NoTx
    /\ pc' = "stream"
    /\ UNCHANGED <<chainVars, projected, cursorVars, windowVars, generation, statusVars,
                   persisted, rowVars, scopeVars, headVars, rangeVars, todo, streamSlot,
                   historyVars, budgetVars>>

\* should_resubscribe: the new generation is effective from this slot.
Regenerate ==
    /\ pc = "regenerate"
    /\ MarkFilterGeneration(tracked, Slot(row))
    /\ MarkStreamDisconnected
    /\ LoopAgain
    /\ UNCHANGED <<chainVars, projected, checkpoint, windowVars, persisted, rowVars,
                   scopeVars, headVars, historyVars, budgetVars>>

BarrierReached == targetSlot # NoSlot /\ streamSlot >= targetSlot

\* The slot update that follows the transactions of its slot: the head the coordinator
\* knows, and the barrier behind which the listener is live.
DeliverSlot ==
    /\ pc = "stream" /\ Deliverable = {}
    /\ streamSlot <= HeadSlot
    /\ IF headCache < streamSlot THEN headCache' = streamSlot /\ headFresh' = TRUE
                                 ELSE UNCHANGED headVars
    /\ IF BarrierReached
       THEN MarkStreamCaughtUp /\ targetSlot' = NoSlot
       ELSE UNCHANGED <<statusVars, targetSlot>>
    /\ streamSlot' = streamSlot + 1 /\ streamTx' = NoTx
    /\ UNCHANGED <<chainVars, projected, cursorVars, windowVars, generation, persisted,
                   rowVars, pc, scopeVars, fromSlot, todo, row, historyVars, budgetVars>>

\* A ping is answered and a heartbeat sent without touching any of this state.
Heartbeat == pc = "stream" /\ UNCHANGED vars

\* handle_update, a heartbeat or the stream itself fails: mark_error and reconnect.
StreamFails ==
    /\ pc \in {"stream", "record", "regenerate"}
    /\ errors < MaxErrors /\ errors' = errors + 1
    /\ MarkError
    /\ LoopAgain
    /\ UNCHANGED <<chainVars, projected, cursorVars, windowVars, generation, persisted,
                   rowVars, scopeVars, headVars, historyVars, crashes>>

\* The provider ends the stream without an error.
StreamEnds ==
    /\ pc = "stream"
    /\ errors < MaxErrors /\ errors' = errors + 1
    /\ MarkStreamDisconnected
    /\ LoopAgain
    /\ UNCHANGED <<chainVars, projected, cursorVars, windowVars, generation, persisted,
                   rowVars, scopeVars, headVars, historyVars, crashes>>

-----------------------------------------------------------------------------
Recovering ==
    \/ DecideStream \/ DecideRecover \/ MarkRecoveryGeneration \/ BeginRecovery
    \/ StageProgram \/ StagingDone \/ ResolveSlot \/ IndexesResolved
    \/ ProjectRow \/ ApplyRecoveryChange \/ StageRegistered
    \/ AdvanceCheckpoint \/ FinishRow \/ BatchDone
    \/ CompleteRecovery \/ CleanupRecovery

Streaming ==
    \/ ApplyRecoveredScope \/ Subscribe \/ SubscribeRefused
    \/ DeliverTransaction \/ RecordCheckpoint
    \/ Rescope \/ RescopeUnneeded \/ Regenerate
    \/ DeliverSlot

Faults == Crash \/ OpeningFails \/ RecoveryFails \/ SubscribeFails \/ RescopeFails \/ StreamFails \/ StreamEnds

Listener == Start \/ Recovering \/ Streaming

Next == ConfirmSlot \/ HeadCacheExpires \/ Listener \/ Heartbeat \/ Faults

Spec == Init /\ [][Next]_vars

(***************************************************************************)
(* The process is restarted when it stops and its loop never blocks for    *)
(* ever: every call has a timeout and a bounded number of attempts, every  *)
(* sleep is bounded.  Time passes, so a cached head expires.  Nothing      *)
(* makes the chain grow or a call fail.                                    *)
(***************************************************************************)
Fairness == WF_vars(Listener) /\ WF_vars(HeadCacheExpires)

FairSpec == Spec /\ Fairness

-----------------------------------------------------------------------------
(* Properties. *)

Rows == unindexed \cup indexed \cup finished

\* Slots ingestion answers for in full: after its baseline, and not the slot a recovery
\* started from, above which alone that recovery stages (recovery.rs, stage_one_program).
Owed(t) == baseline # NoSlot /\ Slot(t) > baseline /\ Slot(t) \notin seams

\* A transaction of a configured program ...
Expected(t) == Owed(t) /\ Projectable(t, BasePrograms)

\* ... the registry names e at t: a registration at or before t has no removal since ...
RegisteredAt(e, t) ==
    \E u \in OnChain :
        /\ Owed(u) /\ ~Before(t, u)
        /\ Content(u).ok /\ Content(u).op = "register" /\ Content(u).ext = e
        /\ \A v \in OnChain : Content(v).ok /\ Content(v).op = "remove" /\ Content(v).ext = e
                                 => Before(v, u) \/ Before(t, v)

\* ... or of an extension that was registered by then.
InScope(t) == \/ Expected(t)
              \/ /\ Owed(t) /\ Content(t).ok
                 /\ \E e \in Content(t).touch \cap Extensions : RegisteredAt(e, t)

\* metrics_server's readiness and consistency's runtimeHealthy: the durable live barrier.
Ready == /\ phase = "live" /\ connected /\ coverage # NoSlot
         /\ recTarget = NoSlot /\ ~lastError

\* The durable claim "done up to here": what a restart will not look at again.
Claimed(t) == /\ Slot(t) < DurableResumeSlot
              /\ recTarget # NoSlot => Slot(t) <= recFrom

(***************************************************************************)
(* A transaction of a configured program below the durable cursor is in    *)
(* the read model, whatever crashed or failed in between.                  *)
(***************************************************************************)
NothingSkipped ==
    \A t \in OnChain : Expected(t) /\ Claimed(t) => t \in projected

(***************************************************************************)
(* 'live', which the readiness probe and the consistency status read, is   *)
(* only ever stored with its conditions: a connected stream, a coverage    *)
(* baseline, no open recovery window and no error.  A crash may leave the  *)
(* row as it is; no statement may make it wrong.                           *)
(***************************************************************************)
LiveIsReady == phase = "live" => Ready

(***************************************************************************)
(* The staged rows of an open window are that window's own: none is left   *)
(* over from an earlier window or lies outside (from_slot, target_slot].   *)
(***************************************************************************)
RowsBelongToWindow ==
    recTarget # NoSlot => \A t \in Rows : recFrom < Slot(t) /\ Slot(t) <= recTarget

(***************************************************************************)
(* Marking a staged row done is the last word on it: a transaction of a    *)
(* configured program is done only once its events are in the read model.  *)
(***************************************************************************)
DoneIsProjected ==
    \A t \in finished : Projectable(t, BasePrograms) => t \in projected

(***************************************************************************)
(* A recovery window is sound: its rows are its own, what is done was      *)
(* projected, and nobody is told "live" before it is closed.               *)
(***************************************************************************)
WindowIsSound == RowsBelongToWindow /\ DoneIsProjected /\ LiveIsReady

(***************************************************************************)
(* Every transaction of a configured or registered program up to the       *)
(* coverage slot is in the read model once no recovery window is open.     *)
(***************************************************************************)
CoverageIsProjected ==
    recTarget = NoSlot =>
        \A t \in OnChain : InScope(t) /\ Slot(t) <= coverage => t \in projected

(***************************************************************************)
(* While the stream runs, its filter, the listener's set, the persisted    *)
(* set and the generation in the database are the same scope.              *)
(***************************************************************************)
OneScope ==
    pc \in {"stream", "record", "rescope"} =>
        /\ tracked = BasePrograms \cup discovered
        /\ persisted = discovered
        /\ generation = tracked

(***************************************************************************)
(* The scope an extension changes at run time is one scope everywhere, and *)
(* the coverage claims nothing of it that was not projected.               *)
(***************************************************************************)
ScopeIsCovered == OneScope /\ CoverageIsProjected

(***************************************************************************)
(* Towards the configured programs the listener is an ordered ingest: the  *)
(* read model first sees their transactions in chain order, only replays   *)
(* come out of order, and what is given up is the rest of a slot a         *)
(* recovery started from.                                                  *)
(***************************************************************************)
ConcernsBase(content) == content.ok /\ content.touch \cap BasePrograms # {}

Ingest == INSTANCE OrderedIngest WITH
              Wanted <- ConcernsBase, start <- baseline, givenUp <- seams,
              taken <- {t \in projected : Projectable(t, BasePrograms)}

ImplementsOrderedIngest == Ingest!Spec

(***************************************************************************)
(* The durable cursors only move forward, except that a new filter takes   *)
(* the coverage back; what was projected stays projected.                  *)
(***************************************************************************)
NeverBack == /\ checkpoint' >= checkpoint
             /\ projected \subseteq projected'
             /\ coverage' < coverage => generation' # generation

CursorsAdvance == [][NeverBack]_vars

(***************************************************************************)
(* A slot below the durable cursor has been handled in full: replaying     *)
(* from the checkpoint skips nothing of the slot it failed in.             *)
(***************************************************************************)
FailedSlotIsReplayed ==
    \A t \in OnChain : /\ baseline # NoSlot /\ Slot(t) > baseline
                       /\ Projectable(t, BasePrograms) /\ Claimed(t)
                       => t \in projected

(***************************************************************************)
(* Once crashes and errors stop, the listener ends up live with every      *)
(* transaction of the configured programs in the read model, however long  *)
(* it was away.                                                            *)
(***************************************************************************)
CaughtUp == Ready /\ \A t \in OnChain : Expected(t) => t \in projected
EventuallyCaughtUp == <>[]CaughtUp
=============================================================================
