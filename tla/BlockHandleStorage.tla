------------------------- MODULE BlockHandleStorage -------------------------
(***************************************************************************)
(* Block handle storage (storage/src/block_handle_db.rs).                 *)
(*                                                                         *)
(* A BlockHandle is an in-memory object per block, holding the block's    *)
(* meta flags.  BlockHandleStorage keeps a lock-free map from root hash   *)
(* to a Weak reference of the handle (handle_cache), the key-value        *)
(* handle_db, and an unbounded channel to a single storer task that       *)
(* writes (SaveHandle) or deletes (DropHandle) records in FIFO order.     *)
(* A SaveHandle job owns an Arc of the handle and serializes the handle's *)
(* meta when the storer processes it, not when it is queued.  When the    *)
(* last Arc of a handle goes, Weak::upgrade fails at once, and Drop then  *)
(* removes the cache entry if the entry is (still) a dead handle.         *)
(*                                                                         *)
(* Handles are numbered objects, a number being reused once its object   *)
(* is freed; a handle is alive while a task holds it or a queued         *)
(* SaveHandle job does, and dead until its Drop has run.  Meta is the set of flags set (the    *)
(* flags only ever go from false to true) and whether the record carries *)
(* the full block id (FLAG_HAS_FULL_ID); the rest of the meta is data.    *)
(* load_handle is a loop and is modelled step by step: cache lookup,     *)
(* database read, insertion.                                              *)
(***************************************************************************)
EXTENDS Integers, Sequences, FiniteSets

CONSTANTS
    RootHashes,     \* blocks, by root hash (model values)
    Tasks,          \* tasks calling the storage concurrently (model values)
    Flags,          \* meta flags the tasks set (model values)
    MaxHandles,     \* bound: BlockHandle objects in memory at once
    MaxCrashes,     \* bound: process restarts in a behaviour
    MaxJobs,        \* bound: jobs queued when a task sets or resets a flag
    MaxDropJobs,    \* bound: DropHandle jobs queued at once (0: drop_handle never called)
    NONE            \* no handle / no record

ASSUME MaxHandles \in Nat \ {0} /\ MaxCrashes \in Nat /\ MaxDropJobs \in Nat /\ MaxJobs \in Nat

HandleIds == 1..MaxHandles
Meta == [flags : SUBSET Flags, fullId : BOOLEAN]

VARIABLES
    handles,    \* h -> [rh, meta] for every BlockHandle not yet freed
    cache,      \* handle_cache: rh -> the handle its Weak points to, or NONE
    db,         \* handle_db: rh -> the stored Meta, or NONE
    storer,     \* the storer channel: sequence of [kind, h, rh]
    holder,     \* task -> the handle (Arc) the task holds, or NONE
    task,       \* task -> its place in load_handle: [pc, rh, byId, meta]
    crashes,    \* restarts so far
    detached,   \* handles whose cache entry drop_handle removed (history)
    latest,     \* rh -> the flags of the block's last set/reset (history)
    partialId,  \* a caller was given a block id without its full id (history)
    dropped,    \* task -> blocks it dropped whose record is not yet deleted (history)
    revived     \* a task loaded a block it had dropped (history)

vars == <<handles, cache, db, storer, holder, task, crashes, detached, latest, partialId,
          dropped, revived>>

Idle == [pc |-> "idle", rh |-> NONE, byId |-> FALSE, meta |-> NONE]

-----------------------------------------------------------------------------
(***************************************************************************)
(* Strong references: Weak::upgrade succeeds, and Drop has not run, while *)
(* a task holds the handle or a queued SaveHandle job owns it.            *)
(***************************************************************************)
Alive(h) ==
    \/ \E t \in Tasks : holder[t] = h
    \/ \E i \in 1..Len(storer) : storer[i].kind = "save" /\ storer[i].h = h

\* handle_cache.get(rh) followed by weak.object.upgrade().
Upgrade(rh) == IF cache[rh] # NONE /\ Alive(cache[rh]) THEN cache[rh] ELSE NONE

\* Mutant: Drop removes the entry without checking the strong count.
RemoveIfDeadAlways(c, rh) == [c EXCEPT ![rh] = NONE]

\* Drop for BlockHandle: remove_with(rh, |weak| weak.strong_count() == 0).
RemoveIfDead(c, rh) ==
    IF c[rh] # NONE /\ ~Alive(c[rh]) THEN [c EXCEPT ![rh] = NONE] ELSE c

\* A new BlockHandle object (BlockHandle::with_values), at the least free number.
CanAllocate == DOMAIN handles # HandleIds
NextHandle == CHOOSE h \in HandleIds \ DOMAIN handles :
                  \A x \in HandleIds \ DOMAIN handles : h <= x
WithHandle(rh, meta) ==
    [x \in DOMAIN handles \cup {NextHandle} |->
        IF x = NextHandle THEN [rh |-> rh, meta |-> meta] ELSE handles[x]]

(***************************************************************************)
(* The record save_handle writes: BlockHandle::serialize writes the meta *)
(* and, with FLAG_HAS_FULL_ID, the full id.                               *)
(***************************************************************************)
\* Mutant: the full-id part of the record is left out.
RecordFlagsOnly(h) == [flags |-> handles[h].meta.flags]

Record(h) == handles[h].meta

(***************************************************************************)
(* The meta load_handle makes of a stored record: by id (deserialize),    *)
(* FLAG_HAS_FULL_ID is set on it, so the next save writes the full id;    *)
(* by root hash only (deserialize_nonchecked), the id is complete only if *)
(* the record carried it.                                                 *)
(***************************************************************************)
MetaFromDb(rec, byId) == [rec EXCEPT !.fullId = byId \/ rec.fullId]

\* is_flag_set(flag) on handle h.
IsFlagSet(h, f) == f \in handles[h].meta.flags

\* save_handle(handle, callback): a SaveHandle job owning an Arc of h.
SaveHandleJob(h) == [kind |-> "save", h |-> h, rh |-> handles[h].rh]

\* The flags of the record stored for rh, none if there is no record.
StoredFlags(d, rh) == IF d[rh] = NONE THEN {} ELSE d[rh].flags

-----------------------------------------------------------------------------
Init ==
    /\ handles = <<>>
    /\ cache = [rh \in RootHashes |-> NONE]
    /\ db \in [RootHashes -> Meta \cup {NONE}]
    /\ storer = <<>>
    /\ holder = [t \in Tasks |-> NONE]
    /\ task = [t \in Tasks |-> Idle]
    /\ crashes = 0
    /\ detached = {}
    /\ latest = [rh \in RootHashes |-> StoredFlags(db, rh)]
    /\ partialId = FALSE
    /\ dropped = [t \in Tasks |-> {}]
    /\ revived = FALSE

(***************************************************************************)
(* load_handle_by_id / load_handle_by_root_hash -> load_handle(id,        *)
(* rh_only), one loop iteration at a time.                               *)
(***************************************************************************)
LoadStart(t, rh, byId) ==
    /\ task[t].pc = "idle"
    /\ holder[t] = NONE
    /\ task' = [task EXCEPT ![t] = [pc |-> "get", rh |-> rh, byId |-> byId, meta |-> NONE]]
    /\ UNCHANGED <<handles, cache, db, storer, holder, crashes, detached, latest, partialId, dropped, revived>>

\* The cache lookup: a live handle is returned.
LoadGet(t) ==
    LET rh == task[t].rh IN
    /\ task[t].pc = "get"
    /\ IF Upgrade(rh) # NONE
       THEN /\ holder' = [holder EXCEPT ![t] = Upgrade(rh)]
            /\ task' = [task EXCEPT ![t] = Idle]
            /\ partialId' = (partialId \/ (task[t].byId /\ ~handles[Upgrade(rh)].meta.fullId))
       ELSE /\ task' = [task EXCEPT ![t].pc = "db"]
            /\ UNCHANGED <<holder, partialId>>
    /\ UNCHANGED <<handles, cache, db, storer, crashes, detached, latest, dropped, revived>>

\* handle_db.try_get_raw: no record returns None; a record is deserialized.
LoadDb(t) ==
    LET rh == task[t].rh IN
    /\ task[t].pc = "db"
    /\ task' = [task EXCEPT ![t] =
                   IF db[rh] = NONE THEN [task[t] EXCEPT !.pc = "miss"]
                   ELSE [task[t] EXCEPT !.pc = "add",
                                        !.meta = MetaFromDb(db[rh], task[t].byId)]]
    /\ UNCHANGED <<handles, cache, db, storer, holder, crashes, detached, latest, partialId, dropped, revived>>

(***************************************************************************)
(* create_handle_and_store(id, meta, None, false): the handle made of the *)
(* record read is inserted if the cache has no entry and returned (it is  *)
(* not queued for saving); otherwise it is dropped, its Drop removing a   *)
(* dead entry, and the loop starts over.                                  *)
(***************************************************************************)
LoadAdd(t) ==
    LET rh == task[t].rh IN
    /\ task[t].pc = "add"
    /\ CanAllocate
    /\ IF cache[rh] = NONE
       THEN /\ handles' = WithHandle(rh, task[t].meta)
            /\ cache' = [cache EXCEPT ![rh] = NextHandle]
            /\ holder' = [holder EXCEPT ![t] = NextHandle]
            /\ task' = [task EXCEPT ![t] = Idle]
            /\ revived' = (revived \/ rh \in dropped[t])
       ELSE /\ cache' = RemoveIfDead(cache, rh)
            /\ task' = [task EXCEPT ![t].pc = "get", ![t].meta = NONE]
            /\ UNCHANGED <<handles, holder, revived>>
    /\ UNCHANGED <<db, storer, crashes, detached, latest, partialId, dropped>>

(***************************************************************************)
(* create_handle(id, meta, callback) -> create_handle_and_store(store):   *)
(* a new handle with FLAG_HAS_FULL_ID is inserted only if the cache has   *)
(* no entry for the root hash (add_counted_object_to_map); then it is     *)
(* queued for saving and returned.  Otherwise None is returned and the    *)
(* unused handle is dropped, its Drop removing a dead entry.  Callers    *)
(* create a handle after load_handle returned None for the block.        *)
(***************************************************************************)
CreateHandle(t) ==
    LET rh == task[t].rh IN
    /\ task[t].pc = "miss"
    /\ CanAllocate
    /\ IF cache[rh] = NONE
       THEN LET h == NextHandle IN
            /\ handles' = WithHandle(rh, [flags |-> {}, fullId |-> TRUE])
            /\ cache' = [cache EXCEPT ![rh] = h]
            /\ storer' = Append(storer, [kind |-> "save", h |-> h, rh |-> rh])
            /\ holder' = [holder EXCEPT ![t] = h]
            /\ latest' = [latest EXCEPT ![rh] = {}]
            /\ dropped' = [x \in Tasks |-> dropped[x] \ {rh}]
       ELSE /\ cache' = RemoveIfDead(cache, rh)
            /\ UNCHANGED <<handles, storer, holder, latest, dropped>>
    /\ task' = [task EXCEPT ![t] = Idle]
    /\ UNCHANGED <<db, crashes, detached, partialId, revived>>

\* A caller that only looked the handle up takes the None.
MissReturnsNone(t) ==
    /\ task[t].pc = "miss"
    /\ task' = [task EXCEPT ![t] = Idle]
    /\ UNCHANGED <<handles, cache, db, storer, holder, crashes, detached, latest, partialId, dropped, revived>>

(***************************************************************************)
(* set_data, set_proof, ... -> set_flag: the flag is set in the meta and  *)
(* true is returned if it was not set before; the caller then flushes    *)
(* with save_handle ("flush only after transform false -> true").        *)
(***************************************************************************)
SetFlagAndSave(t, f) ==
    LET h == holder[t] IN
    /\ h # NONE
    /\ ~IsFlagSet(h, f)
    /\ Len(storer) < MaxJobs
    /\ handles' = [handles EXCEPT ![h].meta.flags = @ \cup {f}]
    /\ storer' = Append(storer, SaveHandleJob(h))
    /\ latest' = [latest EXCEPT ![handles[h].rh] = handles'[h].meta.flags]
    /\ UNCHANGED <<cache, db, holder, task, crashes, detached, partialId, dropped, revived>>

(***************************************************************************)
(* reset_data, reset_proof, reset_proof_link, reset_next1/2, reset_state  *)
(* -> meta.reset: the flag is cleared; the caller then saves the handle.  *)
(***************************************************************************)
ResetFlagAndSave(t, f) ==
    LET h == holder[t] IN
    /\ h # NONE
    /\ Len(storer) < MaxJobs
    /\ handles' = [handles EXCEPT ![h].meta.flags = @ \ {f}]
    /\ storer' = Append(storer, SaveHandleJob(h))
    /\ latest' = [latest EXCEPT ![handles[h].rh] = handles'[h].meta.flags]
    /\ UNCHANGED <<cache, db, holder, task, crashes, detached, partialId, dropped, revived>>

\* A caller lets its Arc<BlockHandle> go (the callers' code, not this file);
\* HandleDrop is what then runs in Drop for BlockHandle.
Release(t) ==
    /\ holder[t] # NONE
    /\ holder' = [holder EXCEPT ![t] = NONE]
    /\ UNCHANGED <<handles, cache, db, storer, task, crashes, detached, latest, partialId, dropped, revived>>

(***************************************************************************)
(* load_full_block_id(rh): the id of a live cached handle is returned as  *)
(* it is; otherwise deserialize_full_id gives the stored full id, or None *)
(* for a record without FLAG_HAS_FULL_ID (or no record).                 *)
(***************************************************************************)
LoadFullBlockId(t, rh) ==
    /\ task[t].pc = "idle"
    /\ partialId' = (partialId \/ (Upgrade(rh) # NONE /\ ~handles[Upgrade(rh)].meta.fullId))
    /\ UNCHANGED <<handles, cache, db, storer, holder, task, crashes, detached, latest,
                   dropped, revived>>

(***************************************************************************)
(* Drop for BlockHandle, run by whoever released the last Arc, some time *)
(* after the strong count reached zero; the object is then freed.        *)
(***************************************************************************)
HandleDrop(h) ==
    /\ h \in DOMAIN handles
    /\ ~Alive(h)
    /\ cache' = RemoveIfDead(cache, handles[h].rh)
    /\ handles' = [x \in DOMAIN handles \ {h} |-> handles[x]]
    /\ detached' = detached \ {h}
    /\ UNCHANGED <<db, storer, holder, task, crashes, latest, partialId, dropped, revived>>

(***************************************************************************)
(* drop_handle(id, callback): the cache entry is removed whatever it      *)
(* holds and a DropHandle job is queued.                                  *)
(***************************************************************************)
DropHandle(t, rh) ==
    /\ Cardinality({i \in 1..Len(storer) : storer[i].kind = "drop"}) < MaxDropJobs
    /\ task[t].pc = "idle"
    /\ cache' = [cache EXCEPT ![rh] = NONE]
    /\ storer' = Append(storer, [kind |-> "drop", h |-> NONE, rh |-> rh])
    /\ detached' = IF cache[rh] # NONE THEN detached \cup {cache[rh]} ELSE detached
    /\ dropped' = [dropped EXCEPT ![t] = @ \cup {rh}]
    /\ UNCHANGED <<handles, db, holder, task, crashes, latest, partialId, revived>>

(***************************************************************************)
(* One iteration of the storer task: SaveHandle serializes the handle's  *)
(* meta as it is now and puts it; DropHandle deletes the record.  The    *)
(* job (and the Arc it owns) is released after the write.                *)
(***************************************************************************)
StorerStep ==
    LET job == Head(storer) IN
    /\ storer # <<>>
    /\ db' = [db EXCEPT ![job.rh] = IF job.kind = "save" THEN Record(job.h) ELSE NONE]
    /\ storer' = Tail(storer)
    /\ dropped' = IF job.kind = "drop" THEN [x \in Tasks |-> dropped[x] \ {job.rh}] ELSE dropped
    /\ UNCHANGED <<handles, cache, holder, task, crashes, detached, latest, partialId, revived>>

(***************************************************************************)
(* A restart: everything in memory, the cache, the handles, the tasks and *)
(* the jobs still in the channel, is gone; handle_db stays.              *)
(***************************************************************************)
Restart ==
    /\ crashes < MaxCrashes
    /\ handles' = <<>>
    /\ cache' = [rh \in RootHashes |-> NONE]
    /\ storer' = <<>>
    /\ holder' = [t \in Tasks |-> NONE]
    /\ task' = [t \in Tasks |-> Idle]
    /\ crashes' = crashes + 1
    /\ detached' = {}
    /\ latest' = [rh \in RootHashes |-> StoredFlags(db, rh)]
    /\ dropped' = [t \in Tasks |-> {}]
    /\ UNCHANGED <<db, partialId, revived>>

Next ==
    \/ \E t \in Tasks, rh \in RootHashes :
          \/ \E byId \in BOOLEAN : LoadStart(t, rh, byId)
          \/ DropHandle(t, rh)
          \/ LoadFullBlockId(t, rh)
    \/ \E t \in Tasks :
          \/ LoadGet(t) \/ LoadDb(t) \/ LoadAdd(t)
          \/ CreateHandle(t) \/ MissReturnsNone(t) \/ Release(t)
          \/ \E f \in Flags : SetFlagAndSave(t, f) \/ ResetFlagAndSave(t, f)
    \/ \E h \in HandleIds : HandleDrop(h)
    \/ StorerStep
    \/ Restart

Spec == Init /\ [][Next]_vars

-----------------------------------------------------------------------------
TypeOK ==
    /\ DOMAIN handles \subseteq HandleIds
    /\ \A h \in DOMAIN handles :
          handles[h] \in [rh : RootHashes, meta : Meta]
    /\ cache \in [RootHashes -> HandleIds \cup {NONE}]
    /\ db \in [RootHashes -> Meta \cup {NONE}]
    /\ storer \in Seq([kind : {"save", "drop"}, h : HandleIds \cup {NONE}, rh : RootHashes])
    /\ holder \in [Tasks -> HandleIds \cup {NONE}]
    /\ crashes \in 0..MaxCrashes
    /\ detached \subseteq DOMAIN handles
    /\ latest \in [RootHashes -> SUBSET Flags]
    /\ partialId \in BOOLEAN
    /\ dropped \in [Tasks -> SUBSET RootHashes]
    /\ revived \in BOOLEAN

(***************************************************************************)
(* Every live handle is the one the cache maps its block to, unless       *)
(* drop_handle deliberately removed its entry, so no two live            *)
(* BlockHandle objects exist for one block otherwise (each would have its *)
(* own flags and its own block/proof file locks): the Drop of a dead     *)
(* handle and the temporary handles of lost insertions never remove the  *)
(* entry of a live one, and load_handle never installs a second one.     *)
(***************************************************************************)
LiveHandleCached ==
    \A h \in DOMAIN handles :
        Alive(h) /\ h \notin detached => cache[handles[h].rh] = h

(***************************************************************************)
(* No update of a block's flags is lost: every live handle of the block   *)
(* (not detached by drop_handle) has the flags of the last set_* or      *)
(* reset_* made on a handle of the block, so no handle shows, or saves   *)
(* back, a meta older than one already set and saved.                    *)
(***************************************************************************)
HandleHasLatestMeta ==
    \A h \in DOMAIN handles :
        Alive(h) /\ h \notin detached => handles[h].meta.flags = latest[handles[h].rh]

(***************************************************************************)
(* A caller that names the block by its full id (load_handle_by_id) or   *)
(* asks for the full id (load_full_block_id) is never given a handle or  *)
(* an id that lacks the shard, seqno and file hash.                      *)
(***************************************************************************)
NoPartialIdReturned == ~partialId

(***************************************************************************)
(* A block a task dropped with drop_handle stays dropped for that task:  *)
(* unless the block was created again, its own later load_handle does    *)
(* not rebuild a handle of it from the record the DropHandle job is to   *)
(* delete (a restart, which may lose that job, resets what it dropped).  *)
(***************************************************************************)
DroppedStaysDropped == ~revived
=============================================================================
