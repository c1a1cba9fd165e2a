# TLA+ models of the node's REMP core and block storage

This directory holds TLA+ models of two parts of this repository, and the TLC
configurations that check them:

- the block handle storage in `src/storage/src/block_handle_db.rs`;
- the REMP (reliable external message protocol) core that
  `src/src/validator/tests/test_rmq_messages.rs` drives.

Every module is written from the source. The REMP manager, message cache and
message queue are not in this repository, so their behaviour is taken from the
test bench and the assertions that pin it. `PROJECT.json` maps every definition
to the lines it models.

## The system and its parts

| Part | Source | State | Operations |
|------|--------|-------|------------|
| Session tracker | tests: `RmqTestbench::advance_master_cc` | Log of master-chain sessions with times; last advanced seqno; alive range | `create_master_cc_session`, `advance_master_cc` |
| Message cache, queue, GC | tests: `send_pending_message`, `collect_messages_for_collation`, `RempMasterBlockIndexingProcessor`, `gc_old_messages` | Status cache id -> (uid, status, epoch, retention stage); queue pending set; collated ids; running GC pass | Record ingestion, acceptance, collation, queue replacement, GC entry visit (Full -> HeaderOnly -> removed) |
| Block handle storage | `block_handle_db.rs` 84-132, 180-258, 447-849 | `handle_cache` (root hash -> Weak handle); `handle_db`; storer channel; handle objects and their flags | `load_handle` (by id, by root hash), `load_full_block_id`, `create_handle`, `set_*` / `reset_*` + `save_handle`, `drop_handle`, `Drop for BlockHandle`, storer jobs |
| Node state storage | `block_handle_db.rs` 539-618, 645-732, 792-814, 851-866 | `state_cache` (key -> block id); `NodeStateDb`; the same storer channel | `save_*_state`, `drop_*_state`, `load_*_state`, storer jobs and their failures |
| Handle meta and its flush | `block_handle_db.rs` 97-105, 182-258, 358-373, 452-455, 556-577, 702-711 | One handle's meta (flags, masterchain ref seqno); its `handle_db` record; SaveHandle jobs; callers between `set_*` and `save_handle` | `set_*` / `reset_*` and the caller's `save_handle`, `set_masterchain_ref_seq_no`, storer jobs, restart |
| Not modelled | `types/block_id.rs`, `lib.rs`, BlockMeta getters, message serialization | - | Pure conversion, reads or declarations |

How the parts interact:

- **REMP.** The session tracker drives the core. Every advance replaces the
  message queue with one for the new alive range, then starts a GC pass. That
  pass visits the cache entry by entry while records, acceptance reports and
  collation go on.
- **Storage.** Handles and node states share one storer task. Its unbounded
  channel is drained in FIFO order.
  - A handle lives while a task, or a queued SaveHandle job, holds an `Arc`.
  - The cache holds only a `Weak` reference.
  - When the last `Arc` goes, `Drop` removes the cache entry, but only if the
    entry is still dead.

## Modules

- **`RempSessions`** models the session log.
  - State: `times` (the session log, seqno = index), `advanced`, `aliveStart`,
    `lastResult`.
  - `SessAdvance` is the driver's create-then-advance call. `SessAdvanceFails`
    is the same call when it is rejected.
  - `AliveStartOf` computes the range start: the latest session confirmed no
    later than `time - rp_guarantee`.
- **`RempCore`** extends `RempSessions`. It adds `cache`, `queue`, `collated`
  and `gc`, with these actions:
  - `ProcessPendingRecord`: records of older epochs become Ignored; a decided
    uid makes a message Duplicate; new messages join pending.
  - `IndexAcceptedMessage`.
  - `CollectMessagesForCollation`: forwards the least id of each undecided uid
    group and rejects the rest at Queue level. A group counts as decided when
    one of its members is Accepted (spec 4.2). The test at
    `test_rmq_messages.rs:330-357` accepts a member of the group, so it cannot
    tell this from a check over the whole cache.
  - `AdvanceMasterCc` / `AdvanceMasterCcFails`.
  - `GcVisit` and `GcFinish`. A GC pass is a set of entries still to visit. The
    driver awaits it before the next advance.
  - Retention has two stages. An entry's `stage` is Full until a GC pass
    drops its body, and HeaderOnly after that.
    - A new entry starts Full, with or without a body. The test's
      `push_random_msgs` entries are body-less indexing reports, yet the test
      counts all of them as `has_only_header` on their first expiry
      (`test_rmq_messages.rs:546-560`).
    - A record carries the body, so it makes an existing entry Full again. An
      indexing report carries none and keeps the entry's stage.
    - `Aged` is one GC step on an expired entry. A Full entry becomes
      HeaderOnly and is stamped with the range start. A HeaderOnly entry is
      removed.
    - The tests pin only the first stage. The removal of a header-only entry
      on a later pass over a moved range comes from the spec (section 4.1),
      not from the code.
- **`BlockHandleStorage`** models the handle storage.
  - Handles are numbered objects. A number is reused once its object is freed.
  - `load_handle` is one action per loop step: `LoadGet` (cache + upgrade),
    `LoadDb` (read + deserialize), `LoadAdd` (conditional insert, or retry).
  - Other actions:
    - `CreateHandle`: a caller creating after a miss.
    - `SetFlagAndSave` / `ResetFlagAndSave`: `set_*` or `reset_*`, followed
      by `save_handle` (`SaveHandleJob`). A set is flushed only when
      `is_flag_set` was false (`IsFlagSet`).
    - `LoadFullBlockId`: `load_full_block_id` answered from the cache.
    - `Release`: a caller lets its `Arc` go. This is the callers' code, not
      code of this file, and is not mapped.
    - `HandleDrop`: `Drop`, which may run late.
    - `DropHandle`.
    - `StorerStep`: one job.
    - `Restart`: memory lost, `handle_db` kept.
  - `detached` is a history variable: the handles whose entry `drop_handle`
    removed.
  - `latest` is a history variable: the flags of the block as last set or
    reset in memory, or as stored after a restart.
  - `dropped` and `revived` are history variables.
    - `dropped` is, per task, the blocks it dropped whose record the
      DropHandle job has not yet deleted.
    - `revived` records that such a task loaded one of those blocks back.
  - `partialId` records that a by-id load or `load_full_block_id` returned
    a cached handle whose id lacks the full id (`meta.fullId` false).
- **`BlockHandleMeta`** looks inside one handle, where `BlockHandleStorage`
  takes a flag update and its save as one step.
  - State: `meta` (flags and masterchain ref seqno), `db` (the record),
    `storer` (queued SaveHandle jobs), `pc` (a caller whose `set_*` returned
    true and who has not yet called `save_handle`).
  - `SetFlag` is `set_flag`: the flag is ORed in, and `SetFlagResult` is true
    only if it was not set before. Only a caller that got true goes on to
    `SaveHandle`. `ResetFlag` clears a flag and the caller saves.
  - `StorerStep` writes `StoredRecord`, the meta serialized when the storer
    takes the job. `Serialize` leaves out `Unserialized` (FLAG_ARCHIVING).
  - `SetMasterchainRefSeqNo` stores the new value and returns the previous
    one, then decides Ok(true), Ok(false) or the error, as lines 358-373 do.
    `refOk` is a history variable: the value confirmed with Ok(true).
  - `Restart` reloads the meta from the record and loses the jobs.
- **`NodeStateStorage`** models the node states.
  - Actions: `SaveState` / `SaveStateSend` (`create_state`, then send),
    `DropState` / `DropStateSend` (`delete_state`, then send), `LoadState` /
    `LoadStateReadDb` / `LoadStateCreate`, `StorerStep`, `StorerStepFails`
    (a failed `put_raw` / `delete_raw`, logged and skipped) and `Restart`.
  - `lastWrite` is a history variable: what the last save or drop asked for.
    After a restart it is what the database kept.
  - `failed` is a history variable: per key, whether its last save or drop
    was lost to a failed write. `LostLastWrite` sets it when the failing job
    is the key's last write, meaning no later job of the key is queued and no
    writer is between its cache update and its send. A new save or drop of
    the key clears it.
- **`MC_*`** modules declare model values and symmetry sets for TLC.

## Runs

| Run | Checks | Shows |
|-----|--------|-------|
| `rmq_sessions` (pass) | `SessTypeOK`, `AliveStartMonotone` (action) | The start of the alive range never moves back, including on replays, equal times and rejected calls. |
| `rmq_core` (pass) | `TypeOK`, `PendingHasBody`, `GcLeavesNothingExpired` | GC runs entry by entry between records, reports, collation and advances. A pending message always keeps a Full cache entry, including one received again after GC dropped its body. A completed pass leaves no Full entry behind the alive range. |
| `block_handles` (pass) | `TypeOK`, `LiveHandleCached` | Two tasks, with late `Drop`s, lost insertions, `drop_handle` and a restart. Every live handle is the cached one, unless `drop_handle` detached it. |
| `block_handle_stale_load` (violation) | `HandleHasLatestMeta` | A 12-step trace (finding 1). |
| `block_handle_partial_id` (violation) | `NoPartialIdReturned` | A 5-step trace (finding 3). |
| `block_handle_dropped` (violation) | `DroppedStaysDropped` | A 5-step trace (finding 4). |
| `handle_meta_flush` (pass) | `QuiescentRecordCurrent`, `SetFlagEventuallyStored` (liveness) | Two callers set and reset a written flag and FLAG_ARCHIVING, each flushing only on true, with one restart. When no caller is about to save and the channel is empty, the record has the meta's flags. Every set flag is eventually stored, unless it is reset or lost to the restart. |
| `handle_ref_seqno` (violation) | `RefSeqNoSetOnce` | A 1-step trace from a handle whose ref seqno is confirmed (finding 5). |
| `node_state` (pass) | `TypeOK`, `DbMatchesLastWrite`, `WrittenStateReachesDb` (liveness) | Saves and drops of two keys reach the database in the writer's order, with one failed write and one restart. A failed write loses only its own job, never the jobs queued behind it. Under fairness of the storer, every returned save or drop is eventually written, unless it is replaced, lost to a restart or its own write fails. |
| `node_state_stale_load` (violation) | `CacheHoldsLastWrite` | A load resurrects a dropped state in `state_cache` (finding 2). |
| `node_state_writer_race` (violation) | `CacheAgreesWithDb` | Two saves of one key leave `state_cache` and the database with different ids once everything is quiet (finding 6). |

Every property of a passing run has a mutant in `PROJECT.json`. A mutant is a
plausible bug in one mapped definition, and TLC finds the property violated
with it. Examples:

- the range starting one session past the boundary;
- `Drop` without the strong-count check;
- a storer whose job loop ends at the first failed write;
- a storer that takes the newest job first;
- a record that does not give a header-only entry its body back;
- a GC pass reported complete before every entry was visited;
- `set_flag` returning whether the flag was already set;
- the not-serialized mask applied the wrong way round.

## Findings

1. **Stale meta installed by `load_handle`** (`block_handle_db.rs:826-847`).
   1. Task B misses the cache and reads the record.
   2. Task A loads the handle, sets a flag and saves it.
   3. The storer writes the record.
   4. A releases the handle, and its `Drop` empties the entry.
   5. B inserts a handle built from the old record.

   The live handle now lacks a flag that is already stored. Its next save
   writes the flag back as unset, against the comment at line 180 ("This flags
   might be set into true only"). `reset_*` (lines 240-258, 295-297) can
   clear flags on purpose, so the property is stated against the flags last
   set or reset on the block (`latest`); the lost update needs no reset.
2. **`load_state` resurrects dropped or replaced states** (`:857-862`). On a
   miss it reads the database and calls `create_state`, which always
   overwrites the cache entry. `drop_*_state` removes the cache entry with
   `delete_state` and only then sends its Drop job. A load that falls between
   `delete_state` and the send, or between the send and the storer's write,
   reads the old id and caches it. Later loads then keep
   returning it. A load racing a save can also replace the newer id with the
   older one.

3. **An incomplete id served from the cache** (`:834`, `:681`).
   `load_handle_by_root_hash` on a record without `FLAG_HAS_FULL_ID` builds
   the handle with `deserialize_nonchecked`, which leaves the caller's
   incomplete id in it, and caches the handle. A later `load_handle_by_id`
   hits the cache and returns that handle unchanged. `load_full_block_id`
   returns its id, although for the same record read from the database
   `deserialize_full_id` returns `None`. Only the database path of a by-id
   load sets `FLAG_HAS_FULL_ID` (line 837).

4. **`load_handle` brings back a block just dropped** (`:739`, `:831`).
   `drop_handle` removes the cache entry, queues the DropHandle job and
   returns. The same task's next `load_handle` misses the cache, reads the
   record that job has not yet deleted, and caches a new handle of the dropped
   block. Later loads return it, and a later flag save writes the record back.
   This is the handle-side twin of finding 2.

5. **A rejected masterchain ref seqno is kept** (`:358-373`).
   `set_masterchain_ref_seq_no` stores the new value through
   `BlockMeta::set_masterchain_ref_seq_no` and only then compares it with the
   previous one. A call with a value other than the confirmed one returns
   the INTERNAL ERROR but leaves its value in the meta. `masterchain_ref_seq_no()`
   then returns the rejected value, a later save writes it, and a repeated call
   with the confirmed value now fails. `BlockMeta` is outside this repository;
   the model reads its setter as a swap, which is what the caller's `prev`
   and its `prev == 0` test imply. If the setter were a compare-and-set the
   finding would not hold.

6. **Two saves of one key leave the cache and the database apart**
   (`:717-718`). `save_*_state` calls `create_state` and then sends its job,
   as two steps with nothing ordering them across callers.
   1. Writer A puts b1 in `state_cache`.
   2. Writer B puts b2.
   3. B sends its job.
   4. A sends its job.
   5. The storer writes b2, then b1.

   With every call returned and the channel empty, `state_cache` says b2 and
   `NodeStateDb` says b1. Loads return b2 until a restart, and after it b1
   comes back. Whether two tasks ever save the same key at once depends on
   callers outside this file; nothing in the storage prevents it.

## Bounds and why they suffice

- **Sessions:** seqno at most 6, times 0..6, rp_guarantee 2. These cover
  replays, times going back, equal times, and range starts at and after the
  boundary.
- **Core:** three messages, two sharing a uid (so groups, twins and least ids
  occur), three seqnos, times 0..1 and rp_guarantee 0.
  - With rp_guarantee 0 the range start follows every advance. An entry is
    therefore demoted by one pass and removed by the next, and a record or
    report can touch it between the two passes or during either one.
  - rp_guarantee 1 with times 0..2 also finishes, in about 2.5 minutes, but
    leaves no margin for the mutant runs. With times 0..1 and rp_guarantee 1
    the start moves only once, so the removal stage is never reached. The
    guarantee window itself is checked in `rmq_sessions`.
- **Handles:** two tasks, one block and two handle objects.
  - This allows one live handle plus one dead or temporary one, which is the
    shape of every race above.
  - One flag, one queued drop (`MaxDropJobs`), two queued flag saves
    (`MaxJobs`) and one restart. The jobs bound the alternation of
    `set_*` and `reset_*`, which would otherwise fill the channel.
  - The violation runs use three objects and two flags, without
    `drop_handle`. This shows the bugs need no explicit drop.
- **Handle meta:** two callers, so that one gets true and the other false
  for the same flag, and a reset can land between a set and its save. Two
  flags, one written and FLAG_ARCHIVING. Two ref seqnos, one confirmed and one
  conflicting. Two queued jobs and one restart, so a restart can fall between
  a set and its flush. The violation run has no restart.
- **Node state:** two keys, two block ids, one writer, one reader, two queued
  jobs, one failed write and one restart.
  - Two ids and two jobs are enough for a save to be queued behind another
    save or a drop of the same key. That is where order, loss and a skipped
    write can be told apart.
  - The second key is what tells "the failed job alone is skipped" from "the
    jobs behind it are lost too".
  - The stale-load run uses one key and two readers. The writer-race run uses
    one key, two writers, no readers, no failures and no restart, so its trace
    shows the race alone.

## Fairness

- **`RempSessions.Spec` and `RempCore.Spec`**: no fairness. Their
  properties are safety properties.
- **`NodeStateStorage.Spec`**: weak fairness of the second half of every
  call (`SaveStateSend`, `DropStateSend`, `LoadStateReadDb`,
  `LoadStateCreate`), because each public call runs to its end without an
  await. Also weak fairness of `StorerStep`, because the spawned storer task
  loops on `reader.recv().await` for as long as jobs arrive. No fairness is
  assumed for new calls, for restarts or for store errors.
- **`BlockHandleMeta.Spec`**: weak fairness of `SaveHandle` for each
  caller, because `save_handle` is the caller's next statement after a true
  `set_*`. Also weak fairness of `StorerStep`, for the same reason as for
  node states. `SetFlagEventuallyStored` needs both.
- **`BlockHandleStorage`**: no fairness. Its properties are safety
  properties.

## Not modelled

- Storer callbacks.
- Store errors on handle records. They are modelled for node states only;
  the handle models take every handle write to succeed. A
  failed flush of a handle is never retried, because `set_*` returns true
  only once per flag. What a caller does with the callback's `ok = false`
  is outside this repository.
- The boolean argument of `BlockMeta::reset`, which is defined outside the
  repository. `reset_*` is modelled as clearing the flag.
- Telemetry.
- The BlockMeta getters (`has_*`, `is_*`, `gen_lt`, `gen_utime`,
  `masterchain_ref_seq_no`, `is_queue_update_for`, `mesh_nw_id`). They only
  read the meta.
- The content of block ids, and the id mismatch logged by `deserialize`.
- Message contents, origins, levels and the response queues. Only whether an
  entry still holds its body is modelled.
- The exact retention arithmetic of the REMP manager. Its source is not in
  this repository, so the first stage follows the test assertions and the
  second the spec.
- The full-node and validator databases run the same code, and one is
  modelled. Note that they share one `state_cache` keyed by the state name.
