-------------------------- MODULE NodeStateStorage --------------------------
(***************************************************************************)
(* Node state records of BlockHandleStorage (storage/src/                 *)
(* block_handle_db.rs): save/load/drop of the full-node and validator     *)
(* state block ids.  Each key maps to a block id in state_cache (a lock-  *)
(* free map) and in a NodeStateDb; writes reach the database through the *)
(* same storer channel as the handles, in FIFO order.  The two databases *)
(* run the same code and one is modelled.                                 *)
(*                                                                         *)
(* Every public call is split where the code touches two shared objects: *)
(* save = create_state (cache) then send; drop = delete_state (cache)    *)
(* then send; load = cache lookup, database read, create_state.          *)
(***************************************************************************)
EXTENDS Integers, Sequences, FiniteSets

CONSTANTS
    Keys,          \* state keys (model values)
    BlockIds,      \* block ids a state may name (model values)
    Writers,       \* tasks that save and drop states
    Readers,       \* tasks that load states
    MaxCrashes,    \* bound: process restarts in a behaviour
    MaxJobs,       \* bound: jobs waiting in the storer channel
    MaxStoreErrors,\* bound: failed database writes in a behaviour
    NONE

ASSUME Writers \cap Readers = {} /\ MaxCrashes \in Nat /\ MaxJobs \in Nat \ {0}
       /\ MaxStoreErrors \in Nat

Tasks == Writers \cup Readers

VARIABLES
    stateCache,    \* state_cache: key -> block id, or NONE
    db,            \* NodeStateDb: key -> block id, or NONE
    storer,        \* storer channel: sequence of [kind, key, id]
    task,          \* task -> [pc, key, id]
    lastWrite,     \* key -> the id of the last save, NONE after a drop (history)
    crashes,
    storeErrors,   \* failed database writes so far
    failed         \* key -> its last save or drop was lost to a failed write (history)

vars == <<stateCache, db, storer, task, lastWrite, crashes, storeErrors, failed>>

Idle == [pc |-> "idle", key |-> NONE, id |-> NONE]

Init ==
    /\ db \in [Keys -> BlockIds \cup {NONE}]
    /\ stateCache = [k \in Keys |-> NONE]
    /\ storer = <<>>
    /\ task = [t \in Tasks |-> Idle]
    /\ lastWrite = db
    /\ crashes = 0
    /\ storeErrors = 0
    /\ failed = [k \in Keys |-> FALSE]

\* create_state(key, id): add_unbound_object_to_map_with_update always
\* replaces the entry (its closure returns Some(id) whatever it finds).
CreateState(k, id) == [stateCache EXCEPT ![k] = id]

(***************************************************************************)
(* save_full_node_state / save_validator_state(key, id): create_state,   *)
(* then the SaveFullNodeState / SaveValidatorState job is sent.          *)
(***************************************************************************)
SaveState(t, k, id) ==
    /\ task[t].pc = "idle"
    /\ stateCache' = CreateState(k, id)
    /\ task' = [task EXCEPT ![t] = [pc |-> "send_save", key |-> k, id |-> id]]
    /\ lastWrite' = [lastWrite EXCEPT ![k] = id]
    /\ failed' = [failed EXCEPT ![k] = FALSE]
    /\ UNCHANGED <<db, storer, crashes, storeErrors>>

\* Mutant: the job is built with its arguments swapped.
SaveStateSendSwapped(t) ==
    /\ task[t].pc = "send_save"
    /\ Len(storer) < MaxJobs
    /\ storer' = Append(storer, [kind |-> "save", key |-> task[t].key, id |-> task[t].key])
    /\ task' = [task EXCEPT ![t] = Idle]
    /\ UNCHANGED <<stateCache, db, lastWrite, crashes, storeErrors, failed>>

SaveStateSend(t) ==
    /\ task[t].pc = "send_save"
    /\ Len(storer) < MaxJobs
    /\ storer' = Append(storer, [kind |-> "save", key |-> task[t].key, id |-> task[t].id])
    /\ task' = [task EXCEPT ![t] = Idle]
    /\ UNCHANGED <<stateCache, db, lastWrite, crashes, storeErrors, failed>>

(***************************************************************************)
(* drop_full_node_state / drop_validator_state(key): delete_state removes *)
(* the cache entry, then the Drop job is sent.                            *)
(***************************************************************************)
DropState(t, k) ==
    /\ task[t].pc = "idle"
    /\ stateCache' = [stateCache EXCEPT ![k] = NONE]
    /\ task' = [task EXCEPT ![t] = [pc |-> "send_drop", key |-> k, id |-> NONE]]
    /\ lastWrite' = [lastWrite EXCEPT ![k] = NONE]
    /\ failed' = [failed EXCEPT ![k] = FALSE]
    /\ UNCHANGED <<db, storer, crashes, storeErrors>>

DropStateSend(t) ==
    /\ task[t].pc = "send_drop"
    /\ Len(storer) < MaxJobs
    /\ storer' = Append(storer, [kind |-> "drop", key |-> task[t].key, id |-> NONE])
    /\ task' = [task EXCEPT ![t] = Idle]
    /\ UNCHANGED <<stateCache, db, lastWrite, crashes, storeErrors, failed>>

(***************************************************************************)
(* load_full_node_state / load_validator_state(key) -> load_state: a      *)
(* cached id is returned; otherwise the database is read and a stored id *)
(* is put in the cache with create_state and returned.                   *)
(***************************************************************************)
LoadState(t, k) ==
    /\ task[t].pc = "idle"
    /\ task' = [task EXCEPT ![t] =
                   IF stateCache[k] # NONE THEN Idle
                   ELSE [pc |-> "read_db", key |-> k, id |-> NONE]]
    /\ UNCHANGED <<stateCache, db, storer, lastWrite, crashes, storeErrors, failed>>

LoadStateReadDb(t) ==
    LET k == task[t].key IN
    /\ task[t].pc = "read_db"
    /\ task' = [task EXCEPT ![t] =
                   IF db[k] = NONE THEN Idle
                   ELSE [task[t] EXCEPT !.pc = "create", !.id = db[k]]]
    /\ UNCHANGED <<stateCache, db, storer, lastWrite, crashes, storeErrors, failed>>

LoadStateCreate(t) ==
    /\ task[t].pc = "create"
    /\ stateCache' = CreateState(task[t].key, task[t].id)
    /\ task' = [task EXCEPT ![t] = Idle]
    /\ UNCHANGED <<db, storer, lastWrite, crashes, storeErrors, failed>>

(***************************************************************************)
(* The storer task: save_state puts the serialized id, the Drop jobs     *)
(* delete_raw the key.                                                    *)
(***************************************************************************)
\* Mutant: the storer takes the newest job first.
StorerStepNewestFirst ==
    LET job == storer[Len(storer)] IN
    /\ storer # <<>>
    /\ db' = [db EXCEPT ![job.key] = job.id]
    /\ storer' = SubSeq(storer, 1, Len(storer) - 1)
    /\ UNCHANGED <<stateCache, task, lastWrite, crashes, storeErrors, failed>>

StorerStep ==
    LET job == Head(storer) IN
    /\ storer # <<>>
    /\ db' = [db EXCEPT ![job.key] = job.id]
    /\ storer' = Tail(storer)
    /\ UNCHANGED <<stateCache, task, lastWrite, crashes, storeErrors, failed>>

\* save_state's put_raw, or delete_raw, fails: the error is logged, the
\* job is consumed and the database keeps what it had.
\* A failed job of key k carried k's last write when no later job of k is
\* queued and no writer is between its cache update and its send for k.
LostLastWrite(k) ==
    LET last == /\ \A i \in 2..Len(storer) : storer[i].key # k
                /\ \A t \in Writers : task[t].pc = "idle" \/ task[t].key # k
    IN  [failed EXCEPT ![k] = @ \/ last]

\* Mutant: an error ends the job loop, so the queued jobs are never written.
StorerStepFailsDropsRest ==
    /\ storer # <<>>
    /\ storeErrors < MaxStoreErrors
    /\ failed' = LostLastWrite(Head(storer).key)
    /\ storer' = <<>>
    /\ storeErrors' = storeErrors + 1
    /\ UNCHANGED <<stateCache, db, task, lastWrite, crashes>>

StorerStepFails ==
    /\ storer # <<>>
    /\ storeErrors < MaxStoreErrors
    /\ failed' = LostLastWrite(Head(storer).key)
    /\ storer' = Tail(storer)
    /\ storeErrors' = storeErrors + 1
    /\ UNCHANGED <<stateCache, db, task, lastWrite, crashes>>

(***************************************************************************)
(* A restart loses the cache, the tasks' calls and the jobs not yet      *)
(* written; what was last written is then what the database holds.       *)
(***************************************************************************)
Restart ==
    /\ crashes < MaxCrashes
    /\ stateCache' = [k \in Keys |-> NONE]
    /\ storer' = <<>>
    /\ task' = [t \in Tasks |-> Idle]
    /\ lastWrite' = db
    /\ failed' = [k \in Keys |-> FALSE]
    /\ crashes' = crashes + 1
    /\ UNCHANGED <<db, storeErrors>>

Next ==
    \/ \E t \in Writers, k \in Keys :
          \/ \E id \in BlockIds : SaveState(t, k, id)
          \/ DropState(t, k)
    \/ \E t \in Writers : SaveStateSend(t) \/ DropStateSend(t)
    \/ \E t \in Readers, k \in Keys : LoadState(t, k)
    \/ \E t \in Readers : LoadStateReadDb(t) \/ LoadStateCreate(t)
    \/ StorerStep
    \/ StorerStepFails
    \/ Restart

(***************************************************************************)
(* Each public call runs to its end without awaiting (create_state then   *)
(* send; the database read then create_state), and the storer task keeps *)
(* draining its channel: weak fairness of these steps.  Calls are not    *)
(* forced to happen, and neither is a restart.                           *)
(***************************************************************************)
Fairness ==
    /\ \A t \in Writers : WF_vars(SaveStateSend(t)) /\ WF_vars(DropStateSend(t))
    /\ \A t \in Readers : WF_vars(LoadStateReadDb(t)) /\ WF_vars(LoadStateCreate(t))
    /\ WF_vars(StorerStep)

Spec == Init /\ [][Next]_vars /\ Fairness

-----------------------------------------------------------------------------
TypeOK ==
    /\ stateCache \in [Keys -> BlockIds \cup {NONE}]
    /\ db \in [Keys -> BlockIds \cup {NONE}]
    /\ storer \in Seq([kind : {"save", "drop"}, key : Keys, id : BlockIds \cup {NONE}])
    /\ Len(storer) <= MaxJobs
    /\ lastWrite \in [Keys -> BlockIds \cup {NONE}]
    /\ crashes \in 0..MaxCrashes
    /\ storeErrors \in 0..MaxStoreErrors
    /\ failed \in [Keys -> BOOLEAN]

(***************************************************************************)
(* Once the writer's calls have returned and the storer has drained, the *)
(* database holds, for every key, what the last save or drop asked for,  *)
(* unless the storer's write of that very job failed: the channel keeps  *)
(* the writer's order, and a put_raw/delete_raw error is logged and      *)
(* skips only its own job, never the jobs queued behind it.              *)
(***************************************************************************)
DbMatchesLastWrite ==
    (storer = <<>> /\ \A t \in Writers : task[t].pc = "idle")
        => \A k \in Keys : db[k] = lastWrite[k] \/ failed[k]

(***************************************************************************)
(* A cached state is the last one saved: load_state never puts back into  *)
(* the cache an id that a save or a drop has since replaced.             *)
(***************************************************************************)
CacheHoldsLastWrite ==
    \A k \in Keys : stateCache[k] \in {NONE, lastWrite[k]}

(***************************************************************************)
(* A save or drop is not left unwritten: once the writer's call returned, *)
(* the database comes to hold what it asked for, unless a later save or  *)
(* drop of the key replaced it, a restart lost it first, or its own      *)
(* write failed (logged and skipped by the storer).                      *)
(***************************************************************************)
WrittenStateReachesDb ==
    \A k \in Keys, v \in BlockIds \cup {NONE} :
        lastWrite[k] = v ~> (db[k] = v \/ lastWrite[k] # v \/ failed[k])

(***************************************************************************)
(* Once every call has returned and the storer has drained, a cached     *)
(* state is the one the database holds: save_*_state's create_state and  *)
(* its send are two steps, and two saves of one key must not leave the   *)
(* cache with one id and the database with the other.                    *)
(***************************************************************************)
CacheAgreesWithDb ==
    (storer = <<>> /\ \A t \in Tasks : task[t].pc = "idle")
        => \A k \in Keys : stateCache[k] \in {NONE, db[k]}
=============================================================================
