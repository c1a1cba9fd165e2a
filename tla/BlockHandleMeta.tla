-------------------------- MODULE BlockHandleMeta --------------------------
(***************************************************************************)
(* The meta of one BlockHandle and its flush to handle_db                 *)
(* (storage/src/block_handle_db.rs), seen from the handle's callers.      *)
(*                                                                         *)
(* set_data, set_proof, ..., set_moving_to_archive go through set_flag,   *)
(* which ORs the flag into the meta and returns true only if it was not   *)
(* set before; "flush only after transform false -> true": the caller    *)
(* that got true then calls save_handle, which queues a SaveHandle job    *)
(* owning the handle.  reset_* clears flags and the caller saves.  The    *)
(* storer serializes the meta as it is when it takes the job.  A restart  *)
(* loses the meta in memory and the queued jobs; the handle is rebuilt    *)
(* from the stored record.  FLAG_ARCHIVING is not serialized.             *)
(*                                                                         *)
(* set_masterchain_ref_seq_no calls BlockMeta::set_masterchain_ref_seq_no,*)
(* which stores the new value and returns the previous one ("prev"), and  *)
(* only then compares: 0 gives Ok(true), the same value Ok(false), any    *)
(* other value the INTERNAL ERROR.                                        *)
(***************************************************************************)
EXTENDS Integers, Sequences

CONSTANTS
    Tasks,          \* tasks calling the handle concurrently (model values)
    Flags,          \* meta flags the tasks set and reset (model values)
    Unserialized,   \* flags BlockMeta does not write (FLAG_ARCHIVING)
    RefSeqNos,      \* masterchain seqnos passed to set_masterchain_ref_seq_no
    MaxJobs,        \* bound: SaveHandle jobs queued at once
    MaxCrashes      \* bound: restarts in a behaviour

ASSUME Unserialized \subseteq Flags /\ 0 \notin RefSeqNos
ASSUME MaxJobs \in Nat \ {0} /\ MaxCrashes \in Nat

Meta == [flags : SUBSET Flags, mcRef : {0} \cup RefSeqNos]

VARIABLES
    meta,       \* the handle's BlockMeta in memory
    db,         \* the record handle_db holds for the block
    storer,     \* SaveHandle jobs in the channel, oldest first
    pc,         \* task -> "idle" or "save" (set_* returned true, save_handle next)
    crashes,    \* restarts so far
    refOk       \* the value a set_masterchain_ref_seq_no confirmed with Ok(true), 0 if none (history)

vars == <<meta, db, storer, pc, crashes, refOk>>

-----------------------------------------------------------------------------
\* Mutant: the not-serialized mask applied the wrong way round.
SerializeMaskInverted(m) == [m EXCEPT !.flags = @ \cap Unserialized]

\* BlockMeta::serialize: FLAG_ARCHIVING is not written.
Serialize(m) == [m EXCEPT !.flags = @ \ Unserialized]

\* Mutant: set_flag returns whether the flag was already set.
SetFlagResultInverted(prev, f) == f \in prev

\* set_flag: (self.meta.set_flags(flag) & flag) != flag, set_flags
\* returning the flags before the OR.
SetFlagResult(prev, f) == f \notin prev

\* The storer's save_handle: handle.serialize of the meta as it is now.
StoredRecord == Serialize(meta)

-----------------------------------------------------------------------------
\* The handle was created and saved, or loaded from its record.
Init ==
    /\ db \in {Serialize(m) : m \in Meta}
    /\ meta = db
    /\ storer = <<>>
    /\ pc = [t \in Tasks |-> "idle"]
    /\ crashes = 0
    /\ refOk = db.mcRef

(***************************************************************************)
(* set_data, set_proof, set_state, ..., set_moving_to_archive -> set_flag;*)
(* a caller that got true goes on to save_handle.                        *)
(***************************************************************************)
SetFlag(t, f) ==
    /\ pc[t] = "idle"
    /\ meta' = [meta EXCEPT !.flags = @ \cup {f}]
    /\ pc' = [pc EXCEPT ![t] = IF SetFlagResult(meta.flags, f) THEN "save" ELSE "idle"]
    /\ UNCHANGED <<db, storer, crashes, refOk>>

\* reset_data, reset_proof, ..., reset_state -> meta.reset; then save_handle.
ResetFlag(t, f) ==
    /\ pc[t] = "idle"
    /\ meta' = [meta EXCEPT !.flags = @ \ {f}]
    /\ pc' = [pc EXCEPT ![t] = "save"]
    /\ UNCHANGED <<db, storer, crashes, refOk>>

\* save_handle: storer.send(SaveHandle(handle.clone())).
SaveHandle(t) ==
    /\ pc[t] = "save"
    /\ Len(storer) < MaxJobs
    /\ storer' = Append(storer, "save")
    /\ pc' = [pc EXCEPT ![t] = "idle"]
    /\ UNCHANGED <<meta, db, crashes, refOk>>

(***************************************************************************)
(* set_masterchain_ref_seq_no(v): prev = meta.set_masterchain_ref_seq_no, *)
(* then Ok(true) if prev = 0, Ok(false) if prev = v, else fail!.          *)
(***************************************************************************)
SetMasterchainRefSeqNo(t, v) ==
    /\ pc[t] = "idle"
    /\ meta' = [meta EXCEPT !.mcRef = v]
    /\ refOk' = IF meta.mcRef = 0 THEN v ELSE refOk
    /\ UNCHANGED <<db, storer, pc, crashes>>

\* The storer task takes the oldest job and puts the serialized meta.
StorerStep ==
    /\ storer # <<>>
    /\ db' = StoredRecord
    /\ storer' = Tail(storer)
    /\ UNCHANGED <<meta, pc, crashes, refOk>>

\* A restart: the meta and the channel are lost; the handle is loaded again.
Restart ==
    /\ crashes < MaxCrashes
    /\ meta' = db
    /\ storer' = <<>>
    /\ pc' = [t \in Tasks |-> "idle"]
    /\ crashes' = crashes + 1
    /\ refOk' = db.mcRef
    /\ UNCHANGED db

Next ==
    \/ \E t \in Tasks :
          \/ \E f \in Flags : SetFlag(t, f) \/ ResetFlag(t, f)
          \/ \E v \in RefSeqNos : SetMasterchainRefSeqNo(t, v)
          \/ SaveHandle(t)
    \/ StorerStep
    \/ Restart

\* A caller that got true from set_* goes on to save_handle, and the storer
\* loop takes every job it is sent.
Fairness == /\ \A t \in Tasks : WF_vars(SaveHandle(t))
            /\ WF_vars(StorerStep)

Spec == Init /\ [][Next]_vars /\ Fairness

-----------------------------------------------------------------------------
TypeOK ==
    /\ meta \in Meta
    /\ db \in Meta
    /\ storer \in Seq({"save"})
    /\ pc \in [Tasks -> {"idle", "save"}]
    /\ crashes \in 0..MaxCrashes
    /\ refOk \in {0} \cup RefSeqNos

(***************************************************************************)
(* When no caller is between set_*/reset_* and save_handle and the       *)
(* storer has written every job, the record holds the flags of the meta   *)
(* (but FLAG_ARCHIVING): set_flag's true goes to exactly the caller whose *)
(* OR changed the meta, so no change of the flags is left unflushed.      *)
(***************************************************************************)
QuiescentRecordCurrent ==
    (storer = <<>> /\ \A t \in Tasks : pc[t] = "idle")
        => db.flags = Serialize(meta).flags

(***************************************************************************)
(* A flag set on the handle (and written by BlockMeta) is eventually in  *)
(* handle_db, unless it is reset or a restart loses it first.            *)
(***************************************************************************)
SetFlagEventuallyStored ==
    \A f \in Flags \ Unserialized :
        f \in meta.flags ~> (f \in db.flags \/ f \notin meta.flags)

(***************************************************************************)
(* The masterchain ref seqno of a block, once set_masterchain_ref_seq_no *)
(* confirmed it with Ok(true), stays that value: a call with another     *)
(* value fails and does not change it.                                    *)
(***************************************************************************)
RefSeqNoSetOnce == refOk # 0 => meta.mcRef = refOk
=============================================================================
