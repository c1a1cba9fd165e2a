------------------------------ MODULE RempCore ------------------------------
(***************************************************************************)
(* The reliable external-message (REMP) core: the shared message status  *)
(* cache, the per-epoch message queue that ingests catchain records and  *)
(* forwards messages to collation, the block-indexing processor that     *)
(* reports accepted messages, and the garbage collection that the        *)
(* session tracker (RempSessions) drives on every master-chain advance.  *)
(*                                                                         *)
(* Data is abstracted: a message is its id (an integer, so that the      *)
(* least id of a uid group is defined) and UidOf maps it to its uid;     *)
(* statuses keep their variant and drop level and block; of the body and *)
(* origin only the entry's retention stage is kept (Full until a GC     *)
(* pass drops the body, HeaderOnly after; a record brings it back).  The *)
(* cache is a partial function from ids to entries.                      *)
(*                                                                         *)
(* Concurrency: every handler is one step except the GC pass, which     *)
(* visits cache entries one at a time while records, indexing reports    *)
(* and collation go on (the cache is a concurrent map, linearizable per  *)
(* id).  The session driver awaits the GC pass before the next advance.  *)
(***************************************************************************)
EXTENDS RempSessions, Functions

CONSTANTS
    Ids,           \* message ids (integers)
    UidOf          \* UidOf[id]: the uid of message id

ASSUME Ids \subseteq Nat /\ UidOf \in [Ids -> Range(UidOf)]

VARIABLES
    cache,         \* id -> [uid, status, epoch, stage]
    queue,         \* the current MessageQueue: [seqno, start, pending]
    collated,      \* ids handed to the collator (EngineOperations::new_remp_message)
    gc             \* the running gc_old_messages pass: [active, start, todo]

vars == <<sessVars, cache, queue, collated, gc>>

Uids == Range(UidOf)
Statuses == {"New", "Ignored", "Duplicate", "Accepted", "Rejected"}
Stages == {"Full", "HeaderOnly"}
Entry == [uid : Uids, status : Statuses, epoch : 1..MaxSeqno, stage : Stages]

-----------------------------------------------------------------------------
(***************************************************************************)
(* Message status cache                                                  *)
(***************************************************************************)

\* The cache after writing entry e for id (insert or replace).
Put(c, id, e) == [x \in DOMAIN c \cup {id} |-> IF x = id THEN e ELSE c[x]]

(***************************************************************************)
(* add_external_message_status(id, uid, body?, origin?, status, merge,   *)
(* epoch) with the overwriting merge |_old, new| new that every caller    *)
(* in the repository passes: the status is replaced and the touched      *)
(* epoch refreshed.  A new entry starts Full, with or without a body (the *)
(* body-less entries of push_random_msgs are demoted, has_only_header,   *)
(* on their first expiry, :546-560); a supplied body makes an existing   *)
(* entry Full again, and without one it keeps its stage.                 *)
(***************************************************************************)
\* Mutant: a supplied body does not restore a header-only entry.
AddExternalMessageStatusNoRestore(c, id, status, epoch, body) ==
    LET stage == IF id \in DOMAIN c THEN c[id].stage ELSE "Full"
    IN  Put(c, id, [uid |-> UidOf[id], status |-> status, epoch |-> epoch, stage |-> stage])

AddExternalMessageStatus(c, id, status, epoch, body) ==
    LET stage == IF body \/ id \notin DOMAIN c THEN "Full" ELSE c[id].stage
    IN  Put(c, id, [uid |-> UidOf[id], status |-> status, epoch |-> epoch, stage |-> stage])

\* An id of uid u other than id whose message is decided (Accepted).
DecidedTwins(c, u, id) ==
    {x \in DOMAIN c : x # id /\ c[x].uid = u /\ c[x].status = "Accepted"}

-----------------------------------------------------------------------------
Init ==
    /\ SessInit
    /\ cache = <<>>
    /\ queue = [seqno |-> 1, start |-> 1, pending |-> {}]
    /\ collated = {}
    /\ gc = [active |-> FALSE, start |-> 1, todo |-> {}]

(***************************************************************************)
(* MessageQueue::process_pending_remp_catchain_record for a record of    *)
(* message id made in master-chain epoch e.  A record of an earlier      *)
(* epoch than the queue's was forwarded from the previous session: its   *)
(* message gets forwarded_ignored_status (Ignored at master level) and  *)
(* goes nowhere.  Otherwise a message whose uid is already decided by    *)
(* another id becomes Duplicate; any other message keeps its status (New *)
(* when first seen) and, while it is New, joins the pending set of ids   *)
(* not yet terminal.                                                      *)
(***************************************************************************)
ProcessPendingRecord(id, e) ==
    LET u       == UidOf[id]
        old     == IF id \in DOMAIN cache THEN cache[id].status ELSE "New"
        status  == IF e < queue.seqno THEN "Ignored"
                   ELSE IF DecidedTwins(cache, u, id) # {} THEN "Duplicate"
                   ELSE old
        pending == IF status = "New" THEN queue.pending \cup {id}
                   ELSE queue.pending
    IN
    /\ cache' = AddExternalMessageStatus(cache, id, status, e, TRUE)
    /\ queue' = [queue EXCEPT !.pending = pending]
    /\ UNCHANGED <<sessVars, collated, gc>>

(***************************************************************************)
(* RempMasterBlockIndexingProcessor::process_message(id, uid): a message *)
(* seen in a finalized block is Accepted (no body is supplied) in the    *)
(* processor's master-chain epoch (the current one).                     *)
(***************************************************************************)
IndexAcceptedMessage(id) ==
    /\ cache' = AddExternalMessageStatus(cache, id, "Accepted", advanced, FALSE)
    /\ UNCHANGED <<sessVars, queue, collated, gc>>

(***************************************************************************)
(* MessageQueue::collect_messages_for_collation: the pending set is      *)
(* grouped by uid.  A group with a member already Accepted has every    *)
(* other member rejected at Queue level (the decided one just leaves the *)
(* set).  The test (:330-357) decides a member of the group; the spec    *)
(* (4.2) restricts the check to the group's members.                     *)
(* An undecided group forwards its least id to the collator, which stays *)
(* pending, and rejects the rest.                                        *)
(***************************************************************************)
GroupOf(u) == {x \in queue.pending : UidOf[x] = u}

DecidedUid(u) == \E x \in GroupOf(u) : cache[x].status = "Accepted"

LeastId(S) == CHOOSE x \in S : \A y \in S : x <= y

\* The ids this pass forwards: the least of every undecided group.
Forwarded ==
    {LeastId(GroupOf(u)) : u \in {v \in Uids : GroupOf(v) # {} /\ ~DecidedUid(v)}}

CollectMessagesForCollation ==
    LET fwd      == Forwarded
        rejected == {x \in queue.pending \ fwd : cache[x].status # "Accepted"}
    IN
    /\ queue.pending # {}
    /\ collated' = collated \cup fwd
    /\ cache' = [x \in DOMAIN cache |->
                    IF x \in rejected
                    THEN [cache[x] EXCEPT !.status = "Rejected", !.epoch = queue.seqno]
                    ELSE cache[x]]
    /\ queue' = [queue EXCEPT !.pending = fwd]
    /\ UNCHANGED <<sessVars, gc>>

(***************************************************************************)
(* RmqTestbench::advance_master_cc: create and advance the session, then *)
(* replace the message queue by one built for the new alive range        *)
(* (replace_message_queue, its pending set starts empty) and start       *)
(* gc_old_messages(range start) over the entries present now.  The      *)
(* driver awaits the previous GC pass first.                             *)
(***************************************************************************)
AdvanceMasterCc(s, t) ==
    /\ ~gc.active
    /\ SessAdvance(s, t)
    /\ queue' = [seqno |-> s, start |-> aliveStart', pending |-> {}]
    /\ gc' = [active |-> TRUE, start |-> aliveStart', todo |-> DOMAIN cache]
    /\ UNCHANGED <<cache, collated>>

AdvanceMasterCcFails(s, t) ==
    /\ ~gc.active
    /\ SessAdvanceFails(s, t)
    /\ UNCHANGED <<cache, queue, collated, gc>>

(***************************************************************************)
(* One entry of the GC pass.  An entry is aged only if, at the moment it  *)
(* is visited, its touched epoch is still before the alive range.  Aged  *)
(* follows the two retention stages of the spec (4.1): a Full entry      *)
(* drops its body and is kept as HeaderOnly (has_only_header), stamped   *)
(* with the range start, so that a pass over the same range ages it no   *)
(* further (total 0 at :572-573); a HeaderOnly entry is removed (total). *)
(* The tests pin the first stage only; the removal is from the spec.     *)
(***************************************************************************)
Aged(c, id, start) ==
    IF c[id].stage = "Full"
    THEN [c EXCEPT ![id].stage = "HeaderOnly", ![id].epoch = start]
    ELSE [x \in DOMAIN c \ {id} |-> c[x]]

GcVisit(id) ==
    /\ gc.active
    /\ id \in gc.todo
    /\ cache' = IF id \in DOMAIN cache /\ cache[id].epoch < gc.start
                THEN Aged(cache, id, gc.start)
                ELSE cache
    /\ gc' = [gc EXCEPT !.todo = @ \ {id}]
    /\ UNCHANGED <<sessVars, queue, collated>>

\* Mutant: the pass reports completion without awaiting every entry.
GcFinishEarly ==
    /\ gc.active
    /\ gc' = [gc EXCEPT !.active = FALSE, !.todo = {}]
    /\ UNCHANGED <<sessVars, cache, queue, collated>>

GcFinish ==
    /\ gc.active
    /\ gc.todo = {}
    /\ gc' = [gc EXCEPT !.active = FALSE]
    /\ UNCHANGED <<sessVars, cache, queue, collated>>

Next ==
    \/ \E id \in Ids, e \in 1..MaxSeqno :
          e \in queue.start..queue.seqno /\ ProcessPendingRecord(id, e)
    \/ \E id \in Ids : IndexAcceptedMessage(id)
    \/ CollectMessagesForCollation
    \/ \E st \in SessInputs : AdvanceMasterCc(st[1], st[2])
    \/ \E st \in SessInputs : AdvanceMasterCcFails(st[1], st[2])
    \/ \E id \in Ids : GcVisit(id)
    \/ GcFinish

Spec == Init /\ [][Next]_vars

-----------------------------------------------------------------------------
TypeOK ==
    /\ SessTypeOK
    /\ DOMAIN cache \subseteq Ids
    /\ \A id \in DOMAIN cache : cache[id] \in Entry /\ cache[id].uid = UidOf[id]
    /\ queue \in [seqno : 1..MaxSeqno, start : 1..MaxSeqno, pending : SUBSET Ids]
    /\ collated \subseteq Ids
    /\ gc \in [active : BOOLEAN, start : 1..MaxSeqno, todo : SUBSET Ids]

(***************************************************************************)
(* Every message in the queue's pending set is still in the shared cache *)
(* and not demoted to its header: collation hands its body to the        *)
(* collator, whatever GC passes ran since it was received, including a   *)
(* message received again after GC had dropped its body.                 *)
(***************************************************************************)
PendingHasBody ==
    \A id \in queue.pending : id \in DOMAIN cache /\ cache[id].stage = "Full"

(***************************************************************************)
(* Once a GC pass finishes, no entry older than the alive range is left  *)
(* in the cache, so a second gc_old_messages with the same range start   *)
(* evicts nothing (the idempotence the tests assert).                    *)
(***************************************************************************)
GcLeavesNothingExpired ==
    ~gc.active => \A id \in DOMAIN cache : cache[id].epoch >= gc.start

=============================================================================
