---------------------------- MODULE RempSessions ----------------------------
(***************************************************************************)
(* Master-chain session tracker of the REMP manager.                       *)
(*                                                                         *)
(* The tracker keeps an append-only log of master-chain sessions, each    *)
(* with the master-chain time at which it was confirmed, and on every     *)
(* advance derives the alive range: the epochs whose messages must still  *)
(* be answerable within the round-trip guarantee.  The driver is          *)
(* RmqTestbench::advance_master_cc: create_master_cc_session, then        *)
(* advance_master_cc, both in one call that fails as a whole.             *)
(*                                                                         *)
(* Seqnos are numbered from 1 (RmqTestbench::new creates 1..n); the log   *)
(* is the sequence `times`, times[s] being the time of session s.         *)
(***************************************************************************)
EXTENDS Integers, Sequences, FiniteSets

CONSTANTS
    MaxSeqno,      \* bound: the last master-chain seqno the model creates
    MaxTime,       \* bound: master-chain times range over 0..MaxTime
    RpGuarantee    \* rp_guarantee, in master-chain time units

ASSUME MaxSeqno \in Nat \ {0} /\ MaxTime \in Nat /\ RpGuarantee \in Nat

VARIABLES
    times,         \* times[s]: confirmation time of session s
    advanced,      \* last seqno passed to advance_master_cc
    aliveStart,    \* start of the alive range returned by the last advance
    lastResult     \* outcome of the last driver call: "ok" or "err"

sessVars == <<times, advanced, aliveStart, lastResult>>

Times == 0..MaxTime

(***************************************************************************)
(* create_master_cc_session(seqno, time): accepted when seqno is the next *)
(* one and time does not go back, or when it replays the last session     *)
(* with the identical time; every other call is a protocol error.         *)
(***************************************************************************)
\* Mutant: a new session is accepted whatever its time.
CanCreateSessionAnyTime(s, t) ==
    \/ s = Len(times) + 1
    \/ s = Len(times) /\ s > 0 /\ times[s] = t

CanCreateSession(s, t) ==
    \/ /\ s = Len(times) + 1
       /\ Len(times) > 0 => times[Len(times)] <= t
    \/ /\ s = Len(times)
       /\ s > 0
       /\ times[s] = t

\* The log after a successful create: appended, or unchanged on replay.
LogAfterCreate(s, t) ==
    IF s = Len(times) + 1 THEN Append(times, t) ELSE times

(***************************************************************************)
(* The alive range start computed by advance_master_cc(s): the latest    *)
(* session confirmed no later than time(s) - rp_guarantee (a message of   *)
(* an earlier epoch was sent before that instant), or the first session   *)
(* when none is that old.  The boundary is inclusive: a session exactly   *)
(* rp_guarantee old starts the range.                                     *)
(***************************************************************************)
\* Mutant: no old session yields range start 0 instead of the first one.
AliveStartOfZero(log, s) ==
    LET old == {k \in 1..s : log[k] <= log[s] - RpGuarantee}
    IN  IF old = {} THEN 0 ELSE CHOOSE k \in old : \A j \in old : j <= k

\* Mutant: the range starts one past the latest old session.
AliveStartOfNext(log, s) ==
    LET old == {k \in 1..s : log[k] <= log[s] - RpGuarantee}
    IN  IF old = {} THEN 1 ELSE 1 + CHOOSE k \in old : \A j \in old : j <= k

AliveStartOf(log, s) ==
    LET limit == log[s] - RpGuarantee
        old   == {k \in 1..s : log[k] <= limit}
    IN  IF old = {} THEN 1
        ELSE CHOOSE k \in old : \A j \in old : j <= k

(***************************************************************************)
(* RmqTestbench::new: sessions 1..n created with time 0, then advanced to *)
(* n.  The model starts from n = 1.                                       *)
(***************************************************************************)
SessInit ==
    /\ times = <<0>>
    /\ advanced = 1
    /\ aliveStart = 1
    /\ lastResult = "ok"

(***************************************************************************)
(* The driver call create_master_cc_session(s, t) followed by             *)
(* advance_master_cc(s, rp_guarantee).  advance requires s to be recorded *)
(* and not older than the last advanced seqno; after a successful create *)
(* s is the last recorded seqno, so that check cannot fail.              *)
(***************************************************************************)
SessAdvance(s, t) ==
    /\ CanCreateSession(s, t)
    /\ s >= advanced
    /\ times' = LogAfterCreate(s, t)
    /\ advanced' = s
    /\ aliveStart' = AliveStartOf(times', s)
    /\ lastResult' = "ok"

\* The same call failing: the state is left as it was.
SessAdvanceFails(s, t) ==
    /\ ~CanCreateSession(s, t)
    /\ lastResult' = "err"
    /\ UNCHANGED <<times, advanced, aliveStart>>

\* Seqnos a driver may pass: the replayed one, the next one, and any
\* other recorded or unrecorded seqno within the bound.
SessInputs == (1..MaxSeqno) \X Times

SessNext ==
    \E st \in SessInputs :
        \/ SessAdvance(st[1], st[2])
        \/ SessAdvanceFails(st[1], st[2])

SessSpec == SessInit /\ [][SessNext]_sessVars

-----------------------------------------------------------------------------
SessTypeOK ==
    /\ times \in Seq(Times)
    /\ Len(times) \in 1..MaxSeqno
    /\ advanced \in 1..Len(times)
    /\ aliveStart \in 1..advanced
    /\ lastResult \in {"ok", "err"}

(***************************************************************************)
(* The alive range never moves back: once the GC driven by one advance    *)
(* has dropped an epoch, no later advance declares it alive again.        *)
(***************************************************************************)
AliveStartMonotone == [][aliveStart' >= aliveStart]_sessVars
=============================================================================
