--------------------------- MODULE ExecutionLease ---------------------------
(***************************************************************************)
(* The execution lease of LingBot sessions: ExecutionLeaseManager of       *)
(* telefuser/pipelines/lingbot_world_fast/lease.py.  One session holds the *)
(* lease and submits chunks; it yields at chunk boundaries, once it was    *)
(* idle for its timeout and another session queues.                        *)
(*                                                                         *)
(* Every method is one critical section of the manager's lock, so each is  *)
(* a function from manager states to manager states here; LingBotService   *)
(* makes the actions of them.  Time is kept only as the outcome of         *)
(* _is_expired: `stale' is set when a session's idle timeout has passed.   *)
(***************************************************************************)
EXTENDS Integers, Sequences, SequencesExt

CONSTANTS Sessions,    \* session ids
          NoSession    \* no session: the lease is free

ASSUME LeaseAssumption == NoSession \notin Sessions

LeaseStatus == {"none", "waiting", "queued", "active", "parked", "closing"}

\* The manager: _entries, field by field ("none" where there is no entry),
\* _waiting and _active_session_id.
LeaseStates ==
  [status : [Sessions -> LeaseStatus],
   stale : [Sessions -> BOOLEAN],         \* last_activity_at is idle_timeout ago
   busy : [Sessions -> BOOLEAN],
   ran : [Sessions -> BOOLEAN],           \* has_run_since_grant
   protected : [Sessions -> BOOLEAN],     \* protect_next_grant
   queue : Seq(Sessions),
   holder : Sessions \cup {NoSession}]

NoEntries ==
  [status |-> [s \in Sessions |-> "none"],
   stale |-> [s \in Sessions |-> FALSE],
   busy |-> [s \in Sessions |-> FALSE],
   ran |-> [s \in Sessions |-> FALSE],
   protected |-> [s \in Sessions |-> FALSE],
   queue |-> << >>,
   holder |-> NoSession]

\* The entry of s is a new one, or gone.
Fresh(L, s, status) ==
  [L EXCEPT !.status[s] = status, !.stale[s] = FALSE, !.busy[s] = FALSE,
            !.ran[s] = FALSE, !.protected[s] = FALSE]

\* _remove_waiter_locked.
RemoveWaiter(L, s) == [L EXCEPT !.queue = RemoveFirst(@, s)]

\* _grant_next_locked: the first waiter that is still queued gets the lease.
GrantNext(L) ==
  LET ready == {i \in 1 .. Len(L.queue) : L.status[L.queue[i]] = "queued"}
      first == CHOOSE i \in ready : \A j \in ready : i <= j
      next == L.queue[first]
  IN  IF L.holder # NoSession THEN L
      ELSE IF ready = {} THEN [L EXCEPT !.queue = << >>]
      ELSE [L EXCEPT !.queue = SubSeq(@, first + 1, Len(@)),
                     !.status[next] = "active",
                     !.ran[next] = ~L.protected[next],
                     !.protected[next] = FALSE,
                     !.holder = next]

\* _park_active_locked.
ParkActive(L) ==
  IF L.holder = NoSession THEN L
  ELSE IF L.busy[L.holder] THEN L
  ELSE [L EXCEPT !.status[L.holder] = "parked", !.holder = NoSession]

Register(L, s) == Fresh(L, s, "waiting")

\* The holder gives way to s: it ran since it was granted and is idle.
GivesWay(L, s) ==
  /\ L.holder \notin {NoSession, s}
  /\ L.ran[L.holder] /\ ~L.busy[L.holder] /\ L.stale[L.holder]

\* record_activity, for a session that has an entry.
Joined(L, s) ==
  IF L.status[s] \notin {"waiting", "parked"} THEN L
  ELSE [L EXCEPT !.protected[s] = L.holder # NoSession,
                 !.status[s] = "queued",
                 !.queue = IF s \in Range(@) THEN @ ELSE Append(@, s)]

RecordActivity(L, s) ==
  LET J == Joined([L EXCEPT !.stale[s] = FALSE], s)
  IN  IF L.status[s] = "closing" THEN L
      ELSE GrantNext(IF GivesWay(J, s) THEN ParkActive(J) ELSE J)

\* wait_for_turn: it goes on waiting unless one of the two holds.
HasTurn(L, s) == L.holder = s /\ L.status[s] = "active"
M_LosesTurnUnwoken(L, s) == L.status[s] = "none"
LosesTurn(L, s) == L.status[s] \in {"none", "closing"}

\* begin_chunk: its guard, and its effect.
CanBegin(L, s) == HasTurn(L, s) /\ ~L.busy[s]
BeginChunk(L, s) == [L EXCEPT !.busy[s] = TRUE, !.ran[s] = TRUE]

AbortChunk(L, s) == [L EXCEPT !.busy[s] = FALSE]

\* finish_chunk: the chunk boundary.
FinishChunk(L, s) ==
  LET F == [L EXCEPT !.busy[s] = FALSE]
  IN  IF F.status[s] = "active" /\ F.queue # << >> /\ F.stale[s]
        THEN GrantNext(ParkActive(F)) ELSE F

M_YieldAtBoundaryOnly(L, s) == L

\* yield_if_idle.
YieldIfIdle(L, s) ==
  IF /\ HasTurn(L, s) /\ L.ran[s] /\ ~L.busy[s]
     /\ L.queue # << >> /\ L.stale[s]
    THEN GrantNext(ParkActive(L)) ELSE L

\* deactivate: the session leaves the queue, not the lease.
Deactivate(L, s) ==
  IF L.status[s] = "none" THEN L
  ELSE RemoveWaiter([L EXCEPT !.status[s] = "closing"], s)

\* Variants named M_... make one plausible mistake in the definition after them;
\* here the entry is forgotten, and keeps the lease.
M_ReleaseKeepsLease(L, s) ==
  IF L.status[s] = "none" THEN L ELSE GrantNext(RemoveWaiter(Fresh(L, s, "none"), s))

\* release: the entry goes, and the next waiter gets a lease that is free.
Release(L, s) ==
  LET R == RemoveWaiter(Fresh(L, s, "none"), s)
  IN  IF L.status[s] = "none" THEN L
      ELSE GrantNext([R EXCEPT !.holder = IF @ = s THEN NoSession ELSE @])
=============================================================================
