----------------------------- MODULE ChunkStep -----------------------------
(***************************************************************************)
(* A chunk step: read up to Size items, process each, write the outputs,   *)
(* and commit the writes together with the reader's position, the counts   *)
(* and the skips (chunk_runtime.rs, over the PostgreSQL chunk transaction  *)
(* and retry store of postgres.rs).                                        *)
(*                                                                         *)
(* One job instance runs the step in attempts 1, 2, ...; each attempt is a *)
(* process with its own volatile state run[p] over its own durable row     *)
(* row[p], which a restart copies from the attempt before it.  A process   *)
(* may die between any two steps, and with Zombies an operator may recover *)
(* (settle the row of) an attempt whose process is in fact still alive.    *)
(*                                                                         *)
(* An item is its position in the input.  effects counts the business      *)
(* writes of an item that can be seen, saturating at Many; dropped is the  *)
(* items that a committed chunk filtered or skipped.                       *)
(***************************************************************************)
EXTENDS Integers, FiniteSets, Sequences

CONSTANTS
    N,              \* length of the input
    Size,           \* ChunkSize
    MaxAttempts,    \* bound: attempts of the step in one job instance
    RetryLimit, SkipLimit, StateLimit,   \* of the FaultPolicy
    Rules,          \* classifier: phase -> may retry, may skip and how
    Filters,        \* items the processor filters out
    Enlisted,       \* the writer writes in the chunk's own transaction
    FinishChunk,    \* InFlightPolicy::FinishChunk, else RollbackChunk
    Advances,       \* a failed read moves the reader past the failed input
    EarlyClose,     \* the completion policy may close a chunk before Size
    Zombies         \* recovery may settle an attempt that is still running

Items == 1..N
Attempts == 1..MaxAttempts
Phases == {"read", "process", "write"}
Keys == Phases \X (0..N)

(***************************************************************************)
(* FailureCategory, as far as FaultPolicy::decide tells categories apart:  *)
(* one that Rules speaks of (Timeout stands for them), one that no policy  *)
(* may handle (Invariant), and the two that decide takes out first.        *)
(***************************************************************************)
Categories == {"Timeout", "Invariant", "Cancelled", "UnknownCommit"}

Many == 2

(***************************************************************************)
(* The readers that move past a failed input ask not to be retried: the    *)
(* retry would read the next input (jsonl.rs, delimited.rs).               *)
(***************************************************************************)
ASSUME ChunkAssumption ==
    /\ N \in Nat \ {0} /\ Size \in Nat \ {0} /\ MaxAttempts \in Nat \ {0}
    /\ RetryLimit \in Nat /\ SkipLimit \in Nat /\ StateLimit \in Nat \ {0}
    /\ Rules \in [Phases -> [retry : BOOLEAN, skip : {"no", "rollback", "safe"}]]
    /\ Filters \subseteq Items
    /\ {Enlisted, FinishChunk, Advances, EarlyClose, Zombies} \subseteq BOOLEAN
    /\ Advances => ~Rules["read"].retry

VARIABLES
    row,        \* attempt -> its durable step row
    run,        \* attempt -> the volatile state of its process
    stop,       \* attempt -> its stop token
    effects,    \* item -> visible business writes, up to Many
    dropped,    \* items filtered or skipped by a committed chunk
    released    \* <<generation, key>> -> re-invocations, counted to RetryLimit + 1

vars == <<row, run, stop, effects, dropped, released>>

NoKeys == [k \in Keys |-> 0]

(***************************************************************************)
(* The step row: the reader's committed position, the committed counts and *)
(* the retry ordinals reserved since the last commit.                      *)
(***************************************************************************)
Row == [status : {"NONE", "STARTED", "COMPLETED", "FAILED", "STOPPED", "UNKNOWN"},
        pos : 0..N, read : 0..N, written : 0..N, filtered : 0..N,
        skips : 0..N, keys : [Keys -> 0..RetryLimit]]

FreshRow == [status |-> "STARTED", pos |-> 0, read |-> 0, written |-> 0,
             filtered |-> 0, skips |-> 0, keys |-> NoKeys]

(***************************************************************************)
(* ChunkBuffer::new: an empty buffer over the last committed checkpoint.   *)
(***************************************************************************)
NewBuffer(r, base, gen) ==
    [r EXCEPT !.base = base, !.gen = gen, !.ord = base, !.slots = <<>>,
              !.skipped = {}, !.lostReads = {}, !.eoi = FALSE]

(***************************************************************************)
(* execute_chunk_step up to its loop: the streams open at the committed    *)
(* position and the counts and skips so far are inherited from the row.    *)
(***************************************************************************)
Opened(r) ==
    [pc |-> "top", pos |-> r.pos, skips |-> r.skips, base |-> r.read,
     gen |-> r.pos, ord |-> r.read, slots |-> <<>>, skipped |-> {},
     lostReads |-> {}, eoi |-> FALSE, outs |-> {},
     filtered |-> {}, ask |-> <<"read", 0>>, out |-> "none", lost |-> "no"]

Idle == [Opened(FreshRow) EXCEPT !.pc = "idle"]

(***************************************************************************)
(* What is left of a process that has no buffer any more: its outcome, if  *)
(* it has one, and whether a commit became ambiguous: that of the chunk,   *)
(* whose answer was lost, or one the writer reported (UnknownCommit).      *)
(***************************************************************************)
Gone(r, pc, outcome) == [Idle EXCEPT !.pc = pc, !.out = outcome, !.lost = r.lost]

Init ==
    /\ row = [p \in Attempts |-> IF p = 1 THEN FreshRow
                                          ELSE [FreshRow EXCEPT !.status = "NONE"]]
    /\ run = [p \in Attempts |-> IF p = 1 THEN Opened(FreshRow) ELSE Idle]
    /\ stop = [p \in Attempts |-> FALSE]
    /\ effects = [i \in Items |-> 0]
    /\ dropped = {}
    /\ released = [k \in (0..N) \X Keys |-> 0]

---------------------------------------------------------------------------
(* Shorthands.                                                             *)

Started(p) == row[p].status = "STARTED"

(***************************************************************************)
(* FinishChunk hides the stop request from everything inside an attempt.   *)
(***************************************************************************)
AttemptStop(p) == ~FinishChunk /\ stop[p]

Set(p, r) == run' = [run EXCEPT ![p] = r]

(***************************************************************************)
(* A verdict that ends the step: the transaction is rolled back (or was    *)
(* never open, or is dropped unresolved), the buffer is not used again and *)
(* the outcome goes to finish_failed_attempt.                              *)
(***************************************************************************)
End(r, outcome) == Gone(r, "ending", outcome)

(***************************************************************************)
(* A report between two attempts, which runs no more listeners.            *)
(***************************************************************************)
Report(r, outcome) == [r EXCEPT !.pc = "report", !.out = outcome]

Twice(n) == IF n >= Many THEN Many ELSE n + 1

Visible(S) == [i \in Items |-> IF i \in S THEN Twice(effects[i]) ELSE effects[i]]

\* Mutant: the skips of earlier chunks and attempts are not counted.
ProjectedSkipsLocal(r) == Cardinality(r.skipped) + Cardinality(r.lostReads)

(***************************************************************************)
(* projected_skips: committed skips and those pending in the buffer.       *)
(***************************************************************************)
ProjectedSkips(r) == r.skips + Cardinality(r.skipped) + Cardinality(r.lostReads)

(***************************************************************************)
(* FaultPolicy::decide.  The ordinal is the one reserved durably so far.   *)
(***************************************************************************)
ReservedOrdinal(p, key) == row[p].keys[key]

\* Mutant: one retry too many.
MayRetryInclusive(p, phase, key) ==
    Rules[phase].retry /\ ReservedOrdinal(p, key) <= RetryLimit

MayRetry(p, phase, key) ==
    Rules[phase].retry /\ ReservedOrdinal(p, key) < RetryLimit

MaySkip(p, phase, located, forward) ==
    /\ Rules[phase].skip # "no"
    /\ located
    /\ phase = "read" => forward
    /\ Rules[phase].skip = "safe" => phase # "write" /\ forward
    /\ ProjectedSkips(run[p]) + 1 <= SkipLimit

(***************************************************************************)
(* The decision on a fault and what the phase makes of it: an unknown      *)
(* commit, a stop, a retry request, a skip (skipped is the buffer with the *)
(* item marked), or the failure of the step.  A skip with the rollback     *)
(* disposition replays the chunk at once.                                  *)
(***************************************************************************)
Decide(p, phase, category, key, located, forward, r, skipped) ==
    CASE category = "UnknownCommit" -> End(r, "Unknown")
      [] category = "Cancelled" -> End(r, "Stopped")
      [] category = "Timeout" /\ MayRetry(p, phase, key) ->
            [r EXCEPT !.pc = "retry", !.ask = key]
      [] category = "Timeout" /\ ~MayRetry(p, phase, key)
            /\ MaySkip(p, phase, located, forward) ->
            IF Rules[phase].skip = "rollback" \/ phase = "write"
               THEN [skipped EXCEPT !.pc = "replay"]
               ELSE skipped
      [] OTHER -> End(r, "Failed")

(***************************************************************************)
(* What may follow an error a component returned.  The on_..._error        *)
(* listeners run first, then classify, which runs after_retry before the   *)
(* decision and on_retry_exhausted after it; a failing listener fails the  *)
(* attempt, whatever the category and whatever was decided.  So does the   *)
(* lack of a fault runtime.                                                *)
(***************************************************************************)
Classify(p, phase, category, key, located, forward, r, skipped) ==
    LET told == IF phase = "write" /\ category = "UnknownCommit"
                   THEN [r EXCEPT !.lost = "writer"] ELSE r
    IN  { Decide(p, phase, category, key, located, forward, told, skipped),
          End(told, "Failed") }

(***************************************************************************)
(* The process goes on in one of the ways in which an error may end.       *)
(***************************************************************************)
Faults(p, phase, key, located, forward, r, skipped) ==
    \E category \in Categories :
        \E next \in Classify(p, phase, category, key, located, forward, r, skipped) :
            Set(p, next)

---------------------------------------------------------------------------
(* The chunk loop.                                                         *)

(***************************************************************************)
(* The top of run_chunk_loop and the start of run_attempt.  A stop is seen *)
(* here whatever the in-flight policy.  A listener, an unavailable store,  *)
(* a row that is no longer STARTED, or commit-safe skips without an        *)
(* enlisted writer, fails the attempt.                                     *)
(***************************************************************************)
Unsupported == ~Enlisted /\ \E phase \in Phases : Rules[phase].skip = "safe"

BeginChunk(p) ==
    /\ run[p].pc = "top"
    /\ \/ stop[p] /\ Set(p, Report(run[p], "Stopped"))
       \/ ~stop[p] /\ Set(p, End(run[p], "Failed"))
       \/ /\ ~stop[p] /\ Started(p) /\ ~Unsupported
          /\ Set(p, [run[p] EXCEPT !.pc = "read", !.outs = {}, !.filtered = {}])
    /\ UNCHANGED <<row, stop, effects, dropped, released>>

(***************************************************************************)
(* The read phase.  The loop goes on until the chunk is full, the input    *)
(* has ended, or the completion policy closes a chunk with an item in it.  *)
(***************************************************************************)
ChunkFull(p) == run[p].eoi \/ Len(run[p].slots) >= Size

ReadItem(p) ==
    LET r == run[p] IN
    /\ r.pc = "read" /\ ~ChunkFull(p) /\ ~AttemptStop(p)
    /\ IF r.pos = N
          THEN Set(p, [r EXCEPT !.eoi = TRUE])
          ELSE Set(p, [r EXCEPT !.slots = Append(@, [item |-> r.pos + 1, ord |-> r.ord]),
                                !.pos = @ + 1, !.ord = @ + 1])
    /\ UNCHANGED <<row, stop, effects, dropped, released>>

ReadFault(p) ==
    LET r == run[p]
        key == <<"read", r.ord>>
        after == [r EXCEPT !.pos = IF Advances THEN @ + 1 ELSE @]
        skipped == [after EXCEPT !.ord = @ + 1, !.lostReads = @ \cup {r.pos + 1}]
    IN  /\ r.pc = "read" /\ ~ChunkFull(p) /\ ~AttemptStop(p) /\ r.pos < N
        /\ Faults(p, "read", key, Advances, Advances, after, skipped)
        /\ UNCHANGED <<row, stop, effects, dropped, released>>

\* Mutant: a chunk that only skipped inputs is taken for an empty one.
EndReadEager(p) ==
    LET r == run[p] IN
    /\ r.pc = "read"
    /\ ChunkFull(p) \/ (EarlyClose /\ r.slots # <<>>)
    /\ IF r.slots = <<>> /\ r.eoi
          THEN Set(p, End(r, "Completed"))
          ELSE Set(p, [r EXCEPT !.pc = "process"])
    /\ UNCHANGED <<row, stop, effects, dropped, released>>

EndRead(p) ==
    LET r == run[p] IN
    /\ r.pc = "read"
    /\ ChunkFull(p) \/ (EarlyClose /\ r.slots # <<>>)
    /\ IF r.slots = <<>> /\ r.eoi /\ r.lostReads = {}
          THEN Set(p, End(r, "Completed"))
          ELSE Set(p, [r EXCEPT !.pc = "process"])
    /\ UNCHANGED <<row, stop, effects, dropped, released>>

(***************************************************************************)
(* The process phase, one call per slot that is not skipped, in order.  A  *)
(* replay starts again from the first slot.                                *)
(***************************************************************************)
ToProcess(p) ==
    {k \in DOMAIN run[p].slots :
        run[p].slots[k].item \notin run[p].skipped \cup run[p].outs \cup run[p].filtered}

NextSlot(p) == run[p].slots[CHOOSE k \in ToProcess(p) : \A j \in ToProcess(p) : k <= j]

ProcessItem(p) ==
    LET r == run[p]
        i == NextSlot(p).item
    IN  /\ r.pc = "process" /\ ToProcess(p) # {} /\ ~AttemptStop(p)
        /\ IF i \in Filters THEN Set(p, [r EXCEPT !.filtered = @ \cup {i}])
                            ELSE Set(p, [r EXCEPT !.outs = @ \cup {i}])
        /\ UNCHANGED <<row, stop, effects, dropped, released>>

ProcessFault(p) ==
    LET r == run[p]
        slot == NextSlot(p)
        skipped == [r EXCEPT !.skipped = @ \cup {slot.item}]
    IN  /\ r.pc = "process" /\ ToProcess(p) # {} /\ ~AttemptStop(p)
        /\ Faults(p, "process", <<"process", slot.ord>>, TRUE, TRUE, r, skipped)
        /\ UNCHANGED <<row, stop, effects, dropped, released>>

EndProcess(p) ==
    /\ run[p].pc = "process" /\ ToProcess(p) = {}
    /\ Set(p, [run[p] EXCEPT !.pc = "write"])
    /\ UNCHANGED <<row, stop, effects, dropped, released>>

(***************************************************************************)
(* The write phase: one call with every output, then the streams hand over *)
(* their state.  A writer outside the transaction is visible at once, and  *)
(* a failed one may have let through some of the batch.                    *)
(***************************************************************************)
WriteBatch(p) ==
    LET r == run[p] IN
    /\ r.pc = "write" /\ (r.outs = {} \/ ~AttemptStop(p))
    /\ Set(p, [r EXCEPT !.pc = "commit"])
    /\ effects' = IF Enlisted THEN effects ELSE Visible(r.outs)
    /\ UNCHANGED <<row, stop, dropped, released>>

WriteFault(p) ==
    LET r == run[p]
        key == <<"write", r.base>>
        skipped(i) == [r EXCEPT !.skipped = @ \cup {i}]
    IN  /\ r.pc = "write" /\ r.outs # {} /\ ~AttemptStop(p)
        /\ \/ \E i \in r.outs :
                /\ Faults(p, "write", key, TRUE, FALSE, r, skipped(i))
                /\ \E S \in SUBSET (r.outs \ {i}) :
                      effects' = IF Enlisted THEN effects ELSE Visible(S)
           \/ /\ Faults(p, "write", key, FALSE, FALSE, r, r)
              /\ \E S \in SUBSET r.outs :
                    effects' = IF Enlisted THEN effects ELSE Visible(S)
        /\ UNCHANGED <<row, stop, dropped, released>>

(***************************************************************************)
(* Before each call a stop that the policy lets through ends the attempt,  *)
(* and a component may answer by itself that it has stopped (ReadOutcome,  *)
(* ProcessOutcome, WriteOutcome::Stopped).  A composite writer stops after *)
(* any of its delegates.                                                   *)
(***************************************************************************)
ReadStops(p) ==
    /\ run[p].pc = "read" /\ ~ChunkFull(p)
    /\ Set(p, End(run[p], "Stopped"))
    /\ UNCHANGED <<row, stop, effects, dropped, released>>

ProcessStops(p) ==
    /\ run[p].pc = "process" /\ ToProcess(p) # {}
    /\ Set(p, End(run[p], "Stopped"))
    /\ UNCHANGED <<row, stop, effects, dropped, released>>

WriteStops(p) ==
    /\ run[p].pc = "write" /\ run[p].outs # {}
    /\ Set(p, End(run[p], "Stopped"))
    /\ \E S \in SUBSET run[p].outs :
          effects' = IF Enlisted THEN effects ELSE Visible(S)
    /\ UNCHANGED <<row, stop, dropped, released>>

(***************************************************************************)
(* A failure that no component reported as an error: an item listener      *)
(* around a call that succeeded, the completion policy, a stream update, a *)
(* skip callback or the commit statement.  The transaction rolls back.     *)
(***************************************************************************)
AttemptFails(p) ==
    /\ run[p].pc \in {"read", "process", "write", "commit"}
    /\ Set(p, End(run[p], "Failed"))
    /\ UNCHANGED <<row, stop, effects, dropped, released>>

---------------------------------------------------------------------------
(* The commit.                                                             *)

\* Mutant: the commit does not look at the status of the row.
CommitUnfenced(p) == TRUE

(***************************************************************************)
(* commit_with_component_state: the business writes, the counts, the       *)
(* skips, the reader's position and the cleared retry keys in one          *)
(* transaction, on a row that is still STARTED (at the version the         *)
(* transaction read, which moves with the status).                         *)
(***************************************************************************)
CommitAllowed(p) == Started(p)

\* Mutant: the commit leaves the reader's position out.
CommittedRowStale(p) ==
    LET r == run[p] IN
    [row[p] EXCEPT !.read = @ + Len(r.slots),
                   !.written = @ + Cardinality(r.outs),
                   !.filtered = @ + Cardinality(r.filtered),
                   !.skips = @ + Cardinality(r.skipped) + Cardinality(r.lostReads),
                   !.keys = NoKeys]

\* Mutant: the commit does not add the skips.
CommittedRowNoSkips(p) ==
    LET r == run[p] IN
    [row[p] EXCEPT !.pos = r.pos, !.read = @ + Len(r.slots),
                   !.written = @ + Cardinality(r.outs),
                   !.filtered = @ + Cardinality(r.filtered),
                   !.keys = NoKeys]

CommittedRow(p) ==
    LET r == run[p] IN
    [row[p] EXCEPT !.pos = r.pos, !.read = @ + Len(r.slots),
                   !.written = @ + Cardinality(r.outs),
                   !.filtered = @ + Cardinality(r.filtered),
                   !.skips = @ + Cardinality(r.skipped) + Cardinality(r.lostReads),
                   !.keys = NoKeys]

ApplyCommit(p) ==
    LET r == run[p] IN
    /\ row' = [row EXCEPT ![p] = CommittedRow(p)]
    /\ effects' = IF Enlisted THEN Visible(r.outs) ELSE effects
    /\ dropped' = dropped \cup r.skipped \cup r.lostReads \cup r.filtered

CommitChunk(p) ==
    LET r == run[p] IN
    /\ r.pc = "commit" /\ CommitAllowed(p)
    /\ ApplyCommit(p)
    /\ Set(p, [r EXCEPT !.pc = "committed", !.skips = ProjectedSkips(r)])
    /\ UNCHANGED <<stop, released>>

(***************************************************************************)
(* The answer to COMMIT is lost: the commit may or may not have happened.  *)
(***************************************************************************)
CommitLost(p) ==
    /\ run[p].pc = "commit" /\ CommitAllowed(p)
    /\ ApplyCommit(p) \/ UNCHANGED <<row, effects, dropped>>
    /\ Set(p, [End(run[p], "Unknown") EXCEPT !.lost = "commit"])
    /\ UNCHANGED <<stop, released>>

(***************************************************************************)
(* After a commit: a new buffer, the completion callback (which may stop   *)
(* or fail the step), the after listeners.                                 *)
(***************************************************************************)
AfterCommit(p) ==
    LET r == run[p]
        next == NewBuffer(r, r.base + Len(r.slots), r.pos)
    IN  /\ r.pc = "committed"
        /\ \/ \E outcome \in {"Stopped", "Failed"} : Set(p, Report(next, outcome))
           \/ ~stop[p] /\ r.eoi /\ Set(p, Report(next, "Completed"))
           \/ ~stop[p] /\ ~r.eoi /\ Set(p, [next EXCEPT !.pc = "top"])
        /\ UNCHANGED <<row, stop, effects, dropped, released>>

---------------------------------------------------------------------------
(* Retry and replay.                                                       *)

(***************************************************************************)
(* FaultStateEnvelope::reserved under PostgresFaultState::reserve: the     *)
(* next ordinal of the key, on a STARTED row, within the key capacity.     *)
(***************************************************************************)
UsedKeys(p) == {k \in Keys : row[p].keys[k] > 0}

\* Mutant: a reservation does not look at the status of the row.
MayReserveUnfenced(p, key) ==
    key \in UsedKeys(p) \/ Cardinality(UsedKeys(p)) < StateLimit

MayReserve(p, key) ==
    /\ Started(p)
    /\ key \in UsedKeys(p) \/ Cardinality(UsedKeys(p)) < StateLimit

\* Mutant: the reservation is not stored.
ReservedRowForgetful(p, key) == row[p]

ReservedRow(p, key) == [row[p] EXCEPT !.keys[key] = @ + 1]

(***************************************************************************)
(* schedule_retry to the reservation.  A refused or unanswered reservation *)
(* fails the step; an unanswered one may have been made.                   *)
(***************************************************************************)
ReserveRetry(p) ==
    LET r == run[p] IN
    /\ r.pc = "retry"
    /\ \/ AttemptStop(p) /\ Set(p, End(r, "Stopped")) /\ UNCHANGED row
       \/ ~AttemptStop(p) /\ Set(p, End(r, "Failed")) /\ UNCHANGED row
       \/ /\ ~AttemptStop(p) /\ MayReserve(p, r.ask)
          /\ row' = [row EXCEPT ![p] = ReservedRow(p, r.ask)]
          /\ \E pc \in {"backoff", "ending"} :
                Set(p, IF pc = "ending" THEN End(r, "Failed") ELSE [r EXCEPT !.pc = pc])
    /\ UNCHANGED <<stop, effects, dropped, released>>

(***************************************************************************)
(* The rest of schedule_retry: before_retry listeners and the backoff,     *)
(* which a visible stop cuts short.                                        *)
(***************************************************************************)
Backoff(p) ==
    LET r == run[p] IN
    /\ r.pc = "backoff"
    /\ \/ AttemptStop(p) /\ Set(p, End(r, "Stopped")) /\ UNCHANGED released
       \/ Set(p, End(r, "Failed")) /\ UNCHANGED released
       \/ /\ ~AttemptStop(p) /\ Set(p, [r EXCEPT !.pc = "replay"])
          /\ released' = [released EXCEPT ![<<r.gen, r.ask>>] =
                                IF @ > RetryLimit THEN @ ELSE @ + 1]
    /\ UNCHANGED <<row, stop, effects, dropped>>

\* Mutant: the buffer is dropped although the reader has moved on.
ReplayFresh(p) ==
    LET r == run[p] IN
    /\ r.pc = "replay"
    /\ \/ Set(p, [NewBuffer(r, r.base, r.gen) EXCEPT !.pc = "top"])
       \/ Set(p, End(r, "Failed"))
    /\ UNCHANGED <<row, stop, effects, dropped, released>>

(***************************************************************************)
(* record_rolled_back_attempt, then the loop again over the same buffer.   *)
(***************************************************************************)
Replay(p) ==
    LET r == run[p] IN
    /\ r.pc = "replay"
    /\ Set(p, [r EXCEPT !.pc = "top"]) \/ Set(p, End(r, "Failed"))
    /\ UNCHANGED <<row, stop, effects, dropped, released>>

---------------------------------------------------------------------------
(* The end of an attempt, crashes, recovery and restart.                   *)

\* Mutant: a listener failure replaces an unknown outcome as well.
FinalOutcomesListenersWin(r) == IF r.pc = "report" THEN {r.out} ELSE {r.out, "Failed"}

(***************************************************************************)
(* finish_failed_attempt: a failing after listener turns every outcome but *)
(* Unknown into a failure.                                                 *)
(***************************************************************************)
FinalOutcomes(r) ==
    IF r.pc = "report" \/ r.out = "Unknown" THEN {r.out} ELSE {r.out, "Failed"}

StatusOf(outcome) ==
    CASE outcome = "Completed" -> "COMPLETED"
      [] outcome = "Stopped"   -> "STOPPED"
      [] outcome = "Failed"    -> "FAILED"
      [] outcome = "Unknown"   -> "UNKNOWN"

(***************************************************************************)
(* The step runtime stores the outcome, unless the row was settled.        *)
(***************************************************************************)
FinishAttempt(p) ==
    /\ run[p].pc \in {"ending", "report"}
    /\ \E outcome \in FinalOutcomes(run[p]) :
          /\ Set(p, Gone(run[p], "done", outcome))
          /\ row' = IF Started(p) THEN [row EXCEPT ![p].status = StatusOf(outcome)] ELSE row
    /\ stop' = [stop EXCEPT ![p] = FALSE]
    /\ UNCHANGED <<effects, dropped, released>>

RequestStop(p) ==
    /\ run[p].pc \notin {"idle", "done", "dead"} /\ ~stop[p]
    /\ stop' = [stop EXCEPT ![p] = TRUE]
    /\ UNCHANGED <<row, run, effects, dropped, released>>

Crash(p) ==
    /\ run[p].pc \notin {"idle", "done", "dead"}
    /\ Set(p, Gone(run[p], "dead", "none"))
    /\ stop' = [stop EXCEPT ![p] = FALSE]
    /\ UNCHANGED <<row, effects, dropped, released>>

(***************************************************************************)
(* Recovery settles an attempt that left no terminal status, on evidence   *)
(* that its process is gone (which with Zombies may be wrong).             *)
(***************************************************************************)
Recover(p) ==
    /\ \/ Started(p) /\ (Zombies \/ run[p].pc = "dead")
       \/ row[p].status = "UNKNOWN"
    /\ row' = [row EXCEPT ![p].status = "FAILED"]
    /\ UNCHANGED <<run, stop, effects, dropped, released>>

\* Mutant: a restart begins with no reserved retries.
CopiedRowNoKeys(p) == [row[p] EXCEPT !.status = "STARTED", !.keys = NoKeys]

(***************************************************************************)
(* create_step_execution with a restart source copies the row forward.     *)
(***************************************************************************)
CopiedRow(p) == [row[p] EXCEPT !.status = "STARTED"]

(***************************************************************************)
(* A restart reads the row alone: the report of a process that has ended   *)
(* is forgotten with it.                                                   *)
(***************************************************************************)
Forgotten(r) == IF r.pc \in {"done", "dead"} THEN [Idle EXCEPT !.pc = "done"] ELSE r

Restart(p) ==
    /\ p + 1 \in Attempts
    /\ row[p].status \in {"FAILED", "STOPPED"} /\ row[p + 1].status = "NONE"
    /\ row' = [row EXCEPT ![p + 1] = CopiedRow(p)]
    /\ run' = [run EXCEPT ![p] = Forgotten(@), ![p + 1] = Opened(CopiedRow(p))]
    /\ UNCHANGED <<stop, effects, dropped, released>>

Work(p) ==
    \/ BeginChunk(p) \/ ReadItem(p) \/ ReadFault(p) \/ EndRead(p)
    \/ ProcessItem(p) \/ ProcessFault(p) \/ EndProcess(p)
    \/ WriteBatch(p) \/ WriteFault(p)
    \/ ReadStops(p) \/ ProcessStops(p) \/ WriteStops(p) \/ AttemptFails(p)
    \/ CommitChunk(p) \/ CommitLost(p) \/ AfterCommit(p)
    \/ ReserveRetry(p) \/ Backoff(p) \/ Replay(p) \/ FinishAttempt(p)

Next ==
    \E p \in Attempts :
        Work(p) \/ RequestStop(p) \/ Crash(p) \/ Recover(p) \/ Restart(p)

Spec == Init /\ [][Next]_vars

(***************************************************************************)
(* The same without stop requests, for the larger instances.               *)
(***************************************************************************)
UnstoppedNext ==
    \E p \in Attempts : Work(p) \/ Crash(p) \/ Recover(p) \/ Restart(p)

UnstoppedSpec == Init /\ [][UnstoppedNext]_vars

(***************************************************************************)
(* Every call the step makes returns, so a process that is not killed goes *)
(* on; nothing obliges a stop, a crash, a recovery or a restart to happen. *)
(***************************************************************************)
FairSpec == Spec /\ \A p \in Attempts : WF_vars(Work(p))

---------------------------------------------------------------------------
(* Properties.                                                             *)

Run == [pc : {"idle", "top", "read", "process", "write", "commit", "committed",
              "retry", "backoff", "replay", "ending", "report", "done", "dead"},
        pos : 0..N, skips : 0..N, base : 0..N, gen : 0..N, ord : 0..N,
        slots : UNION {[1..k -> [item : Items, ord : 0..N]] : k \in 0..Size},
        skipped : SUBSET Items, lostReads : SUBSET Items, eoi : BOOLEAN,
        outs : SUBSET Items, filtered : SUBSET Items,
        ask : Keys, out : {"none", "Completed", "Stopped", "Failed", "Unknown"},
        lost : {"no", "commit", "writer"}]

(***************************************************************************)
(* Rows, runs, effects and ghosts stay in their types; in particular no    *)
(* retry ordinal passes the limit and no slot vector passes the chunk size.*)
(***************************************************************************)
ChunkTypeOK ==
    /\ row \in [Attempts -> Row]
    /\ \A p \in Attempts : run[p] \in Run
    /\ stop \in [Attempts -> BOOLEAN]
    /\ effects \in [Items -> 0..Many]
    /\ dropped \subseteq Items

LastAttempt ==
    CHOOSE p \in Attempts :
        row[p].status # "NONE" /\ \A q \in Attempts : row[q].status # "NONE" => q <= p

Last == row[LastAttempt]

(***************************************************************************)
(* With a writer in the chunk's transaction (commit_with_component_state), *)
(* every item before the committed position has been written exactly once  *)
(* or was filtered or skipped by a committed chunk, and no item after it   *)
(* has been touched: over replays, lost commits, crashes, restarts, and an *)
(* attempt that goes on running after recovery gave it up.                 *)
(***************************************************************************)
ExactlyOnce ==
    Enlisted => \A i \in Items :
        effects[i] = IF i <= Last.pos /\ i \notin dropped THEN 1 ELSE 0

(***************************************************************************)
(* With a writer outside the transaction (AtLeastOnce) items may be        *)
(* written again, but none before the committed position was never         *)
(* written, unless a committed chunk filtered or skipped it.               *)
(***************************************************************************)
NothingLost ==
    \A i \in Items : i <= Last.pos /\ i \notin dropped => effects[i] >= 1

(***************************************************************************)
(* The durable counts of the newest row account for every input the        *)
(* committed position has passed: written, filtered or skipped, across all *)
(* attempts of the step.                                                   *)
(***************************************************************************)
CountsAccount ==
    /\ Last.filtered + Last.skips = Cardinality(dropped)
    /\ Last.written + Last.filtered + Last.skips = Last.pos

(***************************************************************************)
(* The committed skips of a step never pass SkipLimit over all its         *)
(* attempts: decide_skip counts what is inherited, what was committed and  *)
(* what is pending in the buffer.                                          *)
(***************************************************************************)
SkipBudget == Last.skips <= SkipLimit

(***************************************************************************)
(* A retry key is re-invoked at most RetryLimit times over all attempts,   *)
(* because the ordinal is reserved durably before the backoff and copied   *)
(* to a restart.                                                           *)
(***************************************************************************)
RetryBudget == \A k \in DOMAIN released : released[k] <= RetryLimit

(***************************************************************************)
(* An attempt that lost the answer to its COMMIT reports Unknown, whatever *)
(* its listeners and the completion policy do afterwards (commit_attempt,  *)
(* finish_failed_attempt).                                                 *)
(***************************************************************************)
AmbiguityKept ==
    \A p \in Attempts :
        run[p].lost = "commit" /\ run[p].pc = "done" => run[p].out = "Unknown"

(***************************************************************************)
(* What the fault contract says of an UnknownCommit that the writer        *)
(* reports (write_phase, classify): the step always ends Unknown.          *)
(***************************************************************************)
ReportedIsUnknown ==
    \A p \in Attempts :
        run[p].lost = "writer" /\ run[p].pc = "done" => run[p].out = "Unknown"

(***************************************************************************)
(* A COMPLETED step has committed every input: an empty final chunk, an    *)
(* end of input seen in a chunk that was then replayed, or a restart after *)
(* the last commit never completes early.                                  *)
(***************************************************************************)
CompletedMeansAll ==
    \A p \in Attempts : row[p].status = "COMPLETED" => row[p].pos = N

(***************************************************************************)
(* However often the components fail, an attempt that is not killed ends:  *)
(* retries use up ordinals and skips use up items and budget, so replaying *)
(* a chunk cannot go on for ever.                                          *)
(***************************************************************************)
AttemptEnds ==
    \A p \in Attempts :
        run[p].pc # "idle" ~> run[p].pc \in {"done", "dead"}

(***************************************************************************)
(* What the shutdown contract says of FinishChunk: a step that is stopped  *)
(* has committed the chunk it had open.                                    *)
(***************************************************************************)
StoppedAtBoundary ==
    \A p \in Attempts :
        FinishChunk /\ run[p].pc = "report" /\ run[p].out = "Stopped" =>
            run[p].slots = <<>> /\ run[p].lostReads = {}
=============================================================================
