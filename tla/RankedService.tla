---------------------------- MODULE RankedService ----------------------------
(***************************************************************************)
(* The ranked service's job queue: one goroutine runs every read and write *)
(* of ratings in order, callers append jobs and poke a wake channel that   *)
(* holds one token.  Translated from internal/ranked/service.go.           *)
(*                                                                         *)
(* The lock is released between appending a job and the poke, and between  *)
(* finding the queue empty and waiting for the token: those are the steps  *)
(* that interleave.  A rating is the number of ranked games in it, which   *)
(* tells every rating of a character apart from its earlier ones.          *)
(***************************************************************************)
EXTENDS Naturals, Sequences

CONSTANTS
    Chars,      \* characters with a rating
    Readers,    \* callers of Load
    StoreFails  \* whether the store may return an error

ASSUME ServiceAssumption == StoreFails \in BOOLEAN

VARIABLES
    queue,      \* Service.queue
    wake,       \* whether Service.wake holds its token
    signals,    \* callers between their unlock and their poke
    closed,     \* Service.closed
    worker,     \* where run is: "looking", "asleep", "working" or "gone"
    job,        \* the job taken off the queue, a sequence of at most one
    db,         \* the ratings in the store
    answer,     \* what each reader's Load returned, <<>> before it does
    unsure      \* the characters with a store access that failed (a history)

serviceVars == <<queue, wake, signals, closed, worker, job, db, answer, unsure>>

\* A job saves the two ratings a duel left (Record), or loads one for a reader
Saves == [a: Chars, b: Chars, ratingA: Nat, ratingB: Nat]
Loads == [reader: Readers, char: Chars]
Jobs == Saves \union Loads

IsSave(j) == "ratingA" \in DOMAIN j

ServiceInit ==
    /\ queue = <<>>
    /\ wake = FALSE
    /\ signals = 0
    /\ closed = FALSE
    /\ worker = "looking"
    /\ job = <<>>
    /\ db = [x \in Chars |-> 0]
    /\ answer = [r \in Readers |-> <<>>]
    /\ unsure = {}

\* enqueue, under the lock; the poke is still to come
Enqueue(j) ==
    /\ queue' = Append(queue, j)
    /\ signals' = signals + 1
    /\ UNCHANGED <<wake, closed, worker, job, db, answer, unsure>>

\* enqueue's and Close's poke: dropped when the token is already there
Signal ==
    /\ signals > 0
    /\ signals' = signals - 1
    /\ wake' = TRUE
    /\ UNCHANGED <<queue, closed, worker, job, db, answer, unsure>>

\* a run that leaves as soon as the service is closed
LookClosed ==
    /\ worker = "looking"
    /\ IF queue # <<>> /\ ~closed
         THEN /\ job' = <<Head(queue)>>
              /\ queue' = Tail(queue)
              /\ worker' = "working"
         ELSE /\ worker' = IF closed THEN "gone" ELSE "asleep"
              /\ UNCHANGED <<queue, job>>
    /\ UNCHANGED <<wake, signals, closed, db, answer, unsure>>

\* run, under the lock: the next job, or the end, or to sleep
Look ==
    /\ worker = "looking"
    /\ IF queue # <<>>
         THEN /\ job' = <<Head(queue)>>
              /\ queue' = Tail(queue)
              /\ worker' = "working"
         ELSE /\ worker' = IF closed THEN "gone" ELSE "asleep"
              /\ UNCHANGED <<queue, job>>
    /\ UNCHANGED <<wake, signals, closed, db, answer, unsure>>

\* run takes the token and looks again
WakeUp ==
    /\ worker = "asleep" /\ wake
    /\ worker' = "looking"
    /\ wake' = FALSE
    /\ UNCHANGED <<queue, signals, closed, job, db, answer, unsure>>

\* A job's access of the store. ApplyRankedDuel stores both ratings or, failing,
\* neither; Load reads one or, failing, returns a new player's.
Access(j, ok) ==
    IF IsSave(j)
      THEN /\ db' = IF ok THEN [db EXCEPT ![j.a] = j.ratingA, ![j.b] = j.ratingB] ELSE db
           /\ unsure' = IF ok THEN unsure ELSE unsure \union {j.a, j.b}
           /\ UNCHANGED answer
      ELSE /\ answer' = [answer EXCEPT ![j.reader] = <<IF ok THEN db[j.char] ELSE 0>>]
           /\ unsure' = IF ok THEN unsure ELSE unsure \union {j.char}
           /\ UNCHANGED db

\* a run that waits for a token after every job
WorkThenSleep(ok) ==
    /\ worker = "working"
    /\ ok \/ StoreFails
    /\ worker' = "asleep"
    /\ job' = <<>>
    /\ Access(job[1], ok)
    /\ UNCHANGED <<queue, wake, signals, closed>>

\* run, off the lock, does the job and looks again
Work(ok) ==
    /\ worker = "working"
    /\ ok \/ StoreFails
    /\ worker' = "looking"
    /\ job' = <<>>
    /\ Access(job[1], ok)
    /\ UNCHANGED <<queue, wake, signals, closed>>

\* Close, under the lock; its poke is still to come
Close ==
    /\ closed' = TRUE
    /\ signals' = signals + 1
    /\ UNCHANGED <<queue, wake, worker, job, db, answer, unsure>>

ServiceStep == Signal \/ Look \/ WakeUp \/ (\E ok \in BOOLEAN : Work(ok))

\* The service among callers that may queue any job, and close it once
ServiceNext ==
    \/ ServiceStep
    \/ \E j \in Jobs : ~closed /\ Enqueue(j)
    \/ ~closed /\ Close

ServiceSpec == ServiceInit /\ [][ServiceNext]_serviceVars

-----------------------------------------------------------------------------

ServiceTypeOK ==
    /\ queue \in Seq(Jobs)
    /\ wake \in BOOLEAN
    /\ signals \in Nat
    /\ closed \in BOOLEAN
    /\ worker \in {"looking", "asleep", "working", "gone"}
    /\ job \in Seq(Jobs) /\ (worker = "working" <=> Len(job) = 1) /\ Len(job) <= 1
    /\ db \in [Chars -> Nat]
    /\ answer \in [Readers -> Seq(Nat)] /\ \A r \in Readers : Len(answer[r]) <= 1
    /\ unsure \subseteq Chars

\* The worker never sleeps through a job, nor through Close: when there is
\* something for it to see, the token is there or a caller is about to put it.
NoLostWakeup ==
    (worker = "asleep" /\ (queue # <<>> \/ closed)) => (wake \/ signals > 0)
=============================================================================
