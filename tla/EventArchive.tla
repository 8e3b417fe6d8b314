---------------------------- MODULE EventArchive ----------------------------
(***************************************************************************)
(* The archive of analysed events in one server process (archive_s3.py)    *)
(* and the pool that delivers its batches (dispatch.py).  Every analysis   *)
(* runs archive() in its own thread: it counts the event against the day's *)
(* budget, buffers it, and detaches the buffer when that is full; a        *)
(* flusher detaches what is old; a detached batch takes a slot of the pool *)
(* or is dropped.  A clean shutdown ships the buffers itself; the scans of *)
(* the background threads go on meanwhile.                                 *)
(***************************************************************************)
EXTENDS Naturals, FiniteSets

CONSTANTS
    Events,
    OrgOf,        \* OrgOf[e]: the organization event e is of
    FlushAt,      \* the events that fill a buffer (archive_flush_kb)
    DailyCap,     \* the events an organization may archive in a day
    Slots,        \* the jobs the pool takes (workers and queue)
    MaxDay        \* bound: midnights

BudgetAssumption ==
    /\ IsFiniteSet(Events)
    /\ FlushAt \in Nat \ {0} /\ DailyCap \in Nat /\ Slots \in Nat \ {0} /\ MaxDay \in Nat

Orgs == {OrgOf[e] : e \in Events}
Days == 0 .. MaxDay

VARIABLES
    day,
    thread,     \* thread[e]: where the thread of event e is
    today,      \* today[e]: the date it read
    spent,      \* spent[o]: the days that have a counter, and what was counted
    buffer,     \* buffer[o]: the events waiting for more
    detached,   \* the batches on their way to the pool
    jobs,       \* the batches in the pool
    others,     \* the slots that alerts, mails and SIEM posts take
    free,       \* the free slots
    stored, refused, dropped, lost,   \* what became of the events
    phase,      \* serving, flushed, or stopped
    late,       \* history: events that flush_all came too late or too early for
    killed,     \* history: the process did not end by itself
    admitted,   \* history: what was let through for each organization and day
    straggled   \* history: a counter was dropped or started by a thread of an older day

archiveVars == <<day, thread, today, spent, buffer, detached, jobs, others, free,
                 stored, refused, dropped, lost, phase, late, killed, admitted, straggled>>

TypeOK ==
    /\ day \in Days
    /\ thread \in [Events -> {"none", "dated", "counted", "over"}]
    /\ today \in [Events -> Days]
    /\ \A o \in Orgs : \A d \in Days : spent[o][d] \in 0 .. DailyCap
    /\ \A o \in Orgs : buffer[o] \subseteq {e \in Events : OrgOf[e] = o}
    /\ \A b \in detached \cup jobs : b # {} /\ b \subseteq Events
    /\ others \in 0 .. Slots /\ free \in 0 .. Slots
    /\ stored \cup refused \cup dropped \cup lost \subseteq Events
    /\ phase \in {"serving", "flushed", "stopped"}

Init ==
    /\ day = 0
    /\ thread = [e \in Events |-> "none"] /\ today = [e \in Events |-> 0]
    /\ spent = [o \in Orgs |-> [d \in Days |-> 0]]
    /\ buffer = [o \in Orgs |-> {}]
    /\ detached = {} /\ jobs = {} /\ others = 0 /\ free = Slots
    /\ stored = {} /\ refused = {} /\ dropped = {} /\ lost = {}
    /\ phase = "serving" /\ late = {} /\ killed = FALSE
    /\ admitted = [o \in Orgs |-> [d \in Days |-> 0]] /\ straggled = FALSE

outcomes  == <<stored, refused, dropped, lost>>
budget    == <<spent, admitted, straggled>>
histories == <<late, killed>>

Running == phase # "stopped"

\* archive() has formatted the event, and reads the date.
ReadDate(e) ==
    /\ Running /\ thread[e] = "none"
    /\ thread' = [thread EXCEPT ![e] = "dated"]
    /\ today' = [today EXCEPT ![e] = day]
    /\ UNCHANGED <<day, budget, buffer, detached, jobs, others, free, outcomes, phase, histories>>

(***************************************************************************)
(* Under the lock, with the date read before it: the counters of any other *)
(* day are dropped, of every organization, and the event is counted if     *)
(* there is room.                                                          *)
(***************************************************************************)
CountEvent(e) ==
    LET o == OrgOf[e]
        d == today[e]
        kept == [p \in Orgs |-> [c \in Days |-> IF c = d THEN spent[p][c] ELSE 0]]
    IN  /\ Running /\ thread[e] = "dated"
        /\ straggled' = (straggled \/ \E p \in Orgs, c \in Days : c > d /\ admitted[p][c] > 0)
        /\ IF kept[o][d] >= DailyCap
           THEN /\ spent' = kept
                /\ thread' = [thread EXCEPT ![e] = "over"]
                /\ refused' = refused \cup {e}
                /\ UNCHANGED admitted
           ELSE /\ spent' = [kept EXCEPT ![o][d] = @ + 1]
                /\ thread' = [thread EXCEPT ![e] = "counted"]
                /\ admitted' = [admitted EXCEPT ![o][d] = @ + 1]
                /\ UNCHANGED refused
        /\ UNCHANGED <<day, today, buffer, detached, jobs, others, free, stored, dropped, lost,
                       phase, histories>>

\* Under the lock again: into the buffer, and the full buffer is detached.
BufferEvent(e) ==
    LET o == OrgOf[e]
        b == buffer[o] \cup {e}
    IN  /\ Running /\ thread[e] = "counted"
        /\ thread' = [thread EXCEPT ![e] = "over"]
        /\ IF Cardinality(b) >= FlushAt
           THEN buffer' = [buffer EXCEPT ![o] = {}] /\ detached' = detached \cup {b}
           ELSE buffer' = [buffer EXCEPT ![o] = b] /\ UNCHANGED detached
        /\ late' = IF phase = "flushed" THEN late \cup {e} ELSE late
        /\ UNCHANGED <<day, today, budget, jobs, others, free, outcomes, phase, killed>>

\* The flusher finds a buffer that is old enough.
FlushOld(o) ==
    /\ Running /\ buffer[o] # {}
    /\ detached' = detached \cup {buffer[o]}
    /\ buffer' = [buffer EXCEPT ![o] = {}]
    /\ UNCHANGED <<day, thread, today, budget, jobs, others, free, outcomes, phase, histories>>

\* dispatch.submit with a free slot; after flush_all the executor may refuse.
Submit(b) ==
    /\ Running /\ b \in detached
    /\ detached' = detached \ {b}
    /\ \/ /\ free > 0
          /\ free' = free - 1 /\ jobs' = jobs \cup {b}
          /\ UNCHANGED dropped
       \/ /\ free = 0 \/ phase = "flushed"
          /\ dropped' = dropped \cup b
          /\ UNCHANGED <<free, jobs>>
    /\ UNCHANGED <<day, thread, today, budget, buffer, others, stored, refused, lost, phase, histories>>

\* Mutant of PutBatch: the slot is given back only after a put that succeeds.
PutBatchNoFinally(b) ==
    /\ Running /\ b \in jobs
    /\ jobs' = jobs \ {b}
    /\ \/ stored' = stored \cup b /\ free' = free + 1 /\ UNCHANGED dropped
       \/ dropped' = dropped \cup b /\ UNCHANGED <<free, stored>>
    /\ UNCHANGED <<day, thread, today, budget, buffer, detached, others, refused, lost, phase, histories>>

\* A put succeeds or fails; either way it is counted and gives its slot back.
PutBatch(b) ==
    /\ Running /\ b \in jobs
    /\ jobs' = jobs \ {b} /\ free' = free + 1
    /\ \/ stored' = stored \cup b /\ UNCHANGED dropped
       \/ dropped' = dropped \cup b /\ UNCHANGED stored
    /\ UNCHANGED <<day, thread, today, budget, buffer, detached, others, refused, lost, phase, histories>>

\* An alert, a mail or a SIEM post takes a slot.
SubmitOther ==
    /\ Running /\ free > 0
    /\ free' = free - 1 /\ others' = others + 1
    /\ UNCHANGED <<day, thread, today, budget, buffer, detached, jobs, outcomes, phase, histories>>

OtherDone ==
    /\ Running /\ others > 0
    /\ others' = others - 1 /\ free' = free + 1
    /\ UNCHANGED <<day, thread, today, budget, buffer, detached, jobs, outcomes, phase, histories>>

Midnight ==
    /\ Running /\ day < MaxDay
    /\ day' = day + 1
    /\ UNCHANGED <<thread, today, budget, buffer, detached, jobs, others, free, outcomes, phase, histories>>

Buffered == UNION {buffer[o] : o \in Orgs}

\* The lifespan's end: every buffer is put by the hook itself.
FlushAll ==
    /\ phase = "serving"
    /\ phase' = "flushed"
    /\ buffer' = [o \in Orgs |-> {}]
    /\ \E failed \in SUBSET {buffer[o] : o \in Orgs} :
          /\ stored' = stored \cup (Buffered \ UNION failed)
          /\ dropped' = dropped \cup UNION failed
    /\ late' = late \cup UNION detached
    /\ UNCHANGED <<day, thread, today, budget, detached, jobs, others, free, refused, lost, killed>>

\* The interpreter ends when the pool's jobs have; nothing waits for the flusher.
Exit ==
    /\ phase = "flushed" /\ jobs = {} /\ others = 0
    /\ phase' = "stopped"
    /\ lost' = lost \cup Buffered \cup UNION detached
    /\ buffer' = [o \in Orgs |-> {}] /\ detached' = {}
    /\ UNCHANGED <<day, thread, today, budget, jobs, others, free, stored, refused, dropped, histories>>

\* The instance is killed.
Kill ==
    /\ Running
    /\ phase' = "stopped" /\ killed' = TRUE
    /\ lost' = lost \cup Buffered \cup UNION (detached \cup jobs)
    /\ buffer' = [o \in Orgs |-> {}] /\ detached' = {} /\ jobs' = {}
    /\ UNCHANGED <<day, thread, today, budget, others, free, stored, refused, dropped, late>>

Next ==
    \/ \E e \in Events : ReadDate(e) \/ CountEvent(e) \/ BufferEvent(e)
    \/ \E o \in Orgs : FlushOld(o)
    \/ \E b \in detached : Submit(b)
    \/ \E b \in jobs : PutBatch(b)
    \/ SubmitOther \/ OtherDone \/ Midnight \/ FlushAll \/ Exit \/ Kill

Spec == Init /\ [][Next]_archiveVars

-----------------------------------------------------------------------------
Taken == {e \in Events : thread[e] = "over"}

\* Every event archive() is done with is in one place, and in no other.
InOnePlace ==
    LET places == <<Buffered, UNION detached, UNION jobs, stored, refused, dropped, lost>>
    IN  /\ Taken = UNION {places[k] : k \in 1 .. 7}
        /\ \A j, k \in 1 .. 7 : j # k => places[j] \cap places[k] = {}
        /\ \A b, c \in detached \cup jobs : b # c => b \cap c = {}

\* A slot is free or taken by one job.
SlotsConserved == Running => free + Cardinality(jobs) + others = Slots

\* A process that ends by itself loses only what flush_all could not see.
TailShipped == lost # {} => killed \/ lost \subseteq late

\* The budget of a day holds, unless a thread from before midnight counts after one from after it.
CapHolds == straggled \/ \A o \in Orgs, d \in Days : admitted[o][d] <= DailyCap

(***************************************************************************)
(* Every event is accounted for to the end, the pool's slots are conserved *)
(* whatever fails, a clean shutdown ships what is buffered, and no         *)
(* organization archives more than its daily budget; the exceptions are    *)
(* the events of threads that outlive flush_all and the counters a thread  *)
(* from before midnight drops (archive_s3.py, dispatch.py).                *)
(***************************************************************************)
EventsAccounted == InOnePlace /\ SlotsConserved /\ TailShipped /\ CapHolds

=============================================================================
