------------------------------ MODULE Credential ------------------------------
(***************************************************************************)
(* A rotating OAuth2 credential of the broker daemon: one record on disk    *)
(* (secrets/oauth2.rs), the authorized resolutions that use it, the         *)
(* scheduler that keeps it alive while nobody does (refresh_scheduler.rs),  *)
(* the token endpoint, the operator who provides seeds, and the process     *)
(* that may die at any point.                                               *)
(*                                                                         *)
(* The endpoint accepts each refresh token once: it answers with the next  *)
(* one, and revokes the whole family when it sees a token it has already    *)
(* replaced.  A family is named by the seed it started from (0: a record    *)
(* enrolled without a seed), a token by its family and its place in it.     *)
(* A request the task no longer waits for, because its deadline passed or   *)
(* the process died, may still be on its way: it reaches the endpoint at    *)
(* any later time, or never.                                                *)
(*                                                                         *)
(* Time enters through the record's age only: "fresh", then "cycle" (the    *)
(* scheduler is due: min(last_refresh + CYCLE, expires_at - BUFFER)), then  *)
(* "expiring" (a resolution is due: expires_at - 60).                       *)
(***************************************************************************)
EXTENDS Naturals, FiniteSets

CONSTANTS Lazy,        \* resolutions that may run at once
          Sched,       \* the scheduler's attempt
          MaxSeeds,    \* bound on seeds the operator provides
          MaxIssues,   \* bound on the tokens the endpoint issues
          MaxFaults,   \* bound on failed reads and saves, refusals, lost replies and crashes
          None

ASSUME CredentialAssumption ==
    /\ Sched \notin Lazy /\ None \notin Lazy \cup {Sched}
    /\ {MaxSeeds, MaxIssues, MaxFaults} \subseteq Nat

VARIABLES record,   \* the record on disk
          seed,     \* the seed at seedPath, 0 when there never was one
          present,  \* whether the seed file is there
          lock,     \* holder of the record's PrivateFileLock
          task,     \* the refresh tasks
          hold,     \* the scheduler's retry map has the record
          newGen,   \* the scheduler has not seen this generation yet
          head,     \* endpoint: per family, the token it accepts
          issued,   \* endpoint: access tokens issued so far
          strays,   \* requests on their way that nobody waits for
          faults,
          lost,     \* history: families with a request whose outcome did not
                    \* reach the record
          reused,   \* history: families of which the endpoint saw a replaced token
          served    \* history: access tokens returned since the record was written

vars == <<record, seed, present, lock, task, hold, newGen, head, issued, strays,
          faults, lost, reused, served>>

broker == <<hold, newGen>>
operator == <<seed, present>>
endpoint == <<head, issued, reused>>

Tasks == Lazy \cup {Sched}
Families == 0 .. MaxSeeds
Places == 0 .. MaxIssues
Ages == {"fresh", "cycle", "expiring"}
Revoked == MaxIssues + 1

\* Access tokens: the enrolled one, those issued, and an enrolled one that
\* repeats a secret (bootstrap_reflected).
Repeating == MaxIssues + 1
Accesses == Places \cup {Repeating}

\* OAuth2Record: live, sealed, or no file.
Records == [state : {"absent", "live", "sealed"}, place : Places, age : Ages,
            access : Accesses, family : Families]
Absent == [state |-> "absent", place |-> 0, age |-> "fresh", access |-> 0,
           family |-> 0]
Live(f, p, a, age) == [state |-> "live", place |-> p, age |-> age, access |-> a,
                       family |-> f]
Sealed(f) == [state |-> "sealed", place |-> 0, age |-> "fresh", access |-> 0,
              family |-> f]

\* A refresh task: the token it presents, and what came of it.  The access
\* token of a reply is the number the endpoint gave it.
Replies == {"none", "issued", "same", "reflected", "reauthorize", "refused"}
TaskRecords == [pc : {"idle", "lock", "post", "reply", "save"}, family : Families,
                place : Places, reply : Replies, access : Places, next : Records]
At(pc, f, p, reply, a, next) ==
    [pc |-> pc, family |-> f, place |-> p, reply |-> reply, access |-> a,
     next |-> next]
Idle == At("idle", 0, 0, "none", 0, Absent)
Waiting == At("lock", 0, 0, "none", 0, Absent)

\* A request nobody waits for, named after the fault that left it behind.
Strays == [id : 1 .. MaxFaults, family : Families, place : Places]

-----------------------------------------------------------------------------
Init ==
    /\ record \in {Absent} \cup {Live(0, 0, a, "fresh") : a \in {0, Repeating}}
    /\ seed = 0 /\ present = FALSE
    /\ lock = None
    /\ task = [t \in Tasks |-> Idle]
    /\ hold = FALSE /\ newGen = TRUE
    /\ head = [f \in Families |-> 0]
    /\ issued = 0 /\ strays = {}
    /\ faults = 0
    /\ lost = {} /\ reused = {}
    /\ served = {}

\* The task ends.  A scheduled attempt that failed puts the record on hold.
Finish(t, ok) ==
    /\ task' = [task EXCEPT ![t] = Idle]
    /\ lock' = None
    /\ hold' = IF t = Sched THEN ~ok ELSE hold

Fault == faults < MaxFaults /\ faults' = faults + 1

-----------------------------------------------------------------------------
(* Who asks for a refresh. *)

\* oauth2::resolve_for: an authorized use of the credential.
Resolve(t) ==
    /\ task[t].pc = "idle"
    /\ task' = [task EXCEPT ![t] = Waiting]
    /\ UNCHANGED <<record, lock, broker, operator, endpoint, strays, faults, lost, served>>

\* Mutant: a record that nobody refreshed in time is no longer due.
ScheduleDueOnce == record.state = "live" /\ record.age = "cycle"

\* oauth2::due_at, read without the lock, for the scheduler.
ScheduleDue == record.state = "live" /\ record.age # "fresh"

\* One tick of refresh_scheduler::serve that attempts a refresh.  A new
\* generation drops the retry map and, on a source with a seed path, attempts
\* whatever the record's age; other ticks skip a record on hold or not due.
Tick ==
    /\ task[Sched].pc = "idle"
    /\ newGen \/ (~hold /\ ScheduleDue)
    /\ newGen' = FALSE /\ hold' = FALSE
    /\ task' = [task EXCEPT ![Sched] = Waiting]
    /\ UNCHANGED <<record, lock, operator, endpoint, strays, faults, lost,
                   served>>

-----------------------------------------------------------------------------
(* One transaction under the record lock: oauth2::run and refresh. *)

\* Mutant: the record's lock is not waited for.
MayAcquireAnyway(t) == lock # t

\* The record's file lock is free.
MayAcquire(t) == lock = None

\* Mutant: a seed that is there is adopted, known or not.
AdoptsPresent == present

\* The seed is adopted when its digest is not the one the record was built from.
Adopts == present /\ ~(record.state # "absent" /\ record.family = seed)

Due(t) == IF t = Sched THEN record.age # "fresh" ELSE record.age = "expiring"

\* Takes the lock, reads the record and the seed, and decides what to present.
Acquire(t) ==
    /\ task[t].pc = "lock" /\ MayAcquire(t)
    /\ \/ /\ Adopts
          /\ lock' = t
          /\ task' = [task EXCEPT ![t] = At("post", seed, 0, "none", 0, Absent)]
          /\ UNCHANGED <<hold, served>>
       \/ /\ ~Adopts /\ record.state = "live" /\ Due(t)
          /\ lock' = t
          /\ task' = [task EXCEPT ![t] = At("post", record.family, record.place,
                                              "none", 0, Absent)]
          /\ UNCHANGED <<hold, served>>
       \/ /\ ~Adopts /\ record.state = "live" /\ ~Due(t) /\ record.access # Repeating
          /\ Finish(t, TRUE)
          /\ served' = IF t = Sched THEN served ELSE served \cup {record.access}
       \/ /\ ~Adopts /\ record.state = "live" /\ ~Due(t) /\ record.access = Repeating
          /\ lock' = t
          /\ task' = [task EXCEPT ![t] = At("save", record.family, record.place,
                                              "none", 0, Sealed(record.family))]
          /\ UNCHANGED <<hold, served>>
       \/ /\ ~Adopts /\ record.state # "live"
          /\ Finish(t, FALSE)
          /\ UNCHANGED served
    /\ UNCHANGED <<record, newGen, operator, endpoint, strays, faults, lost>>

\* The lock, the record or the seed cannot be had: an error, and nothing done.
ReadFails(t) ==
    /\ task[t].pc = "lock" /\ MayAcquire(t) /\ Fault
    /\ Finish(t, FALSE)
    /\ UNCHANGED <<record, newGen, operator, endpoint, strays, lost,
                   served>>

\* The token endpoint handles a request for token p of family f (external).  A
\* current token may be replaced, kept, refused for a while, or answered with an
\* access token that repeats a secret; any other token revokes its family.
Serve(f, p, reply) ==
    \/ /\ reply \in {"issued", "reflected"} /\ p = head[f] /\ issued < MaxIssues
       /\ issued' = issued + 1
       /\ head' = [head EXCEPT ![f] = issued']
       /\ UNCHANGED <<reused, faults>>
    \/ /\ reply = "same" /\ p = head[f] /\ issued < MaxIssues
       /\ issued' = issued + 1
       /\ UNCHANGED <<head, reused, faults>>
    \/ /\ reply = "refused" /\ p = head[f] /\ Fault
       /\ UNCHANGED endpoint
    \/ /\ reply = "reauthorize"
       /\ head' = [head EXCEPT ![f] = Revoked]
       /\ reused' = IF head[f] \in {p, Revoked} THEN reused ELSE reused \cup {f}
       /\ UNCHANGED <<issued, faults>>

\* The request arrives while the task waits for the reply.
Endpoint(t) ==
    /\ task[t].pc = "post"
    /\ \E reply \in Replies :
         /\ Serve(task[t].family, task[t].place, reply)
         /\ task' = [task EXCEPT ![t] = At("reply", task[t].family, task[t].place,
                                             reply, issued', Absent)]
    /\ UNCHANGED <<record, lock, broker, operator, strays, lost, served>>

\* A request that was given up arrives after all; nobody reads the reply.
LateRequest(s) ==
    /\ strays' = strays \ {s}
    /\ \E reply \in Replies : Serve(s.family, s.place, reply)
    /\ UNCHANGED <<record, lock, task, broker, operator, lost, served>>

\* Mutant: every reply makes a live record.
NextRecordUnsealed(t) ==
    Live(task[t].family, head[task[t].family], task[t].access, "fresh")

\* What the reply makes of the record: the replacement, or a seal.  A short
\* expires_in is a record that ages at once.
NextRecord(t) ==
    LET f == task[t].family
        new == task[t].access
    IN CASE task[t].reply = "issued" -> Live(f, new, new, "fresh")
         [] task[t].reply = "same" -> Live(f, task[t].place, new, "fresh")
         [] OTHER -> Sealed(f)

Receive(t) ==
    /\ task[t].pc = "reply"
    /\ IF task[t].reply = "refused"
         THEN Finish(t, FALSE)
         ELSE /\ task' = [task EXCEPT ![t] = At("save", task[t].family, task[t].place,
                                                  task[t].reply, task[t].access,
                                                  NextRecord(t))]
              /\ UNCHANGED <<lock, hold>>
    /\ UNCHANGED <<record, newGen, operator, endpoint, strays, faults, lost, served>>

\* The endpoint has changed the family in a way the record does not know yet.
Rotated(t) ==
    task[t].pc \in {"reply", "save"} /\ task[t].reply \in {"issued", "reflected"}

\* What the task, given up now, leaves behind: a family whose record may be
\* behind the endpoint, and the request that is still on its way.
Uncertain(t) ==
    IF task[t].pc = "post" \/ Rotated(t) THEN {task[t].family} ELSE {}
Astray(t) ==
    IF task[t].pc = "post"
      THEN {[id |-> faults', family |-> task[t].family, place |-> task[t].place]}
      ELSE {}

\* The reply does not arrive within post's timeout, or not whole.  The endpoint
\* has handled the request, or has yet to.
Lose(t) ==
    /\ task[t].pc \in {"post", "reply"} /\ Fault
    /\ lost' = lost \cup Uncertain(t)
    /\ strays' = strays \cup Astray(t)
    /\ Finish(t, FALSE)
    /\ UNCHANGED <<record, newGen, operator, endpoint, served>>

\* save_bytes: a private temporary file renamed over the record, and synced.
Save(t) ==
    LET r == task[t].next
        ok == r.state = "live"
    IN /\ task[t].pc = "save"
       /\ record' = r
       /\ served' = IF ok /\ t # Sched THEN {r.access} ELSE {}
       /\ Finish(t, ok)
       /\ UNCHANGED <<newGen, operator, endpoint, strays, faults, lost>>

\* Mutant: the new access token is returned although it was not saved.
UnsavedAnswerAccess(t) == {task[t].next.access}

\* What a resolution returns whose rotation could not be saved: an error.
UnsavedAnswer(t) == {}

\* The save fails before the rename, or after it (the directory's sync): the
\* resolution is refused either way.
SaveFails(t) ==
    LET r == task[t].next
    IN /\ task[t].pc = "save" /\ Fault
       /\ \/ /\ record' = r /\ served' = UnsavedAnswer(t)
             /\ UNCHANGED lost
          \/ /\ lost' = lost \cup Uncertain(t)
             /\ served' = served \cup UnsavedAnswer(t)
             /\ UNCHANGED record
       /\ Finish(t, FALSE)
       /\ UNCHANGED <<newGen, operator, endpoint, strays>>

-----------------------------------------------------------------------------
(* The environment. *)

\* The operator provides a seed nobody has used, or takes the file away.
Provide ==
    /\ seed < MaxSeeds
    /\ seed' = seed + 1 /\ present' = TRUE
    /\ UNCHANGED <<record, lock, task, broker, endpoint, strays, faults, lost,
                   served>>

TakeAway ==
    /\ present /\ present' = FALSE
    /\ UNCHANGED <<record, seed, lock, task, broker, endpoint, strays, faults, lost, served>>

\* A reload gives the scheduler another catalog.
Reloaded ==
    /\ ~newGen /\ newGen' = TRUE
    /\ UNCHANGED <<record, lock, task, hold, operator, endpoint, strays, faults, lost, served>>

\* Time passes: the record ages, the scheduler's five minutes are over.
Age ==
    /\ record.state = "live" /\ record.age # "expiring"
    /\ record' = [record EXCEPT !.age = IF @ = "fresh" THEN "cycle" ELSE "expiring"]
    /\ UNCHANGED <<lock, task, broker, operator, endpoint, strays, faults, lost,
                   served>>

Retry ==
    /\ hold /\ hold' = FALSE
    /\ UNCHANGED <<record, lock, task, newGen, operator, endpoint, strays,
                   faults, lost, served>>

\* The process dies and starts again; a request on its way stays so.
Crash ==
    /\ Fault
    /\ lost' = lost \cup UNION {Uncertain(t) : t \in Tasks}
    /\ strays' = strays \cup UNION {Astray(t) : t \in Tasks}
    /\ task' = [t \in Tasks |-> Idle]
    /\ lock' = None /\ hold' = FALSE /\ newGen' = TRUE
    /\ UNCHANGED <<record, operator, endpoint, served>>

-----------------------------------------------------------------------------
Step(t) ==
    \/ Acquire(t) \/ ReadFails(t)
    \/ Endpoint(t) \/ Receive(t) \/ Lose(t)
    \/ Save(t) \/ SaveFails(t)

Next ==
    \/ \E t \in Lazy : Resolve(t)
    \/ Tick
    \/ \E t \in Tasks : Step(t)
    \/ \E s \in strays : LateRequest(s)
    \/ Provide \/ TakeAway \/ Reloaded \/ Age \/ Retry \/ Crash

Spec == Init /\ [][Next]_vars

\* The scheduler's loop ticks, five minutes pass, the kernel grants a contended
\* file lock in turn, and a task that holds it is run to its end (the request
\* has a timeout).
Fairness ==
    /\ WF_vars(Tick) /\ WF_vars(Retry)
    /\ SF_vars(Acquire(Sched))
    /\ \A t \in Tasks : WF_vars(Endpoint(t) \/ Receive(t) \/ Save(t))

FairSpec == Spec /\ Fairness

-----------------------------------------------------------------------------
\* Types of the record, the tasks, the endpoint and the histories.
TypeOK ==
    /\ record \in Records
    /\ seed \in Families /\ present \in BOOLEAN
    /\ lock \in Tasks \cup {None}
    /\ task \in [Tasks -> TaskRecords]
    /\ hold \in BOOLEAN /\ newGen \in BOOLEAN
    /\ head \in [Families -> Places \cup {Revoked}]
    /\ issued \in Places /\ strays \subseteq Strays
    /\ faults \in 0 .. MaxFaults
    /\ lost \subseteq Families /\ reused \subseteq Families
    /\ served \subseteq Accesses

\* The endpoint sees a token it has replaced, and revokes its family for it, only
\* in a family of which a request was given up or a reply did not reach the
\* record.  Concurrent resolutions, the scheduler, a seed that is provided
\* meanwhile, and the late requests and lost rotations of other families never
\* make it present a token twice.  In such a family it may: the record still has
\* the old token, or, for a seed, no digest that would tell it was sent
\* (oauth2.rs:500), and the next attempt presents it again.
NeverReused == reused \subseteq lost

\* An access token is returned only after it was saved with its successor: what
\* resolutions return, until the record is written again, is what it holds.
ServedSaved == served # {} => record.state = "live" /\ served = {record.access}

\* While the record is sealed no task turns to the endpoint with a token of the
\* sealed family, its unchanged seed included, and no late save revives it: only
\* a record of another family takes its place.
SealHolds ==
    [][record.state = "sealed" =>
         /\ record' = record \/ record'.family # record.family
         /\ \A t \in Tasks : task[t].pc # "post" /\ task'[t].pc = "post" =>
                               task'[t].family # record.family]_vars

\* A live record that is due for the scheduler is replaced by a fresh one or
\* sealed, although nobody uses it, and whatever failed before.
DueSettles ==
    (record.state = "live" /\ record.age # "fresh")
        ~> (record.state # "live" \/ record.age = "fresh")

=============================================================================
