-------------------------------- MODULE Jobs --------------------------------
(***************************************************************************)
(* dekopon-gatewayd's detached jobs (jobs.rs).  A script's `cmd &` becomes *)
(* a job that outlives its turn.  The table of jobs is bounded, and so are *)
(* the jobs that run.  A job's end is told to a `wait` that holds it, or   *)
(* else by a notice to the conversation that started it.                   *)
(*                                                                         *)
(* The table is behind one mutex: each action is what is done under one    *)
(* hold of it.  The threads of jobs and of waiting scripts, the gateway    *)
(* loop (notices, stop requests) and shutdown interleave between them.     *)
(* Abstracted: texts, output, clocks and traces; how an unstopped job      *)
(* ended (success, failure, deadline, abandoned: all are told the same     *)
(* way); refusals, and the shell's thread budget that may refuse a job.    *)
(***************************************************************************)
EXTENDS Naturals, FiniteSets, Sequences, FiniteSetsExt

CONSTANTS Owners,   \* JobOwner: transport, conversation and subject
          Waits,    \* calls of the `wait` builtin
          Maximum,  \* sessions.maxJobs, also the room in the notice channel
          MaxJobs   \* bound: jobs started over a behaviour

ASSUME JobsAssumption == Maximum \in Nat \ {0} /\ MaxJobs \in Nat

VARIABLES row,      \* Table.rows, by JobId; ids are never reused
          sealed,   \* Table.sealed
          permits,  \* Jobs.permits: those available
          sending,  \* jobs that ended and whose thread is about to notify
          notices,  \* the notice channel
          closed,   \* has the gateway loop dropped the channel's receiver?
          wait,     \* the state of each wait call
          told      \* what the conversation heard: see Told

vars == <<row, sealed, permits, sending, notices, closed, wait, told>>

Ids == 1 .. MaxJobs
Absent == [state |-> "none", owner |-> "none", stop |-> "none", outcome |-> "none",
           waiters |-> 0, waited |-> FALSE]
NoWait == [phase |-> "idle", ids |-> {}, exited |-> {}]

Present == {j \in Ids : row[j].state \in {"running", "finished"}}
Running == {j \in Ids : row[j].state = "running"}
Unused == {j \in Ids : row[j].state = "none"}

\* How a conversation learns of a job's end: by the exit status a wait
\* returned, by a notice, or not at all because its notice was dropped.
Told == {"exit", "notice", "dropped"}

Init ==
  /\ row = [j \in Ids |-> Absent]
  /\ sealed = FALSE
  /\ permits = Maximum
  /\ sending = {} /\ notices = <<>> /\ closed = FALSE
  /\ wait = [w \in Waits |-> NoWait]
  /\ told = [j \in Ids |-> {}]

------------------------------------------------------------------------------
\* Mutant: a finished row is evicted although a wait is reading it.
EvictableAnyway == {j \in Present : row[j].state = "finished"}

Evictable == {j \in Present : row[j].state = "finished" /\ row[j].waiters = 0}

\* Mutant: shutdown does not close the table to new jobs.
MayStartSealed == permits > 0 /\ Unused # {}

MayStart == ~sealed /\ permits > 0 /\ Unused # {}

NewRow(owner) == [state |-> "running", owner |-> owner, stop |-> "none", outcome |-> "none",
                  waiters |-> 0, waited |-> FALSE]
EvictedRow(r) == [r EXCEPT !.state = "evicted"]

\* Jobs::admit: the oldest finished row that no wait holds makes room.
Start(owner) ==
  LET j == Min(Unused)
      full == Cardinality(Present) >= Maximum
      gone == IF full THEN {Min(Evictable)} ELSE {}
  IN
  /\ MayStart
  /\ full => Evictable # {}
  /\ permits' = permits - 1
  /\ row' = [i \in Ids |->
       IF i = j THEN NewRow(owner) ELSE IF i \in gone THEN EvictedRow(row[i]) ELSE row[i]]
  /\ UNCHANGED <<sealed, sending, notices, closed, wait, told>>

\* Mutant: how the script ended is looked at before the stop.
OutcomeAsRan(r) == "ended"

\* A stop comes before however the script ended.
Outcome(r) == IF r.stop = "none" THEN "ended" ELSE r.stop

FinishedRow(r) ==
  [r EXCEPT !.state = "finished", !.outcome = Outcome(r), !.waited = @ \/ r.waiters > 0]

\* Jobs::finish, under the lock; JobRun's drop ends an abandoned job the same
\* way.  The permit is free before the notice is sent.
Finish(j) ==
  LET finished == FinishedRow(row[j]) IN
  /\ row[j].state = "running"
  /\ row' = [row EXCEPT ![j] = finished]
  /\ permits' = permits + 1
  /\ sending' = IF finished.outcome = "ended" /\ ~finished.waited
                THEN sending \union {j} ELSE sending
  /\ UNCHANGED <<sealed, notices, closed, wait, told>>

Lost(js) == [j \in Ids |-> IF j \in js THEN told[j] \union {"dropped"} ELSE told[j]]
Sendable == ~closed /\ Len(notices) < Maximum

\* Mutant: the notice is read from the job's row, which may be evicted by now.
NotifyFromRow(j) ==
  /\ j \in sending
  /\ sending' = sending \ {j}
  /\ notices' = IF j \in Present /\ Sendable THEN Append(notices, j) ELSE notices
  /\ told' = IF Sendable THEN told ELSE Lost({j})
  /\ UNCHANGED <<row, sealed, permits, closed, wait>>

\* Jobs::finish, its end: try_send, which drops the notice if the channel is
\* full or closed.
Notify(j) ==
  /\ j \in sending
  /\ sending' = sending \ {j}
  /\ \/ Sendable /\ notices' = Append(notices, j) /\ UNCHANGED told
     \/ ~Sendable /\ told' = Lost({j}) /\ UNCHANGED notices
  /\ UNCHANGED <<row, sealed, permits, closed, wait>>

\* The gateway loop takes a notice and starts a session with it, if a route
\* of the active generation still answers it.
Deliver ==
  /\ notices # <<>>
  /\ notices' = Tail(notices)
  /\ \/ told' = [told EXCEPT ![Head(notices)] = @ \union {"notice"}]
     \/ told' = Lost({Head(notices)})
  /\ UNCHANGED <<row, sealed, permits, sending, closed, wait>>

\* Row::stop_running and Jobs::kill: the first stop of a running row is kept.
StoppedRow(r, stop) ==
  IF r.state = "running" /\ r.stop = "none" THEN [r EXCEPT !.stop = stop] ELSE r

StopRows(js, stop) ==
  [j \in Ids |-> IF j \in js THEN StoppedRow(row[j], stop) ELSE row[j]]

\* Jobs::kill
Kill(j) ==
  /\ j \in Running
  /\ row' = StopRows({j}, "killed")
  /\ UNCHANGED <<sealed, permits, sending, notices, closed, wait, told>>

\* Jobs::cancel_owner: a stop request of the conversation's person.
CancelOwner(owner) ==
  /\ row' = StopRows({j \in Running : row[j].owner = owner}, "cancelled")
  /\ UNCHANGED <<sealed, permits, sending, notices, closed, wait, told>>

\* Shutdown: the loop first drops the notices, what they hold included.
CloseNotices ==
  /\ ~closed /\ closed' = TRUE
  /\ notices' = <<>> /\ told' = Lost({notices[i] : i \in DOMAIN notices})
  /\ UNCHANGED <<row, sealed, permits, sending, wait>>

\* Jobs::seal, right after it.
SealTable ==
  /\ closed /\ ~sealed
  /\ sealed' = TRUE
  /\ row' = StopRows(Running, "cancelled")
  /\ UNCHANGED <<permits, sending, notices, closed, wait, told>>

------------------------------------------------------------------------------
(* Jobs::wait, in its holds of the lock.  ids are the caller's own jobs; a  *)
(* job of someone else is refused and nothing is kept of it.                *)

HeldRow(r) == [r EXCEPT !.waiters = @ + 1]
ReleasedRow(r) == [r EXCEPT !.waiters = @ - 1]
TakenRow(r) == [r EXCEPT !.waited = TRUE]

WaitRegister(w, owner, ids) ==
  LET held == {j \in ids : j \in Present /\ row[j].owner = owner} IN
  /\ wait[w].phase = "idle" /\ held # {}
  /\ row' = [j \in Ids |-> IF j \in held THEN HeldRow(row[j]) ELSE row[j]]
  /\ wait' = [wait EXCEPT ![w] = [phase |-> "registered", ids |-> held, exited |-> {}]]
  /\ UNCHANGED <<sealed, permits, sending, notices, closed, told>>

\* Mutant: the end that another wait has already taken is skipped.
WaitScanUntaken(w) ==
  LET ended == {j \in wait[w].ids : row[j].state = "finished" /\ ~row[j].waited} IN
  /\ wait[w].phase \in {"registered", "waiting"}
  /\ row' = [j \in Ids |-> IF j \in ended THEN TakenRow(row[j]) ELSE row[j]]
  /\ wait' = [wait EXCEPT ![w].exited = @ \union ended,
                          ![w].phase = IF wait[w].exited \union ended = wait[w].ids
                                       THEN "leaving" ELSE "waiting"]
  /\ UNCHANGED <<sealed, permits, sending, notices, closed, told>>

\* One turn of the loop: note which jobs have ended; if some have not, unlock
\* to ask keep_waiting and sleep a WAIT_SLICE.
WaitScan(w) ==
  LET ended == {j \in wait[w].ids : row[j].state = "finished"} IN
  /\ wait[w].phase \in {"registered", "waiting"}
  /\ row' = [j \in Ids |-> IF j \in ended THEN TakenRow(row[j]) ELSE row[j]]
  /\ wait' = [wait EXCEPT ![w] =
       [phase |-> IF ended = wait[w].ids THEN "leaving" ELSE "waiting",
        ids |-> wait[w].ids, exited |-> ended]]
  /\ UNCHANGED <<sealed, permits, sending, notices, closed, told>>

\* keep_waiting, called unlocked, says no (a stop, a steer, the script's
\* deadline) or panics: the rows are not looked at again.
WaitGiveUp(w) ==
  /\ wait[w].phase = "waiting"
  /\ wait' = [wait EXCEPT ![w].phase = "leaving"]
  /\ UNCHANGED <<row, sealed, permits, sending, notices, closed, told>>

\* Waiters::drop, and the return of the answers.
WaitLeave(w) ==
  /\ wait[w].phase = "leaving"
  /\ row' = [j \in Ids |-> IF j \in wait[w].ids /\ j \in Present
                           THEN ReleasedRow(row[j]) ELSE row[j]]
  /\ wait' = [wait EXCEPT ![w].phase = "done"]
  /\ told' = [j \in Ids |-> IF j \in wait[w].exited THEN told[j] \union {"exit"} ELSE told[j]]
  /\ UNCHANGED <<sealed, permits, sending, notices, closed>>

------------------------------------------------------------------------------
Next ==
  \/ \E o \in Owners : Start(o) \/ CancelOwner(o)
  \/ \E j \in Ids : Finish(j) \/ Notify(j) \/ Kill(j)
  \/ Deliver
  \/ CloseNotices \/ SealTable
  \/ \E w \in Waits, o \in Owners, ids \in SUBSET Ids : WaitRegister(w, o, ids)
  \/ \E w \in Waits : WaitScan(w) \/ WaitGiveUp(w) \/ WaitLeave(w)

Spec == Init /\ [][Next]_vars

\* A job ends by its deadline (jobTimeoutMs) at the latest, and a waiting
\* thread runs; nothing makes keep_waiting say no.
FairSpec ==
  /\ Spec
  /\ WF_vars(\E j \in Ids : Finish(j))
  /\ \A w \in Waits : WF_vars(WaitScan(w) \/ WaitLeave(w))

------------------------------------------------------------------------------
Holding(w) == wait[w].phase \in {"registered", "waiting", "leaving"}

\* Every permit is free or with a running job, the table holds at most
\* maxJobs rows, and once it is sealed no job runs that was not told to stop.
TableBounds ==
  /\ permits + Cardinality(Running) = Maximum
  /\ Cardinality(Present) <= Maximum
  /\ sealed => \A j \in Running : row[j].stop # "none"

\* The variables have their types; a row's waiters (a usize decremented on
\* drop) never goes below zero, and the table keeps its bounds.
TypeOK ==
  /\ permits \in 0 .. Maximum /\ sealed \in BOOLEAN /\ closed \in BOOLEAN /\ sending \subseteq Ids
  /\ \A j \in Ids :
       /\ row[j].state \in {"none", "running", "finished", "evicted"}
       /\ row[j].waiters \in Nat /\ row[j].waited \in BOOLEAN
       /\ row[j].stop \in {"none", "killed", "cancelled"}
       /\ told[j] \subseteq Told
  /\ Len(notices) <= Maximum
  /\ TableBounds

\* A wait's jobs keep their rows until it has returned, and a row counts
\* exactly the waits that hold it, however waits, ends and evictions
\* interleave (the eviction in admit trusts the count).
RowsHeld ==
  \A j \in Ids :
    LET holders == {w \in Waits : Holding(w) /\ j \in wait[w].ids} IN
    /\ holders # {} => j \in Present
    /\ j \in Present => row[j].waiters = Cardinality(holders)

Pending(j) == \/ j \in sending
              \/ \E i \in DOMAIN notices : notices[i] = j
              \/ \E w \in Waits : Holding(w) /\ j \in wait[w].ids

\* The end of a job nobody stopped is told or on its way, or its notice was
\* dropped, unless a wait that held it gave up: no other interleaving of ends,
\* evictions, waits and shutdown silences a job.
EndTold ==
  \A j \in Ids : row[j].outcome = "ended" =>
    \/ told[j] # {} \/ Pending(j)
    \/ \E w \in Waits : wait[w].phase = "done" /\ j \in wait[w].ids /\ j \notin wait[w].exited

\* A stopped job is silent: it never sends a notice, and no job sends two.
NoticeOnce ==
  /\ \A j \in Ids : row[j].stop # "none" =>
       told[j] \subseteq {"exit"} /\ j \notin sending
  /\ \A j \in Ids :
       Cardinality({i \in DOMAIN notices : notices[i] = j})
         + (IF j \in sending THEN 1 ELSE 0)
         + (IF told[j] \intersect {"notice", "dropped"} # {} THEN 1 ELSE 0) <= 1

\* Every wait returns, although nothing interrupts it.
WaitReturns == \A w \in Waits : Holding(w) ~> ~Holding(w)

\* "Finished detached jobs notify their originating chat" (CHANGELOG.md:1564):
\* a job that ran to its end is told to its conversation, by a notice or by
\* the wait that held it.
FinishedJobsTold ==
  \A j \in Ids : row[j].outcome = "ended" => told[j] # {} \/ Pending(j)
==============================================================================
