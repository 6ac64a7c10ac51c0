----------------------------- MODULE FollowTable -----------------------------
(***************************************************************************)
(* The follow table of the gateway (follow.rs): the tickets that let an    *)
(* agent keep listening to a conversation, their markers on disk           *)
(* (memory/journal.rs), and the threads that change both: turns that stay, *)
(* leave and refresh (session.rs), the writes a turn defers to its end     *)
(* (memory/generation.rs), the gateway loop's banishments (gateway.rs) and *)
(* a restart.                                                              *)
(*                                                                         *)
(* The three short mutexes (resident, written, writer) make one step of    *)
(* each critical section.  The disk mutex is held across file operations   *)
(* and is a variable.  A marker is rewritten in place: opening truncates   *)
(* it, so a crash or a fault between the two halves leaves a torn file.    *)
(***************************************************************************)
EXTENDS Naturals, FiniteSets

CONSTANTS Keys,        \* follow keys (naturals: a restart sorts by them)
          Sessions,    \* turns that may run at once
          Banishers,   \* leave tasks of the gateway loop
          MaxTickets,  \* MAX_TICKETS
          Lapse,       \* LAPSE, in ticks of the wall clock
          MaxTime,     \* bound on the wall clock
          MaxSeq,      \* bound on marker sequence numbers
          MaxFaults,   \* bound on failing file operations
          MaxCrashes,  \* bound on restarts
          None,        \* an absent entry of a map, a free mutex
          Torn         \* a marker file that does not parse

ASSUME FollowAssumption ==
    /\ Keys \subseteq Nat /\ IsFiniteSet(Keys) /\ Keys # {}
    /\ Cardinality(Keys) <= MaxSeq  \* a restart numbers the markers it reads
    /\ Sessions \cap Banishers = {}
    /\ MaxTickets \in Nat \ {0} /\ Lapse \in Nat \ {0}
    /\ {MaxTime, MaxSeq, MaxFaults, MaxCrashes} \subseteq Nat
    /\ None # Torn /\ {None, Torn} \cap (Nat \cup Sessions \cup Banishers) = {}
    /\ None \notin [until : Nat, seq : Nat]

VARIABLES now,       \* the wall clock
          resident,  \* FollowTable.resident: the tickets turns listen by
          written,   \* FollowTable.written: the sequence number on disk
          writer,    \* FollowTable.writer: keys banished, not yet unlinked
          disk,      \* holder of FollowTable.disk
          nextSeq,   \* FollowTable.next_seq
          file,      \* the marker files
          task,      \* what each thread is doing
          faults,    \* file operations that failed
          crashes,   \* restarts
          gone,      \* history: keys left for good since their last invite
          owed       \* history: invites accepted and not yet written

vars == <<now, resident, written, writer, disk, nextSeq, file, task, faults,
          crashes, gone, owed>>

Tasks == Sessions \cup Banishers

Times == 0 .. MaxTime + Lapse
Seqs == 0 .. MaxSeq
Marks == [until : Times, seq : Seqs]

PCs == {"idle", "turn", "leave", "unlink", "unmark", "refresh", "rewrite",
        "reinsert", "write", "sweep", "sweeping", "marker"}

TaskRecords == [pc : PCs, key : Keys, follow : BOOLEAN, at : Times,
                mark : Marks \cup {None}, pend : Marks \cup {None},
                lapsed : SUBSET Keys, old : Keys \cup {None}]

NoTask(k) == [pc |-> "idle", key |-> k, follow |-> FALSE, at |-> 0,
              mark |-> None, pend |-> None, lapsed |-> {}, old |-> None]
AnyKey == CHOOSE k \in Keys : TRUE

Become(t, r) == task' = [task EXCEPT ![t] = r]
At(r, pc) == [r EXCEPT !.pc = pc]
Goto(t, pc) == Become(t, At(task[t], pc))

-----------------------------------------------------------------------------
(* Tickets and markers. *)

Residents == {k \in Keys : resident[k] # None}

\* FollowTable::ticket at time t.
Active(k, t) == resident[k] # None /\ t < resident[k].until

\* Mutant: a marker that lasts twice as long as it may.
MarkTwice(t) == [until |-> t + 2 * Lapse, seq |-> nextSeq]

\* FollowTable::mark at time t.
Mark(t) == [until |-> t + Lapse, seq |-> nextSeq]
MayMark == nextSeq < MaxSeq

\* The keys of stay's sweep.
LapsedKeys == {k \in Residents : resident[k].until <= now}

\* FollowTable::suspend: what it leaves resident, banished, and owed.
Suspended(k) ==
    /\ writer' = IF resident[k] # None THEN writer \cup {k} ELSE writer
    /\ resident' = [resident EXCEPT ![k] = None]
    /\ owed' = [owed EXCEPT ![k] = None]

\* Journal::load_follow: unreadable markers go, and above the limit those that
\* lapse first.
Readable == {k \in Keys : file[k] \in Times}
LoadedBefore(j, k) == file[j] < file[k] \/ (file[j] = file[k] /\ j < k)
Loaded == {k \in Readable :
             Cardinality({j \in Readable : LoadedBefore(k, j)}) < MaxTickets}
LoadIndex(k) == Cardinality({j \in Loaded : LoadedBefore(j, k)})

-----------------------------------------------------------------------------
Init ==
    /\ now = 0
    /\ resident = [k \in Keys |-> None] /\ written = [k \in Keys |-> None]
    /\ writer = {} /\ disk = None /\ nextSeq = 0
    /\ file = [k \in Keys |-> None]
    /\ task = [t \in Tasks |-> NoTask(AnyKey)]
    /\ faults = 0 /\ crashes = 0
    /\ gone = [k \in Keys |-> FALSE]
    /\ owed = [k \in Keys |-> None]

Clock ==
    /\ now < MaxTime
    /\ now' = now + 1
    /\ UNCHANGED <<resident, written, writer, disk, nextSeq, file, task, faults,
                   crashes, gone, owed>>

-----------------------------------------------------------------------------
(* A turn. *)

\* A turn begins on an addressed message, or on a debounced one that a ticket
\* still admits.
TurnOf(k, f) == [NoTask(k) EXCEPT !.pc = "turn", !.follow = f]
Begin(s, k) ==
    /\ task[s].pc = "idle"
    /\ \E f \in BOOLEAN :
         /\ f => Active(k, now)
         /\ Become(s, TurnOf(k, f))
    /\ UNCHANGED <<now, resident, written, writer, disk, nextSeq, file, faults,
                   crashes, gone, owed>>

\* What a turn that stays defers to its end: PendingFollow.
Deferring(r, mark) == [r EXCEPT !.pend = mark, !.lapsed = LapsedKeys]

\* FollowTable::stay, under the writer and the resident mutex.  The sweep of
\* lapsed tickets is kept when the table turns out to be full.
Stay(s) ==
    LET k == task[s].key
        swept == [j \in Keys |-> IF j \in LapsedKeys THEN None ELSE resident[j]]
        left == {j \in Keys : swept[j] # None}
        full == k \notin left /\ Cardinality(left) + Cardinality(writer) >= MaxTickets
        unpaid == [j \in Keys |-> IF j \in LapsedKeys THEN None ELSE owed[j]]
    IN /\ task[s].pc = "turn" /\ task[s].pend = None
       /\ MayMark
       /\ k \notin writer
       /\ nextSeq' = nextSeq + 1
       /\ IF full
            THEN /\ resident' = swept /\ owed' = unpaid
                 /\ UNCHANGED <<task, gone>>
            ELSE /\ resident' = [swept EXCEPT ![k] = Mark(now)]
                 /\ owed' = [unpaid EXCEPT ![k] = nextSeq]
                 /\ gone' = [gone EXCEPT ![k] = FALSE]
                 /\ Become(s, Deferring(task[s], Mark(now)))
       /\ UNCHANGED <<now, written, writer, disk, file, faults, crashes>>

\* What follows a leave or a refresh: a turn drains the write it deferred, and
\* a leave of the gateway loop is over.
WriteOf(r) ==
    [NoTask(r.key) EXCEPT !.pc = "write", !.pend = r.pend, !.lapsed = r.lapsed]
Drained(r) == IF r.pend = None THEN NoTask(AnyKey) ELSE WriteOf(r)
Drain(t) == Become(t, Drained(task[t]))

Leaving(r) == [r EXCEPT !.pc = "leave", !.follow = FALSE]
Refreshing(r) == [r EXCEPT !.pc = "refresh", !.at = now, !.follow = FALSE]

\* The turn ends: an answered turn that asked to leave leaves, an answered follow
\* turn refreshes, and then what the turn deferred is written.  (A stopped turn
\* that seals the conversation writes first; its leave is then a Banish.)
TurnEnds(s) ==
    /\ task[s].pc = "turn"
    /\ \/ Become(s, Leaving(task[s]))
       \/ task[s].follow /\ Become(s, Refreshing(task[s]))
       \/ Drain(s)
    /\ UNCHANGED <<now, resident, written, writer, disk, nextSeq, file, faults,
                   crashes, gone, owed>>

-----------------------------------------------------------------------------
(* FollowTable::leave. *)

\* Gateway::leave_follow: suspends at once and spawns the leave.
Banish(b, k) ==
    /\ task[b].pc = "idle"
    /\ resident[k] # None
    /\ Suspended(k)
    /\ Become(b, At(NoTask(k), "leave"))
    /\ UNCHANGED <<now, written, disk, nextSeq, file, faults, crashes, gone>>

Leave(t) ==
    /\ task[t].pc = "leave"
    /\ Suspended(task[t].key)
    /\ Goto(t, "unlink")
    /\ UNCHANGED <<now, written, disk, nextSeq, file, faults, crashes, gone>>

\* Takes the disk mutex and unlinks the marker; a failure ends the leave.
Unlink(t) ==
    LET k == task[t].key
    IN /\ task[t].pc = "unlink" /\ disk = None
       /\ \/ /\ file' = [file EXCEPT ![k] = None]
             /\ written' = [written EXCEPT ![k] = None]
             /\ disk' = t /\ Goto(t, "unmark")
             /\ UNCHANGED faults
          \/ /\ faults < MaxFaults /\ faults' = faults + 1
             /\ Drain(t)
             /\ UNCHANGED <<file, written, disk>>
       /\ UNCHANGED <<now, resident, writer, nextSeq, crashes, gone, owed>>

Unmark(t) ==
    LET k == task[t].key
    IN /\ task[t].pc = "unmark"
       /\ writer' = writer \ {k}
       /\ resident' = [resident EXCEPT ![k] = None]
       /\ owed' = [owed EXCEPT ![k] = None]
       /\ gone' = [gone EXCEPT ![k] = TRUE]
       /\ disk' = None /\ Drain(t)
       /\ UNCHANGED <<now, written, nextSeq, file, faults, crashes>>

-----------------------------------------------------------------------------
(* Journal::write_follow: open with truncation, then content and sync. *)

OpenMarker(k) ==
    /\ file' = [file EXCEPT ![k] = Torn]
    /\ UNCHANGED faults

WriteMarker(k, mark) ==
    /\ file' = [file EXCEPT ![k] = mark.until]
    /\ UNCHANGED faults

\* A failed content write leaves a torn marker, a failed sync a whole one.
WriteMarkerFails(k, mark) ==
    /\ faults < MaxFaults /\ faults' = faults + 1
    /\ \E f \in {Torn, mark.until} : file' = [file EXCEPT ![k] = f]

(* FollowTable::refresh. *)

Rewriting(r) == [r EXCEPT !.pc = "rewrite", !.mark = Mark(r.at)]

\* Takes the disk mutex, checks the ticket at the time the call was made,
\* draws a mark and opens the marker.  A mark that cannot be drawn (here: at the
\* bound on sequence numbers) ends the refresh like a ticket that is not active.
Refresh(s) ==
    LET k == task[s].key
    IN /\ task[s].pc = "refresh" /\ disk = None
       /\ IF k \in writer \/ ~Active(k, task[s].at) \/ ~MayMark
            THEN /\ Drain(s)
                 /\ UNCHANGED <<disk, nextSeq, file, faults>>
            ELSE /\ nextSeq' = nextSeq + 1
                 /\ disk' = s
                 /\ Become(s, Rewriting(task[s]))
                 /\ OpenMarker(k)
       /\ UNCHANGED <<now, resident, written, writer, crashes, gone, owed>>

\* Mutant: a failed refresh drops whatever ticket there is.
KeptOnFailureNothing(k) == None

\* What a failed refresh keeps resident: an invite newer than the marker.
KeptOnFailure(k) ==
    IF written[k] # None /\ resident[k] # None /\ resident[k].seq = written[k]
      THEN None ELSE resident[k]

\* The write ends; then the writer set is read once more, and on its own.
Rewrite(s) ==
    LET k == task[s].key
    IN /\ task[s].pc = "rewrite"
       /\ \/ /\ WriteMarker(k, task[s].mark)
             /\ IF k \in writer
                  THEN disk' = None /\ Drain(s)
                  ELSE UNCHANGED disk /\ Goto(s, "reinsert")
             /\ UNCHANGED resident
          \/ /\ WriteMarkerFails(k, task[s].mark)
             /\ resident' = [resident EXCEPT ![k] = KeptOnFailure(k)]
             /\ disk' = None /\ Drain(s)
       /\ UNCHANGED <<now, written, writer, nextSeq, crashes, gone, owed>>

Reinsert(s) ==
    LET k == task[s].key
    IN /\ task[s].pc = "reinsert"
       /\ resident' = [resident EXCEPT ![k] = task[s].mark]
       /\ written' = [written EXCEPT ![k] = task[s].mark.seq]
       /\ owed' = [owed EXCEPT ![k] = None]
       /\ disk' = None /\ Drain(s)
       /\ UNCHANGED <<now, writer, nextSeq, file, faults, crashes, gone>>

-----------------------------------------------------------------------------
(* PendingFollow::write, called by the drain that ends every turn. *)

Write(s) ==
    /\ task[s].pc = "write" /\ disk = None
    /\ disk' = s /\ Goto(s, "sweep")
    /\ UNCHANGED <<now, resident, written, writer, nextSeq, file, faults, crashes,
                   gone, owed>>

\* Mutant: a swept key is unlinked without another look.
MayUnlinkBlind(k) == TRUE

\* One lapsed key of the loop: skipped when it is resident again.
MayUnlink(k) == resident[k] = None

Swept(r, k) == [r EXCEPT !.lapsed = @ \ {k}]
Unlinking(r, k) == [r EXCEPT !.lapsed = @ \ {k}, !.pc = "sweeping", !.old = k]
Unlinked(r) == [r EXCEPT !.pc = "sweep", !.old = None]

Sweep(s, k) ==
    /\ task[s].pc = "sweep" /\ k \in task[s].lapsed
    /\ \/ MayUnlink(k) /\ Become(s, Unlinking(task[s], k))
       \/ ~MayUnlink(k) /\ Become(s, Swept(task[s], k))
    /\ UNCHANGED <<now, resident, written, writer, disk, nextSeq, file, faults,
                   crashes, gone, owed>>

Sweeping(s) ==
    LET k == task[s].old
    IN /\ task[s].pc = "sweeping"
       /\ Become(s, Unlinked(task[s]))
       /\ \/ /\ file' = [file EXCEPT ![k] = None]
             /\ written' = [written EXCEPT ![k] = None]
             /\ UNCHANGED faults
          \/ /\ faults < MaxFaults /\ faults' = faults + 1
             /\ UNCHANGED <<file, written>>
       /\ UNCHANGED <<now, resident, writer, disk, nextSeq, crashes, gone, owed>>

\* Mutant: the deferred write does not look at the ticket.
StillInvitedBlind(s) == TRUE

\* The invite is still the ticket, and nobody is banishing it.
StillInvited(s) ==
    LET k == task[s].key
    IN /\ resident[k] # None /\ resident[k].seq = task[s].pend.seq
       /\ k \notin writer

\* The deferred write is over.  An invite that is over is owed no longer.
Done(s) ==
    LET k == task[s].key
    IN /\ Become(s, NoTask(AnyKey))
       /\ disk' = None
       /\ owed' = IF owed[k] = task[s].pend.seq
                    THEN [owed EXCEPT ![k] = None] ELSE owed

SweepEnds(s) ==
    LET k == task[s].key
    IN /\ task[s].pc = "sweep" /\ task[s].lapsed = {}
       /\ IF StillInvited(s)
            THEN OpenMarker(k) /\ Goto(s, "marker") /\ UNCHANGED <<disk, owed>>
            ELSE Done(s) /\ UNCHANGED <<file, faults>>
       /\ UNCHANGED <<now, resident, written, writer, nextSeq, crashes, gone>>

Marker(s) ==
    LET k == task[s].key
        pend == task[s].pend
    IN /\ task[s].pc = "marker"
       /\ \/ /\ WriteMarker(k, pend)
             /\ written' = [written EXCEPT ![k] = pend.seq]
             /\ UNCHANGED resident
          \/ /\ WriteMarkerFails(k, pend)
             /\ resident' = IF resident[k] # None /\ resident[k].seq = pend.seq
                              THEN [resident EXCEPT ![k] = None] ELSE resident
             /\ UNCHANGED written
       /\ Done(s)
       /\ UNCHANGED <<now, writer, nextSeq, crashes, gone>>

\* Opening the marker fails: the file stays as it was.
OpenFails(s) ==
    LET k == task[s].key
    IN /\ faults < MaxFaults /\ faults' = faults + 1
       /\ \/ /\ task[s].pc = "refresh" /\ disk = None
             /\ k \notin writer /\ Active(k, task[s].at) /\ MayMark
             /\ resident' = [resident EXCEPT ![k] = KeptOnFailure(k)]
             /\ Drain(s)
             /\ UNCHANGED <<disk, owed>>
          \/ /\ task[s].pc = "sweep" /\ task[s].lapsed = {} /\ StillInvited(s)
             /\ resident' = [resident EXCEPT ![k] = None]
             /\ Done(s)
       /\ UNCHANGED <<now, written, writer, nextSeq, file, crashes, gone>>

-----------------------------------------------------------------------------
\* The process stops at any point and starts again: FollowTable::load.
Restart ==
    /\ crashes < MaxCrashes
    /\ crashes' = crashes + 1
    /\ resident' = [k \in Keys |-> IF k \in Loaded
                      THEN [until |-> file[k], seq |-> LoadIndex(k)] ELSE None]
    /\ written' = [k \in Keys |-> IF k \in Loaded THEN LoadIndex(k) ELSE None]
    /\ file' = [k \in Keys |-> IF k \in Loaded THEN file[k] ELSE None]
    /\ nextSeq' = Cardinality(Loaded)
    /\ writer' = {} /\ disk' = None
    /\ task' = [t \in Tasks |-> NoTask(AnyKey)]
    /\ owed' = [k \in Keys |-> None]
    /\ UNCHANGED <<now, faults, gone>>

SessionStep(s) ==
    \/ Stay(s) \/ TurnEnds(s)
    \/ Refresh(s) \/ Rewrite(s) \/ Reinsert(s)
    \/ Write(s) \/ (\E k \in Keys : Sweep(s, k)) \/ Sweeping(s)
    \/ SweepEnds(s) \/ Marker(s) \/ OpenFails(s)

LeaveStep(t) == Leave(t) \/ Unlink(t) \/ Unmark(t)

Next ==
    \/ Clock
    \/ \E s \in Sessions, k \in Keys : Begin(s, k)
    \/ \E s \in Sessions : SessionStep(s)
    \/ \E b \in Banishers, k \in Keys : Banish(b, k)
    \/ \E t \in Tasks : LeaveStep(t)
    \/ Restart

Spec == Init /\ [][Next]_vars

-----------------------------------------------------------------------------
\* Types of the maps, the files, the threads and the histories; a ticket made at
\* the last moment lasts no longer than LAPSE after it.
TypeOK ==
    /\ now \in Times
    /\ resident \in [Keys -> Marks \cup {None}]
    /\ written \in [Keys -> Seqs \cup {None}]
    /\ writer \subseteq Keys
    /\ disk \in Tasks \cup {None}
    /\ nextSeq \in Seqs
    /\ file \in [Keys -> Times \cup {None, Torn}]
    /\ task \in [Tasks -> TaskRecords]
    /\ faults \in 0 .. MaxFaults /\ crashes \in 0 .. MaxCrashes
    /\ gone \in [Keys -> BOOLEAN]
    /\ owed \in [Keys -> Seqs \cup {None}]

\* Once a leave has returned, and until the next invite, neither the table nor
\* the disk holds a ticket for the key: no refresh, deferred write or sweep that
\* was under way brings it back, and no restart does.
BanishKept ==
    \A k \in Keys : gone[k] => resident[k] = None /\ file[k] = None

\* A task is concerned with key k: it holds a deferred write for it, or is in
\* the middle of a leave, a refresh or an unlink of its marker.
Concerned(t, k) ==
    \/ task[t].key = k /\ task[t].pc \notin {"idle", "turn"}
    \/ task[t].key = k /\ task[t].pend # None
    \/ k \in task[t].lapsed
    \/ task[t].old = k

\* When no task is concerned with a key, its ticket is the one on disk, and a
\* marker that a restart would honour belongs to a ticket (or to a leave whose
\* unlink failed).
DiskAgrees ==
    \A k \in Keys : (\A t \in Tasks : ~Concerned(t, k)) =>
        /\ resident[k] # None => file[k] = resident[k].until
        /\ (file[k] \in Times /\ now < file[k] /\ faults = 0) => resident[k] # None

\* An accepted invite that is not yet on disk stays resident until it is
\* written, left, or lapsed: a failed refresh of the older marker, or another
\* turn's sweep, does not drop it.
InviteKept == \A k \in Keys : owed[k] # None => resident[k] # None
=============================================================================
