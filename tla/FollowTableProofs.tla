--------------------------- MODULE FollowTableProofs ---------------------------
(*****************************************************************************)
(* What the follow table keeps, for every number of conversations, turns,    *)
(* leaves, faults and restarts: the types, BanishKept, InviteKept and        *)
(* DiskAgrees.  The inductive invariant FollowInv says who holds the disk    *)
(* mutex and what the holder knows, that a sequence number stands for one    *)
(* mark, where the marker of each ticket is, and, while no file operation    *)
(* failed, why a marker may be without its ticket.                           *)
(*                                                                           *)
(* One lemma per record that a thread goes through gives its fields; one per *)
(* action says which record the thread becomes (Moves); a few say what a     *)
(* step makes of tickets, files and banishments (StepTickets, StepFiles,     *)
(* StepWriter, StepLoses).  The parts of the invariant follow from those.    *)
(*****************************************************************************)
EXTENDS FollowTable, FiniteSetTheorems, TLAPS

Types ==
    /\ now \in 0 .. MaxTime
    /\ resident \in [Keys -> Marks \cup {None}]
    /\ written \in [Keys -> Seqs \cup {None}]
    /\ writer \subseteq Keys
    /\ disk \in Tasks \cup {None}
    /\ nextSeq \in Seqs
    /\ file \in [Keys -> Times \cup {None, Torn}]
    /\ task \in [Tasks -> TaskRecords]
    /\ \A t \in Tasks : task[t].at \in 0 .. MaxTime
    /\ faults \in 0 .. MaxFaults /\ crashes \in 0 .. MaxCrashes
    /\ gone \in [Keys -> BOOLEAN]
    /\ owed \in [Keys -> Seqs \cup {None}]

(* The records a thread goes through. *)

LEMMA AnyKeyType == AnyKey \in Keys
BY FollowAssumption DEF AnyKey

LEMMA TimeTypes == 0 \in Times /\ 0 .. MaxTime \subseteq Times
BY FollowAssumption DEF Times

LEMMA MarkType ==
  ASSUME nextSeq \in Seqs, MayMark, NEW t \in 0 .. MaxTime
  PROVE  Mark(t) \in Marks /\ nextSeq + 1 \in Seqs /\ Mark(t).seq = nextSeq /\ Mark(t).until = t + Lapse
BY FollowAssumption DEF MayMark, Mark, Marks, Seqs, Times

LEMMA NoTaskFields ==
  ASSUME NEW k \in Keys
  PROVE  LET r == NoTask(k) IN
         /\ r \in TaskRecords
         /\ r.pc = "idle" /\ r.key = k /\ r.at = 0 /\ r.mark = None /\ r.pend = None
         /\ r.lapsed = {} /\ r.old = None
BY TimeTypes DEF NoTask, TaskRecords, PCs

LEMMA AtFields ==
  ASSUME NEW r \in TaskRecords, NEW pc \in PCs
  PROVE  LET s == At(r, pc) IN
         /\ s \in TaskRecords
         /\ s.pc = pc /\ s.key = r.key /\ s.at = r.at /\ s.mark = r.mark /\ s.pend = r.pend
         /\ s.lapsed = r.lapsed /\ s.old = r.old
BY DEF At, TaskRecords

LEMMA TurnOfFields ==
  ASSUME NEW k \in Keys, NEW f \in BOOLEAN
  PROVE  LET s == TurnOf(k, f) IN
         /\ s \in TaskRecords
         /\ s.pc = "turn" /\ s.key = k /\ s.at = 0 /\ s.mark = None /\ s.pend = None
         /\ s.lapsed = {} /\ s.old = None
BY TimeTypes DEF TurnOf, NoTask, TaskRecords, PCs

LEMMA DeferringFields ==
  ASSUME NEW r \in TaskRecords, NEW m \in Marks
  PROVE  LET s == Deferring(r, m) IN
         /\ s \in TaskRecords
         /\ s.pc = r.pc /\ s.key = r.key /\ s.at = r.at /\ s.mark = r.mark /\ s.pend = m
         /\ s.lapsed = LapsedKeys /\ s.old = r.old
BY DEF Deferring, TaskRecords, LapsedKeys, Residents

LEMMA WriteOfFields ==
  ASSUME NEW r \in TaskRecords
  PROVE  LET s == WriteOf(r) IN
         /\ s \in TaskRecords
         /\ s.pc = "write" /\ s.key = r.key /\ s.at = 0 /\ s.mark = None /\ s.pend = r.pend
         /\ s.lapsed = r.lapsed /\ s.old = None
BY TimeTypes DEF WriteOf, NoTask, TaskRecords, PCs

LEMMA LeavingFields ==
  ASSUME NEW r \in TaskRecords
  PROVE  LET s == Leaving(r) IN
         /\ s \in TaskRecords
         /\ s.pc = "leave" /\ s.key = r.key /\ s.at = r.at /\ s.mark = r.mark /\ s.pend = r.pend
         /\ s.lapsed = r.lapsed /\ s.old = r.old
BY DEF Leaving, TaskRecords, PCs

LEMMA RefreshingFields ==
  ASSUME NEW r \in TaskRecords, now \in Times
  PROVE  LET s == Refreshing(r) IN
         /\ s \in TaskRecords
         /\ s.pc = "refresh" /\ s.key = r.key /\ s.at = now /\ s.mark = r.mark /\ s.pend = r.pend
         /\ s.lapsed = r.lapsed /\ s.old = r.old
BY DEF Refreshing, TaskRecords, PCs

LEMMA RewritingFields ==
  ASSUME NEW r \in TaskRecords, Mark(r.at) \in Marks
  PROVE  LET s == Rewriting(r) IN
         /\ s \in TaskRecords
         /\ s.pc = "rewrite" /\ s.key = r.key /\ s.at = r.at /\ s.mark = Mark(r.at) /\ s.pend = r.pend
         /\ s.lapsed = r.lapsed /\ s.old = r.old
BY DEF Rewriting, TaskRecords, PCs

LEMMA SweptFields ==
  ASSUME NEW r \in TaskRecords, NEW k \in Keys
  PROVE  LET s == Swept(r, k) IN
         /\ s \in TaskRecords
         /\ s.pc = r.pc /\ s.key = r.key /\ s.at = r.at /\ s.mark = r.mark /\ s.pend = r.pend
         /\ s.lapsed = r.lapsed \ {k} /\ s.old = r.old
BY DEF Swept, TaskRecords

LEMMA UnlinkingFields ==
  ASSUME NEW r \in TaskRecords, NEW k \in Keys
  PROVE  LET s == Unlinking(r, k) IN
         /\ s \in TaskRecords
         /\ s.pc = "sweeping" /\ s.key = r.key /\ s.at = r.at /\ s.mark = r.mark /\ s.pend = r.pend
         /\ s.lapsed = r.lapsed \ {k} /\ s.old = k
BY DEF Unlinking, TaskRecords, PCs

LEMMA UnlinkedFields ==
  ASSUME NEW r \in TaskRecords
  PROVE  LET s == Unlinked(r) IN
         /\ s \in TaskRecords
         /\ s.pc = "sweep" /\ s.key = r.key /\ s.at = r.at /\ s.mark = r.mark /\ s.pend = r.pend
         /\ s.lapsed = r.lapsed /\ s.old = None
BY DEF Unlinked, TaskRecords, PCs

LEMMA DrainedFields ==
  ASSUME NEW r \in TaskRecords
  PROVE  LET s == Drained(r) IN
         /\ s \in TaskRecords /\ s.at = 0 /\ s.old = None /\ s.mark = None
         /\ \/ s.pc = "idle" /\ s.pend = None /\ s.lapsed = {} /\ r.pend = None
            \/ s.pc = "write" /\ s.pend # None /\ s.pend = r.pend /\ s.key = r.key
               /\ s.lapsed = r.lapsed
<1>1. CASE r.pend = None
  BY <1>1, NoTaskFields, AnyKeyType DEF Drained
<1>2. CASE r.pend # None
  BY <1>2, WriteOfFields DEF Drained
<1> QED BY <1>1, <1>2

-------------------------------------------------------------------------------
(* What holds of a thread wherever it is: who holds the disk mutex, and what *)
(* it carries.                                                               *)

DiskPCs == {"unmark", "rewrite", "reinsert", "sweep", "sweeping", "marker"}

TaskOK(r) ==
    /\ r.pc \in {"write", "sweep", "sweeping", "marker"} => r.pend # None
    /\ r.pc \in {"rewrite", "reinsert"} => r.mark # None
    /\ r.pc = "sweeping" => r.old # None
    /\ r.pc = "idle" => r.pend = None

TaskInv == \A t \in Tasks : TaskOK(task[t]) /\ (task[t].pc \in DiskPCs => disk = t)

\* One thread moves, and takes, keeps or gives up the disk mutex.
Moves(t, r) ==
    /\ t \in Tasks /\ Become(t, r)
    /\ r \in TaskRecords /\ r.at \in 0 .. MaxTime /\ TaskOK(r)
    /\ \/ disk' = disk /\ (r.pc \in DiskPCs => disk = t)
       \/ disk = None /\ disk' = t
       \/ task[t].pc \in DiskPCs /\ disk' = None /\ r.pc \notin DiskPCs

LEMMA MovesTask ==
  ASSUME Types, TaskInv, NEW t, NEW r, Moves(t, r)
  PROVE  /\ task' \in [Tasks -> TaskRecords]
         /\ \A u \in Tasks : task'[u].at \in 0 .. MaxTime
         /\ task'[t] = r
         /\ \A u \in Tasks : u # t => task'[u] = task[u]
         /\ disk' \in Tasks \cup {None}
         /\ TaskInv'
<1>1. /\ task' = [task EXCEPT ![t] = r] /\ t \in Tasks /\ r \in TaskRecords
      /\ r.at \in 0 .. MaxTime /\ TaskOK(r)
  BY DEF Moves, Become
<1>2. task' \in [Tasks -> TaskRecords]
  BY <1>1 DEF Types
<1>3. task'[t] = r /\ \A u \in Tasks : u # t => task'[u] = task[u]
  BY <1>1 DEF Types
<1>4. \A u \in Tasks : task'[u].at \in 0 .. MaxTime
  BY <1>1, <1>3 DEF Types
<1>5. disk' \in Tasks \cup {None}
  BY <1>1 DEF Moves, Types
<1>6. \A u \in Tasks : TaskOK(task'[u])
  BY <1>1, <1>3 DEF TaskInv
<1>7. None \notin Tasks
  BY FollowAssumption DEF Tasks
<1>8. \A u \in Tasks : task'[u].pc \in DiskPCs => disk' = u
  <2> SUFFICES ASSUME NEW u \in Tasks, task'[u].pc \in DiskPCs
               PROVE  disk' = u
    OBVIOUS
  <2>1. CASE u = t
    BY <2>1, <1>3 DEF Moves
  <2>2. CASE u # t
    <3>1. disk = u
      BY <2>2, <1>3 DEF TaskInv
    <3>2. disk' = disk
      BY <3>1, <2>2, <1>7 DEF Moves, TaskInv
    <3> QED BY <3>1, <3>2
  <2> QED BY <2>1, <2>2
<1> QED BY <1>2, <1>3, <1>4, <1>5, <1>6, <1>8 DEF TaskInv, TaskOK

-------------------------------------------------------------------------------
(* The parts of the inductive invariant. *)

\* Sequence numbers are drawn from nextSeq, so that a new one is nobody's.
SeqInv ==
    /\ \A k \in Keys : /\ resident[k] # None => resident[k].seq < nextSeq
                       /\ written[k] # None => written[k] < nextSeq
    /\ \A t \in Tasks : /\ task[t].pend # None => task[t].pend.seq < nextSeq
                        /\ task[t].mark # None => task[t].mark.seq < nextSeq

\* BanishKept, and what the threads that hold the disk mutex know of it.
BanishInv ==
    /\ BanishKept
    /\ \A t \in Tasks :
         /\ task[t].pc = "unmark" => file[task[t].key] = None
         /\ task[t].pc \in {"rewrite", "reinsert", "marker"} => gone[task[t].key] = FALSE

\* InviteKept: what is owed is the ticket itself, and is not what is on disk.
InviteInv ==
    \A k \in Keys : owed[k] # None =>
        resident[k] # None /\ resident[k].seq = owed[k] /\ written[k] # owed[k]

\* A sequence number stands for one mark.
MarkInv ==
    /\ \A t \in Tasks :
         LET m == task[t].pend
             r == resident[task[t].key]
         IN  m # None /\ r # None /\ m.seq = r.seq => m = r
    /\ \A t, u \in Tasks :
         task[t].pend # None /\ task[u].mark # None => task[t].pend.seq # task[u].mark.seq

InState(k, pcs) == \E t \in Tasks : task[t].key = k /\ task[t].pc \in pcs
Deferred(k) == \E t \in Tasks : task[t].key = k /\ task[t].pend = resident[k]

\* The ticket is the one written last, and its marker is whole or being
\* rewritten.
OnDisk(k) ==
    /\ written[k] = resident[k].seq
    /\ file[k] = resident[k].until \/ InState(k, {"rewrite", "reinsert"})
    /\ ~InState(k, {"marker"})
    /\ \A t \in Tasks : ~(task[t].pc = "sweeping" /\ task[t].old = k)

\* Where the marker of a ticket is: deferred by a turn, about to be left, or on
\* disk.
AgreeInv ==
    /\ \A k \in Keys : resident[k] # None =>
         (Deferred(k) /\ k \notin writer) \/ InState(k, {"unmark"}) \/ OnDisk(k)
    /\ \A t \in Tasks :
         /\ task[t].pc = "rewrite" /\ task[t].key \in writer => resident[task[t].key] = None
         /\ task[t].pc = "reinsert" => file[task[t].key] = task[t].mark.until

\* No mark is from the future.
ClockInv ==
    /\ \A t \in Tasks : /\ task[t].at <= now
                        /\ task[t].pend # None => task[t].pend.until <= now + Lapse
                        /\ task[t].mark # None => task[t].mark.until <= now + Lapse
    /\ \A k \in Keys : file[k] \in Times => file[k] <= now + Lapse

Fresh(k) == file[k] \in Times /\ now < file[k]

\* While no file operation failed: a marker is no newer than its ticket, one
\* without a ticket is stale or being left, and a banished key is being left.
FreshInv ==
    faults = 0 =>
      /\ \A k \in Keys :
           /\ file[k] \in Times /\ resident[k] # None =>
                file[k] <= resident[k].until \/ InState(k, {"reinsert"})
           /\ Fresh(k) /\ resident[k] = None => InState(k, {"leave", "unlink", "reinsert"})
           /\ k \in writer => InState(k, {"leave", "unlink", "unmark"})
      /\ \A t \in Tasks : task[t].pc = "marker" =>
           LET k == task[t].key
               m == task[t].pend
           IN  /\ resident[k] # None => m.until <= resident[k].until
               /\ resident[k] = None => m.until <= now \/ InState(k, {"leave", "unlink"})

-------------------------------------------------------------------------------
(* Where each step takes its thread. *)

LEMMA TaskFacts ==
  ASSUME Types, TaskInv, NEW t \in Tasks
  PROVE  /\ task[t] \in TaskRecords /\ task[t].key \in Keys
         /\ task[t].at \in 0 .. MaxTime /\ 0 \in 0 .. MaxTime
         /\ TaskOK(task[t]) /\ (task[t].pc \in DiskPCs => disk = t)
         /\ task[t].pend \in Marks \cup {None} /\ task[t].mark \in Marks \cup {None}
         /\ task[t].lapsed \subseteq Keys /\ task[t].old \in Keys \cup {None}
<1>1. task[t] \in TaskRecords
  BY DEF Types
<1>2. 0 \in 0 .. MaxTime
  BY FollowAssumption
<1> QED BY <1>1, <1>2 DEF Types, TaskInv, TaskRecords

LEMMA DrainMoves ==
  ASSUME Types, TaskInv, NEW t \in Tasks, Drain(t),
         \/ disk' = disk /\ task[t].pc \notin DiskPCs
         \/ task[t].pc \in DiskPCs /\ disk' = None
  PROVE  Moves(t, Drained(task[t]))
BY TaskFacts, DrainedFields DEF Moves, Drain, TaskOK, DiskPCs

LEMMA GotoMoves ==
  ASSUME Types, TaskInv, NEW t \in Tasks, NEW pc \in PCs, Goto(t, pc), TaskOK(At(task[t], pc)),
         \/ disk' = disk /\ (pc \in DiskPCs => disk = t)
         \/ disk = None /\ disk' = t
  PROVE  Moves(t, At(task[t], pc))
BY TaskFacts, AtFields DEF Moves, Goto

LEMMA BeginMoves ==
  ASSUME Types, TaskInv, NEW s \in Tasks, NEW k \in Keys, Begin(s, k)
  PROVE  \E f \in BOOLEAN : Moves(s, TurnOf(k, f))
<1>1. PICK f \in BOOLEAN : Become(s, TurnOf(k, f))
  BY DEF Begin
<1> QED BY <1>1, TaskFacts, TurnOfFields DEF Moves, TaskOK, DiskPCs, Begin

LEMMA StayMoves ==
  ASSUME Types, TaskInv, NEW s \in Tasks, Stay(s), ~UNCHANGED task
  PROVE  Moves(s, Deferring(task[s], Mark(now)))
<1>1. /\ UNCHANGED disk /\ MayMark /\ task[s].pc = "turn"
      /\ Become(s, Deferring(task[s], Mark(now)))
  BY DEF Stay
<1>2. Mark(now) \in Marks
  BY <1>1, MarkType DEF Types
<1> QED BY <1>1, <1>2, TaskFacts, DeferringFields DEF Moves, TaskOK, DiskPCs

LEMMA TurnEndsMoves ==
  ASSUME Types, TaskInv, NEW s \in Tasks, TurnEnds(s)
  PROVE  \/ Moves(s, Leaving(task[s]))
         \/ Moves(s, Refreshing(task[s]))
         \/ Moves(s, Drained(task[s]))
<1>1. UNCHANGED disk /\ task[s].pc = "turn"
  BY DEF TurnEnds
<1>2. CASE Become(s, Leaving(task[s]))
  BY <1>1, <1>2, TaskFacts, LeavingFields DEF Moves, TaskOK, DiskPCs
<1>3. CASE Become(s, Refreshing(task[s]))
  BY <1>1, <1>3, TaskFacts, RefreshingFields, TimeTypes DEF Moves, TaskOK, DiskPCs, Types
<1>4. CASE Drain(s)
  BY <1>1, <1>4, DrainMoves DEF DiskPCs
<1> QED BY <1>2, <1>3, <1>4 DEF TurnEnds

LEMMA BanishMoves ==
  ASSUME Types, TaskInv, NEW b \in Tasks, NEW k \in Keys, Banish(b, k)
  PROVE  Moves(b, At(NoTask(k), "leave"))
<1>1. "leave" \in PCs
  BY DEF PCs
<1>2. Become(b, At(NoTask(k), "leave")) /\ UNCHANGED disk
  BY DEF Banish
<1> QED BY <1>1, <1>2, TaskFacts, NoTaskFields, AtFields DEF Moves, TaskOK, DiskPCs

LEMMA LeaveMoves ==
  ASSUME Types, TaskInv, NEW t \in Tasks, Leave(t)
  PROVE  Moves(t, At(task[t], "unlink"))
<1>1. "unlink" \in PCs
  BY DEF PCs
<1> QED BY <1>1, TaskFacts, AtFields, GotoMoves DEF Leave, TaskOK, DiskPCs

LEMMA UnlinkMoves ==
  ASSUME Types, TaskInv, NEW t \in Tasks, Unlink(t)
  PROVE  \/ Moves(t, At(task[t], "unmark")) /\ disk' = t /\ faults' = faults
            /\ file' = [file EXCEPT ![task[t].key] = None]
            /\ written' = [written EXCEPT ![task[t].key] = None]
         \/ Moves(t, Drained(task[t])) /\ UNCHANGED <<disk, file, written>>
            /\ faults' = faults + 1 /\ faults < MaxFaults
<1>1. "unmark" \in PCs
  BY DEF PCs
<1>2. CASE /\ file' = [file EXCEPT ![task[t].key] = None]
           /\ written' = [written EXCEPT ![task[t].key] = None]
           /\ disk' = t /\ Goto(t, "unmark")
           /\ UNCHANGED faults
  <2>1. TaskOK(At(task[t], "unmark"))
    BY <1>1, TaskFacts, AtFields DEF TaskOK
  <2> QED BY <1>1, <1>2, <2>1, GotoMoves DEF Unlink
<1>3. CASE /\ faults < MaxFaults /\ faults' = faults + 1
           /\ Drain(t)
           /\ UNCHANGED <<file, written, disk>>
  BY <1>3, DrainMoves DEF Unlink, DiskPCs
<1> QED BY <1>2, <1>3 DEF Unlink

LEMMA UnmarkMoves ==
  ASSUME Types, TaskInv, NEW t \in Tasks, Unmark(t)
  PROVE  Moves(t, Drained(task[t]))
BY DrainMoves DEF Unmark, DiskPCs

LEMMA RefreshMoves ==
  ASSUME Types, TaskInv, NEW s \in Tasks, Refresh(s)
  PROVE  LET k == task[s].key IN
         \/ Moves(s, Drained(task[s])) /\ UNCHANGED <<disk, nextSeq, file, faults>>
         \/ /\ k \notin writer /\ Active(k, task[s].at) /\ MayMark /\ Mark(task[s].at) \in Marks
            /\ Moves(s, Rewriting(task[s]))
            /\ nextSeq' = nextSeq + 1 /\ disk = None /\ disk' = s /\ faults' = faults
            /\ file' = [file EXCEPT ![k] = Torn]
<1> DEFINE k == task[s].key
<1>1. CASE k \in writer \/ ~Active(k, task[s].at) \/ ~MayMark
  BY <1>1, DrainMoves DEF Refresh, DiskPCs
<1>2. CASE ~(k \in writer \/ ~Active(k, task[s].at) \/ ~MayMark)
  <2>1. /\ nextSeq' = nextSeq + 1 /\ disk' = s /\ disk = None
        /\ Become(s, Rewriting(task[s]))
        /\ OpenMarker(k)
    BY <1>2 DEF Refresh
  <2>2. Mark(task[s].at) \in Marks
    BY <1>2, MarkType, TaskFacts DEF Types
  <2>3. Moves(s, Rewriting(task[s]))
    <3>1. Mark(task[s].at) # None
      BY <2>2, FollowAssumption DEF Marks, Times, Seqs
    <3> QED BY <2>1, <2>2, <3>1, TaskFacts, RewritingFields DEF Moves, TaskOK, DiskPCs
  <2> QED BY <1>2, <2>1, <2>2, <2>3 DEF OpenMarker
<1> QED BY <1>1, <1>2

LEMMA RewriteMoves ==
  ASSUME Types, TaskInv, NEW s \in Tasks, Rewrite(s)
  PROVE  LET k == task[s].key
             m == task[s].mark
         IN
         \/ /\ file' = [file EXCEPT ![k] = m.until] /\ faults' = faults /\ resident' = resident
            /\ \/ k \in writer /\ disk' = None /\ Moves(s, Drained(task[s]))
               \/ k \notin writer /\ disk' = disk /\ Moves(s, At(task[s], "reinsert"))
         \/ /\ \E f \in {Torn, m.until} : file' = [file EXCEPT ![k] = f]
            /\ faults < MaxFaults /\ faults' = faults + 1
            /\ resident' = [resident EXCEPT ![k] = KeptOnFailure(k)]
            /\ disk' = None /\ Moves(s, Drained(task[s]))
<1> DEFINE k == task[s].key
           m == task[s].mark
<1>1. task[s].pc = "rewrite" /\ "reinsert" \in PCs
  BY DEF Rewrite, PCs
<1>2. CASE WriteMarker(k, m) /\ k \in writer /\ disk' = None /\ Drain(s) /\ UNCHANGED resident
  BY <1>1, <1>2, DrainMoves DEF WriteMarker, DiskPCs
<1>3. CASE WriteMarker(k, m) /\ k \notin writer /\ UNCHANGED <<disk, resident>> /\ Goto(s, "reinsert")
  <2>1. TaskOK(At(task[s], "reinsert")) /\ disk = s
    BY <1>1, TaskFacts, AtFields DEF TaskOK, DiskPCs
  <2> QED BY <1>1, <1>3, <2>1, GotoMoves DEF WriteMarker
<1>4. CASE /\ WriteMarkerFails(k, m)
           /\ resident' = [resident EXCEPT ![k] = KeptOnFailure(k)]
           /\ disk' = None /\ Drain(s)
  BY <1>1, <1>4, DrainMoves DEF WriteMarkerFails, DiskPCs
<1> QED BY <1>2, <1>3, <1>4 DEF Rewrite

LEMMA ReinsertMoves ==
  ASSUME Types, TaskInv, NEW s \in Tasks, Reinsert(s)
  PROVE  Moves(s, Drained(task[s]))
BY DrainMoves DEF Reinsert, DiskPCs

LEMMA WriteMoves ==
  ASSUME Types, TaskInv, NEW s \in Tasks, Write(s)
  PROVE  Moves(s, At(task[s], "sweep"))
<1>1. "sweep" \in PCs
  BY DEF PCs
<1>2. TaskOK(At(task[s], "sweep"))
  BY <1>1, TaskFacts, AtFields DEF TaskOK, Write
<1> QED BY <1>1, <1>2, GotoMoves DEF Write

LEMMA SweepMoves ==
  ASSUME Types, TaskInv, NEW s \in Tasks, NEW k \in Keys, Sweep(s, k)
  PROVE  \/ resident[k] = None /\ Moves(s, Unlinking(task[s], k))
         \/ Moves(s, Swept(task[s], k))
<1>1. task[s].pc = "sweep" /\ disk = s /\ UNCHANGED disk
  BY TaskFacts DEF Sweep, DiskPCs
<1>2. task[s].pend # None /\ k # None
  BY <1>1, TaskFacts, FollowAssumption DEF TaskOK
<1>3. CASE MayUnlink(k) /\ Become(s, Unlinking(task[s], k))
  BY <1>1, <1>2, <1>3, TaskFacts, UnlinkingFields DEF Moves, TaskOK, DiskPCs, MayUnlink
<1>4. CASE Become(s, Swept(task[s], k))
  BY <1>1, <1>2, <1>4, TaskFacts, SweptFields DEF Moves, TaskOK, DiskPCs
<1> QED BY <1>3, <1>4 DEF Sweep

LEMMA SweepingMoves ==
  ASSUME Types, TaskInv, NEW s \in Tasks, Sweeping(s)
  PROVE  /\ Moves(s, Unlinked(task[s])) /\ UNCHANGED disk
         /\ LET k == task[s].old IN
            \/ /\ file' = [file EXCEPT ![k] = None] /\ written' = [written EXCEPT ![k] = None]
               /\ faults' = faults
            \/ faults < MaxFaults /\ faults' = faults + 1 /\ UNCHANGED <<file, written>>
<1>1. task[s].pc = "sweeping" /\ disk = s /\ UNCHANGED disk /\ Become(s, Unlinked(task[s]))
  BY TaskFacts DEF Sweeping, DiskPCs
<1>2. task[s].pend # None
  BY <1>1, TaskFacts DEF TaskOK
<1>3. Moves(s, Unlinked(task[s]))
  BY <1>1, <1>2, TaskFacts, UnlinkedFields DEF Moves, TaskOK, DiskPCs
<1> QED BY <1>1, <1>3 DEF Sweeping

LEMMA DoneMoves ==
  ASSUME Types, TaskInv, NEW s \in Tasks, task[s].pc \in DiskPCs, Done(s)
  PROVE  Moves(s, NoTask(AnyKey)) /\ disk' = None
BY TaskFacts, NoTaskFields, AnyKeyType DEF Done, Moves, TaskOK, DiskPCs

LEMMA SweepEndsMoves ==
  ASSUME Types, TaskInv, NEW s \in Tasks, SweepEnds(s)
  PROVE  \/ /\ StillInvited(s) /\ Moves(s, At(task[s], "marker")) /\ UNCHANGED <<disk, owed, faults>>
            /\ file' = [file EXCEPT ![task[s].key] = Torn]
         \/ /\ ~StillInvited(s) /\ Moves(s, NoTask(AnyKey)) /\ Done(s) /\ disk' = None
            /\ UNCHANGED <<file, faults>>
<1>1. task[s].pc = "sweep" /\ disk = s /\ "marker" \in PCs
  BY TaskFacts DEF SweepEnds, DiskPCs, PCs
<1>2. CASE StillInvited(s)
  <2>1. TaskOK(At(task[s], "marker"))
    BY <1>1, TaskFacts, AtFields DEF TaskOK
  <2> QED BY <1>1, <1>2, <2>1, GotoMoves DEF SweepEnds, OpenMarker
<1>3. CASE ~StillInvited(s)
  BY <1>1, <1>3, DoneMoves DEF SweepEnds, DiskPCs
<1> QED BY <1>2, <1>3

LEMMA MarkerMoves ==
  ASSUME Types, TaskInv, NEW s \in Tasks, Marker(s)
  PROVE  /\ Moves(s, NoTask(AnyKey)) /\ Done(s) /\ disk' = None
         /\ LET k == task[s].key
                m == task[s].pend
            IN \/ /\ file' = [file EXCEPT ![k] = m.until] /\ written' = [written EXCEPT ![k] = m.seq]
                  /\ faults' = faults /\ resident' = resident
               \/ /\ \E f \in {Torn, m.until} : file' = [file EXCEPT ![k] = f]
                  /\ faults < MaxFaults /\ faults' = faults + 1
                  /\ resident' = IF resident[k] # None /\ resident[k].seq = m.seq
                                   THEN [resident EXCEPT ![k] = None] ELSE resident
                  /\ written' = written
BY DoneMoves DEF Marker, WriteMarker, WriteMarkerFails, DiskPCs

LEMMA OpenFailsMoves ==
  ASSUME Types, TaskInv, NEW s \in Tasks, OpenFails(s)
  PROVE  LET k == task[s].key IN
         /\ faults < MaxFaults /\ faults' = faults + 1
         /\ \/ /\ resident' = [resident EXCEPT ![k] = KeptOnFailure(k)]
               /\ Moves(s, Drained(task[s])) /\ UNCHANGED <<disk, owed>>
            \/ /\ StillInvited(s) /\ resident' = [resident EXCEPT ![k] = None]
               /\ Done(s) /\ Moves(s, NoTask(AnyKey)) /\ disk' = None
<1>1. CASE task[s].pc = "refresh"
  BY <1>1, DrainMoves DEF OpenFails, DiskPCs
<1>2. CASE task[s].pc = "sweep"
  BY <1>2, DoneMoves DEF OpenFails, DiskPCs
<1> QED BY <1>1, <1>2 DEF OpenFails

-------------------------------------------------------------------------------
(* Types, and what the threads carry. *)

LEMMA TypesInit == Init => Types /\ TaskInv
<1> SUFFICES ASSUME Init PROVE Types /\ TaskInv
  OBVIOUS
<1>1. task = [t \in Tasks |-> NoTask(AnyKey)]
  BY DEF Init
<1>2. task \in [Tasks -> TaskRecords] /\ \A t \in Tasks : task[t].at = 0 /\ task[t].pc = "idle"
                                                         /\ task[t].pend = None
  BY <1>1, NoTaskFields, AnyKeyType
<1>3. TaskInv
  BY <1>2 DEF TaskInv, TaskOK, DiskPCs
<1>4. now \in 0 .. MaxTime /\ nextSeq \in Seqs /\ faults \in 0 .. MaxFaults /\ crashes \in 0 .. MaxCrashes
      /\ 0 \in 0 .. MaxTime
  BY FollowAssumption DEF Init, Seqs
<1>5. /\ resident \in [Keys -> Marks \cup {None}] /\ written \in [Keys -> Seqs \cup {None}]
      /\ writer \subseteq Keys /\ disk \in Tasks \cup {None}
      /\ file \in [Keys -> Times \cup {None, Torn}]
      /\ gone \in [Keys -> BOOLEAN] /\ owed \in [Keys -> Seqs \cup {None}]
  BY DEF Init
<1> QED BY <1>2, <1>3, <1>4, <1>5 DEF Types

\* Every step of a thread moves it, and leaves the clock and the restarts alone.
Step(t) ==
    \/ \E k \in Keys : Begin(t, k) \/ Banish(t, k) \/ Sweep(t, k)
    \/ Stay(t) \/ TurnEnds(t) \/ Refresh(t) \/ Rewrite(t) \/ Reinsert(t)
    \/ Write(t) \/ Sweeping(t) \/ SweepEnds(t) \/ Marker(t) \/ OpenFails(t)
    \/ Leave(t) \/ Unlink(t) \/ Unmark(t)

LEMMA NextSteps ==
  ASSUME [Next]_vars
  PROVE  Clock \/ Restart \/ UNCHANGED vars \/ \E t \in Tasks : Step(t)
<1>1. ASSUME NEW s \in Sessions, SessionStep(s)
      PROVE  Step(s)
  BY <1>1 DEF SessionStep, Step
<1>2. ASSUME NEW t \in Tasks, LeaveStep(t)
      PROVE  Step(t)
  BY <1>2 DEF LeaveStep, Step
<1>3. ASSUME NEW t \in Tasks, NEW k \in Keys, Begin(t, k) \/ Banish(t, k)
      PROVE  Step(t)
  BY <1>3 DEF Step
<1> QED BY <1>1, <1>2, <1>3 DEF Next, Tasks

LEMMA StepMoves ==
  ASSUME Types, TaskInv, NEW t \in Tasks, Step(t)
  PROVE  (\E r : Moves(t, r)) \/ UNCHANGED <<task, disk>>
<1>1. CASE \E k \in Keys : Begin(t, k)
  BY <1>1, BeginMoves
<1>2. CASE \E k \in Keys : Banish(t, k)
  BY <1>2, BanishMoves
<1>3. CASE \E k \in Keys : Sweep(t, k)
  BY <1>3, SweepMoves
<1>4. CASE Stay(t)
  BY <1>4, StayMoves DEF Stay
<1>5. CASE TurnEnds(t)
  BY <1>5, TurnEndsMoves
<1>6. CASE Refresh(t)
  BY <1>6, RefreshMoves
<1>7. CASE Rewrite(t)
  BY <1>7, RewriteMoves
<1>8. CASE Reinsert(t) \/ Write(t) \/ Sweeping(t)
  BY <1>8, ReinsertMoves, WriteMoves, SweepingMoves
<1>9. CASE SweepEnds(t)
  BY <1>9, SweepEndsMoves
<1>10. CASE Marker(t) \/ OpenFails(t)
  BY <1>10, MarkerMoves, OpenFailsMoves
<1>11. CASE Leave(t) \/ Unlink(t) \/ Unmark(t)
  BY <1>11, LeaveMoves, UnlinkMoves, UnmarkMoves
<1> QED BY <1>1, <1>2, <1>3, <1>4, <1>5, <1>6, <1>7, <1>8, <1>9, <1>10, <1>11 DEF Step

\* The types of the variables other than the threads and the disk mutex.
StoreTypes ==
    /\ now \in 0 .. MaxTime
    /\ resident \in [Keys -> Marks \cup {None}]
    /\ written \in [Keys -> Seqs \cup {None}]
    /\ writer \subseteq Keys
    /\ nextSeq \in Seqs
    /\ file \in [Keys -> Times \cup {None, Torn}]
    /\ faults \in 0 .. MaxFaults /\ crashes \in 0 .. MaxCrashes
    /\ gone \in [Keys -> BOOLEAN]
    /\ owed \in [Keys -> Seqs \cup {None}]

LEMMA SuspendedTypes ==
  ASSUME Types, NEW k \in Keys, Suspended(k)
  PROVE  /\ resident' \in [Keys -> Marks \cup {None}] /\ writer' \subseteq Keys
         /\ owed' \in [Keys -> Seqs \cup {None}]
BY DEF Types, Suspended

LEMMA StepTypes ==
  ASSUME Types, TaskInv, NEW t \in Tasks, Step(t)
  PROVE  StoreTypes'
<1> DEFINE k == task[t].key
<1>1. /\ k \in Keys /\ task[t].pend \in Marks \cup {None} /\ task[t].mark \in Marks \cup {None}
      /\ TaskOK(task[t])
  BY TaskFacts
<1>2. \A m \in Marks : m.until \in Times /\ m.seq \in Seqs
  BY DEF Marks
<1>3. StoreTypes
  BY DEF Types, StoreTypes
<1>4. faults < MaxFaults => faults + 1 \in 0 .. MaxFaults
  BY <1>3, FollowAssumption DEF StoreTypes
<1> HIDE DEF k
<1>5. CASE (\E j \in Keys : Begin(t, j) \/ Sweep(t, j)) \/ TurnEnds(t) \/ Write(t)
  BY <1>3, <1>5 DEF StoreTypes, Begin, Sweep, TurnEnds, Write
<1>6. CASE \E j \in Keys : Banish(t, j)
  BY <1>3, <1>6, SuspendedTypes DEF StoreTypes, Banish
<1>7. CASE Leave(t)
  BY <1>1, <1>3, <1>7, SuspendedTypes DEF StoreTypes, Leave, k
<1>8. CASE Stay(t)
  <2>1. Mark(now) \in Marks /\ nextSeq + 1 \in Seqs
    BY <1>8, MarkType DEF Stay, Types
  <2>2. nextSeq' = nextSeq + 1 /\ UNCHANGED <<now, written, writer, file, faults, crashes>>
    BY <1>8 DEF Stay
  <2>3. resident' \in [Keys -> Marks \cup {None}]
    BY <1>1, <1>3, <1>8, <2>1 DEF Stay, StoreTypes, k
  <2>4. owed' \in [Keys -> Seqs \cup {None}] /\ gone' \in [Keys -> BOOLEAN]
    BY <1>1, <1>3, <1>8 DEF Stay, StoreTypes, k
  <2> QED BY <1>3, <2>1, <2>2, <2>3, <2>4 DEF StoreTypes
<1>9. CASE Unlink(t)
  <2>1. UNCHANGED <<now, resident, writer, nextSeq, crashes, gone, owed>>
    BY <1>9 DEF Unlink
  <2> QED BY <1>1, <1>3, <1>4, <1>9, <2>1, UnlinkMoves DEF StoreTypes, k
<1>10. CASE Unmark(t)
  BY <1>1, <1>3, <1>10 DEF Unmark, StoreTypes, k
<1>11. CASE Refresh(t)
  <2>1. UNCHANGED <<now, resident, written, writer, crashes, gone, owed>>
    BY <1>11 DEF Refresh
  <2>2. MayMark => nextSeq + 1 \in Seqs
    BY TaskFacts, MarkType DEF Types
  <2> QED BY <1>1, <1>3, <1>11, <2>1, <2>2, RefreshMoves DEF StoreTypes, k
<1>12. CASE Rewrite(t)
  <2>1. UNCHANGED <<now, written, writer, nextSeq, crashes, gone, owed>> /\ task[t].pc = "rewrite"
    BY <1>12 DEF Rewrite
  <2>2. task[t].mark \in Marks
    BY <1>1, <2>1 DEF TaskOK
  <2>3. KeptOnFailure(k) \in Marks \cup {None}
    BY <1>1, <1>3 DEF KeptOnFailure, StoreTypes, k
  <2> QED BY <1>1, <1>2, <1>3, <1>4, <1>12, <2>1, <2>2, <2>3, RewriteMoves DEF StoreTypes, k
<1>13. CASE Reinsert(t)
  <2>1. task[t].mark \in Marks
    BY <1>1, <1>13 DEF TaskOK, Reinsert
  <2> QED BY <1>1, <1>2, <1>3, <1>13, <2>1 DEF StoreTypes, Reinsert, k
<1>14. CASE Sweeping(t)
  <2>1. UNCHANGED <<now, resident, writer, nextSeq, crashes, gone, owed>>
    BY <1>14 DEF Sweeping
  <2> QED BY <1>3, <1>4, <1>14, <2>1, SweepingMoves DEF StoreTypes
<1>15. ASSUME Done(t)
       PROVE  owed' \in [Keys -> Seqs \cup {None}]
  BY <1>3, <1>15 DEF Done, StoreTypes
<1>16. CASE SweepEnds(t)
  <2>1. UNCHANGED <<now, resident, written, writer, nextSeq, crashes, gone>>
    BY <1>16 DEF SweepEnds
  <2> QED BY <1>1, <1>3, <1>15, <1>16, <2>1, SweepEndsMoves DEF StoreTypes, k
<1>17. CASE Marker(t)
  <2>1. UNCHANGED <<now, writer, nextSeq, crashes, gone>> /\ task[t].pc = "marker"
    BY <1>17 DEF Marker
  <2>2. task[t].pend \in Marks
    BY <1>1, <2>1 DEF TaskOK
  <2> QED BY <1>1, <1>2, <1>3, <1>4, <1>15, <1>17, <2>1, <2>2, MarkerMoves DEF StoreTypes, k
<1>18. CASE OpenFails(t)
  <2>1. UNCHANGED <<now, written, writer, nextSeq, file, crashes, gone>>
    BY <1>18 DEF OpenFails
  <2>2. KeptOnFailure(k) \in Marks \cup {None}
    BY <1>1, <1>3 DEF KeptOnFailure, StoreTypes, k
  <2> QED BY <1>1, <1>3, <1>4, <1>15, <1>18, <2>1, <2>2, OpenFailsMoves DEF StoreTypes, k
<1> QED BY <1>5, <1>6, <1>7, <1>8, <1>9, <1>10, <1>11, <1>12, <1>13, <1>14, <1>16, <1>17, <1>18 DEF Step

\* The numbers a restart gives the markers it read are those below nextSeq.
LEMMA LoadedFacts ==
  /\ IsFiniteSet(Loaded) /\ Cardinality(Loaded) \in Seqs
  /\ \A k \in Loaded : /\ k \in Keys /\ file[k] \in Times
                       /\ LoadIndex(k) \in Seqs /\ LoadIndex(k) < Cardinality(Loaded)
<1>1. Loaded \in SUBSET Keys
  BY DEF Loaded, Readable
<1>2. IsFiniteSet(Loaded) /\ Cardinality(Loaded) \in Nat /\ Cardinality(Loaded) <= MaxSeq
  <2>1. IsFiniteSet(Keys) /\ Cardinality(Keys) <= MaxSeq /\ MaxSeq \in Nat
    BY FollowAssumption
  <2>2. IsFiniteSet(Loaded) /\ Cardinality(Loaded) <= Cardinality(Keys)
    BY <1>1, <2>1, FS_Subset
  <2>3. Cardinality(Loaded) \in Nat /\ Cardinality(Keys) \in Nat
    BY <2>1, <2>2, FS_CardinalityType
  <2> QED BY <2>1, <2>2, <2>3
<1>3. ASSUME NEW k \in Loaded
      PROVE  LoadIndex(k) \in Nat /\ LoadIndex(k) < Cardinality(Loaded)
  <2> DEFINE before == {j \in Loaded : LoadedBefore(j, k)}
  <2>1. k \notin before
    <3>1. file[k] \in Nat /\ k \in Nat
      BY <1>3, FollowAssumption DEF Loaded, Readable, Times
    <3> QED BY <3>1 DEF LoadedBefore
  <2>2. before \in SUBSET Loaded /\ before # Loaded
    BY <2>1
  <2>3. IsFiniteSet(before) /\ Cardinality(before) <= Cardinality(Loaded)
        /\ Cardinality(before) # Cardinality(Loaded)
    BY <1>2, <2>2, FS_Subset
  <2>4. Cardinality(before) \in Nat
    BY <2>3, FS_CardinalityType
  <2> QED BY <1>2, <2>3, <2>4 DEF LoadIndex
<1>4. \A n \in Nat : n <= MaxSeq => n \in Seqs
  BY FollowAssumption DEF Seqs
<1>5. Cardinality(Loaded) \in Seqs
  BY <1>2, <1>4
<1>6. ASSUME NEW k \in Loaded
      PROVE  /\ k \in Keys /\ file[k] \in Times
             /\ LoadIndex(k) \in Seqs /\ LoadIndex(k) < Cardinality(Loaded)
  <2>1. k \in Keys /\ file[k] \in Times
    BY <1>6 DEF Loaded, Readable
  <2>2. LoadIndex(k) <= MaxSeq
    BY <1>2, <1>3, <1>6, FollowAssumption
  <2> QED BY <1>3, <1>4, <1>6, <2>1, <2>2
<1> QED BY <1>2, <1>5, <1>6

LEMMA RestartTypes ==
  ASSUME Types, Restart
  PROVE  Types' /\ TaskInv' /\ (\A t \in Tasks : task'[t] = NoTask(AnyKey))
<1>1. task' = [t \in Tasks |-> NoTask(AnyKey)] /\ disk' = None /\ writer' = {}
  BY DEF Restart
<1>2. /\ task' \in [Tasks -> TaskRecords]
      /\ \A t \in Tasks : /\ task'[t] = NoTask(AnyKey) /\ task'[t].at = 0 /\ task'[t].pc = "idle"
                          /\ task'[t].pend = None
  BY <1>1, NoTaskFields, AnyKeyType
<1>3. TaskInv'
  BY <1>2 DEF TaskInv, TaskOK, DiskPCs
<1>4. resident' \in [Keys -> Marks \cup {None}]
  <2>1. \A k \in Loaded : [until |-> file[k], seq |-> LoadIndex(k)] \in Marks
    BY LoadedFacts DEF Marks
  <2> QED BY <2>1 DEF Restart
<1>5. written' \in [Keys -> Seqs \cup {None}] /\ nextSeq' \in Seqs
      /\ file' \in [Keys -> Times \cup {None, Torn}]
  BY LoadedFacts DEF Restart
<1>6. crashes' \in 0 .. MaxCrashes /\ 0 \in 0 .. MaxTime
  BY FollowAssumption DEF Restart, Types
<1>7. owed' \in [Keys -> Seqs \cup {None}] /\ UNCHANGED <<now, faults, gone>>
  BY DEF Restart
<1>8. \A t \in Tasks : task'[t].at \in 0 .. MaxTime
  BY <1>2, <1>6
<1>9. StoreTypes'
  BY <1>1, <1>4, <1>5, <1>6, <1>7 DEF Types, StoreTypes
<1> QED BY <1>1, <1>2, <1>3, <1>8, <1>9 DEF Types, StoreTypes

LEMMA TypesNext ==
  ASSUME Types, TaskInv, [Next]_vars
  PROVE  Types' /\ TaskInv'
<1>1. CASE Clock
  BY <1>1, FollowAssumption DEF Clock, Types, TaskInv, TaskOK
<1>2. CASE Restart
  BY <1>2, RestartTypes
<1>3. CASE UNCHANGED vars
  BY <1>3 DEF vars, Types, TaskInv, TaskOK
<1>4. CASE \E t \in Tasks : Step(t)
  <2>1. PICK t \in Tasks : Step(t)
    BY <1>4
  <2>2. StoreTypes'
    BY <2>1, StepTypes
  <2>3. CASE \E r : Moves(t, r)
    BY <2>2, <2>3, MovesTask DEF Types, StoreTypes
  <2>4. CASE UNCHANGED <<task, disk>>
    BY <2>2, <2>4 DEF Types, StoreTypes, TaskInv, TaskOK
  <2> QED BY <2>1, <2>3, <2>4, StepMoves
<1> QED BY <1>1, <1>2, <1>3, <1>4, NextSteps

-------------------------------------------------------------------------------
(* The marks a thread carries, and the sequence numbers. *)

\* From r to n no mark is drawn: what a thread carries it had before, and for
\* the same key.
Carries(r, n) ==
    /\ n.pend # None => n.pend = r.pend /\ n.key = r.key
    /\ n.mark # None => n.mark = r.mark /\ n.key = r.key
    /\ n.pend = r.pend \/ n.pend = None

LEMMA OthersStay ==
  ASSUME Types, TaskInv, NEW t \in Tasks, Step(t)
  PROVE  \A u \in Tasks : u # t => task'[u] = task[u]
BY StepMoves, MovesTask

LEMMA DrainedCarries ==
  ASSUME NEW r \in TaskRecords
  PROVE  Carries(r, Drained(r))
BY DrainedFields DEF Carries

LEMMA StepMarks ==
  ASSUME Types, TaskInv, NEW t \in Tasks, Step(t)
  PROVE  \/ Carries(task[t], task'[t])
         \/ /\ Stay(t) /\ task'[t] = Deferring(task[t], Mark(now)) /\ Mark(now) \in Marks
         \/ /\ Refresh(t) /\ task'[t] = Rewriting(task[t]) /\ Mark(task[t].at) \in Marks
            /\ nextSeq' = nextSeq + 1
<1> DEFINE r == task[t]
<1>1. r \in TaskRecords /\ now \in Times /\ TaskOK(r)
  BY TaskFacts, TimeTypes DEF Types
<1>2. ASSUME NEW n, Moves(t, n)
      PROVE  task'[t] = n
  BY <1>2, MovesTask
<1>3. ASSUME Moves(t, Drained(r))
      PROVE  Carries(r, task'[t])
  BY <1>1, <1>2, <1>3, DrainedCarries
<1>4. ASSUME NEW pc \in PCs, Moves(t, At(r, pc))
      PROVE  Carries(r, task'[t])
  BY <1>1, <1>2, <1>4, AtFields DEF Carries
<1>5. ASSUME NEW n \in TaskRecords, n.pend = None, n.mark = None, Moves(t, n)
      PROVE  Carries(r, task'[t])
  BY <1>2, <1>5 DEF Carries
<1>6. ASSUME Moves(t, NoTask(AnyKey))
      PROVE  Carries(r, task'[t])
  BY <1>5, <1>6, NoTaskFields, AnyKeyType
<1> HIDE DEF r
<1>7. CASE \E k \in Keys : Begin(t, k)
  BY <1>5, <1>7, BeginMoves, TurnOfFields DEF r
<1>8. CASE \E k \in Keys : Banish(t, k)
  <2>1. PICK k \in Keys : Banish(t, k)
    BY <1>8
  <2>2. "leave" \in PCs
    BY DEF PCs
  <2> QED BY <1>5, <2>1, <2>2, BanishMoves, AtFields, NoTaskFields DEF r
<1>9. CASE \E k \in Keys : Sweep(t, k)
  <2>1. PICK k \in Keys : Sweep(t, k)
    BY <1>9
  <2> QED BY <1>1, <1>2, <2>1, SweepMoves, UnlinkingFields, SweptFields DEF Carries, r
<1>10. CASE Stay(t)
  <2>1. CASE UNCHANGED task
    BY <2>1 DEF Carries
  <2>2. CASE ~UNCHANGED task
    BY <1>2, <1>10, <2>2, StayMoves, MarkType DEF Stay, Types
  <2> QED BY <2>1, <2>2
<1>11. CASE TurnEnds(t)
  BY <1>1, <1>2, <1>3, <1>11, TurnEndsMoves, LeavingFields, RefreshingFields DEF Carries, r
<1>12. CASE Refresh(t)
  BY <1>2, <1>3, <1>12, RefreshMoves DEF r
<1>13. CASE Rewrite(t)
  <2>1. "reinsert" \in PCs
    BY DEF PCs
  <2> QED BY <1>3, <1>4, <1>13, <2>1, RewriteMoves DEF r
<1>14. CASE Reinsert(t) \/ Unmark(t)
  BY <1>3, <1>14, ReinsertMoves, UnmarkMoves DEF r
<1>15. CASE Write(t) \/ Leave(t) \/ Unlink(t)
  <2>1. "sweep" \in PCs /\ "unlink" \in PCs /\ "unmark" \in PCs
    BY DEF PCs
  <2> QED BY <1>3, <1>4, <1>15, <2>1, WriteMoves, LeaveMoves, UnlinkMoves DEF r
<1>16. CASE Sweeping(t)
  BY <1>1, <1>2, <1>16, SweepingMoves, UnlinkedFields DEF Carries, r
<1>17. CASE SweepEnds(t)
  <2>1. "marker" \in PCs
    BY DEF PCs
  <2> QED BY <1>4, <1>6, <1>17, <2>1, SweepEndsMoves DEF r
<1>18. CASE Marker(t) \/ OpenFails(t)
  BY <1>3, <1>6, <1>18, MarkerMoves, OpenFailsMoves DEF r
<1> QED BY <1>7, <1>8, <1>9, <1>10, <1>11, <1>12, <1>13, <1>14, <1>15, <1>16, <1>17, <1>18 DEF Step, r

\* What a step makes of tickets and of what is known to be on disk.
LEMMA StepTickets ==
  ASSUME Types, TaskInv, NEW t \in Tasks, Step(t)
  PROVE  /\ nextSeq' = nextSeq \/ nextSeq' = nextSeq + 1
         /\ Stay(t) => nextSeq' = nextSeq + 1
         /\ \A k \in Keys :
              \/ resident'[k] = None
              \/ resident'[k] = resident[k]
              \/ /\ Stay(t) /\ k = task[t].key /\ resident'[k] = Mark(now)
                 /\ task'[t] = Deferring(task[t], Mark(now)) /\ Mark(now) \in Marks
              \/ Reinsert(t) /\ k = task[t].key /\ resident'[k] = task[t].mark
         /\ \A k \in Keys :
              \/ written'[k] = None /\ Unlink(t) /\ k = task[t].key
              \/ written'[k] = None /\ Sweeping(t) /\ k = task[t].old
              \/ written'[k] = written[k]
              \/ Reinsert(t) /\ k = task[t].key /\ written'[k] = task[t].mark.seq
              \/ Marker(t) /\ k = task[t].key /\ written'[k] = task[t].pend.seq
<1>1. /\ resident \in [Keys -> Marks \cup {None}] /\ written \in [Keys -> Seqs \cup {None}]
      /\ task[t].key \in Keys
  BY TaskFacts DEF Types
<1> USE <1>1
<1>2. CASE (\E j \in Keys : Begin(t, j) \/ Sweep(t, j)) \/ TurnEnds(t) \/ Write(t) \/ SweepEnds(t)
  BY <1>2 DEF Begin, Sweep, TurnEnds, Write, Stay, SweepEnds
<1>3. CASE (\E j \in Keys : Banish(t, j)) \/ Leave(t)
  BY <1>3 DEF Banish, Leave, Suspended, Stay
<1>4. CASE Stay(t)
  <2>1. nextSeq' = nextSeq + 1 /\ UNCHANGED written /\ Mark(now) \in Marks
    BY <1>4, MarkType DEF Stay, Types
  <2>2. CASE UNCHANGED task
    <3>1. Deferring(task[t], Mark(now)) # task[t]
      <4>1. Mark(now) # None /\ task[t].pend = None
        BY <1>4, <2>1, FollowAssumption DEF Stay, Marks, Times, Seqs
      <4> QED BY <2>1, <4>1, DeferringFields, TaskFacts
    <3>2. ~Become(t, Deferring(task[t], Mark(now)))
      BY <2>2, <3>1 DEF Become, Types
    <3>3. resident' = [j \in Keys |-> IF j \in LapsedKeys THEN None ELSE resident[j]]
      BY <1>4, <3>2 DEF Stay
    <3> QED BY <2>1, <3>3
  <2>3. CASE ~UNCHANGED task
    <3>1. task'[t] = Deferring(task[t], Mark(now))
      BY <1>4, <2>3, StayMoves, MovesTask
    <3>2. resident' = [[j \in Keys |-> IF j \in LapsedKeys THEN None ELSE resident[j]]
                         EXCEPT ![task[t].key] = Mark(now)]
      BY <1>4, <2>3 DEF Stay
    <3> QED BY <1>4, <2>1, <3>1, <3>2
  <2> QED BY <2>2, <2>3
<1>5. CASE Unlink(t) \/ Unmark(t)
  BY <1>5 DEF Unlink, Unmark, Stay
<1>6. CASE Refresh(t)
  BY <1>6 DEF Refresh, Stay
<1>7. CASE Rewrite(t)
  BY <1>7 DEF Rewrite, Stay, KeptOnFailure
<1>8. CASE Reinsert(t)
  BY <1>8 DEF Reinsert, Stay
<1>9. CASE Sweeping(t)
  BY <1>9 DEF Sweeping, Stay
<1>10. CASE Marker(t)
  BY <1>10 DEF Marker, Stay
<1>11. CASE OpenFails(t)
  BY <1>11 DEF OpenFails, Stay, KeptOnFailure
<1> QED BY <1>2, <1>3, <1>4, <1>5, <1>6, <1>7, <1>8, <1>9, <1>10, <1>11 DEF Step

LEMMA SeqStep ==
  ASSUME Types, TaskInv, SeqInv, NEW t \in Tasks, Step(t)
  PROVE  SeqInv'
<1>1. /\ nextSeq \in Nat /\ nextSeq' \in Nat /\ (nextSeq' = nextSeq \/ nextSeq' = nextSeq + 1)
      /\ Stay(t) => nextSeq' = nextSeq + 1
  BY StepTickets, FollowAssumption DEF Types, Seqs
<1>2. \A n \in Nat : n < nextSeq => n < nextSeq'
  BY <1>1
<1>3. /\ \A m \in Marks : m.seq \in Nat
      /\ \A n \in Seqs : n \in Nat
  BY FollowAssumption DEF Marks, Seqs
<1>4. ASSUME MayMark, NEW m \in 0 .. MaxTime
      PROVE  Mark(m).seq = nextSeq /\ Mark(m) \in Marks
  BY <1>4, MarkType DEF Types
<1>5. ASSUME NEW k \in Keys
      PROVE  /\ resident'[k] # None => resident'[k].seq < nextSeq'
             /\ written'[k] # None => written'[k] < nextSeq'
  <2>1. resident[k] \in Marks \cup {None} /\ written[k] \in Seqs \cup {None}
    BY DEF Types
  <2>2. task[t].mark \in Marks \cup {None} /\ task[t].pend \in Marks \cup {None} /\ TaskOK(task[t])
    BY TaskFacts
  <2>3. Reinsert(t) => task[t].mark # None
    BY <2>2 DEF Reinsert, TaskOK
  <2>4. Marker(t) => task[t].pend # None
    BY <2>2 DEF Marker, TaskOK
  <2>5. Stay(t) => Mark(now).seq = nextSeq
    BY <1>4 DEF Stay, Types
  <2>6. resident'[k] # None => resident'[k].seq < nextSeq'
    BY <1>1, <1>2, <1>3, <2>1, <2>2, <2>3, <2>5, StepTickets DEF SeqInv
  <2>7. written'[k] # None => written'[k] < nextSeq'
    BY <1>1, <1>2, <1>3, <2>1, <2>2, <2>3, <2>4, StepTickets DEF SeqInv
  <2> QED BY <2>6, <2>7
<1>6. ASSUME NEW u \in Tasks
      PROVE  /\ task'[u].pend # None => task'[u].pend.seq < nextSeq'
             /\ task'[u].mark # None => task'[u].mark.seq < nextSeq'
  <2>1. task[u].mark \in Marks \cup {None} /\ task[u].pend \in Marks \cup {None}
    BY TaskFacts
  <2>2. /\ task[u].pend # None => task[u].pend.seq < nextSeq'
        /\ task[u].mark # None => task[u].mark.seq < nextSeq'
    BY <1>2, <1>3, <2>1 DEF SeqInv
  <2>3. CASE u # t
    BY <2>2, <2>3, OthersStay
  <2>4. CASE u = t /\ Carries(task[t], task'[t])
    BY <2>2, <2>4 DEF Carries
  <2>5. CASE u = t /\ Stay(t) /\ task'[t] = Deferring(task[t], Mark(now))
    BY <1>1, <1>4, <2>2, <2>5, DeferringFields, TaskFacts DEF Stay, Types
  <2>6. CASE u = t /\ Refresh(t) /\ task'[t] = Rewriting(task[t]) /\ nextSeq' = nextSeq + 1
             /\ Mark(task[t].at) \in Marks
    <3>1. Mark(task[t].at).seq = nextSeq
      BY DEF Mark
    <3> QED BY <1>1, <2>2, <2>6, <3>1, RewritingFields, TaskFacts
  <2> QED BY <2>3, <2>4, <2>5, <2>6, StepMarks
<1> QED BY <1>5, <1>6 DEF SeqInv

LEMMA MarkStep ==
  ASSUME Types, TaskInv, SeqInv, MarkInv, NEW t \in Tasks, Step(t)
  PROVE  MarkInv'
<1>0. /\ \A m \in Marks : m.seq \in Nat /\ m # None
      /\ nextSeq \in Nat
  BY FollowAssumption DEF Marks, Seqs, Times, Types
<1>1. \A u \in Tasks : /\ task[u] \in TaskRecords /\ task[u].key \in Keys
                       /\ task[u].mark \in Marks \cup {None} /\ task[u].pend \in Marks \cup {None}
  BY TaskFacts
<1>2. \A k \in Keys : resident[k] \in Marks \cup {None}
  BY DEF Types
<1>3. \A m : Mark(m).seq = nextSeq
  BY DEF Mark
<1>4. Reinsert(t) => task[t].mark # None
  BY TaskFacts DEF Reinsert, TaskOK
<1>5. ASSUME NEW u \in Tasks, task'[u].pend # None, task'[u].pend = task[u].pend,
             task'[u].key = task[u].key, resident'[task[u].key] # None,
             task[u].pend.seq = resident'[task[u].key].seq
      PROVE  task[u].pend = resident'[task[u].key]
  <2> DEFINE k == task[u].key
  <2>1. CASE resident'[k] = resident[k]
    BY <1>5, <2>1 DEF MarkInv
  <2>2. CASE resident'[k] = Mark(now)
    BY <1>0, <1>1, <1>3, <1>5, <2>2 DEF SeqInv
  <2>3. CASE Reinsert(t) /\ resident'[k] = task[t].mark
    BY <1>4, <1>5, <2>3 DEF MarkInv
  <2> QED BY <1>1, <1>5, <2>1, <2>2, <2>3, StepTickets
<1>6. ASSUME NEW u \in Tasks, task'[u].pend # None, resident'[task'[u].key] # None,
             task'[u].pend.seq = resident'[task'[u].key].seq
      PROVE  task'[u].pend = resident'[task'[u].key]
  <2>1. CASE u # t
    BY <1>5, <1>6, <2>1, OthersStay
  <2>2. CASE u = t /\ Carries(task[t], task'[t])
    BY <1>5, <1>6, <2>2 DEF Carries
  <2>3. CASE u = t /\ Stay(t) /\ task'[t] = Deferring(task[t], Mark(now)) /\ Mark(now) \in Marks
    <3>1. task'[t].pend = Mark(now) /\ task'[t].key = task[t].key
      BY <1>1, <2>3, DeferringFields
    <3>2. ~Reinsert(t)
      BY <2>3 DEF Stay, Reinsert
    <3>3. resident'[task[t].key] \in {resident[task[t].key], Mark(now)}
      BY <1>1, <1>6, <2>3, <3>1, <3>2, StepTickets
    <3> QED BY <1>0, <1>1, <1>2, <1>3, <1>6, <2>3, <3>1, <3>3 DEF SeqInv
  <2>4. CASE u = t /\ Refresh(t) /\ task'[t] = Rewriting(task[t]) /\ Mark(task[t].at) \in Marks
    BY <1>1, <1>5, <1>6, <2>4, RewritingFields
  <2> QED BY <2>1, <2>2, <2>3, <2>4, StepMarks
<1>7. ASSUME NEW u \in Tasks, NEW v \in Tasks, task'[u].pend # None, task'[v].mark # None
      PROVE  task'[u].pend.seq # task'[v].mark.seq
  <2>1. \/ task'[u].pend = task[u].pend
        \/ task'[u].pend.seq = nextSeq /\ u = t /\ Stay(t) /\ task'[t].mark = task[t].mark
    <3>1. CASE u # t
      BY <3>1, OthersStay
    <3>2. CASE u = t /\ Carries(task[t], task'[t])
      BY <1>7, <3>2 DEF Carries
    <3>3. CASE u = t /\ Stay(t) /\ task'[t] = Deferring(task[t], Mark(now)) /\ Mark(now) \in Marks
      BY <1>1, <1>3, <3>3, DeferringFields
    <3>4. CASE u = t /\ Refresh(t) /\ task'[t] = Rewriting(task[t]) /\ Mark(task[t].at) \in Marks
      BY <1>1, <3>4, RewritingFields
    <3> QED BY <3>1, <3>2, <3>3, <3>4, StepMarks
  <2>2. \/ task'[v].mark = task[v].mark
        \/ task'[v].mark.seq = nextSeq /\ v = t /\ Refresh(t) /\ task'[t].pend = task[t].pend
    <3>1. CASE v # t
      BY <3>1, OthersStay
    <3>2. CASE v = t /\ Carries(task[t], task'[t])
      BY <1>7, <3>2 DEF Carries
    <3>3. CASE v = t /\ Stay(t) /\ task'[t] = Deferring(task[t], Mark(now)) /\ Mark(now) \in Marks
      BY <1>1, <3>3, DeferringFields
    <3>4. CASE v = t /\ Refresh(t) /\ task'[t] = Rewriting(task[t]) /\ Mark(task[t].at) \in Marks
      BY <1>1, <1>3, <3>4, RewritingFields
    <3> QED BY <3>1, <3>2, <3>3, <3>4, StepMarks
  <2>3. ~(Stay(t) /\ Refresh(t))
    BY DEF Stay, Refresh
  <2> QED BY <1>0, <1>1, <1>7, <2>1, <2>2, <2>3 DEF MarkInv, SeqInv
<1> QED BY <1>6, <1>7 DEF MarkInv

-------------------------------------------------------------------------------
(* Where threads come from, and what a step makes of the files. *)

LEMMA StepPC ==
  ASSUME Types, TaskInv, NEW t \in Tasks, Step(t)
  PROVE  LET r == task[t]
             n == task'[t]
         IN
         /\ n.pc = "unmark" => Unlink(t) /\ n.key = r.key
         /\ n.pc = "rewrite" => Refresh(t) /\ n.key = r.key /\ n.mark = Mark(r.at)
         /\ n.pc = "reinsert" => Rewrite(t) /\ n.key = r.key /\ n.mark = r.mark
         /\ n.pc = "marker" => SweepEnds(t) /\ n.key = r.key /\ n.pend = r.pend
         /\ n.pc = "sweeping" => \E k \in Keys : Sweep(t, k) /\ n.old = k /\ resident[k] = None
         /\ n.pc # "sweeping" => n.old = None \/ n.old = r.old
<1> DEFINE r == task[t]
           n == task'[t]
<1>1. r \in TaskRecords /\ now \in Times /\ TaskOK(r)
  BY TaskFacts, TimeTypes DEF Types
<1>2. ASSUME NEW m, Moves(t, m)
      PROVE  n = m
  BY <1>2, MovesTask
<1>3. ASSUME Moves(t, Drained(r))
      PROVE  n.pc \in {"idle", "write"} /\ n.old = None
  BY <1>1, <1>2, <1>3, DrainedFields
<1>4. ASSUME NEW pc \in PCs, Moves(t, At(r, pc))
      PROVE  /\ n.pc = pc /\ n.key = r.key /\ n.mark = r.mark /\ n.pend = r.pend /\ n.old = r.old
  BY <1>1, <1>2, <1>4, AtFields
<1>5. ASSUME Moves(t, NoTask(AnyKey))
      PROVE  n.pc = "idle" /\ n.old = None
  BY <1>2, <1>5, NoTaskFields, AnyKeyType
<1>6. "leave" \in PCs /\ "sweep" \in PCs /\ "unlink" \in PCs /\ "unmark" \in PCs
      /\ "reinsert" \in PCs /\ "marker" \in PCs
  BY DEF PCs
<1> HIDE DEF r, n
<1>7. CASE \E k \in Keys : Begin(t, k)
  BY <1>2, <1>7, BeginMoves, TurnOfFields DEF r, n
<1>8. CASE \E k \in Keys : Banish(t, k)
  <2>1. PICK k \in Keys : Banish(t, k)
    BY <1>8
  <2>2. n = At(NoTask(k), "leave")
    BY <1>2, <2>1, BanishMoves
  <2>3. NoTask(k) \in TaskRecords /\ NoTask(k).old = None
    BY NoTaskFields
  <2>4. At(NoTask(k), "leave").pc = "leave" /\ At(NoTask(k), "leave").old = None
    BY <1>6, <2>3, AtFields
  <2> QED BY <2>2, <2>4 DEF n
<1>9. CASE \E k \in Keys : Sweep(t, k)
  <2>1. PICK k \in Keys : Sweep(t, k)
    BY <1>9
  <2>2. r.pc = "sweep"
    BY <2>1 DEF Sweep, r
  <2> QED BY <1>1, <1>2, <2>1, <2>2, SweepMoves, UnlinkingFields, SweptFields DEF r, n
<1>10. CASE Stay(t)
  <2>1. r.pc = "turn" /\ MayMark
    BY <1>10 DEF Stay, r
  <2>2. CASE UNCHANGED task
    BY <2>1, <2>2 DEF r, n
  <2>3. CASE ~UNCHANGED task
    BY <1>1, <1>2, <1>10, <2>1, <2>3, StayMoves, MarkType, DeferringFields DEF Types, r, n
  <2> QED BY <2>2, <2>3
<1>11. CASE TurnEnds(t)
  BY <1>1, <1>2, <1>3, <1>11, TurnEndsMoves, LeavingFields, RefreshingFields DEF r, n
<1>12. CASE Refresh(t)
  BY <1>1, <1>2, <1>3, <1>12, RefreshMoves, RewritingFields DEF r, n
<1>13. CASE Rewrite(t)
  BY <1>3, <1>4, <1>6, <1>13, RewriteMoves DEF r, n
<1>14. CASE Reinsert(t) \/ Unmark(t)
  BY <1>3, <1>14, ReinsertMoves, UnmarkMoves DEF r, n
<1>15. CASE Write(t) \/ Leave(t) \/ Unlink(t)
  BY <1>3, <1>4, <1>6, <1>15, WriteMoves, LeaveMoves, UnlinkMoves DEF r, n
<1>16. CASE Sweeping(t)
  BY <1>1, <1>2, <1>16, SweepingMoves, UnlinkedFields DEF r, n
<1>17. CASE SweepEnds(t)
  BY <1>4, <1>5, <1>6, <1>17, SweepEndsMoves DEF r, n
<1>18. CASE Marker(t) \/ OpenFails(t)
  BY <1>3, <1>5, <1>18, MarkerMoves, OpenFailsMoves DEF r, n
<1> QED BY <1>7, <1>8, <1>9, <1>10, <1>11, <1>12, <1>13, <1>14, <1>15, <1>16, <1>17, <1>18 DEF Step, r, n

LEMMA StepFiles ==
  ASSUME Types, TaskInv, NEW t \in Tasks, Step(t)
  PROVE  /\ file' = file \/ disk = None \/ disk = t
         /\ \A k \in Keys :
              \/ file'[k] = file[k]
              \/ file'[k] = None /\ ((Unlink(t) /\ k = task[t].key) \/ (Sweeping(t) /\ k = task[t].old))
              \/ /\ Refresh(t) /\ k = task[t].key /\ Active(k, task[t].at) /\ k \notin writer
                 /\ file'[k] = Torn /\ task'[t] = Rewriting(task[t]) /\ Mark(task[t].at) \in Marks
              \/ Rewrite(t) /\ k = task[t].key /\ file'[k] \in {Torn, task[t].mark.until}
              \/ SweepEnds(t) /\ StillInvited(t) /\ k = task[t].key /\ file'[k] = Torn
              \/ Marker(t) /\ k = task[t].key /\ file'[k] \in {Torn, task[t].pend.until}
<1>1. /\ file \in [Keys -> Times \cup {None, Torn}] /\ task[t].key \in Keys
      /\ task[t].pc \in DiskPCs => disk = t
  BY TaskFacts DEF Types
<1> USE <1>1
<1>2. CASE (\E j \in Keys : Begin(t, j) \/ Sweep(t, j)) \/ TurnEnds(t) \/ Write(t)
  BY <1>2 DEF Begin, Sweep, TurnEnds, Write
<1>3. CASE (\E j \in Keys : Banish(t, j)) \/ Leave(t) \/ Stay(t)
  BY <1>3 DEF Banish, Leave, Stay
<1>4. CASE Unmark(t) \/ Reinsert(t)
  BY <1>4 DEF Unmark, Reinsert
<1>5. CASE OpenFails(t)
  BY <1>5 DEF OpenFails
<1>6. CASE Unlink(t)
  BY <1>6 DEF Unlink
<1>7. CASE Refresh(t)
  <2>1. CASE UNCHANGED file
    BY <2>1
  <2>2. CASE ~UNCHANGED file
    BY <1>7, <2>2, RefreshMoves, MovesTask
  <2> QED BY <2>1, <2>2
<1>8. CASE Rewrite(t)
  <2>1. disk = t
    BY <1>8 DEF Rewrite, DiskPCs
  <2> QED BY <1>8, <2>1, RewriteMoves
<1>9. CASE Sweeping(t)
  BY <1>9, SweepingMoves DEF Sweeping, DiskPCs
<1>10. CASE SweepEnds(t)
  BY <1>10, SweepEndsMoves DEF SweepEnds, DiskPCs
<1>11. CASE Marker(t)
  BY <1>11, MarkerMoves DEF Marker, DiskPCs
<1> QED BY <1>2, <1>3, <1>4, <1>5, <1>6, <1>7, <1>8, <1>9, <1>10, <1>11 DEF Step

\* Invited again, or left for good.
LEMMA StepGone ==
  ASSUME Types, TaskInv, NEW t \in Tasks, Step(t)
  PROVE  \A k \in Keys :
           \/ gone'[k] = gone[k] /\ ~(Unmark(t) /\ k = task[t].key)
              /\ ~(Stay(t) /\ ~UNCHANGED task /\ k = task[t].key)
           \/ Stay(t) /\ k = task[t].key /\ gone'[k] = FALSE
           \/ Unmark(t) /\ k = task[t].key /\ gone'[k] = TRUE /\ resident'[k] = None /\ file' = file
<1>1. /\ gone \in [Keys -> BOOLEAN] /\ task[t].key \in Keys
      /\ resident \in [Keys -> Marks \cup {None}]
  BY TaskFacts DEF Types
<1> USE <1>1
<1>2. CASE Unmark(t)
  BY <1>2 DEF Unmark, Stay
<1>3. CASE Stay(t)
  BY <1>3 DEF Unmark, Stay
<1>4. CASE UNCHANGED gone /\ ~Unmark(t) /\ ~Stay(t)
  BY <1>4
<1>5. ASSUME ~Unmark(t), ~Stay(t)
      PROVE  UNCHANGED gone
  BY <1>5 DEF Step, Begin, Sweep, TurnEnds, Write, Banish, Leave, Reinsert, OpenFails, Unlink,
              Refresh, Rewrite, Sweeping, SweepEnds, Marker
<1> QED BY <1>2, <1>3, <1>4, <1>5

LEMMA BanishStep ==
  ASSUME Types, TaskInv, BanishInv, NEW t \in Tasks, Step(t)
  PROVE  BanishInv'
<1>0. None \notin Tasks
  BY FollowAssumption DEF Tasks
<1>1. \A u \in Tasks : task[u].key \in Keys /\ (task[u].pc \in DiskPCs => disk = u)
  BY TaskFacts
<1>2. \A k \in Keys : gone[k] \in BOOLEAN /\ gone'[k] \in BOOLEAN
  BY StepTypes DEF Types, StoreTypes
<1>3. /\ Unmark(t) => task[t].pc = "unmark" /\ disk = t
      /\ Reinsert(t) => task[t].pc = "reinsert"
      /\ Rewrite(t) => task[t].pc = "rewrite"
      /\ Marker(t) => task[t].pc = "marker"
  BY <1>1 DEF Unmark, Reinsert, Rewrite, Marker, DiskPCs
<1>4. ASSUME NEW k \in Keys, gone'[k]
      PROVE  resident'[k] = None /\ file'[k] = None
  <2>1. CASE Unmark(t) /\ k = task[t].key
    BY <1>3, <1>4, <2>1, StepGone DEF BanishInv, Unmark
  <2>2. CASE gone'[k] = gone[k] /\ ~(Stay(t) /\ ~UNCHANGED task /\ k = task[t].key)
    <3>1. gone[k] /\ resident[k] = None /\ file[k] = None
      BY <1>4, <2>2 DEF BanishInv, BanishKept
    <3>2. resident'[k] = None
      <4>1. CASE Stay(t) /\ k = task[t].key /\ resident'[k] = Mark(now)
                 /\ task'[t] = Deferring(task[t], Mark(now)) /\ Mark(now) \in Marks
        <5>1. Mark(now) # None /\ task[t].pend = None
          BY <4>1, FollowAssumption DEF Stay, Marks, Times, Seqs
        <5>2. task'[t].pend # task[t].pend
          BY <4>1, <5>1, DeferringFields, TaskFacts
        <5> QED BY <2>2, <4>1, <5>2
      <4>2. CASE Reinsert(t) /\ k = task[t].key
        BY <1>3, <3>1, <4>2 DEF BanishInv
      <4> QED BY <3>1, <4>1, <4>2, StepTickets
    <3>3. file'[k] = None
      <4>1. ~(Rewrite(t) /\ k = task[t].key) /\ ~(Marker(t) /\ k = task[t].key)
        BY <1>3, <3>1 DEF BanishInv
      <4>2. ~Active(k, task[t].at) /\ ~(StillInvited(t) /\ k = task[t].key)
        BY <3>1 DEF Active, StillInvited
      <4> QED BY <3>1, <4>1, <4>2, StepFiles
    <3> QED BY <3>2, <3>3
  <2> QED BY <1>4, <2>1, <2>2, StepGone
<1>5. ASSUME NEW u \in Tasks, task'[u].pc = "unmark"
      PROVE  file'[task'[u].key] = None
  <2>1. CASE u = t
    <3>1. Unlink(t) /\ task'[t].key = task[t].key /\ task'[t].pc = "unmark"
      BY <1>5, <2>1, StepPC
    <3>2. task' = [task EXCEPT ![t] = Drained(task[t])] => task'[t].pc # "unmark"
      BY DrainedFields, TaskFacts DEF Types
    <3>3. file' = [file EXCEPT ![task[t].key] = None]
      BY <3>1, <3>2 DEF Unlink, Drain, Become
    <3> QED BY <1>1, <2>1, <3>1, <3>3 DEF Types
  <2>2. CASE u # t
    <3>1. task'[u] = task[u] /\ disk = u
      BY <1>1, <1>5, <2>2, OthersStay DEF DiskPCs
    <3>2. file' = file
      BY <1>0, <2>2, <3>1, StepFiles
    <3> QED BY <1>5, <3>1, <3>2 DEF BanishInv
  <2> QED BY <2>1, <2>2
<1>6. ASSUME NEW u \in Tasks, task'[u].pc \in {"rewrite", "reinsert", "marker"}
      PROVE  gone'[task'[u].key] = FALSE
  <2>1. CASE u = t
    <3>1. task'[t].key = task[t].key /\ (Refresh(t) \/ Rewrite(t) \/ SweepEnds(t))
      BY <1>6, <2>1, StepPC
    <3>2. gone' = gone
      BY <3>1 DEF Refresh, Rewrite, SweepEnds
    <3>3. CASE Rewrite(t)
      BY <1>3, <2>1, <3>1, <3>2, <3>3 DEF BanishInv
    <3>4. CASE Refresh(t)
      <4>1. Active(task[t].key, task[t].at)
        BY <1>6, <2>1, <3>4, RefreshMoves, MovesTask, DrainedFields, TaskFacts
      <4> QED BY <1>1, <1>2, <2>1, <3>1, <3>2, <4>1 DEF BanishInv, BanishKept, Active
    <3>5. CASE SweepEnds(t)
      <4>1. StillInvited(t)
        BY <1>6, <2>1, <3>5, SweepEndsMoves, MovesTask, NoTaskFields, AnyKeyType
      <4> QED BY <1>1, <1>2, <2>1, <3>1, <3>2, <4>1 DEF BanishInv, BanishKept, StillInvited
    <3> QED BY <3>1, <3>3, <3>4, <3>5
  <2>2. CASE u # t
    <3>1. task'[u] = task[u] /\ disk = u
      BY <1>1, <1>6, <2>2, OthersStay DEF DiskPCs
    <3>2. ~Unmark(t) /\ gone[task[u].key] = FALSE /\ task[u].key \in Keys
      BY <1>1, <1>3, <1>6, <2>2, <3>1 DEF BanishInv
    <3> QED BY <3>1, <3>2, StepGone
  <2> QED BY <2>1, <2>2
<1> QED BY <1>4, <1>5, <1>6 DEF BanishInv, BanishKept

LEMMA InviteStep ==
  ASSUME Types, TaskInv, SeqInv, InviteInv, NEW t \in Tasks, Step(t)
  PROVE  InviteInv'
<1>1. /\ task[t].key \in Keys
      /\ resident \in [Keys -> Marks \cup {None}] /\ written \in [Keys -> Seqs \cup {None}]
      /\ owed \in [Keys -> Seqs \cup {None}]
  BY TaskFacts DEF Types
<1> SUFFICES ASSUME NEW j \in Keys, owed'[j] # None
             PROVE  resident'[j] # None /\ resident'[j].seq = owed'[j] /\ written'[j] # owed'[j]
  BY DEF InviteInv
<1>2. owed[j] # None => resident[j] # None /\ resident[j].seq = owed[j] /\ written[j] # owed[j]
  BY DEF InviteInv
<1> USE <1>1
<1>3. ASSUME Done(t)
      PROVE  owed'[j] = owed[j] /\ (j = task[t].key => owed[j] # task[t].pend.seq)
  BY <1>3 DEF Done
<1>4. ASSUME resident' = [resident EXCEPT ![task[t].key] = KeptOnFailure(task[t].key)],
             owed' = owed
      PROVE  resident'[j] = resident[j]
  BY <1>2, <1>4 DEF KeptOnFailure
<1>5. CASE (\E k \in Keys : Begin(t, k) \/ Sweep(t, k)) \/ TurnEnds(t) \/ Write(t) \/ Refresh(t)
  BY <1>2, <1>5 DEF Begin, Sweep, TurnEnds, Write, Refresh
<1>6. CASE (\E k \in Keys : Banish(t, k)) \/ Leave(t)
  BY <1>2, <1>6 DEF Banish, Leave, Suspended
<1>7. CASE Stay(t)
  <2> DEFINE swept == [i \in Keys |-> IF i \in LapsedKeys THEN None ELSE resident[i]]
             unpaid == [i \in Keys |-> IF i \in LapsedKeys THEN None ELSE owed[i]]
  <2>1. written' = written /\ Mark(now) \in Marks /\ Mark(now).seq = nextSeq
    BY <1>7, MarkType DEF Stay, Types
  <2>2. Mark(now) # None /\ nextSeq \in Nat /\ (written[j] # None => written[j] < nextSeq)
        /\ written[j] \in Nat \cup {None}
    BY <2>1, FollowAssumption DEF Marks, Times, Seqs, SeqInv, Types
  <2>3. \/ resident' = swept /\ owed' = unpaid
        \/ /\ resident' = [swept EXCEPT ![task[t].key] = Mark(now)]
           /\ owed' = [unpaid EXCEPT ![task[t].key] = nextSeq]
    BY <1>7 DEF Stay
  <2>4. CASE j = task[t].key /\ owed'[j] = nextSeq /\ resident'[j] = Mark(now)
    <3>1. written[j] # nextSeq
      BY <2>2, FollowAssumption
    <3> QED BY <2>1, <2>2, <2>4, <3>1
  <2>5. CASE resident'[j] = swept[j] /\ owed'[j] = unpaid[j]
    BY <1>2, <2>1, <2>5
  <2> QED BY <2>3, <2>4, <2>5
<1>8. CASE Unlink(t)
  BY <1>2, <1>8 DEF Unlink
<1>9. CASE Unmark(t)
  BY <1>2, <1>9 DEF Unmark
<1>10. CASE Rewrite(t)
  <2>1. owed' = owed /\ written' = written
    BY <1>10 DEF Rewrite
  <2> QED BY <1>2, <1>4, <1>10, <2>1, RewriteMoves
<1>11. CASE Reinsert(t)
  BY <1>2, <1>11 DEF Reinsert
<1>12. CASE Sweeping(t)
  BY <1>2, <1>12 DEF Sweeping
<1>13. CASE SweepEnds(t)
  <2>1. UNCHANGED <<resident, written>>
    BY <1>13 DEF SweepEnds
  <2> QED BY <1>2, <1>3, <1>13, <2>1, SweepEndsMoves
<1>14. CASE Marker(t)
  BY <1>2, <1>3, <1>14, MarkerMoves
<1>15. CASE OpenFails(t)
  <2>1. written' = written
    BY <1>15 DEF OpenFails
  <2>2. CASE StillInvited(t) /\ resident' = [resident EXCEPT ![task[t].key] = None] /\ Done(t)
    BY <1>2, <1>3, <2>1, <2>2 DEF StillInvited
  <2> QED BY <1>2, <1>4, <1>15, <2>1, <2>2, OpenFailsMoves
<1> QED BY <1>5, <1>6, <1>7, <1>8, <1>9, <1>10, <1>11, <1>12, <1>13, <1>14, <1>15 DEF Step

\* A restart: a table of the markers that can be read.
LEMMA RestartTickets ==
  ASSUME Types, Restart
  PROVE  \A k \in Keys :
           \/ /\ k \in Loaded /\ file[k] \in Times /\ file'[k] = file[k]
              /\ resident'[k] = [until |-> file[k], seq |-> LoadIndex(k)]
              /\ resident'[k].seq < nextSeq' /\ written'[k] = resident'[k].seq
           \/ resident'[k] = None /\ written'[k] = None /\ file'[k] = None
BY LoadedFacts DEF Restart

LEMMA SafetyNext ==
  ASSUME Types, TaskInv, SeqInv, MarkInv, BanishInv, InviteInv, [Next]_vars
  PROVE  SeqInv' /\ MarkInv' /\ BanishInv' /\ InviteInv'
<1>1. CASE Clock \/ UNCHANGED vars
  <2>1. UNCHANGED <<resident, written, nextSeq, task, file, gone, owed>>
    BY <1>1 DEF Clock, vars
  <2> QED BY <2>1 DEF SeqInv, MarkInv, BanishInv, BanishKept, InviteInv
<1>2. CASE Restart
  <2>1. \A t \in Tasks : task'[t].pc = "idle" /\ task'[t].pend = None /\ task'[t].mark = None
    BY <1>2, RestartTypes, NoTaskFields, AnyKeyType
  <2>2. gone' = gone /\ owed' = [k \in Keys |-> None]
    BY <1>2 DEF Restart
  <2>3. SeqInv'
    BY <1>2, <2>1, RestartTickets DEF SeqInv
  <2>4. MarkInv'
    BY <2>1 DEF MarkInv
  <2>5. InviteInv'
    BY <2>2 DEF InviteInv
  <2>6. BanishInv'
    <3>1. None \notin Times
      BY FollowAssumption DEF Times
    <3> QED BY <1>2, <2>1, <2>2, <3>1, RestartTickets DEF BanishInv, BanishKept
  <2> QED BY <2>3, <2>4, <2>5, <2>6
<1>3. CASE \E t \in Tasks : Step(t)
  BY <1>3, SeqStep, MarkStep, BanishStep, InviteStep
<1> QED BY <1>1, <1>2, <1>3, NextSteps

-------------------------------------------------------------------------------
(* Where the marker of a ticket is. *)

\* A key is banished only when its ticket goes, and until it is unlinked.
LEMMA StepWriter ==
  ASSUME Types, TaskInv, NEW t \in Tasks, Step(t)
  PROVE  /\ \A k \in Keys : k \in writer' /\ k \notin writer =>
              /\ resident'[k] = None /\ resident[k] # None
              /\ Banish(t, k) \/ (Leave(t) /\ k = task[t].key)
         /\ \A k \in Keys : k \in writer /\ k \notin writer' => Unmark(t) /\ k = task[t].key
<1>1. /\ resident \in [Keys -> Marks \cup {None}] /\ task[t].key \in Keys
  BY TaskFacts DEF Types
<1> USE <1>1
<1>2. CASE \E j \in Keys : Banish(t, j)
  BY <1>2 DEF Banish, Suspended
<1>3. CASE Leave(t)
  BY <1>3 DEF Leave, Suspended
<1>4. CASE Unmark(t)
  BY <1>4 DEF Unmark
<1>5. CASE UNCHANGED writer
  BY <1>5
<1>6. ASSUME ~Unmark(t), ~Leave(t), ~(\E j \in Keys : Banish(t, j))
      PROVE  UNCHANGED writer
  BY <1>6 DEF Step, Begin, Sweep, TurnEnds, Write, Reinsert, OpenFails, Unlink, Stay,
              Refresh, Rewrite, Sweeping, SweepEnds, Marker
<1> QED BY <1>2, <1>3, <1>4, <1>5, <1>6

\* A deferred write is given up only where it is over.
LEMMA StepDrops ==
  ASSUME Types, TaskInv, NEW t \in Tasks, Step(t), task[t].pend # None, task'[t].pend = None
  PROVE  \/ SweepEnds(t) /\ ~StillInvited(t)
         \/ Marker(t)
         \/ OpenFails(t) /\ StillInvited(t) /\ resident' = [resident EXCEPT ![task[t].key] = None]
<1> DEFINE r == task[t]
           n == task'[t]
<1>1. r \in TaskRecords /\ now \in Times /\ TaskOK(r)
  BY TaskFacts, TimeTypes DEF Types
<1>2. ASSUME NEW m, Moves(t, m)
      PROVE  n = m
  BY <1>2, MovesTask
<1>3. ~Moves(t, Drained(r))
  BY <1>1, <1>2, DrainedFields
<1>4. ASSUME NEW pc \in PCs
      PROVE  ~Moves(t, At(r, pc))
  BY <1>1, <1>2, <1>4, AtFields
<1>5. "sweep" \in PCs /\ "unlink" \in PCs /\ "unmark" \in PCs
      /\ "reinsert" \in PCs /\ "marker" \in PCs
  BY DEF PCs
<1>6. r.pc # "idle"
  BY <1>1 DEF TaskOK
<1> HIDE DEF r, n
<1>7. ~(\E k \in Keys : Begin(t, k) \/ Banish(t, k))
  BY <1>6 DEF Begin, Banish, r
<1>8. ~(\E k \in Keys : Sweep(t, k))
  BY <1>1, <1>2, SweepMoves, UnlinkingFields, SweptFields DEF r, n
<1>9. ~Stay(t)
  BY DEF Stay
<1>10. ~TurnEnds(t)
  BY <1>1, <1>2, <1>3, TurnEndsMoves, LeavingFields, RefreshingFields DEF r, n
<1>11. ~Refresh(t)
  BY <1>1, <1>2, <1>3, RefreshMoves, RewritingFields DEF r, n
<1>12. ~Rewrite(t)
  BY <1>3, <1>4, <1>5, RewriteMoves DEF r
<1>13. ~Reinsert(t) /\ ~Unmark(t)
  BY <1>3, ReinsertMoves, UnmarkMoves DEF r
<1>14. ~Write(t) /\ ~Leave(t) /\ ~Unlink(t)
  BY <1>3, <1>4, <1>5, WriteMoves, LeaveMoves, UnlinkMoves DEF r
<1>15. ~Sweeping(t)
  BY <1>1, <1>2, SweepingMoves, UnlinkedFields DEF r, n
<1>16. CASE SweepEnds(t)
  BY <1>4, <1>5, <1>16, SweepEndsMoves DEF r
<1>17. CASE OpenFails(t)
  BY <1>3, <1>17, OpenFailsMoves DEF r
<1> QED BY <1>7, <1>8, <1>9, <1>10, <1>11, <1>12, <1>13, <1>14, <1>15, <1>16, <1>17 DEF Step

\* The second half of AgreeInv: what a refresh knows while it rewrites.
LEMMA RewriteStep ==
  ASSUME Types, TaskInv, AgreeInv, NEW t \in Tasks, Step(t), NEW u \in Tasks
  PROVE  LET k == task'[u].key IN
         /\ task'[u].pc = "rewrite" /\ k \in writer' => resident'[k] = None
         /\ task'[u].pc = "reinsert" => file'[k] = task'[u].mark.until
<1>0. None \notin Tasks
  BY FollowAssumption DEF Tasks
<1>1. \A v \in Tasks : task[v].key \in Keys /\ (task[v].pc \in DiskPCs => disk = v)
  BY TaskFacts
<1>2. ASSUME u # t
      PROVE  /\ task'[u] = task[u]
             /\ task[u].pc \in DiskPCs => disk = u /\ file' = file /\ ~Reinsert(t)
  <2>1. task'[u] = task[u]
    BY <1>2, OthersStay
  <2>2. ASSUME task[u].pc \in DiskPCs
        PROVE  disk = u /\ file' = file /\ ~Reinsert(t)
    BY <1>0, <1>1, <1>2, <2>2, StepFiles DEF Reinsert, DiskPCs
  <2> QED BY <2>1, <2>2
<1>3. ASSUME task'[u].pc = "rewrite", task'[u].key \in writer'
      PROVE  resident'[task'[u].key] = None
  <2>1. CASE u = t
    <3>1. Refresh(t) /\ task'[t].key = task[t].key
      BY <1>3, <2>1, StepPC
    <3>2. task[t].key \notin writer /\ writer' = writer
      <4>1. ~Moves(t, Drained(task[t]))
        BY <1>3, <2>1, MovesTask, DrainedFields, TaskFacts
      <4> QED BY <3>1, <4>1, RefreshMoves DEF Refresh
    <3> QED BY <1>3, <2>1, <3>1, <3>2
  <2>2. CASE u # t
    <3>1. task'[u] = task[u] /\ ~Reinsert(t) /\ task[u].key \in Keys
      BY <1>1, <1>2, <1>3, <2>2 DEF DiskPCs
    <3>2. CASE task[u].key \in writer
      <4>1. resident[task[u].key] = None
        BY <1>3, <3>1, <3>2 DEF AgreeInv
      <4>2. ~(Stay(t) /\ task[u].key = task[t].key)
        BY <3>2 DEF Stay
      <4> QED BY <3>1, <4>1, <4>2, StepTickets
    <3>3. CASE task[u].key \notin writer
      BY <1>3, <3>1, <3>3, StepWriter
    <3> QED BY <3>2, <3>3
  <2> QED BY <2>1, <2>2
<1>4. ASSUME task'[u].pc = "reinsert"
      PROVE  file'[task'[u].key] = task'[u].mark.until
  <2>1. CASE u = t
    <3>1. Rewrite(t) /\ task'[t].key = task[t].key /\ task'[t].mark = task[t].mark
      BY <1>4, <2>1, StepPC
    <3>2. ~Moves(t, Drained(task[t]))
      BY <1>4, <2>1, MovesTask, DrainedFields, TaskFacts
    <3> QED BY <1>1, <2>1, <3>1, <3>2, RewriteMoves DEF Types
  <2>2. CASE u # t
    BY <1>2, <1>4, <2>2 DEF AgreeInv, DiskPCs
  <2> QED BY <2>1, <2>2
<1> QED BY <1>3, <1>4

\* While a thread works under the disk mutex no other does.
LEMMA DiskAlone ==
  ASSUME Types, TaskInv, NEW t \in Tasks, Step(t), task[t].pc \in DiskPCs, NEW u \in Tasks, u # t
  PROVE  task'[u].pc \notin DiskPCs /\ task'[u] = task[u]
<1>1. task'[u] = task[u]
  BY OthersStay
<1>2. task[u].pc \notin DiskPCs
  BY TaskFacts
<1> QED BY <1>1, <1>2

\* The thread that ends its work under the disk mutex leaves the marker of k
\* to nobody.
LEMMA DiskFree ==
  ASSUME Types, TaskInv, NEW t \in Tasks, Step(t), task[t].pc \in DiskPCs,
         task'[t].pc \notin DiskPCs, NEW k \in Keys
  PROVE  /\ \A u \in Tasks : ~(task'[u].key = k /\ task'[u].pc = "marker")
         /\ \A u \in Tasks : ~(task'[u].pc = "sweeping" /\ task'[u].old = k)
BY DiskAlone DEF DiskPCs

\* A new ticket is deferred (stay) or on disk (refresh).
LEMMA NewTicket ==
  ASSUME Types, TaskInv, AgreeInv, NEW t \in Tasks, Step(t), NEW k \in Keys, k = task[t].key,
         \/ Stay(t) /\ resident'[k] = Mark(now) /\ Mark(now) \in Marks
            /\ task'[t] = Deferring(task[t], Mark(now))
         \/ Reinsert(t)
  PROVE  (Deferred(k)' /\ k \notin writer') \/ OnDisk(k)'
<1>1. CASE Stay(t) /\ resident'[k] = Mark(now) /\ Mark(now) \in Marks
           /\ task'[t] = Deferring(task[t], Mark(now))
  <2>1. task'[t].key = k /\ task'[t].pend = resident'[k]
    BY <1>1, DeferringFields, TaskFacts
  <2>2. k \notin writer'
    BY <1>1 DEF Stay
  <2> QED BY <2>1, <2>2 DEF Deferred
<1>2. CASE Reinsert(t)
  <2>1. /\ task[t].pc = "reinsert" /\ task[t].pc \in DiskPCs
        /\ resident'[k] = task[t].mark /\ written'[k] = task[t].mark.seq /\ file' = file
    BY <1>2 DEF Reinsert, DiskPCs, Types
  <2>2. file[k] = task[t].mark.until
    BY <2>1 DEF AgreeInv
  <2>3. task'[t].pc \notin DiskPCs
    BY <1>2, ReinsertMoves, MovesTask, DrainedFields, TaskFacts DEF DiskPCs
  <2> QED BY <2>1, <2>2, <2>3, DiskFree DEF OnDisk, InState
<1> QED BY <1>1, <1>2

\* A deferred ticket stays deferred until it is on disk.
LEMMA DeferredTicket ==
  ASSUME Types, TaskInv, MarkInv, AgreeInv, NEW t \in Tasks, Step(t), NEW k \in Keys,
         resident[k] # None, resident'[k] = resident[k], Deferred(k), k \notin writer
  PROVE  (Deferred(k)' /\ k \notin writer') \/ OnDisk(k)'
<1>1. k \notin writer'
  BY StepWriter
<1>2. PICK u \in Tasks : task[u].key = k /\ task[u].pend = resident[k]
  BY DEF Deferred
<1>3. CASE task'[u].key = k /\ task'[u].pend = resident[k]
  BY <1>1, <1>3 DEF Deferred
<1>4. CASE u # t
  BY <1>2, <1>3, <1>4, OthersStay
<1>5. CASE u = t /\ task'[t].pend # None
  <2>1. CASE Carries(task[t], task'[t])
    BY <1>2, <1>3, <1>5, <2>1 DEF Carries
  <2>2. CASE Stay(t)
    BY <1>2, <1>5, <2>2 DEF Stay
  <2>3. CASE Refresh(t) /\ task'[t] = Rewriting(task[t]) /\ Mark(task[t].at) \in Marks
    BY <1>2, <1>3, <1>5, <2>3, RewritingFields, TaskFacts
  <2> QED BY <2>1, <2>2, <2>3, StepMarks
<1>6. CASE u = t /\ task'[t].pend = None
  <2>1. StillInvited(t)
    BY <1>2, <1>6 DEF StillInvited
  <2>2. ~(resident' = [resident EXCEPT ![k] = None])
    BY DEF Types
  <2>3. Marker(t)
    BY <1>2, <1>6, <2>1, <2>2, StepDrops
  <2>4. /\ task[t].pc = "marker" /\ task[t].pc \in DiskPCs
    BY <2>3 DEF Marker, DiskPCs
  <2>5. file' = [file EXCEPT ![k] = task[t].pend.until]
        /\ written' = [written EXCEPT ![k] = task[t].pend.seq]
    BY <1>2, <1>6, <2>2, <2>3, MarkerMoves
  <2>6. task'[t].pc \notin DiskPCs
    BY <2>3, MarkerMoves, MovesTask, NoTaskFields, AnyKeyType DEF DiskPCs
  <2>7. file'[k] = resident'[k].until /\ written'[k] = resident'[k].seq
    BY <1>2, <1>6, <2>5 DEF Types
  <2> QED BY <2>4, <2>6, <2>7, DiskFree DEF OnDisk, InState
<1> QED BY <1>4, <1>5, <1>6

\* A ticket on disk stays there, is being rewritten, or is about to be left.
LEMMA DiskTicket ==
  ASSUME Types, TaskInv, MarkInv, AgreeInv, NEW t \in Tasks, Step(t), NEW k \in Keys,
         resident[k] # None, resident'[k] = resident[k], OnDisk(k), ~Reinsert(t) \/ task[t].key # k
  PROVE  (Deferred(k)' /\ k \notin writer') \/ InState(k, {"unmark"})' \/ OnDisk(k)'
<1>0. /\ \A u \in Tasks : task[u].key \in Keys /\ (task[u].pc \in DiskPCs => disk = u)
      /\ None \notin Tasks
  BY TaskFacts, FollowAssumption DEF Tasks
<1>1. ~(Marker(t) /\ k = task[t].key) /\ ~(Sweeping(t) /\ k = task[t].old)
  BY DEF OnDisk, InState, Marker, Sweeping
<1>2. CASE Unlink(t) /\ k = task[t].key /\ task'[t].pc = "unmark"
  BY <1>2, StepPC DEF InState
<1>3. CASE SweepEnds(t) /\ StillInvited(t) /\ k = task[t].key
  <2>1. task'[t].key = task[t].key /\ task'[t].pend = task[t].pend
    <3>1. "marker" \in PCs
      BY DEF PCs
    <3> QED BY <1>3, <3>1, SweepEndsMoves, MovesTask, AtFields, TaskFacts
  <2>2. task[t].pend = resident[k]
    <3>1. task[t].pend # None
      BY <1>3, TaskFacts DEF SweepEnds, TaskOK
    <3> QED BY <1>3, <3>1 DEF MarkInv, StillInvited
  <2>3. k \notin writer'
    BY <1>3 DEF StillInvited, SweepEnds
  <2> QED BY <1>3, <2>1, <2>2, <2>3 DEF Deferred
<1>4. CASE ~(Unlink(t) /\ k = task[t].key /\ task'[t].pc = "unmark")
           /\ ~(SweepEnds(t) /\ StillInvited(t) /\ k = task[t].key)
  <2>1. Unlink(t) /\ k = task[t].key => file' = file /\ written' = written
    <3>1. "unmark" \in PCs
      BY DEF PCs
    <3> QED BY <1>4, <3>1, UnlinkMoves, MovesTask, AtFields, TaskFacts
  <2>2. written'[k] = resident'[k].seq
    <3>1. ~(Unlink(t) /\ k = task[t].key /\ written'[k] # written[k])
      BY <2>1
    <3> QED BY <1>1, <3>1, StepTickets DEF OnDisk
  <2>3. file'[k] = resident'[k].until \/ InState(k, {"rewrite", "reinsert"})'
    <3>1. CASE Refresh(t) /\ k = task[t].key /\ task'[t] = Rewriting(task[t])
               /\ Mark(task[t].at) \in Marks
      BY <3>1, RewritingFields, TaskFacts DEF InState
    <3>2. CASE Rewrite(t) /\ k = task[t].key
      <4>1. task[t].pc = "rewrite"
        BY <3>2 DEF Rewrite
      <4>2. k \notin writer
        BY <3>2, <4>1 DEF AgreeInv
      <4>3. KeptOnFailure(k) = None
        <5>1. written[k] = resident[k].seq /\ resident[k].seq \in Nat
          BY FollowAssumption DEF OnDisk, Types, Marks, Seqs
        <5>2. written[k] # None
          BY <5>1, FollowAssumption
        <5> QED BY <5>1, <5>2 DEF KeptOnFailure
      <4>4. ~(resident' = [resident EXCEPT ![k] = KeptOnFailure(k)])
        BY <4>3 DEF Types
      <4>5. Moves(t, At(task[t], "reinsert")) /\ "reinsert" \in PCs
        BY <3>2, <4>2, <4>4, RewriteMoves DEF PCs
      <4> QED BY <3>2, <4>5, MovesTask, AtFields, TaskFacts DEF InState
    <3>3. ~(Unlink(t) /\ k = task[t].key /\ file'[k] # file[k])
      BY <2>1
    <3>4. CASE file'[k] = file[k]
      <4>1. CASE file[k] = resident[k].until
        BY <3>4, <4>1
      <4>2. CASE InState(k, {"rewrite", "reinsert"})
        <5>1. PICK u \in Tasks : task[u].key = k /\ task[u].pc \in {"rewrite", "reinsert"}
          BY <4>2 DEF InState
        <5>2. CASE u # t
          BY <5>1, <5>2, OthersStay DEF InState
        <5>3. CASE u = t
          <6>1. Rewrite(t) \/ Reinsert(t)
            BY <5>1, <5>3 DEF Step, Begin, Banish, Sweep, Stay, TurnEnds, Refresh, Write, Sweeping,
                              SweepEnds, Marker, OpenFails, Leave, Unlink, Unmark
          <6> QED BY <3>2, <5>1, <5>3, <6>1
        <5> QED BY <5>2, <5>3
      <4> QED BY <4>1, <4>2 DEF OnDisk
    <3> QED BY <1>1, <1>4, <3>1, <3>2, <3>3, <3>4, StepFiles
  <2>4. ~InState(k, {"marker"})'
    <3> SUFFICES ASSUME NEW u \in Tasks, task'[u].key = k, task'[u].pc = "marker"
                 PROVE  FALSE
      BY DEF InState
    <3>1. CASE u # t
      BY <3>1, OthersStay DEF OnDisk, InState
    <3>2. CASE u = t
      <4>1. SweepEnds(t) /\ task[t].key = k
        BY <3>2, StepPC
      <4> QED BY <1>4, <3>2, <4>1, SweepEndsMoves, MovesTask, NoTaskFields, AnyKeyType
    <3> QED BY <3>1, <3>2
  <2>5. \A u \in Tasks : ~(task'[u].pc = "sweeping" /\ task'[u].old = k)
    BY StepPC, OthersStay DEF OnDisk
  <2> QED BY <2>2, <2>3, <2>4, <2>5 DEF OnDisk
<1> QED BY <1>2, <1>3, <1>4

LEMMA AgreeStep ==
  ASSUME Types, TaskInv, MarkInv, AgreeInv, NEW t \in Tasks, Step(t)
  PROVE  AgreeInv'
<1>1. ASSUME NEW k \in Keys, resident'[k] # None
      PROVE  (Deferred(k)' /\ k \notin writer') \/ InState(k, {"unmark"})' \/ OnDisk(k)'
  <2>1. CASE Reinsert(t) /\ k = task[t].key
    BY <2>1, NewTicket
  <2>2. CASE /\ Stay(t) /\ k = task[t].key /\ resident'[k] = Mark(now)
             /\ task'[t] = Deferring(task[t], Mark(now)) /\ Mark(now) \in Marks
    BY <2>2, NewTicket
  <2>3. CASE resident'[k] = resident[k] /\ ~(Reinsert(t) /\ k = task[t].key)
    <3>1. CASE Deferred(k) /\ k \notin writer
      BY <1>1, <2>3, <3>1, DeferredTicket
    <3>2. CASE InState(k, {"unmark"})
      <4>1. PICK u \in Tasks : task[u].key = k /\ task[u].pc = "unmark"
        BY <3>2 DEF InState
      <4>2. CASE u # t
        BY <4>1, <4>2, OthersStay DEF InState
      <4>3. CASE u = t
        <5>1. Unmark(t)
          BY <4>1, <4>3 DEF Step, Begin, Banish, Sweep, Stay, TurnEnds, Refresh, Write, Sweeping,
                            SweepEnds, Marker, OpenFails, Leave, Unlink, Rewrite, Reinsert
        <5> QED BY <1>1, <4>1, <4>3, <5>1 DEF Unmark, Types
      <4> QED BY <4>2, <4>3
    <3>3. CASE OnDisk(k)
      BY <1>1, <2>3, <3>3, DiskTicket
    <3> QED BY <1>1, <2>3, <3>1, <3>2, <3>3 DEF AgreeInv
  <2> QED BY <1>1, <2>1, <2>2, <2>3, StepTickets
<1>2. \A u \in Tasks :
         /\ task'[u].pc = "rewrite" /\ task'[u].key \in writer' => resident'[task'[u].key] = None
         /\ task'[u].pc = "reinsert" => file'[task'[u].key] = task'[u].mark.until
  BY RewriteStep
<1> QED BY <1>1, <1>2 DEF AgreeInv

-------------------------------------------------------------------------------
(* The clock, and markers without a ticket. *)

LEMMA StepAt ==
  ASSUME Types, TaskInv, NEW t \in Tasks, Step(t)
  PROVE  now' = now /\ (task'[t].at \in {0, now, task[t].at})
<1> DEFINE r == task[t]
           n == task'[t]
<1>1. r \in TaskRecords /\ now \in Times
  BY TaskFacts, TimeTypes DEF Types
<1>2. ASSUME NEW m, Moves(t, m)
      PROVE  n = m
  BY <1>2, MovesTask
<1>3. ASSUME Moves(t, Drained(r))
      PROVE  n.at = 0
  BY <1>1, <1>2, <1>3, DrainedFields
<1>4. ASSUME NEW pc \in PCs, Moves(t, At(r, pc))
      PROVE  n.at = r.at
  BY <1>1, <1>2, <1>4, AtFields
<1>5. ASSUME Moves(t, NoTask(AnyKey))
      PROVE  n.at = 0
  BY <1>2, <1>5, NoTaskFields, AnyKeyType
<1>6. "leave" \in PCs /\ "sweep" \in PCs /\ "unlink" \in PCs /\ "unmark" \in PCs
      /\ "reinsert" \in PCs /\ "marker" \in PCs
  BY DEF PCs
<1>7. now' = now
  BY DEF Step, Begin, Banish, Sweep, Stay, TurnEnds, Refresh, Write, Sweeping,
         SweepEnds, Marker, OpenFails, Leave, Unlink, Unmark, Rewrite, Reinsert
<1> HIDE DEF r, n
<1>8. CASE \E k \in Keys : Begin(t, k)
  BY <1>2, <1>7, <1>8, BeginMoves, TurnOfFields DEF r, n
<1>9. CASE \E k \in Keys : Banish(t, k)
  <2>1. PICK k \in Keys : Banish(t, k)
    BY <1>9
  <2>2. n = At(NoTask(k), "leave")
    BY <1>2, <2>1, BanishMoves
  <2>3. NoTask(k) \in TaskRecords /\ NoTask(k).at = 0
    BY NoTaskFields
  <2>4. At(NoTask(k), "leave").at = 0
    BY <1>6, <2>3, AtFields
  <2> QED BY <1>7, <2>2, <2>4 DEF n
<1>10. CASE \E k \in Keys : Sweep(t, k)
  BY <1>1, <1>2, <1>7, <1>10, SweepMoves, UnlinkingFields, SweptFields DEF r, n
<1>11. CASE Stay(t)
  <2>1. CASE UNCHANGED task
    BY <1>7, <2>1
  <2>2. CASE ~UNCHANGED task
    <3>1. Mark(now) \in Marks
      BY <1>11, MarkType DEF Stay, Types
    <3>2. n = Deferring(r, Mark(now))
      BY <1>2, <1>11, <2>2, StayMoves DEF r
    <3>3. n.at = r.at
      BY <1>1, <3>1, <3>2, DeferringFields
    <3> QED BY <1>7, <3>3 DEF r, n
  <2> QED BY <2>1, <2>2
<1>12. CASE TurnEnds(t)
  BY <1>1, <1>2, <1>3, <1>7, <1>12, TurnEndsMoves, LeavingFields, RefreshingFields DEF r, n
<1>13. CASE Refresh(t)
  BY <1>1, <1>2, <1>3, <1>7, <1>13, RefreshMoves, RewritingFields DEF r, n
<1>14. CASE Rewrite(t)
  BY <1>3, <1>4, <1>6, <1>7, <1>14, RewriteMoves DEF r, n
<1>15. CASE Reinsert(t) \/ Unmark(t)
  BY <1>3, <1>7, <1>15, ReinsertMoves, UnmarkMoves DEF r, n
<1>16. CASE Write(t) \/ Leave(t) \/ Unlink(t)
  BY <1>3, <1>4, <1>6, <1>7, <1>16, WriteMoves, LeaveMoves, UnlinkMoves DEF r, n
<1>17. CASE Sweeping(t)
  BY <1>1, <1>2, <1>7, <1>17, SweepingMoves, UnlinkedFields DEF r, n
<1>18. CASE SweepEnds(t)
  BY <1>4, <1>5, <1>6, <1>7, <1>18, SweepEndsMoves DEF r, n
<1>19. CASE Marker(t) \/ OpenFails(t)
  BY <1>3, <1>5, <1>7, <1>19, MarkerMoves, OpenFailsMoves DEF r, n
<1> QED BY <1>8, <1>9, <1>10, <1>11, <1>12, <1>13, <1>14, <1>15, <1>16, <1>17, <1>18, <1>19
        DEF Step

LEMMA ClockStep ==
  ASSUME Types, TaskInv, ClockInv, NEW t \in Tasks, Step(t)
  PROVE  ClockInv'
<1>1. /\ now \in Nat /\ Lapse \in Nat /\ now' = now
      /\ Torn \notin Times /\ None \notin Times
  BY StepAt, FollowAssumption DEF Types, Times
<1>2. \A u \in Tasks : /\ task[u] \in TaskRecords /\ task[u].at \in Nat /\ TaskOK(task[u])
                       /\ task[u].mark \in Marks \cup {None} /\ task[u].pend \in Marks \cup {None}
  BY TaskFacts
<1>3. \A n \in Nat : Mark(n).until = n + Lapse
  BY DEF Mark
<1>4. ASSUME NEW u \in Tasks
      PROVE  /\ task'[u].at <= now
             /\ task'[u].pend # None => task'[u].pend.until <= now + Lapse
             /\ task'[u].mark # None => task'[u].mark.until <= now + Lapse
  <2>1. CASE u # t
    BY <2>1, OthersStay DEF ClockInv
  <2>2. CASE u = t
    <3>1. task'[t].at <= now
      BY <1>1, <1>2, StepAt DEF ClockInv
    <3>2. task'[t].pend # None => task'[t].pend.until <= now + Lapse
      <4>1. CASE Carries(task[t], task'[t])
        BY <4>1 DEF ClockInv, Carries
      <4>2. CASE task'[t] = Deferring(task[t], Mark(now)) /\ Mark(now) \in Marks
        BY <1>1, <1>2, <1>3, <4>2, DeferringFields
      <4>3. CASE task'[t] = Rewriting(task[t]) /\ Mark(task[t].at) \in Marks
        BY <1>2, <4>3, RewritingFields DEF ClockInv
      <4> QED BY <4>1, <4>2, <4>3, StepMarks
    <3>3. task'[t].mark # None => task'[t].mark.until <= now + Lapse
      <4>1. CASE Carries(task[t], task'[t])
        BY <4>1 DEF ClockInv, Carries
      <4>2. CASE task'[t] = Deferring(task[t], Mark(now)) /\ Mark(now) \in Marks
        BY <1>2, <4>2, DeferringFields DEF ClockInv
      <4>3. CASE task'[t] = Rewriting(task[t]) /\ Mark(task[t].at) \in Marks
        <5>1. task'[t].mark.until = task[t].at + Lapse
          BY <1>2, <1>3, <4>3, RewritingFields
        <5>2. task[t].at + Lapse <= now + Lapse
          BY <1>1, <1>2 DEF ClockInv
        <5> QED BY <5>1, <5>2
      <4> QED BY <4>1, <4>2, <4>3, StepMarks
    <3> QED BY <2>2, <3>1, <3>2, <3>3
  <2> QED BY <2>1, <2>2
<1>5. ASSUME NEW k \in Keys, file'[k] \in Times
      PROVE  file'[k] <= now + Lapse
  <2>1. Rewrite(t) => task[t].mark # None
    BY <1>2 DEF Rewrite, TaskOK
  <2>2. Marker(t) => task[t].pend # None
    BY <1>2 DEF Marker, TaskOK
  <2> QED BY <1>1, <1>5, <2>1, <2>2, StepFiles DEF ClockInv
<1> QED BY <1>1, <1>4, <1>5 DEF ClockInv

LEMMA StepFaults ==
  ASSUME Types, TaskInv, NEW t \in Tasks, Step(t), faults' = 0
  PROVE  faults = 0 /\ faults' = faults
<1>1. faults \in Nat
  BY FollowAssumption DEF Types
<1>2. faults' = faults \/ faults' = faults + 1
  BY DEF Step, Begin, Banish, Sweep, Stay, TurnEnds, Refresh, Write, Sweeping, SweepEnds, Marker,
         OpenFails, Leave, Unlink, Unmark, Rewrite, Reinsert, OpenMarker, WriteMarker,
         WriteMarkerFails
<1> QED BY <1>1, <1>2

\* A ticket that goes without a fault is left, or has lapsed.
LEMMA StepLoses ==
  ASSUME Types, TaskInv, NEW t \in Tasks, Step(t), faults' = 0, NEW k \in Keys,
         resident[k] # None, resident'[k] = None
  PROVE  /\ \/ Banish(t, k)
            \/ Leave(t) /\ k = task[t].key
            \/ Unmark(t) /\ k = task[t].key
            \/ Stay(t) /\ resident[k].until <= now
         /\ file' = file
<1>1. /\ resident \in [Keys -> Marks \cup {None}] /\ task[t].key \in Keys
      /\ faults = 0 /\ faults' = faults
  BY TaskFacts, StepFaults DEF Types
<1> USE <1>1
<1>2. CASE (\E j \in Keys : Begin(t, j) \/ Sweep(t, j)) \/ TurnEnds(t) \/ Write(t) \/ SweepEnds(t)
           \/ Refresh(t) \/ Unlink(t) \/ Sweeping(t)
  BY <1>2 DEF Begin, Sweep, TurnEnds, Write, SweepEnds, Refresh, Unlink, Sweeping
<1>3. CASE (\E j \in Keys : Banish(t, j)) \/ Leave(t)
  BY <1>3 DEF Banish, Leave, Suspended
<1>4. CASE Stay(t)
  <2>1. file' = file
    BY <1>4 DEF Stay
  <2>2. CASE resident' = [j \in Keys |-> IF j \in LapsedKeys THEN None ELSE resident[j]]
    BY <1>4, <2>1, <2>2 DEF LapsedKeys
  <2>3. CASE resident' = [[j \in Keys |-> IF j \in LapsedKeys THEN None ELSE resident[j]]
                            EXCEPT ![task[t].key] = Mark(now)]
    <3>1. Mark(now) # None
      BY <1>4, MarkType, FollowAssumption DEF Stay, Types, Marks, Times, Seqs
    <3> QED BY <1>4, <2>1, <2>3, <3>1 DEF LapsedKeys
  <2> QED BY <1>4, <2>2, <2>3 DEF Stay
<1>5. CASE Unmark(t)
  BY <1>5 DEF Unmark
<1>6. CASE Rewrite(t) \/ Marker(t) \/ OpenFails(t)
  BY <1>6, RewriteMoves, MarkerMoves, OpenFailsMoves
<1>7. CASE Reinsert(t)
  <2>1. task[t].mark # None
    BY <1>7, TaskFacts DEF Reinsert, TaskOK
  <2> QED BY <1>7, <2>1 DEF Reinsert
<1> QED BY <1>2, <1>3, <1>4, <1>5, <1>6, <1>7 DEF Step

\* A leave under way goes on until its marker is unlinked.
LEMMA LeaveGoesOn ==
  ASSUME Types, TaskInv, NEW t \in Tasks, Step(t), faults' = 0, NEW k \in Keys
  PROVE  /\ InState(k, {"leave", "unlink"}) =>
              \/ InState(k, {"leave", "unlink"})'
              \/ /\ Unlink(t) /\ k = task[t].key /\ disk = None /\ file'[k] = None
                 /\ InState(k, {"unmark"})'
         /\ Banish(t, k) \/ (Leave(t) /\ k = task[t].key) => InState(k, {"leave", "unlink"})'
<1>1. task[t].key \in Keys /\ "unlink" \in PCs /\ "leave" \in PCs /\ "unmark" \in PCs
      /\ task[t] \in TaskRecords /\ faults' = faults /\ faults = 0
  BY TaskFacts, StepFaults DEF PCs
<1>2. ASSUME Leave(t)
      PROVE  task'[t].key = task[t].key /\ task'[t].pc = "unlink"
  BY <1>1, <1>2, LeaveMoves, MovesTask, AtFields
<1>3. ASSUME Banish(t, k)
      PROVE  task'[t].key = k /\ task'[t].pc = "leave"
  <2>1. task'[t] = At(NoTask(k), "leave")
    BY <1>3, BanishMoves, MovesTask
  <2>2. NoTask(k) \in TaskRecords /\ NoTask(k).key = k
    BY NoTaskFields
  <2> QED BY <1>1, <2>1, <2>2, AtFields
<1>4. ASSUME Unlink(t)
      PROVE  task'[t].key = task[t].key /\ task'[t].pc = "unmark" /\ file'[task[t].key] = None
             /\ disk = None
  <2>1. Moves(t, At(task[t], "unmark")) /\ file' = [file EXCEPT ![task[t].key] = None]
    BY <1>1, <1>4, UnlinkMoves
  <2> QED BY <1>1, <1>4, <2>1, MovesTask, AtFields DEF Types, Unlink
<1>5. ASSUME InState(k, {"leave", "unlink"})
      PROVE  \/ InState(k, {"leave", "unlink"})'
             \/ /\ Unlink(t) /\ k = task[t].key /\ disk = None /\ file'[k] = None
                /\ InState(k, {"unmark"})'
  <2>1. PICK u \in Tasks : task[u].key = k /\ task[u].pc \in {"leave", "unlink"}
    BY <1>5 DEF InState
  <2>2. CASE u # t
    BY <2>1, <2>2, OthersStay DEF InState
  <2>3. CASE u = t
    <3>1. Leave(t) \/ Unlink(t)
      BY <2>1, <2>3 DEF Step, Begin, Banish, Sweep, Stay, TurnEnds, Refresh, Write, Sweeping,
                        SweepEnds, Marker, OpenFails, Unmark, Rewrite, Reinsert
    <3> QED BY <1>2, <1>4, <2>1, <2>3, <3>1 DEF InState
  <2> QED BY <2>2, <2>3
<1> QED BY <1>2, <1>3, <1>5 DEF InState

LEMMA FreshStep ==
  ASSUME Types, TaskInv, SeqInv, BanishInv, MarkInv, AgreeInv, ClockInv, FreshInv,
         NEW t \in Tasks, Step(t), faults' = 0
  PROVE  FreshInv'
<1>0. /\ now \in Nat /\ Lapse \in Nat /\ now' = now /\ faults = 0 /\ faults' = faults
      /\ Torn \notin Times /\ None \notin Times /\ None \notin Tasks
      /\ \A m \in Marks : m # None /\ m.until \in Nat
      /\ \A n \in Times : n \in Nat
  BY StepAt, StepFaults, FollowAssumption DEF Types, Times, Tasks, Marks, Seqs
<1>1. \A u \in Tasks : /\ task[u] \in TaskRecords /\ task[u].key \in Keys /\ TaskOK(task[u])
                       /\ task[u].pc \in DiskPCs => disk = u
                       /\ task[u].mark \in Marks \cup {None} /\ task[u].pend \in Marks \cup {None}
  BY TaskFacts
<1>2. \A k \in Keys : resident[k] \in Marks \cup {None}
  BY DEF Types
<1>3. /\ Reinsert(t) => task[t].pc = "reinsert" /\ task[t].mark # None /\ disk = t
      /\ Rewrite(t) => task[t].pc = "rewrite" /\ task[t].mark # None /\ disk = t
      /\ Marker(t) => task[t].pc = "marker" /\ task[t].pend # None /\ disk = t
      /\ Unmark(t) => task[t].pc = "unmark" /\ disk = t
  BY <1>1 DEF Reinsert, Rewrite, Marker, Unmark, TaskOK, DiskPCs
<1>4. ASSUME Rewrite(t), NEW k \in Keys, k = task[t].key
      PROVE  /\ file'[k] = task[t].mark.until /\ resident' = resident
             /\ k \in writer \/ InState(k, {"reinsert"})'
  <2>1. file' = [file EXCEPT ![k] = task[t].mark.until] /\ resident' = resident
        /\ (k \in writer \/ Moves(t, At(task[t], "reinsert")))
    BY <1>0, <1>4, RewriteMoves
  <2>2. "reinsert" \in PCs
    BY DEF PCs
  <2>3. Moves(t, At(task[t], "reinsert")) => task'[t].key = k /\ task'[t].pc = "reinsert"
    BY <1>1, <1>4, <2>2, MovesTask, AtFields
  <2> QED BY <1>1, <2>1, <2>3 DEF Types, InState
<1>5. ASSUME NEW k \in Keys, InState(k, {"reinsert"}), ~(Reinsert(t) /\ task[t].key = k)
      PROVE  InState(k, {"reinsert"})'
  <2>1. PICK u \in Tasks : task[u].key = k /\ task[u].pc = "reinsert"
    BY <1>5 DEF InState
  <2>2. CASE u = t
    BY <1>5, <2>1, <2>2 DEF Step, Begin, Banish, Sweep, Stay, TurnEnds, Refresh, Write, Sweeping,
                            SweepEnds, Marker, OpenFails, Leave, Unlink, Unmark, Rewrite
  <2>3. CASE u # t
    BY <2>1, <2>3, OthersStay DEF InState
  <2> QED BY <2>2, <2>3
<1>6. ASSUME Marker(t)
      PROVE  file'[task[t].key] = task[t].pend.until /\ resident' = resident
  BY <1>0, <1>1, <1>6, MarkerMoves DEF Types
<1>7. ASSUME NEW k \in Keys, file'[k] \in Times, resident'[k] # None
      PROVE  file'[k] <= resident'[k].until \/ InState(k, {"reinsert"})'
  <2>1. CASE Reinsert(t) /\ k = task[t].key
    <3>1. file' = file /\ resident'[k] = task[t].mark
      BY <2>1 DEF Reinsert, Types
    <3>2. file[k] = task[t].mark.until
      BY <1>3, <2>1 DEF AgreeInv
    <3> QED BY <1>0, <1>1, <1>3, <2>1, <3>1, <3>2
  <2>2. CASE Stay(t) /\ k = task[t].key /\ resident'[k] = Mark(now)
    <3>1. file' = file /\ resident'[k].until = now + Lapse
      BY <2>2 DEF Stay, Mark
    <3> QED BY <1>7, <3>1 DEF ClockInv
  <2>3. CASE resident'[k] = resident[k] /\ ~(Reinsert(t) /\ k = task[t].key)
    <3>1. CASE file'[k] = file[k]
      BY <1>0, <1>5, <1>7, <2>3, <3>1 DEF FreshInv
    <3>2. CASE Rewrite(t) /\ k = task[t].key
      <4>1. k \notin writer
        BY <1>3, <1>7, <2>3, <3>2 DEF AgreeInv
      <4> QED BY <1>4, <3>2, <4>1
    <3>3. CASE Marker(t) /\ k = task[t].key
      BY <1>0, <1>3, <1>6, <1>7, <2>3, <3>3 DEF FreshInv
    <3> QED BY <1>0, <1>7, <3>1, <3>2, <3>3, StepFiles
  <2> QED BY <1>7, <2>1, <2>2, <2>3, StepTickets
<1>8. ASSUME NEW k \in Keys, Fresh(k)', resident'[k] = None
      PROVE  InState(k, {"leave", "unlink", "reinsert"})'
  <2>0. file'[k] \in Times /\ now < file'[k]
    BY <1>0, <1>8 DEF Fresh
  <2>1. ASSUME InState(k, {"leave", "unlink"})
        PROVE  InState(k, {"leave", "unlink"})'
    BY <1>0, <2>0, <2>1, LeaveGoesOn
  <2>2. CASE resident[k] # None
    <3>1. CASE Banish(t, k) \/ (Leave(t) /\ k = task[t].key)
      BY <3>1, LeaveGoesOn DEF InState
    <3>2. ~(Unmark(t) /\ k = task[t].key)
      BY <1>0, <1>3, <1>8, <2>0, <2>2, StepLoses DEF BanishInv
    <3>3. CASE Stay(t) /\ resident[k].until <= now
      <4>1. file'[k] = file[k]
        BY <3>3 DEF Stay
      <4>2. ~(file[k] <= resident[k].until)
        BY <1>0, <1>2, <2>0, <2>2, <3>3, <4>1
      <4>3. InState(k, {"reinsert"}) /\ ~Reinsert(t)
        BY <1>0, <2>0, <2>2, <3>3, <4>1, <4>2 DEF FreshInv, Stay, Reinsert
      <4> QED BY <1>5, <4>3 DEF InState
    <3> QED BY <1>8, <2>2, <3>1, <3>2, <3>3, StepLoses
  <2>3. CASE resident[k] = None
    <3>1. CASE file'[k] = file[k]
      <4>1. InState(k, {"leave", "unlink", "reinsert"})
        BY <1>0, <2>0, <2>3, <3>1 DEF FreshInv, Fresh
      <4>2. CASE InState(k, {"leave", "unlink"})
        BY <2>1, <4>2 DEF InState
      <4>3. CASE InState(k, {"reinsert"})
        <5>1. ~(Reinsert(t) /\ k = task[t].key)
          BY <1>3, <1>8 DEF Reinsert, Types
        <5> QED BY <1>5, <4>3, <5>1 DEF InState
      <4> QED BY <4>1, <4>2, <4>3 DEF InState
    <3>2. CASE Rewrite(t) /\ k = task[t].key
      <4>1. CASE InState(k, {"reinsert"})'
        BY <4>1 DEF InState
      <4>2. CASE k \in writer
        <5>1. InState(k, {"leave", "unlink", "unmark"})
          BY <1>0, <4>2 DEF FreshInv
        <5>2. ~InState(k, {"unmark"})
          BY <1>1, <1>3, <3>2 DEF InState, DiskPCs
        <5>3. InState(k, {"leave", "unlink"})
          BY <5>1, <5>2 DEF InState
        <5> QED BY <2>1, <5>3 DEF InState
      <4> QED BY <1>4, <3>2, <4>1, <4>2
    <3>3. CASE Marker(t) /\ k = task[t].key
      <4>1. ~(task[t].pend.until <= now)
        BY <1>0, <1>1, <1>3, <1>6, <2>0, <3>3
      <4>2. InState(k, {"leave", "unlink"})
        BY <1>0, <1>3, <2>3, <3>3, <4>1 DEF FreshInv
      <4> QED BY <2>1, <4>2 DEF InState
    <3> QED BY <1>0, <2>0, <3>1, <3>2, <3>3, StepFiles
  <2> QED BY <2>2, <2>3
<1>9. ASSUME NEW k \in Keys, k \in writer'
      PROVE  InState(k, {"leave", "unlink", "unmark"})'
  <2>1. CASE k \notin writer
    BY <1>9, <2>1, StepWriter, LeaveGoesOn DEF InState
  <2>2. CASE k \in writer
    <3>1. InState(k, {"leave", "unlink", "unmark"})
      BY <1>0, <2>2 DEF FreshInv
    <3>2. CASE InState(k, {"leave", "unlink"})
      BY <3>2, LeaveGoesOn DEF InState
    <3>3. CASE InState(k, {"unmark"})
      <4>1. PICK u \in Tasks : task[u].key = k /\ task[u].pc = "unmark"
        BY <3>3 DEF InState
      <4>2. CASE u = t
        <5>1. Unmark(t)
          BY <4>1, <4>2 DEF Step, Begin, Banish, Sweep, Stay, TurnEnds, Refresh, Write, Sweeping,
                            SweepEnds, Marker, OpenFails, Leave, Unlink, Rewrite, Reinsert
        <5> QED BY <1>9, <4>1, <4>2, <5>1 DEF Unmark
      <4>3. CASE u # t
        BY <4>1, <4>3, OthersStay DEF InState
      <4> QED BY <4>2, <4>3
    <3> QED BY <3>1, <3>2, <3>3 DEF InState
  <2> QED BY <2>1, <2>2
<1>10. ASSUME NEW u \in Tasks, task'[u].pc = "marker", NEW k \in Keys, task'[u].key = k
       PROVE  /\ resident'[k] # None => task'[u].pend.until <= resident'[k].until
              /\ resident'[k] = None =>
                   task'[u].pend.until <= now \/ InState(k, {"leave", "unlink"})'
  <2>1. CASE u = t
    <3>1. SweepEnds(t) /\ task'[t].key = task[t].key /\ task'[t].pend = task[t].pend
      BY <1>10, <2>1, StepPC
    <3>2. StillInvited(t) /\ resident' = resident /\ task[t].pend # None
      BY <1>1, <1>10, <2>1, <3>1, SweepEndsMoves, MovesTask, NoTaskFields, AnyKeyType
         DEF SweepEnds, TaskOK
    <3>3. task[t].pend = resident[task[t].key]
      BY <3>2 DEF MarkInv, StillInvited
    <3> QED BY <1>0, <1>1, <1>10, <2>1, <3>1, <3>2, <3>3
  <2>2. CASE u # t
    <3> DEFINE m == task[u].pend
    <3>1. /\ task'[u] = task[u] /\ task[u].key = k /\ disk = u /\ m \in Marks
          /\ ~Reinsert(t) /\ ~Unmark(t) /\ ~(Unlink(t) /\ disk = None)
      BY <1>0, <1>1, <1>3, <1>10, <2>2, OthersStay DEF DiskPCs, TaskOK
    <3>2. /\ resident[k] # None => m.until <= resident[k].until
          /\ resident[k] = None => m.until <= now \/ InState(k, {"leave", "unlink"})
      BY <1>0, <1>10, <3>1 DEF FreshInv
    <3> HIDE DEF m
    <3>3. ASSUME InState(k, {"leave", "unlink"})
          PROVE  InState(k, {"leave", "unlink"})'
      BY <3>1, <3>3, LeaveGoesOn
    <3>4. ASSUME resident'[k] # None
          PROVE  m.until <= resident'[k].until
      <4>1. CASE resident'[k] = resident[k]
        BY <3>2, <3>4, <4>1
      <4>2. CASE resident'[k] = Mark(now)
        <5>1. m.until <= now + Lapse
          BY <1>0, <3>1 DEF ClockInv, m
        <5> QED BY <4>2, <5>1 DEF Mark
      <4> QED BY <3>1, <3>4, <4>1, <4>2, StepTickets
    <3>5. ASSUME resident'[k] = None
          PROVE  m.until <= now \/ InState(k, {"leave", "unlink"})'
      <4>1. CASE resident[k] = None
        BY <3>2, <3>3, <4>1
      <4>2. CASE resident[k] # None
        <5>1. CASE Banish(t, k) \/ (Leave(t) /\ k = task[t].key)
          BY <3>1, <5>1, LeaveGoesOn
        <5>2. CASE resident[k].until <= now
          BY <1>0, <1>2, <3>1, <3>2, <4>2, <5>2
        <5> QED BY <3>1, <3>5, <4>2, <5>1, <5>2, StepLoses
      <4> QED BY <4>1, <4>2
    <3> QED BY <3>1, <3>4, <3>5 DEF m
  <2> QED BY <2>1, <2>2
<1>11. \A u \in Tasks : task'[u].key \in Keys
  <2>1. task' \in [Tasks -> TaskRecords]
    BY StepMoves, MovesTask DEF Types
  <2> QED BY <2>1 DEF TaskRecords
<1>12. \A u \in Tasks : task'[u].pc = "marker" =>
         /\ resident'[task'[u].key] # None =>
              task'[u].pend.until <= resident'[task'[u].key].until
         /\ resident'[task'[u].key] = None =>
              task'[u].pend.until <= now \/ InState(task[u].key, {"leave", "unlink"})'
  BY <1>10, <1>11 DEF InState
<1> QED BY <1>0, <1>7, <1>8, <1>9, <1>12 DEF FreshInv

-------------------------------------------------------------------------------
(* The inductive invariant and the theorems. *)

FollowInv ==
    /\ Types /\ TaskInv
    /\ SeqInv /\ MarkInv /\ BanishInv /\ InviteInv
    /\ AgreeInv /\ ClockInv /\ FreshInv

LEMMA MarkersNext ==
  ASSUME FollowInv, [Next]_vars
  PROVE  AgreeInv' /\ ClockInv' /\ FreshInv'
<1> USE DEF FollowInv
<1>0. /\ now \in Nat /\ Lapse \in Nat /\ None \notin Times /\ Torn \notin Times
      /\ \A u \in Tasks : /\ task[u].mark \in Marks \cup {None} /\ task[u].pend \in Marks \cup {None}
                          /\ task[u].at \in Nat
      /\ \A m \in Marks : m.until \in Nat
      /\ \A n \in Times : n \in Nat
  BY TaskFacts, FollowAssumption DEF Types, Times, Marks
<1>1. CASE Clock
  <2>1. /\ UNCHANGED <<resident, written, writer, disk, nextSeq, file, task, faults>>
        /\ now' = now + 1
    BY <1>1 DEF Clock
  <2>2. AgreeInv'
    BY <2>1 DEF AgreeInv, OnDisk, Deferred, InState
  <2>3. ClockInv'
    <3>1. \A n \in Nat : (n <= now => n <= now') /\ (n <= now + Lapse => n <= now' + Lapse)
      BY <1>0, <2>1
    <3> QED BY <1>0, <2>1, <3>1 DEF ClockInv
  <2>4. FreshInv'
    <3>1. \A n \in Nat : (n <= now => n <= now') /\ (now' < n => now < n)
      BY <1>0, <2>1
    <3>2. \A k \in Keys : Fresh(k)' => Fresh(k)
      BY <1>0, <2>1, <3>1 DEF Fresh
    <3>3. \A u \in Tasks : task[u].pc = "marker" => task[u].pend.until \in Nat
      BY <1>0 DEF TaskInv, TaskOK
    <3> QED BY <2>1, <3>1, <3>2, <3>3 DEF FreshInv, InState
  <2> QED BY <2>2, <2>3, <2>4
<1>2. CASE UNCHANGED vars
  BY <1>2 DEF vars, AgreeInv, OnDisk, Deferred, InState, ClockInv, FreshInv, Fresh
<1>3. CASE Restart
  <2>1. \A t \in Tasks : /\ task'[t].pc = "idle" /\ task'[t].pend = None /\ task'[t].mark = None
                         /\ task'[t].at = 0 /\ task'[t].old = None
    BY <1>3, RestartTypes, NoTaskFields, AnyKeyType
  <2>2. now' = now /\ writer' = {}
    BY <1>3 DEF Restart
  <2>3. \A k \in Keys :
           \/ file[k] \in Times /\ file'[k] = file[k] /\ resident'[k].until = file[k]
              /\ written'[k] = resident'[k].seq /\ resident'[k] # None
           \/ resident'[k] = None /\ file'[k] = None
    <3>1. \A k \in Loaded : [until |-> file[k], seq |-> LoadIndex(k)] # None
      BY LoadedFacts, FollowAssumption DEF Times, Seqs
    <3>2. \A k \in Loaded : LET m == [until |-> file[k], seq |-> LoadIndex(k)]
                             IN  m.until = file[k] /\ m.seq = LoadIndex(k)
      OBVIOUS
    <3> QED BY <1>3, <3>1, <3>2, RestartTickets
  <2>4. AgreeInv'
    BY <2>1, <2>2, <2>3 DEF AgreeInv, OnDisk, InState
  <2>5. ClockInv'
    BY <1>0, <2>1, <2>2, <2>3 DEF ClockInv
  <2>6. FreshInv'
    BY <1>0, <2>1, <2>2, <2>3 DEF FreshInv, Fresh
  <2> QED BY <2>4, <2>5, <2>6
<1>4. CASE \E t \in Tasks : Step(t)
  <2>1. PICK t \in Tasks : Step(t)
    BY <1>4
  <2>2. FreshInv'
    <3>1. CASE faults' = 0
      BY <2>1, <3>1, FreshStep
    <3>2. CASE faults' # 0
      BY <3>2 DEF FreshInv
    <3> QED BY <3>1, <3>2
  <2> QED BY <2>1, <2>2, AgreeStep, ClockStep
<1> QED BY <1>1, <1>2, <1>3, <1>4, NextSteps

LEMMA FollowInductive == Spec => []FollowInv
<1>1. Init => FollowInv
  <2> SUFFICES ASSUME Init PROVE FollowInv
    OBVIOUS
  <2>1. Types /\ TaskInv
    BY TypesInit
  <2>2. \A t \in Tasks : /\ task[t].pc = "idle" /\ task[t].pend = None /\ task[t].mark = None
                         /\ task[t].at = 0 /\ task[t].old = None
    BY NoTaskFields, AnyKeyType DEF Init
  <2>3. /\ \A k \in Keys : /\ resident[k] = None /\ written[k] = None /\ file[k] = None
                           /\ gone[k] = FALSE /\ owed[k] = None
        /\ writer = {} /\ now = 0 /\ None \notin Times
    BY FollowAssumption DEF Init, Times
  <2>4. SeqInv /\ MarkInv /\ BanishInv /\ InviteInv
    BY <2>2, <2>3 DEF SeqInv, MarkInv, BanishInv, BanishKept, InviteInv
  <2>5. AgreeInv /\ ClockInv /\ FreshInv
    BY <2>2, <2>3 DEF AgreeInv, ClockInv, FreshInv, Fresh
  <2> QED BY <2>1, <2>4, <2>5 DEF FollowInv
<1>2. FollowInv /\ [Next]_vars => FollowInv'
  <2> SUFFICES ASSUME FollowInv, [Next]_vars PROVE FollowInv'
    OBVIOUS
  <2>1. Types' /\ TaskInv'
    BY TypesNext DEF FollowInv
  <2>2. SeqInv' /\ MarkInv' /\ BanishInv' /\ InviteInv'
    BY SafetyNext DEF FollowInv
  <2> QED BY <2>1, <2>2, MarkersNext DEF FollowInv
<1> QED BY <1>1, <1>2, PTL DEF Spec

\* The maps, the files, the threads and the histories keep their types.
THEOREM FollowTypes == Spec => []TypeOK
<1>1. FollowInv => TypeOK
  BY TimeTypes DEF FollowInv, Types, TypeOK
<1> QED BY <1>1, FollowInductive, PTL

\* A conversation that was left stays left, in the table and on disk, until it
\* is invited again: no refresh, deferred write or sweep that was under way when
\* FollowTable::leave returned brings the ticket or its marker back, and neither
\* does a restart.
THEOREM LeftStaysLeft == Spec => []BanishKept
<1>1. FollowInv => BanishKept
  BY DEF FollowInv, BanishInv
<1> QED BY <1>1, FollowInductive, PTL

\* An invite whose write is still deferred to the end of its turn keeps its
\* ticket: a failed refresh of the older marker drops only what that marker
\* stood for.
THEOREM InvitesKept == Spec => []InviteKept
<1>1. FollowInv => InviteKept
  BY DEF FollowInv, InviteInv, InviteKept
<1> QED BY <1>1, FollowInductive, PTL

\* When no thread is at work on a key, the table and the disk agree on it: a
\* ticket has the marker a restart would load, and, unless a file operation
\* failed, no marker a restart would honour is without its ticket.
THEOREM TableMeetsDisk == Spec => []DiskAgrees
<1>1. FollowInv => DiskAgrees
  <2> SUFFICES ASSUME FollowInv, NEW k \in Keys, \A t \in Tasks : ~Concerned(t, k)
               PROVE  /\ resident[k] # None => file[k] = resident[k].until
                      /\ (file[k] \in Times /\ now < file[k] /\ faults = 0) => resident[k] # None
    BY DEF DiskAgrees
  <2>1. ~InState(k, {"leave", "unlink", "unmark", "rewrite", "reinsert"})
    BY DEF InState, Concerned
  <2>2. resident[k] # None => ~Deferred(k)
    BY DEF Deferred, Concerned
  <2>3. resident[k] # None => file[k] = resident[k].until
    BY <2>1, <2>2 DEF FollowInv, AgreeInv, OnDisk, InState
  <2>4. file[k] \in Times /\ now < file[k] /\ faults = 0 => resident[k] # None
    BY <2>1 DEF FollowInv, FreshInv, Fresh, InState
  <2> QED BY <2>3, <2>4
<1> QED BY <1>1, FollowInductive, PTL
================================================================================
