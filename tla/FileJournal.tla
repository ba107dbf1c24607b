---------------------------- MODULE FileJournal ----------------------------
(***************************************************************************)
(* One execution's journal file and lock file (src/stores/file.rs), used   *)
(* by processes that can be killed between any two system calls, whose     *)
(* system calls can fail, one of them unnoticed, and whose machine can     *)
(* lose power.                                                             *)
(*                                                                         *)
(* A frame `crc:len:payload\n` is FrameParts parts, written in order; the  *)
(* checksum makes a frame readable exactly when all its parts are there.   *)
(* Encoding an event and decoding it again gives the event.                *)
(***************************************************************************)
EXTENDS Naturals, Sequences, FiniteSetsExt

CONSTANTS
  Processes, Nobody,
  Records,      \* events, as the caller hands them over
  FrameParts,
  MaxFrames,    \* bound on the frames in the file
  MaxFaults,    \* bound on kills and failing system calls
  MaxOutages    \* bound on power losses

ASSUME NobodyAssumption == Nobody \notin Processes
ASSUME FrameAssumption == FrameParts \in Nat \ {0}
ASSUME BoundsAssumption == MaxFrames \in Nat /\ MaxFaults \in Nat /\ MaxOutages \in Nat

VARIABLES
  file,       \* the parts in the journal file, as every process sees it
  disk,       \* what the last sync made durable
  lock,       \* the process whose open lock file holds the lock
  inherited,  \* a child being spawned has a copy of that descriptor
  orphaned,   \* only that copy still holds the lock
  call,       \* what each process is doing
  acked,      \* appends that returned Ok, with the position they returned
  blindly,    \* those of them that took a file with contents for absent
  loaded,     \* what the last load returned
  faults, outages

storage == <<file, disk>>
locking == <<lock, inherited, orphaned>>
answers == <<acked, blindly, loaded>>
vars == <<storage, locking, call, answers, faults, outages>>

-----------------------------------------------------------------------------
(* Frames.                                                                 *)

Garbage == [record |-> Nobody, part |-> 0]

Frame(record) == [k \in 1 .. FrameParts |-> [record |-> record, part |-> k]]

FrameAt(f, i) == SubSeq(f, (i - 1) * FrameParts + 1, i * FrameParts)

IsFrame(parts) == parts # <<>> /\ parts[1].record \in Records /\ parts = Frame(parts[1].record)

\* parse_frames: the frames before the first one that is not whole.
GoodFrames(f) ==
  Max({n \in 0 .. Len(f) \div FrameParts : \A i \in 1 .. n : IsFrame(FrameAt(f, i))})

Parsed(f) == [i \in 1 .. GoodFrames(f) |-> FrameAt(f, i)[1].record]

-----------------------------------------------------------------------------
Calls == {"load", "append"}

\* `seen` is what read_and_heal decoded, `part` the parts written so far;
\* `blind` observes that the file had contents and was taken for absent.
NoCall ==
  [pc |-> "Out", kind |-> "load", record |-> Nobody, seen |-> <<>>, part |-> 0, blind |-> FALSE]

Init ==
  /\ file = <<>> /\ disk = <<>>
  /\ lock = Nobody /\ inherited = FALSE /\ orphaned = FALSE
  /\ call = [p \in Processes |-> NoCall]
  /\ acked = <<>> /\ blindly = {} /\ loaded = <<>>
  /\ faults = 0 /\ outages = 0

Goto(p, pc) == call' = [call EXCEPT ![p].pc = pc]

\* The call returns; the caller still holds its lease.
Return(p) == call' = [call EXCEPT ![p] = [NoCall EXCEPT !.pc = "Held"]]

-----------------------------------------------------------------------------
(* The lease.  A refused try_lock changes nothing.                         *)

Acquire(p) ==
  /\ call[p].pc = "Out"
  /\ lock = Nobody
  /\ lock' = p /\ inherited' = FALSE /\ orphaned' = FALSE
  /\ Goto(p, "Held")
  /\ UNCHANGED <<storage, answers, faults, outages>>

\* p's descriptor closes; the lock goes with the last copy of it.
Closed(p) ==
  /\ lock' = IF lock = p /\ ~ inherited THEN Nobody ELSE lock
  /\ orphaned' = (orphaned \/ (lock = p /\ inherited))
  /\ UNCHANGED inherited

\* Mutation: the lease is dropped by closing its descriptor.
DropClosing(p) ==
  /\ call[p].pc = "Held"
  /\ Closed(p)
  /\ Goto(p, "Out")
  /\ UNCHANGED <<storage, answers, faults, outages>>

\* FileLease::drop unlocks, which releases every copy of the descriptor.
Drop(p) ==
  /\ call[p].pc = "Held"
  /\ lock' = Nobody /\ inherited' = FALSE
  /\ Goto(p, "Out")
  /\ UNCHANGED <<storage, orphaned, answers, faults, outages>>

\* Another thread of the owner forks; the child has not reached exec.
Fork(p) ==
  /\ lock = p /\ call[p].pc # "Out" /\ ~ inherited
  /\ inherited' = TRUE
  /\ UNCHANGED <<storage, lock, orphaned, call, answers, faults, outages>>

\* The child's exec closes its copy; the last copy takes the lock with it.
Exec ==
  /\ inherited
  /\ inherited' = FALSE
  /\ lock' = IF orphaned THEN Nobody ELSE lock
  /\ orphaned' = FALSE
  /\ UNCHANGED <<storage, call, answers, faults, outages>>

-----------------------------------------------------------------------------
(* read_and_heal, append and load, one system call at a time.              *)

Call(p, kind, record) ==
  /\ call[p].pc = "Held"
  /\ kind = "append" => GoodFrames(file) < MaxFrames
  /\ call' = [call EXCEPT ![p] =
       [NoCall EXCEPT !.pc = "Read", !.kind = kind, !.record = record]]
  /\ UNCHANGED <<storage, locking, answers, faults, outages>>

\* read_and_heal is through: an append goes on to write, a load returns.
Healed(p, seen, blind) ==
  IF call[p].kind = "append"
    THEN /\ call' = [call EXCEPT ![p].pc = "Write", ![p].seen = seen, ![p].blind = blind]
         /\ UNCHANGED loaded
    ELSE Return(p) /\ loaded' = seen

\* Mutation: the tail is skipped in memory but left in the file.
ReadFiltering(p) ==
  /\ call[p].pc = "Read"
  /\ Healed(p, Parsed(file), FALSE)
  /\ UNCHANGED <<storage, locking, acked, blindly, faults, outages>>

Read(p) ==
  /\ call[p].pc = "Read"
  /\ IF GoodFrames(file) * FrameParts = Len(file)
       THEN Healed(p, Parsed(file), FALSE)
       ELSE /\ call' = [call EXCEPT ![p].pc = "Truncate", ![p].seen = Parsed(file)]
            /\ UNCHANGED loaded
  /\ UNCHANGED <<storage, locking, acked, blindly, faults, outages>>

Truncate(p) ==
  /\ call[p].pc = "Truncate"
  /\ file' = SubSeq(file, 1, Len(call[p].seen) * FrameParts)
  /\ Goto(p, "SyncTruncation")
  /\ UNCHANGED <<disk, locking, answers, faults, outages>>

SyncTruncation(p) ==
  /\ call[p].pc = "SyncTruncation"
  /\ disk' = file
  /\ Healed(p, call[p].seen, FALSE)
  /\ UNCHANGED <<file, locking, acked, blindly, faults, outages>>

\* Mutation: write may come back short and nobody looks.
WriteShort(p) ==
  /\ call[p].pc = "Write"
  /\ file' = Append(file, Frame(call[p].record)[call[p].part + 1])
  /\ call' = [call EXCEPT ![p].part = @ + 1, ![p].pc = "SyncAppend"]
  /\ UNCHANGED <<disk, locking, answers, faults, outages>>

\* One turn of write_all, at the file's end (O_APPEND).
Write(p) ==
  /\ call[p].pc = "Write"
  /\ file' = Append(file, Frame(call[p].record)[call[p].part + 1])
  /\ call' = [call EXCEPT ![p].part = @ + 1,
                          ![p].pc = IF call[p].part + 1 = FrameParts THEN "SyncAppend" ELSE @]
  /\ UNCHANGED <<disk, locking, answers, faults, outages>>

Acknowledge(p) ==
  /\ acked' = Append(acked, [record |-> call[p].record, position |-> Len(call[p].seen)])
  /\ blindly' = IF call[p].blind THEN blindly \cup {Len(acked) + 1} ELSE blindly
  /\ Return(p)

\* Mutation: Ok before the data is synced.
AcknowledgeUnsynced(p) ==
  /\ call[p].pc = "SyncAppend"
  /\ Acknowledge(p)
  /\ UNCHANGED <<storage, locking, loaded, faults, outages>>

SyncAppend(p) ==
  /\ call[p].pc = "SyncAppend"
  /\ disk' = file
  /\ Acknowledge(p)
  /\ UNCHANGED <<file, locking, loaded, faults, outages>>

-----------------------------------------------------------------------------
(* Faults.                                                                 *)

Fault == faults < MaxFaults /\ faults' = faults + 1

\* The metadata call behind Path::exists fails, which reads as "not there":
\* the call goes on as over an absent file, nothing read and nothing healed.
ReadAbsent(p) ==
  /\ call[p].pc = "Read"
  /\ Fault
  /\ Healed(p, <<>>, file # <<>>)
  /\ UNCHANGED <<storage, locking, acked, blindly, outages>>

\* Any other system call fails: the call returns an error and undoes nothing.
Fail(p) ==
  /\ call[p].pc \in {"Read", "Truncate", "SyncTruncation", "Write", "SyncAppend"}
  /\ Fault
  /\ Return(p)
  /\ UNCHANGED <<storage, locking, answers, outages>>

\* The unlock in FileLease::drop fails: closing is all that is left.
FailUnlock(p) ==
  /\ call[p].pc = "Held"
  /\ Fault
  /\ Closed(p)
  /\ Goto(p, "Out")
  /\ UNCHANGED <<storage, answers, outages>>

\* The process dies: its descriptors close, what it wrote stays.
Kill(p) ==
  /\ call[p].pc # "Out"
  /\ Fault
  /\ call' = [call EXCEPT ![p] = NoCall]
  /\ Closed(p)
  /\ UNCHANGED <<storage, answers, outages>>

\* The synced parts that were not changed since.
Kept == Max({n \in 0 .. Len(disk) : n <= Len(file) /\ \A i \in 1 .. n : disk[i] = file[i]})

\* The machine loses power: beyond what is synced, each part of the file is
\* new, old or neither, and its length is anything in between.  The file's
\* directory entry is taken to survive.
PowerLoss ==
  /\ outages < MaxOutages
  /\ outages' = outages + 1
  /\ \E n \in Kept .. Max({Len(disk), Len(file)}) :
       \E from \in [Kept + 1 .. n -> {"new", "old", "neither"}] :
         file' = [i \in 1 .. n |->
                    IF i <= Kept THEN file[i]
                    ELSE IF from[i] = "new" /\ i <= Len(file) THEN file[i]
                    ELSE IF from[i] = "old" /\ i <= Len(disk) THEN disk[i]
                    ELSE Garbage]
  /\ disk' = file'
  /\ call' = [p \in Processes |-> NoCall]
  /\ lock' = Nobody /\ inherited' = FALSE /\ orphaned' = FALSE
  /\ UNCHANGED <<answers, faults>>

-----------------------------------------------------------------------------
Lease(p) == Acquire(p) \/ Drop(p) \/ Fork(p)

Operate(p) ==
  \/ \E record \in Records : Call(p, "append", record)
  \/ Call(p, "load", Nobody)
  \/ Read(p) \/ Truncate(p) \/ SyncTruncation(p) \/ Write(p) \/ SyncAppend(p)

Faulty(p) == ReadAbsent(p) \/ Fail(p) \/ FailUnlock(p) \/ Kill(p)

Next ==
  \/ \E p \in Processes : Lease(p) \/ Operate(p) \/ Faulty(p)
  \/ Exec \/ PowerLoss

Spec == Init /\ [][Next]_vars

-----------------------------------------------------------------------------
(* Properties.                                                             *)

Parts == [record : Records, part : 1 .. FrameParts] \cup {Garbage}

\* Only what follows a fault can leave more in the file than its frames: an
\* append that takes the file for absent adds at most one frame.
TypeOK ==
  /\ file \in Seq(Parts) /\ disk \in Seq(Parts)
  /\ Len(file) <= (MaxFrames + faults) * FrameParts
  /\ lock \in Processes \cup {Nobody}
  /\ inherited \in BOOLEAN /\ orphaned \in BOOLEAN
  /\ call \in [Processes ->
       [pc : {"Out", "Held", "Read", "Truncate", "SyncTruncation", "Write", "SyncAppend"},
        kind : Calls, record : Records \cup {Nobody}, seen : Seq(Records),
        part : 0 .. FrameParts, blind : BOOLEAN]]
  /\ acked \in Seq([record : Records, position : 0 .. MaxFrames - 1])
  /\ blindly \subseteq DOMAIN acked
  /\ loaded \in Seq(Records)
  /\ faults \in 0 .. MaxFaults /\ outages \in 0 .. MaxOutages

\* The event of the i-th append that returned Ok is where it was said to be.
InPlace(i) ==
  LET position == acked[i].position + 1
  IN position <= GoodFrames(file) /\ Parsed(file)[position] = acked[i].record

\* "Durability before acknowledgement": an event whose append read the file and
\* returned Ok is found by every later read, at the position that append
\* returned, whatever torn frames, failed calls, kills, other owners and power
\* losses came between, and whatever appends that took the file for absent
\* wrote behind it and after it.
AcknowledgedStay == \A i \in DOMAIN acked \ blindly : InPlace(i)

\* What the comment on JournalStore::append says of every append: it returns
\* the position the event was appended at.  One that took the file for absent
\* returns 0, wherever its frame went (file.rs, read_and_heal).
EveryPositionIsRight == \A i \in DOMAIN acked : InPlace(i)

\* An execution is locked with nobody to answer for it only after a kill or a
\* failed unlock: an orderly drop frees it although a child being spawned
\* still has the descriptor.
NoStrayLock == lock # Nobody /\ call[lock].pc = "Out" => orphaned /\ faults > 0

\* The owner's call, as the store the engine relies on has it.  The event is
\* added once its frame ends the file, and nothing torn is before it.
Request ==
  IF lock = Nobody \/ call[lock].pc \in {"Out", "Held"} THEN [kind |-> "none"]
  ELSE IF call[lock].kind = "load" THEN [kind |-> "load"]
  ELSE [kind |-> IF call[lock].pc = "SyncAppend" /\ GoodFrames(file) * FrameParts = Len(file)
                   THEN "added" ELSE "append",
        record |-> call[lock].record]

Store ==
  INSTANCE StoreContract WITH
    Owners <- Processes, NoOwner <- Nobody,
    log <- Parsed(file), owner <- lock, request <- Request

\* An answer given by a call that took the file for absent: a load's, over
\* events that are there, or an append's.
MisledAnswer ==
  \E p \in Processes :
    \/ call[p].kind = "load" /\ Parsed(file) # <<>> /\ ReadAbsent(p)
    \/ call[p].blind /\ SyncAppend(p)

\* The file and its lock are the store the engine relies on: but for power
\* losses and misled answers, every step is one of it, before and after those
\* too.  Appends happen once, at the end, or not at all, for one owner at a
\* time; healing takes back nothing a read returned, and no event that was
\* written whole by an append that reported an error.
ImplementsStore ==
  Store!Init /\ [][outages' = outages /\ ~ MisledAnswer => [Store!Next]_Store!vars]_vars
=============================================================================
