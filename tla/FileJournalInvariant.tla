------------------------ MODULE FileJournalInvariant ------------------------
(***************************************************************************)
(* What every step of FileJournal preserves: who may hold the lock, what   *)
(* of the file is durable, and what a call that is under way may rely on   *)
(* about the file it read a few system calls ago.                          *)
(***************************************************************************)
EXTENDS FileJournal

Capacity == (MaxFrames + faults) * FrameParts

-----------------------------------------------------------------------------
(* The lock.                                                               *)

\* A process inside its lease, in a call or not, is the one that has the lock.
LeaseHoldsLock == \A p \in Processes : call[p].pc # "Out" => lock = p

\* The copy of the descriptor a child inherited is a copy of one that locks;
\* it is orphaned when the process that has the lock closed its own.
CopiesLock ==
  /\ inherited => lock # Nobody
  /\ orphaned => inherited /\ call[lock].pc = "Out" /\ faults > 0
  /\ lock # Nobody /\ call[lock].pc = "Out" => orphaned

-----------------------------------------------------------------------------
(* The file.                                                               *)

\* The first n frames are on the disk as they are in the file.
SyncedTo(n) ==
  /\ n <= GoodFrames(file)
  /\ n * FrameParts <= Len(disk)
  /\ \A i \in 1 .. n * FrameParts : disk[i] = file[i]

\* A confirmed append that read the file is in a frame that, with all before
\* it, is synced.
ConfirmedSynced ==
  \A i \in DOMAIN acked \ blindly :
    /\ SyncedTo(acked[i].position + 1)
    /\ Parsed(file)[acked[i].position + 1] = acked[i].record

-----------------------------------------------------------------------------
(* A call under way: what it found when it read the file is still so,      *)
(* unless it did not read it.                                              *)

\* Only an append with room for its event gets past the reading.
Appending(p) == call[p].record \in Records /\ GoodFrames(file) < MaxFrames

InTail == {"Read", "Truncate", "SyncTruncation"}

\* An append that took the file for absent: the fault it met leaves room for
\* the rest of its frame, and nothing else is known of the file.
WritesBlind(p) ==
  /\ call[p].pc \in {"Write", "SyncAppend"} /\ call[p].kind = "append"
  /\ call[p].record \in Records /\ MaxFrames > 0
  /\ call[p].seen = <<>>
  /\ call[p].pc = "Write" => call[p].part < FrameParts
  /\ Len(file) + (FrameParts - call[p].part) <= Capacity

CallFits(p) ==
  /\ call[p].blind => WritesBlind(p)
  /\ call[p].pc \in InTail =>
       /\ call[p].part = 0
       /\ call[p].kind = "append" => Appending(p)
  /\ call[p].pc \in {"Truncate", "SyncTruncation"} => call[p].seen = Parsed(file)
  /\ call[p].pc = "SyncTruncation" => Len(file) = Len(call[p].seen) * FrameParts
  \* The frame being written is so far the tail of the file.
  /\ call[p].pc = "Write" /\ ~ call[p].blind =>
       /\ call[p].kind = "append" /\ Appending(p)
       /\ call[p].seen = Parsed(file)
       /\ call[p].part < FrameParts
       /\ Len(file) = Len(call[p].seen) * FrameParts + call[p].part
       /\ \A k \in 1 .. call[p].part :
            file[Len(call[p].seen) * FrameParts + k] = [record |-> call[p].record, part |-> k]
  \* It is whole, and the last of the file.
  /\ call[p].pc = "SyncAppend" /\ ~ call[p].blind =>
       /\ call[p].kind = "append" /\ call[p].record \in Records
       /\ Len(call[p].seen) < MaxFrames
       /\ Parsed(file) = Append(call[p].seen, call[p].record)
       /\ Len(file) = (Len(call[p].seen) + 1) * FrameParts

-----------------------------------------------------------------------------
StoreInv ==
  /\ TypeOK
  /\ Len(disk) <= Capacity
  /\ LeaseHoldsLock
  /\ CopiesLock
  /\ ConfirmedSynced
  /\ \A p \in Processes : CallFits(p)
=============================================================================
