---------------------------- MODULE MemoryJournal ----------------------------
(***************************************************************************)
(* The in-memory store (src/stores/memory.rs): two mutexes, one over the   *)
(* journals of all executions and one over the set of owned executions,    *)
(* used by threads that can panic, inside a critical section or in the     *)
(* workflow code that runs while they hold a lease.                        *)
(*                                                                         *)
(* A mutex whose holder panics is poisoned.  Every call refuses a poisoned *)
(* mutex, except the lease's drop, which looks past the poison.            *)
(***************************************************************************)
EXTENDS Naturals, Sequences

CONSTANTS
  Threads, NoThread,
  Executions,
  Records,     \* events, as the caller hands them over
  MaxEvents,   \* bound on the events of one journal
  MaxPanics    \* bound on panics in a critical section

ASSUME NoThreadAssumption == NoThread \notin Threads
ASSUME BoundsAssumption == MaxEvents \in Nat /\ MaxPanics \in Nat

VARIABLES
  executions,  \* the journals
  owners,      \* the executions somebody owns
  holder,      \* the thread inside each mutex
  poisoned,
  thread,      \* what each thread is doing
  acked,       \* per execution: appends that returned Ok, with their positions
  loaded,      \* per execution: what the last load returned
  panics

store == <<executions, owners>>
mutexes == <<holder, poisoned>>
answers == <<acked, loaded>>
vars == <<store, mutexes, thread, answers, panics>>

-----------------------------------------------------------------------------
(* A thread calls one operation at a time and holds at most one lease.     *)

Mutexes == {"owners", "executions"}

Kinds == {"none", "acquire", "append", "load", "drop"}

Pcs == {"Out", "Held", "Want", "Inside", "Pushed"}

Outside(id) == [pc |-> "Out", kind |-> "none", id |-> id, record |-> NoThread, position |-> 0]

MutexOf(kind) == IF kind \in {"acquire", "drop"} THEN "owners" ELSE "executions"

Init ==
  /\ executions = [id \in Executions |-> <<>>]
  /\ owners = {}
  /\ holder = [m \in Mutexes |-> NoThread]
  /\ poisoned = {}
  /\ thread \in [Threads -> {Outside(id) : id \in Executions}]
  /\ acked = [id \in Executions |-> <<>>]
  /\ loaded = [id \in Executions |-> <<>>]
  /\ panics = 0

Become(t, th) == thread' = [thread EXCEPT ![t] = th]

\* The call returns with the lease still held.
Keep(t) == Become(t, [Outside(thread[t].id) EXCEPT !.pc = "Held"])

Leave(t) == Become(t, Outside(thread[t].id))

\* The lease is dropped: its destructor wants the owners mutex.
Dropping(t) == Become(t, [Outside(thread[t].id) EXCEPT !.pc = "Want", !.kind = "drop"])

\* A guard goes out of scope.
Release(kind) == holder' = [holder EXCEPT ![MutexOf(kind)] = NoThread]

-----------------------------------------------------------------------------
(* Calls.                                                                  *)

Acquire(t, id) ==
  /\ thread[t].pc = "Out"
  /\ Become(t, [Outside(id) EXCEPT !.pc = "Want", !.kind = "acquire"])
  /\ UNCHANGED <<store, mutexes, answers, panics>>

\* The trait asks the caller to hold a lease.
Call(t, kind, record) ==
  /\ thread[t].pc = "Held"
  /\ kind = "append" => Len(executions[thread[t].id]) < MaxEvents
  /\ Become(t, [thread[t] EXCEPT !.pc = "Want", !.kind = kind, !.record = record])
  /\ UNCHANGED <<store, mutexes, answers, panics>>

\* The lease goes out of scope, at the end of a run or because workflow code
\* panicked and the thread unwinds.
Drop(t) ==
  /\ thread[t].pc = "Held"
  /\ Dropping(t)
  /\ UNCHANGED <<store, mutexes, answers, panics>>

-----------------------------------------------------------------------------
(* Mutex::lock.                                                            *)

Free(t) == thread[t].pc = "Want" /\ holder[MutexOf(thread[t].kind)] = NoThread

\* Mutation: poison is ignored.
AdmitsAlways(kind) == TRUE

Admits(kind) == kind = "drop" \/ MutexOf(kind) \notin poisoned

Lock(t) ==
  /\ Free(t)
  /\ Admits(thread[t].kind)
  /\ holder' = [holder EXCEPT ![MutexOf(thread[t].kind)] = t]
  /\ Become(t, [thread[t] EXCEPT !.pc = "Inside"])
  /\ UNCHANGED <<store, poisoned, answers, panics>>

\* JournalError::Poisoned.
Refuse(t) ==
  /\ Free(t)
  /\ ~ Admits(thread[t].kind)
  /\ IF thread[t].kind = "acquire" THEN Leave(t) ELSE Keep(t)
  /\ UNCHANGED <<store, mutexes, answers, panics>>

-----------------------------------------------------------------------------
(* The critical sections, each with the release of its guard.              *)

Inside(t, kind) == thread[t].pc = "Inside" /\ thread[t].kind = kind

\* Mutation: the answer of insert is not looked at.
InsertUnchecked(t) ==
  /\ Inside(t, "acquire")
  /\ owners' = owners \cup {thread[t].id}
  /\ Keep(t)
  /\ Release("acquire")
  /\ UNCHANGED <<executions, poisoned, answers, panics>>

\* A competing owner is refused with ExecutionOwned.
Insert(t) ==
  /\ Inside(t, "acquire")
  /\ IF thread[t].id \in owners
       THEN Leave(t) /\ UNCHANGED owners
       ELSE Keep(t) /\ owners' = owners \cup {thread[t].id}
  /\ Release("acquire")
  /\ UNCHANGED <<executions, poisoned, answers, panics>>

Push(t) ==
  /\ Inside(t, "append")
  /\ executions' = [executions EXCEPT ![thread[t].id] = Append(@, thread[t].record)]
  /\ Become(t, [thread[t] EXCEPT !.pc = "Pushed",
                                 !.position = Len(executions[thread[t].id])])
  /\ Release("append")
  /\ UNCHANGED <<owners, poisoned, answers, panics>>

\* append returns Ok(position).
Confirm(t) ==
  /\ thread[t].pc = "Pushed"
  /\ acked' = [acked EXCEPT ![thread[t].id] =
       Append(@, [record |-> thread[t].record, position |-> thread[t].position])]
  /\ Keep(t)
  /\ UNCHANGED <<store, mutexes, loaded, panics>>

Clone(t) ==
  /\ Inside(t, "load")
  /\ loaded' = [loaded EXCEPT ![thread[t].id] = executions[thread[t].id]]
  /\ Keep(t)
  /\ Release("load")
  /\ UNCHANGED <<store, poisoned, acked, panics>>

\* Mutation: the destructor gives up on a poisoned mutex.
RemoveUnlessPoisoned(t) ==
  /\ Inside(t, "drop")
  /\ owners' = IF "owners" \in poisoned THEN owners ELSE owners \ {thread[t].id}
  /\ Leave(t)
  /\ Release("drop")
  /\ UNCHANGED <<executions, poisoned, answers, panics>>

\* MemoryLease::drop.
Remove(t) ==
  /\ Inside(t, "drop")
  /\ owners' = owners \ {thread[t].id}
  /\ Leave(t)
  /\ Release("drop")
  /\ UNCHANGED <<executions, poisoned, answers, panics>>

\* A call panics inside its section, before it changed anything: the guard
\* poisons the mutex and unwinding drops the thread's lease.
Panic(t) ==
  /\ thread[t].pc = "Inside" /\ thread[t].kind # "drop"
  /\ panics < MaxPanics
  /\ panics' = panics + 1
  /\ poisoned' = poisoned \cup {MutexOf(thread[t].kind)}
  /\ Release(thread[t].kind)
  /\ IF thread[t].kind = "acquire" THEN Leave(t) ELSE Dropping(t)
  /\ UNCHANGED <<store, answers>>

-----------------------------------------------------------------------------
Begin(t) ==
  \/ \E id \in Executions : Acquire(t, id)
  \/ \E record \in Records : Call(t, "append", record)
  \/ Call(t, "load", NoThread)
  \/ Drop(t)

Proceed(t) ==
  Lock(t) \/ Refuse(t) \/ Insert(t) \/ Push(t) \/ Confirm(t) \/ Clone(t) \/ Remove(t)

Next == \E t \in Threads : Begin(t) \/ Proceed(t) \/ Panic(t)

Spec == Init /\ [][Next]_vars

-----------------------------------------------------------------------------
(* Properties.                                                             *)

Calls ==
  [pc : Pcs, kind : Kinds, id : Executions, record : Records \cup {NoThread}, position : Nat]

Confirmations == [record : Records, position : 0 .. MaxEvents - 1]

TypeOK ==
  /\ executions \in [Executions -> Seq(Records)]
  /\ \A id \in Executions : Len(executions[id]) <= MaxEvents
  /\ owners \subseteq Executions
  /\ holder \in [Mutexes -> Threads \cup {NoThread}]
  /\ poisoned \subseteq Mutexes
  /\ thread \in [Threads -> Calls]
  /\ acked \in [Executions -> Seq(Confirmations)]
  /\ loaded \in [Executions -> Seq(Records)]
  /\ panics \in 0 .. MaxPanics

\* The thread has a lease, or its destructor is under way.
Leased(t) == thread[t].pc # "Out" /\ thread[t].kind # "acquire"

\* The owned executions are those somebody has a lease of, one thread each:
\* no panic, poisoned mutex or refused call leaves an execution locked with
\* nobody to release it, and no two threads own one (MemoryLease::drop).
OwnersHaveLeases ==
  /\ owners = {thread[t].id : t \in {u \in Threads : Leased(u)}}
  /\ \A t, u \in Threads :
       Leased(t) /\ Leased(u) /\ thread[t].id = thread[u].id => t = u

\* Once a panic has poisoned the journals no call reads or changes them: what
\* a panicking append left behind is never shown to anybody.
PoisonFreezesJournals ==
  [][ "executions" \in poisoned => UNCHANGED <<executions, loaded>> ]_vars

Owner(id) ==
  IF \E t \in Threads : Leased(t) /\ thread[t].id = id
    THEN CHOOSE t \in Threads : Leased(t) /\ thread[t].id = id
    ELSE NoThread

Request(id) ==
  LET call == thread[Owner(id)]
  IN IF Owner(id) = NoThread \/ call.kind \in {"none", "drop"} THEN [kind |-> "none"]
     ELSE IF call.kind = "load" THEN [kind |-> "load"]
     ELSE [kind |-> IF call.pc = "Pushed" THEN "added" ELSE "append",
           record |-> call.record]

Store(id) ==
  INSTANCE StoreContract WITH
    Owners <- Threads, NoOwner <- NoThread,
    log <- executions[id], owner <- Owner(id), request <- Request(id),
    acked <- acked[id], loaded <- loaded[id]

\* Every execution has the store the engine relies on, although all of them
\* share two mutexes and a panic in one shuts out the others.
ImplementsStore ==
  /\ \A id \in Executions : Store(id)!Init
  /\ [][ \A id \in Executions : [Store(id)!Next]_(Store(id)!vars) ]_vars
=============================================================================
