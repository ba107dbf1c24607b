------------------------ MODULE MemoryJournalProofs ------------------------
(***************************************************************************)
(* MemoryJournal.tla for any number of threads, executions, events and     *)
(* panics: types, the agreement of the owners set with the leases, and the *)
(* silence of a poisoned journal map.                                      *)
(*                                                                         *)
(* A step moves one thread.  What the other threads rely on is that nobody *)
(* else enters the mutex they are inside of (HeldMutex), and nobody else   *)
(* appends to the execution they have a lease of (OwnersHaveLeases).       *)
(***************************************************************************)
EXTENDS MemoryJournal, TLAPS, SequenceTheorems

-----------------------------------------------------------------------------
HeldMutex(t) ==
  thread[t].pc = "Inside" =>
    /\ holder[MutexOf(thread[t].kind)] = t
    /\ thread[t].kind # "drop" => MutexOf(thread[t].kind) \notin poisoned

CallShape(t) ==
  /\ thread[t].pc \in {"Out", "Held"} => thread[t].kind = "none"
  /\ thread[t].pc \in {"Want", "Inside"} => thread[t].kind # "none"
  /\ thread[t].pc = "Pushed" => thread[t].kind = "append"

\* What is left to do of an append, and the room for it.
AppendRoom(t) ==
  thread[t].kind = "append" =>
    /\ thread[t].record \in Records
    /\ IF thread[t].pc = "Pushed"
         THEN Len(executions[thread[t].id]) = thread[t].position + 1
         ELSE Len(executions[thread[t].id]) + 1 <= MaxEvents

IInv ==
  /\ TypeOK
  /\ OwnersHaveLeases
  /\ \A t \in Threads : HeldMutex(t) /\ CallShape(t) /\ AppendRoom(t)

-----------------------------------------------------------------------------
(* One thread's move.                                                      *)

LEMMA OutsideTyped ==
  ASSUME NEW id \in Executions
  PROVE  /\ Outside(id) \in Calls
         /\ Outside(id).pc = "Out" /\ Outside(id).kind = "none" /\ Outside(id).id = id
  BY DEF Outside, Calls, Pcs, Kinds

\* The states Leave, Keep, Dropping and Acquire put a thread in.
LEMMA ResetTyped ==
  ASSUME NEW id \in Executions
  PROVE  /\ [Outside(id) EXCEPT !.pc = "Held"] \in Calls
         /\ [Outside(id) EXCEPT !.pc = "Want", !.kind = "drop"] \in Calls
         /\ [Outside(id) EXCEPT !.pc = "Want", !.kind = "acquire"] \in Calls
  BY DEF Outside, Calls, Pcs, Kinds

\* A move that keeps the thread's lease, or its lack of one, and no change of
\* owners keep the two in agreement.
LEMMA SameLeases ==
  ASSUME TypeOK, OwnersHaveLeases, NEW t \in Threads, NEW c \in Calls,
         thread' = [thread EXCEPT ![t] = c], owners' = owners,
         Leased(t) <=> c.pc # "Out" /\ c.kind # "acquire",
         Leased(t) => c.id = thread[t].id
  PROVE  OwnersHaveLeases'
<1>1. /\ thread \in [Threads -> Calls] /\ thread'[t] = c
      /\ \A u \in Threads \ {t} : thread'[u] = thread[u]
  BY DEF TypeOK
<1>2. \A u \in Threads : (Leased(u))' <=> Leased(u)
  BY <1>1 DEF Leased
<1>3. \A u \in Threads : Leased(u) => thread'[u].id = thread[u].id
  BY <1>1
<1>4. {thread'[u].id : u \in {v \in Threads : (Leased(v))'}}
        = {thread[u].id : u \in {v \in Threads : Leased(v)}}
  BY <1>2, <1>3
<1> QED BY <1>2, <1>3, <1>4 DEF OwnersHaveLeases

\* What the mover does to the mutexes is none of another thread's business.
LEMMA OthersInside ==
  ASSUME IInv, NEW t \in Threads, NEW u \in Threads, u # t, thread'[u] = thread[u],
         NEW m \in Mutexes, holder[m] \in {t, NoThread},
         \/ holder' = holder
         \/ \E h \in Threads \cup {NoThread} : holder' = [holder EXCEPT ![m] = h],
         poisoned' = poisoned \/ poisoned' = poisoned \cup {m}
  PROVE  HeldMutex(u)' /\ CallShape(u)'
<1>1. HeldMutex(u) /\ CallShape(u) /\ holder \in [Mutexes -> Threads \cup {NoThread}]
  BY DEF IInv, TypeOK
<1>2. ASSUME thread[u].pc = "Inside"
      PROVE  MutexOf(thread[u].kind) # m /\ MutexOf(thread[u].kind) \in Mutexes
  BY <1>1, <1>2, NoThreadAssumption DEF HeldMutex, MutexOf, Mutexes
<1>3. CASE thread[u].pc = "Inside"
  BY <1>1, <1>2, <1>3 DEF HeldMutex, CallShape
<1>4. CASE thread[u].pc # "Inside"
  BY <1>1, <1>4 DEF HeldMutex, CallShape
<1> QED BY <1>3, <1>4

\* An append of one thread leaves the room of another's.
LEMMA OthersRoom ==
  ASSUME IInv, NEW t \in Threads, NEW u \in Threads, u # t, thread'[u] = thread[u],
         \/ executions' = executions
         \/ /\ Leased(t)
            /\ \E j : executions' = [executions EXCEPT ![thread[t].id] = j]
  PROVE  AppendRoom(u)'
<1>1. /\ AppendRoom(u) /\ CallShape(u) /\ executions \in [Executions -> Seq(Records)]
      /\ thread \in [Threads -> Calls]
  BY DEF IInv, TypeOK
<1>2. CASE executions' = executions
  BY <1>1, <1>2 DEF AppendRoom
<1>3. CASE thread[u].kind # "append"
  BY <1>3 DEF AppendRoom
<1>4. CASE /\ thread[u].kind = "append" /\ Leased(t)
           /\ \E j : executions' = [executions EXCEPT ![thread[t].id] = j]
  <2>1. Leased(u)
    BY <1>1, <1>4 DEF CallShape, Leased
  <2>2. thread[u].id # thread[t].id /\ thread[u].id \in Executions
    BY <1>1, <1>4, <2>1 DEF IInv, OwnersHaveLeases, Calls
  <2>3. executions'[thread[u].id] = executions[thread[u].id]
    BY <1>1, <1>4, <2>2
  <2> QED BY <1>1, <2>3 DEF AppendRoom
<1> QED BY <1>2, <1>3, <1>4

\* A thread's move to `c` keeps the invariant if the move itself is sound.
LEMMA MovePreserves ==
  ASSUME IInv, TypeOK', OwnersHaveLeases',
         NEW t \in Threads, NEW c \in Calls, thread' = [thread EXCEPT ![t] = c],
         NEW m \in Mutexes, holder[m] \in {t, NoThread},
         \/ holder' = holder
         \/ \E h \in Threads \cup {NoThread} : holder' = [holder EXCEPT ![m] = h],
         poisoned' = poisoned \/ poisoned' = poisoned \cup {m},
         \/ executions' = executions
         \/ /\ Leased(t)
            /\ \E j : executions' = [executions EXCEPT ![thread[t].id] = j],
         HeldMutex(t)' /\ CallShape(t)' /\ AppendRoom(t)'
  PROVE  IInv'
<1>1. \A u \in Threads \ {t} : thread'[u] = thread[u]
  BY DEF IInv, TypeOK
<1>2. ASSUME NEW u \in Threads, u # t
      PROVE  HeldMutex(u)' /\ CallShape(u)' /\ AppendRoom(u)'
  BY <1>1, <1>2, OthersInside, OthersRoom
<1> QED BY <1>2 DEF IInv

\* The same for a move that touches no mutex.
LEMMA QuietMovePreserves ==
  ASSUME IInv, TypeOK', OwnersHaveLeases',
         NEW t \in Threads, NEW c \in Calls, thread' = [thread EXCEPT ![t] = c],
         UNCHANGED <<holder, poisoned, executions>>,
         HeldMutex(t)' /\ CallShape(t)' /\ AppendRoom(t)'
  PROVE  IInv'
<1>1. \A u \in Threads \ {t} : thread'[u] = thread[u]
  BY DEF IInv, TypeOK
<1>2. ASSUME NEW u \in Threads, u # t
      PROVE  HeldMutex(u)' /\ CallShape(u)' /\ AppendRoom(u)'
  BY <1>1, <1>2 DEF IInv, HeldMutex, CallShape, AppendRoom
<1> QED BY <1>2 DEF IInv

-----------------------------------------------------------------------------
(* The actions.                                                            *)

LEMMA InitInvariant == Init => IInv
<1> SUFFICES ASSUME Init PROVE IInv
  OBVIOUS
<1>1. \A t \in Threads : thread[t] \in Calls /\ thread[t].pc = "Out" /\ thread[t].kind = "none"
  BY OutsideTyped DEF Init
<1>2. <<>> \in Seq(Records) /\ <<>> \in Seq(Confirmations) /\ Len(<<>>) = 0
  BY EmptySeq
<1>3. TypeOK
  <2>1. thread \in [Threads -> Calls]
    BY <1>1 DEF Init
  <2>2. holder \in [Mutexes -> Threads \cup {NoThread}]
    BY DEF Init
  <2>3. \A id \in Executions : Len(executions[id]) <= MaxEvents
    BY <1>2, BoundsAssumption DEF Init
  <2>4. panics \in 0 .. MaxPanics
    BY BoundsAssumption DEF Init
  <2> QED BY <1>2, <2>1, <2>2, <2>3, <2>4 DEF Init, TypeOK
<1>4. OwnersHaveLeases
  BY <1>1 DEF Init, OwnersHaveLeases, Leased
<1> QED BY <1>1, <1>3, <1>4 DEF IInv, HeldMutex, CallShape, AppendRoom

\* Calls that only change what their thread is doing.
LEMMA AcquireInvariant ==
  ASSUME IInv, NEW t \in Threads, NEW id \in Executions, Acquire(t, id)
  PROVE  IInv'
<1> DEFINE c == [Outside(id) EXCEPT !.pc = "Want", !.kind = "acquire"]
<1>1. /\ c \in Calls /\ c.pc = "Want" /\ c.kind = "acquire" /\ thread' = [thread EXCEPT ![t] = c]
      /\ UNCHANGED <<executions, owners, holder, poisoned, acked, loaded, panics>>
  BY ResetTyped DEF Acquire, Become, Outside, store, mutexes, answers
<1>2. thread[t].pc = "Out" /\ thread \in [Threads -> Calls] /\ ~ Leased(t)
  BY DEF Acquire, IInv, TypeOK, Leased
<1> HIDE DEF c
<1>3. TypeOK'
  BY <1>1, <1>2 DEF IInv, TypeOK
<1>4. OwnersHaveLeases'
  BY <1>1, <1>2, SameLeases DEF IInv
<1>5. thread'[t] = c
  BY <1>1, <1>2
<1>6. HeldMutex(t)' /\ CallShape(t)' /\ AppendRoom(t)'
  BY <1>1, <1>5 DEF HeldMutex, CallShape, AppendRoom
<1> QED BY <1>1, <1>3, <1>4, <1>6, QuietMovePreserves

LEMMA CallInvariant ==
  ASSUME IInv, NEW t \in Threads, NEW kind \in {"append", "load"},
         NEW record \in Records \cup {NoThread}, kind = "append" => record \in Records,
         Call(t, kind, record)
  PROVE  IInv'
<1> DEFINE c == [thread[t] EXCEPT !.pc = "Want", !.kind = kind, !.record = record]
<1>1. thread \in [Threads -> Calls] /\ thread[t].pc = "Held" /\ thread[t].kind = "none"
  BY DEF Call, IInv, TypeOK, CallShape
<1>2. /\ c \in Calls /\ c.pc = "Want" /\ c.kind = kind /\ c.record = record
      /\ c.id = thread[t].id
  BY <1>1 DEF Calls, Pcs, Kinds
<1>3. /\ thread' = [thread EXCEPT ![t] = c]
      /\ UNCHANGED <<executions, owners, holder, poisoned, acked, loaded, panics>>
  BY DEF Call, Become, store, mutexes, answers
<1>4. kind = "append" => Len(executions[thread[t].id]) + 1 <= MaxEvents
  <2>1. executions[thread[t].id] \in Seq(Records)
    BY <1>1 DEF IInv, TypeOK, Calls
  <2>2. Len(executions[thread[t].id]) \in Nat
    BY <2>1, LenProperties
  <2>3. kind = "append" => Len(executions[thread[t].id]) < MaxEvents
    BY DEF Call
  <2> QED BY <2>2, <2>3, BoundsAssumption
<1> HIDE DEF c
<1>5. TypeOK'
  BY <1>2, <1>3 DEF IInv, TypeOK
<1>6. Leased(t) /\ OwnersHaveLeases'
  <2>1. Leased(t)
    BY <1>1 DEF Leased
  <2> QED BY <1>2, <1>3, <2>1, SameLeases DEF IInv
<1>7. thread'[t] = c
  BY <1>1, <1>3
<1>8. HeldMutex(t)' /\ CallShape(t)' /\ AppendRoom(t)'
  BY <1>2, <1>3, <1>4, <1>7 DEF HeldMutex, CallShape, AppendRoom
<1> QED BY <1>2, <1>3, <1>5, <1>6, <1>8, QuietMovePreserves

\* Keep, Leave and Dropping put a thread where it has nothing to prove.
LEMMA RestsOK ==
  ASSUME NEW t \in Threads, NEW c \in Calls, thread'[t] = c,
         \/ c.pc \in {"Out", "Held"} /\ c.kind = "none"
         \/ c.pc = "Want" /\ c.kind = "drop"
  PROVE  HeldMutex(t)' /\ CallShape(t)' /\ AppendRoom(t)'
  BY DEF HeldMutex, CallShape, AppendRoom

LEMMA KeepMove ==
  ASSUME NEW t \in Threads, thread \in [Threads -> Calls], Keep(t)
  PROVE  LET c == [Outside(thread[t].id) EXCEPT !.pc = "Held"]
         IN /\ c \in Calls /\ c.pc = "Held" /\ c.kind = "none" /\ c.id = thread[t].id
            /\ thread' = [thread EXCEPT ![t] = c] /\ thread'[t] = c
<1>1. thread[t].id \in Executions
  BY DEF Calls
<1> QED BY <1>1, ResetTyped DEF Keep, Become, Outside

LEMMA LeaveMove ==
  ASSUME NEW t \in Threads, thread \in [Threads -> Calls], Leave(t)
  PROVE  LET c == Outside(thread[t].id)
         IN /\ c \in Calls /\ c.pc = "Out" /\ c.kind = "none" /\ c.id = thread[t].id
            /\ thread' = [thread EXCEPT ![t] = c] /\ thread'[t] = c
<1>1. thread[t].id \in Executions
  BY DEF Calls
<1> QED BY <1>1, OutsideTyped DEF Leave, Become

LEMMA DroppingMove ==
  ASSUME NEW t \in Threads, thread \in [Threads -> Calls], Dropping(t)
  PROVE  LET c == [Outside(thread[t].id) EXCEPT !.pc = "Want", !.kind = "drop"]
         IN /\ c \in Calls /\ c.pc = "Want" /\ c.kind = "drop" /\ c.id = thread[t].id
            /\ thread' = [thread EXCEPT ![t] = c] /\ thread'[t] = c
<1>1. thread[t].id \in Executions
  BY DEF Calls
<1> QED BY <1>1, ResetTyped DEF Dropping, Become, Outside

LEMMA DropInvariant ==
  ASSUME IInv, NEW t \in Threads, Drop(t)
  PROVE  IInv'
<1>1. /\ thread \in [Threads -> Calls] /\ Dropping(t) /\ Leased(t)
      /\ UNCHANGED <<executions, owners, holder, poisoned, acked, loaded, panics>>
  BY DEF Drop, IInv, TypeOK, CallShape, Leased, store, mutexes, answers
<1>2. PICK c \in Calls : /\ c.pc = "Want" /\ c.kind = "drop" /\ c.id = thread[t].id
                         /\ thread' = [thread EXCEPT ![t] = c] /\ thread'[t] = c
  BY <1>1, DroppingMove
<1>3. TypeOK'
  BY <1>1, <1>2 DEF IInv, TypeOK
<1>4. OwnersHaveLeases'
  BY <1>1, <1>2, SameLeases DEF IInv
<1> QED BY <1>1, <1>2, <1>3, <1>4, RestsOK, QuietMovePreserves

LEMMA LockInvariant ==
  ASSUME IInv, NEW t \in Threads, Lock(t)
  PROVE  IInv'
<1> DEFINE c == [thread[t] EXCEPT !.pc = "Inside"]
           m == MutexOf(thread[t].kind)
<1>1. /\ thread \in [Threads -> Calls] /\ thread[t].pc = "Want" /\ thread[t].kind # "none"
      /\ holder \in [Mutexes -> Threads \cup {NoThread}]
      /\ holder[m] = NoThread /\ (thread[t].kind = "drop" \/ m \notin poisoned)
  BY DEF Lock, Free, Admits, IInv, TypeOK, CallShape
<1>2. /\ c \in Calls /\ c.pc = "Inside" /\ c.kind = thread[t].kind /\ c.id = thread[t].id
      /\ c.record = thread[t].record /\ c.position = thread[t].position
  BY <1>1 DEF Calls, Pcs
<1>3. /\ thread' = [thread EXCEPT ![t] = c] /\ holder' = [holder EXCEPT ![m] = t]
      /\ UNCHANGED <<executions, owners, poisoned, acked, loaded, panics>>
  BY DEF Lock, Become, store, answers
<1>4. m \in Mutexes
  BY DEF MutexOf, Mutexes
<1> HIDE DEF c, m
<1>5. thread'[t] = c /\ holder'[m] = t /\ holder' \in [Mutexes -> Threads \cup {NoThread}]
  BY <1>1, <1>2, <1>3, <1>4
<1>6. TypeOK'
  BY <1>1, <1>2, <1>3, <1>5 DEF IInv, TypeOK
<1>7. OwnersHaveLeases'
  <2>1. Leased(t) <=> c.pc # "Out" /\ c.kind # "acquire"
    BY <1>1, <1>2 DEF Leased
  <2> QED BY <1>2, <1>3, <2>1, SameLeases DEF IInv
<1>8. HeldMutex(t)' /\ CallShape(t)'
  BY <1>1, <1>2, <1>3, <1>5 DEF HeldMutex, CallShape, m
<1>9. AppendRoom(t)'
  BY <1>1, <1>2, <1>3, <1>5 DEF IInv, AppendRoom
<1> QED BY <1>1, <1>2, <1>3, <1>4, <1>6, <1>7, <1>8, <1>9, MovePreserves

LEMMA RefuseInvariant ==
  ASSUME IInv, NEW t \in Threads, Refuse(t)
  PROVE  IInv'
<1>1. /\ thread \in [Threads -> Calls] /\ thread[t].pc = "Want"
      /\ UNCHANGED <<executions, owners, holder, poisoned, acked, loaded, panics>>
  BY DEF Refuse, Free, IInv, TypeOK, store, mutexes, answers
<1>2. CASE thread[t].kind = "acquire"
  <2>1. Leave(t) /\ ~ Leased(t)
    BY <1>2 DEF Refuse, Leased
  <2>2. PICK c \in Calls : /\ c.pc = "Out" /\ c.kind = "none"
                           /\ thread' = [thread EXCEPT ![t] = c] /\ thread'[t] = c
    BY <1>1, <2>1, LeaveMove
  <2>3. TypeOK'
    BY <1>1, <2>2 DEF IInv, TypeOK
  <2>4. OwnersHaveLeases'
    BY <1>1, <2>1, <2>2, SameLeases DEF IInv
  <2> QED BY <1>1, <2>2, <2>3, <2>4, RestsOK, QuietMovePreserves
<1>3. CASE thread[t].kind # "acquire"
  <2>1. Keep(t) /\ Leased(t)
    BY <1>1, <1>3 DEF Refuse, Leased
  <2>2. PICK c \in Calls : /\ c.pc = "Held" /\ c.kind = "none" /\ c.id = thread[t].id
                           /\ thread' = [thread EXCEPT ![t] = c] /\ thread'[t] = c
    BY <1>1, <2>1, KeepMove
  <2>3. TypeOK'
    BY <1>1, <2>2 DEF IInv, TypeOK
  <2>4. OwnersHaveLeases'
    BY <1>1, <2>1, <2>2, SameLeases DEF IInv
  <2> QED BY <1>1, <2>2, <2>3, <2>4, RestsOK, QuietMovePreserves
<1> QED BY <1>2, <1>3

\* A thread inside its critical section holds the mutex it releases.
LEMMA SectionFacts ==
  ASSUME IInv, NEW t \in Threads, NEW kind \in Kinds, Inside(t, kind), Release(kind)
  PROVE  LET m == MutexOf(kind)
         IN /\ thread \in [Threads -> Calls] /\ thread[t].id \in Executions
            /\ thread[t].pc = "Inside" /\ thread[t].kind = kind
            /\ m \in Mutexes /\ holder[m] = t /\ holder' = [holder EXCEPT ![m] = NoThread]
            /\ holder' \in [Mutexes -> Threads \cup {NoThread}]
<1>1. thread \in [Threads -> Calls] /\ holder \in [Mutexes -> Threads \cup {NoThread}]
  BY DEF IInv, TypeOK
<1>2. thread[t].pc = "Inside" /\ thread[t].kind = kind
  BY DEF Inside
<1>3. MutexOf(kind) \in Mutexes
  BY DEF MutexOf, Mutexes
<1>4. thread[t].id \in Executions
  BY <1>1 DEF Calls
<1>5. holder[MutexOf(kind)] = t
  BY <1>2 DEF IInv, HeldMutex
<1> QED BY <1>1, <1>2, <1>3, <1>4, <1>5 DEF Release

LEMMA InsertInvariant ==
  ASSUME IInv, NEW t \in Threads, Insert(t)
  PROVE  IInv'
<1> DEFINE m == MutexOf("acquire")
<1>1. Inside(t, "acquire") /\ Release("acquire")
      /\ UNCHANGED <<executions, poisoned, acked, loaded, panics>>
  BY DEF Insert, answers
<1>2. /\ thread \in [Threads -> Calls] /\ thread[t].id \in Executions
      /\ thread[t].pc = "Inside" /\ thread[t].kind = "acquire"
      /\ m \in Mutexes /\ holder[m] = t /\ holder' = [holder EXCEPT ![m] = NoThread]
      /\ holder' \in [Mutexes -> Threads \cup {NoThread}]
  BY <1>1, SectionFacts DEF Kinds
<1> HIDE DEF m
<1>3. ~ Leased(t)
  BY <1>2 DEF Leased
<1>4. CASE thread[t].id \in owners
  <2>1. Leave(t) /\ owners' = owners
    BY <1>4 DEF Insert
  <2>2. PICK c \in Calls : /\ c.pc = "Out" /\ c.kind = "none"
                           /\ thread' = [thread EXCEPT ![t] = c] /\ thread'[t] = c
    BY <1>2, <2>1, LeaveMove
  <2>3. TypeOK'
    BY <1>1, <1>2, <2>1, <2>2 DEF IInv, TypeOK
  <2>4. OwnersHaveLeases'
    BY <1>3, <2>1, <2>2, SameLeases DEF IInv
  <2> QED BY <1>1, <1>2, <2>2, <2>3, <2>4, RestsOK, MovePreserves
<1>5. CASE thread[t].id \notin owners
  <2>1. Keep(t) /\ owners' = owners \cup {thread[t].id}
    BY <1>5 DEF Insert
  <2>2. PICK c \in Calls : /\ c.pc = "Held" /\ c.kind = "none" /\ c.id = thread[t].id
                           /\ thread' = [thread EXCEPT ![t] = c] /\ thread'[t] = c
    BY <1>2, <2>1, KeepMove
  <2>3. TypeOK'
    BY <1>1, <1>2, <2>1, <2>2 DEF IInv, TypeOK
  <2>4. \A u \in Threads \ {t} : thread'[u] = thread[u] /\ ((Leased(u))' <=> Leased(u))
    BY <1>2, <2>2 DEF Leased
  <2>5. (Leased(t))'
    BY <2>2 DEF Leased
  <2>6. \A u \in Threads : Leased(u) => u # t /\ thread[u].id # thread[t].id
    BY <1>3, <1>5 DEF IInv, OwnersHaveLeases
  <2>7. owners' = {thread'[u].id : u \in {v \in Threads : (Leased(v))'}}
    BY <1>3, <2>1, <2>2, <2>4, <2>5 DEF IInv, OwnersHaveLeases
  <2>8. ASSUME NEW u \in Threads, NEW v \in Threads, (Leased(u))', (Leased(v))',
               thread'[u].id = thread'[v].id
        PROVE  u = v
    BY <2>2, <2>4, <2>6, <2>8 DEF IInv, OwnersHaveLeases
  <2>9. OwnersHaveLeases'
    BY <2>7, <2>8 DEF OwnersHaveLeases
  <2> QED BY <1>1, <1>2, <2>2, <2>3, <2>9, RestsOK, MovePreserves
<1> QED BY <1>4, <1>5

LEMMA RemoveInvariant ==
  ASSUME IInv, NEW t \in Threads, Remove(t)
  PROVE  IInv'
<1> DEFINE m == MutexOf("drop")
<1>1. /\ Inside(t, "drop") /\ Release("drop") /\ Leave(t)
      /\ owners' = owners \ {thread[t].id}
      /\ UNCHANGED <<executions, poisoned, acked, loaded, panics>>
  BY DEF Remove, answers
<1>2. /\ thread \in [Threads -> Calls] /\ thread[t].id \in Executions
      /\ thread[t].pc = "Inside" /\ thread[t].kind = "drop"
      /\ m \in Mutexes /\ holder[m] = t /\ holder' = [holder EXCEPT ![m] = NoThread]
      /\ holder' \in [Mutexes -> Threads \cup {NoThread}]
  BY <1>1, SectionFacts DEF Kinds
<1> HIDE DEF m
<1>3. PICK c \in Calls : /\ c.pc = "Out" /\ c.kind = "none"
                         /\ thread' = [thread EXCEPT ![t] = c] /\ thread'[t] = c
  BY <1>1, <1>2, LeaveMove
<1>4. TypeOK'
  BY <1>1, <1>2, <1>3 DEF IInv, TypeOK
<1>5. OwnersHaveLeases'
  <2>1. Leased(t) /\ ~ (Leased(t))'
    BY <1>2, <1>3 DEF Leased
  <2>2. \A u \in Threads \ {t} : thread'[u] = thread[u] /\ ((Leased(u))' <=> Leased(u))
    BY <1>2, <1>3 DEF Leased
  <2>3. \A u \in Threads \ {t} : Leased(u) => thread[u].id # thread[t].id
    BY <2>1 DEF IInv, OwnersHaveLeases
  <2>4. owners' = {thread'[u].id : u \in {v \in Threads : (Leased(v))'}}
    BY <1>1, <2>1, <2>2, <2>3 DEF IInv, OwnersHaveLeases
  <2> QED BY <2>1, <2>2, <2>4 DEF IInv, OwnersHaveLeases
<1> QED BY <1>1, <1>2, <1>3, <1>4, <1>5, RestsOK, MovePreserves

LEMMA CloneInvariant ==
  ASSUME IInv, NEW t \in Threads, Clone(t)
  PROVE  IInv'
<1> DEFINE m == MutexOf("load")
<1>1. /\ Inside(t, "load") /\ Release("load") /\ Keep(t)
      /\ loaded' = [loaded EXCEPT ![thread[t].id] = executions[thread[t].id]]
      /\ UNCHANGED <<executions, owners, poisoned, acked, panics>>
  BY DEF Clone, store
<1>2. /\ thread \in [Threads -> Calls] /\ thread[t].id \in Executions
      /\ thread[t].pc = "Inside" /\ thread[t].kind = "load"
      /\ m \in Mutexes /\ holder[m] = t /\ holder' = [holder EXCEPT ![m] = NoThread]
      /\ holder' \in [Mutexes -> Threads \cup {NoThread}]
  BY <1>1, SectionFacts DEF Kinds
<1> HIDE DEF m
<1>3. PICK c \in Calls : /\ c.pc = "Held" /\ c.kind = "none" /\ c.id = thread[t].id
                         /\ thread' = [thread EXCEPT ![t] = c] /\ thread'[t] = c
  BY <1>1, <1>2, KeepMove
<1>4. TypeOK'
  BY <1>1, <1>2, <1>3 DEF IInv, TypeOK
<1>5. OwnersHaveLeases'
  <2>1. Leased(t)
    BY <1>2 DEF Leased
  <2> QED BY <1>1, <1>3, <2>1, SameLeases DEF IInv
<1> QED BY <1>1, <1>2, <1>3, <1>4, <1>5, RestsOK, MovePreserves

LEMMA PushInvariant ==
  ASSUME IInv, NEW t \in Threads, Push(t)
  PROVE  IInv'
<1> DEFINE m == MutexOf("append")
           id == thread[t].id
           log == executions[id]
           c == [thread[t] EXCEPT !.pc = "Pushed", !.position = Len(log)]
<1>1. /\ Inside(t, "append") /\ Release("append")
      /\ executions' = [executions EXCEPT ![id] = Append(log, thread[t].record)]
      /\ thread' = [thread EXCEPT ![t] = c]
      /\ UNCHANGED <<owners, poisoned, acked, loaded, panics>>
  BY DEF Push, Become, answers
<1>2. /\ thread \in [Threads -> Calls] /\ id \in Executions
      /\ thread[t].pc = "Inside" /\ thread[t].kind = "append"
      /\ m \in Mutexes /\ holder[m] = t /\ holder' = [holder EXCEPT ![m] = NoThread]
      /\ holder' \in [Mutexes -> Threads \cup {NoThread}]
  BY <1>1, SectionFacts DEF Kinds
<1>3. /\ executions \in [Executions -> Seq(Records)] /\ log \in Seq(Records)
      /\ Len(log) \in Nat
      /\ thread[t].record \in Records /\ Len(log) + 1 <= MaxEvents
  <2>1. executions \in [Executions -> Seq(Records)]
    BY DEF IInv, TypeOK
  <2>2. log \in Seq(Records)
    BY <1>2, <2>1
  <2>3. thread[t].record \in Records /\ Len(log) + 1 <= MaxEvents
    BY <1>2 DEF IInv, AppendRoom
  <2> QED BY <2>1, <2>2, <2>3, LenProperties
<1>4. /\ Append(log, thread[t].record) \in Seq(Records)
      /\ Len(Append(log, thread[t].record)) = Len(log) + 1
  BY <1>3, AppendProperties
<1>5. /\ c \in Calls /\ c.pc = "Pushed" /\ c.kind = "append" /\ c.id = id
      /\ c.record = thread[t].record /\ c.position = Len(log)
  BY <1>2, <1>3 DEF Calls, Pcs
<1> HIDE DEF m, c
<1>6. thread'[t] = c
  BY <1>1, <1>2
<1>7. /\ executions' \in [Executions -> Seq(Records)]
      /\ executions'[id] = Append(log, thread[t].record)
      /\ \A i \in Executions \ {id} : executions'[i] = executions[i]
  BY <1>1, <1>2, <1>3, <1>4
<1>8. \A i \in Executions : Len(executions'[i]) <= MaxEvents
  <2>1. Len(executions'[id]) <= MaxEvents
    BY <1>3, <1>4, <1>7
  <2>2. \A i \in Executions : Len(executions[i]) <= MaxEvents
    BY DEF IInv, TypeOK
  <2> QED BY <1>7, <2>1, <2>2
<1>9. TypeOK'
  BY <1>1, <1>2, <1>5, <1>7, <1>8 DEF IInv, TypeOK
<1>10. Leased(t) /\ OwnersHaveLeases'
  <2>1. Leased(t)
    BY <1>2 DEF Leased
  <2> QED BY <1>1, <1>5, <2>1, SameLeases DEF IInv
<1>11. HeldMutex(t)' /\ CallShape(t)'
  BY <1>5, <1>6 DEF HeldMutex, CallShape
<1>12. AppendRoom(t)'
  <2>1. Len(executions'[thread'[t].id]) = thread'[t].position + 1
    BY <1>4, <1>5, <1>6, <1>7
  <2> QED BY <1>3, <1>5, <1>6, <2>1 DEF AppendRoom
<1> QED BY <1>1, <1>2, <1>5, <1>9, <1>10, <1>11, <1>12, MovePreserves

LEMMA ConfirmInvariant ==
  ASSUME IInv, NEW t \in Threads, Confirm(t)
  PROVE  IInv'
<1> DEFINE id == thread[t].id
           answer == [record |-> thread[t].record, position |-> thread[t].position]
<1>1. /\ thread[t].pc = "Pushed" /\ Keep(t)
      /\ acked' = [acked EXCEPT ![id] = Append(acked[id], answer)]
      /\ UNCHANGED <<executions, owners, holder, poisoned, loaded, panics>>
  BY DEF Confirm, store, mutexes
<1>2. /\ thread \in [Threads -> Calls] /\ id \in Executions
      /\ thread[t].position \in Nat /\ thread[t].kind = "append" /\ Leased(t)
  BY <1>1 DEF IInv, TypeOK, CallShape, Leased, Calls
<1>3. PICK c \in Calls : /\ c.pc = "Held" /\ c.kind = "none" /\ c.id = id
                         /\ thread' = [thread EXCEPT ![t] = c] /\ thread'[t] = c
  BY <1>1, <1>2, KeepMove
<1>4. answer \in Confirmations
  <2>1. thread[t].record \in Records /\ Len(executions[id]) = thread[t].position + 1
    BY <1>1, <1>2 DEF IInv, AppendRoom
  <2>2. Len(executions[id]) <= MaxEvents
    BY <1>2 DEF IInv, TypeOK
  <2>3. thread[t].position + 1 <= MaxEvents
    BY <2>1, <2>2
  <2>4. thread[t].position \in 0 .. MaxEvents - 1
    BY <1>2, <2>3, BoundsAssumption
  <2> QED BY <2>1, <2>4 DEF Confirmations
<1>5. acked' \in [Executions -> Seq(Confirmations)]
  <2>1. acked \in [Executions -> Seq(Confirmations)]
    BY DEF IInv, TypeOK
  <2>2. Append(acked[id], answer) \in Seq(Confirmations)
    BY <1>2, <1>4, <2>1, AppendProperties
  <2> HIDE DEF answer
  <2> QED BY <1>1, <2>1, <2>2
<1>6. TypeOK'
  BY <1>1, <1>2, <1>3, <1>5 DEF IInv, TypeOK
<1>7. OwnersHaveLeases'
  BY <1>1, <1>2, <1>3, SameLeases DEF IInv
<1> QED BY <1>1, <1>3, <1>6, <1>7, RestsOK, QuietMovePreserves

LEMMA PanicInvariant ==
  ASSUME IInv, NEW t \in Threads, Panic(t)
  PROVE  IInv'
<1> DEFINE kind == thread[t].kind
           m == MutexOf(kind)
<1>1. /\ thread[t].pc = "Inside" /\ Release(kind)
      /\ poisoned' = poisoned \cup {m}
      /\ panics < MaxPanics /\ panics' = panics + 1
      /\ UNCHANGED <<executions, owners, acked, loaded>>
  BY DEF Panic, store, answers
<1>2. /\ thread \in [Threads -> Calls] /\ thread[t].id \in Executions
      /\ m \in Mutexes /\ holder[m] = t /\ holder' = [holder EXCEPT ![m] = NoThread]
      /\ holder' \in [Mutexes -> Threads \cup {NoThread}]
  <2>1. kind \in Kinds /\ Inside(t, kind)
    BY <1>1 DEF IInv, TypeOK, Calls, Inside
  <2> HIDE DEF kind
  <2> QED BY <1>1, <2>1, SectionFacts
<1>3. /\ panics' \in 0 .. MaxPanics /\ poisoned' \subseteq Mutexes
  BY <1>1, <1>2, BoundsAssumption DEF IInv, TypeOK
<1>4. PICK c \in Calls :
        /\ thread' = [thread EXCEPT ![t] = c] /\ thread'[t] = c /\ c.id = thread[t].id
        /\ \/ c.pc \in {"Out", "Held"} /\ c.kind = "none"
           \/ c.pc = "Want" /\ c.kind = "drop"
        /\ Leased(t) <=> c.pc # "Out" /\ c.kind # "acquire"
  <2>1. CASE kind = "acquire"
    <3>1. Leave(t) /\ ~ Leased(t)
      BY <2>1 DEF Panic, Leased
    <3> QED BY <1>2, <3>1, LeaveMove
  <2>2. CASE kind # "acquire"
    <3>1. Dropping(t) /\ Leased(t)
      BY <1>1, <2>2 DEF Panic, Leased
    <3> QED BY <1>2, <3>1, DroppingMove
  <2> QED BY <2>1, <2>2
<1> HIDE DEF m, kind
<1>5. TypeOK'
  BY <1>1, <1>2, <1>3, <1>4 DEF IInv, TypeOK
<1>6. OwnersHaveLeases'
  BY <1>1, <1>4, SameLeases DEF IInv
<1> QED BY <1>1, <1>2, <1>4, <1>5, <1>6, RestsOK, MovePreserves

LEMMA StutterInvariant == IInv /\ UNCHANGED vars => IInv'
BY DEF IInv, TypeOK, OwnersHaveLeases, Leased, HeldMutex, CallShape, AppendRoom,
       vars, store, mutexes, answers

LEMMA NextInvariant == IInv /\ [Next]_vars => IInv'
<1> SUFFICES ASSUME IInv, [Next]_vars PROVE IInv'
  OBVIOUS
<1>1. ASSUME NEW t \in Threads, Begin(t) PROVE IInv'
  <2>1. CASE \E id \in Executions : Acquire(t, id)
    BY <2>1, AcquireInvariant
  <2>2. CASE \E record \in Records : Call(t, "append", record)
    BY <2>2, CallInvariant
  <2>3. CASE Call(t, "load", NoThread)
    BY <2>3, CallInvariant
  <2>4. CASE Drop(t)
    BY <2>4, DropInvariant
  <2> QED BY <1>1, <2>1, <2>2, <2>3, <2>4 DEF Begin
<1>2. ASSUME NEW t \in Threads, Proceed(t) PROVE IInv'
  BY <1>2, LockInvariant, RefuseInvariant, InsertInvariant, PushInvariant,
     ConfirmInvariant, CloneInvariant, RemoveInvariant DEF Proceed
<1>3. ASSUME NEW t \in Threads, Panic(t) PROVE IInv'
  BY <1>3, PanicInvariant
<1>4. CASE UNCHANGED vars
  BY <1>4, StutterInvariant
<1> QED BY <1>1, <1>2, <1>3, <1>4 DEF Next

-----------------------------------------------------------------------------
\* IInv holds of every reachable state.
THEOREM Invariance == Spec => []IInv
<1> QED BY InitInvariant, NextInvariant, PTL DEF Spec

\* Type correctness for any number of threads and executions.
THEOREM TypeCorrect == Spec => []TypeOK
<1>1. IInv => TypeOK BY DEF IInv
<1> QED BY <1>1, Invariance, PTL

\* Exactly the executions somebody has a lease of are owned, by one thread
\* each, whatever panicked and whatever mutex is poisoned.
THEOREM LeasesAreOwned == Spec => []OwnersHaveLeases
<1>1. IInv => OwnersHaveLeases BY DEF IInv
<1> QED BY <1>1, Invariance, PTL

\* A thread inside the journals' mutex found it unpoisoned, so no call reads
\* or changes the journals once it is poisoned.
THEOREM PoisonIsFinal == Spec => PoisonFreezesJournals
<1>1. ASSUME IInv, [Next]_vars, "executions" \in poisoned
      PROVE  UNCHANGED <<executions, loaded>>
  <2>1. ASSUME NEW t \in Threads, NEW kind \in {"append", "load"}, Inside(t, kind)
        PROVE  FALSE
    BY <1>1, <2>1 DEF IInv, HeldMutex, MutexOf, Inside
  <2>2. ASSUME NEW t \in Threads, Begin(t)
        PROVE  UNCHANGED <<executions, loaded>>
    BY <2>2 DEF Begin, Acquire, Call, Drop, store, answers
  <2>3. ASSUME NEW t \in Threads, Proceed(t)
        PROVE  UNCHANGED <<executions, loaded>>
    <3>1. ~ Push(t) /\ ~ Clone(t)
      BY <2>1 DEF Push, Clone
    <3> QED BY <2>3, <3>1
            DEF Proceed, Lock, Refuse, Insert, Confirm, Remove, store, answers
  <2>4. ASSUME NEW t \in Threads, Panic(t)
        PROVE  UNCHANGED <<executions, loaded>>
    BY <2>4 DEF Panic, store, answers
  <2> QED BY <1>1, <2>2, <2>3, <2>4 DEF Next, vars, store, answers
<1>2. IInv /\ [Next]_vars => ["executions" \in poisoned => UNCHANGED <<executions, loaded>>]_vars
  BY <1>1
<1> QED BY <1>2, Invariance, PTL DEF Spec, PoisonFreezesJournals

-----------------------------------------------------------------------------
(* The store contract.  A step moves one thread, hence at most one         *)
(* execution's store: the one the thread has, gets or gives up the lease of. *)

LEMMA OwnerIs ==
  ASSUME OwnersHaveLeases, NEW t \in Threads, Leased(t)
  PROVE  Owner(thread[t].id) = t
  BY DEF OwnersHaveLeases, Owner

LEMMA OwnerIsNext ==
  ASSUME OwnersHaveLeases', NEW t \in Threads, (Leased(t))'
  PROVE  Owner(thread[t].id)' = t
  BY DEF OwnersHaveLeases, Owner

LEMMA NobodyOwns ==
  ASSUME NEW id, \A t \in Threads : Leased(t) => thread[t].id # id
  PROVE  Owner(id) = NoThread /\ Request(id) = [kind |-> "none"]
<1>1. Owner(id) = NoThread BY DEF Owner
<1> QED BY <1>1 DEF Request

LEMMA NobodyOwnsNext ==
  ASSUME NEW id, \A t \in Threads : (Leased(t))' => thread'[t].id # id
  PROVE  Owner(id)' = NoThread /\ Request(id)' = [kind |-> "none"]
<1>1. Owner(id)' = NoThread BY DEF Owner
<1> QED BY <1>1 DEF Request

\* The request of an owned execution is its owner's call.
Asked(c) ==
  IF c.kind \in {"none", "drop"} THEN [kind |-> "none"]
  ELSE IF c.kind = "load" THEN [kind |-> "load"]
  ELSE [kind |-> IF c.pc = "Pushed" THEN "added" ELSE "append", record |-> c.record]

LEMMA RequestIs ==
  ASSUME OwnersHaveLeases, NEW t \in Threads, Leased(t)
  PROVE  Request(thread[t].id) = Asked(thread[t])
  BY OwnerIs, NoThreadAssumption DEF Request, Asked

LEMMA RequestIsNext ==
  ASSUME OwnersHaveLeases', NEW t \in Threads, (Leased(t))'
  PROVE  Request(thread[t].id)' = Asked(thread'[t])
  BY OwnerIsNext, NoThreadAssumption DEF Request, Asked

\* A step of the store of one execution, or none.
StoreStep(id) == [Store(id)!Next]_(Store(id)!vars)

\* A store nobody's move touches.
LEMMA OtherStores ==
  ASSUME IInv, IInv', NEW t \in Threads, NEW c \in Calls,
         thread' = [thread EXCEPT ![t] = c],
         NEW id \in Executions,
         Leased(t) => thread[t].id # id, (Leased(t))' => thread'[t].id # id,
         executions'[id] = executions[id], acked'[id] = acked[id], loaded'[id] = loaded[id]
  PROVE  StoreStep(id)
<1>1. OwnersHaveLeases /\ OwnersHaveLeases' /\ \A u \in Threads \ {t} : thread'[u] = thread[u]
  BY DEF IInv, TypeOK
<1>2. Owner(id)' = Owner(id) /\ Request(id)' = Request(id)
  <2>1. CASE \E u \in Threads : Leased(u) /\ thread[u].id = id
    <3>1. PICK u \in Threads : Leased(u) /\ thread[u].id = id
      BY <2>1
    <3>2. u # t /\ thread'[u] = thread[u] /\ (Leased(u))'
      BY <1>1, <3>1 DEF Leased
    <3> QED BY <1>1, <3>1, <3>2, OwnerIs, OwnerIsNext, RequestIs, RequestIsNext
  <2>2. CASE \A u \in Threads : Leased(u) => thread[u].id # id
    <3>1. \A u \in Threads : (Leased(u))' => thread'[u].id # id
      BY <1>1, <2>2 DEF Leased
    <3> QED BY <2>2, <3>1, NobodyOwns, NobodyOwnsNext
  <2> QED BY <2>1, <2>2
<1> QED BY <1>2 DEF StoreStep, Store!vars

\* If the mover's own store makes a step, every store does.
LEMMA OneStoreMoves ==
  ASSUME IInv, IInv', NEW t \in Threads, NEW c \in Calls,
         thread' = [thread EXCEPT ![t] = c],
         NEW own \in Executions, Leased(t) => thread[t].id = own, (Leased(t))' => thread'[t].id = own,
         \A id \in Executions \ {own} :
           executions'[id] = executions[id] /\ acked'[id] = acked[id] /\ loaded'[id] = loaded[id],
         StoreStep(own)
  PROVE  \A id \in Executions : StoreStep(id)
<1>1. ASSUME NEW id \in Executions, id # own
      PROVE  StoreStep(id)
  <2>1. /\ Leased(t) => thread[t].id # id
        /\ (Leased(t))' => thread'[t].id # id
    BY <1>1
  <2>2. executions'[id] = executions[id] /\ acked'[id] = acked[id] /\ loaded'[id] = loaded[id]
    BY <1>1
  <2> QED BY <2>1, <2>2, OtherStores
<1> QED BY <1>1

\* A move without a lease touches no store.
LEMMA UnleasedMove ==
  ASSUME IInv, IInv', NEW t \in Threads, NEW c \in Calls,
         thread' = [thread EXCEPT ![t] = c], ~ Leased(t), ~ (Leased(t))',
         UNCHANGED <<executions, acked, loaded>>
  PROVE  \A id \in Executions : StoreStep(id)
  BY OtherStores

\* What the contract sees of a thread that has a lease before and after.
LEMMA OwnStore ==
  ASSUME IInv, IInv', NEW t \in Threads, Leased(t), (Leased(t))',
         thread'[t].id = thread[t].id
  PROVE  LET own == thread[t].id
         IN /\ own \in Executions
            /\ Owner(own) = t /\ Request(own) = Asked(thread[t])
            /\ \A id : id = own => Owner(id)' = t /\ Request(id)' = Asked(thread'[t])
<1>1. OwnersHaveLeases /\ OwnersHaveLeases' /\ thread[t].id \in Executions
  BY DEF IInv, TypeOK, Calls
<1>3. PICK own : own = thread[t].id
  OBVIOUS
<1>4. thread'[t].id = own
  BY <1>3
<1>5. Owner(own)' = t
  BY <1>1, <1>4 DEF OwnersHaveLeases, Owner
<1>6. Request(own)' = Asked(thread'[t])
  BY <1>5, NoThreadAssumption DEF Request, Asked
<1> QED BY <1>1, <1>3, <1>5, <1>6, OwnerIs, RequestIs

\* A leased thread's move that appends, confirms and loads nothing: nothing
\* happens to the request, it is asked, or it ends.
LEMMA LeasedMove ==
  ASSUME IInv, IInv', NEW t \in Threads, NEW c \in Calls,
         thread' = [thread EXCEPT ![t] = c], Leased(t), (Leased(t))', c.id = thread[t].id,
         UNCHANGED <<executions, acked, loaded>>,
         \/ Asked(c) = Asked(thread[t])
         \/ Asked(c) = [kind |-> "none"]
         \/ /\ Asked(thread[t]) = [kind |-> "none"]
            /\ Asked(c) \in {[kind |-> "load"]}
                           \cup {[kind |-> "append", record |-> r] : r \in Records}
  PROVE  \A id \in Executions : StoreStep(id)
<1>1. thread'[t] = c
  BY DEF IInv, TypeOK
<1>2. PICK own : own = thread[t].id
  OBVIOUS
<1>3. /\ own \in Executions /\ Owner(own) = t /\ Request(own) = Asked(thread[t])
      /\ Owner(own)' = t /\ Request(own)' = Asked(c)
  BY <1>1, <1>2, OwnStore
<1>4. executions'[own] = executions[own] /\ acked'[own] = acked[own] /\ loaded'[own] = loaded[own]
  OBVIOUS
<1>5. StoreStep(own)
  <2>1. CASE Asked(c) = Asked(thread[t])
    BY <1>3, <1>4, <2>1 DEF StoreStep, Store!vars
  <2>2. CASE Asked(c) = [kind |-> "none"]
    <3>1. Store(own)!Leave
      BY <1>3, <1>4, <2>2, NoThreadAssumption DEF Store!Leave, Store!Idle
    <3> QED BY <3>1 DEF StoreStep, Store!Next
  <2>3. CASE /\ Asked(thread[t]) = [kind |-> "none"]
             /\ Asked(c) \in {[kind |-> "load"]}
                            \cup {[kind |-> "append", record |-> r] : r \in Records}
    <3>1. Store(own)!Ask
      BY <1>3, <1>4, <2>3, NoThreadAssumption DEF Store!Ask, Store!Idle, Store!Load, Store!Adding
    <3> QED BY <3>1 DEF StoreStep, Store!Next
  <2> QED BY <2>1, <2>2, <2>3
<1> QED BY <1>1, <1>2, <1>3, <1>5, OneStoreMoves

LEMMA BeginStores ==
  ASSUME IInv, IInv', NEW t \in Threads, Begin(t)
  PROVE  \A id \in Executions : StoreStep(id)
<1>t. thread \in [Threads -> Calls]
  BY DEF IInv, TypeOK
<1>1. ASSUME NEW id \in Executions, Acquire(t, id)
      PROVE  \A i \in Executions : StoreStep(i)
  <2>1. PICK c \in Calls : /\ c.pc = "Want" /\ c.kind = "acquire"
                           /\ thread' = [thread EXCEPT ![t] = c]
    BY <1>1, ResetTyped DEF Acquire, Become, Outside
  <2>2. ~ Leased(t) /\ ~ (Leased(t))'
    BY <1>t, <1>1, <2>1 DEF Acquire, Leased
  <2> QED BY <1>1, <2>1, <2>2, UnleasedMove DEF Acquire, store, answers
<1>2. ASSUME NEW kind \in {"append", "load"}, NEW record \in Records \cup {NoThread},
             kind = "append" => record \in Records, Call(t, kind, record)
      PROVE  \A i \in Executions : StoreStep(i)
  <2> DEFINE c == [thread[t] EXCEPT !.pc = "Want", !.kind = kind, !.record = record]
  <2>1. thread[t].pc = "Held" /\ thread[t].kind = "none"
    BY <1>2 DEF Call, IInv, CallShape
  <2>2. /\ c \in Calls /\ c.pc = "Want" /\ c.kind = kind /\ c.record = record
        /\ c.id = thread[t].id
    BY <1>t DEF Calls, Pcs, Kinds
  <2>3. thread' = [thread EXCEPT ![t] = c] /\ UNCHANGED <<executions, acked, loaded>>
    BY <1>2 DEF Call, Become, store, answers
  <2> HIDE DEF c
  <2>4. Leased(t) /\ (Leased(t))'
    BY <1>t, <2>1, <2>2, <2>3 DEF Leased
  <2>5. Asked(thread[t]) = [kind |-> "none"]
    BY <2>1 DEF Asked
  <2>6. Asked(c) \in {[kind |-> "load"]} \cup {[kind |-> "append", record |-> r] : r \in Records}
    BY <1>2, <2>2 DEF Asked
  <2> QED BY <2>2, <2>3, <2>4, <2>5, <2>6, LeasedMove
<1>3. CASE Drop(t)
  <2>1. Dropping(t) /\ thread[t].pc = "Held" /\ UNCHANGED <<executions, acked, loaded>>
    BY <1>3 DEF Drop, store, answers
  <2>2. PICK c \in Calls : /\ c.pc = "Want" /\ c.kind = "drop" /\ c.id = thread[t].id
                           /\ thread' = [thread EXCEPT ![t] = c] /\ thread'[t] = c
    BY <1>t, <2>1, DroppingMove
  <2>3. Leased(t) /\ (Leased(t))'
    BY <2>1, <2>2 DEF IInv, CallShape, Leased
  <2>4. Asked(c) = [kind |-> "none"]
    BY <2>2 DEF Asked
  <2> QED BY <2>1, <2>2, <2>3, <2>4, LeasedMove
<1> QED BY <1>1, <1>2, <1>3 DEF Begin

LEMMA LockStores ==
  ASSUME IInv, IInv', NEW t \in Threads, Lock(t)
  PROVE  \A id \in Executions : StoreStep(id)
<1> DEFINE c == [thread[t] EXCEPT !.pc = "Inside"]
<1>1. thread \in [Threads -> Calls] /\ thread[t].pc = "Want"
  BY DEF IInv, TypeOK, Lock, Free
<1>2. /\ c \in Calls /\ c.pc = "Inside" /\ c.kind = thread[t].kind /\ c.id = thread[t].id
      /\ c.record = thread[t].record
  BY <1>1 DEF Calls, Pcs
<1>3. thread' = [thread EXCEPT ![t] = c] /\ UNCHANGED <<executions, acked, loaded>>
  BY DEF Lock, Become, store, answers
<1> HIDE DEF c
<1>4. thread'[t] = c
  BY <1>1, <1>3
<1>5. CASE thread[t].kind = "acquire"
  <2>1. ~ Leased(t) /\ ~ (Leased(t))'
    BY <1>2, <1>4, <1>5 DEF Leased
  <2> QED BY <1>2, <1>3, <2>1, UnleasedMove
<1>6. CASE thread[t].kind # "acquire"
  <2>1. Leased(t) /\ (Leased(t))'
    BY <1>1, <1>2, <1>4, <1>6 DEF Leased
  <2>2. Asked(c) = Asked(thread[t])
    BY <1>1, <1>2 DEF Asked
  <2> QED BY <1>2, <1>3, <2>1, <2>2, LeasedMove
<1> QED BY <1>5, <1>6

LEMMA RefuseStores ==
  ASSUME IInv, IInv', NEW t \in Threads, Refuse(t)
  PROVE  \A id \in Executions : StoreStep(id)
<1>1. /\ thread \in [Threads -> Calls] /\ thread[t].pc = "Want"
      /\ UNCHANGED <<executions, acked, loaded>>
  BY DEF IInv, TypeOK, Refuse, Free, store, answers
<1>2. CASE thread[t].kind = "acquire"
  <2>1. PICK c \in Calls : /\ c.pc = "Out" /\ c.kind = "none"
                           /\ thread' = [thread EXCEPT ![t] = c] /\ thread'[t] = c
    BY <1>1, <1>2, LeaveMove DEF Refuse
  <2>2. ~ Leased(t) /\ ~ (Leased(t))'
    BY <1>2, <2>1 DEF Leased
  <2> QED BY <1>1, <2>1, <2>2, UnleasedMove
<1>3. CASE thread[t].kind # "acquire"
  <2>1. PICK c \in Calls : /\ c.pc = "Held" /\ c.kind = "none" /\ c.id = thread[t].id
                           /\ thread' = [thread EXCEPT ![t] = c] /\ thread'[t] = c
    BY <1>1, <1>3, KeepMove DEF Refuse
  <2>2. Leased(t) /\ (Leased(t))'
    BY <1>1, <1>3, <2>1 DEF Leased
  <2>3. Asked(c) = [kind |-> "none"]
    BY <2>1 DEF Asked
  <2> QED BY <1>1, <2>1, <2>2, <2>3, LeasedMove
<1> QED BY <1>2, <1>3

LEMMA PanicStores ==
  ASSUME IInv, IInv', NEW t \in Threads, Panic(t)
  PROVE  \A id \in Executions : StoreStep(id)
<1>1. /\ thread \in [Threads -> Calls] /\ thread[t].pc = "Inside"
      /\ UNCHANGED <<executions, acked, loaded>>
  BY DEF IInv, TypeOK, Panic, store, answers
<1>2. CASE thread[t].kind = "acquire"
  <2>1. PICK c \in Calls : /\ c.pc = "Out" /\ c.kind = "none"
                           /\ thread' = [thread EXCEPT ![t] = c] /\ thread'[t] = c
    BY <1>1, <1>2, LeaveMove DEF Panic
  <2>2. ~ Leased(t) /\ ~ (Leased(t))'
    BY <1>2, <2>1 DEF Leased
  <2> QED BY <1>1, <2>1, <2>2, UnleasedMove
<1>3. CASE thread[t].kind # "acquire"
  <2>1. PICK c \in Calls : /\ c.pc = "Want" /\ c.kind = "drop" /\ c.id = thread[t].id
                           /\ thread' = [thread EXCEPT ![t] = c] /\ thread'[t] = c
    BY <1>1, <1>3, DroppingMove DEF Panic
  <2>2. Leased(t) /\ (Leased(t))'
    BY <1>1, <1>3, <2>1 DEF Leased
  <2>3. Asked(c) = [kind |-> "none"]
    BY <2>1 DEF Asked
  <2> QED BY <1>1, <2>1, <2>2, <2>3, LeasedMove
<1> QED BY <1>2, <1>3

LEMMA InsertStores ==
  ASSUME IInv, IInv', NEW t \in Threads, Insert(t)
  PROVE  \A id \in Executions : StoreStep(id)
<1>1. /\ thread \in [Threads -> Calls] /\ thread[t].pc = "Inside" /\ thread[t].kind = "acquire"
      /\ ~ Leased(t) /\ UNCHANGED <<executions, acked, loaded>>
  BY DEF IInv, TypeOK, Insert, Inside, Leased, answers
<1>2. CASE thread[t].id \in owners
  <2>1. PICK c \in Calls : /\ c.pc = "Out" /\ c.kind = "none"
                           /\ thread' = [thread EXCEPT ![t] = c] /\ thread'[t] = c
    BY <1>1, <1>2, LeaveMove DEF Insert
  <2>2. ~ (Leased(t))'
    BY <2>1 DEF Leased
  <2> QED BY <1>1, <2>1, <2>2, UnleasedMove
<1>3. CASE thread[t].id \notin owners
  <2>1. PICK c \in Calls : /\ c.pc = "Held" /\ c.kind = "none" /\ c.id = thread[t].id
                           /\ thread' = [thread EXCEPT ![t] = c] /\ thread'[t] = c
    BY <1>1, <1>3, KeepMove DEF Insert
  <2>2. (Leased(t))'
    BY <2>1 DEF Leased
  <2>3. PICK own \in Executions : own = thread[t].id
    BY <1>1 DEF Calls
  <2>4. Owner(own) = NoThread /\ Request(own) = [kind |-> "none"]
    <3>1. \A u \in Threads : Leased(u) => thread[u].id # own
      BY <1>3, <2>3 DEF IInv, OwnersHaveLeases
    <3> QED BY <3>1, NobodyOwns
  <2>5. Owner(own)' = t /\ Request(own)' = [kind |-> "none"]
    <3>1. thread'[t].id = own
      BY <2>1, <2>3
    <3>2. Owner(own)' = t
      BY <2>2, <3>1 DEF IInv, OwnersHaveLeases, Owner
    <3> QED BY <2>1, <3>2, NoThreadAssumption DEF Request
  <2>6. Store(own)!Take(t)
    BY <1>1, <2>4, <2>5 DEF Store!Take
  <2>7. StoreStep(own)
    BY <2>6 DEF StoreStep, Store!Next
  <2> QED BY <1>1, <2>1, <2>2, <2>3, <2>7, OneStoreMoves
<1> QED BY <1>2, <1>3

LEMMA RemoveStores ==
  ASSUME IInv, IInv', NEW t \in Threads, Remove(t)
  PROVE  \A id \in Executions : StoreStep(id)
<1>1. /\ thread \in [Threads -> Calls] /\ thread[t].pc = "Inside" /\ thread[t].kind = "drop"
      /\ Leased(t) /\ UNCHANGED <<executions, acked, loaded>>
  BY DEF IInv, TypeOK, Remove, Inside, Leased, answers
<1>2. PICK c \in Calls : /\ c.pc = "Out" /\ c.kind = "none" /\ c.id = thread[t].id
                         /\ thread' = [thread EXCEPT ![t] = c] /\ thread'[t] = c
  BY <1>1, LeaveMove DEF Remove
<1>3. ~ (Leased(t))' /\ \A u \in Threads \ {t} : thread'[u] = thread[u]
  BY <1>1, <1>2 DEF Leased
<1>4. PICK own \in Executions : own = thread[t].id
  BY <1>1 DEF Calls
<1>5. Owner(own) = t /\ Request(own) = [kind |-> "none"]
  BY <1>1, <1>4, OwnerIs, RequestIs DEF IInv, Asked
<1>6. Owner(own)' = NoThread /\ Request(own)' = [kind |-> "none"]
  <2>1. \A u \in Threads : (Leased(u))' => thread'[u].id # own
    BY <1>1, <1>3, <1>4 DEF IInv, OwnersHaveLeases, Leased
  <2> QED BY <2>1, NobodyOwnsNext
<1>7. Store(own)!Leave
  BY <1>1, <1>5, <1>6, NoThreadAssumption DEF Store!Leave, Store!Idle
<1>8. StoreStep(own)
  BY <1>7 DEF StoreStep, Store!Next
<1> QED BY <1>1, <1>2, <1>3, <1>4, <1>8, OneStoreMoves

LEMMA PushStores ==
  ASSUME IInv, IInv', NEW t \in Threads, Push(t)
  PROVE  \A id \in Executions : StoreStep(id)
<1> DEFINE c == [thread[t] EXCEPT !.pc = "Pushed", !.position = Len(executions[thread[t].id])]
<1>1. /\ thread \in [Threads -> Calls] /\ executions \in [Executions -> Seq(Records)]
      /\ thread[t].pc = "Inside" /\ thread[t].kind = "append"
      /\ thread' = [thread EXCEPT ![t] = c] /\ UNCHANGED <<acked, loaded>>
      /\ executions' = [executions EXCEPT ![thread[t].id] =
                          Append(executions[thread[t].id], thread[t].record)]
  BY DEF IInv, TypeOK, Push, Inside, Become, answers
<1>2. thread[t].id \in Executions /\ Len(executions[thread[t].id]) \in Nat
  <2>1. thread[t].id \in Executions
    BY <1>1 DEF Calls
  <2>2. executions[thread[t].id] \in Seq(Records)
    BY <1>1, <2>1
  <2> QED BY <2>1, <2>2, LenProperties
<1>3. /\ c \in Calls /\ c.pc = "Pushed" /\ c.kind = "append" /\ c.id = thread[t].id
      /\ c.record = thread[t].record
  BY <1>1, <1>2 DEF Calls, Pcs
<1> HIDE DEF c
<1>4. thread'[t] = c /\ Leased(t) /\ (Leased(t))'
  BY <1>1, <1>3 DEF Leased
<1>5. PICK own \in Executions : own = thread[t].id
  BY <1>2
<1>6. /\ Owner(own) = t /\ Owner(own)' = t
      /\ Request(own) = [kind |-> "append", record |-> thread[t].record]
      /\ Request(own)' = [kind |-> "added", record |-> thread[t].record]
  <2>1. /\ Owner(own) = t /\ Request(own) = Asked(thread[t])
        /\ Owner(own)' = t /\ Request(own)' = Asked(c)
    BY <1>3, <1>4, <1>5, OwnStore
  <2> QED BY <1>1, <1>3, <2>1 DEF Asked
<1>7. executions'[own] = Append(executions[own], thread[t].record)
  BY <1>1, <1>5
<1>8. Store(own)!Add
  BY <1>1, <1>6, <1>7 DEF Store!Add, Store!Added
<1>9. StoreStep(own)
  BY <1>8 DEF StoreStep, Store!Next
<1>10. \A id \in Executions \ {own} : executions'[id] = executions[id]
  BY <1>1, <1>5
<1> QED BY <1>1, <1>3, <1>4, <1>5, <1>9, <1>10, OneStoreMoves

LEMMA ConfirmStores ==
  ASSUME IInv, IInv', NEW t \in Threads, Confirm(t)
  PROVE  \A id \in Executions : StoreStep(id)
<1>1. /\ thread \in [Threads -> Calls] /\ executions \in [Executions -> Seq(Records)]
      /\ acked \in [Executions -> Seq(Confirmations)]
      /\ thread[t].pc = "Pushed" /\ thread[t].kind = "append" /\ Keep(t) /\ Leased(t)
      /\ UNCHANGED <<executions, loaded>>
      /\ acked' = [acked EXCEPT ![thread[t].id] =
           Append(acked[thread[t].id],
                  [record |-> thread[t].record, position |-> thread[t].position])]
  BY DEF IInv, TypeOK, CallShape, Confirm, Leased, store
<1>2. PICK c \in Calls : /\ c.pc = "Held" /\ c.kind = "none" /\ c.id = thread[t].id
                         /\ thread' = [thread EXCEPT ![t] = c] /\ thread'[t] = c
  BY <1>1, KeepMove
<1>3. (Leased(t))'
  BY <1>2 DEF Leased
<1>4. PICK own \in Executions : own = thread[t].id
  BY <1>1 DEF Calls
<1>5. /\ Owner(own) = t /\ Owner(own)' = t
      /\ Request(own) = [kind |-> "added", record |-> thread[t].record]
      /\ Request(own)' = [kind |-> "none"]
  <2>1. /\ Owner(own) = t /\ Request(own) = Asked(thread[t])
        /\ Owner(own)' = t /\ Request(own)' = Asked(c)
    BY <1>1, <1>2, <1>3, <1>4, OwnStore
  <2> QED BY <1>1, <1>2, <2>1 DEF Asked
<1>6. thread[t].position = Len(executions[own]) - 1
  <2>1. thread[t].position \in Nat
    BY <1>1 DEF Calls
  <2>2. Len(executions[own]) = thread[t].position + 1
    BY <1>1, <1>4 DEF IInv, AppendRoom
  <2> QED BY <2>1, <2>2
<1>7. acked'[own] = Append(acked[own],
                           [record |-> thread[t].record, position |-> Len(executions[own]) - 1])
  BY <1>1, <1>4, <1>6
<1>8. Store(own)!Confirm
  BY <1>1, <1>5, <1>7 DEF Store!Confirm, Store!Idle
<1>9. StoreStep(own)
  BY <1>8 DEF StoreStep, Store!Next
<1>10. \A id \in Executions \ {own} : acked'[id] = acked[id]
  BY <1>1, <1>4
<1> QED BY <1>1, <1>2, <1>4, <1>9, <1>10, OneStoreMoves

LEMMA CloneStores ==
  ASSUME IInv, IInv', NEW t \in Threads, Clone(t)
  PROVE  \A id \in Executions : StoreStep(id)
<1>1. /\ thread \in [Threads -> Calls] /\ loaded \in [Executions -> Seq(Records)]
      /\ thread[t].pc = "Inside" /\ thread[t].kind = "load" /\ Keep(t) /\ Leased(t)
      /\ UNCHANGED <<executions, acked>>
      /\ loaded' = [loaded EXCEPT ![thread[t].id] = executions[thread[t].id]]
  BY DEF IInv, TypeOK, Clone, Inside, Leased, store
<1>2. PICK c \in Calls : /\ c.pc = "Held" /\ c.kind = "none" /\ c.id = thread[t].id
                         /\ thread' = [thread EXCEPT ![t] = c] /\ thread'[t] = c
  BY <1>1, KeepMove
<1>3. (Leased(t))'
  BY <1>2 DEF Leased
<1>4. PICK own \in Executions : own = thread[t].id
  BY <1>1 DEF Calls
<1>5. /\ Owner(own) = t /\ Owner(own)' = t
      /\ Request(own) = [kind |-> "load"] /\ Request(own)' = [kind |-> "none"]
  <2>1. /\ Owner(own) = t /\ Request(own) = Asked(thread[t])
        /\ Owner(own)' = t /\ Request(own)' = Asked(c)
    BY <1>1, <1>2, <1>3, <1>4, OwnStore
  <2> QED BY <1>1, <1>2, <2>1 DEF Asked
<1>6. loaded'[own] = executions[own] /\ \A id \in Executions \ {own} : loaded'[id] = loaded[id]
  BY <1>1, <1>4
<1>7. Store(own)!Answer
  BY <1>1, <1>5, <1>6 DEF Store!Answer, Store!Idle
<1>8. StoreStep(own)
  BY <1>7 DEF StoreStep, Store!Next
<1> QED BY <1>1, <1>2, <1>4, <1>6, <1>8, OneStoreMoves

LEMMA StutterStores ==
  ASSUME UNCHANGED vars
  PROVE  \A id \in Executions : StoreStep(id)
<1> SUFFICES ASSUME NEW id \in Executions PROVE StoreStep(id)
  OBVIOUS
<1>1. Owner(id)' = Owner(id)
  BY DEF vars, Owner, Leased
<1>2. Request(id)' = Request(id)
  BY <1>1 DEF vars, Request
<1> QED BY <1>1, <1>2 DEF StoreStep, Store!vars, vars, store, answers

LEMMA InitStores ==
  ASSUME Init, NEW id \in Executions
  PROVE  Store(id)!Init
<1>1. \A t \in Threads : ~ Leased(t)
  BY OutsideTyped DEF Init, Leased
<1>2. Owner(id) = NoThread /\ Request(id) = [kind |-> "none"]
  BY <1>1, NobodyOwns
<1> QED BY <1>2 DEF Init, Store!Init, Store!Idle

\* The in-memory store is, for every execution, the store the engine relies
\* on: one owner, appends at the end or not at all, confirmed positions that
\* are the right ones, whole journals loaded, whatever threads panic.
THEOREM Refinement == Spec => ImplementsStore
<1>1. ASSUME Init PROVE \A id \in Executions : Store(id)!Init
  BY <1>1, InitStores
<1>2. ASSUME IInv, IInv', [Next]_vars PROVE \A id \in Executions : StoreStep(id)
  <2>1. ASSUME NEW t \in Threads, Proceed(t) PROVE \A id \in Executions : StoreStep(id)
    BY <1>2, <2>1, LockStores, RefuseStores, InsertStores, PushStores, ConfirmStores,
       CloneStores, RemoveStores DEF Proceed
  <2> QED BY <1>2, <2>1, BeginStores, PanicStores, StutterStores DEF Next
<1>3. IInv /\ IInv' /\ [Next]_vars =>
        [\A id \in Executions : [Store(id)!Next]_(Store(id)!vars)]_vars
  BY <1>2 DEF StoreStep
<1> QED BY <1>1, <1>3, Invariance, PTL DEF Spec, ImplementsStore
=============================================================================
