---------------------------- MODULE StoreContract ----------------------------
(***************************************************************************)
(* What a JournalStore promises of one execution's journal: one owner at a *)
(* time, one call at a time; an append adds its event once, at the end, or *)
(* not at all; it is confirmed only once the event is there, with the      *)
(* number of events before it; a load returns the whole journal.  A call   *)
(* may end without an answer, and then the event may have been added.      *)
(***************************************************************************)
EXTENDS Naturals, Sequences

CONSTANTS Owners, NoOwner, Records

VARIABLES
  log,      \* the journal
  owner,
  request,  \* the owner's call
  acked,    \* confirmed appends, in order, with their positions
  loaded    \* what the last load returned

vars == <<log, owner, request, acked, loaded>>

Idle == [kind |-> "none"]
Load == [kind |-> "load"]
Adding(record) == [kind |-> "append", record |-> record]
Added(record) == [kind |-> "added", record |-> record]

Init ==
  /\ log = <<>> /\ owner = NoOwner /\ request = Idle
  /\ acked = <<>> /\ loaded = <<>>

Take(o) ==
  /\ owner = NoOwner
  /\ owner' = o
  /\ UNCHANGED <<log, request, acked, loaded>>

\* The owner gives up, or is lost, before, during or after a call.
Leave ==
  /\ owner # NoOwner
  /\ owner' \in {owner, NoOwner} /\ request' = Idle
  /\ UNCHANGED <<log, acked, loaded>>

Ask ==
  /\ owner # NoOwner /\ request = Idle
  /\ request' \in {Load} \cup {Adding(r) : r \in Records}
  /\ UNCHANGED <<log, owner, acked, loaded>>

Add ==
  /\ request.kind = "append"
  /\ log' = Append(log, request.record)
  /\ request' = Added(request.record)
  /\ UNCHANGED <<owner, acked, loaded>>

Confirm ==
  /\ request.kind = "added"
  /\ acked' = Append(acked, [record |-> request.record, position |-> Len(log) - 1])
  /\ request' = Idle
  /\ UNCHANGED <<log, owner, loaded>>

Answer ==
  /\ request.kind = "load"
  /\ loaded' = log
  /\ request' = Idle
  /\ UNCHANGED <<log, owner, acked>>

Next == (\E o \in Owners : Take(o)) \/ Leave \/ Ask \/ Add \/ Confirm \/ Answer

Spec == Init /\ [][Next]_vars
=============================================================================
