---------------------------- MODULE RecordCodec ----------------------------
(***************************************************************************)
(* The payloads of a journal file: JSON documents that mirror the eleven   *)
(* events field by field (JournalEventRecord in src/stores/file.rs), and   *)
(* the validated constructors an event read back has to pass               *)
(* (src/execution.rs, src/step.rs).                                        *)
(*                                                                         *)
(* The file may also hold documents some other build or hand has written,  *)
(* and a torn frame behind the last document.  No system call fails here:  *)
(* FileJournal has what comes of that.                                     *)
(***************************************************************************)
EXTENDS Integers, Sequences, FiniteSets

CONSTANTS
  Labels,      \* trimmed texts that are step names too: [a-z0-9-]
  OtherTexts,  \* trimmed texts with other characters
  Blank,       \* the empty text
  Payloads, Draws,  \* byte strings of any length, and of 32 bytes
  MaxU32, MaxU64,
  MaxEvents,   \* bound on the documents in the file
  Unknown,     \* a kind this build does not know
  Codec        \* JournalError::Codec

ASSUME TextAssumption ==
  /\ Labels \cap OtherTexts = {} /\ Blank \notin Labels \cup OtherTexts
ASSUME WidthAssumption == MaxU32 \in Nat \ {0} /\ MaxU64 \in Nat /\ MaxU32 <= MaxU64
ASSUME BoundAssumption == MaxEvents \in Nat

VARIABLES
  stored,   \* the documents in the file
  torn,     \* a torn frame follows them
  written,  \* the events behind the documents this build wrote
  read      \* what the last read returned

vars == <<stored, torn, written, read>>

-----------------------------------------------------------------------------
(* JSON values, and the fields of each kind with their domain types.       *)

Number(n) == [form |-> "number", of |-> n]
Text(t) == [form |-> "text", of |-> t]
Padded(t) == [form |-> "padded", of |-> t]
ByteArray(b) == [form |-> "bytes", of |-> b]

Texts == Labels \cup OtherTexts \cup {Blank}

\* Numbers go one past the widest integer.
Jsons ==
  {Number(n) : n \in 0 .. MaxU64 + 1}
    \cup {Text(t) : t \in Texts} \cup {Padded(t) : t \in Texts}
    \cup {ByteArray(b) : b \in Payloads \cup Draws}

Fields ==
  [ExecutionStarted |-> [workflow |-> "WorkflowName", version |-> "WorkflowVersion",
                         input |-> "EventPayload"],
   StepScheduled |-> [seq |-> "Seq", name |-> "StepName"],
   StepStarted |-> [seq |-> "Seq", attempt |-> "Attempt"],
   StepCompleted |-> [seq |-> "Seq", result |-> "EventPayload"],
   StepFailed |-> [seq |-> "Seq", attempt |-> "Attempt", error |-> "ErrorRecord"],
   NowRecorded |-> [seq |-> "Seq", value |-> "Timestamp"],
   RandomRecorded |-> [seq |-> "Seq", value |-> "RandomBytes"],
   TimerScheduled |-> [seq |-> "Seq", deadline |-> "Timestamp"],
   TimerFired |-> [seq |-> "Seq"],
   ExecutionCompleted |-> [output |-> "EventPayload"],
   ExecutionFailed |-> [error |-> "ErrorRecord"]]

Kinds == DOMAIN Fields

\* serde: the JSON values a field of the record accepts.
Accepts(type, json) ==
  CASE type \in {"Seq", "Timestamp"} -> json.form = "number" /\ json.of <= MaxU64
    [] type = "Attempt" -> json.form = "number" /\ json.of <= MaxU32
    [] type \in {"WorkflowName", "WorkflowVersion", "StepName", "ErrorRecord"} ->
         json.form \in {"text", "padded"}
    [] type = "EventPayload" -> json.form = "bytes"
    [] type = "RandomBytes" -> json.form = "bytes" /\ json.of \in Draws

-----------------------------------------------------------------------------
(* The constructors.  Names are trimmed and must not be empty, step names  *)
(* stay within [a-z0-9-], attempts count from one; an error's message is   *)
(* kept as it is, padding included.                                        *)

Constructs(type, json) ==
  CASE type \in {"WorkflowName", "WorkflowVersion"} -> json.of # Blank
    [] type = "StepName" -> json.of \in Labels
    [] type = "Attempt" -> json.of # 0
    [] OTHER -> TRUE

Construct(type, json) == IF type = "ErrorRecord" THEN json ELSE json.of

-----------------------------------------------------------------------------
(* Encoding and decoding.                                                  *)

Store(type, value) ==
  CASE type \in {"Seq", "Attempt", "Timestamp"} -> Number(value)
    [] type \in {"WorkflowName", "WorkflowVersion", "StepName"} -> Text(value)
    [] type = "ErrorRecord" -> value
    [] type \in {"EventPayload", "RandomBytes"} -> ByteArray(value)

\* JournalEventRecord::from and serde_json::to_vec.
Encode(ev) ==
  [kind |-> ev.kind,
   fields |-> [n \in DOMAIN ev.fields |-> Store(Fields[ev.kind][n], ev.fields[n])]]

\* serde_json::from_slice: every field is there, in its type; others are
\* ignored.
Deserializes(doc) ==
  /\ doc.kind \in Kinds
  /\ DOMAIN Fields[doc.kind] \subseteq DOMAIN doc.fields
  /\ \A n \in DOMAIN Fields[doc.kind] : Accepts(Fields[doc.kind][n], doc.fields[n])

Decode(doc) ==
  [kind |-> doc.kind,
   fields |-> [n \in DOMAIN Fields[doc.kind] |->
                 Construct(Fields[doc.kind][n], doc.fields[n])]]

Valid(doc) == \A n \in DOMAIN Fields[doc.kind] : Constructs(Fields[doc.kind][n], doc.fields[n])

Documents(kind) == {[kind |-> kind, fields |-> f] : f \in [DOMAIN Fields[kind] -> Jsons]}

\* The events workflows and engines can build.
Events ==
  UNION {{Decode(doc) : doc \in {d \in Documents(k) : Deserializes(d) /\ Valid(d)}} : k \in Kinds}

\* Mutation: what is on disk is taken to be valid.
ReadableUnvalidated(doc) == Deserializes(doc)

\* ... and JournalEvent::try_from.
Readable(doc) == Deserializes(doc) /\ Valid(doc)

-----------------------------------------------------------------------------
(* The file.                                                               *)

Init == stored = <<>> /\ torn = FALSE /\ written = <<>> /\ read = <<>>

\* read_and_heal: one unreadable document is an error, before the torn frame
\* is looked at.
AllReadable == \A i \in DOMAIN stored : Readable(stored[i])

Decoded == [i \in DOMAIN stored |-> Decode(stored[i])]

Load ==
  /\ IF AllReadable THEN read' = Decoded /\ torn' = FALSE
                    ELSE read' = Codec /\ UNCHANGED torn
  /\ UNCHANGED <<stored, written>>

\* Mutation: the append does not read the file first.
AddBlindly(ev) ==
  /\ Len(stored) < MaxEvents
  /\ stored' = Append(stored, Encode(ev))
  /\ written' = Append(written, [own |-> TRUE, event |-> ev])
  /\ UNCHANGED <<torn, read>>

\* append reads and heals first, and is refused with the read.
Add(ev) ==
  /\ Len(stored) < MaxEvents
  /\ AllReadable
  /\ stored' = Append(stored, Encode(ev))
  /\ written' = Append(written, [own |-> TRUE, event |-> ev])
  /\ torn' = FALSE
  /\ UNCHANGED read

\* A crashed append.
Tear ==
  /\ ~ torn /\ AllReadable
  /\ torn' = TRUE
  /\ UNCHANGED <<stored, written, read>>

\* What another build may make of a document: a field of another type or
\* value, one field less, one more, an event this build does not know.
Edits(doc) ==
  {[doc EXCEPT !.fields[n] = json] : n \in DOMAIN doc.fields, json \in Jsons}
    \cup {[doc EXCEPT !.fields = [m \in DOMAIN doc.fields \ {n} |-> doc.fields[m]]] :
            n \in DOMAIN doc.fields}
    \cup {[doc EXCEPT !.fields = [m \in DOMAIN doc.fields \cup {Unknown} |->
                                    IF m = Unknown THEN Number(0) ELSE doc.fields[m]]],
          [doc EXCEPT !.kind = Unknown]}

Foreign(doc) ==
  /\ Len(stored) < MaxEvents
  /\ ~ torn /\ \A i \in DOMAIN written : written[i].own
  /\ stored' = Append(stored, doc)
  /\ written' = Append(written, [own |-> FALSE, event |-> Codec])
  /\ UNCHANGED <<torn, read>>

Next ==
  \/ Load \/ Tear
  \/ \E ev \in Events : Add(ev) \/ \E doc \in Edits(Encode(ev)) : Foreign(doc)

Spec == Init /\ [][Next]_vars

-----------------------------------------------------------------------------
(* Properties.                                                             *)

\* An event is read back as the value that was appended, at its position; only
\* a document of somebody else's making keeps the file from being read, and one
\* that is read gives an event the constructors would have built: no attempt
\* zero, no blank or unprintable name gets in behind their back.
EventsReadBack ==
  IF read = Codec THEN \E i \in DOMAIN written : ~ written[i].own
  ELSE \A i \in DOMAIN read :
         /\ read[i] \in Events
         /\ written[i].own => read[i] = written[i].event

\* A document this build cannot read stops it: nothing is appended behind it,
\* and the torn frame behind it stays, however often the file is read.
UnreadableStops ==
  [][~ AllReadable =>
       /\ UNCHANGED torn
       /\ written' # written => ~ written'[Len(written')].own]_vars
=============================================================================
