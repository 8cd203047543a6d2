------------------------------ MODULE FieldSlot ------------------------------
(***************************************************************************)
(* One slot of the shared field region of ekk_field.c: its owner           *)
(* publishes, readers sample, and collectors (ekk_field_gc) expire, each   *)
(* in a thread of its own and without a lock but the sequence counter.     *)
(*                                                                         *)
(* A field is made of parts that are written and read one by one, in any   *)
(* order the compiler and the processor choose between two barriers.  The  *)
(* value of a part is the number of the publication that wrote it, and     *)
(* publication n carries the time stamp stamps[n]; only the source is the  *)
(* same in all of them: 1 for the owner of the slot, 0                     *)
(* (EKK_INVALID_MODULE_ID) while it holds no field.  Slots do not interact *)
(* but for the clock, which a collector reads once for all slots.          *)
(***************************************************************************)
EXTENDS Integers, FiniteSets

CONSTANTS
  Reader,         \* threads that sample
  Collector,      \* threads that collect
  MaxAge,         \* EKK_FIELD_MAX_AGE_US
  GcAge,          \* max_age_us of ekk_field_gc
  MaxRetries,     \* max_retries of ekk_field_sample_consistent
  MaxPublish,     \* bound: publications in a behaviour
  MaxTime         \* bound: where the clock stops

ASSUME FieldAssumption ==
  /\ MaxAge \in Nat /\ GcAge \in Nat /\ MaxRetries \in Nat
  /\ MaxPublish \in Nat \ {0} /\ MaxTime \in Nat

VARIABLES
  clock,          \* ekk_hal_time_us()
  sequence,       \* the sequence counter of the slot
  slot,           \* the parts of the field in the slot
  stamps,         \* the time stamp of each publication
  owner,          \* the publishing thread
  reader,         \* the sampling threads
  collector       \* the collecting threads

vars == <<clock, sequence, slot, stamps, owner, reader, collector>>

Part == {"components", "timestamp", "source"}
Publication == 0 .. MaxPublish
Field == [Part -> Publication]
Status == {"NONE", "OK", "BUSY", "NOT_FOUND", "EXPIRED"}

Empty == [part \in Part |-> 0]

\* The counter is even: no write seems to be in progress.
Even == sequence % 2 = 0

(***************************************************************************)
(* Ages are unsigned: that of a stamp in the future is huge.               *)
(***************************************************************************)
OlderThanSigned(age, now, time) == now - time > age     \* mutant: signed ages
OlderThan(age, now, time) == time > now \/ now - time > age

\* Who is between the two increments of the counter.
Publishing == owner.at = "write"
Collecting(c) == collector[c].at \in {"invalidate", "release"}

\* Two of them at once, so that the counter may be even while they write.
Clashing ==
  \E c \in Collector :
    Collecting(c) /\ (Publishing \/ \E d \in Collector \ {c} : Collecting(d))

\* A thread that samples or collects nothing.
NoSample ==
  [at |-> "idle", now |-> 0, seq |-> 0, copy |-> Empty, todo |-> {}, retries |-> 0,
   status |-> "NONE", published |-> 0, clash |-> FALSE]
NoCollection ==
  [at |-> "idle", now |-> 0, seq |-> 0, source |-> 0, time |-> 0, clash |-> FALSE]
-----------------------------------------------------------------------------
Init ==
  /\ clock = 0
  /\ sequence = 0
  /\ slot = Empty
  /\ stamps = [n \in Publication |-> 0]
  /\ owner = [at |-> "idle", count |-> 0, todo |-> {}]
  /\ reader = [r \in Reader |-> NoSample]
  /\ collector = [c \in Collector |-> NoCollection]

(***************************************************************************)
(* ekk_field_publish_at: the time is read, the counter made odd, the parts *)
(* written and the counter incremented again.                              *)
(***************************************************************************)
PublishBegin ==
  /\ owner.at = "idle" /\ owner.count < MaxPublish
  /\ owner' = [at |-> "open", count |-> owner.count + 1, todo |-> Part]
  /\ stamps' = [stamps EXCEPT ![owner.count + 1] = clock]
  /\ UNCHANGED <<clock, sequence, slot, reader, collector>>

Opened == sequence + 1

PublishOpen ==
  /\ owner.at = "open"
  /\ sequence' = Opened
  /\ owner' = [owner EXCEPT !.at = "write"]
  /\ UNCHANGED <<clock, slot, stamps, reader, collector>>

PublishPart(part) ==
  /\ Publishing /\ part \in owner.todo
  /\ slot' = [slot EXCEPT ![part] = IF part = "source" THEN 1 ELSE owner.count]
  /\ owner' = [owner EXCEPT !.todo = @ \ {part}]
  /\ UNCHANGED <<clock, sequence, stamps, reader, collector>>

WrittenStamp == "timestamp" \notin owner.todo     \* mutant: closed too early
Written == owner.todo = {}

PublishClose ==
  /\ Publishing /\ Written
  /\ sequence' = sequence + 1
  /\ owner' = [owner EXCEPT !.at = "idle", !.todo = {}]
  /\ UNCHANGED <<clock, slot, stamps, reader, collector>>
-----------------------------------------------------------------------------
(***************************************************************************)
(* ekk_field_sample_consistent_at, which repeats ekk_field_sample_at while *)
(* it is BUSY.  `published' and `clash' only serve the properties: what    *)
(* was in the slot when the call began, and whether this attempt began     *)
(* while two threads were between their increments.                        *)
(***************************************************************************)
Refused(status) == [NoSample EXCEPT !.status = status]

AttemptMore(r) ==                 \* mutant: one retry too many
  IF reader[r].retries <= MaxRetries
  THEN [reader[r] EXCEPT !.at = "begin", !.retries = @ + 1]
  ELSE Refused("BUSY")
Attempt(r) ==
  IF reader[r].retries < MaxRetries
  THEN [reader[r] EXCEPT !.at = "begin", !.retries = @ + 1]
  ELSE Refused("BUSY")

SampleCall(r) ==
  /\ reader[r].at = "idle"
  /\ reader' = [reader EXCEPT ![r] =
       [NoSample EXCEPT !.at = "begin", !.now = clock,
          !.published = IF owner.at = "idle" THEN owner.count ELSE owner.count - 1]]
  /\ UNCHANGED <<clock, sequence, slot, stamps, owner, collector>>

SampleBegin(r) ==
  /\ reader[r].at = "begin"
  /\ reader' = [reader EXCEPT ![r] =
       IF Even
       THEN [@ EXCEPT !.at = "source", !.seq = sequence, !.clash = Clashing]
       ELSE Attempt(r)]
  /\ UNCHANGED <<clock, sequence, slot, stamps, owner, collector>>

SampleSource(r) ==
  /\ reader[r].at = "source"
  /\ reader' = [reader EXCEPT ![r] =
       IF slot["source"] = 0 THEN Refused("NOT_FOUND") ELSE [@ EXCEPT !.at = "age"]]
  /\ UNCHANGED <<clock, sequence, slot, stamps, owner, collector>>

SampleAge(r) ==
  /\ reader[r].at = "age"
  /\ reader' = [reader EXCEPT ![r] =
       IF OlderThan(MaxAge, @.now, stamps[slot["timestamp"]])
       THEN Refused("EXPIRED") ELSE [@ EXCEPT !.at = "copy", !.todo = Part]]
  /\ UNCHANGED <<clock, sequence, slot, stamps, owner, collector>>

SamplePart(r, part) ==
  /\ reader[r].at = "copy" /\ part \in reader[r].todo
  /\ reader' = [reader EXCEPT ![r].copy[part] = slot[part], ![r].todo = @ \ {part}]
  /\ UNCHANGED <<clock, sequence, slot, stamps, owner, collector>>

UnchangedParity(r) == Even                        \* mutant: only its parity is compared
Unchanged(r) == sequence = reader[r].seq

SampleEnd(r) ==
  /\ reader[r].at = "copy" /\ reader[r].todo = {}
  /\ reader' = [reader EXCEPT ![r] =
       IF Unchanged(r)
       THEN [@ EXCEPT !.at = "idle", !.status = "OK", !.seq = 0, !.retries = 0]
       ELSE [Attempt(r) EXCEPT !.seq = 0, !.copy = Empty]]
  /\ UNCHANGED <<clock, sequence, slot, stamps, owner, collector>>
-----------------------------------------------------------------------------
(***************************************************************************)
(* ekk_field_gc at this slot.  The clock is read before the first slot is  *)
(* visited.  Whether the counter has moved since it was read is left to    *)
(* the compare-and-swap, which fails whenever the check before it would    *)
(* have skipped the slot.  `clash' is as in a reader.                      *)
(***************************************************************************)
CollectCall(c) ==
  /\ collector[c].at = "idle"
  /\ collector' = [collector EXCEPT ![c] =
       [NoCollection EXCEPT !.at = "begin", !.now = clock]]
  /\ UNCHANGED <<clock, sequence, slot, stamps, owner, reader>>

CollectBegin(c) ==
  /\ collector[c].at = "begin"
  /\ collector' = [collector EXCEPT ![c] =
       IF Even
       THEN [@ EXCEPT !.at = "source", !.seq = sequence, !.clash = Clashing]
       ELSE NoCollection]
  /\ UNCHANGED <<clock, sequence, slot, stamps, owner, reader>>

CollectSource(c) ==
  /\ collector[c].at = "source"
  /\ collector' = [collector EXCEPT ![c].at = "time", ![c].source = slot["source"]]
  /\ UNCHANGED <<clock, sequence, slot, stamps, owner, reader>>

CollectTime(c) ==
  /\ collector[c].at = "time"
  /\ collector' = [collector EXCEPT ![c].at = "claim", ![c].time = stamps[slot["timestamp"]]]
  /\ UNCHANGED <<clock, sequence, slot, stamps, owner, reader>>

ClaimableEven(c) ==               \* mutant: claimed without comparing
  /\ Even
  /\ collector[c].source # 0 /\ OlderThan(GcAge, collector[c].now, collector[c].time)
Claimable(c) ==
  /\ sequence = collector[c].seq
  /\ collector[c].source # 0 /\ OlderThan(GcAge, collector[c].now, collector[c].time)

CollectClaim(c) ==
  /\ collector[c].at = "claim"
  /\ IF Claimable(c)
     THEN /\ sequence' = sequence + 1
          /\ collector' = [collector EXCEPT ![c] = [NoCollection EXCEPT !.at = "invalidate"]]
     ELSE /\ collector' = [collector EXCEPT ![c] = NoCollection]
          /\ UNCHANGED sequence
  /\ UNCHANGED <<clock, slot, stamps, owner, reader>>

CollectInvalidate(c) ==
  /\ collector[c].at = "invalidate"
  /\ slot' = [slot EXCEPT !["source"] = 0]
  /\ collector' = [collector EXCEPT ![c].at = "release"]
  /\ UNCHANGED <<clock, sequence, stamps, owner, reader>>

ReleasedKept == sequence                          \* mutant: not incremented again
Released == sequence + 1

CollectRelease(c) ==
  /\ collector[c].at = "release"
  /\ sequence' = Released
  /\ collector' = [collector EXCEPT ![c].at = "idle"]
  /\ UNCHANGED <<clock, slot, stamps, owner, reader>>
-----------------------------------------------------------------------------
AdvanceTime ==
  /\ clock < MaxTime
  /\ clock' = clock + 1
  /\ UNCHANGED <<sequence, slot, stamps, owner, reader, collector>>

Publish == PublishBegin \/ PublishOpen \/ PublishClose \/ \E p \in Part : PublishPart(p)

Sample(r) ==
  \/ SampleCall(r) \/ SampleBegin(r) \/ SampleSource(r) \/ SampleAge(r) \/ SampleEnd(r)
  \/ \E p \in Part : SamplePart(r, p)

CollectStep(c) ==
  \/ CollectBegin(c) \/ CollectSource(c) \/ CollectTime(c)
  \/ CollectClaim(c) \/ CollectInvalidate(c) \/ CollectRelease(c)

Next ==
  \/ Publish
  \/ \E r \in Reader : Sample(r)
  \/ \E c \in Collector : CollectCall(c) \/ CollectStep(c)
  \/ AdvanceTime

(***************************************************************************)
(* A thread that has begun a publication or a collection goes on with it.  *)
(***************************************************************************)
Fairness ==
  /\ WF_vars(PublishOpen \/ PublishClose \/ \E p \in Part : PublishPart(p))
  /\ \A c \in Collector : WF_vars(CollectStep(c))

Spec == Init /\ [][Next]_vars /\ Fairness
-----------------------------------------------------------------------------
(***************************************************************************)
(* Every variable holds values of its type.                                *)
(***************************************************************************)
TypeOK ==
  /\ clock \in 0 .. MaxTime
  /\ sequence \in Nat
  /\ slot \in Field
  /\ stamps \in [Publication -> 0 .. MaxTime]
  /\ owner \in [at : {"idle", "open", "write"}, count : Publication, todo : SUBSET Part]
  /\ reader \in [Reader ->
       [at : {"idle", "begin", "source", "age", "copy"}, now : 0 .. MaxTime, seq : Nat,
        copy : Field, todo : SUBSET Part, retries : 0 .. MaxRetries, status : Status,
        published : Publication, clash : BOOLEAN]]
  /\ collector \in [Collector ->
       [at : {"idle", "begin", "source", "time", "claim", "invalidate", "release"},
        now : 0 .. MaxTime, seq : Nat, source : Publication, time : 0 .. MaxTime,
        clash : BOOLEAN]]

\* The threads between their two increments of the counter.
InProgress == (IF Publishing THEN {"owner"} ELSE {}) \union {c \in Collector : Collecting(c)}

(***************************************************************************)
(* A sample that is OK is one publication, all of it, and no older than    *)
(* what the slot held when the call began, unless the attempt began while  *)
(* two threads (the owner and a collector, or two collectors) were writing *)
(* at the same time.                                                       *)
(***************************************************************************)
Torn(field) == field["source"] = 0 \/ field["components"] # field["timestamp"]
Accepted(r) == reader[r].status = "OK"

WholeUnlessClash ==
  \A r \in Reader : Accepted(r) /\ ~reader[r].clash =>
    /\ ~Torn(reader[r].copy)
    /\ reader[r].copy["components"] >= reader[r].published

(***************************************************************************)
(* A sample that is OK has not expired: the age that was checked is that   *)
(* of the stamp that was copied, and not one from the future.              *)
(***************************************************************************)
AcceptedIsFresh ==
  \A r \in Reader : Accepted(r) /\ ~reader[r].clash =>
    reader[r].now - stamps[reader[r].copy["timestamp"]] \in 0 .. MaxAge

(***************************************************************************)
(* A collector claims the slot only while it still holds what the          *)
(* collector has found to be too old, and nobody is writing it; but for    *)
(* one that came while two threads were writing, which takes a second      *)
(* collector.                                                              *)
(***************************************************************************)
Claims(c) == collector[c].at = "claim" /\ collector'[c].at = "invalidate"

ClaimsWhatItRead ==
  [][\A c \in Collector : Claims(c) /\ ~collector[c].clash =>
       /\ InProgress = {}
       /\ slot["source"] = collector[c].source
       /\ stamps[slot["timestamp"]] = collector[c].time]_vars

(***************************************************************************)
(* Writers always leave the slot again, so that it can be sampled.         *)
(***************************************************************************)
SlotReadable == []<>Even

(***************************************************************************)
(* include/ekk/ekk_field.h: "Uses sequence counter to detect torn reads".  *)
(* A sample that is OK is one publication, all of it.                      *)
(***************************************************************************)
NoTornRead == \A r \in Reader : Accepted(r) => ~Torn(reader[r].copy)
=============================================================================
