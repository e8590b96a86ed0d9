------------------------- MODULE InboundHandlerProofs -------------------------
(***************************************************************************)
(* Theorems about InboundHandler for every set of envelopes, any number of *)
(* calls in progress and any number of disturbances.  Tracked adds to the  *)
(* properties what connects them: a call between its two inserts is the    *)
(* only one of its message, and neither a 202 nor a job precedes it.       *)
(***************************************************************************)
EXTENDS InboundHandler, FiniteSetTheorems, TLAPS

USE PartnersAssumption, NoIdAssumption, FaultsAssumption, ProfilesAssumption,
    EnvelopesAssumption, UuidsAssumption

Tables == [Ids -> Row]

LEMMA EmptyTableFacts == EmptyTable \in Tables /\ \A j \in Ids : ~Stored(EmptyTable, j)
  <1>1. Absent \in Row /\ Absent.status = "ABSENT"
    BY DEF Absent, AnyPartner, Row, Payload, JobTypes, Statuses
  <1> QED
    BY <1>1 DEF EmptyTable, Tables, Stored

\* What an INSERT of the handler does to the table.
LEMMA InsertNewFacts ==
    ASSUME NEW id \in Ids, NEW dir \in {"INBOUND", "OUTBOUND"}, NEW s \in Statuses,
           NEW p \in Payload, rows \in Tables, stamp \in Nat, InsertNew(id, dir, s, p)
    PROVE  /\ rows' \in Tables /\ stamp' \in Nat /\ ~Stored(rows, id)
           /\ \A j \in Ids : j # id => rows'[j] = rows[j]
           /\ rows'[id].dir = dir /\ rows'[id].status = s /\ rows'[id].payload = p
  <1>1. rows' = Insert(rows, id, NewRow(dir, s, p, stamp)) /\ ~Stored(rows, id)
    BY DEF InsertNew, CanInsert
  <1>2. stamp' \in Nat
    BY DEF InsertNew
  <1>3. rows'[id] = NewRow(dir, s, p, stamp)
    BY <1>1 DEF Insert, Tables
  <1>4. rows' \in Tables /\ \A j \in Ids : j # id => rows'[j] = rows[j]
    <2>1. ResolveJobType("", p.job) \in JobTypes
      BY DEF ResolveJobType, Payload, JobTypes
    <2>2. NewRow(dir, s, p, stamp) \in Row
      BY <2>1 DEF NewRow, Row
    <2> QED
      BY <1>1, <2>2 DEF Insert, Tables
  <1>5. rows'[id].dir = dir /\ rows'[id].status = s /\ rows'[id].payload = p
    <2>1. LET r == NewRow(dir, s, p, stamp) IN r.dir = dir /\ r.status = s /\ r.payload = p
      BY DEF NewRow
    <2> QED
      BY <1>3, <2>1
  <1> QED
    BY <1>1, <1>2, <1>4, <1>5

LEMMA PayloadFacts ==
    ASSUME NEW c \in Call
    PROVE  /\ InboundPayload(c) \in Payload /\ JobPayload(c) \in Payload
           /\ InboundPayload(c).job = "" /\ JobPayload(c).job = "send_jmdn"
           /\ JobPayload(c).about = c.envelope.id
           /\ c.envelope.id \in Ids /\ c.verdict \in Statuses
  BY DEF InboundPayload, JobPayload, Payload, JobTypes, Call, EnvelopeType, Verdicts, Statuses

-----------------------------------------------------------------------------
LEMMA TypedInit == Init => TypeOK
  BY EmptyTableFacts DEF Init, InboundInit, TypeOK, StoreInit, StoreTypeOK, Tables

\* A call that is answered is a call.
LEMMA Answered ==
    ASSUME calls \subseteq Call, NEW c \in calls, NEW a \in Answers, AnswerWith(c, a)
    PROVE  calls' \subseteq Call
  <1>1. [c EXCEPT !.pc = "answered", !.answer = a] \in Call
    BY DEF Call
  <1> QED
    BY <1>1 DEF AnswerWith, Becomes

LEMMA TypedNext == TypeOK /\ [Next]_vars => TypeOK'
  <1> SUFFICES ASSUME TypeOK, [Next]_vars PROVE TypeOK'
    OBVIOUS
  <1> USE DEF TypeOK, StoreTypeOK
  <1>0. rows \in Tables /\ stamp \in Nat
    BY DEF Tables
  <1>1. ASSUME NEW e \in Envelopes, NEW n \in 1 .. MaxCalls, Arrive(e, n)
        PROVE  TypeOK'
    <2>1. NewCall(e, n) \in Call
      BY DEF NewCall, Call, Verdicts, Answers
    <2> QED
      BY <1>1, <2>1 DEF Arrive, storeVars
  <1>2. ASSUME NEW c \in calls, Judge(c)
        PROVE  TypeOK'
    <2>1. calls' \subseteq Call
      BY <1>2 DEF Judge, Becomes, Call
    <2>2. faults' \in 0 .. MaxFaults
      BY <1>2 DEF Judge, DbOk, DbFails, Disturb
    <2> QED
      BY <1>2, <2>1, <2>2 DEF Judge, tableVars
  <1>3. ASSUME NEW c \in calls, Store(c)
        PROVE  TypeOK'
    <2>0. /\ InboundPayload(c) \in Payload /\ c.envelope.id \in Ids
          /\ c.verdict \in Statuses
      BY PayloadFacts
    <2>1. rows' \in Tables /\ stamp' \in Nat
      BY <1>0, <1>3, <2>0, InsertNewFacts DEF Store
    <2>2. calls' \subseteq Call
      <3>1. CASE Becomes(c, [c EXCEPT !.pc = "stored"])
        BY <3>1 DEF Becomes, Call
      <3> QED
        BY <1>3, <3>1, Answered DEF Store, Answers
    <2>3. accepted' \in [Ids -> Nat]
      BY <1>3, <2>0 DEF Store
    <2> QED
      BY <1>3, <2>1, <2>2, <2>3 DEF Store, DbOk, Tables
  <1>4. ASSUME NEW c \in calls, StoreRefused(c)
        PROVE  TypeOK'
    <2>1. calls' \subseteq Call
      BY <1>4, Answered DEF StoreRefused, Answers
    <2>2. faults' \in 0 .. MaxFaults
      BY <1>4 DEF StoreRefused, DbOk, DbFails, Disturb
    <2> QED
      BY <1>4, <2>1, <2>2 DEF StoreRefused, tableVars
  <1>5. ASSUME NEW c \in calls, QueueReceipt(c)
        PROVE  TypeOK'
    <2>1. c.envelope.id \in Ids /\ JobPayload(c) \in Payload
      BY PayloadFacts
    <2>2. rows' \in Tables /\ stamp' \in Nat /\ forgotten' \subseteq Ids
      <3>1. ASSUME NEW id \in Uuids, InsertNew(id, "OUTBOUND", "QUEUED", JobPayload(c))
            PROVE  rows' \in Tables /\ stamp' \in Nat
        BY <1>0, <2>1, <3>1, InsertNewFacts DEF Statuses
      <3> QED
        BY <1>0, <1>5, <2>1, <3>1 DEF QueueReceipt, tableVars
    <2>3. calls' \subseteq Call
      BY <1>5, Answered DEF QueueReceipt, Answers
    <2>4. faults' \in 0 .. MaxFaults
      BY <1>5 DEF QueueReceipt, DbOk, DbFails, Disturb
    <2>5. accepted' \in [Ids -> Nat]
      BY <1>5, <2>1 DEF QueueReceipt
    <2> QED
      BY <1>5, <2>2, <2>3, <2>4, <2>5 DEF QueueReceipt, Tables
  <1>6. ASSUME NEW c \in calls, Hangup(c)
        PROVE  TypeOK'
    BY <1>6 DEF Hangup, storeVars
  <1>7. ASSUME NEW p \in Partners, NEW profile \in Profiles, ChangePartner(p, profile),
               UNCHANGED inboundVars
        PROVE  TypeOK'
    BY <1>7 DEF ChangePartner, inboundVars
  <1>8. CASE BeginShutdown /\ UNCHANGED inboundVars
    BY <1>8 DEF BeginShutdown, Disturb, inboundVars
  <1>9. CASE Exit /\ Die
    BY <1>9 DEF Exit, Disturb, Die
  <1>10. CASE Boot /\ UNCHANGED inboundVars
    BY <1>10 DEF Boot, inboundVars
  <1>11. CASE UNCHANGED vars
    BY <1>11 DEF vars, storeVars, inboundVars
  <1> QED
    BY <1>1, <1>2, <1>3, <1>4, <1>5, <1>6, <1>7, <1>8, <1>9, <1>10, <1>11 DEF Next, Handle

\* Tables, calls and history keep their types.
THEOREM TypeCorrect == Spec => []TypeOK
  <1> QED
    BY TypedInit, TypedNext, PTL DEF Spec

-----------------------------------------------------------------------------
(***************************************************************************)
(* The accounting of one message: its row, its calls, its 202 and its job. *)
(***************************************************************************)
Kept(id) == rows[id].dir = "INBOUND" /\ rows[id].status = "DELIVERED"

\* Between the two inserts of a call its message is kept and not yet accepted; the
\* answer of a call that has one agrees with the table.
CallTracked(c) ==
    LET id == c.envelope.id IN
    /\ c.pc = "stored" => accepted[id] = 0 /\ Kept(id) /\ c.envelope.kind = "document"
    /\ c.pc = "answered" =>
          /\ c.answer = "202" => Kept(id)
          /\ c.answer = "401" => rows[id].dir = "INBOUND" /\ rows[id].status = "QUARANTINED"
          /\ c.answer = "409" => Stored(rows, id)
          /\ c.answer = "202" /\ c.envelope.kind = "document" =>
                Jobs(id) # {} \/ id \in forgotten

OneInserter ==
    \A c, d \in calls :
        c.pc = "stored" /\ d.pc = "stored" /\ c.envelope.id = d.envelope.id => c = d

Ledger(id) ==
    /\ accepted[id] \in {0, 1}
    /\ accepted[id] = 1 => Kept(id)
    /\ Jobs(id) # {} => accepted[id] = 1
    /\ \A j, k \in Jobs(id) : j = k

Tracked ==
    /\ \A c \in calls : CallTracked(c)
    /\ OneInserter
    /\ \A id \in Ids : Ledger(id)

\* A step that writes neither table nor history and lets no call into "stored" or to
\* an answer that is new keeps the accounting.
LEMMA TrackedQuietly ==
    ASSUME Tracked, UNCHANGED <<rows, accepted, forgotten>>,
           \A c \in calls' : c \in calls \/ (c.pc # "stored" /\ CallTracked(c)')
    PROVE  Tracked'
  <1>1. \A c \in calls : CallTracked(c)'
    BY DEF Tracked, CallTracked, Kept, Stored, Jobs
  <1>2. \A id \in Ids : Ledger(id)'
    BY DEF Tracked, Ledger, Kept, Jobs
  <1>3. OneInserter'
    BY DEF Tracked, OneInserter
  <1> QED
    BY <1>1, <1>2, <1>3 DEF Tracked

\* A table that only grows keeps what was kept, and every job.
LEMMA Grows ==
    ASSUME TypeOK, NEW new \in Ids, ~Stored(rows, new),
           \A j \in Ids : j # new => rows'[j] = rows[j]
    PROVE  /\ \A id \in Ids : Kept(id) => Kept(id)' /\ rows'[id] = rows[id]
           /\ \A id \in Ids : Stored(rows, id) => rows'[id] = rows[id] /\ Stored(rows', id)
           /\ \A id \in Ids : Jobs(id) \ {new} = Jobs(id)' \ {new}
  BY DEF Kept, Stored, Jobs

\* The job of an absent row is nobody's.
Blank == \A id \in Ids : ~Stored(rows, id) => rows[id].payload.job = ""

LEMMA BlankNext == TypeOK /\ Blank /\ [Next]_vars => Blank'
  <1> SUFFICES ASSUME TypeOK, Blank, [Next]_vars PROVE Blank'
    OBVIOUS
  <1>0. rows \in Tables /\ stamp \in Nat /\ calls \subseteq Call
    BY DEF TypeOK, StoreTypeOK, Tables
  <1>1. CASE UNCHANGED rows
    BY <1>1 DEF Blank
  <1>2. ASSUME NEW id \in Ids, NEW dir \in {"INBOUND", "OUTBOUND"}, NEW s \in Statuses,
               NEW p \in Payload, InsertNew(id, dir, s, p)
        PROVE  Blank'
    <2>1. /\ \A j \in Ids : j # id => rows'[j] = rows[j]
          /\ rows'[id].status = s
      BY <1>0, <1>2, InsertNewFacts
    <2> QED
      BY <2>1 DEF Blank, Stored, Statuses
  <1>3. ASSUME NEW c \in calls, Store(c)
        PROVE  Blank'
    BY <1>0, <1>2, <1>3, PayloadFacts DEF Store
  <1>4. ASSUME NEW c \in calls, QueueReceipt(c)
        PROVE  Blank'
    <2>1. JobPayload(c) \in Payload
      BY <1>0, PayloadFacts
    <2> QED
      BY <1>1, <1>2, <1>4, <2>1 DEF QueueReceipt, Statuses, tableVars
  <1> QED
    BY <1>1, <1>3, <1>4
    DEF Next, Handle, Arrive, Judge, StoreRefused, Hangup, ChangePartner, BeginShutdown,
        Exit, Boot, vars, storeVars, tableVars

\* The first insert, and the answer if it is the last.
LEMMA TrackedStore ==
    ASSUME TypeOK, Blank, Tracked, NEW c \in calls, Store(c)
    PROVE  Tracked'
  <1> DEFINE id == c.envelope.id
  <1>0. rows \in Tables /\ stamp \in Nat /\ c \in Call /\ calls \subseteq Call
    BY DEF TypeOK, StoreTypeOK, Tables
  <1>1. id \in Ids /\ InboundPayload(c) \in Payload /\ c.verdict \in Statuses
    BY <1>0, PayloadFacts
  <1>2. /\ ~Stored(rows, id) /\ \A j \in Ids : j # id => rows'[j] = rows[j]
        /\ rows'[id].dir = "INBOUND" /\ rows'[id].status = c.verdict
        /\ rows'[id].payload.job = ""
    <2>1. /\ ~Stored(rows, id) /\ \A j \in Ids : j # id => rows'[j] = rows[j]
          /\ rows'[id].dir = "INBOUND" /\ rows'[id].status = c.verdict
          /\ rows'[id].payload = InboundPayload(c)
      BY <1>0, <1>1, InsertNewFacts DEF Store
    <2>2. InboundPayload(c).job = ""
      BY <1>0, PayloadFacts
    <2> QED
      BY <2>1, <2>2
  <1>3. \A x \in Ids : Jobs(x)' = Jobs(x)
    BY <1>1, <1>2, Grows DEF Jobs, Blank
  <1>4. ~Kept(id) /\ accepted[id] = 0 /\ Jobs(id) = {}
    <2>1. ~Kept(id)
      BY <1>2 DEF Kept, Stored
    <2> QED
      BY <2>1, <1>1 DEF Tracked, Ledger
  <1>5. \A d \in calls : d.pc = "stored" => d.envelope.id # id
    BY <1>4 DEF Tracked, CallTracked
  <1>6. \A x \in Ids : Kept(x) => Kept(x)' /\ x # id
    BY <1>1, <1>2, <1>4, Grows
  <1>7. UNCHANGED forgotten /\ c.verdict \in Verdicts
    BY <1>0 DEF Store, Call
  <1>8. ASSUME NEW d \in calls, accepted'[d.envelope.id] = accepted[d.envelope.id] \/ d.pc # "stored"
        PROVE  CallTracked(d)'
    <2>1. d.envelope.id \in Ids
      BY <1>0, PayloadFacts
    <2>2. Stored(rows, d.envelope.id) => rows'[d.envelope.id] = rows[d.envelope.id]
      BY <1>1, <1>2, <2>1, Grows
    <2>3. CallTracked(d)
      BY DEF Tracked
    <2>4. Stored(rows, d.envelope.id) => Stored(rows', d.envelope.id)
      BY <1>1, <1>2, <2>1, Grows
    <2>5. \/ Stored(rows, d.envelope.id)
          \/ rows[d.envelope.id].status = "ABSENT"
      BY DEF Stored
    <2> QED
      BY <1>3, <1>6, <1>7, <1>8, <2>1, <2>2, <2>3, <2>4, <2>5 DEF CallTracked
  <1>9. CASE c.verdict = "QUARANTINED"
    <2> DEFINE d == [c EXCEPT !.pc = "answered", !.answer = "401"]
    <2>1. calls' = (calls \ {c}) \cup {d} /\ UNCHANGED accepted
      BY <1>9 DEF Store, AnswerWith, Becomes
    <2>2. d.pc = "answered" /\ d.answer = "401" /\ d.envelope = c.envelope
      BY <1>0 DEF Call
    <2>3. CallTracked(d)'
      BY <1>2, <1>9, <2>2 DEF CallTracked
    <2>4. \A x \in Ids : Ledger(x)'
      BY <1>3, <1>6, <2>1 DEF Tracked, Ledger
    <2>5. OneInserter'
      BY <2>1, <2>2 DEF Tracked, OneInserter
    <2> QED
      BY <1>8, <2>1, <2>3, <2>4, <2>5 DEF Tracked
  <1>10. CASE c.verdict = "DELIVERED" /\ c.envelope.kind = "receipt"
    <2> DEFINE d == [c EXCEPT !.pc = "answered", !.answer = "202"]
    <2>1. /\ calls' = (calls \ {c}) \cup {d}
          /\ accepted' = [accepted EXCEPT ![id] = accepted[id] + 1]
      BY <1>10 DEF Store, AnswerWith, Becomes
    <2>2. d.pc = "answered" /\ d.answer = "202" /\ d.envelope = c.envelope
      BY <1>0 DEF Call
    <2>3. CallTracked(d)'
      BY <1>2, <1>10, <2>2 DEF CallTracked, Kept
    <2>4. accepted'[id] = 1 /\ \A x \in Ids : x # id => accepted'[x] = accepted[x]
      BY <1>1, <1>4, <2>1 DEF TypeOK
    <2>5. Kept(id)'
      BY <1>2, <1>10 DEF Kept
    <2>6. \A x \in Ids : Ledger(x)'
      BY <1>1, <1>3, <1>4, <1>6, <2>4, <2>5 DEF Tracked, Ledger
    <2>7. OneInserter'
      BY <2>1, <2>2 DEF Tracked, OneInserter
    <2>8. \A e \in calls : e.pc = "stored" => accepted'[e.envelope.id] = accepted[e.envelope.id]
      BY <1>0, <1>5, <2>4, PayloadFacts
    <2> QED
      BY <1>8, <2>1, <2>3, <2>6, <2>7, <2>8 DEF Tracked
  <1>11. CASE c.verdict = "DELIVERED" /\ c.envelope.kind # "receipt"
    <2> DEFINE d == [c EXCEPT !.pc = "stored"]
    <2>1. calls' = (calls \ {c}) \cup {d} /\ UNCHANGED accepted
      BY <1>11 DEF Store, Becomes
    <2>2. d.pc = "stored" /\ d.envelope = c.envelope /\ c.envelope.kind = "document"
      BY <1>0, <1>11 DEF Call, EnvelopeType
    <2>3. CallTracked(d)'
      BY <1>2, <1>4, <1>11, <2>1, <2>2 DEF CallTracked, Kept
    <2>4. \A x \in Ids : Ledger(x)'
      BY <1>3, <1>6, <2>1 DEF Tracked, Ledger
    <2>5. OneInserter'
      <3> HIDE DEF d
      <3> QED
        BY <1>5, <2>1, <2>2 DEF Tracked, OneInserter
    <2> QED
      BY <1>8, <2>1, <2>3, <2>4, <2>5 DEF Tracked
  <1> QED
    BY <1>7, <1>9, <1>10, <1>11 DEF Verdicts

\* The second insert, which is made or forgotten, and the answer.
LEMMA TrackedReceipt ==
    ASSUME TypeOK, Blank, Tracked, NEW c \in calls, QueueReceipt(c)
    PROVE  Tracked'
  <1> DEFINE id == c.envelope.id
             d  == [c EXCEPT !.pc = "answered", !.answer = "202"]
             Booked == /\ \A x \in Ids : Kept(x) => Kept(x)'
                       /\ \A x \in Ids : Stored(rows, x) =>
                             rows'[x] = rows[x] /\ Stored(rows', x)
                       /\ \A x \in Ids : x # id => Jobs(x)' = Jobs(x)
                       /\ \A j, k \in Jobs(id)' : j = k
                       /\ Jobs(id)' # {} \/ id \in forgotten'
  <1>0. rows \in Tables /\ stamp \in Nat /\ c \in Call /\ calls \subseteq Call
    BY DEF TypeOK, StoreTypeOK, Tables
  <1>1. id \in Ids /\ JobPayload(c) \in Payload
    BY <1>0, PayloadFacts
  <1>2. c.pc = "stored" /\ accepted[id] = 0 /\ Kept(id) /\ Jobs(id) = {}
    BY <1>1 DEF QueueReceipt, Tracked, CallTracked, Ledger
  <1>3. /\ calls' = (calls \ {c}) \cup {d} /\ forgotten \subseteq forgotten'
        /\ accepted' = [accepted EXCEPT ![id] = accepted[id] + 1]
    BY DEF QueueReceipt, AnswerWith, Becomes
  <1>4. d.pc = "answered" /\ d.answer = "202" /\ d.envelope = c.envelope
    BY <1>0 DEF Call
  <1>5. accepted'[id] = 1 /\ \A x \in Ids : x # id => accepted'[x] = accepted[x]
    BY <1>1, <1>2, <1>3 DEF TypeOK
  <1>6. \A e \in calls : e.pc = "stored" /\ e # c => e.envelope.id # id
    BY <1>2 DEF Tracked, OneInserter
  <1>7. Booked
    <2>1. ASSUME NEW new \in Uuids, InsertNew(new, "OUTBOUND", "QUEUED", JobPayload(c))
          PROVE  Booked
      <3>1. /\ ~Stored(rows, new) /\ \A j \in Ids : j # new => rows'[j] = rows[j]
            /\ rows'[new].payload = JobPayload(c)
        BY <1>0, <1>1, <2>1, InsertNewFacts DEF Statuses
      <3>2. \A x \in Ids : Jobs(x) \ {new} = Jobs(x)' \ {new} /\ new \notin Jobs(x)
        BY <3>1, Grows DEF Blank, Jobs
      <3>3. /\ rows'[new].payload.job = "send_jmdn" /\ rows'[new].payload.about = id
        BY <1>0, <3>1, PayloadFacts
      <3>4. \A x \in Ids : x # id => Jobs(x)' = Jobs(x)
        BY <3>2, <3>3 DEF Jobs
      <3>5. new \in Jobs(id)'
        BY <3>3 DEF Jobs
      <3>6. Jobs(id)' = {new}
        BY <1>1, <1>2, <3>2, <3>5
      <3> QED
        BY <3>1, <3>4, <3>6, Grows
    <2>2. ASSUME UNCHANGED rows, id \in forgotten'
          PROVE  Booked
      BY <1>2, <2>2 DEF Kept, Stored, Jobs
    <2> QED
      BY <2>1, <2>2 DEF QueueReceipt, tableVars
  <1>8. ASSUME NEW e \in calls, e # c
        PROVE  CallTracked(e)'
    <2>1. e.envelope.id \in Ids /\ CallTracked(e)
      BY <1>0, PayloadFacts DEF Tracked
    <2>2. Jobs(e.envelope.id) # {} => Jobs(e.envelope.id)' # {}
      BY <1>2, <1>7, <2>1
    <2>3. e.pc = "stored" => accepted'[e.envelope.id] = accepted[e.envelope.id]
      BY <1>5, <1>6, <1>8, <2>1
    <2>4. rows[e.envelope.id].status # "ABSENT" => rows'[e.envelope.id] = rows[e.envelope.id]
      BY <1>7, <2>1 DEF Stored
    <2> QED
      BY <1>3, <1>7, <2>1, <2>2, <2>3, <2>4 DEF CallTracked
  <1>9. CallTracked(d)'
    BY <1>1, <1>2, <1>4, <1>7 DEF CallTracked
  <1>10. \A x \in Ids : Ledger(x)'
    BY <1>1, <1>2, <1>5, <1>7 DEF Tracked, Ledger
  <1>11. OneInserter'
    BY <1>3, <1>4 DEF Tracked, OneInserter
  <1> QED
    BY <1>3, <1>8, <1>9, <1>10, <1>11 DEF Tracked

LEMMA TrackedNext == TypeOK /\ Blank /\ Tracked /\ [Next]_vars => Tracked'
  <1> SUFFICES ASSUME TypeOK, Blank, Tracked, [Next]_vars PROVE Tracked'
    OBVIOUS
  <1>0. calls \subseteq Call
    BY DEF TypeOK
  <1>1. CASE UNCHANGED <<rows, accepted, forgotten>> /\ calls' \subseteq calls
    BY <1>1, TrackedQuietly
  <1>2. ASSUME NEW e \in Envelopes, NEW n \in 1 .. MaxCalls, Arrive(e, n)
        PROVE  Tracked'
    <2>1. calls' = calls \cup {NewCall(e, n)} /\ UNCHANGED <<rows, accepted, forgotten>>
      BY <1>2 DEF Arrive, storeVars
    <2>2. NewCall(e, n).pc = "arrived"
      BY DEF NewCall
    <2> QED
      BY <2>1, <2>2, TrackedQuietly DEF CallTracked
  <1>3. ASSUME NEW c \in calls, Judge(c)
        PROVE  Tracked'
    <2>1. PICK v \in Verdicts : Becomes(c, [c EXCEPT !.pc = "judged", !.verdict = v])
      BY <1>3 DEF Judge
    <2> DEFINE d == [c EXCEPT !.pc = "judged", !.verdict = v]
    <2>2. d.pc = "judged" /\ calls' = (calls \ {c}) \cup {d}
      BY <1>0, <2>1 DEF Becomes, Call
    <2>3. UNCHANGED <<rows, accepted, forgotten>>
      BY <1>3 DEF Judge, tableVars
    <2> QED
      BY <2>2, <2>3, TrackedQuietly DEF CallTracked
  <1>4. ASSUME NEW c \in calls, StoreRefused(c)
        PROVE  Tracked'
    <2>1. PICK a \in {"409", "500"} :
              AnswerWith(c, a) /\ (a = "409" => ~CanInsert(rows, c.envelope.id))
      BY <1>4 DEF StoreRefused
    <2> DEFINE d == [c EXCEPT !.pc = "answered", !.answer = a]
    <2>2. /\ d.pc = "answered" /\ d.answer = a /\ d.envelope = c.envelope
          /\ calls' = (calls \ {c}) \cup {d}
      BY <1>0, <2>1 DEF AnswerWith, Becomes, Call
    <2>3. UNCHANGED <<rows, accepted, forgotten>>
      BY <1>4 DEF StoreRefused, tableVars
    <2>4. CallTracked(d)'
      BY <2>1, <2>2, <2>3 DEF CallTracked, CanInsert, Stored
    <2> QED
      BY <2>2, <2>3, <2>4, TrackedQuietly
  <1>5. ASSUME NEW c \in calls, Hangup(c)
        PROVE  Tracked'
    BY <1>1, <1>5 DEF Hangup, storeVars
  <1>6. CASE Exit /\ Die
    BY <1>1, <1>6 DEF Exit, Die
  <1> QED
    BY <1>1, <1>2, <1>3, <1>4, <1>5, <1>6, TrackedStore, TrackedReceipt
    DEF Next, Handle, ChangePartner, BeginShutdown, Boot, vars, storeVars, inboundVars

LEMMA TrackedAlways == Spec => [](TypeOK /\ Blank /\ Tracked)
  <1>1. Init => Blank /\ Tracked
    <2> SUFFICES ASSUME Init PROVE Blank /\ Tracked
      OBVIOUS
    <2>1. \A id \in Ids : rows[id].payload.job = ""
      BY DEF Init, StoreInit, EmptyTable, Absent
    <2>2. calls = {} /\ accepted = [id \in Ids |-> 0]
      BY DEF Init, InboundInit
    <2>3. \A id \in Ids : Jobs(id) = {}
      BY <2>1 DEF Jobs
    <2>4. ASSUME NEW id \in Ids
          PROVE  Ledger(id)
      <3>1. accepted[id] = 0
        BY <2>2
      <3> QED
        BY <2>3, <3>1 DEF Ledger
    <2>5. Blank
      BY <2>1 DEF Blank
    <2>6. OneInserter /\ \A c \in calls : CallTracked(c)
      BY <2>2 DEF OneInserter
    <2> QED
      BY <2>4, <2>5, <2>6 DEF Tracked
  <1> QED
    BY <1>1, TypedInit, TypedNext, BlankNext, TrackedNext, PTL DEF Spec

\* However many calls for a message overlap, and wherever the process ends in between,
\* one of them at most is answered 202.
THEOREM NeverAcceptedTwice == Spec => []AcceptedAtMostOnce
  <1>1. Tracked => AcceptedAtMostOnce
    <2> SUFFICES ASSUME Tracked, NEW id \in Ids PROVE accepted[id] <= 1
      BY DEF AcceptedAtMostOnce
    <2>1. CASE accepted[id] = 0
      BY <2>1
    <2>2. CASE accepted[id] = 1
      BY <2>2
    <2> QED
      BY <2>1, <2>2 DEF Tracked, Ledger
  <1> QED
    BY <1>1, TrackedAlways, PTL

\* A message has one J-MDN job at most, and has it only when it is kept.
THEOREM ReceiptsFollowAcceptance == Spec => []ReceiptsMatchAcceptance
  <1>1. Tracked => ReceiptsMatchAcceptance
    <2> SUFFICES ASSUME Tracked, NEW id \in Ids
        PROVE  /\ Cardinality(Jobs(id)) <= 1
               /\ Jobs(id) # {} => rows[id].dir = "INBOUND" /\ rows[id].status = "DELIVERED"
      BY DEF ReceiptsMatchAcceptance
    <2>1. Jobs(id) # {} => Kept(id)
      BY DEF Tracked, Ledger
    <2>2. CASE Jobs(id) = {}
      BY <2>2, FS_EmptySet
    <2>3. CASE Jobs(id) # {}
      <3>1. PICK j : j \in Jobs(id)
        BY <2>3
      <3>2. Jobs(id) = {j}
        BY <3>1 DEF Tracked, Ledger
      <3>3. Cardinality(Jobs(id)) = 1
        BY <3>2, FS_Singleton
      <3> QED
        BY <2>1, <2>3, <3>3 DEF Kept
    <2> QED
      BY <2>1, <2>2, <2>3
  <1> QED
    BY <1>1, TrackedAlways, PTL

\* What callers were told stays true of the table.
THEOREM AnswersAreTrue == Spec => []AnswersAgreeWithTable
  <1>1. Tracked => AnswersAgreeWithTable
    BY DEF Tracked, CallTracked, AnswersAgreeWithTable, Kept, Stored
  <1> QED
    BY <1>1, TrackedAlways, PTL

\* An accepted document without a job is one whose job could not be inserted.
THEOREM NoReceiptGoesMissing == Spec => []OnlyForgottenReceiptsAreMissing
  <1>1. Tracked => OnlyForgottenReceiptsAreMissing
    BY DEF Tracked, CallTracked, OnlyForgottenReceiptsAreMissing
  <1> QED
    BY <1>1, TrackedAlways, PTL
=============================================================================
