----------------------- MODULE TelemetryIngest_proofs -----------------------
(***************************************************************************)
(* Theorems about TelemetryIngest, for every number of exporters, sessions *)
(* and concurrent requests and every value of the bounds.                  *)
(***************************************************************************)
EXTENDS TelemetryIngest, SequenceTheorems, FiniteSetTheorems, TLAPS

-----------------------------------------------------------------------------
(* Events *)

(* The events of the batches fill the numbers, batch after batch. *)
LEMMA EventNumbers ==
    ASSUME NEW b \in Batches, NEW i \in 1 .. BatchSize
    PROVE  /\ (b - 1) * BatchSize + i \in Int
           /\ (b - 1) * BatchSize + i >= 1
           /\ (b - 1) * BatchSize + i <= MaxBatches * BatchSize
           /\ (b - 1) * BatchSize + i <= b * BatchSize
<1>1. /\ b \in Nat /\ b >= 1 /\ b <= MaxBatches /\ MaxBatches \in Nat
      /\ BatchSize \in Nat /\ i \in Nat /\ i >= 1 /\ i <= BatchSize
  BY TelemetryAssumption DEF Batches
<1>2. (b - 1) * BatchSize >= 0 /\ (b - 1) * BatchSize \in Int
  BY <1>1
<1>3. (b - 1) * BatchSize + BatchSize = b * BatchSize
  BY <1>1
<1>4. (MaxBatches - b) * BatchSize >= 0
  BY <1>1
<1>5. b * BatchSize <= MaxBatches * BatchSize
  BY <1>1, <1>4
<1> QED
  BY <1>1, <1>2, <1>3, <1>5

(* So an event is one, and one of no other batch. *)
LEMMA EventType ==
    ASSUME NEW x \in Exporters, NEW b \in Batches, NEW i \in 1 .. BatchSize
    PROVE  EventOf(x, b, i) \in Events
<1>1. (b - 1) * BatchSize + i \in 1 .. MaxBatches * BatchSize
  BY EventNumbers, TelemetryAssumption
<1> QED
  BY <1>1 DEF EventOf, Events

(* The number of an event tells its batch and its place in it. *)
LEMMA EventsDiffer ==
    ASSUME NEW x, NEW y,
           NEW b \in Batches, NEW i \in 1 .. BatchSize,
           NEW c \in Batches, NEW j \in 1 .. BatchSize,
           EventOf(x, b, i) = EventOf(y, c, j)
    PROVE  x = y /\ b = c /\ i = j
<1>1. x = y /\ (b - 1) * BatchSize + i = (c - 1) * BatchSize + j
  BY DEF EventOf
<1>2. /\ b \in Nat /\ c \in Nat /\ BatchSize \in Nat /\ i \in Nat /\ j \in Nat
      /\ i >= 1 /\ j >= 1 /\ i <= BatchSize /\ j <= BatchSize
  BY TelemetryAssumption DEF Batches
<1>3. ASSUME NEW m \in Batches, NEW n \in Batches, m < n
      PROVE  m * BatchSize <= (n - 1) * BatchSize
  <2>1. (n - 1 - m) \in Nat /\ (n - 1 - m) * BatchSize >= 0
    BY <1>2, <1>3 DEF Batches
  <2> QED
    BY <1>2, <2>1 DEF Batches
<1>4. ~ b < c
  BY <1>1, <1>2, <1>3, EventNumbers DEF Batches
<1>5. ~ c < b
  BY <1>1, <1>2, <1>3, EventNumbers DEF Batches
<1> QED
  BY <1>1, <1>2, <1>4, <1>5

-----------------------------------------------------------------------------
(* Fingerprints *)

(* The fingerprints after one more. *)
Pushed(recent, f) == Truncated(Append(recent, f))

(* A fingerprint that is added goes to the end, and pushes out at most the *)
(* first one, when there are Window of them.                               *)
LEMMA TruncatedAppend ==
    ASSUME NEW recent \in Seq(Fingerprints), NEW f \in Fingerprints
    PROVE  /\ Pushed(recent, f) \in Seq(Fingerprints)
           /\ Len(Pushed(recent, f)) =
                 IF Len(recent) + 1 > Window THEN Window ELSE Len(recent) + 1
           /\ Len(Pushed(recent, f)) \in Nat
           /\ Len(Pushed(recent, f)) <= Len(recent) + 1
           /\ \A i \in 1 .. Len(Pushed(recent, f)) :
                 Pushed(recent, f)[i] =
                    IF i = Len(Pushed(recent, f)) THEN f
                    ELSE recent[i + (Len(recent) + 1 - Len(Pushed(recent, f)))]
<1> DEFINE all == Append(recent, f)
           r == Pushed(recent, f)
<1>1. Len(recent) \in Nat /\ Window \in Nat
  BY TelemetryAssumption
<1>2. /\ all \in Seq(Fingerprints)
      /\ Len(all) = Len(recent) + 1
      /\ \A i \in 1 .. Len(all) :
            all[i] = IF i = Len(recent) + 1 THEN f ELSE recent[i]
  <2>1. \A i \in 1 .. Len(recent) : all[i] = recent[i]
    BY AppendProperties
  <2> QED
    BY <1>1, <2>1, AppendProperties
<1>3. r = Truncated(all)
  BY DEF Pushed
<1> HIDE DEF all, r
<1>4. CASE Len(all) > Window
  <2>1. r = SubSeq(all, Len(all) - Window + 1, Len(all))
    BY <1>3, <1>4 DEF Truncated
  <2>2. \A i \in Len(all) - Window + 1 .. Len(all) : all[i] \in Fingerprints
    BY <1>1, <1>2, <1>4
  <2>3. /\ r \in Seq(Fingerprints)
        /\ Len(r) = Window
        /\ \A i \in 1 .. Window : r[i] = all[i + Len(all) - Window]
    BY <1>1, <1>2, <1>4, <2>1, <2>2, SubSeqProperties
  <2>4. ASSUME NEW i \in 1 .. Len(r)
        PROVE  r[i] = IF i = Len(r) THEN f
                      ELSE recent[i + (Len(recent) + 1 - Len(r))]
    <3>1. i + Len(all) - Window \in 1 .. Len(all)
      BY <1>1, <1>2, <1>4, <2>3, <2>4
    <3>2. r[i] = all[i + Len(all) - Window]
      BY <2>3, <2>4
    <3>3. CASE i = Len(r)
      BY <1>1, <1>2, <2>3, <3>1, <3>2, <3>3
    <3>4. CASE i # Len(r)
      <4>1. /\ i + Len(all) - Window # Len(recent) + 1
            /\ i + Len(all) - Window = i + (Len(recent) + 1 - Len(r))
        BY <1>1, <1>2, <2>3, <2>4, <3>4
      <4> QED
        BY <1>2, <3>1, <3>2, <3>4, <4>1
    <3> QED
      BY <3>3, <3>4
  <2> QED
    BY <1>1, <1>2, <1>4, <2>3, <2>4 DEF r
<1>5. CASE ~ (Len(all) > Window)
  <2>1. r = all
    BY <1>3, <1>5 DEF Truncated
  <2>2. \A i \in 1 .. Len(r) : i + (Len(recent) + 1 - Len(r)) = i
    BY <1>1, <1>2, <2>1
  <2> QED
    <3>1. \A i \in 1 .. Len(r) :
             r[i] = IF i = Len(r) THEN f
                    ELSE recent[i + (Len(recent) + 1 - Len(r))]
      BY <1>1, <1>2, <2>1, <2>2
    <3>2. Len(r) = Len(recent) + 1 /\ ~ (Len(recent) + 1 > Window)
      BY <1>2, <1>5, <2>1
    <3> QED
      BY <1>1, <1>2, <2>1, <3>1, <3>2 DEF r
<1> QED
  BY <1>4, <1>5

(* So a fingerprint is the new one or one that was there before. *)
LEMMA TruncatedContents ==
    ASSUME NEW recent \in Seq(Fingerprints), NEW f \in Fingerprints,
           NEW i \in DOMAIN Pushed(recent, f)
    PROVE  \/ Pushed(recent, f)[i] = f
           \/ \E j \in DOMAIN recent : Pushed(recent, f)[i] = recent[j]
<1> DEFINE r == Pushed(recent, f)
<1>1. /\ r \in Seq(Fingerprints)
      /\ Len(r) \in Nat /\ Len(r) <= Len(recent) + 1
      /\ \A k \in 1 .. Len(r) :
            r[k] = IF k = Len(r) THEN f
                   ELSE recent[k + (Len(recent) + 1 - Len(r))]
  BY TruncatedAppend
<1> HIDE DEF r
<1>2. i \in 1 .. Len(r) /\ Len(recent) \in Nat
  BY <1>1 DEF r
<1>3. CASE i # Len(r)
  <2>1. i + (Len(recent) + 1 - Len(r)) \in 1 .. Len(recent)
    BY <1>1, <1>2, <1>3
  <2>2. r[i] = recent[i + (Len(recent) + 1 - Len(r))]
    BY <1>1, <1>2, <1>3
  <2>3. DOMAIN recent = 1 .. Len(recent)
    OBVIOUS
  <2> QED
    BY <2>1, <2>2, <2>3 DEF r
<1> QED
  BY <1>1, <1>2, <1>3 DEF r

(* Merging an event keeps a session one, and adds no other event. *)
LEMMA MergedType ==
    ASSUME NEW session \in TelemetrySession, NEW e \in Events
    PROVE  /\ Merged(session, e) \in TelemetrySession
           /\ \A f \in Events : f # e =>
                 Merged(session, e).added[f] = session.added[f]
           /\ Merged(session, e).added[e] =
                 IF IsKnown(session, e) THEN session.added[e]
                 ELSE session.added[e] + 1
           /\ ~ IsKnown(session, e) =>
                 Merged(session, e).recent =
                    Pushed(session.recent, FingerprintOf[e])
<1>1. /\ session.added \in [Events -> Nat]
      /\ session.recent \in Seq(Fingerprints)
      /\ FingerprintOf[e] \in Fingerprints
  BY TelemetryAssumption DEF TelemetrySession
<1>2. CASE IsKnown(session, e)
  BY <1>2 DEF Merged
<1>3. CASE ~ IsKnown(session, e)
  <2>1. Pushed(session.recent, FingerprintOf[e]) \in Seq(Fingerprints)
    BY <1>1, TruncatedAppend
  <2>2. [session.added EXCEPT ![e] = @ + 1] \in [Events -> Nat]
    BY <1>1
  <2> QED
    BY <1>1, <1>3, <2>1, <2>2 DEF Merged, Pushed, TelemetrySession
<1> QED
  BY <1>2, <1>3

-----------------------------------------------------------------------------
(* Type correctness *)

(* Empty counters and an idle handler are of the right kind. *)
LEMMA IdleTypes ==
    /\ NewSession \in TelemetrySession
    /\ NoCopy \in [Sessions -> TelemetrySession]
    /\ 1 \in Batches /\ 1 \in 1 .. BatchSize + 1
    /\ IdleHandler \in Handler
<1>1. NewSession \in TelemetrySession
  BY DEF NewSession, TelemetrySession
<1>2. NoCopy \in [Sessions -> TelemetrySession]
  BY <1>1 DEF NoCopy
<1>3. 1 \in Batches /\ 1 \in 1 .. BatchSize + 1
  BY TelemetryAssumption DEF Batches
<1>4. IdleHandler \in Handler
  <2>1. (CHOOSE x \in Exporters : TRUE) \in Exporters
    BY TelemetryAssumption
  <2> QED
    BY <1>2, <1>3, <2>1 DEF IdleHandler, Handler
<1> QED
  BY <1>1, <1>2, <1>3, <1>4

(* Initially every variable has its type. *)
LEMMA InitTypeOK == Init => TypeOK
<1> SUFFICES ASSUME Init PROVE TypeOK
  OBVIOUS
<1>1. handlers \in [Handlers -> Handler]
  BY IdleTypes DEF Init
<1>2. exporters \in [Exporters -> Exporter]
  BY TelemetryAssumption DEF Init, Exporter
<1>3. faults \in 0 .. MaxFaults /\ stops \in 0 .. MaxStops
  BY TelemetryAssumption DEF Init
<1> QED
  BY <1>1, <1>2, <1>3, IdleTypes DEF Init, TypeOK

(* The fields of a handler and of an exporter. *)
LEMMA Fields ==
    ASSUME TypeOK
    PROVE  /\ \A h \in Handlers :
                 /\ handlers[h].pc \in {"idle", "waiting", "merge", "put", "snapshot"}
                 /\ handlers[h].exporter \in Exporters
                 /\ handlers[h].batch \in Batches
                 /\ handlers[h].next \in 1 .. BatchSize + 1
                 /\ handlers[h].copy \in [Sessions -> TelemetrySession]
           /\ \A x \in Exporters :
                 /\ exporters[x].batch \in 1 .. MaxBatches + 1
                 /\ exporters[x].by \in {{}} \cup {{h} : h \in Handlers}
<1>1. \A h \in Handlers : handlers[h] \in Handler
  BY DEF TypeOK
<1>2. \A x \in Exporters : exporters[x] \in Exporter
  BY DEF TypeOK
<1> QED
  BY <1>1, <1>2 DEF Handler, Exporter

(* Answering leaves handlers, exporters and answers of their types. *)
LEMMA AnswerType ==
    ASSUME TypeOK, NEW h \in Handlers, NEW ok \in BOOLEAN, Answer(h, ok)
    PROVE  /\ handlers' \in [Handlers -> Handler]
           /\ exporters' \in [Exporters -> Exporter]
           /\ answered' \subseteq Exporters \X Batches
           /\ pushed' \in [Exporters -> Nat]
<1> DEFINE x == handlers[h].exporter
           b == handlers[h].batch
<1>1. x \in Exporters /\ b \in Batches
  BY Fields
<1>2. handlers' \in [Handlers -> Handler]
  BY <1>1, IdleTypes DEF Answer, TypeOK
<1>3. answered' \subseteq Exporters \X Batches
  BY <1>1 DEF Answer, TypeOK
<1>4. [batch |-> IF ok THEN b + 1 ELSE b, by |-> {}] \in Exporter
  BY <1>1, TelemetryAssumption DEF Batches, Exporter
<1>5. exporters' \in [Exporters -> Exporter]
  BY <1>1, <1>4 DEF Answer, TypeOK
<1>6. pushed' \in [Exporters -> Nat]
  BY DEF Answer, TypeOK
<1> QED
  BY <1>2, <1>3, <1>5, <1>6

(* Every step keeps every variable in its type. *)
LEMMA NextTypeOK == TypeOK /\ [Next]_vars => TypeOK'
<1> SUFFICES ASSUME TypeOK, [Next]_vars PROVE TypeOK'
  OBVIOUS
<1> USE DEF TypeOK, history
<1>1. ASSUME NEW x \in Exporters, TimeOut(x) PROVE TypeOK'
  <2>1. [exporters[x] EXCEPT !.by = {}] \in Exporter
    BY DEF Exporter
  <2>2. exporters' \in [Exporters -> Exporter]
    BY <1>1, <2>1 DEF TimeOut
  <2>3. faults' \in 0 .. MaxFaults
    BY <1>1, TelemetryAssumption DEF TimeOut
  <2> QED
    BY <1>1, <2>2, <2>3 DEF TimeOut
<1>2. ASSUME NEW x \in Exporters, Drop(x) PROVE TypeOK'
  <2>1. exporters[x].batch + 1 \in 1 .. MaxBatches + 1
    BY <1>2, Fields, TelemetryAssumption DEF Drop
  <2>2. [exporters[x] EXCEPT !.batch = @ + 1] \in Exporter
    BY <2>1 DEF Exporter
  <2>3. exporters' \in [Exporters -> Exporter]
    BY <1>2, <2>2 DEF Drop
  <2>4. pushed' \in [Exporters -> Nat]
    BY <1>2 DEF Drop
  <2> QED
    BY <1>2, <2>3, <2>4 DEF Drop
<1>3. ASSUME NEW x \in Exporters, NEW h \in Handlers, Receive(h, x)
      PROVE  TypeOK'
  <2>1. exporters[x].batch \in Batches
    BY <1>3, Fields, TelemetryAssumption DEF Receive, Batches
  <2>2. [IdleHandler EXCEPT !.pc = "waiting", !.exporter = x,
                            !.batch = exporters[x].batch] \in Handler
    BY <2>1, IdleTypes DEF Handler, IdleHandler
  <2>3. handlers' \in [Handlers -> Handler]
    BY <1>3, <2>2 DEF Receive
  <2>4. [exporters[x] EXCEPT !.by = {h}] \in Exporter
    BY DEF Exporter
  <2>5. exporters' \in [Exporters -> Exporter]
    BY <1>3, <2>4 DEF Receive
  <2>6. alone' \in BOOLEAN
    BY <1>3 DEF Receive
  <2> QED
    BY <1>3, <2>3, <2>5, <2>6 DEF Receive
<1>12. ASSUME NEW h \in Handlers, Lock(h) PROVE TypeOK'
  <2>1. [handlers[h] EXCEPT !.pc = "merge"] \in Handler
    BY DEF Handler
  <2>2. handlers' \in [Handlers -> Handler]
    BY <1>12, <2>1 DEF Lock
  <2>3. timely' \in BOOLEAN
    BY <1>12 DEF Lock
  <2> QED
    BY <1>12, <2>2, <2>3 DEF Lock
<1>4. ASSUME NEW h \in Handlers, MergeEvent(h) PROVE TypeOK'
  <2> DEFINE x == handlers[h].exporter
             e == EventOf(x, handlers[h].batch, handlers[h].next)
  <2>1. handlers[h].next \in 1 .. BatchSize
    BY <1>4, Fields, TelemetryAssumption DEF MergeEvent
  <2>2. x \in Exporters /\ e \in Events /\ SessionOf[x] \in Sessions
    BY <2>1, Fields, EventType, TelemetryAssumption
  <2>3. sessions' \in [Sessions -> TelemetrySession]
    <3>1. Merged(sessions[SessionOf[x]], e) \in TelemetrySession
      BY <2>2, MergedType
    <3>2. sessions' = [sessions EXCEPT ![SessionOf[x]] =
                         Merged(sessions[SessionOf[x]], e)]
      BY <1>4 DEF MergeEvent
    <3> QED
      BY <3>1, <3>2
  <2>4. handlers[h].next + 1 \in 1 .. BatchSize + 1
    BY <2>1, TelemetryAssumption
  <2>5. [handlers[h] EXCEPT !.next = @ + 1] \in Handler
    BY <2>4 DEF Handler
  <2>6. handlers' \in [Handlers -> Handler]
    BY <1>4, <2>5 DEF MergeEvent
  <2>7. pushed' \in [Exporters -> Nat]
    BY <1>4 DEF MergeEvent, PushedBy
  <2> QED
    BY <1>4, <2>3, <2>6, <2>7 DEF MergeEvent
<1>5. ASSUME NEW h \in Handlers, Unlock(h) PROVE TypeOK'
  <2>1. [handlers[h] EXCEPT !.pc = "put", !.copy = sessions] \in Handler
    BY DEF Handler
  <2>2. handlers' \in [Handlers -> Handler]
    BY <1>5, <2>1 DEF Unlock
  <2> QED
    BY <1>5, <2>2 DEF Unlock
<1>6. ASSUME NEW h \in Handlers, WriteFails(h) PROVE TypeOK'
  <2>1. faults' \in 0 .. MaxFaults
    BY <1>6, TelemetryAssumption DEF WriteFails
  <2> QED
    BY <1>6, <2>1, AnswerType DEF WriteFails, Answer
<1>7. ASSUME NEW h \in Handlers, PutTelemetrySessions(h) PROVE TypeOK'
  <2>1. [handlers[h] EXCEPT !.pc = "snapshot", !.copy = NoCopy] \in Handler
    BY IdleTypes DEF Handler
  <2>2. handlers' = [handlers EXCEPT ![h].pc = "snapshot", ![h].copy = NoCopy]
           => handlers' \in [Handlers -> Handler]
    BY <2>1
  <2> QED
    BY <1>6, <1>7, <2>2, Fields DEF PutTelemetrySessions
<1>8. ASSUME NEW h \in Handlers, PutSnapshot(h) PROVE TypeOK'
  BY <1>6, <1>8, AnswerType DEF PutSnapshot, Answer
<1>9. CASE Stop
  <2>1. handlers' \in [Handlers -> Handler]
    BY <1>9, Fields, IdleTypes DEF Stop
  <2>2. exporters' \in [Exporters -> Exporter]
    <3>1. \A x \in Exporters : [exporters[x] EXCEPT !.by = {}] \in Exporter
      BY DEF Exporter
    <3> QED
      BY <1>9, <3>1 DEF Stop
  <2>3. stops' \in 0 .. MaxStops
    BY <1>9, TelemetryAssumption DEF Stop
  <2> QED
    BY <1>9, <2>1, <2>2, <2>3, IdleTypes DEF Stop
<1>10. CASE New
  BY <1>10 DEF New
<1>11. CASE UNCHANGED vars
  BY <1>11 DEF vars
<1> QED
  BY <1>1, <1>2, <1>3, <1>4, <1>5, <1>7, <1>8, <1>9, <1>10, <1>11,
     <1>12
     DEF Next, Serve

(* Type correctness: whatever exporters, requests and restarts do, every   *)
(* variable keeps a value of its kind.                                     *)
THEOREM TypeCorrect == Spec => []TypeOK
<1>1. Init => TypeOK
  BY InitTypeOK
<1>2. TypeOK /\ [Next]_vars => TypeOK'
  BY NextTypeOK
<1> QED
  BY <1>1, <1>2, PTL DEF Spec

-----------------------------------------------------------------------------
(* What was answered *)

(* A fingerprint is kept only of an event that was added to the counters:  *)
(* to skip a known event never loses it.                                   *)
KnownIsAdded(session) ==
    \A i \in DOMAIN session.recent :
        \E f \in Events :
            FingerprintOf[f] = session.recent[i] /\ session.added[f] >= 1

NothingIsForged ==
    /\ \A s \in Sessions : KnownIsAdded(sessions[s]) /\ KnownIsAdded(stored[s])
    /\ \A h \in Handlers, s \in Sessions : KnownIsAdded(handlers[h].copy[s])

(* The counters of a session hold a batch. *)
HasBatch(counters, x, b) ==
    \A i \in 1 .. BatchSize :
        Counts(counters[SessionOf[x]], EventOf(x, b, i))

(* They hold whatever others hold. *)
Covers(counters, others) ==
    \A s \in Sessions, e \in Events :
        others[s].added[e] >= 1 => counters[s].added[e] >= 1

(* The work of a handler is in memory and in the copy it will write. *)
Kept(h, counters) ==
    LET x == h.exporter
        b == h.batch
    IN  /\ h.pc = "waiting" => h.next = 1
        /\ h.pc = "merge" =>
              \A i \in 1 .. h.next - 1 :
                  Counts(counters[SessionOf[x]], EventOf(x, b, i))
        /\ h.pc \in {"put", "snapshot"} => HasBatch(counters, x, b)
        /\ h.pc = "put" => HasBatch(h.copy, x, b) /\ Covers(counters, h.copy)

WorkIsKept == \A h \in Handlers : Kept(handlers[h], sessions)

(* A daemon that is down was stopped, and serves nobody. *)
DownIsIdle ==
    ~ up => stops # 0 /\ \A h \in Handlers : handlers[h].pc = "idle"

(* What was answered since the start is in memory. *)
AnswersAreCounted ==
    stops = 0 =>
        \A x \in Exporters, b \in Batches :
            <<x, b>> \in answered => HasBatch(sessions, x, b)

(* Requests served one at a time write copies that only gain: a copy has   *)
(* all that is stored, and so all that was answered before it.             *)
AloneInv ==
    alone =>
        /\ \A g, h \in Handlers :
              handlers[g].pc # "idle" /\ handlers[h].pc # "idle" => g = h
        /\ up => Covers(sessions, stored)
        /\ \A h \in Handlers :
              /\ handlers[h].pc = "put" => Covers(handlers[h].copy, stored)
              /\ handlers[h].pc = "snapshot" =>
                    HasBatch(stored, handlers[h].exporter, handlers[h].batch)
        /\ \A x \in Exporters, b \in Batches :
              <<x, b>> \in answered => HasBatch(stored, x, b)

IngestInv ==
    NothingIsForged /\ WorkIsKept /\ DownIsIdle /\ AnswersAreCounted /\ AloneInv

(* Empty counters forge nothing. *)
LEMMA NothingInNoCopy ==
    /\ \A s \in Sessions : KnownIsAdded(NoCopy[s])
    /\ \A s \in Sessions : KnownIsAdded(IdleHandler.copy[s])
<1>1. \A s \in Sessions : NoCopy[s] = NewSession
  BY DEF NoCopy
<1>2. KnownIsAdded(NewSession)
  BY DEF KnownIsAdded, NewSession
<1>3. IdleHandler.copy = NoCopy
  BY DEF IdleHandler
<1> QED
  BY <1>1, <1>2, <1>3

(* Merging an event makes it known and counted, and loses none. *)
LEMMA MergedKeeps ==
    ASSUME NEW session \in TelemetrySession, NEW e \in Events,
           KnownIsAdded(session)
    PROVE  /\ KnownIsAdded(Merged(session, e))
           /\ Counts(Merged(session, e), e)
           /\ \A f \in Events :
                 session.added[f] >= 1 => Merged(session, e).added[f] >= 1
<1>1. /\ session.added \in [Events -> Nat]
      /\ session.recent \in Seq(Fingerprints)
      /\ FingerprintOf[e] \in Fingerprints
  BY TelemetryAssumption DEF TelemetrySession
<1>2. CASE IsKnown(session, e)
  <2>1. Merged(session, e) = session
    BY <1>2 DEF Merged
  <2>2. Counts(session, e)
    BY <1>2 DEF IsKnown, KnownIsAdded, Counts
  <2> QED
    BY <2>1, <2>2
<1>3. CASE ~ IsKnown(session, e)
  <2> DEFINE m == Merged(session, e)
             new == FingerprintOf[e]
  <2>1. /\ \A f \in Events : f # e => m.added[f] = session.added[f]
        /\ m.added[e] = session.added[e] + 1
        /\ m.recent = Pushed(session.recent, new)
    BY <1>3, MergedType
  <2> HIDE DEF m
  <2>2. m.added[e] >= 1
    BY <1>1, <2>1
  <2>3. \A f \in Events : session.added[f] >= 1 => m.added[f] >= 1
    BY <1>1, <2>1, <2>2
  <2>4. Counts(m, e)
    BY <2>2 DEF Counts
  <2>5. ASSUME NEW i \in DOMAIN m.recent
        PROVE  \E f \in Events :
                  FingerprintOf[f] = m.recent[i] /\ m.added[f] >= 1
    <3>1. m.recent[i] = new
             \/ \E j \in DOMAIN session.recent : m.recent[i] = session.recent[j]
      BY <1>1, <2>1, <2>5, TruncatedContents
    <3>2. ASSUME NEW j \in DOMAIN session.recent,
                 m.recent[i] = session.recent[j]
          PROVE  \E f \in Events :
                    FingerprintOf[f] = m.recent[i] /\ m.added[f] >= 1
      <4>1. PICK f \in Events : /\ FingerprintOf[f] = session.recent[j]
                                /\ session.added[f] >= 1
        BY DEF KnownIsAdded
      <4> QED
        BY <2>3, <3>2, <4>1
    <3> QED
      BY <2>2, <3>1, <3>2
  <2> QED
    BY <2>3, <2>4, <2>5 DEF KnownIsAdded, m
<1> QED
  BY <1>2, <1>3

(* What one round of the merge loop does to the counters in memory. *)
LEMMA MergeEventStep ==
    ASSUME TypeOK, NothingIsForged, NEW h \in Handlers, MergeEvent(h)
    PROVE  LET x == handlers[h].exporter
               e == EventOf(x, handlers[h].batch, handlers[h].next)
           IN  /\ x \in Exporters /\ e \in Events
               /\ handlers[h].next \in 1 .. BatchSize
               /\ SessionOf[x] \in Sessions
               /\ sessions'[SessionOf[x]] = Merged(sessions[SessionOf[x]], e)
               /\ \A s \in Sessions : s # SessionOf[x] => sessions'[s] = sessions[s]
               /\ Counts(sessions'[SessionOf[x]], e)
               /\ \A s \in Sessions : KnownIsAdded(sessions'[s])
               /\ Covers(sessions', sessions)
<1> DEFINE x == handlers[h].exporter
           e == EventOf(x, handlers[h].batch, handlers[h].next)
<1>1. handlers[h].next \in 1 .. BatchSize
  BY Fields, TelemetryAssumption DEF MergeEvent
<1>2. x \in Exporters /\ e \in Events /\ SessionOf[x] \in Sessions
  BY <1>1, Fields, EventType, TelemetryAssumption
<1>3. sessions' = [sessions EXCEPT ![SessionOf[x]] =
                     Merged(sessions[SessionOf[x]], e)]
  BY DEF MergeEvent
<1>4. /\ sessions'[SessionOf[x]] = Merged(sessions[SessionOf[x]], e)
      /\ \A s \in Sessions : s # SessionOf[x] => sessions'[s] = sessions[s]
  BY <1>2, <1>3 DEF TypeOK
<1>5. /\ sessions[SessionOf[x]] \in TelemetrySession
      /\ KnownIsAdded(sessions[SessionOf[x]])
  BY <1>2 DEF TypeOK, NothingIsForged
<1> HIDE DEF x, e
<1>6. /\ KnownIsAdded(sessions'[SessionOf[x]])
      /\ Counts(sessions'[SessionOf[x]], e)
      /\ \A f \in Events : sessions[SessionOf[x]].added[f] >= 1
                           => sessions'[SessionOf[x]].added[f] >= 1
  BY <1>2, <1>4, <1>5, MergedKeeps
<1>7. \A s \in Sessions : KnownIsAdded(sessions'[s])
  BY <1>4, <1>6 DEF NothingIsForged
<1>8. Covers(sessions', sessions)
  BY <1>4, <1>6 DEF Covers
<1> QED
  BY <1>1, <1>2, <1>4, <1>6, <1>7, <1>8 DEF x, e

(* Counters that cover others have every batch the others have. *)
LEMMA CoversBatch ==
    ASSUME NEW counters, NEW others, Covers(counters, others),
           NEW x \in Exporters, NEW b \in Batches, HasBatch(others, x, b)
    PROVE  HasBatch(counters, x, b)
<1>1. SessionOf[x] \in Sessions
  BY TelemetryAssumption
<1> QED
  BY <1>1, EventType DEF Covers, HasBatch, Counts

(* Covering goes on from counters to counters. *)
LEMMA CoversTransitive ==
    ASSUME NEW counters, NEW others, NEW third,
           Covers(counters, others), Covers(others, third)
    PROVE  Covers(counters, third)
BY DEF Covers

(* Initially nothing was counted or answered. *)
LEMMA InitIngestInv == Init => IngestInv
<1> SUFFICES ASSUME Init PROVE IngestInv
  OBVIOUS
<1>1. IdleHandler.pc = "idle"
  BY DEF IdleHandler
<1>2. \A h \in Handlers : handlers[h] = IdleHandler
  BY DEF Init
<1>3. \A h \in Handlers : handlers[h].pc = "idle"
  BY <1>1, <1>2
<1>4. NothingIsForged
  BY <1>2, NothingInNoCopy DEF Init, NothingIsForged
<1>5. WorkIsKept
  BY <1>3 DEF WorkIsKept, Kept
<1>6. DownIsIdle
  BY DEF Init, DownIsIdle
<1>7. AnswersAreCounted
  BY DEF Init, AnswersAreCounted
<1>8. AloneInv
  <2>1. Covers(sessions, stored)
    BY DEF Init, Covers
  <2> QED
    BY <1>3, <2>1 DEF Init, AloneInv
<1> QED
  BY <1>4, <1>5, <1>6, <1>7, <1>8 DEF IngestInv

(* A step of the exporters alone changes nothing the invariant is about. *)
LEMMA SameIngest ==
    ASSUME IngestInv,
           UNCHANGED <<up, sessions, handlers, stored, answered, stops, alone>>
    PROVE  IngestInv'
<1>1. NothingIsForged'
  BY DEF IngestInv, NothingIsForged
<1>2. WorkIsKept'
  BY DEF IngestInv, WorkIsKept, Kept, HasBatch, Covers, Counts
<1>3. DownIsIdle' /\ AnswersAreCounted'
  BY DEF IngestInv, DownIsIdle, AnswersAreCounted, HasBatch, Counts
<1>4. AloneInv'
  BY DEF IngestInv, AloneInv, HasBatch, Covers, Counts
<1> QED
  BY <1>1, <1>2, <1>3, <1>4 DEF IngestInv

(* A request that is received finds none served if the run stays alone. *)
LEMMA ReceiveKeeps ==
    ASSUME TypeOK, IngestInv, NEW h \in Handlers, NEW x \in Exporters,
           Receive(h, x)
    PROVE  IngestInv'
<1> USE DEF IngestInv
<1>1. /\ \A g \in Handlers : g # h => handlers'[g] = handlers[g]
      /\ handlers'[h].pc = "waiting"
      /\ handlers'[h].next = 1
      /\ handlers'[h].copy = NoCopy
  BY DEF Receive, IdleHandler, TypeOK
<1>2. /\ UNCHANGED <<up, sessions, stored, answered, stops>>
      /\ up
      /\ alone' => alone /\ \A g \in Handlers : handlers[g].pc = "idle"
  BY DEF Receive
<1>3. NothingIsForged'
  BY <1>1, <1>2, NothingInNoCopy DEF NothingIsForged
<1>4. WorkIsKept'
  <2>1. Kept(handlers'[h], sessions)
    BY <1>1 DEF Kept
  <2> QED
    BY <1>1, <1>2, <2>1 DEF WorkIsKept
<1>5. DownIsIdle'
  BY <1>2 DEF DownIsIdle
<1>6. AnswersAreCounted'
  BY <1>2 DEF AnswersAreCounted, HasBatch, Counts
<1>7. AloneInv'
  BY <1>1, <1>2 DEF AloneInv, HasBatch, Covers, Counts
<1> QED
  BY <1>3, <1>4, <1>5, <1>6, <1>7

(* A request that takes d.mu has merged nothing yet. *)
LEMMA LockKeeps ==
    ASSUME TypeOK, IngestInv, NEW h \in Handlers, Lock(h)
    PROVE  IngestInv'
<1> USE DEF IngestInv
<1>1. /\ \A g \in Handlers : g # h => handlers'[g] = handlers[g]
      /\ \A g \in Handlers : handlers'[g].copy = handlers[g].copy
      /\ handlers[h].pc = "waiting"
      /\ handlers'[h].pc = "merge"
      /\ handlers'[h].next = handlers[h].next
      /\ UNCHANGED <<up, sessions, stored, answered, stops, alone>>
  BY DEF Lock, TypeOK, Handler
<1>2. handlers'[h].next = 1
  BY <1>1 DEF WorkIsKept, Kept
<1>3. NothingIsForged'
  BY <1>1 DEF NothingIsForged
<1>4. WorkIsKept'
  <2>1. Kept(handlers'[h], sessions)
    BY <1>1, <1>2 DEF Kept
  <2> QED
    BY <1>1, <2>1 DEF WorkIsKept, Kept
<1>5. DownIsIdle'
  BY <1>1 DEF DownIsIdle
<1>6. AnswersAreCounted'
  BY <1>1 DEF AnswersAreCounted, HasBatch, Counts
<1>7. AloneInv'
  BY <1>1 DEF AloneInv, HasBatch, Covers, Counts
<1> QED
  BY <1>3, <1>4, <1>5, <1>6, <1>7

(* A round of the merge loop adds its event and takes none back. *)
LEMMA MergeEventKeeps ==
    ASSUME TypeOK, IngestInv, NEW h \in Handlers, MergeEvent(h)
    PROVE  IngestInv'
<1> USE DEF IngestInv
<1> DEFINE x == handlers[h].exporter
           e == EventOf(x, handlers[h].batch, handlers[h].next)
<1>1. /\ handlers[h].next \in 1 .. BatchSize
      /\ Counts(sessions'[SessionOf[x]], e)
      /\ \A s \in Sessions : KnownIsAdded(sessions'[s])
      /\ Covers(sessions', sessions)
  BY MergeEventStep
<1>2. /\ \A g \in Handlers : g # h => handlers'[g] = handlers[g]
      /\ \A g \in Handlers : /\ handlers'[g].pc = handlers[g].pc
                            /\ handlers'[g].exporter = handlers[g].exporter
                            /\ handlers'[g].batch = handlers[g].batch
                            /\ handlers'[g].copy = handlers[g].copy
      /\ handlers[h].pc = "merge"
      /\ handlers'[h].next = handlers[h].next + 1
      /\ \A g \in Handlers : handlers[g].pc = "waiting" =>
                               handlers'[g].next = handlers[g].next
      /\ UNCHANGED <<up, stored, answered, stops, alone>>
  BY DEF MergeEvent, TypeOK, Handler
<1>3. NothingIsForged'
  BY <1>1, <1>2 DEF NothingIsForged
<1>4. WorkIsKept'
  <2>1. ASSUME NEW g \in Handlers, handlers'[g].pc = "merge",
               NEW i \in 1 .. handlers'[g].next - 1
        PROVE  Counts(sessions'[SessionOf[handlers'[g].exporter]],
                      EventOf(handlers'[g].exporter, handlers'[g].batch, i))
    <3>1. /\ handlers[g].exporter \in Exporters
          /\ handlers[g].batch \in Batches
          /\ handlers[g].next \in 1 .. BatchSize + 1
          /\ SessionOf[handlers[g].exporter] \in Sessions
      BY Fields, TelemetryAssumption
    <3>2. CASE g = h /\ i = handlers[h].next
      BY <1>1, <1>2, <3>2
    <3>3. CASE ~ (g = h /\ i = handlers[h].next)
      <4>1. i \in 1 .. handlers[g].next - 1 /\ i \in 1 .. BatchSize
        BY <1>1, <1>2, <2>1, <3>1, <3>3, TelemetryAssumption
      <4>2. Counts(sessions[SessionOf[handlers[g].exporter]],
                   EventOf(handlers[g].exporter, handlers[g].batch, i))
        BY <1>2, <2>1, <4>1 DEF WorkIsKept, Kept
      <4>3. EventOf(handlers[g].exporter, handlers[g].batch, i) \in Events
        BY <3>1, <4>1, EventType
      <4> QED
        BY <1>1, <1>2, <3>1, <4>2, <4>3 DEF Covers, Counts
    <3> QED
      BY <3>2, <3>3
  <2>2. ASSUME NEW g \in Handlers, handlers'[g].pc \in {"put", "snapshot"}
        PROVE  HasBatch(sessions', handlers'[g].exporter, handlers'[g].batch)
    <3>1. HasBatch(sessions, handlers[g].exporter, handlers[g].batch)
      BY <1>2, <2>2 DEF WorkIsKept, Kept
    <3>2. handlers[g].exporter \in Exporters /\ handlers[g].batch \in Batches
      BY Fields
    <3> QED
      BY <1>1, <1>2, <3>1, <3>2, CoversBatch
  <2>3. ASSUME NEW g \in Handlers, handlers'[g].pc = "put"
        PROVE  /\ HasBatch(handlers'[g].copy, handlers'[g].exporter,
                           handlers'[g].batch)
               /\ Covers(sessions', handlers'[g].copy)
    <3>1. /\ HasBatch(handlers[g].copy, handlers[g].exporter,
                      handlers[g].batch)
          /\ Covers(sessions, handlers[g].copy)
      BY <1>2, <2>3 DEF WorkIsKept, Kept
    <3> QED
      BY <1>1, <1>2, <3>1, CoversTransitive
  <2>4. ASSUME NEW g \in Handlers, handlers'[g].pc = "waiting"
        PROVE  handlers'[g].next = 1
    BY <1>2, <2>4 DEF WorkIsKept, Kept
  <2>5. ASSUME NEW g \in Handlers PROVE Kept(handlers'[g], sessions')
    BY <2>1, <2>2, <2>3, <2>4 DEF Kept
  <2> QED
    BY <2>5 DEF WorkIsKept
<1>5. DownIsIdle'
  BY <1>2 DEF DownIsIdle
<1>6. AnswersAreCounted'
  <2>1. ASSUME NEW y \in Exporters, NEW b \in Batches, HasBatch(sessions, y, b)
        PROVE  HasBatch(sessions', y, b)
    BY <1>1, <2>1, CoversBatch
  <2> QED
    BY <1>2, <2>1 DEF AnswersAreCounted
<1>7. AloneInv'
  <2>1. Covers(sessions, stored) => Covers(sessions', stored)
    BY <1>1, CoversTransitive
  <2> QED
    BY <1>2, <2>1 DEF AloneInv, HasBatch, Covers, Counts
<1> QED
  BY <1>3, <1>4, <1>5, <1>6, <1>7

(* A handler that unlocks copies counters that have all of its batch.      *)
LEMMA UnlockKeeps ==
    ASSUME TypeOK, IngestInv, NEW h \in Handlers, Unlock(h)
    PROVE  IngestInv'
<1> USE DEF IngestInv
<1> DEFINE x == handlers[h].exporter
           b == handlers[h].batch
<1>1. /\ \A g \in Handlers : g # h => handlers'[g] = handlers[g]
      /\ handlers[h].pc = "merge"
      /\ handlers'[h].pc = "put"
      /\ handlers'[h].exporter = x
      /\ handlers'[h].batch = b
      /\ handlers'[h].copy = sessions
      /\ UNCHANGED <<up, sessions, stored, answered, stops, alone>>
  BY DEF Unlock, TypeOK, Handler, history
<1>2. HasBatch(sessions, x, b)
  <2>1. handlers[h].next - 1 = BatchSize
    <3>1. handlers[h].next \in 1 .. BatchSize + 1 /\ BatchSize \in Nat
      BY Fields, TelemetryAssumption
    <3>2. handlers[h].next > BatchSize
      BY DEF Unlock
    <3> QED
      BY <3>1, <3>2
  <2> QED
    BY <1>1, <2>1 DEF WorkIsKept, Kept, HasBatch
<1>3. NothingIsForged'
  BY <1>1 DEF NothingIsForged
<1>4. WorkIsKept'
  <2>1. Covers(sessions, sessions)
    BY DEF Covers
  <2>2. Kept(handlers'[h], sessions)
    BY <1>1, <1>2, <2>1 DEF Kept
  <2> QED
    BY <1>1, <2>2 DEF WorkIsKept, Kept
<1>5. DownIsIdle'
  BY <1>1 DEF DownIsIdle
<1>6. AnswersAreCounted'
  BY <1>1 DEF AnswersAreCounted, HasBatch, Counts
<1>7. AloneInv'
  BY <1>1 DEF AloneInv, DownIsIdle, HasBatch, Covers, Counts
<1> QED
  BY <1>3, <1>4, <1>5, <1>6, <1>7

(* An answer ends a request; a 200 is given for a batch that is counted,   *)
(* and, when requests come one at a time, stored.                          *)
LEMMA AnswerKeeps ==
    ASSUME TypeOK, IngestInv, NEW h \in Handlers, NEW ok \in BOOLEAN,
           Answer(h, ok), ok => handlers[h].pc = "snapshot",
           UNCHANGED <<up, sessions, stored, stops>>
    PROVE  IngestInv'
<1> USE DEF IngestInv
<1> DEFINE x == handlers[h].exporter
           b == handlers[h].batch
<1>1. x \in Exporters /\ b \in Batches
  BY Fields
<1>2. /\ \A g \in Handlers : g # h => handlers'[g] = handlers[g]
      /\ handlers'[h].pc = "idle"
      /\ handlers'[h].copy = NoCopy
      /\ \/ answered' = answered
         \/ ok /\ answered' = answered \cup {<<x, b>>}
  <2>1. handlers' = [handlers EXCEPT ![h] = IdleHandler]
    BY DEF Answer
  <2>2. IdleHandler.pc = "idle" /\ IdleHandler.copy = NoCopy
    BY DEF IdleHandler
  <2>3. \/ answered' = answered
        \/ ok /\ answered' = answered \cup {<<x, b>>}
    BY DEF Answer
  <2> QED
    BY <2>1, <2>2, <2>3 DEF TypeOK
<1>8. UNCHANGED alone
  BY DEF Answer
<1>3. NothingIsForged'
  BY <1>2, NothingInNoCopy DEF NothingIsForged
<1>4. WorkIsKept'
  <2>1. ASSUME NEW g \in Handlers, handlers'[g].pc # "idle"
        PROVE  handlers'[g] = handlers[g]
    BY <1>2, <2>1
  <2> QED
    BY <2>1, <1>2 DEF WorkIsKept, Kept, HasBatch, Covers, Counts
<1>5. DownIsIdle'
  BY <1>2 DEF DownIsIdle
<1>6. AnswersAreCounted'
  <2>1. ok => HasBatch(sessions, x, b)
    BY DEF WorkIsKept, Kept
  <2>2. ASSUME stops = 0, NEW y \in Exporters, NEW c \in Batches,
               <<y, c>> \in answered'
        PROVE  HasBatch(sessions, y, c)
    BY <1>2, <2>1, <2>2 DEF AnswersAreCounted
  <2> QED
    BY <2>2 DEF AnswersAreCounted, HasBatch, Counts
<1>7. AloneInv'
  <2> SUFFICES ASSUME alone PROVE AloneInv'
    BY <1>8 DEF AloneInv
  <2>1. ok => HasBatch(stored, x, b)
    BY DEF AloneInv
  <2>2. ASSUME NEW y \in Exporters, NEW c \in Batches, <<y, c>> \in answered'
        PROVE  HasBatch(stored, y, c)
    BY <1>2, <2>1, <2>2 DEF AloneInv
  <2>3. ASSUME NEW g \in Handlers, handlers'[g].pc # "idle"
        PROVE  handlers'[g] = handlers[g]
    BY <1>2, <2>3
  <2> QED
    BY <1>8, <2>2, <2>3 DEF AloneInv, HasBatch, Covers, Counts
<1> QED
  BY <1>3, <1>4, <1>5, <1>6, <1>7

(* A copy that is written leaves in the database what was there before, if *)
(* no other request took a copy in between.                                *)
LEMMA PutKeeps ==
    ASSUME TypeOK, IngestInv, NEW h \in Handlers, PutTelemetrySessions(h)
    PROVE  IngestInv'
<1> USE DEF IngestInv
<1>1. CASE WriteFails(h)
  BY <1>1, AnswerKeeps DEF WriteFails
<1>2. CASE /\ stored' = handlers[h].copy
           /\ handlers' = [handlers EXCEPT ![h].pc = "snapshot",
                                            ![h].copy = NoCopy]
           /\ UNCHANGED <<up, sessions, mutex, exporters, answered, faults,
                          stops, history>>
  <2> DEFINE x == handlers[h].exporter
             b == handlers[h].batch
  <2>1. /\ \A g \in Handlers : g # h => handlers'[g] = handlers[g]
        /\ handlers[h].pc = "put"
        /\ handlers'[h].pc = "snapshot"
        /\ handlers'[h].exporter = x
        /\ handlers'[h].batch = b
        /\ handlers'[h].copy = NoCopy
        /\ stored' = handlers[h].copy
        /\ UNCHANGED <<up, sessions, answered, stops, alone>>
    BY <1>2 DEF PutTelemetrySessions, TypeOK, Handler, history
  <2>2. /\ HasBatch(sessions, x, b)
        /\ HasBatch(handlers[h].copy, x, b)
        /\ Covers(sessions, handlers[h].copy)
    BY <2>1 DEF WorkIsKept, Kept
  <2>3. NothingIsForged'
    BY <2>1, NothingInNoCopy DEF NothingIsForged, IdleHandler
  <2>4. WorkIsKept'
    <3>1. Kept(handlers'[h], sessions)
      BY <2>1, <2>2 DEF Kept
    <3> QED
      BY <2>1, <3>1 DEF WorkIsKept
  <2>5. DownIsIdle'
    BY <2>1 DEF DownIsIdle
  <2>6. AnswersAreCounted'
    BY <2>1 DEF AnswersAreCounted, HasBatch, Counts
  <2>7. AloneInv'
    <3> SUFFICES ASSUME alone PROVE AloneInv'
      BY <2>1 DEF AloneInv
    <3>1. /\ Covers(handlers[h].copy, stored)
          /\ \A g \in Handlers : g # h => handlers[g].pc = "idle"
      BY <2>1 DEF AloneInv
    <3>2. ASSUME NEW y \in Exporters, NEW c \in Batches,
                 <<y, c>> \in answered
          PROVE  HasBatch(handlers[h].copy, y, c)
      BY <3>1, <3>2, CoversBatch DEF AloneInv
    <3>3. \A g \in Handlers : handlers'[g].pc # "idle" => g = h
      BY <2>1, <3>1
    <3> QED
      BY <2>1, <2>2, <3>2, <3>3 DEF AloneInv, HasBatch, Covers, Counts
  <2> QED
    BY <2>3, <2>4, <2>5, <2>6, <2>7
<1> QED
  BY <1>1, <1>2 DEF PutTelemetrySessions

(* The second write ends the request, one way or the other. *)
LEMMA SnapshotKeeps ==
    ASSUME TypeOK, IngestInv, NEW h \in Handlers, PutSnapshot(h)
    PROVE  IngestInv'
<1>1. CASE WriteFails(h)
  BY <1>1, AnswerKeeps DEF WriteFails
<1>2. CASE /\ Answer(h, TRUE)
           /\ UNCHANGED <<up, sessions, mutex, stored, faults, stops>>
  BY <1>2, AnswerKeeps DEF PutSnapshot
<1> QED
  BY <1>1, <1>2 DEF PutSnapshot

(* A stop ends all requests and leaves the database. *)
LEMMA StopKeeps == ASSUME TypeOK, IngestInv, Stop PROVE IngestInv'
<1> USE DEF IngestInv
<1>1. /\ \A h \in Handlers : /\ handlers'[h].pc = "idle"
                            /\ handlers'[h].copy = NoCopy
      /\ sessions' = NoCopy
      /\ stops' = stops + 1 /\ stops' # 0
      /\ ~ up'
      /\ UNCHANGED <<stored, answered, alone>>
  <2>1. IdleHandler.pc = "idle" /\ IdleHandler.copy = NoCopy
    BY DEF IdleHandler
  <2>2. stops + 1 # 0
    BY TelemetryAssumption DEF TypeOK
  <2> QED
    BY <2>1, <2>2 DEF Stop, history
<1>2. NothingIsForged'
  BY <1>1, NothingInNoCopy DEF NothingIsForged
<1>3. WorkIsKept' /\ DownIsIdle' /\ AnswersAreCounted'
  BY <1>1 DEF WorkIsKept, Kept, DownIsIdle, AnswersAreCounted
<1>4. AloneInv'
  BY <1>1 DEF AloneInv, HasBatch, Counts
<1> QED
  BY <1>2, <1>3, <1>4

(* A start reads the database back. *)
LEMMA NewKeeps == ASSUME TypeOK, IngestInv, New PROVE IngestInv'
<1> USE DEF IngestInv
<1>1. /\ \A h \in Handlers : handlers'[h].pc = "idle"
      /\ sessions' = stored
      /\ stops # 0
      /\ up'
      /\ UNCHANGED <<handlers, stored, answered, stops, alone>>
  BY DEF New, DownIsIdle, history
<1>2. NothingIsForged'
  BY <1>1 DEF NothingIsForged
<1>3. WorkIsKept' /\ DownIsIdle' /\ AnswersAreCounted'
  BY <1>1 DEF WorkIsKept, Kept, DownIsIdle, AnswersAreCounted
<1>4. AloneInv'
  BY <1>1 DEF AloneInv, HasBatch, Covers, Counts
<1> QED
  BY <1>2, <1>3, <1>4

(* Every step keeps the invariant. *)
LEMMA NextIngestInv == TypeOK /\ IngestInv /\ [Next]_vars => IngestInv'
<1> SUFFICES ASSUME TypeOK, IngestInv, [Next]_vars PROVE IngestInv'
  OBVIOUS
<1>1. ASSUME NEW x \in Exporters, TimeOut(x) \/ Drop(x) PROVE IngestInv'
  BY <1>1, SameIngest DEF TimeOut, Drop, history
<1>2. CASE UNCHANGED vars
  BY <1>2, SameIngest DEF vars, history
<1> QED
  BY <1>1, <1>2, ReceiveKeeps, LockKeeps, MergeEventKeeps, UnlockKeeps, PutKeeps,
     SnapshotKeeps, StopKeeps, NewKeeps DEF Next, Serve

(* What was answered with 200 is in the database, through failing writes,  *)
(* timeouts, repeated batches and restarts, as long as IngestTelemetry     *)
(* serves one request at a time.                                           *)
THEOREM AnsweredIsDurable == Spec => []AnsweredAloneIsStored
<1>1. Init => TypeOK /\ IngestInv
  BY InitTypeOK, InitIngestInv
<1>2. TypeOK /\ IngestInv /\ [Next]_vars => (TypeOK /\ IngestInv)'
  BY NextTypeOK, NextIngestInv
<1>3. TypeOK /\ IngestInv => AnsweredAloneIsStored
  BY DEF IngestInv, AloneInv, HasBatch, AnsweredAloneIsStored,
         AnsweredIsStored, EventsOf
<1> QED
  BY <1>1, <1>2, <1>3, PTL DEF Spec

(* What was answered with 200 since the daemon started is in its counters, *)
(* whatever requests overlap, are given up or come late.                   *)
THEOREM AnsweredCounts == Spec => []AnsweredIsCounted
<1>1. Init => TypeOK /\ IngestInv
  BY InitTypeOK, InitIngestInv
<1>2. TypeOK /\ IngestInv /\ [Next]_vars => (TypeOK /\ IngestInv)'
  BY NextTypeOK, NextIngestInv
<1>3. TypeOK /\ IngestInv => AnsweredIsCounted
  BY DEF IngestInv, AnswersAreCounted, HasBatch, AnsweredIsCounted, EventsOf
<1> QED
  BY <1>1, <1>2, <1>3, PTL DEF Spec

-----------------------------------------------------------------------------
(* What is counted once *)

AddedOnce(session) == \A e \in Events : session.added[e] <= 1

(* The places in a batch of the events that were added. *)
AddedOf(session, x, b) ==
    {i \in 1 .. BatchSize : session.added[EventOf(x, b, i)] >= 1}

(* No event of a later batch was added. *)
NoneAfter(session, x, b) ==
    \A c \in Batches, i \in 1 .. BatchSize :
        c > b => session.added[EventOf(x, c, i)] = 0

(* The events of the batch that were added are among the last t            *)
(* fingerprints, that is, as many as were added and as others pushed.      *)
Remembers(session, x, b, others) ==
    \E t \in 0 .. Len(session.recent) :
        /\ t <= Cardinality(AddedOf(session, x, b)) + others
        /\ \A i \in AddedOf(session, x, b) :
              \E j \in 1 .. Len(session.recent) :
                  /\ j > Len(session.recent) - t
                  /\ session.recent[j] = FingerprintOf[EventOf(x, b, i)]

(* Counters that can take the current batch of every exporter that the     *)
(* window has room for, after what others pushed.                          *)
Ready(counters, current, others) ==
    /\ \A s \in Sessions : AddedOnce(counters[s])
    /\ \A x \in Exporters :
          LET session == counters[SessionOf[x]]
              b == current[x].batch
          IN  /\ NoneAfter(session, x, b)
              /\ b \in Batches /\ others[x] + BatchSize <= Window
                    => Remembers(session, x, b, others[x])

(* Who merges holds the lock. *)
MergingIsLocked ==
    \A h \in Handlers : handlers[h].pc = "merge" => mutex = {h}

(* No request is for a batch that its exporter is not at yet. *)
NobodyIsAhead ==
    \A h \in Handlers : handlers[h].pc # "idle" =>
        handlers[h].batch <= exporters[handlers[h].exporter].batch

(* An exporter that waits for an answer waits for its current batch. *)
WaitsForItsBatch ==
    \A x \in Exporters, h \in Handlers : exporters[x].by = {h} =>
        /\ handlers[h].pc # "idle"
        /\ handlers[h].exporter = x
        /\ handlers[h].batch = exporters[x].batch

(* All counters there are, in memory, on disk and in the copies. *)
AllAreReady ==
    /\ Ready(sessions, exporters, pushed)
    /\ Ready(stored, exporters, pushed)
    /\ \A h \in Handlers : Ready(handlers[h].copy, exporters, pushed)

(* What is being merged is remembered and the last so far, its exporter    *)
(* still at it or not.                                                     *)
MergesInTime ==
    \A h \in Handlers : handlers[h].pc = "merge" =>
        LET x == handlers[h].exporter
            b == handlers[h].batch
        IN  /\ BatchSize <= Window
            /\ NoneAfter(sessions[SessionOf[x]], x, b)
            /\ Remembers(sessions[SessionOf[x]], x, b, Window - BatchSize)

OnceInv ==
    /\ MergingIsLocked /\ NobodyIsAhead /\ WaitsForItsBatch
    /\ timely => AllAreReady /\ MergesInTime

(* There are at most BatchSize of a batch. *)
LEMMA AddedOfIsFinite ==
    ASSUME NEW session, NEW x, NEW b
    PROVE  /\ IsFiniteSet(AddedOf(session, x, b))
           /\ Cardinality(AddedOf(session, x, b)) \in Nat
           /\ Cardinality(AddedOf(session, x, b)) <= BatchSize
<1>1. BatchSize \in Nat
  BY TelemetryAssumption
<1>2. IsFiniteSet(1 .. BatchSize) /\ Cardinality(1 .. BatchSize) = BatchSize
  BY <1>1, FS_Interval
<1>3. AddedOf(session, x, b) \subseteq 1 .. BatchSize
  BY DEF AddedOf
<1> QED
  BY <1>2, <1>3, FS_Subset, FS_CardinalityType

(* The last t fingerprints are among the last t + 1 after one more. *)
LEMMA PushedKeeps ==
    ASSUME NEW recent \in Seq(Fingerprints), NEW f \in Fingerprints,
           NEW t \in 0 .. Len(recent), t + 1 <= Window
    PROVE  LET r == Pushed(recent, f)
           IN  /\ Len(r) \in Nat /\ t + 1 <= Len(r)
               /\ Len(r) \in 1 .. Len(r) /\ r[Len(r)] = f
               /\ \A j \in 1 .. Len(recent) : j > Len(recent) - t =>
                     \E k \in 1 .. Len(r) : /\ k > Len(r) - (t + 1)
                                            /\ r[k] = recent[j]
<1> DEFINE r == Pushed(recent, f)
<1>1. /\ Len(r) = IF Len(recent) + 1 > Window THEN Window ELSE Len(recent) + 1
      /\ Len(r) \in Nat /\ Len(r) <= Len(recent) + 1
      /\ \A i \in 1 .. Len(r) :
            r[i] = IF i = Len(r) THEN f
                   ELSE recent[i + (Len(recent) + 1 - Len(r))]
  BY TruncatedAppend
<1> HIDE DEF r
<1>2. Len(recent) \in Nat /\ Window \in Nat /\ t \in Nat /\ t <= Len(recent)
  BY TelemetryAssumption
<1>3. t + 1 <= Len(r)
  BY <1>1, <1>2
<1>4. Len(r) \in 1 .. Len(r)
  BY <1>1, <1>2, <1>3
<1>5. ASSUME NEW j \in 1 .. Len(recent), j > Len(recent) - t
      PROVE  \E k \in 1 .. Len(r) : k > Len(r) - (t + 1) /\ r[k] = recent[j]
  <2> DEFINE all == Len(recent)
             kept == Len(r)
             k == j - (all + 1 - kept)
  <2>0. all \in Nat /\ kept \in Nat /\ j \in 1 .. all
    BY <1>1, <1>2
  <2>1. /\ j \in Int /\ j <= Len(recent) /\ k \in Int
        /\ k + (Len(recent) + 1 - Len(r)) = j
    <3> HIDE DEF all, kept
    <3>1. j \in Int /\ j <= all /\ k \in Int /\ k + (all + 1 - kept) = j
      BY <2>0
    <3> QED
      BY <3>1 DEF all, kept
  <2>2. k > Len(r) - (t + 1) /\ k < Len(r) /\ k >= 1
    BY <1>1, <1>2, <1>3, <1>5, <2>1
  <2>3. k \in 1 .. Len(r) /\ k # Len(r)
    BY <1>1, <2>1, <2>2
  <2> HIDE DEF k
  <2>4. r[k] = recent[j]
    BY <1>1, <2>1, <2>3
  <2> QED
    BY <2>2, <2>3, <2>4
<1> QED
  BY <1>1, <1>3, <1>4, <1>5 DEF r

(* Adding an event of the batch: it is new only if it was not added, and   *)
(* is remembered then.                                                     *)
LEMMA RemembersOwn ==
    ASSUME NEW session \in TelemetrySession, NEW x \in Exporters,
           NEW b \in Batches, NEW n \in 1 .. BatchSize,
           NEW others \in Nat, others + BatchSize <= Window,
           Remembers(session, x, b, others), AddedOnce(session)
    PROVE  /\ Remembers(Merged(session, EventOf(x, b, n)), x, b, others)
           /\ AddedOnce(Merged(session, EventOf(x, b, n)))
<1> DEFINE e == EventOf(x, b, n)
           m == Merged(session, e)
           old == AddedOf(session, x, b)
<1>1. CASE IsKnown(session, e)
  BY <1>1 DEF Merged
<1>2. CASE ~ IsKnown(session, e)
  <2>1. /\ e \in Events /\ FingerprintOf[e] \in Fingerprints
        /\ session.added \in [Events -> Nat]
        /\ session.recent \in Seq(Fingerprints)
        /\ BatchSize \in Nat /\ Window \in Nat
    BY EventType, TelemetryAssumption DEF TelemetrySession
  <2>2. PICK t \in 0 .. Len(session.recent) :
          /\ t <= Cardinality(old) + others
          /\ \A i \in old : \E j \in 1 .. Len(session.recent) :
                /\ j > Len(session.recent) - t
                /\ session.recent[j] = FingerprintOf[EventOf(x, b, i)]
    BY Zenon DEF Remembers
  <2>3. n \notin old
    <3>1. DOMAIN session.recent = 1 .. Len(session.recent)
      BY <2>1
    <3> QED
      BY <1>2, <2>2, <3>1 DEF IsKnown
  <2>4. session.added[e] = 0
    BY <2>1, <2>3 DEF AddedOf
  <2>5. /\ \A f \in Events : f # e => m.added[f] = session.added[f]
        /\ m.added[e] = 1
        /\ m.recent = Pushed(session.recent, FingerprintOf[e])
    BY <1>2, <2>1, <2>4, MergedType
  <2>6. \A i \in 1 .. BatchSize : /\ EventOf(x, b, i) \in Events
                                  /\ i # n => EventOf(x, b, i) # e
    BY EventType, EventsDiffer
  <2> HIDE DEF m, e, old
  <2>7. AddedOnce(m)
    BY <2>5 DEF AddedOnce
  <2>8. AddedOf(m, x, b) = old \cup {n}
    BY <2>1, <2>4, <2>5, <2>6 DEF AddedOf, old, e
  <2>9. Cardinality(AddedOf(m, x, b)) = Cardinality(old) + 1
    BY <2>3, <2>8, AddedOfIsFinite, FS_AddElement DEF old
  <2>10. t + 1 <= Window /\ Cardinality(old) \in Nat
    BY <2>1, <2>2, <2>9, AddedOfIsFinite DEF old
  <2> DEFINE r == Pushed(session.recent, FingerprintOf[e])
  <2>11. /\ Len(r) \in Nat /\ t + 1 <= Len(r)
         /\ Len(r) \in 1 .. Len(r) /\ r[Len(r)] = FingerprintOf[e]
         /\ \A j \in 1 .. Len(session.recent) : j > Len(session.recent) - t =>
               \E k \in 1 .. Len(r) : /\ k > Len(r) - (t + 1)
                                      /\ r[k] = session.recent[j]
    BY <2>1, <2>10, PushedKeeps
  <2> HIDE DEF r
  <2>12. t + 1 \in 0 .. Len(r) /\ Len(r) > Len(r) - (t + 1)
    BY <2>11
  <2>13. ASSUME NEW i \in AddedOf(m, x, b)
         PROVE  \E k \in 1 .. Len(r) : /\ k > Len(r) - (t + 1)
                                       /\ r[k] = FingerprintOf[EventOf(x, b, i)]
    <3>1. CASE i = n
      BY <2>11, <2>12, <3>1 DEF e
    <3>2. CASE i # n
      <4>1. PICK j \in 1 .. Len(session.recent) :
              /\ j > Len(session.recent) - t
              /\ session.recent[j] = FingerprintOf[EventOf(x, b, i)]
        BY <2>2, <2>8, <3>2
      <4> QED
        BY <2>11, <4>1
    <3> QED
      BY <3>1, <3>2
  <2>14. t + 1 <= Cardinality(AddedOf(m, x, b)) + others
    BY <2>2, <2>9, <2>10
  <2>15. Remembers(m, x, b, others)
    <3>1. m.recent = r
      BY <2>5 DEF r
    <3> QED
      BY <2>12, <2>13, <2>14, <3>1 DEF Remembers
  <2> QED
    BY <2>7, <2>15 DEF m, e
<1> QED
  BY <1>1, <1>2

(* Adding an event of another batch pushes the batch by one at most. *)
LEMMA RemembersOther ==
    ASSUME NEW session \in TelemetrySession, NEW x \in Exporters,
           NEW b \in Batches, NEW e \in Events, ~ IsKnown(session, e),
           \A i \in 1 .. BatchSize : EventOf(x, b, i) # e,
           NEW others \in Nat, others + 1 + BatchSize <= Window,
           Remembers(session, x, b, others)
    PROVE  Remembers(Merged(session, e), x, b, others + 1)
<1> DEFINE m == Merged(session, e)
           old == AddedOf(session, x, b)
           r == Pushed(session.recent, FingerprintOf[e])
<1>1. /\ FingerprintOf[e] \in Fingerprints
      /\ session.recent \in Seq(Fingerprints)
      /\ BatchSize \in Nat /\ Window \in Nat
  BY TelemetryAssumption DEF TelemetrySession
<1>2. PICK t \in 0 .. Len(session.recent) :
        /\ t <= Cardinality(old) + others
        /\ \A i \in old : \E j \in 1 .. Len(session.recent) :
              /\ j > Len(session.recent) - t
              /\ session.recent[j] = FingerprintOf[EventOf(x, b, i)]
  BY Zenon DEF Remembers
<1>3. /\ \A f \in Events : f # e => m.added[f] = session.added[f]
      /\ m.recent = r
  BY MergedType
<1> HIDE DEF m, old
<1>4. AddedOf(m, x, b) = old
  BY <1>3, EventType DEF AddedOf, old
<1>5. t + 1 <= Window /\ Cardinality(old) \in Nat
  BY <1>1, <1>2, AddedOfIsFinite DEF old
<1>6. /\ Len(r) \in Nat /\ t + 1 <= Len(r)
      /\ \A j \in 1 .. Len(session.recent) : j > Len(session.recent) - t =>
            \E k \in 1 .. Len(r) : /\ k > Len(r) - (t + 1)
                                   /\ r[k] = session.recent[j]
  BY <1>1, <1>5, PushedKeeps
<1> HIDE DEF r
<1>7. /\ t + 1 \in 0 .. Len(r)
      /\ t + 1 <= Cardinality(AddedOf(m, x, b)) + (others + 1)
  BY <1>2, <1>4, <1>5, <1>6
<1>8. ASSUME NEW i \in AddedOf(m, x, b)
      PROVE  \E k \in 1 .. Len(r) : /\ k > Len(r) - (t + 1)
                                    /\ r[k] = FingerprintOf[EventOf(x, b, i)]
  <2>1. PICK j \in 1 .. Len(session.recent) :
          /\ j > Len(session.recent) - t
          /\ session.recent[j] = FingerprintOf[EventOf(x, b, i)]
    BY <1>2, <1>4
  <2> QED
    BY <1>6, <2>1
<1>9. Remembers(m, x, b, others + 1)
  BY <1>3, <1>7, <1>8 DEF Remembers
<1> QED
  BY <1>9 DEF m

(* What is remembered after few is remembered after more. *)
LEMMA RemembersMore ==
    ASSUME NEW session, NEW x, NEW b, NEW few \in Nat, NEW more \in Nat,
           few <= more, Remembers(session, x, b, few)
    PROVE  Remembers(session, x, b, more)
<1> DEFINE c == Cardinality(AddedOf(session, x, b))
<1>1. c \in Nat
  BY AddedOfIsFinite
<1>2. PICK t \in 0 .. Len(session.recent) :
        /\ t <= c + few
        /\ \A i \in AddedOf(session, x, b) :
              \E j \in 1 .. Len(session.recent) :
                  /\ j > Len(session.recent) - t
                  /\ session.recent[j] = FingerprintOf[EventOf(x, b, i)]
  BY Zenon DEF Remembers
<1>3. t <= c + more
  <2>1. t \in Int
    OBVIOUS
  <2> HIDE DEF c
  <2> QED
    BY <1>1, <1>2, <2>1
<1> QED
  BY <1>2, <1>3 DEF Remembers

(* A batch none of which was added has nothing to be remembered. *)
LEMMA RemembersNone ==
    ASSUME NEW session \in TelemetrySession, NEW x, NEW b, NEW others \in Nat,
           AddedOf(session, x, b) = {}
    PROVE  Remembers(session, x, b, others)
<1>1. Len(session.recent) \in Nat
  BY DEF TelemetrySession
<1>2. 0 \in 0 .. Len(session.recent)
  BY <1>1
<1>3. Cardinality(AddedOf(session, x, b)) = 0
  BY FS_EmptySet
<1> QED
  BY <1>2, <1>3 DEF Remembers

(* A later batch is one none of which was added. *)
LEMMA LaterIsNew ==
    ASSUME NEW session, NEW x, NEW b, NEW c \in Batches, c > b,
           NoneAfter(session, x, b)
    PROVE  AddedOf(session, x, c) = {}
BY DEF NoneAfter, AddedOf

(* Counters that are ready stay so as exporters go on and others push. *)
LEMMA ReadyLater ==
    ASSUME NEW counters \in [Sessions -> TelemetrySession],
           NEW current, NEW later,
           NEW few \in [Exporters -> Nat], NEW more \in [Exporters -> Nat],
           Ready(counters, current, few),
           \A x \in Exporters :
              /\ current[x].batch \in Nat /\ later[x].batch \in Nat
              /\ current[x].batch <= later[x].batch
              /\ current[x].batch = later[x].batch => few[x] <= more[x]
    PROVE  Ready(counters, later, more)
<1> SUFFICES ASSUME NEW x \in Exporters
             PROVE  LET session == counters[SessionOf[x]]
                        b == later[x].batch
                    IN  /\ NoneAfter(session, x, b)
                        /\ b \in Batches /\ more[x] + BatchSize <= Window
                              => Remembers(session, x, b, more[x])
  BY DEF Ready
<1> DEFINE session == counters[SessionOf[x]]
           b == current[x].batch
           c == later[x].batch
<1>1. /\ session \in TelemetrySession /\ few[x] \in Nat /\ more[x] \in Nat
      /\ b \in Nat /\ c \in Nat /\ b <= c /\ (b = c => few[x] <= more[x])
      /\ BatchSize \in Nat /\ Window \in Nat
  BY TelemetryAssumption
<1>2. /\ NoneAfter(session, x, b)
      /\ b \in Batches /\ few[x] + BatchSize <= Window
            => Remembers(session, x, b, few[x])
  BY DEF Ready
<1> HIDE DEF session, b, c
<1>3. NoneAfter(session, x, c)
  BY <1>1, <1>2 DEF NoneAfter, Batches
<1>4. ASSUME c \in Batches, more[x] + BatchSize <= Window
      PROVE  Remembers(session, x, c, more[x])
  <2>1. CASE b = c
    <3>1. few[x] + BatchSize <= Window
      BY <1>1, <1>4, <2>1
    <3> QED
      BY <1>1, <1>2, <1>4, <2>1, <3>1, RemembersMore
  <2>2. CASE b # c
    <3>1. c > b
      BY <1>1, <2>2
    <3>2. AddedOf(session, x, c) = {}
      BY <1>2, <1>4, <3>1, LaterIsNew
    <3> QED
      BY <1>1, <3>2, RemembersNone
  <2> QED
    BY <2>1, <2>2
<1> QED
  BY <1>3, <1>4 DEF session, c

(* Empty counters can take any batch. *)
LEMMA NoCopyIsReady ==
    ASSUME NEW current, NEW others \in [Exporters -> Nat]
    PROVE  Ready(NoCopy, current, others)
<1>1. \A f \in Events : NewSession.added[f] = 0
  BY DEF NewSession
<1>2. \A s \in Sessions : NoCopy[s] = NewSession
  BY DEF NoCopy
<1>3. \A x \in Exporters : NoCopy[SessionOf[x]] = NewSession
  BY <1>2, TelemetryAssumption
<1>4. AddedOnce(NewSession)
  BY <1>1 DEF AddedOnce
<1>5. ASSUME NEW x \in Exporters
      PROVE  /\ NoneAfter(NewSession, x, current[x].batch)
             /\ current[x].batch \in Batches
                   => Remembers(NewSession, x, current[x].batch, others[x])
  <2>1. \A b \in Batches, i \in 1 .. BatchSize :
           NewSession.added[EventOf(x, b, i)] = 0
    BY <1>1, EventType
  <2>2. \A b \in Batches : AddedOf(NewSession, x, b) = {}
    BY <2>1 DEF AddedOf
  <2> QED
    BY <2>1, <2>2, IdleTypes, RemembersNone DEF NoneAfter
<1> QED
  BY <1>2, <1>3, <1>4, <1>5 DEF Ready

(* Initially nothing is counted and nobody is served. *)
LEMMA InitOnceInv == Init => OnceInv
<1> SUFFICES ASSUME Init PROVE OnceInv
  OBVIOUS
<1>1. IdleHandler.pc = "idle" /\ IdleHandler.copy = NoCopy
  BY DEF IdleHandler
<1>2. \A h \in Handlers : handlers[h].pc = "idle" /\ handlers[h].copy = NoCopy
  BY <1>1 DEF Init
<1>3. Ready(NoCopy, exporters, pushed)
  <2>1. pushed \in [Exporters -> Nat]
    BY DEF Init
  <2> QED
    BY <2>1, NoCopyIsReady
<1>4. MergingIsLocked /\ NobodyIsAhead /\ WaitsForItsBatch
  BY <1>2 DEF Init, MergingIsLocked, NobodyIsAhead, WaitsForItsBatch
<1>5. AllAreReady
  BY <1>2, <1>3 DEF Init, AllAreReady
<1>6. MergesInTime
  BY <1>2 DEF MergesInTime
<1> QED
  BY <1>4, <1>5, <1>6 DEF OnceInv

(* Steps that leave the counters, the lock and the merging handler alone:  *)
(* what is left to show is that exporters only go forward and others only  *)
(* push more, and who waits for whom.                                      *)
LEMMA RestKeepsOnce ==
    ASSUME TypeOK, TypeOK', OnceInv, UNCHANGED <<sessions, mutex, timely>>,
           \A h \in Handlers :
              handlers'[h].pc = "merge" => handlers'[h] = handlers[h],
           \A x \in Exporters :
              /\ exporters[x].batch <= exporters'[x].batch
              /\ \/ pushed'[x] = pushed[x]
                 \/ exporters[x].batch # exporters'[x].batch,
           \/ stored' = stored
           \/ \E h \in Handlers : stored' = handlers[h].copy,
           \A h \in Handlers : \/ handlers'[h].copy = handlers[h].copy
                              \/ handlers'[h].copy = NoCopy,
           NobodyIsAhead', WaitsForItsBatch'
    PROVE  OnceInv'
<1> USE DEF OnceInv
<1>1. \A x \in Exporters : /\ exporters[x].batch \in Nat
                          /\ exporters'[x].batch \in Nat
  BY Fields DEF TypeOK, Exporter
<1>2. MergingIsLocked'
  BY DEF MergingIsLocked
<1>3. /\ pushed \in [Exporters -> Nat] /\ pushed' \in [Exporters -> Nat]
      /\ \A x \in Exporters : exporters[x].batch = exporters'[x].batch
                                 => pushed[x] <= pushed'[x]
  BY DEF TypeOK
<1>4. ASSUME NEW counters \in [Sessions -> TelemetrySession],
             Ready(counters, exporters, pushed)
      PROVE  Ready(counters, exporters', pushed')
  BY <1>1, <1>3, <1>4, ReadyLater
<1>5. AllAreReady => AllAreReady'
  <2> SUFFICES ASSUME AllAreReady PROVE AllAreReady'
    OBVIOUS
  <2>1. /\ stored \in [Sessions -> TelemetrySession]
        /\ sessions \in [Sessions -> TelemetrySession]
        /\ \A h \in Handlers : handlers[h].copy \in [Sessions -> TelemetrySession]
    BY Fields DEF TypeOK
  <2>2. /\ Ready(stored, exporters', pushed')
        /\ Ready(sessions, exporters', pushed')
        /\ \A h \in Handlers : Ready(handlers[h].copy, exporters', pushed')
    BY <1>4, <2>1 DEF AllAreReady
  <2>3. Ready(NoCopy, exporters', pushed')
    BY <1>3, NoCopyIsReady
  <2> QED
    BY <2>2, <2>3 DEF AllAreReady
<1>6. MergesInTime => MergesInTime'
  BY DEF MergesInTime
<1> QED
  BY <1>2, <1>5, <1>6

(* An exporter that gives up or drops a batch waits for nobody. *)
LEMMA ExporterKeepsOnce ==
    ASSUME TypeOK, TypeOK', OnceInv, NEW x \in Exporters, TimeOut(x) \/ Drop(x)
    PROVE  OnceInv'
<1>1. UNCHANGED <<sessions, mutex, handlers, stored, timely>>
  BY DEF TimeOut, Drop, history
<1>2. /\ \A y \in Exporters : y # x => /\ exporters'[y] = exporters[y]
                                       /\ pushed'[y] = pushed[y]
      /\ exporters'[x].by = {}
      /\ \/ exporters'[x].batch = exporters[x].batch /\ pushed'[x] = pushed[x]
         \/ exporters'[x].batch = exporters[x].batch + 1
  BY DEF TimeOut, Drop, TypeOK, Exporter, history
<1>3. \A y \in Exporters : exporters[y].batch \in Nat
  BY Fields
<1>4. \A y \in Exporters :
         /\ exporters[y].batch <= exporters'[y].batch
         /\ \/ pushed'[y] = pushed[y]
            \/ exporters[y].batch # exporters'[y].batch
  BY <1>2, <1>3
<1>5. WaitsForItsBatch'
  BY <1>1, <1>2 DEF OnceInv, WaitsForItsBatch
<1>6. NobodyIsAhead'
  <2>1. ASSUME NEW h \in Handlers, handlers[h].pc # "idle"
        PROVE  handlers[h].batch <= exporters'[handlers[h].exporter].batch
    <3>1. /\ handlers[h].exporter \in Exporters /\ handlers[h].batch \in Nat
          /\ handlers[h].batch <= exporters[handlers[h].exporter].batch
      BY <2>1, Fields DEF OnceInv, NobodyIsAhead, Batches
    <3> QED
      BY <1>2, <1>3, <3>1
  <2> QED
    BY <1>1, <2>1 DEF NobodyIsAhead
<1> QED
  BY <1>1, <1>4, <1>5, <1>6, RestKeepsOnce

(* A request is received for the batch its exporter is at. *)
LEMMA ReceiveKeepsOnce ==
    ASSUME TypeOK, TypeOK', OnceInv, NEW h \in Handlers, NEW x \in Exporters,
           Receive(h, x)
    PROVE  OnceInv'
<1>1. /\ \A g \in Handlers : g # h => handlers'[g] = handlers[g]
      /\ handlers[h].pc = "idle"
      /\ handlers'[h].pc = "waiting"
      /\ handlers'[h].exporter = x
      /\ handlers'[h].batch = exporters[x].batch
      /\ handlers'[h].copy = NoCopy
  BY DEF Receive, IdleHandler, TypeOK
<1>2. /\ UNCHANGED <<sessions, mutex, stored, pushed, timely>>
      /\ \A y \in Exporters : y # x => exporters'[y] = exporters[y]
      /\ exporters'[x].batch = exporters[x].batch
      /\ exporters'[x].by = {h}
  BY DEF Receive, TypeOK, Exporter
<1>3. \A y \in Exporters : /\ exporters'[y].batch = exporters[y].batch
                          /\ exporters[y].batch \in Nat
  BY <1>2, Fields
<1>4. NobodyIsAhead'
  <2>1. \A g \in Handlers : handlers[g].exporter \in Exporters
    BY Fields
  <2> QED
    BY <1>1, <1>3, <2>1 DEF OnceInv, NobodyIsAhead
<1>5. WaitsForItsBatch'
  BY <1>1, <1>2 DEF OnceInv, WaitsForItsBatch
<1>6. \A y \in Exporters :
         /\ exporters[y].batch <= exporters'[y].batch
         /\ \/ pushed'[y] = pushed[y]
            \/ exporters[y].batch # exporters'[y].batch
  BY <1>2, <1>3
<1> QED
  BY <1>1, <1>2, <1>4, <1>5, <1>6, RestKeepsOnce

(* An answer moves the exporter on at most, never back. *)
LEMMA AnswerKeepsOnce ==
    ASSUME TypeOK, TypeOK', OnceInv, NEW h \in Handlers, NEW ok \in BOOLEAN,
           Answer(h, ok), UNCHANGED <<sessions, mutex, stored>>
    PROVE  OnceInv'
<1> DEFINE x == handlers[h].exporter
           b == handlers[h].batch
<1>1. /\ x \in Exporters /\ b \in Nat
      /\ \A y \in Exporters : exporters[y].batch \in Nat
  BY Fields DEF Batches
<1>2. /\ \A g \in Handlers : g # h => handlers'[g] = handlers[g]
      /\ handlers'[h].pc = "idle"
      /\ handlers'[h].copy = NoCopy
  <2>1. handlers' = [handlers EXCEPT ![h] = IdleHandler]
    BY DEF Answer
  <2>2. IdleHandler.pc = "idle" /\ IdleHandler.copy = NoCopy
    BY DEF IdleHandler
  <2> QED
    BY <2>1, <2>2 DEF TypeOK
<1>3. /\ \A y \in Exporters : y # x => /\ exporters'[y] = exporters[y]
                                       /\ pushed'[y] = pushed[y]
      /\ exporters[x].by # {h} => /\ exporters'[x] = exporters[x]
                                 /\ pushed'[x] = pushed[x]
      /\ exporters[x].by = {h} => /\ exporters'[x].by = {}
                                 /\ \/ /\ exporters'[x].batch = b
                                       /\ pushed'[x] = pushed[x]
                                    \/ exporters'[x].batch = b + 1
  <2>1. CASE exporters[x].by = {h}
    <3> DEFINE new == [batch |-> IF ok THEN b + 1 ELSE b, by |-> {}]
    <3>1. /\ exporters' = [exporters EXCEPT ![x] = new]
          /\ pushed' = IF ok THEN [pushed EXCEPT ![x] = 0] ELSE pushed
      BY <2>1 DEF Answer
    <3>2. new.by = {}
      OBVIOUS
    <3>3. \/ new.batch = b /\ pushed'[x] = pushed[x]
          \/ new.batch = b + 1
      <4>1. CASE ok
        BY <4>1
      <4>2. CASE ~ ok
        BY <3>1, <4>2
      <4> QED
        BY <4>1, <4>2
    <3> HIDE DEF new
    <3>4. /\ exporters'[x] = new
          /\ \A y \in Exporters : y # x => exporters'[y] = exporters[y]
      BY <1>1, <3>1 DEF TypeOK
    <3>5. \A y \in Exporters : y # x => pushed'[y] = pushed[y]
      BY <3>1 DEF TypeOK
    <3> QED
      BY <2>1, <3>2, <3>3, <3>4, <3>5
  <2>2. CASE exporters[x].by # {h}
    BY <2>2 DEF Answer
  <2> QED
    BY <2>1, <2>2
<1>4. \A y \in Exporters : exporters[y].by = {h} =>
         y = x /\ exporters[y].batch = b
  BY DEF OnceInv, WaitsForItsBatch
<1>5. UNCHANGED timely
  BY DEF Answer
<1> HIDE DEF x, b
<1>6. \A y \in Exporters :
         /\ exporters[y].batch <= exporters'[y].batch
         /\ \/ pushed'[y] = pushed[y]
            \/ exporters[y].batch # exporters'[y].batch
  <2>1. ASSUME NEW y \in Exporters
        PROVE  \/ exporters'[y].batch = exporters[y].batch
                     /\ pushed'[y] = pushed[y]
               \/ exporters'[y].batch = exporters[y].batch + 1
    <3>1. CASE y = x /\ exporters[x].by = {h}
      BY <1>1, <1>3, <1>4, <3>1
    <3>2. CASE ~ (y = x /\ exporters[x].by = {h})
      BY <1>3, <3>2
    <3> QED
      BY <3>1, <3>2
  <2> QED
    BY <1>1, <2>1
<1>7. WaitsForItsBatch'
  <2> SUFFICES ASSUME NEW y \in Exporters, NEW g \in Handlers,
                      exporters'[y].by = {g}
               PROVE  /\ handlers'[g].pc # "idle"
                      /\ handlers'[g].exporter = y
                      /\ handlers'[g].batch = exporters'[y].batch
    BY DEF WaitsForItsBatch
  <2>1. exporters'[y] = exporters[y] /\ exporters[y].by # {h}
    BY <1>3, <1>4
  <2>2. g # h
    BY <2>1
  <2> QED
    BY <1>2, <2>1, <2>2 DEF OnceInv, WaitsForItsBatch
<1>8. NobodyIsAhead'
  <2>1. ASSUME NEW g \in Handlers, g # h, handlers[g].pc # "idle"
        PROVE  handlers[g].batch <= exporters'[handlers[g].exporter].batch
    <3> DEFINE y == handlers[g].exporter
    <3>1. /\ y \in Exporters /\ handlers[g].batch \in Nat
          /\ handlers[g].batch <= exporters[y].batch
      BY <2>1, Fields DEF OnceInv, NobodyIsAhead, Batches
    <3>2. exporters[y].batch <= exporters'[y].batch
      BY <1>6, <3>1
    <3>3. exporters'[y].batch \in Nat
      BY <3>1 DEF TypeOK, Exporter
    <3> QED
      BY <1>1, <3>1, <3>2, <3>3
  <2> QED
    BY <1>2, <2>1 DEF NobodyIsAhead
<1> QED
  BY <1>2, <1>5, <1>6, <1>7, <1>8, RestKeepsOnce

(* A copy that is written makes the database as ready as the copy was. *)
LEMMA PutKeepsOnce ==
    ASSUME TypeOK, TypeOK', OnceInv, NEW h \in Handlers,
           PutTelemetrySessions(h)
    PROVE  OnceInv'
<1>1. CASE WriteFails(h)
  BY <1>1, AnswerKeepsOnce DEF WriteFails
<1>2. CASE /\ stored' = handlers[h].copy
           /\ handlers' = [handlers EXCEPT ![h].pc = "snapshot",
                                           ![h].copy = NoCopy]
           /\ UNCHANGED <<up, sessions, mutex, exporters, answered, faults,
                          stops, history>>
  <2>1. /\ \A g \in Handlers : g # h => handlers'[g] = handlers[g]
        /\ handlers[h].pc = "put"
        /\ handlers'[h].pc = "snapshot"
        /\ handlers'[h].exporter = handlers[h].exporter
        /\ handlers'[h].batch = handlers[h].batch
        /\ handlers'[h].copy = NoCopy
        /\ UNCHANGED <<sessions, mutex, exporters, pushed, timely>>
    BY <1>2 DEF PutTelemetrySessions, TypeOK, Handler, history
  <2>2. WaitsForItsBatch' /\ NobodyIsAhead'
    BY <2>1 DEF OnceInv, WaitsForItsBatch, NobodyIsAhead
  <2>3. \A y \in Exporters : exporters[y].batch <= exporters'[y].batch
    BY <2>1, Fields
  <2> QED
    BY <1>2, <2>1, <2>2, <2>3, RestKeepsOnce
<1> QED
  BY <1>1, <1>2 DEF PutTelemetrySessions

(* A request that takes d.mu in time finds its batch remembered. *)
LEMMA LockKeepsOnce ==
    ASSUME TypeOK, TypeOK', OnceInv, NEW h \in Handlers, Lock(h)
    PROVE  OnceInv'
<1> USE DEF OnceInv
<1> DEFINE x == handlers[h].exporter
           b == handlers[h].batch
<1>1. /\ \A g \in Handlers : g # h => handlers'[g] = handlers[g]
      /\ \A g \in Handlers : handlers'[g].copy = handlers[g].copy
      /\ handlers[h].pc = "waiting"
      /\ handlers'[h].pc = "merge"
      /\ handlers'[h].exporter = x
      /\ handlers'[h].batch = b
      /\ mutex = {} /\ mutex' = {h}
      /\ UNCHANGED <<sessions, stored, exporters, pushed>>
  BY DEF Lock, TypeOK, Handler
<1>2. timely' => /\ timely /\ b = exporters[x].batch
                 /\ pushed[x] + BatchSize <= Window
  BY DEF Lock
<1>3. \A g \in Handlers : handlers[g].pc # "merge"
  BY <1>1 DEF MergingIsLocked
<1>4. MergingIsLocked' /\ NobodyIsAhead' /\ WaitsForItsBatch'
  BY <1>1, <1>3 DEF MergingIsLocked, NobodyIsAhead, WaitsForItsBatch
<1>5. ASSUME timely' PROVE AllAreReady'
  BY <1>1, <1>2, <1>5 DEF AllAreReady
<1>6. ASSUME timely' PROVE MergesInTime'
  <2>1. /\ x \in Exporters /\ b \in Batches /\ pushed[x] \in Nat
        /\ BatchSize \in Nat /\ Window \in Nat
    BY Fields, TelemetryAssumption DEF TypeOK
  <2>2. /\ NoneAfter(sessions[SessionOf[x]], x, b)
        /\ Remembers(sessions[SessionOf[x]], x, b, pushed[x])
    BY <1>2, <1>6, <2>1 DEF AllAreReady, Ready
  <2> HIDE DEF x, b
  <2>3. /\ Window - BatchSize \in Nat /\ pushed[x] <= Window - BatchSize
        /\ BatchSize <= Window
    BY <1>2, <1>6, <2>1
  <2>4. Remembers(sessions[SessionOf[x]], x, b, Window - BatchSize)
    BY <2>1, <2>2, <2>3, RemembersMore
  <2>5. \A g \in Handlers : handlers'[g].pc = "merge" => g = h
    BY <1>1, <1>3
  <2> QED
    BY <1>1, <2>2, <2>3, <2>4, <2>5 DEF MergesInTime
<1> QED
  BY <1>4, <1>5, <1>6

(* A round of the merge loop: its own batch stays remembered, the others   *)
(* of its session are pushed by one if the event is new.                   *)
LEMMA MergeEventKeepsReady ==
    ASSUME TypeOK, TypeOK', IngestInv, OnceInv, timely,
           NEW h \in Handlers, MergeEvent(h)
    PROVE  Ready(sessions', exporters, pushed')
<1> USE DEF OnceInv
<1> DEFINE x == handlers[h].exporter
           b == handlers[h].batch
           n == handlers[h].next
           e == EventOf(x, b, n)
           s == SessionOf[x]
           old == sessions[s]
           new == sessions'[s]
<1>1. /\ x \in Exporters /\ b \in Batches /\ n \in 1 .. BatchSize
      /\ s \in Sessions /\ e \in Events
      /\ new = Merged(old, e)
      /\ \A r \in Sessions : r # s => sessions'[r] = sessions[r]
  BY MergeEventStep, Fields DEF IngestInv
<1>2. /\ handlers[h].pc = "merge"
      /\ pushed' = PushedBy(h, e)
  BY DEF MergeEvent
<1>3. /\ old \in TelemetrySession /\ new \in TelemetrySession
      /\ AddedOnce(old)
      /\ Ready(sessions, exporters, pushed)
      /\ BatchSize <= Window
      /\ Remembers(old, x, b, Window - BatchSize)
      /\ NoneAfter(old, x, b)
      /\ b <= exporters[x].batch
  BY <1>1, <1>2 DEF TypeOK, AllAreReady, Ready, MergesInTime, NobodyIsAhead
<1>4. /\ BatchSize \in Nat /\ Window \in Nat /\ Window - BatchSize \in Nat
      /\ (Window - BatchSize) + BatchSize <= Window
      /\ MaxBatches \in Nat /\ b \in Nat
      /\ \A y \in Exporters : /\ pushed[y] \in Nat /\ pushed'[y] \in Nat
                             /\ exporters[y].batch \in Nat
  BY <1>1, <1>3, Fields, TelemetryAssumption DEF TypeOK, Batches
<1>5. \A y \in Exporters : pushed'[y] =
         IF /\ timely /\ exporters[y].batch <= MaxBatches
            /\ y # x /\ SessionOf[y] = s /\ ~ IsKnown(old, e)
         THEN pushed[y] + 1 ELSE pushed[y]
  BY <1>2 DEF PushedBy
<1>6. AddedOnce(new)
  BY <1>1, <1>3, <1>4, RemembersOwn
<1>7. \A y \in Exporters, c \in Batches, i \in 1 .. BatchSize :
         ~ (y = x /\ c = b) =>
            /\ EventOf(y, c, i) \in Events /\ EventOf(y, c, i) # e
            /\ new.added[EventOf(y, c, i)] = old.added[EventOf(y, c, i)]
  <2>1. \A f \in Events : f # e => new.added[f] = old.added[f]
    BY <1>1, <1>3, MergedType
  <2>2. \A y \in Exporters, c \in Batches, i \in 1 .. BatchSize :
           EventOf(y, c, i) = e => y = x /\ c = b
    BY <1>1, EventsDiffer
  <2> HIDE DEF e, new, old
  <2> QED
    BY <2>1, <2>2, EventType
<1> HIDE DEF x, b, n, e, s, old, new
<1>8. ASSUME NEW y \in Exporters
      PROVE  LET session == sessions'[SessionOf[y]]
                 c == exporters[y].batch
             IN  /\ NoneAfter(session, y, c)
                 /\ c \in Batches /\ pushed'[y] + BatchSize <= Window
                       => Remembers(session, y, c, pushed'[y])
  <2> DEFINE c == exporters[y].batch
  <2>1. /\ NoneAfter(sessions[SessionOf[y]], y, c)
        /\ c \in Batches /\ pushed[y] + BatchSize <= Window
              => Remembers(sessions[SessionOf[y]], y, c, pushed[y])
    BY <1>3 DEF Ready
  <2>2. CASE SessionOf[y] # s
    <3>1. SessionOf[y] \in Sessions
      BY TelemetryAssumption
    <3>2. sessions'[SessionOf[y]] = sessions[SessionOf[y]]
      BY <1>1, <2>2, <3>1
    <3>3. pushed'[y] = pushed[y]
      BY <1>5, <2>2
    <3> QED
      BY <2>1, <3>2, <3>3
  <2>3. CASE SessionOf[y] = s
    <3>1. sessions[SessionOf[y]] = old /\ sessions'[SessionOf[y]] = new
      BY <2>3 DEF old, new
    <3>2. NoneAfter(new, y, c)
      <4> SUFFICES ASSUME NEW d \in Batches, NEW i \in 1 .. BatchSize, d > c
                   PROVE  new.added[EventOf(y, d, i)] = 0
        BY DEF NoneAfter
      <4>1. old.added[EventOf(y, d, i)] = 0
        BY <2>1, <3>1 DEF NoneAfter
      <4>2. ~ (y = x /\ d = b)
        BY <1>3, <1>4 DEF Batches
      <4> QED
        BY <1>7, <4>1, <4>2
    <3>3. ASSUME c \in Batches, pushed'[y] + BatchSize <= Window
          PROVE  Remembers(new, y, c, pushed'[y])
      <4>1. CASE y = x /\ c = b
        <5>1. pushed'[y] = pushed[y]
          BY <1>5, <4>1
        <5>2. Remembers(old, x, b, pushed[x])
          BY <2>1, <3>1, <3>3, <4>1, <5>1
        <5>3. Remembers(new, x, b, pushed[x])
          BY <1>1, <1>3, <1>4, <3>3, <4>1, <5>1, <5>2, RemembersOwn DEF e
        <5> QED
          BY <4>1, <5>1, <5>3
      <4>2. CASE y = x /\ c # b
        <5>1. c > b
          BY <1>3, <1>4, <4>2
        <5>3. \A i \in 1 .. BatchSize : new.added[EventOf(y, c, i)] = 0
          <6>1. \A i \in 1 .. BatchSize : old.added[EventOf(y, c, i)] = 0
            BY <1>3, <3>3, <4>2, <5>1 DEF NoneAfter
          <6> QED
            BY <1>7, <3>3, <4>2, <6>1
        <5>4. AddedOf(new, y, c) = {}
          BY <5>3 DEF AddedOf
        <5> QED
          BY <1>3, <1>4, <5>4, RemembersNone
      <4>3. CASE y # x /\ IsKnown(old, e)
        <5>1. pushed'[y] = pushed[y]
          BY <1>5, <4>3
        <5>2. new = old
          BY <1>1, <4>3 DEF Merged
        <5> QED
          BY <2>1, <3>1, <3>3, <5>1, <5>2
      <4>4. CASE y # x /\ ~ IsKnown(old, e)
        <5>1. pushed'[y] = pushed[y] + 1
          BY <1>5, <2>3, <3>3, <4>4 DEF Batches
        <5>2. pushed[y] + 1 + BatchSize <= Window
          BY <3>3, <5>1
        <5>3. Remembers(old, y, c, pushed[y])
          BY <1>4, <2>1, <3>1, <3>3, <5>2
        <5>4. \A i \in 1 .. BatchSize : EventOf(y, c, i) # e
          BY <1>7, <3>3, <4>4
        <5>5. Remembers(Merged(old, e), y, c, pushed[y] + 1)
          BY <1>1, <1>3, <1>4, <3>3, <4>4, <5>2, <5>3, <5>4, RemembersOther
        <5> QED
          BY <1>1, <5>1, <5>5
      <4> QED
        BY <4>1, <4>2, <4>3, <4>4
    <3> QED
      BY <3>1, <3>2, <3>3
  <2> QED
    BY <2>2, <2>3
<1>9. \A r \in Sessions : AddedOnce(sessions'[r])
  BY <1>1, <1>3, <1>6 DEF Ready, new
<1> QED
  BY <1>8, <1>9 DEF Ready

(* So counters that were ready are ready after it. *)
LEMMA MergeEventKeepsOnce ==
    ASSUME TypeOK, TypeOK', IngestInv, OnceInv, NEW h \in Handlers,
           MergeEvent(h)
    PROVE  OnceInv'
<1> USE DEF OnceInv
<1> DEFINE x == handlers[h].exporter
           b == handlers[h].batch
           n == handlers[h].next
           e == EventOf(x, b, n)
           old == sessions[SessionOf[x]]
           new == sessions'[SessionOf[x]]
<1>1. /\ x \in Exporters /\ b \in Batches /\ n \in 1 .. BatchSize
      /\ SessionOf[x] \in Sessions /\ e \in Events
      /\ new = Merged(old, e)
  BY MergeEventStep, Fields DEF IngestInv
<1>2. /\ \A g \in Handlers : g # h => handlers'[g] = handlers[g]
      /\ \A g \in Handlers : /\ handlers'[g].pc = handlers[g].pc
                            /\ handlers'[g].exporter = handlers[g].exporter
                            /\ handlers'[g].batch = handlers[g].batch
                            /\ handlers'[g].copy = handlers[g].copy
      /\ handlers[h].pc = "merge"
      /\ UNCHANGED <<mutex, stored, exporters, timely>>
  BY DEF MergeEvent, TypeOK, Handler
<1>3. \A g \in Handlers : handlers'[g].pc = "merge" => g = h
  BY <1>2 DEF MergingIsLocked
<1>4. MergingIsLocked' /\ NobodyIsAhead' /\ WaitsForItsBatch'
  BY <1>2 DEF MergingIsLocked, NobodyIsAhead, WaitsForItsBatch
<1>5. ASSUME timely PROVE AllAreReady'
  <2>1. Ready(sessions', exporters, pushed')
    BY <1>5, MergeEventKeepsReady
  <2>2. /\ pushed \in [Exporters -> Nat] /\ pushed' \in [Exporters -> Nat]
        /\ \A y \in Exporters : /\ exporters[y].batch \in Nat
                               /\ pushed[y] <= pushed'[y]
    BY Fields DEF TypeOK, MergeEvent, PushedBy
  <2>3. ASSUME NEW counters \in [Sessions -> TelemetrySession],
               Ready(counters, exporters, pushed)
        PROVE  Ready(counters, exporters, pushed')
    BY <2>2, <2>3, ReadyLater
  <2>4. /\ stored \in [Sessions -> TelemetrySession]
        /\ \A g \in Handlers : handlers[g].copy \in [Sessions -> TelemetrySession]
    BY Fields DEF TypeOK
  <2>5. /\ Ready(stored, exporters, pushed')
        /\ \A g \in Handlers : Ready(handlers[g].copy, exporters, pushed')
    BY <1>5, <2>3, <2>4 DEF AllAreReady
  <2> QED
    BY <1>2, <2>1, <2>5 DEF AllAreReady
<1>6. ASSUME timely PROVE MergesInTime'
  <2>1. /\ BatchSize <= Window /\ AddedOnce(old) /\ NoneAfter(old, x, b)
        /\ Remembers(old, x, b, Window - BatchSize)
        /\ old \in TelemetrySession
    BY <1>1, <1>2, <1>6 DEF MergesInTime, AllAreReady, Ready, TypeOK
  <2>2. /\ BatchSize \in Nat /\ Window \in Nat /\ Window - BatchSize \in Nat
        /\ (Window - BatchSize) + BatchSize <= Window
    BY <2>1, TelemetryAssumption
  <2> HIDE DEF x, b, n, old, new
  <2>3. Remembers(new, x, b, Window - BatchSize)
    BY <1>1, <2>1, <2>2, RemembersOwn DEF e
  <2>4. NoneAfter(new, x, b)
    <3> SUFFICES ASSUME NEW c \in Batches, NEW i \in 1 .. BatchSize, c > b
                 PROVE  new.added[EventOf(x, c, i)] = 0
      BY DEF NoneAfter
    <3>1. old.added[EventOf(x, c, i)] = 0
      BY <2>1 DEF NoneAfter
    <3>2. EventOf(x, c, i) \in Events
      BY <1>1, EventType
    <3>3. EventOf(x, c, i) # e
      <4>1. c # b
        BY <1>1 DEF Batches
      <4> QED
        BY <1>1, <4>1, EventsDiffer
    <3> HIDE DEF e
    <3> QED
      BY <1>1, <2>1, <3>1, <3>2, <3>3, MergedType
  <2> QED
    BY <1>2, <1>3, <2>1, <2>3, <2>4 DEF MergesInTime, x, b, new
<1> QED
  BY <1>2, <1>4, <1>5, <1>6

(* A handler that unlocks copies counters that are ready. *)
LEMMA UnlockKeepsOnce ==
    ASSUME TypeOK, TypeOK', OnceInv, NEW h \in Handlers, Unlock(h)
    PROVE  OnceInv'
<1> USE DEF OnceInv
<1>1. /\ \A g \in Handlers : g # h => handlers'[g] = handlers[g]
      /\ handlers[h].pc = "merge" /\ handlers'[h].pc = "put"
      /\ handlers'[h].exporter = handlers[h].exporter
      /\ handlers'[h].batch = handlers[h].batch
      /\ handlers'[h].copy = sessions
      /\ UNCHANGED <<sessions, stored, exporters, pushed, timely>>
  BY DEF Unlock, TypeOK, Handler, history
<1>2. \A g \in Handlers : handlers[g].pc = "merge" => g = h
  BY <1>1 DEF MergingIsLocked
<1>3. \A g \in Handlers : handlers'[g].pc # "merge"
  BY <1>1, <1>2
<1>4. MergingIsLocked' /\ NobodyIsAhead' /\ WaitsForItsBatch'
  BY <1>1, <1>3 DEF MergingIsLocked, NobodyIsAhead, WaitsForItsBatch
<1>5. AllAreReady => AllAreReady'
  BY <1>1 DEF AllAreReady
<1>6. MergesInTime'
  BY <1>3 DEF MergesInTime
<1> QED
  BY <1>1, <1>4, <1>5, <1>6

(* A stop clears the memory and the copies. *)
LEMMA StopKeepsOnce == ASSUME TypeOK, TypeOK', OnceInv, Stop PROVE OnceInv'
<1> USE DEF OnceInv
<1>1. /\ \A h \in Handlers : /\ handlers'[h].pc = "idle"
                            /\ handlers'[h].copy = NoCopy
      /\ sessions' = NoCopy
      /\ \A x \in Exporters : /\ exporters'[x].batch = exporters[x].batch
                             /\ exporters'[x].by = {}
      /\ UNCHANGED <<stored, pushed, timely>>
  <2>1. IdleHandler.pc = "idle" /\ IdleHandler.copy = NoCopy
    BY DEF IdleHandler
  <2>2. \A x \in Exporters : exporters'[x] = [exporters[x] EXCEPT !.by = {}]
    BY DEF Stop
  <2>3. \A x \in Exporters : /\ exporters'[x].batch = exporters[x].batch
                            /\ exporters'[x].by = {}
    BY <2>2 DEF TypeOK, Exporter
  <2> QED
    BY <2>1, <2>3 DEF Stop, history
<1>2. MergingIsLocked' /\ NobodyIsAhead' /\ WaitsForItsBatch'
  BY <1>1 DEF MergingIsLocked, NobodyIsAhead, WaitsForItsBatch
<1>3. ASSUME timely PROVE AllAreReady'
  <2>1. Ready(stored, exporters', pushed')
    BY <1>1, <1>3 DEF AllAreReady, Ready
  <2>2. Ready(NoCopy, exporters', pushed')
    BY NoCopyIsReady DEF TypeOK
  <2> QED
    BY <1>1, <2>1, <2>2 DEF AllAreReady
<1>4. MergesInTime'
  BY <1>1 DEF MergesInTime
<1> QED
  BY <1>1, <1>2, <1>3, <1>4

(* A start reads counters back that are ready. *)
LEMMA NewKeepsOnce ==
    ASSUME TypeOK, TypeOK', IngestInv, OnceInv, New PROVE OnceInv'
<1> USE DEF OnceInv
<1>1. /\ \A h \in Handlers : handlers[h].pc = "idle"
      /\ sessions' = stored
      /\ UNCHANGED <<mutex, handlers, exporters, stored, pushed, timely>>
  BY DEF New, IngestInv, DownIsIdle, history
<1>2. MergingIsLocked' /\ NobodyIsAhead' /\ WaitsForItsBatch'
  BY <1>1 DEF MergingIsLocked, NobodyIsAhead, WaitsForItsBatch
<1>3. AllAreReady => AllAreReady'
  BY <1>1 DEF AllAreReady
<1>4. MergesInTime'
  BY <1>1 DEF MergesInTime
<1> QED
  BY <1>1, <1>2, <1>3, <1>4

(* Every step keeps the counters ready. *)
LEMMA NextOnceInv ==
    ASSUME TypeOK, TypeOK', IngestInv, OnceInv, [Next]_vars PROVE OnceInv'
<1>1. ASSUME NEW h \in Handlers, PutSnapshot(h) PROVE OnceInv'
  <2>1. CASE WriteFails(h)
    BY <2>1, AnswerKeepsOnce DEF WriteFails
  <2>2. CASE Answer(h, TRUE) /\ UNCHANGED <<up, sessions, mutex, stored, faults, stops>>
    BY <2>2, AnswerKeepsOnce
  <2> QED
    BY <1>1, <2>1, <2>2 DEF PutSnapshot
<1>2. CASE UNCHANGED vars
  <2>1. WaitsForItsBatch' /\ NobodyIsAhead'
    BY <1>2 DEF vars, OnceInv, WaitsForItsBatch, NobodyIsAhead
  <2>2. \A x \in Exporters : exporters[x].batch <= exporters'[x].batch
    BY <1>2, Fields DEF vars
  <2> QED
    BY <1>2, <2>1, <2>2, RestKeepsOnce DEF vars, history
<1> QED
  BY <1>1, <1>2, ExporterKeepsOnce, ReceiveKeepsOnce, LockKeepsOnce,
     MergeEventKeepsOnce, UnlockKeepsOnce, PutKeepsOnce, StopKeepsOnce,
     NewKeepsOnce DEF Next, Serve

(* A batch that is delivered again is not counted again, in memory or on   *)
(* disk, whatever is given up, repeated, written late or restarted and     *)
(* whichever events share a fingerprint, as long as every request takes    *)
(* d.mu while the window has room for its batch and its exporter is at it. *)
THEOREM RepeatsCountOnce == Spec => []CountedAtMostOnce
<1>1. Init => TypeOK /\ IngestInv /\ OnceInv
  BY InitTypeOK, InitIngestInv, InitOnceInv
<1>2. TypeOK /\ IngestInv /\ OnceInv /\ [Next]_vars
         => (TypeOK /\ IngestInv /\ OnceInv)'
  BY NextTypeOK, NextIngestInv, NextOnceInv
<1>3. TypeOK /\ IngestInv /\ OnceInv => CountedAtMostOnce
  BY DEF OnceInv, AllAreReady, Ready, AddedOnce, CountedAtMostOnce
<1> QED
  BY <1>1, <1>2, <1>3, PTL DEF Spec
=============================================================================
