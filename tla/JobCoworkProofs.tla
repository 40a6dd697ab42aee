--------------------------- MODULE JobCoworkProofs ---------------------------
(***************************************************************************)
(* Theorems about JobCowork for any number of jobs, threads, requests and  *)
(* restarts, and their proofs.                                             *)
(***************************************************************************)
EXTENDS JobCowork, FiniteSetTheorems, SequenceTheorems, TLAPS

-----------------------------------------------------------------------------
(* What a thread's state says                                              *)

LEMMA WorkerParts ==
    ASSUME TypeOK, NEW w \in Workers
    PROVE  /\ worker[w].pc # "idle" => worker[w].job \in Jobs
           /\ worker[w].pc \in Loaded => worker[w].copy \in JobRecord
           /\ worker[w].pc = "remember" => worker[w].recalled \in Seq(Entry)
           /\ worker[w].pc = "gate" => worker[w].yes \in BOOLEAN
           /\ worker[w].pc \in Posting => worker[w].post \in Post
           /\ worker[w].pc \in Steps \cup {"idle"}
  <1>1. worker[w] \in WorkerState
    BY DEF TypeOK
  <1> USE DEF Loaded, Steps, Posting
  <1>2. CASE worker[w] = Idle
    BY <1>2 DEF Idle
  <1>3. CASE worker[w] \in [pc : {"load"}, job : Jobs]
    BY <1>3
  <1>4. CASE worker[w] \in [pc : {"gate"}, job : Jobs, yes : BOOLEAN]
    BY <1>4
  <1>5. CASE worker[w] \in [pc : Loaded \ {"remember"}, job : Jobs, copy : JobRecord]
    BY <1>5
  <1>6. CASE worker[w] \in [pc : {"remember"}, job : Jobs, copy : JobRecord,
                            recalled : Seq(Entry)]
    BY <1>6
  <1>7. CASE worker[w] \in [pc : Posting, job : Jobs, next : {"load", "idle"}, post : Post]
    BY <1>7
  <1> QED BY <1>1, <1>2, <1>3, <1>4, <1>5, <1>6, <1>7 DEF WorkerState

LEMMA CopyParts ==
    ASSUME NEW c \in JobRecord
    PROVE  /\ c.status \in Statuses
           /\ c.approvals \in Seq(BOOLEAN)
           /\ c.measured \in BOOLEAN
           /\ c.basis \in Scans \cup {NoScan}
  BY DEF JobRecord

LEMMA FileParts ==
    ASSUME TypeOK, NEW j \in Jobs, Readable(j)
    PROVE  jobFile[j] \in JobRecord
  BY DEF TypeOK, Readable

LEMMA ClosureStatus ==
    ASSUME NEW s, NEW l1
    PROVE  ResolveClosure(s, l1) \in {"PARTIAL", "CLOSED_OK", "CLOSED_GAP"}
  BY DEF ResolveClosure

-----------------------------------------------------------------------------
(* Histories                                                               *)

\* A new head moves every entry by one place.
LEMMA HeadParts ==
    ASSUME NEW e \in Entry, NEW h \in Seq(Entry)
    PROVE  /\ <<e>> \o h \in Seq(Entry)
           /\ Len(h) \in Nat /\ Len(<<e>> \o h) = Len(h) + 1
           /\ (<<e>> \o h)[1] = e
           /\ \A i \in 1 .. Len(h) : (<<e>> \o h)[i + 1] = h[i]
  <1>1. <<e>> \in Seq(Entry) /\ Len(<<e>>) = 1 /\ <<e>>[1] = e
    OBVIOUS
  <1>2. Len(h) \in Nat
    BY LenProperties
  <1>3. /\ <<e>> \o h \in Seq(Entry)
        /\ Len(<<e>> \o h) = 1 + Len(h)
        /\ \A i \in 1 .. 1 + Len(h) : (<<e>> \o h)[i] =
                IF i <= 1 THEN <<e>>[i] ELSE h[i - 1]
    BY <1>1, ConcatProperties
  <1>4. (<<e>> \o h)[1] = e
    BY <1>1, <1>2, <1>3
  <1>5. ASSUME NEW i \in 1 .. Len(h)
        PROVE  (<<e>> \o h)[i + 1] = h[i]
    <2>1. i + 1 \in 1 .. 1 + Len(h) /\ ~(i + 1 <= 1) /\ (i + 1) - 1 = i
      BY <1>2
    <2> QED BY <1>3, <2>1
  <1> QED BY <1>2, <1>3, <1>4, <1>5

\* The cut keeps the first Keep entries.
LEMMA NewestParts ==
    ASSUME NEW h \in Seq(Entry)
    PROVE  /\ Newest(h) \in Seq(Entry)
           /\ Len(h) \in Nat
           /\ Len(Newest(h)) = IF Len(h) < Keep THEN Len(h) ELSE Keep
           /\ \A i \in 1 .. Len(Newest(h)) : Newest(h)[i] = h[i]
  <1> DEFINE n == IF Len(h) < Keep THEN Len(h) ELSE Keep
  <1>1. Len(h) \in Nat /\ n \in Nat /\ n <= Len(h)
    BY LenProperties, JobsAssumption
  <1>2. \A i \in 1 .. n : h[i] \in Entry
    BY <1>1, ElementOfSeq
  <1>3. Newest(h) = SubSeq(h, 1, n)
    BY DEF Newest
  <1> HIDE DEF n
  <1>4. /\ SubSeq(h, 1, n) \in Seq(Entry)
        /\ Len(SubSeq(h, 1, n)) = IF 1 <= n THEN n - 1 + 1 ELSE 0
        /\ \A i \in 1 .. n - 1 + 1 : SubSeq(h, 1, n)[i] = h[1 + i - 1]
    BY <1>1, <1>2, SubSeqProperties
  <1>5. Len(Newest(h)) = n
    BY <1>1, <1>3, <1>4
  <1>6. ASSUME NEW i \in 1 .. n
        PROVE  Newest(h)[i] = h[i]
    <2>1. i \in 1 .. n - 1 + 1 /\ 1 + i - 1 = i
      BY <1>1
    <2> QED BY <1>3, <1>4, <2>1
  <1> QED BY <1>1, <1>3, <1>4, <1>5, <1>6 DEF n

LEMMA RecordedParts ==
    ASSUME NEW j \in Jobs, NEW status \in Statuses, NEW h \in Seq(Entry)
    PROVE  LET r == Recorded(j, status, h) IN
           /\ r \in Seq(Entry)
           /\ Len(h) \in Nat /\ Len(r) \in 1 .. Len(h) + 1
           /\ r[1] = [job |-> j, status |-> status]
           /\ \A i \in 1 .. Len(r) - 1 : i \in 1 .. Len(h) /\ r[i + 1] = h[i]
  <1> DEFINE e == [job |-> j, status |-> status]
             r == Recorded(j, status, h)
  <1>1. e \in Entry
    BY DEF Entry
  <1>2. r = Newest(<<e>> \o h)
    BY DEF Recorded
  <1> HIDE DEF e, r
  <1>3. /\ <<e>> \o h \in Seq(Entry)
        /\ Len(h) \in Nat /\ Len(<<e>> \o h) = Len(h) + 1
        /\ (<<e>> \o h)[1] = e
        /\ \A i \in 1 .. Len(h) : (<<e>> \o h)[i + 1] = h[i]
    BY <1>1, HeadParts
  <1>4. /\ r \in Seq(Entry)
        /\ Len(r) = IF Len(h) + 1 < Keep THEN Len(h) + 1 ELSE Keep
        /\ \A i \in 1 .. Len(r) : r[i] = (<<e>> \o h)[i]
    BY <1>2, <1>3, NewestParts
  <1>5. Len(r) \in 1 .. Len(h) + 1
    BY <1>3, <1>4, JobsAssumption
  <1>6. r[1] = e
    BY <1>3, <1>4, <1>5
  <1>7. ASSUME NEW i \in 1 .. Len(r) - 1
        PROVE  i \in 1 .. Len(h) /\ r[i + 1] = h[i]
    <2>1. i \in 1 .. Len(h) /\ i + 1 \in 1 .. Len(r)
      BY <1>3, <1>5
    <2> QED BY <1>3, <1>4, <2>1
  <1> QED BY <1>3, <1>4, <1>5, <1>6, <1>7 DEF e, r

\* Cutting before a new head, too, changes nothing.
LEMMA NewestAgain ==
    ASSUME NEW j \in Jobs, NEW status \in Statuses, NEW h \in Seq(Entry)
    PROVE  Recorded(j, status, Newest(h))
               = Newest(<<[job |-> j, status |-> status]>> \o h)
  <1> DEFINE e == [job |-> j, status |-> status]
             g == Newest(h)
             s == Newest(<<e>> \o g)
             t == Newest(<<e>> \o h)
  <1>1. e \in Entry
    BY DEF Entry
  <1>2. /\ g \in Seq(Entry) /\ Len(h) \in Nat
        /\ Len(g) = IF Len(h) < Keep THEN Len(h) ELSE Keep
        /\ \A i \in 1 .. Len(g) : g[i] = h[i]
    BY NewestParts
  <1> HIDE DEF e, g
  <1>3. /\ <<e>> \o g \in Seq(Entry) /\ Len(<<e>> \o g) = Len(g) + 1
        /\ (<<e>> \o g)[1] = e
        /\ \A i \in 1 .. Len(g) : (<<e>> \o g)[i + 1] = g[i]
    BY <1>1, <1>2, HeadParts
  <1>4. /\ <<e>> \o h \in Seq(Entry) /\ Len(<<e>> \o h) = Len(h) + 1
        /\ (<<e>> \o h)[1] = e
        /\ \A i \in 1 .. Len(h) : (<<e>> \o h)[i + 1] = h[i]
    BY <1>1, HeadParts
  <1>5. /\ s \in Seq(Entry)
        /\ Len(s) = IF Len(g) + 1 < Keep THEN Len(g) + 1 ELSE Keep
        /\ \A i \in 1 .. Len(s) : s[i] = (<<e>> \o g)[i]
    BY <1>3, NewestParts
  <1>6. /\ t \in Seq(Entry)
        /\ Len(t) = IF Len(h) + 1 < Keep THEN Len(h) + 1 ELSE Keep
        /\ \A i \in 1 .. Len(t) : t[i] = (<<e>> \o h)[i]
    BY <1>4, NewestParts
  <1> HIDE DEF s, t
  <1>7. Len(s) = Len(t) /\ Len(s) \in Nat
    BY <1>2, <1>5, <1>6, JobsAssumption
  <1>8. ASSUME NEW i \in 1 .. Len(s)
        PROVE  s[i] = t[i]
    <2>1. s[i] = (<<e>> \o g)[i] /\ t[i] = (<<e>> \o h)[i]
      BY <1>5, <1>6, <1>7
    <2>2. CASE i = 1
      BY <1>3, <1>4, <2>1, <2>2
    <2>3. CASE i # 1
      <3>1. i - 1 \in 1 .. Len(g) /\ i - 1 \in 1 .. Len(h) /\ (i - 1) + 1 = i
        BY <1>2, <1>5, <1>7, <2>3, JobsAssumption
      <3> QED BY <1>2, <1>3, <1>4, <2>1, <3>1
    <2> QED BY <2>2, <2>3
  <1>9. s = t
    BY <1>5, <1>6, <1>7, <1>8, SeqEqual
  <1> QED BY <1>9 DEF s, t, g, e, Recorded

-----------------------------------------------------------------------------
(* The effect of the helpers on the types                                  *)

LEMMA SaveJobTypes ==
    ASSUME TypeOK, NEW j \in Jobs, NEW c \in JobRecord, SaveJob(j, c)
    PROVE  /\ jobFile' \in [Jobs -> JobRecord \cup {NoJob, Torn}]
           /\ saved' \in [Jobs -> SUBSET Statuses]
  BY CopyParts DEF TypeOK, SaveJob

LEMMA MessageType ==
    ASSUME NEW w \in Workers, NEW j \in Jobs, NEW c \in JobRecord, NEW b \in BOOLEAN
    PROVE  /\ Message(w, j, c, b) \in Post
           /\ Message(w, j, c, b).job = j
           /\ Message(w, j, c, b).status = c.status
  <1>1. Len(c.approvals) \in Nat /\ c.status \in Statuses
    BY CopyParts
  <1> QED BY <1>1 DEF Message, Post

LEMMA SaveToPostTypes ==
    ASSUME TypeOK, NEW w \in Workers, NEW j \in Jobs, NEW c \in JobRecord,
           NEW b \in BOOLEAN, NEW step \in Posting, NEW next \in {"load", "idle"},
           SaveToPost(w, j, c, b, step, next)
    PROVE  /\ jobFile' \in [Jobs -> JobRecord \cup {NoJob, Torn}]
           /\ saved' \in [Jobs -> SUBSET Statuses]
           /\ worker' \in [Workers -> WorkerState]
           /\ lapse' \subseteq Jobs
  <1> DEFINE x == [pc |-> step, job |-> j, next |-> next, post |-> Message(w, j, c, b)]
  <1>1. x \in WorkerState
    BY MessageType DEF WorkerState
  <1>2. worker' = [worker EXCEPT ![w] = x]
    BY DEF SaveToPost
  <1>3. worker' \in [Workers -> WorkerState]
    <2> HIDE DEF x
    <2> QED BY <1>1, <1>2 DEF TypeOK
  <1>4. lapse' \subseteq Jobs
    BY DEF SaveToPost, TypeOK
  <1> QED BY <1>3, <1>4, SaveJobTypes DEF SaveToPost

LEMMA WorkerType ==
    ASSUME TypeOK, NEW w \in Workers, NEW x \in WorkerState,
           worker' = [worker EXCEPT ![w] = x]
    PROVE  worker' \in [Workers -> WorkerState]
  BY DEF TypeOK

LEMMA IdleType == Idle \in WorkerState
  BY DEF WorkerState

LEMMA SpendTypes ==
    ASSUME TypeOK, NEW what \in {"runs", "answers", "crashes"}, Spend(what)
    PROVE  left' \in [runs : Nat, answers : Nat, crashes : Nat]
  BY DEF TypeOK, Spend

-----------------------------------------------------------------------------
(* Type correctness                                                        *)

LEMMA TypeInit == Init => TypeOK
  <1> SUFFICES ASSUME Init PROVE TypeOK
    OBVIOUS
  <1>1. worker \in [Workers -> WorkerState]
    BY DEF Init, WorkerState
  <1>2. left \in [runs : Nat, answers : Nat, crashes : Nat]
    BY JobsAssumption DEF Init
  <1>3. memory \in [torn : BOOLEAN, history : Seq(Entry)] /\ outcomes \in Seq(Entry)
    BY DEF Init
  <1> QED BY <1>1, <1>2, <1>3 DEF Init, TypeOK

LEMMA TypeNext == TypeOK /\ [Next]_vars => TypeOK'
  <1> SUFFICES ASSUME TypeOK, [Next]_vars PROVE TypeOK'
    OBVIOUS
  <1> USE DEF history, files, gateway
  <1>1. ASSUME NEW w \in Workers, NEW j \in Jobs, CreateJob(w, j)
        PROVE  TypeOK'
    <2>1. Opened \in JobRecord
      BY DEF Opened, JobRecord, Statuses
    <2>2. /\ jobFile' \in [Jobs -> JobRecord \cup {NoJob, Torn}]
          /\ saved' \in [Jobs -> SUBSET Statuses]
          /\ worker' \in [Workers -> WorkerState]
          /\ lapse' \subseteq Jobs
      BY <1>1, <2>1, SaveToPostTypes DEF CreateJob, Posting
    <2> QED BY <1>1, <2>2 DEF CreateJob, TypeOK
  <1>2. ASSUME NEW w \in Workers, NEW j \in Jobs, RunAgain(w, j)
        PROVE  TypeOK'
    <2>1. worker' \in [Workers -> WorkerState]
      BY <1>2 DEF RunAgain, Begin, TypeOK, WorkerState
    <2> QED BY <1>2, <2>1, SpendTypes DEF RunAgain, TypeOK
  <1>3. ASSUME NEW w \in Workers, NEW j \in Jobs, AskApproval(w, j)
        PROVE  TypeOK'
    <2>1. worker' \in [Workers -> WorkerState]
      BY <1>3 DEF AskApproval, TypeOK, WorkerState
    <2> QED BY <1>3, <2>1, SpendTypes DEF AskApproval, TypeOK
  <1>4. ASSUME NEW w \in Workers, LoadToMeasure(w)
        PROVE  TypeOK'
    <2>1. worker[w].job \in Jobs
      BY <1>4, WorkerParts DEF LoadToMeasure
    <2>2. worker' \in [Workers -> WorkerState]
      <3>1. CASE Readable(worker[w].job) /\ jobFile[worker[w].job].status \in {"OPEN", "PARTIAL"}
        <4> DEFINE x == [pc |-> "scan", job |-> worker[w].job, copy |-> jobFile[worker[w].job]]
        <4>1. x \in WorkerState
          BY <2>1, <3>1, FileParts DEF WorkerState, Loaded
        <4>2. worker' = [worker EXCEPT ![w] = x]
          BY <1>4, <3>1 DEF LoadToMeasure
        <4> HIDE DEF x
        <4> QED BY <4>1, <4>2, WorkerType
      <3>2. CASE ~(Readable(worker[w].job) /\ jobFile[worker[w].job].status \in {"OPEN", "PARTIAL"})
        BY <1>4, <3>2, IdleType, WorkerType DEF LoadToMeasure, Finish
      <3> QED BY <3>1, <3>2
    <2> QED BY <1>4, <2>2 DEF LoadToMeasure, TypeOK
  <1>5. ASSUME NEW w \in Workers, ScanEnds(w)
        PROVE  TypeOK'
    <2>1. worker[w].job \in Jobs /\ worker[w].copy \in JobRecord
      BY <1>5, WorkerParts DEF ScanEnds, Loaded
    <2>2. [worker[w].copy EXCEPT !.status = "PENDING_APPROVAL", !.measured = TRUE]
             \in JobRecord
      BY <2>1 DEF JobRecord, Statuses
    <2>3. worker' \in [Workers -> WorkerState]
      BY <1>5, <2>1, <2>2 DEF ScanEnds, TypeOK, WorkerState, Loaded
    <2>4. scanFile' \in [Jobs -> Scans \cup {NoScan}]
      BY <1>5 DEF ScanEnds, TypeOK
    <2> QED BY <1>5, <2>3, <2>4 DEF ScanEnds, TypeOK
  <1>6. ASSUME NEW w \in Workers, ScanRaises(w)
        PROVE  TypeOK'
    BY <1>6 DEF ScanRaises, Finish, TypeOK, WorkerState
  <1>7. ASSUME NEW w \in Workers, SaveMeasured(w)
        PROVE  TypeOK'
    <2>1. worker[w].job \in Jobs /\ worker[w].copy \in JobRecord
      BY <1>7, WorkerParts DEF SaveMeasured, Loaded
    <2>2. /\ jobFile' \in [Jobs -> JobRecord \cup {NoJob, Torn}]
          /\ saved' \in [Jobs -> SUBSET Statuses]
          /\ worker' \in [Workers -> WorkerState]
          /\ lapse' \subseteq Jobs
      BY <1>7, <2>1, SaveToPostTypes DEF SaveMeasured, Posting
    <2> QED BY <1>7, <2>2 DEF SaveMeasured, TypeOK
  <1>8. ASSUME NEW w \in Workers, Gate(w)
        PROVE  TypeOK'
    <2>1. worker[w].job \in Jobs /\ worker[w].yes \in BOOLEAN
      BY <1>8, WorkerParts DEF Gate
    <2>2. ASSUME Readable(worker[w].job)
          PROVE  [jobFile[worker[w].job] EXCEPT !.approvals = Append(@, worker[w].yes)]
                    \in JobRecord
      BY <2>1, <2>2, FileParts DEF JobRecord
    <2>3. worker' \in [Workers -> WorkerState]
      <3>1. CASE Readable(worker[w].job) /\ jobFile[worker[w].job].status = "PENDING_APPROVAL"
        <4> DEFINE j == worker[w].job
                   c == [jobFile[j] EXCEPT !.approvals = Append(@, worker[w].yes)]
                   step == IF worker[w].yes THEN "close" ELSE "refused"
        <4>1. worker' = [worker EXCEPT ![w] = [pc |-> step, job |-> j, copy |-> c]]
          BY <1>8, <3>1 DEF Gate
        <4>2. c \in JobRecord /\ step \in Loaded \ {"remember"}
          BY <2>2, <3>1 DEF Loaded
        <4>3. [pc |-> step, job |-> j, copy |-> c] \in WorkerState
          <5> HIDE DEF c, step
          <5> QED BY <2>1, <4>2 DEF WorkerState
        <4> HIDE DEF c, step, j
        <4> QED BY <4>1, <4>3 DEF TypeOK
      <3>2. CASE ~(Readable(worker[w].job) /\ jobFile[worker[w].job].status = "PENDING_APPROVAL")
        BY <1>8, <3>2 DEF Gate, Finish, TypeOK, WorkerState
      <3> QED BY <3>1, <3>2
    <2>4. passed' \in [Jobs -> Nat]
      <3>1. passed' = passed \/ passed' = [passed EXCEPT ![worker[w].job] = @ + 1]
                             \/ passed' = [passed EXCEPT ![worker[w].job] = @]
        BY <1>8, Zenon DEF Gate
      <3> QED BY <2>1, <3>1 DEF TypeOK
    <2> QED BY <1>8, <2>3, <2>4 DEF Gate, TypeOK
  <1>9. ASSUME NEW w \in Workers, SaveRefused(w)
        PROVE  TypeOK'
    <2>1. worker[w].job \in Jobs /\ worker[w].copy \in JobRecord
      BY <1>9, WorkerParts DEF SaveRefused, Loaded
    <2>2. [worker[w].copy EXCEPT !.status = "PARTIAL"] \in JobRecord
      BY <2>1 DEF JobRecord, Statuses
    <2>3. /\ jobFile' \in [Jobs -> JobRecord \cup {NoJob, Torn}]
          /\ saved' \in [Jobs -> SUBSET Statuses]
      BY <1>9, <2>1, <2>2, SaveJobTypes DEF SaveRefused
    <2>4. worker' \in [Workers -> WorkerState]
      BY <1>9 DEF SaveRefused, Finish, TypeOK, WorkerState
    <2> QED BY <1>9, <2>1, <2>3, <2>4 DEF SaveRefused, TypeOK
  <1>10. ASSUME NEW w \in Workers, Close(w)
         PROVE  TypeOK'
    <2>1. worker[w].job \in Jobs /\ worker[w].copy \in JobRecord
      BY <1>10, WorkerParts DEF Close, Loaded
    <2> DEFINE j == worker[w].job
               c == [worker[w].copy EXCEPT !.status = ResolveClosure(scanFile[j], j \in L1),
                                           !.basis = scanFile[j]]
    <2>2. ResolveClosure(scanFile[j], j \in L1) \in Statuses
      BY ClosureStatus DEF Statuses
    <2>3. c \in JobRecord
      BY <2>1, <2>2 DEF JobRecord, TypeOK
    <2>4. worker' = [worker EXCEPT ![w] = [pc |-> "recall", job |-> j, copy |-> c]]
      BY <1>10 DEF Close
    <2>5. [pc |-> "recall", job |-> j, copy |-> c] \in WorkerState
      <3> HIDE DEF c
      <3> QED BY <2>1, <2>3 DEF WorkerState, Loaded
    <2>6. worker' \in [Workers -> WorkerState]
      <3> HIDE DEF c, j
      <3> QED BY <2>4, <2>5 DEF TypeOK
    <2> QED BY <1>10, <2>6 DEF Close, TypeOK
  <1>11. ASSUME NEW w \in Workers, RecallMemory(w)
         PROVE  TypeOK'
    <2>1. worker[w].job \in Jobs /\ worker[w].copy \in JobRecord
      BY <1>11, WorkerParts DEF RecallMemory, Loaded
    <2>2. memory.history \in Seq(Entry)
      BY DEF TypeOK
    <2>3. worker' \in [Workers -> WorkerState]
      <3>1. CASE ~memory.torn
        <4> DEFINE x == [pc |-> "remember", job |-> worker[w].job,
                         copy |-> worker[w].copy, recalled |-> memory.history]
        <4>1. x \in WorkerState
          BY <2>1, <2>2 DEF WorkerState
        <4>2. worker' = [worker EXCEPT ![w] = x]
          BY <1>11, <3>1 DEF RecallMemory
        <4> HIDE DEF x
        <4> QED BY <4>1, <4>2, WorkerType
      <3>2. CASE memory.torn
        BY <1>11, <3>2, IdleType, WorkerType DEF RecallMemory, Finish
      <3> QED BY <3>1, <3>2
    <2>4. raced' \in BOOLEAN
      BY <1>11 DEF RecallMemory, TypeOK
    <2> QED BY <1>11, <2>3, <2>4 DEF RecallMemory, TypeOK
  <1>12. ASSUME NEW w \in Workers, RememberOutcome(w)
         PROVE  TypeOK'
    <2>1. /\ worker[w].job \in Jobs /\ worker[w].copy \in JobRecord
          /\ worker[w].recalled \in Seq(Entry)
      BY <1>12, WorkerParts DEF RememberOutcome, Loaded
    <2>2. worker' \in [Workers -> WorkerState]
      BY <1>12, <2>1 DEF RememberOutcome, TypeOK, WorkerState, Loaded
    <2>3. worker[w].copy.status \in Statuses
      BY <2>1, CopyParts
    <2>4. /\ Recorded(worker[w].job, worker[w].copy.status, worker[w].recalled) \in Seq(Entry)
          /\ <<[job |-> worker[w].job, status |-> worker[w].copy.status]>> \o outcomes
                \in Seq(Entry)
      <3>1. [job |-> worker[w].job, status |-> worker[w].copy.status] \in Entry
        BY <2>1, <2>3 DEF Entry
      <3>2. outcomes \in Seq(Entry)
        BY DEF TypeOK
      <3>3. Recorded(worker[w].job, worker[w].copy.status, worker[w].recalled) \in Seq(Entry)
        BY <2>1, <2>3, RecordedParts, Zenon
      <3> QED BY <3>1, <3>2, <3>3, HeadParts
    <2>5. memory' \in [torn : BOOLEAN, history : Seq(Entry)] /\ outcomes' \in Seq(Entry)
      BY <1>12, <2>4 DEF RememberOutcome
    <2> QED BY <1>12, <2>2, <2>5 DEF RememberOutcome, TypeOK
  <1>13. ASSUME NEW w \in Workers, SaveVerdict(w)
         PROVE  TypeOK'
    <2>1. worker[w].job \in Jobs /\ worker[w].copy \in JobRecord
      BY <1>13, WorkerParts DEF SaveVerdict, Loaded
    <2>2. /\ jobFile' \in [Jobs -> JobRecord \cup {NoJob, Torn}]
          /\ saved' \in [Jobs -> SUBSET Statuses]
          /\ worker' \in [Workers -> WorkerState]
          /\ lapse' \subseteq Jobs
      BY <1>13, <2>1, SaveToPostTypes DEF SaveVerdict, Posting
    <2>3. holders' \in [Jobs -> SUBSET Workers]
      BY <1>13 DEF SaveVerdict, HoldersOf, TypeOK
    <2> QED BY <1>13, <2>2, <2>3 DEF SaveVerdict, TypeOK
  <1>14. ASSUME NEW m \in wire, Upsert(m)
         PROVE  TypeOK'
    <2>1. m \in Post
      BY DEF TypeOK
    <2>2. m.job \in Jobs /\ m.status \in Statuses /\ m.approvals \in Nat /\ m.scan \in BOOLEAN
      BY <2>1 DEF Post
    <2>3. (IF mirror[m.job] = NoJob THEN 0 ELSE mirror[m.job].approvals) \in Nat
      BY <2>2 DEF TypeOK, Row
    <2>4. mirror' \in [Jobs -> Row \cup {NoJob}]
      BY <1>14, <2>2, <2>3 DEF Upsert, TypeOK, Row
    <2> QED BY <1>14, <2>4 DEF Upsert, TypeOK
  <1>15. ASSUME NEW m \in wire, LosePost(m)
         PROVE  TypeOK'
    <2>1. m.job \in Jobs
      BY DEF TypeOK, Post
    <2> QED BY <1>15, <2>1 DEF LosePost, TypeOK
  <1>16. ASSUME NEW w \in Workers, SyncJob(w)
         PROVE  TypeOK'
    <2>1. worker[w].job \in Jobs /\ worker[w].post \in Post
      BY <1>16, WorkerParts DEF SyncJob, Posting
    <2>2. worker' \in [Workers -> WorkerState]
      <3>1. [pc |-> "load", job |-> worker[w].job] \in WorkerState
        BY <2>1 DEF WorkerState
      <3> QED BY <1>16, <3>1, IdleType, WorkerType DEF SyncJob, Begin, Finish
    <2>3. wire' \subseteq Post
      BY <1>16, <2>1 DEF SyncJob, TypeOK
    <2> QED BY <1>16, <2>2, <2>3 DEF SyncJob, TypeOK
  <1>19. ASSUME NEW w \in Workers, ApproveRaises(w)
         PROVE  TypeOK'
    <2>2. worker' \in [Workers -> WorkerState]
      BY <1>19, IdleType, WorkerType DEF ApproveRaises, Finish
    <2>3. worker[w].pc = "artifacts" => worker[w].post.job \in Jobs
      BY WorkerParts DEF Posting, Post
    <2>4. lapse' \subseteq Jobs
      BY <1>19, <2>3 DEF ApproveRaises, TypeOK
    <2> QED BY <1>19, <2>2, <2>4 DEF ApproveRaises, TypeOK
  <1>17. ASSUME Crash PROVE TypeOK'
    <2>1. worker' \in [Workers -> WorkerState]
      BY <1>17 DEF Crash, WorkerState
    <2>2. jobFile' \in [Jobs -> JobRecord \cup {NoJob, Torn}]
      BY <1>17 DEF Crash, TypeOK
    <2>3. memory' \in [torn : BOOLEAN, history : Seq(Entry)]
      BY <1>17 DEF Crash, TypeOK
    <2>4. lapse' \subseteq Jobs
      <3>1. \A w \in Workers : worker[w].pc \in Posting => worker[w].post.job \in Jobs
        BY WorkerParts DEF Post
      <3> QED BY <1>17, <3>1 DEF Crash, TypeOK
    <2> QED BY <1>17, <2>1, <2>2, <2>3, <2>4, SpendTypes DEF Crash, TypeOK
  <1>18. CASE UNCHANGED vars
    BY <1>18 DEF vars, TypeOK
  <1> QED BY <1>1, <1>2, <1>3, <1>4, <1>5, <1>6, <1>7, <1>8, <1>9, <1>10, <1>11,
             <1>12, <1>13, <1>14, <1>15, <1>16, <1>17, <1>18, <1>19 DEF Next

\* Every variable keeps its shape, for any number of jobs, threads and
\* requests.
THEOREM JobTypes == Spec => []TypeOK
  <1> QED BY TypeInit, TypeNext, PTL DEF Spec

-----------------------------------------------------------------------------
(* The closure rules                                                       *)

\* A green verdict needs evidence and no gap; a gap verdict needs a gap.
LEMMA ClosureRules ==
    ASSUME NEW s \in Scans \cup {NoScan}, NEW l1 \in BOOLEAN
    PROVE  /\ ResolveClosure(s, l1) = "CLOSED_OK" =>
                  s # NoScan /\ Gaps(s) = {} /\ Evidence(s, l1)
           /\ ResolveClosure(s, l1) = "CLOSED_GAP" => s # NoScan /\ Gaps(s) # {}
  <1>1. CASE s = NoScan
    BY <1>1 DEF ResolveClosure
  <1>2. CASE s # NoScan
    <2>1. s \in ScanResult
      BY <1>2, JobsAssumption
    <2>2. s.deltas \subseteq Deltas /\ s.status \in {"COMPLETED", "PARTIAL"}
      BY <2>1 DEF ScanResult
    <2>3. CASE "replay_missed" \in s.deltas \/ s.loop = "failed" \/ "origin_open" \in s.deltas
      <3>1. Gaps(s) # {}
        <4>1. CASE "replay_missed" \in s.deltas
          BY <4>1 DEF Gaps
        <4>2. CASE "origin_open" \in s.deltas
          BY <4>2 DEF Gaps
        <4>3. CASE s.loop = "failed"
          BY <4>3 DEF Gaps
        <4> QED BY <2>3, <4>1, <4>2, <4>3
      <3> QED BY <1>2, <2>3, <3>1 DEF ResolveClosure
    <2>4. CASE ~("replay_missed" \in s.deltas \/ s.loop = "failed" \/ "origin_open" \in s.deltas)
      <3>1. Gaps(s) = {}
        BY <2>4 DEF Gaps
      <3>2. ResolveClosure(s, l1) # "CLOSED_GAP"
        BY <2>4 DEF ResolveClosure
      <3>3. ResolveClosure(s, l1) = "CLOSED_OK" => Evidence(s, l1)
        BY <1>2, <2>2, <2>4 DEF ResolveClosure, Evidence
      <3> QED BY <1>2, <3>1, <3>2, <3>3
    <2> QED BY <2>3, <2>4
  <1> QED BY <1>1, <1>2

-----------------------------------------------------------------------------
(* What the copies in memory are                                           *)

Approved(c) == c.approvals # <<>> /\ c.approvals[Len(c.approvals)]

Judged == {"recall", "remember", "settle"}

CopiesEarned ==
    \A w \in Workers :
        /\ worker[w].pc = "save" => worker[w].copy.status = "PENDING_APPROVAL"
        /\ worker[w].pc \in Judged \cup {"close"} => Approved(worker[w].copy)
        /\ worker[w].pc \in Judged =>
              worker[w].copy.status
                  = ResolveClosure(worker[w].copy.basis, worker[w].job \in L1)

LEMMA CopiesInit == Init => CopiesEarned
  BY DEF Init, CopiesEarned, Idle, Judged

LEMMA CopiesNext == TypeOK /\ CopiesEarned /\ [Next]_vars => CopiesEarned'
  <1> SUFFICES ASSUME TypeOK, CopiesEarned, [Next]_vars PROVE CopiesEarned'
    OBVIOUS
  <1> USE DEF Judged
  <1>0. \A v \in Workers : worker \in [Workers -> WorkerState]
    BY DEF TypeOK
  \* Steps that leave the copies alone, or leave a thread without one.
  <1>1. ASSUME NEW w \in Workers, NEW x, worker' = [worker EXCEPT ![w] = x],
               x.pc \in {"idle", "load", "gate", "artifacts", "post", "scan", "refused"}
        PROVE  CopiesEarned'
    BY <1>0, <1>1 DEF CopiesEarned
  <1>2. ASSUME NEW w \in Workers, NEW j \in Jobs,
               CreateJob(w, j) \/ RunAgain(w, j) \/ AskApproval(w, j)
        PROVE  CopiesEarned'
    BY <1>1, <1>2 DEF CreateJob, SaveToPost, RunAgain, AskApproval, Begin
  <1>3. ASSUME NEW w \in Workers,
               LoadToMeasure(w) \/ ScanRaises(w) \/ SaveMeasured(w) \/ SaveRefused(w)
               \/ SaveVerdict(w) \/ ApproveRaises(w) \/ SyncJob(w)
        PROVE  CopiesEarned'
    BY <1>1, <1>3 DEF LoadToMeasure, ScanRaises, SaveMeasured, SaveRefused, SaveVerdict,
                      SaveToPost, ApproveRaises, SyncJob, Begin, Finish, Idle
  <1>4. ASSUME NEW w \in Workers, ScanEnds(w)
        PROVE  CopiesEarned'
    <2>1. worker[w].copy \in JobRecord
      BY <1>4, WorkerParts DEF ScanEnds, Loaded
    <2>2. worker'[w].pc = "save" /\ worker'[w].copy.status = "PENDING_APPROVAL"
      BY <1>4, <1>0, <2>1, Zenon DEF ScanEnds, JobRecord
    <2>3. \A v \in Workers \ {w} : worker'[v] = worker[v]
      BY <1>4, <1>0 DEF ScanEnds
    <2> QED BY <2>2, <2>3 DEF CopiesEarned
  <1>5. ASSUME NEW w \in Workers, Gate(w)
        PROVE  CopiesEarned'
    <2> DEFINE j == worker[w].job
               yes == worker[w].yes
    <2>1. j \in Jobs /\ yes \in BOOLEAN
      BY <1>5, WorkerParts DEF Gate
    <2>2. CASE Readable(j) /\ jobFile[j].status = "PENDING_APPROVAL" /\ yes
      <3> DEFINE c == [jobFile[j] EXCEPT !.approvals = Append(@, yes)]
      <3>1. jobFile[j] \in JobRecord
        BY <2>1, <2>2, FileParts
      <3>2. c.approvals = Append(jobFile[j].approvals, yes)
        BY <3>1 DEF JobRecord
      <3>3. Approved(c)
        <4>1. jobFile[j].approvals \in Seq(BOOLEAN)
          BY <3>1, CopyParts
        <4>2. /\ Append(jobFile[j].approvals, yes) # <<>>
              /\ Append(jobFile[j].approvals, yes)[Len(Append(jobFile[j].approvals, yes))] = yes
          BY <2>1, <4>1
        <4> QED BY <2>2, <3>2, <4>2 DEF Approved
      <3>4. worker' = [worker EXCEPT ![w] = [pc |-> "close", job |-> j, copy |-> c]]
        BY <1>5, <2>2 DEF Gate
      <3> HIDE DEF c, j, yes
      <3> QED BY <1>0, <3>3, <3>4 DEF CopiesEarned
    <2>3. CASE ~(Readable(j) /\ jobFile[j].status = "PENDING_APPROVAL" /\ yes)
      BY <1>1, <1>5, <2>3 DEF Gate, Finish, Idle
    <2> QED BY <2>2, <2>3
  <1>6. ASSUME NEW w \in Workers, Close(w)
        PROVE  CopiesEarned'
    <2> DEFINE j == worker[w].job
               c == [worker[w].copy EXCEPT !.status = ResolveClosure(scanFile[j], j \in L1),
                                           !.basis = scanFile[j]]
    <2>1. worker[w].copy \in JobRecord /\ Approved(worker[w].copy)
      BY <1>6, WorkerParts DEF Close, Loaded, CopiesEarned
    <2>2. c.basis = scanFile[j] /\ c.approvals = worker[w].copy.approvals
      BY <2>1, Zenon DEF JobRecord
    <2>3. c.status = ResolveClosure(scanFile[j], j \in L1)
      BY <2>1, Zenon DEF JobRecord
    <2>4. worker' = [worker EXCEPT ![w] = [pc |-> "recall", job |-> j, copy |-> c]]
      BY <1>6 DEF Close
    <2>5. Approved(c)
      BY <2>1, <2>2 DEF Approved
    <2> HIDE DEF c, j
    <2> QED BY <1>0, <2>2, <2>3, <2>4, <2>5 DEF CopiesEarned
  <1>7. ASSUME NEW w \in Workers, RecallMemory(w)
        PROVE  CopiesEarned'
    BY <1>0, <1>7 DEF RecallMemory, Finish, Idle, CopiesEarned
  <1>8. ASSUME NEW w \in Workers, RememberOutcome(w)
        PROVE  CopiesEarned'
    BY <1>0, <1>8 DEF RememberOutcome, CopiesEarned
  <1>9. ASSUME NEW m \in wire, Upsert(m) \/ LosePost(m)
        PROVE  CopiesEarned'
    BY <1>9 DEF Upsert, LosePost, CopiesEarned
  <1>10. ASSUME Crash PROVE CopiesEarned'
    BY <1>10 DEF Crash, CopiesEarned, Idle
  <1>11. CASE UNCHANGED vars
    BY <1>11 DEF vars, CopiesEarned
  <1> QED BY <1>2, <1>3, <1>4, <1>5, <1>6, <1>7, <1>8, <1>9, <1>10, <1>11 DEF Next

-----------------------------------------------------------------------------
(* How a job file changes                                                  *)

\* A job file keeps its content, loses its verdict, or gets the copy of a
\* thread that has settled it.
LEMMA FileSteps ==
    ASSUME TypeOK, CopiesEarned, [Next]_vars, NEW j \in Jobs
    PROVE  \/ jobFile'[j] = jobFile[j]
           \/ jobFile'[j].status \notin Closed
           \/ \E w \in Workers : /\ worker[w].pc = "settle" /\ worker[w].job = j
                                 /\ jobFile'[j] = worker[w].copy
                                 /\ SaveVerdict(w)
  <1> USE DEF files, gateway, history, Closed
  <1>0. jobFile \in [Jobs -> JobRecord \cup {NoJob, Torn}]
    BY DEF TypeOK
  <1>1. ASSUME NEW w \in Workers, NEW i \in Jobs, CreateJob(w, i)
        PROVE  jobFile'[j] = jobFile[j] \/ jobFile'[j].status \notin Closed
    BY <1>0, <1>1 DEF CreateJob, SaveToPost, SaveJob, Opened
  <1>2. ASSUME NEW w \in Workers, SaveMeasured(w)
        PROVE  jobFile'[j] = jobFile[j] \/ jobFile'[j].status \notin Closed
    BY <1>0, <1>2 DEF SaveMeasured, SaveToPost, SaveJob, CopiesEarned
  <1>3. ASSUME NEW w \in Workers, SaveRefused(w)
        PROVE  jobFile'[j] = jobFile[j] \/ jobFile'[j].status \notin Closed
    <2>1. worker[w].copy \in JobRecord
      BY <1>3, WorkerParts DEF SaveRefused, Loaded
    <2>2. [worker[w].copy EXCEPT !.status = "PARTIAL"].status = "PARTIAL"
      BY <2>1 DEF JobRecord
    <2> QED BY <1>0, <1>3, <2>2 DEF SaveRefused, SaveJob
  <1>4. ASSUME NEW w \in Workers, SaveVerdict(w)
        PROVE  jobFile'[j] = jobFile[j]
               \/ (worker[w].pc = "settle" /\ worker[w].job = j /\ jobFile'[j] = worker[w].copy)
    BY <1>0, <1>4 DEF SaveVerdict, SaveToPost, SaveJob
  <1>5. ASSUME Crash
        PROVE  jobFile'[j] = jobFile[j] \/ jobFile'[j].status \notin Closed
    BY <1>0, <1>5 DEF Crash, Torn
  <1>6. ASSUME NEW w \in Workers, NEW i \in Jobs, RunAgain(w, i) \/ AskApproval(w, i)
        PROVE  jobFile' = jobFile
    BY <1>6 DEF RunAgain, AskApproval
  <1>7. ASSUME NEW w \in Workers,
               LoadToMeasure(w) \/ ScanEnds(w) \/ ScanRaises(w) \/ Gate(w) \/ Close(w)
               \/ RecallMemory(w) \/ RememberOutcome(w) \/ ApproveRaises(w) \/ SyncJob(w)
        PROVE  jobFile' = jobFile
    BY <1>7 DEF LoadToMeasure, ScanEnds, ScanRaises, Gate, Close, RecallMemory,
                RememberOutcome, ApproveRaises, SyncJob
  <1>8. ASSUME NEW m \in wire, Upsert(m) \/ LosePost(m)
        PROVE  jobFile' = jobFile
    BY <1>8 DEF Upsert, LosePost
  <1>9. CASE UNCHANGED vars
    BY <1>9 DEF vars
  <1> QED BY <1>1, <1>2, <1>3, <1>4, <1>5, <1>6, <1>7, <1>8, <1>9 DEF Next

-----------------------------------------------------------------------------
(* Verdicts are earned                                                     *)

LEMMA VerdictsNext ==
    TypeOK /\ CopiesEarned /\ VerdictsEarned /\ [Next]_vars => VerdictsEarned'
  <1> SUFFICES ASSUME TypeOK, CopiesEarned, VerdictsEarned, [Next]_vars,
                      NEW j \in Jobs, HasVerdict(j)'
               PROVE  LET v == jobFile'[j] IN
                      /\ v.basis # NoScan
                      /\ Approved(v)
                      /\ v.status = "CLOSED_OK" => Gaps(v.basis) = {} /\ Evidence(v.basis, j \in L1)
                      /\ v.status = "CLOSED_GAP" => Gaps(v.basis) # {}
    BY DEF VerdictsEarned, Approved
  <1>1. CASE jobFile'[j] = jobFile[j]
    BY <1>1 DEF VerdictsEarned, HasVerdict, Approved
  <1>2. ASSUME NEW w \in Workers, worker[w].pc = "settle", worker[w].job = j,
               jobFile'[j] = worker[w].copy
        PROVE  LET v == jobFile'[j] IN
               /\ v.basis # NoScan
               /\ Approved(v)
               /\ v.status = "CLOSED_OK" => Gaps(v.basis) = {} /\ Evidence(v.basis, j \in L1)
               /\ v.status = "CLOSED_GAP" => Gaps(v.basis) # {}
    <2>1. worker[w].copy \in JobRecord
      BY <1>2, WorkerParts DEF Loaded
    <2>2. worker[w].copy.basis \in Scans \cup {NoScan}
      BY <2>1, CopyParts
    <2>3. worker[w].copy.status = ResolveClosure(worker[w].copy.basis, j \in L1)
      BY <1>2 DEF CopiesEarned, Judged
    <2>4. Approved(worker[w].copy)
      BY <1>2 DEF CopiesEarned, Judged
    <2>5. worker[w].copy.status \in Closed
      BY <1>2 DEF HasVerdict
    <2> DEFINE c == worker[w].copy
    <2>6. /\ ResolveClosure(c.basis, j \in L1) = "CLOSED_OK" =>
                 c.basis # NoScan /\ Gaps(c.basis) = {} /\ Evidence(c.basis, j \in L1)
          /\ ResolveClosure(c.basis, j \in L1) = "CLOSED_GAP" =>
                 c.basis # NoScan /\ Gaps(c.basis) # {}
      <3> DEFINE b == j \in L1
      <3>1. b \in BOOLEAN
        OBVIOUS
      <3>2. c.basis \in Scans \cup {NoScan}
        BY <2>2
      <3> HIDE DEF b, c
      <3>3. /\ ResolveClosure(c.basis, b) = "CLOSED_OK" =>
                   c.basis # NoScan /\ Gaps(c.basis) = {} /\ Evidence(c.basis, b)
            /\ ResolveClosure(c.basis, b) = "CLOSED_GAP" =>
                   c.basis # NoScan /\ Gaps(c.basis) # {}
        BY <3>1, <3>2, ClosureRules
      <3> QED BY <3>3 DEF b
    <2>7. jobFile'[j] = c
      BY <1>2
    <2>8. /\ c.status = ResolveClosure(c.basis, j \in L1)
          /\ Approved(c) /\ c.status \in {"CLOSED_OK", "CLOSED_GAP"}
      BY <2>3, <2>4, <2>5 DEF Closed
    <2>9. /\ c.basis # NoScan /\ Approved(c)
          /\ c.status = "CLOSED_OK" => Gaps(c.basis) = {} /\ Evidence(c.basis, j \in L1)
          /\ c.status = "CLOSED_GAP" => Gaps(c.basis) # {}
      <3> HIDE DEF c
      <3> QED BY <2>6, <2>8
    <2> HIDE DEF c
    <2> QED BY <2>7, <2>9
  <1> QED BY <1>1, <1>2, FileSteps DEF HasVerdict

\* Whatever runs overlap, crash or come late, a verdict in a job file was
\* earned by a scan and an approval.
THEOREM VerdictsAreEarned == Spec => []VerdictsEarned
  <1>1. Init => VerdictsEarned
    BY DEF Init, VerdictsEarned, HasVerdict, NoJob, Closed
  <1> QED BY <1>1, TypeInit, TypeNext, CopiesInit, CopiesNext, VerdictsNext, PTL DEF Spec

-----------------------------------------------------------------------------
(* Who may reopen a closed job                                             *)

LEMMA HoldersNext ==
    TypeOK /\ CopiesEarned /\ OnlyHoldersReopen /\ [Next]_vars => OnlyHoldersReopen'
  <1> SUFFICES ASSUME TypeOK, CopiesEarned, OnlyHoldersReopen, [Next]_vars,
                      NEW j \in Jobs, HasVerdict(j)',
                      NEW v \in Workers, worker'[v].pc \in Loaded, worker'[v].job = j
               PROVE  v \in holders'[j]
    BY DEF OnlyHoldersReopen
  <1> USE DEF Loaded, Posting, files, gateway, history
  <1>0. worker \in [Workers -> WorkerState] /\ holders \in [Jobs -> SUBSET Workers]
    BY DEF TypeOK
  <1>1. ASSUME NEW w \in Workers, SaveVerdict(w)
        PROVE  v \in holders'[j]
    <2>1. v # w /\ worker'[v] = worker[v]
      BY <1>0, <1>1 DEF SaveVerdict, SaveToPost
    <2>2. CASE worker[w].job = j
      BY <1>0, <1>1, <2>1, <2>2 DEF SaveVerdict, HoldersOf
    <2>3. CASE worker[w].job # j
      <3>1. jobFile'[j] = jobFile[j]
        BY <1>1, <2>3 DEF SaveVerdict, SaveToPost, SaveJob, TypeOK
      <3>2. holders'[j] = holders[j]
        BY <1>0, <1>1, <2>3 DEF SaveVerdict
      <3> QED BY <2>1, <3>1, <3>2 DEF OnlyHoldersReopen, HasVerdict
    <2> QED BY <2>2, <2>3
  <1>2. ASSUME jobFile'[j] = jobFile[j], holders' = holders,
               worker[v].pc \in Loaded, worker[v].job = j
        PROVE  v \in holders'[j]
    BY <1>2 DEF OnlyHoldersReopen, HasVerdict
  <1>5. ASSUME NEW w \in Workers, NEW x, worker' = [worker EXCEPT ![w] = x],
               x.pc \notin Loaded, jobFile'[j] = jobFile[j], holders' = holders
        PROVE  v \in holders'[j]
    BY <1>0, <1>2, <1>5
  <1>3. CASE \E w \in Workers : SaveVerdict(w)
    BY <1>1, <1>3
  <1>4. CASE ~ \E w \in Workers : SaveVerdict(w)
    <2>1. jobFile'[j] = jobFile[j]
      BY <1>4, FileSteps DEF HasVerdict
    <2>2. ASSUME NEW w \in Workers, NEW i \in Jobs,
                 CreateJob(w, i) \/ RunAgain(w, i) \/ AskApproval(w, i)
          PROVE  v \in holders'[j]
      BY <1>5, <2>1, <2>2 DEF CreateJob, SaveToPost, RunAgain, AskApproval, Begin
    <2>3. ASSUME NEW w \in Workers,
                 ScanRaises(w) \/ SaveMeasured(w) \/ SaveRefused(w) \/ ApproveRaises(w)
                 \/ SyncJob(w)
          PROVE  v \in holders'[j]
      BY <1>5, <2>1, <2>3 DEF ScanRaises, SaveMeasured, SaveToPost, SaveRefused,
                              ApproveRaises, SyncJob, Begin, Finish, Idle
    <2>4. ASSUME NEW w \in Workers, LoadToMeasure(w)
          PROVE  v \in holders'[j]
      <3>1. jobFile' = jobFile /\ holders' = holders
        BY <2>4 DEF LoadToMeasure
      <3>2. CASE v = w
        <4>1. worker[w].job = j /\ jobFile[j].status \in {"OPEN", "PARTIAL"}
          BY <1>0, <2>4, <3>2 DEF LoadToMeasure, Finish, Idle
        <4> QED BY <3>1, <4>1 DEF HasVerdict, Closed
      <3>3. CASE v # w
        BY <1>0, <1>2, <2>1, <2>4, <3>1, <3>3 DEF LoadToMeasure, Finish
      <3> QED BY <3>2, <3>3
    <2>5. ASSUME NEW w \in Workers, Gate(w)
          PROVE  v \in holders'[j]
      <3>1. jobFile' = jobFile /\ holders' = holders
        BY <2>5 DEF Gate
      <3>2. CASE v = w
        <4>1. worker[w].job = j /\ jobFile[j].status = "PENDING_APPROVAL"
          BY <1>0, <2>5, <3>2 DEF Gate, Finish, Idle
        <4> QED BY <3>1, <4>1 DEF HasVerdict, Closed
      <3>3. CASE v # w
        BY <1>0, <1>2, <2>1, <2>5, <3>1, <3>3 DEF Gate, Finish
      <3> QED BY <3>2, <3>3
    <2>6. ASSUME NEW w \in Workers,
                 ScanEnds(w) \/ Close(w) \/ RecallMemory(w) \/ RememberOutcome(w)
          PROVE  v \in holders'[j]
      BY <1>0, <1>2, <2>1, <2>6 DEF ScanEnds, Close, RecallMemory, RememberOutcome, Finish,
                                    Idle
    <2>7. ASSUME NEW m \in wire, Upsert(m) \/ LosePost(m)
          PROVE  v \in holders'[j]
      BY <1>2, <2>1, <2>7 DEF Upsert, LosePost
    <2>8. ~Crash
      BY DEF Crash, Idle
    <2>9. CASE UNCHANGED vars
      BY <1>2, <2>1, <2>9 DEF vars
    <2> QED BY <1>4, <2>2, <2>3, <2>4, <2>5, <2>6, <2>7, <2>8, <2>9 DEF Next
  <1> QED BY <1>3, <1>4

\* Only a thread that loaded a job before it was closed can change it after.
THEOREM ClosedStaysWithHolders == Spec => []OnlyHoldersReopen
  <1>1. Init => OnlyHoldersReopen
    BY DEF Init, OnlyHoldersReopen, HasVerdict, NoJob, Closed
  <1> QED BY <1>1, TypeInit, TypeNext, CopiesInit, CopiesNext, HoldersNext, PTL DEF Spec

-----------------------------------------------------------------------------
(* The gateway's copy                                                      *)

\* What a thread does between two posts leaves the posts under way as they are.
LEMMA UnderWayKept ==
    ASSUME TypeOK, NEW w \in Workers, NEW x, worker' = [worker EXCEPT ![w] = x],
           worker[w].pc \notin Posting, x.pc \notin Posting, wire' = wire
    PROVE  UnderWay' = UnderWay
  <1>1. \A v \in Workers : worker'[v].pc \in Posting <=> worker[v].pc \in Posting
    BY DEF TypeOK
  <1>2. \A v \in Workers : worker[v].pc \in Posting => worker'[v] = worker[v]
    BY DEF TypeOK
  <1> QED BY <1>1, <1>2 DEF UnderWay

\* A save that will be posted: the file, the one post more, and the lapse.
Posted(j, c, m) ==
    /\ SaveJob(j, c)
    /\ UnderWay' = UnderWay \cup {m}
    /\ lapse' = IF \E n \in UnderWay : n.job = j THEN lapse \cup {j} ELSE lapse \ {j}
    /\ mirror' = mirror

LEMMA SavePosted ==
    ASSUME TypeOK, NEW w \in Workers, NEW j \in Jobs, NEW c \in JobRecord,
           NEW b \in BOOLEAN, NEW step \in Posting, NEW next,
           SaveToPost(w, j, c, b, step, next), worker[w].pc \notin Posting, UNCHANGED gateway
    PROVE  \E i \in Jobs, d \in JobRecord, m \in Post :
              m.job = i /\ m.status = d.status /\ Posted(i, d, m)
  <1> DEFINE m == Message(w, j, c, b)
  <1>1. m \in Post /\ m.job = j /\ m.status = c.status
    BY MessageType
  <1>2. worker' = [worker EXCEPT ![w] = [pc |-> step, job |-> j, next |-> next, post |-> m]]
    BY DEF SaveToPost
  <1> HIDE DEF m
  <1>3. /\ worker'[w].pc \in Posting /\ worker'[w].post = m
        /\ \A v \in Workers \ {w} : worker'[v] = worker[v]
    BY <1>2 DEF TypeOK
  <1>4. wire' = wire /\ mirror' = mirror
    BY DEF gateway
  <1>5. UnderWay' = UnderWay \cup {m}
    BY <1>3, <1>4 DEF UnderWay
  <1>6. Posted(j, c, m)
    BY <1>4, <1>5 DEF Posted, SaveToPost
  <1> QED BY <1>1, <1>6

LEMMA SaveSteps ==
    ASSUME TypeOK, NEW w \in Workers,
           (\E i \in Jobs : CreateJob(w, i)) \/ SaveMeasured(w) \/ SaveVerdict(w)
    PROVE  \E j \in Jobs, c \in JobRecord, m \in Post :
              m.job = j /\ m.status = c.status /\ Posted(j, c, m)
  <1>1. ASSUME NEW i \in Jobs, CreateJob(w, i)
        PROVE  \E j \in Jobs, c \in JobRecord, m \in Post :
                  m.job = j /\ m.status = c.status /\ Posted(j, c, m)
    <2>1. Opened \in JobRecord
      BY DEF Opened, JobRecord, Statuses
    <2>2. worker[w].pc \notin Posting
      BY <1>1 DEF CreateJob, Idle, Posting
    <2> QED BY <1>1, <2>1, <2>2, SavePosted DEF CreateJob, Posting
  <1>2. CASE SaveMeasured(w)
    <2>1. worker[w].job \in Jobs /\ worker[w].copy \in JobRecord
      BY <1>2, WorkerParts DEF SaveMeasured, Loaded
    <2>2. worker[w].pc \notin Posting
      BY <1>2 DEF SaveMeasured, Posting
    <2> QED BY <1>2, <2>1, <2>2, SavePosted DEF SaveMeasured, Posting
  <1>3. CASE SaveVerdict(w)
    <2>1. worker[w].job \in Jobs /\ worker[w].copy \in JobRecord
      BY <1>3, WorkerParts DEF SaveVerdict, Loaded
    <2>2. worker[w].pc \notin Posting
      BY <1>3 DEF SaveVerdict, Posting
    <2> QED BY <1>3, <2>1, <2>2, SavePosted DEF SaveVerdict, Posting
  <1> QED BY <1>1, <1>2, <1>3

\* Whatever step neither saves for a post nor handles one: a post that is gone
\* leaves a lapse, and a file that changes is torn or of a job with a lapse.
LEMMA OtherSteps ==
    ASSUME TypeOK, [Next]_vars,
           \A w \in Workers : /\ ~ \E i \in Jobs : CreateJob(w, i)
                              /\ ~ SaveMeasured(w) /\ ~ SaveVerdict(w),
           \A m \in wire : ~ Upsert(m)
    PROVE  /\ lapse \subseteq lapse' /\ mirror' = mirror
           /\ UnderWay' \subseteq UnderWay
           /\ \A m \in UnderWay : m \in UnderWay' \/ m.job \in lapse'
           /\ \A i \in Jobs : \/ jobFile'[i] = jobFile[i] \/ jobFile'[i] = Torn
                              \/ i \in lapse'
           /\ \A i \in Jobs : saved[i] \subseteq saved'[i]
  <1> DEFINE Goal ==
           /\ lapse \subseteq lapse' /\ mirror' = mirror
           /\ UnderWay' \subseteq UnderWay
           /\ \A m \in UnderWay : m \in UnderWay' \/ m.job \in lapse'
           /\ \A i \in Jobs : \/ jobFile'[i] = jobFile[i] \/ jobFile'[i] = Torn
                              \/ i \in lapse'
           /\ \A i \in Jobs : saved[i] \subseteq saved'[i]
  <1> USE DEF files, gateway, history
  <1>0. worker \in [Workers -> WorkerState]
    BY DEF TypeOK
  <1>1. ASSUME NEW w \in Workers, NEW j \in Jobs, RunAgain(w, j) \/ AskApproval(w, j)
        PROVE  Goal
    <2>1. UnderWay' = UnderWay
      BY <1>1, UnderWayKept DEF RunAgain, AskApproval, Begin, Idle, Posting
    <2> QED BY <1>1, <2>1 DEF RunAgain, AskApproval
  <1>2. ASSUME NEW w \in Workers,
               LoadToMeasure(w) \/ ScanEnds(w) \/ ScanRaises(w) \/ Gate(w) \/ Close(w)
               \/ RecallMemory(w) \/ RememberOutcome(w)
        PROVE  Goal
    <2>1. UnderWay' = UnderWay
      <3>1. CASE LoadToMeasure(w) \/ ScanEnds(w) \/ ScanRaises(w) \/ Close(w)
        BY <3>1, UnderWayKept DEF LoadToMeasure, ScanEnds, ScanRaises, Close, Finish,
                                  Idle, Posting
      <3>2. CASE Gate(w)
        BY <3>2, UnderWayKept DEF Gate, Finish, Idle, Posting
      <3>3. CASE RecallMemory(w) \/ RememberOutcome(w)
        BY <3>3, UnderWayKept DEF RecallMemory, RememberOutcome, Finish, Idle, Posting
      <3> QED BY <1>2, <3>1, <3>2, <3>3
    <2> QED BY <1>2, <2>1 DEF LoadToMeasure, ScanEnds, ScanRaises, Gate, Close,
                              RecallMemory, RememberOutcome
  <1>3. ASSUME NEW w \in Workers, SaveRefused(w)
        PROVE  Goal
    <2>1. worker[w].job \in Jobs
      BY <1>3, WorkerParts DEF SaveRefused
    <2>2. UnderWay' = UnderWay
      BY <1>3, UnderWayKept DEF SaveRefused, Finish, Idle, Posting
    <2>3. /\ lapse' = lapse \cup {worker[w].job} /\ mirror' = mirror
          /\ \A i \in Jobs \ {worker[w].job} : jobFile'[i] = jobFile[i]
          /\ \A i \in Jobs : saved[i] \subseteq saved'[i]
      BY <1>3 DEF SaveRefused, SaveJob, TypeOK
    <2> QED BY <2>2, <2>3
  <1>4. ASSUME NEW w \in Workers, ApproveRaises(w)
        PROVE  Goal
    <2>1. CASE worker[w].pc # "artifacts"
      <3>1. UnderWay' = UnderWay
        BY <1>4, <2>1, UnderWayKept DEF ApproveRaises, Finish, Idle, Posting
      <3> QED BY <1>4, <2>1, <3>1 DEF ApproveRaises
    <2>2. CASE worker[w].pc = "artifacts"
      <3>1. /\ worker'[w].pc = "idle" /\ wire' = wire
            /\ \A v \in Workers \ {w} : worker'[v] = worker[v]
        BY <1>0, <1>4 DEF ApproveRaises, Finish, Idle
      <3>2. lapse' = lapse \cup {worker[w].post.job}
        BY <1>4, <2>2 DEF ApproveRaises
      <3>3. UnderWay' \subseteq UnderWay
        BY <3>1 DEF UnderWay, Posting
      <3>4. \A m \in UnderWay : m \in UnderWay' \/ m = worker[w].post
        BY <3>1 DEF UnderWay, Posting
      <3> QED BY <1>4, <3>2, <3>3, <3>4 DEF ApproveRaises
    <2> QED BY <2>1, <2>2
  <1>5. ASSUME NEW w \in Workers, SyncJob(w)
        PROVE  Goal
    <2>1. /\ worker'[w].pc \notin Posting /\ wire' = wire \cup {worker[w].post}
          /\ worker[w].pc \in Posting
          /\ \A v \in Workers \ {w} : worker'[v] = worker[v]
      BY <1>0, <1>5 DEF SyncJob, Begin, Finish, Idle, Posting
    <2>2. UnderWay' = UnderWay
      BY <2>1 DEF UnderWay
    <2> QED BY <1>5, <2>2 DEF SyncJob
  <1>6. ASSUME NEW n \in wire, LosePost(n)
        PROVE  Goal
    <2>1. /\ wire' = wire \ {n} /\ worker' = worker /\ lapse' = lapse \cup {n.job}
      BY <1>6 DEF LosePost
    <2>2. UnderWay' \subseteq UnderWay /\ \A m \in UnderWay : m \in UnderWay' \/ m = n
      BY <2>1 DEF UnderWay
    <2> QED BY <1>6, <2>1, <2>2 DEF LosePost
  <1>7. ASSUME Crash PROVE Goal
    <2>1. \A i \in Jobs : jobFile'[i] = jobFile[i] \/ jobFile'[i] = Torn
      BY <1>7 DEF Crash, TypeOK
    <2>2. /\ UNCHANGED <<wire, mirror, saved>> /\ \A v \in Workers : worker'[v].pc = "idle"
          /\ lapse' = lapse \cup {worker[w].post.job : w \in {v \in Workers : worker[v].pc \in Posting}}
      BY <1>7 DEF Crash, Idle
    <2>3. UnderWay' \subseteq UnderWay /\ \A m \in UnderWay : m \in UnderWay' \/ m.job \in lapse'
      BY <2>2 DEF UnderWay, Posting
    <2> QED BY <2>1, <2>2, <2>3
  <1>8. CASE UNCHANGED vars
    <2>1. UnderWay' = UnderWay
      BY <1>8 DEF vars, UnderWay
    <2> QED BY <1>8, <2>1 DEF vars
  <1>9. Goal
    BY <1>1, <1>2, <1>3, <1>4, <1>5, <1>6, <1>7, <1>8 DEF Next
  <1> QED BY <1>9

\* What a handled post does.
LEMMA UpsertSteps ==
    ASSUME TypeOK, NEW m \in wire, Upsert(m)
    PROVE  /\ m \in UnderWay /\ m \in Post
           /\ UnderWay' \subseteq UnderWay
           /\ \A n \in UnderWay : n = m \/ n \in UnderWay'
           /\ mirror'[m.job] # NoJob /\ mirror'[m.job].status = m.status
           /\ \A j \in Jobs \ {m.job} : mirror'[j] = mirror[j]
           /\ UNCHANGED <<jobFile, lapse, saved>>
  <1> USE DEF files, gateway, history
  <1>1. m.job \in Jobs /\ m.status \in Statuses /\ m \in Post
    BY DEF TypeOK, Post
  <1>2. /\ mirror'[m.job] # NoJob /\ mirror'[m.job].status = m.status
        /\ \A j \in Jobs \ {m.job} : mirror'[j] = mirror[j]
    BY <1>1 DEF Upsert, TypeOK, NoJob, Statuses
  <1>3. wire' = wire \ {m} /\ worker' = worker /\ UNCHANGED <<jobFile, lapse, saved>>
    BY DEF Upsert
  <1> QED BY <1>1, <1>2, <1>3 DEF UnderWay

LEMMA MirrorNext == TypeOK /\ MirrorNeverAhead /\ [Next]_vars => MirrorNeverAhead'
  <1> SUFFICES ASSUME TypeOK, MirrorNeverAhead, [Next]_vars PROVE MirrorNeverAhead'
    OBVIOUS
  <1>0. \A m \in UnderWay : m.job \in Jobs
    BY WorkerParts DEF UnderWay, TypeOK, Post, Posting
  <1>1. ASSUME NEW w \in Workers,
               (\E i \in Jobs : CreateJob(w, i)) \/ SaveMeasured(w) \/ SaveVerdict(w)
        PROVE  MirrorNeverAhead'
    <2>1. PICK j \in Jobs, c \in JobRecord, m \in Post :
             m.job = j /\ m.status = c.status /\ Posted(j, c, m)
      BY <1>1, SaveSteps
    <2>2. /\ \A i \in Jobs : saved[i] \subseteq saved'[i]
          /\ c.status \in saved'[j]
      BY <2>1 DEF TypeOK, Posted, SaveJob
    <2>3. UnderWay' = UnderWay \cup {m} /\ mirror' = mirror
      BY <2>1 DEF Posted
    <2> QED BY <1>0, <2>1, <2>2, <2>3 DEF MirrorNeverAhead
  <1>2. ASSUME NEW m \in wire, Upsert(m)
        PROVE  MirrorNeverAhead'
    <2>1. m.job \in Jobs /\ m.status \in saved[m.job]
      BY <1>0, <1>2, UpsertSteps DEF MirrorNeverAhead
    <2> QED BY <1>2, <2>1, UpsertSteps DEF MirrorNeverAhead
  <1>3. CASE /\ \A w \in Workers : /\ ~ \E i \in Jobs : CreateJob(w, i)
                                   /\ ~ SaveMeasured(w) /\ ~ SaveVerdict(w)
             /\ \A m \in wire : ~ Upsert(m)
    <2>1. /\ UnderWay' \subseteq UnderWay /\ mirror' = mirror
          /\ \A i \in Jobs : saved[i] \subseteq saved'[i]
      BY <1>3, OtherSteps
    <2> QED BY <1>0, <2>1 DEF MirrorNeverAhead
  <1> QED BY <1>1, <1>2, <1>3

\* The gateway never shows, nor is sent, a status the job file did not have
\* first.
THEOREM MirrorIsNeverAhead == Spec => []MirrorNeverAhead
  <1>1. Init => MirrorNeverAhead
    BY DEF Init, MirrorNeverAhead, UnderWay, Idle, Posting
  <1> QED BY <1>1, TypeInit, TypeNext, MirrorNext, PTL DEF Spec

\* While a job has no lapse, it has at most one post under way, with the status
\* of the file.
PostsCurrent ==
    \A j \in Jobs : j \notin lapse /\ Readable(j) =>
        /\ \A m, n \in UnderWay : m.job = j /\ n.job = j => m = n
        /\ \A m \in UnderWay : m.job = j => m.status = jobFile[j].status

LEMMA SettlesPosted ==
    ASSUME TypeOK, MirrorSettles, PostsCurrent, NEW j \in Jobs, NEW c \in JobRecord,
           NEW m \in Post, m.job = j, m.status = c.status, Posted(j, c, m)
    PROVE  MirrorSettles' /\ PostsCurrent'
  <1>1. /\ jobFile'[j] = c /\ \A i \in Jobs \ {j} : jobFile'[i] = jobFile[i]
        /\ UnderWay' = UnderWay \cup {m} /\ mirror' = mirror
    BY DEF Posted, SaveJob, TypeOK
  <1>2. ASSUME j \notin lapse' PROVE \A n \in UnderWay : n.job # j
    BY <1>2 DEF Posted
  <1>3. \A i \in Jobs \ {j} : i \in lapse' <=> i \in lapse
    BY DEF Posted
  <1>4. ASSUME NEW i \in Jobs, i \notin lapse', Readable(i)'
        PROVE  /\ \A k, n \in UnderWay' : k.job = i /\ n.job = i => k = n
               /\ \A n \in UnderWay' : n.job = i => n.status = jobFile'[i].status
    <2>1. CASE i = j
      BY <1>1, <1>2, <1>4, <2>1
    <2>2. CASE i # j
      <3>1. Readable(i) /\ i \notin lapse /\ jobFile'[i] = jobFile[i]
        BY <1>1, <1>3, <1>4, <2>2 DEF Readable
      <3> QED BY <1>1, <2>2, <3>1 DEF PostsCurrent
    <2> QED BY <2>1, <2>2
  <1>5. ASSUME NEW i \in Jobs, Readable(i)', i \notin lapse', \A n \in UnderWay' : n.job # i
        PROVE  mirror'[i] # NoJob /\ mirror'[i].status = jobFile'[i].status
    <2>1. i # j
      BY <1>1, <1>5
    <2>2. Readable(i) /\ i \notin lapse /\ jobFile'[i] = jobFile[i]
      BY <1>1, <1>3, <1>5, <2>1 DEF Readable
    <2> QED BY <1>1, <1>5, <2>2 DEF MirrorSettles
  <1> QED BY <1>4, <1>5 DEF PostsCurrent, MirrorSettles

LEMMA SettlesNext ==
    TypeOK /\ MirrorSettles /\ PostsCurrent /\ [Next]_vars => MirrorSettles' /\ PostsCurrent'
  <1> SUFFICES ASSUME TypeOK, MirrorSettles, PostsCurrent, [Next]_vars
               PROVE  MirrorSettles' /\ PostsCurrent'
    OBVIOUS
  <1>1. ASSUME NEW w \in Workers,
               (\E i \in Jobs : CreateJob(w, i)) \/ SaveMeasured(w) \/ SaveVerdict(w)
        PROVE  MirrorSettles' /\ PostsCurrent'
    BY <1>1, SaveSteps, SettlesPosted
  <1>2. ASSUME NEW m \in wire, Upsert(m)
        PROVE  MirrorSettles' /\ PostsCurrent'
    <2>1. /\ m \in UnderWay /\ UnderWay' \subseteq UnderWay
          /\ \A n \in UnderWay : n = m \/ n \in UnderWay'
          /\ mirror'[m.job] # NoJob /\ mirror'[m.job].status = m.status
          /\ \A j \in Jobs \ {m.job} : mirror'[j] = mirror[j]
          /\ UNCHANGED <<jobFile, lapse>>
      BY <1>2, UpsertSteps
    <2>2. PostsCurrent'
      BY <2>1 DEF PostsCurrent, Readable
    <2>3. ASSUME NEW j \in Jobs, Readable(j)', j \notin lapse', \A n \in UnderWay' : n.job # j
          PROVE  mirror'[j] # NoJob /\ mirror'[j].status = jobFile'[j].status
      <3>1. Readable(j) /\ j \notin lapse
        BY <2>1, <2>3 DEF Readable
      <3>2. CASE j = m.job
        BY <2>1, <3>1, <3>2 DEF PostsCurrent
      <3>3. CASE j # m.job
        BY <2>1, <2>3, <3>1, <3>3 DEF MirrorSettles
      <3> QED BY <3>2, <3>3
    <2> QED BY <2>2, <2>3 DEF MirrorSettles
  <1>3. CASE /\ \A w \in Workers : /\ ~ \E i \in Jobs : CreateJob(w, i)
                                   /\ ~ SaveMeasured(w) /\ ~ SaveVerdict(w)
             /\ \A m \in wire : ~ Upsert(m)
    <2>1. /\ lapse \subseteq lapse' /\ mirror' = mirror
          /\ UnderWay' \subseteq UnderWay
          /\ \A m \in UnderWay : m \in UnderWay' \/ m.job \in lapse'
          /\ \A i \in Jobs : \/ jobFile'[i] = jobFile[i] \/ jobFile'[i] = Torn
                             \/ i \in lapse'
      BY <1>3, OtherSteps
    <2>2. PostsCurrent'
      BY <2>1 DEF PostsCurrent, Readable
    <2>3. MirrorSettles'
      BY <2>1 DEF MirrorSettles, Readable
    <2> QED BY <2>2, <2>3
  <1> QED BY <1>1, <1>2, <1>3

\* With no post of a job under way, the gateway shows the status of the file,
\* unless the last change was a rejection or its post was lost, never sent, or
\* sent beside another of the job.
THEOREM MirrorSettlesAlways == Spec => []MirrorSettles
  <1>1. Init => MirrorSettles /\ PostsCurrent
    BY DEF Init, MirrorSettles, PostsCurrent, Readable
  <1> QED BY <1>1, TypeInit, TypeNext, SettlesNext, PTL DEF Spec

-----------------------------------------------------------------------------
(* How often the host history counts a job                                 *)

Times(j, h) == Cardinality(EntriesOf(j, h))

LEMMA TimesType ==
    ASSUME NEW h \in Seq(Entry), NEW j
    PROVE  IsFiniteSet(EntriesOf(j, h)) /\ Times(j, h) \in Nat
  <1>1. EntriesOf(j, h) \subseteq 1 .. Len(h) /\ Len(h) \in Nat
    BY LenProperties DEF EntriesOf
  <1>2. IsFiniteSet(1 .. Len(h))
    BY <1>1, FS_Interval
  <1> QED BY <1>1, <1>2, FS_Subset, FS_CardinalityType DEF Times

\* One more outcome adds one entry, of its own job, and the cut adds none.
LEMMA TimesRecorded ==
    ASSUME NEW i \in Jobs, NEW j \in Jobs, NEW status \in Statuses, NEW h \in Seq(Entry)
    PROVE  LET r == Recorded(j, status, h) IN
           /\ i = j => Times(i, r) <= Times(i, h) + 1
           /\ i # j => Times(i, r) <= Times(i, h)
  <1> DEFINE r == Recorded(j, status, h)
             S == EntriesOf(i, h)
             R == EntriesOf(i, r)
             T == R \ {1}
             f == [k \in T |-> k - 1]
  <1>1. /\ r \in Seq(Entry)
        /\ Len(h) \in Nat /\ Len(r) \in 1 .. Len(h) + 1
        /\ r[1].job = j
        /\ \A k \in 1 .. Len(r) - 1 : k \in 1 .. Len(h) /\ r[k + 1] = h[k]
    <2>1. /\ r \in Seq(Entry)
          /\ Len(h) \in Nat /\ Len(r) \in 1 .. Len(h) + 1
          /\ r[1] = [job |-> j, status |-> status]
          /\ \A k \in 1 .. Len(r) - 1 : k \in 1 .. Len(h) /\ r[k + 1] = h[k]
      BY RecordedParts, Zenon
    <2> HIDE DEF r
    <2> QED BY <2>1
  <1> HIDE DEF r
  <1>2. DOMAIN r = 1 .. Len(r) /\ DOMAIN h = 1 .. Len(h)
    BY <1>1, LenProperties
  <1>3. ASSUME NEW k \in T
        PROVE  k \in Int /\ k - 1 \in S
    <2>1. k \in 1 .. Len(r) /\ r[k].job = i /\ k # 1
      BY <1>2, <1>3 DEF EntriesOf
    <2>2. k - 1 \in 1 .. Len(r) - 1 /\ (k - 1) + 1 = k
      BY <1>1, <2>1
    <2> QED BY <1>1, <1>2, <2>1, <2>2 DEF EntriesOf
  <1>4. f \in Injection(T, S)
    <2>1. f \in [T -> S]
      BY <1>3
    <2>2. \A a, b \in T : f[a] = f[b] => a = b
      BY <1>3
    <2> QED BY <2>1, <2>2 DEF Injection, IsInjective
  <1>5. IsFiniteSet(S) /\ Times(i, h) = Cardinality(S) /\ Times(i, h) \in Nat
    BY TimesType DEF Times
  <1>6. IsFiniteSet(R) /\ Times(i, r) = Cardinality(R) /\ Times(i, r) \in Nat
    BY <1>1, TimesType DEF Times
  <1>7. IsFiniteSet(T) /\ Cardinality(T) <= Cardinality(S)
    <2> HIDE DEF f, T, S, R
    <2> QED BY <1>4, <1>5, FS_Injection
  <1>8. CASE 1 \in R
    <2>1. i = j
      BY <1>1, <1>8 DEF EntriesOf
    <2>2. Cardinality(T) = Cardinality(R) - 1
      BY <1>6, <1>8, FS_RemoveElement
    <2>3. Cardinality(T) \in Nat
      BY <1>7, FS_CardinalityType
    <2> HIDE DEF T, S, R
    <2> QED BY <1>5, <1>6, <1>7, <2>1, <2>2, <2>3 DEF r
  <1>9. CASE 1 \notin R
    <2>1. T = R
      BY <1>9
    <2> HIDE DEF T, S, R
    <2> QED BY <1>5, <1>6, <1>7, <2>1 DEF r
  <1> QED BY <1>8, <1>9

\* Threads that passed the gate of a job and have not counted it yet.
Pending(j) == {w \in Workers : worker[w].pc \in {"close", "recall", "remember"}
                               /\ worker[w].job = j}

\* What is counted, in the file or in a loaded copy of it, leaves room for the
\* threads that will count.
Counted ==
    \A j \in Jobs :
        /\ Times(j, memory.history) + Cardinality(Pending(j)) <= passed[j]
        /\ \A w \in Workers : worker[w].pc = "remember" =>
              Times(j, worker[w].recalled) + Cardinality(Pending(j)) <= passed[j]

LEMMA PendingFinite == \A j \in Jobs : IsFiniteSet(Pending(j)) /\ Cardinality(Pending(j)) \in Nat
  <1> SUFFICES ASSUME NEW j \in Jobs
               PROVE  IsFiniteSet(Pending(j)) /\ Cardinality(Pending(j)) \in Nat
    OBVIOUS
  <1>1. Pending(j) \subseteq Workers
    BY DEF Pending
  <1> QED BY <1>1, JobsAssumption, FS_Subset, FS_CardinalityType

\* One thread less, and all else equal.
LEMMA PendingLess ==
    ASSUME NEW S, NEW T, NEW w, IsFiniteSet(S), T = S \ {w}, w \in S
    PROVE  IsFiniteSet(T) /\ Cardinality(T) = Cardinality(S) - 1
  BY FS_RemoveElement

LEMMA PendingMore ==
    ASSUME NEW S, NEW T, NEW w, IsFiniteSet(S), T = S \cup {w}, w \notin S
    PROVE  IsFiniteSet(T) /\ Cardinality(T) = Cardinality(S) + 1
  BY FS_AddElement

LEMMA PendingFewer ==
    ASSUME NEW S, NEW T, IsFiniteSet(S), T \subseteq S
    PROVE  IsFiniteSet(T) /\ Cardinality(T) <= Cardinality(S) /\ Cardinality(T) \in Nat
  BY FS_Subset, FS_CardinalityType

\* A step that lets no thread begin to count, and recalls or writes nothing.
LEMMA CountedKept ==
    ASSUME TypeOK, Counted, UNCHANGED passed,
           memory'.history = memory.history,
           \A v \in Workers : worker'[v].pc = "remember" =>
               worker[v].pc = "remember" /\ worker'[v].recalled = worker[v].recalled,
           \A v \in Workers :
               worker'[v].pc \in {"close", "recall", "remember"} =>
                   /\ worker[v].pc \in {"close", "recall", "remember"}
                   /\ worker'[v].job = worker[v].job
    PROVE  Counted'
  <1> SUFFICES ASSUME NEW j \in Jobs
               PROVE  /\ Times(j, memory'.history) + Cardinality(Pending(j)') <= passed'[j]
                      /\ \A w \in Workers : worker'[w].pc = "remember" =>
                            Times(j, worker'[w].recalled) + Cardinality(Pending(j)') <= passed'[j]
    BY DEF Counted
  <1>1. Pending(j)' \subseteq Pending(j)
    BY DEF Pending
  <1>2. /\ Cardinality(Pending(j)') <= Cardinality(Pending(j))
        /\ Cardinality(Pending(j)') \in Nat /\ Cardinality(Pending(j)) \in Nat
    BY <1>1, PendingFinite, PendingFewer
  <1>3. Times(j, memory.history) \in Nat /\ passed[j] \in Nat
    BY TimesType DEF TypeOK
  <1>4. \A w \in Workers : worker[w].pc = "remember" => Times(j, worker[w].recalled) \in Nat
    BY WorkerParts, TimesType
  <1> QED BY <1>2, <1>3, <1>4 DEF Counted

LEMMA CountedNext == TypeOK /\ Counted /\ [Next]_vars => Counted'
  <1> SUFFICES ASSUME TypeOK, Counted, [Next]_vars PROVE Counted'
    OBVIOUS
  <1> USE DEF files, gateway, history
  <1>0. worker \in [Workers -> WorkerState]
    BY DEF TypeOK
  <1>1. ASSUME NEW w \in Workers, NEW x, worker' = [worker EXCEPT ![w] = x],
               x.pc \notin {"close", "recall", "remember"},
               UNCHANGED <<memory, passed>>
        PROVE  Counted'
    BY <1>0, <1>1, CountedKept
  <1>2. ASSUME NEW w \in Workers, NEW j \in Jobs,
               CreateJob(w, j) \/ RunAgain(w, j) \/ AskApproval(w, j)
        PROVE  Counted'
    BY <1>1, <1>2 DEF CreateJob, SaveToPost, RunAgain, AskApproval, Begin
  <1>3. ASSUME NEW w \in Workers,
               LoadToMeasure(w) \/ ScanEnds(w) \/ ScanRaises(w) \/ SaveMeasured(w)
               \/ SaveRefused(w) \/ SaveVerdict(w) \/ ApproveRaises(w) \/ SyncJob(w)
        PROVE  Counted'
    BY <1>1, <1>3 DEF LoadToMeasure, ScanEnds, ScanRaises, SaveMeasured, SaveRefused,
                      SaveVerdict, SaveToPost, ApproveRaises, SyncJob, Begin, Finish, Idle, Posting
  <1>4. ASSUME NEW w \in Workers, Gate(w)
        PROVE  Counted'
    <2> DEFINE j == worker[w].job
    <2>1. j \in Jobs /\ worker[w].yes \in BOOLEAN
      BY <1>4, WorkerParts DEF Gate
    <2>2. CASE Readable(j) /\ jobFile[j].status = "PENDING_APPROVAL" /\ worker[w].yes
      <3>1. /\ worker'[w].pc = "close" /\ worker'[w].job = j
            /\ \A v \in Workers \ {w} : worker'[v] = worker[v]
        BY <1>0, <1>4, <2>2 DEF Gate
      <3>2. passed' = [passed EXCEPT ![j] = @ + 1] /\ memory' = memory
        BY <1>4, <2>2 DEF Gate
      <3>3. worker[w].pc = "gate"
        BY <1>4 DEF Gate
      <3>4. ASSUME NEW i \in Jobs
            PROVE  /\ Times(i, memory'.history) + Cardinality(Pending(i)') <= passed'[i]
                   /\ \A v \in Workers : worker'[v].pc = "remember" =>
                         Times(i, worker'[v].recalled) + Cardinality(Pending(i)') <= passed'[i]
        <4>1. Times(i, memory.history) \in Nat /\ passed[i] \in Nat /\ passed \in [Jobs -> Nat]
          BY TimesType DEF TypeOK
        <4>2. \A v \in Workers : worker'[v].pc = "remember" =>
                 /\ worker[v].pc = "remember" /\ worker'[v].recalled = worker[v].recalled
                 /\ Times(i, worker[v].recalled) \in Nat
          BY <3>1, WorkerParts, TimesType
        <4>3. Cardinality(Pending(i)) \in Nat /\ IsFiniteSet(Pending(i))
          BY PendingFinite
        <4>4. CASE i = j
          <5>1. Pending(i)' = Pending(i) \cup {w} /\ w \notin Pending(i)
            BY <3>1, <3>3, <4>4 DEF Pending
          <5>2. Cardinality(Pending(i)') = Cardinality(Pending(i)) + 1
            BY <4>3, <5>1, PendingMore
          <5>3. passed'[i] = passed[i] + 1
            BY <2>1, <3>2, <4>1, <4>4
          <5> QED BY <3>2, <4>1, <4>2, <4>3, <5>2, <5>3 DEF Counted
        <4>5. CASE i # j
          <5>1. Pending(i)' = Pending(i)
            BY <3>1, <3>3, <4>5 DEF Pending
          <5>2. passed'[i] = passed[i]
            BY <3>2, <4>1, <4>5
          <5> QED BY <3>2, <4>1, <4>2, <4>3, <5>1, <5>2 DEF Counted
        <4> QED BY <4>4, <4>5
      <3> QED BY <3>4 DEF Counted
    <2>3. CASE ~(Readable(j) /\ jobFile[j].status = "PENDING_APPROVAL" /\ worker[w].yes)
      <3>1. passed' = passed \/ passed' = [passed EXCEPT ![j] = @]
        BY <1>4, <2>3, Zenon DEF Gate
      <3>2. passed' = passed
        BY <3>1 DEF TypeOK
      <3> QED BY <1>1, <1>4, <2>3, <3>2 DEF Gate, Finish, Idle
    <2> QED BY <2>2, <2>3
  <1>5. ASSUME NEW w \in Workers, Close(w)
        PROVE  Counted'
    <2>1. /\ worker'[w].pc = "recall" /\ worker'[w].job = worker[w].job
          /\ \A v \in Workers \ {w} : worker'[v] = worker[v]
      BY <1>0, <1>5 DEF Close
    <2> QED BY <1>5, <2>1, CountedKept DEF Close
  <1>6. ASSUME NEW w \in Workers, RecallMemory(w)
        PROVE  Counted'
    <2>1. CASE memory.torn
      BY <1>1, <1>6, <2>1 DEF RecallMemory, Finish, Idle
    <2>2. CASE ~memory.torn
      <3>1. /\ worker'[w].pc = "remember" /\ worker'[w].job = worker[w].job
            /\ worker'[w].recalled = memory.history
            /\ \A v \in Workers \ {w} : worker'[v] = worker[v]
        BY <1>0, <1>6, <2>2 DEF RecallMemory
      <3>2. worker[w].pc = "recall" /\ memory' = memory /\ passed' = passed
        BY <1>6 DEF RecallMemory
      <3>3. \A j \in Jobs : Pending(j)' = Pending(j)
        BY <3>1, <3>2 DEF Pending
      <3> QED BY <3>1, <3>2, <3>3 DEF Counted
    <2> QED BY <2>1, <2>2
  <1>7. ASSUME NEW w \in Workers, RememberOutcome(w)
        PROVE  Counted'
    <2> DEFINE j == worker[w].job
    <2>1. /\ j \in Jobs /\ worker[w].recalled \in Seq(Entry)
          /\ worker[w].pc = "remember" /\ worker[w].copy \in JobRecord
      BY <1>7, WorkerParts DEF RememberOutcome, Loaded
    <2>2. /\ worker'[w].pc = "settle"
          /\ \A v \in Workers \ {w} : worker'[v] = worker[v]
      BY <1>0, <1>7 DEF RememberOutcome
    <2>3. /\ memory'.history = Recorded(j, worker[w].copy.status, worker[w].recalled)
          /\ passed' = passed
      BY <1>7 DEF RememberOutcome
    <2>4. ASSUME NEW i \in Jobs
          PROVE  /\ Times(i, memory'.history) + Cardinality(Pending(i)') <= passed'[i]
                 /\ \A v \in Workers : worker'[v].pc = "remember" =>
                       Times(i, worker'[v].recalled) + Cardinality(Pending(i)') <= passed'[i]
      <3>1. passed[i] \in Nat /\ Times(i, worker[w].recalled) \in Nat
        BY <2>1, TimesType DEF TypeOK
      <3>2. \A v \in Workers : worker'[v].pc = "remember" =>
               /\ worker[v].pc = "remember" /\ worker'[v].recalled = worker[v].recalled
               /\ Times(i, worker[v].recalled) \in Nat
        BY <2>2, WorkerParts, TimesType
      <3>3. Cardinality(Pending(i)) \in Nat /\ IsFiniteSet(Pending(i))
        BY PendingFinite
      <3>4. Times(i, worker[w].recalled) + Cardinality(Pending(i)) <= passed[i]
        BY <2>1 DEF Counted
      <3>5. /\ Times(i, memory'.history) \in Nat
            /\ i = j => Times(i, memory'.history) <= Times(i, worker[w].recalled) + 1
            /\ i # j => Times(i, memory'.history) <= Times(i, worker[w].recalled)
        <4>1. worker[w].copy.status \in Statuses
          BY <2>1, CopyParts
        <4> DEFINE r == Recorded(j, worker[w].copy.status, worker[w].recalled)
        <4>2. r \in Seq(Entry)
          BY <2>1, <4>1, RecordedParts, Zenon
        <4>3. /\ i = j => Times(i, r) <= Times(i, worker[w].recalled) + 1
              /\ i # j => Times(i, r) <= Times(i, worker[w].recalled)
          BY <2>1, <4>1, TimesRecorded, Zenon
        <4> HIDE DEF r
        <4>4. Times(i, r) \in Nat
          BY <4>2, TimesType
        <4> QED BY <2>3, <4>3, <4>4 DEF r
      <3>6. CASE i = j
        <4>1. Pending(i)' = Pending(i) \ {w} /\ w \in Pending(i)
          BY <2>1, <2>2, <3>6 DEF Pending
        <4>2. Cardinality(Pending(i)') = Cardinality(Pending(i)) - 1
          BY <3>3, <4>1, PendingLess
        <4> QED BY <2>3, <3>1, <3>2, <3>3, <3>4, <3>5, <3>6, <4>2 DEF Counted
      <3>7. CASE i # j
        <4>1. Pending(i)' = Pending(i)
          BY <2>1, <2>2, <3>7 DEF Pending
        <4> QED BY <2>3, <3>1, <3>2, <3>3, <3>4, <3>5, <3>7, <4>1 DEF Counted
      <3> QED BY <3>6, <3>7
    <2> QED BY <2>4 DEF Counted
  <1>8. ASSUME NEW m \in wire, Upsert(m) \/ LosePost(m)
        PROVE  Counted'
    BY <1>8, CountedKept DEF Upsert, LosePost
  <1>9. ASSUME Crash PROVE Counted'
    <2>1. memory'.history = memory.history
      BY <1>9 DEF Crash, TypeOK
    <2> QED BY <1>9, <2>1, CountedKept DEF Crash, Idle
  <1>10. CASE UNCHANGED vars
    BY <1>10, CountedKept DEF vars
  <1> QED BY <1>2, <1>3, <1>4, <1>5, <1>6, <1>7, <1>8, <1>9, <1>10 DEF Next

\* The history counts a job at most once for each approval that passed.
THEOREM CountedOncePerApproval == Spec => []CountedPerApproval
  <1>1. Init => Counted
    <2> SUFFICES ASSUME Init, NEW j \in Jobs
                 PROVE  /\ Times(j, memory.history) + Cardinality(Pending(j)) <= passed[j]
                        /\ \A w \in Workers : worker[w].pc # "remember"
      BY DEF Counted
    <2>1. Pending(j) = {}
      BY DEF Init, Pending, Idle
    <2>2. Cardinality(Pending(j)) = 0
      BY <2>1, FS_EmptySet
    <2>3. \A w \in Workers : worker[w].pc # "remember"
      BY DEF Init, Idle
    <2>4. EntriesOf(j, memory.history) = {}
      BY DEF Init, EntriesOf
    <2>5. Times(j, memory.history) = 0
      BY <2>4, FS_EmptySet DEF Times
    <2> QED BY <2>2, <2>3, <2>5 DEF Init
  <1>2. TypeOK /\ Counted => CountedPerApproval
    <2> SUFFICES ASSUME TypeOK, Counted, NEW j \in Jobs
                 PROVE  Times(j, memory.history) <= passed[j]
      BY DEF CountedPerApproval, Times
    <2>1. Times(j, memory.history) \in Nat /\ passed[j] \in Nat
      BY TimesType DEF TypeOK
    <2> QED BY <2>1, PendingFinite DEF Counted
  <1> QED BY <1>1, <1>2, TypeInit, TypeNext, CountedNext, PTL DEF Spec

-----------------------------------------------------------------------------
(* What the host history keeps                                             *)

WasIn(e, o) == \E k \in DOMAIN o : o[k] = e
Verdict(j, c) == [job |-> j, status |-> c.status]

\* While no two threads had the history loaded at once, a loaded copy is what
\* the file holds, and that is the newest of all outcomes; an outcome that is
\* settled, in a thread or in a job file, was recorded.
HistoryExact ==
    /\ memory.torn => \A w \in Workers : worker[w].pc # "remember"
    /\ ~raced => \A w \in Workers : worker[w].pc = "remember" =>
          /\ worker[w].recalled = memory.history
          /\ \A v \in Workers : worker[v].pc = "remember" => v = w
    /\ ~raced => memory.history = Newest(outcomes)
    /\ \A w \in Workers : worker[w].pc = "settle" =>
          WasIn(Verdict(worker[w].job, worker[w].copy), outcomes)
    /\ \A j \in Jobs : HasVerdict(j) => WasIn(Verdict(j, jobFile[j]), outcomes)

LEMMA HistoryKept ==
    ASSUME TypeOK, CopiesEarned, [Next]_vars, HistoryExact,
           UNCHANGED <<memory, raced, outcomes>>,
           \A v \in Workers : worker'[v].pc \in {"remember", "settle"} => worker'[v] = worker[v]
    PROVE  HistoryExact'
  <1>1. \A e : WasIn(e, outcomes') <=> WasIn(e, outcomes)
    BY DEF WasIn
  <1>2. \A j \in Jobs : HasVerdict(j)' => WasIn(Verdict(j, jobFile'[j]), outcomes')
    BY <1>1, FileSteps DEF HasVerdict, Verdict, HistoryExact
  <1>3. /\ memory'.torn => \A w \in Workers : worker'[w].pc # "remember"
        /\ ~raced' => \A w \in Workers : worker'[w].pc = "remember" =>
              /\ worker'[w].recalled = memory'.history
              /\ \A v \in Workers : worker'[v].pc = "remember" => v = w
        /\ ~raced' => memory'.history = Newest(outcomes)'
    BY DEF HistoryExact, Newest
  <1>4. \A w \in Workers : worker'[w].pc = "settle" =>
           WasIn(Verdict(worker'[w].job, worker'[w].copy), outcomes')
    BY <1>1 DEF HistoryExact, Verdict
  <1> QED BY <1>2, <1>3, <1>4 DEF HistoryExact, Verdict

\* What was recorded stays recorded, and the new outcome is.
LEMMA RecordedMore ==
    ASSUME TypeOK, NEW e \in Entry, outcomes' = <<e>> \o outcomes
    PROVE  WasIn(e, outcomes') /\ \A d : WasIn(d, outcomes) => WasIn(d, outcomes')
  <1>1. outcomes \in Seq(Entry)
    BY DEF TypeOK
  <1>2. /\ outcomes' \in Seq(Entry)
        /\ Len(outcomes) \in Nat /\ Len(outcomes') = Len(outcomes) + 1
        /\ outcomes'[1] = e
        /\ \A i \in 1 .. Len(outcomes) : outcomes'[i + 1] = outcomes[i]
    BY <1>1, HeadParts
  <1>3. DOMAIN outcomes = 1 .. Len(outcomes) /\ DOMAIN outcomes' = 1 .. Len(outcomes) + 1
    BY <1>1, <1>2, LenProperties
  <1>4. WasIn(e, outcomes')
    BY <1>2, <1>3 DEF WasIn
  <1>5. ASSUME NEW d, WasIn(d, outcomes)
        PROVE  WasIn(d, outcomes')
    <2>1. PICK k \in 1 .. Len(outcomes) : outcomes[k] = d
      BY <1>3, <1>5 DEF WasIn
    <2>2. k + 1 \in DOMAIN outcomes' /\ outcomes'[k + 1] = d
      BY <1>2, <1>3, <2>1
    <2> QED BY <2>2 DEF WasIn
  <1> QED BY <1>4, <1>5

LEMMA HistoryNext ==
    TypeOK /\ CopiesEarned /\ HistoryExact /\ [Next]_vars => HistoryExact'
  <1> SUFFICES ASSUME TypeOK, CopiesEarned, HistoryExact, [Next]_vars
               PROVE  HistoryExact'
    OBVIOUS
  <1> USE DEF files, gateway, history
  <1>0. worker \in [Workers -> WorkerState]
    BY DEF TypeOK
  <1>2. ASSUME NEW w \in Workers, NEW x, worker' = [worker EXCEPT ![w] = x],
               x.pc \notin {"remember", "settle"}, UNCHANGED <<memory, raced, outcomes>>
        PROVE  HistoryExact'
    <2>1. \A v \in Workers : worker'[v].pc \in {"remember", "settle"} => worker'[v] = worker[v]
      BY <1>0, <1>2
    <2> QED BY <1>2, <2>1, HistoryKept
  <1>3. ASSUME NEW w \in Workers, NEW j \in Jobs,
               CreateJob(w, j) \/ RunAgain(w, j) \/ AskApproval(w, j)
        PROVE  HistoryExact'
    BY <1>2, <1>3 DEF CreateJob, SaveToPost, RunAgain, AskApproval, Begin
  <1>4. ASSUME NEW w \in Workers,
               LoadToMeasure(w) \/ ScanEnds(w) \/ ScanRaises(w) \/ SaveMeasured(w)
               \/ SaveRefused(w) \/ SaveVerdict(w) \/ Close(w) \/ ApproveRaises(w)
               \/ SyncJob(w)
        PROVE  HistoryExact'
    BY <1>2, <1>4 DEF LoadToMeasure, ScanEnds, ScanRaises, SaveMeasured, SaveRefused,
                      SaveVerdict, SaveToPost, Close, ApproveRaises, SyncJob, Begin,
                      Finish, Idle, Posting
  <1>5. ASSUME NEW w \in Workers, Gate(w)
        PROVE  HistoryExact'
    <2>1. UNCHANGED <<memory, raced, outcomes>>
      BY <1>5 DEF Gate
    <2>2. \A v \in Workers : worker'[v].pc \in {"remember", "settle"} => worker'[v] = worker[v]
      BY <1>0, <1>5 DEF Gate, Finish, Idle
    <2> QED BY <2>1, <2>2, HistoryKept
  <1>6. ASSUME NEW w \in Workers, RecallMemory(w)
        PROVE  HistoryExact'
    <2>1. /\ worker[w].pc = "recall" /\ memory' = memory /\ jobFile' = jobFile
          /\ outcomes' = outcomes
      BY <1>6 DEF RecallMemory
    <2>2. CASE memory.torn
      BY <1>2, <1>6, <2>1, <2>2 DEF RecallMemory, Finish, Idle
    <2>3. CASE ~memory.torn
      <3>1. /\ worker'[w].pc = "remember" /\ worker'[w].recalled = memory.history
            /\ \A v \in Workers \ {w} : worker'[v] = worker[v]
            /\ raced' = (raced \/ \E v \in Workers : worker[v].pc = "remember")
        <4>1. /\ worker' = [worker EXCEPT ![w] =
                               [pc |-> "remember", job |-> worker[w].job,
                                copy |-> worker[w].copy, recalled |-> memory.history]]
              /\ raced' = (raced \/ \E v \in Workers : worker[v].pc = "remember")
          BY <1>6, <2>3, Zenon DEF RecallMemory
        <4>2. /\ worker'[w].pc = "remember" /\ worker'[w].recalled = memory.history
              /\ \A v \in Workers \ {w} : worker'[v] = worker[v]
          BY <1>0, <4>1
        <4> QED BY <4>1, <4>2, Zenon
      <3>2. \A e : WasIn(e, outcomes') <=> WasIn(e, outcomes)
        BY <2>1 DEF WasIn
      <3>3. \A v \in Workers : worker'[v].pc = "settle" => worker'[v] = worker[v]
        BY <3>1
      <3>4. /\ \A v \in Workers : worker'[v].pc = "settle" =>
                  WasIn(Verdict(worker'[v].job, worker'[v].copy), outcomes')
            /\ \A j \in Jobs : HasVerdict(j)' => WasIn(Verdict(j, jobFile'[j]), outcomes')
        BY <2>1, <3>2, <3>3 DEF HistoryExact, HasVerdict, Verdict
      <3>5. /\ memory'.torn => \A v \in Workers : worker'[v].pc # "remember"
            /\ ~raced' => \A u \in Workers : worker'[u].pc = "remember" =>
                  /\ worker'[u].recalled = memory'.history
                  /\ \A v \in Workers : worker'[v].pc = "remember" => v = u
            /\ ~raced' => memory'.history = Newest(outcomes)'
        BY <2>1, <2>3, <3>1 DEF HistoryExact, Newest
      <3> QED BY <3>4, <3>5 DEF HistoryExact, Verdict
    <2> QED BY <2>2, <2>3
  <1>7. ASSUME NEW w \in Workers, RememberOutcome(w)
        PROVE  HistoryExact'
    <2> DEFINE e == Verdict(worker[w].job, worker[w].copy)
    <2>1. /\ worker[w].pc = "remember" /\ worker[w].job \in Jobs
          /\ worker[w].copy \in JobRecord
      BY <1>7, WorkerParts DEF RememberOutcome, Loaded
    <2>2. worker[w].copy.status \in Statuses /\ e \in Entry
      BY <2>1, CopyParts DEF Entry, Verdict
    <2>3. /\ worker'[w].pc = "settle" /\ worker'[w].job = worker[w].job
          /\ worker'[w].copy = worker[w].copy
          /\ \A v \in Workers \ {w} : worker'[v] = worker[v]
      BY <1>0, <1>7 DEF RememberOutcome
    <2>4. /\ memory'.torn = FALSE /\ raced' = raced /\ jobFile' = jobFile
          /\ memory'.history = Recorded(worker[w].job, worker[w].copy.status, worker[w].recalled)
          /\ outcomes' = <<e>> \o outcomes
      BY <1>7 DEF RememberOutcome, Verdict
    <2>5. WasIn(e, outcomes') /\ \A d : WasIn(d, outcomes) => WasIn(d, outcomes')
      <3> HIDE DEF e
      <3> QED BY <2>2, <2>4, RecordedMore
    <2>6. \A v \in Workers : worker'[v].pc = "settle" =>
             WasIn(Verdict(worker'[v].job, worker'[v].copy), outcomes')
      <3> SUFFICES ASSUME NEW v \in Workers, worker'[v].pc = "settle"
                   PROVE  WasIn(Verdict(worker'[v].job, worker'[v].copy), outcomes')
        OBVIOUS
      <3>1. CASE v = w
        BY <2>3, <2>5, <3>1 DEF Verdict
      <3>2. CASE v # w
        BY <2>3, <2>5, <3>2 DEF HistoryExact, Verdict
      <3> QED BY <3>1, <3>2
    <2>7. \A j \in Jobs : HasVerdict(j)' => WasIn(Verdict(j, jobFile'[j]), outcomes')
      BY <2>4, <2>5 DEF HistoryExact, HasVerdict, Verdict
    <2>8. ~raced' => memory'.history = Newest(outcomes)'
      <3> SUFFICES ASSUME ~raced PROVE memory'.history = Newest(outcomes)'
        BY <2>4
      <3>1. worker[w].recalled = Newest(outcomes)
        BY <2>1 DEF HistoryExact
      <3>2. outcomes \in Seq(Entry)
        BY DEF TypeOK
      <3>3. Recorded(worker[w].job, worker[w].copy.status, Newest(outcomes))
               = Newest(<<[job |-> worker[w].job, status |-> worker[w].copy.status]>> \o outcomes)
        BY <2>1, <2>2, <3>2, NewestAgain
      <3> QED BY <2>4, <3>1, <3>3 DEF Newest, Verdict
    <2>9. ~raced' => \A v \in Workers : worker'[v].pc # "remember"
      BY <2>1, <2>3, <2>4 DEF HistoryExact
    <2> QED BY <2>4, <2>6, <2>7, <2>8, <2>9 DEF HistoryExact, Verdict
  <1>8. ASSUME NEW m \in wire, Upsert(m) \/ LosePost(m)
        PROVE  HistoryExact'
    BY <1>8, HistoryKept DEF Upsert, LosePost
  <1>9. ASSUME Crash PROVE HistoryExact'
    <2>1. /\ \A v \in Workers : worker'[v].pc = "idle"
          /\ memory'.history = memory.history /\ raced' = raced /\ outcomes' = outcomes
      BY <1>9 DEF Crash, Idle, TypeOK
    <2>2. \A j \in Jobs : jobFile'[j] = jobFile[j] \/ jobFile'[j].status \notin Closed
      BY <1>9 DEF Crash, TypeOK, Torn, Closed
    <2>3. \A e : WasIn(e, outcomes') <=> WasIn(e, outcomes)
      BY <2>1 DEF WasIn
    <2>4. \A j \in Jobs : HasVerdict(j)' => WasIn(Verdict(j, jobFile'[j]), outcomes')
      BY <2>2, <2>3 DEF HistoryExact, HasVerdict, Verdict
    <2>5. ~raced' => memory'.history = Newest(outcomes)'
      BY <2>1 DEF HistoryExact, Newest
    <2> QED BY <2>1, <2>4, <2>5 DEF HistoryExact, Verdict
  <1>10. CASE UNCHANGED vars
    BY <1>10, HistoryKept DEF vars
  <1> QED BY <1>2, <1>3, <1>4, <1>5, <1>6, <1>7, <1>8, <1>9, <1>10 DEF Next

\* The newest outcomes are the file: a recorded verdict is among them, or Keep
\* others were recorded after it.
LEMMA ExactRemembers == TypeOK /\ HistoryExact => SettledIsRemembered
  <1> SUFFICES ASSUME TypeOK, HistoryExact, NEW j \in Jobs, HasVerdict(j), ~raced
               PROVE  Remembered(Verdict(j, jobFile[j])) \/ Overtaken(Verdict(j, jobFile[j]))
    BY DEF SettledIsRemembered, Verdict
  <1> DEFINE e == Verdict(j, jobFile[j])
  <1>1. PICK k \in DOMAIN outcomes : outcomes[k] = e
    BY DEF HistoryExact, WasIn
  <1> HIDE DEF e
  <1>2. outcomes \in Seq(Entry) /\ memory.history = Newest(outcomes)
    BY DEF TypeOK, HistoryExact
  <1>3. /\ memory.history \in Seq(Entry) /\ Len(outcomes) \in Nat
        /\ Len(memory.history) = IF Len(outcomes) < Keep THEN Len(outcomes) ELSE Keep
        /\ \A i \in 1 .. Len(memory.history) : memory.history[i] = outcomes[i]
    BY <1>2, NewestParts
  <1>4. /\ DOMAIN outcomes = 1 .. Len(outcomes)
        /\ DOMAIN memory.history = 1 .. Len(memory.history)
    BY <1>2, <1>3, LenProperties
  <1>5. CASE \E i \in 1 .. Len(memory.history) : outcomes[i] = e
    BY <1>3, <1>4, <1>5 DEF Remembered, e
  <1>6. CASE \A i \in 1 .. Len(memory.history) : outcomes[i] # e
    <2>1. k \in 1 .. Len(outcomes) /\ k \notin 1 .. Len(memory.history)
      BY <1>1, <1>4, <1>6
    <2>2. k > Keep /\ Len(memory.history) = Keep
      BY <1>3, <2>1, JobsAssumption
    <2> QED BY <1>1, <1>6, <2>2 DEF Overtaken, e
  <1> QED BY <1>5, <1>6

\* The verdict of a closed job is in its host's history until Keep outcomes of
\* the host have come after it, unless the file was torn or two threads had it
\* loaded at once.
THEOREM SettledJobsRemembered == Spec => []SettledIsRemembered
  <1>1. Init => HistoryExact
    <2> SUFFICES ASSUME Init PROVE HistoryExact
      OBVIOUS
    <2>1. Newest(<<>>) = <<>>
      <3>1. <<>> \in Seq(Entry) /\ Len(<<>>) = 0
        OBVIOUS
      <3>2. /\ Newest(<<>>) \in Seq(Entry)
            /\ Len(Newest(<<>>)) = IF Len(<<>>) < Keep THEN Len(<<>>) ELSE Keep
        BY <3>1, NewestParts, Zenon
      <3>3. Len(Newest(<<>>)) = 0
        BY <3>1, <3>2, JobsAssumption
      <3> QED BY <3>2, <3>3, EmptySeq
    <2>2. \A w \in Workers : worker[w].pc = "idle"
      BY DEF Init, Idle
    <2> QED BY <2>1, <2>2 DEF Init, HistoryExact, HasVerdict, NoJob, Closed
  <1> QED BY <1>1, TypeInit, TypeNext, CopiesInit, CopiesNext, HistoryNext,
             ExactRemembers, PTL DEF Spec

\* The host's history keeps the verdicts of its Keep newest outcomes, unless it
\* was torn or raced for, and counts no approval twice (record_job_outcome).
THEOREM HistoryIsKept == Spec => []HistoryFaithful
  <1>1. SettledIsRemembered /\ CountedPerApproval => HistoryFaithful
    BY DEF HistoryFaithful
  <1> QED BY <1>1, CountedOncePerApproval, SettledJobsRemembered, PTL

=============================================================================
