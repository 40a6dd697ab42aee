------------------------------ MODULE JobCowork ------------------------------
(***************************************************************************)
(* The Job Cowork of NEX-RED: jobs/orchestrator.py and what it calls (the  *)
(* JSON files of jobs/store.py, the rules of jobs/closure.py, the host     *)
(* history of jobs/immune_memory.py, the posts of jobs/sync.py), run by    *)
(* the thread pool of bridge/gateway_bridge.py, with the copy of a job the *)
(* gateway keeps (internal/database/jobs.go).                              *)
(*                                                                         *)
(* A measurement or an approval loads the job file, works on the copy in   *)
(* memory and writes the whole copy back at the end: no lock is held.  A   *)
(* file is written in place, so a crash during a write leaves it torn.  A  *)
(* post to the gateway is waited for at most 8 s and its result ignored:   *)
(* the thread goes on whether the post was handled or not.  The jobs of    *)
(* the model are jobs of one host.                                         *)
(***************************************************************************)
EXTENDS Naturals, Sequences, FiniteSets

CONSTANTS
    Jobs,            \* ids create_job may draw
    Workers,         \* threads of the bridge that may run at once
    Scans,           \* results a scan may have
    L1,              \* the jobs opened with autonomy level L1
    Keep,            \* outcomes the history of a host keeps: 30 in the code
    MaxRuns,         \* bound on the measurements asked for
    MaxAnswers,      \* bound on the approvals and rejections asked for
    MaxCrashes       \* bound on the restarts of the bridge

Deltas == {"waf_blocked", "origin_open", "both_held", "replay_held",
           "replay_missed", "antibody_learned"}
ScanResult == [status : {"COMPLETED", "PARTIAL"}, live : BOOLEAN,
               deltas : SUBSET Deltas, unlabelled : BOOLEAN,
               loop : {"ok", "failed", "none"}]

ASSUME JobsAssumption ==
    /\ Scans \subseteq ScanResult
    /\ IsFiniteSet(Workers)
    /\ L1 \subseteq Jobs
    /\ Keep \in Nat \ {0}
    /\ MaxRuns \in Nat /\ MaxAnswers \in Nat /\ MaxCrashes \in Nat

VARIABLES
    jobFile,      \* <job>.json: a record, NoJob, or Torn by a crash
    scanFile,     \* <job>_scan.json: the last scan saved, or NoScan
    memory,       \* immune_memory.json: the host's history, torn or not
    worker,       \* what each thread of the bridge does, with its copies
    wire,         \* posts to the gateway not handled yet
    mirror,       \* the gateway's row of each job, or NoJob
    left,         \* what the bounds leave: runs, answers, crashes
    \* history
    saved,        \* statuses each job file ever had
    passed,       \* approvals of each job that passed the status gate
    holders,      \* threads that held a copy of a job when it was closed
    outcomes,     \* every outcome recorded, the newest first
    raced,        \* two threads had the host history loaded at once
    lapse         \* jobs whose last change is not or not safely posted

files == <<jobFile, scanFile, memory>>
gateway == <<wire, mirror>>
history == <<saved, passed, holders, outcomes, raced, lapse>>
vars == <<files, worker, gateway, left, history>>

NoJob == [status |-> "none"]
Torn == [status |-> "torn"]
NoScan == [status |-> "no_scan"]

Statuses == {"OPEN", "PENDING_APPROVAL", "PARTIAL", "CLOSED_OK", "CLOSED_GAP"}
Closed == {"CLOSED_OK", "CLOSED_GAP"}

\* CoworkJob; "basis" names the scan the verdict was computed from, a fact
\* the program does not keep.
JobRecord == [status : Statuses, approvals : Seq(BOOLEAN),
              measured : BOOLEAN, basis : Scans \cup {NoScan}]
Row == [status : Statuses, approvals : Nat, scan : BOOLEAN]
Post == [from : Workers, job : Jobs, status : Statuses,
         approvals : Nat, scan : BOOLEAN]

\* An entry of the host's history, the newest first.
Entry == [job : Jobs, status : Statuses]

Idle == [pc |-> "idle"]
Steps == {"load", "scan", "save", "gate", "refused", "close", "recall",
          "remember", "settle", "artifacts", "post"}
Posting == {"artifacts", "post"}
Loaded == {"scan", "save", "refused", "close", "recall", "remember", "settle"}

Opened == [status |-> "OPEN", approvals |-> <<>>, measured |-> FALSE,
           basis |-> NoScan]

Init ==
    /\ jobFile = [j \in Jobs |-> NoJob]
    /\ scanFile = [j \in Jobs |-> NoScan]
    /\ memory = [torn |-> FALSE, history |-> <<>>]
    /\ worker = [w \in Workers |-> Idle]
    /\ wire = {}
    /\ mirror = [j \in Jobs |-> NoJob]
    /\ left = [runs |-> MaxRuns, answers |-> MaxAnswers, crashes |-> MaxCrashes]
    /\ saved = [j \in Jobs |-> {}]
    /\ passed = [j \in Jobs |-> 0]
    /\ holders = [j \in Jobs |-> {}]
    /\ outcomes = <<>>
    /\ raced = FALSE
    /\ lapse = {}

-----------------------------------------------------------------------------
(* jobs/closure.py                                                         *)

OkDeltas == {"waf_blocked", "both_held", "replay_held", "antibody_learned"}
Nothing(s) == s.status = "PARTIAL" /\ ~s.live /\ s.deltas = {} /\ ~s.unlabelled

\* Mutant: what was learned decides before the loop is looked at.
Gapless(s) == s.deltas \subseteq OkDeltas /\ s.loop # "failed"
ResolveClosureHopeful(s, l1) ==
    IF s = NoScan \/ Nothing(s) THEN "PARTIAL"
    ELSE IF "antibody_learned" \in s.deltas THEN "CLOSED_OK"
    ELSE IF Gapless(s) THEN "CLOSED_OK" ELSE "CLOSED_GAP"

\* resolve_closure, in the order of its returns; approve gives PARTIAL itself
\* when there is no scan to judge.
ResolveClosure(s, l1) ==
    IF s = NoScan \/ Nothing(s) THEN "PARTIAL"
    ELSE IF "replay_missed" \in s.deltas THEN "CLOSED_GAP"
    ELSE IF s.loop = "failed" THEN "CLOSED_GAP"
    ELSE IF "origin_open" \in s.deltas THEN "CLOSED_GAP"
    ELSE IF "antibody_learned" \in s.deltas THEN "CLOSED_OK"
    ELSE IF s.deltas # {} /\ s.deltas \subseteq OkDeltas THEN "CLOSED_OK"
    ELSE IF l1 /\ s.loop = "ok" THEN "CLOSED_OK"
    ELSE IF s.status = "PARTIAL" THEN "PARTIAL"
    ELSE "CLOSED_OK"

-----------------------------------------------------------------------------
(* jobs/store.py and jobs/sync.py                                          *)

Readable(j) == jobFile[j] \notin {NoJob, Torn}

SaveJob(j, copy) ==
    /\ jobFile' = [jobFile EXCEPT ![j] = copy]
    /\ saved' = [saved EXCEPT ![j] = @ \cup {copy.status}]

\* What sync_job sends of a copy.
Message(w, j, copy, withScan) ==
    [from |-> w, job |-> j, status |-> copy.status,
     approvals |-> Len(copy.approvals), scan |-> withScan]

\* Posts the gateway has not handled: sent, or held by a thread that saved the
\* job and has not called sync_job yet.
UnderWay == wire \cup {worker[w].post : w \in {v \in Workers : worker[v].pc \in Posting}}

\* The copy is in the file, its post is still to come (save_job, then sync_job).
SaveToPost(w, j, copy, withScan, step, next) ==
    /\ SaveJob(j, copy)
    /\ worker' = [worker EXCEPT ![w] = [pc |-> step, job |-> j, next |-> next,
                                        post |-> Message(w, j, copy, withScan)]]
    /\ lapse' = IF \E m \in UnderWay : m.job = j THEN lapse \cup {j} ELSE lapse \ {j}

Begin(w, step, j) == worker' = [worker EXCEPT ![w] = [pc |-> step, job |-> j]]
Finish(w) == worker' = [worker EXCEPT ![w] = Idle]
Spend(what) == left[what] > 0 /\ left' = [left EXCEPT ![what] = @ - 1]

-----------------------------------------------------------------------------
(* bridge routes: a request takes a free thread                            *)

\* POST /jobs: create_job, whose background task measures the job.
CreateJob(w, j) ==
    /\ worker[w] = Idle
    /\ jobFile[j] = NoJob
    /\ SaveToPost(w, j, Opened, FALSE, "post", "load")
    /\ UNCHANGED <<scanFile, memory, gateway, left, passed, holders, outcomes, raced>>

\* POST /jobs/{id}/run: only that the job exists is looked at.
RunAgain(w, j) ==
    /\ worker[w] = Idle
    /\ Readable(j)
    /\ Spend("runs")
    /\ Begin(w, "load", j)
    /\ UNCHANGED <<files, gateway, history>>

\* The console's list may be as old as its last refresh, and the gateway's
\* copy, which it asks first, older still.
Offered(j) == "PENDING_APPROVAL" \in saved[j]

\* POST /jobs/{id}/approve: for any job a list, however old, shows as pending.
AskApproval(w, j) ==
    /\ worker[w] = Idle
    /\ Offered(j)
    /\ Spend("answers")
    /\ \E yes \in BOOLEAN :
          worker' = [worker EXCEPT ![w] = [pc |-> "gate", job |-> j, yes |-> yes]]
    /\ UNCHANGED <<files, gateway, history>>

-----------------------------------------------------------------------------
(* run_measurement                                                         *)

\* Mutant: any readable job may be measured.
LoadToMeasureAny(w) ==
    LET j == worker[w].job IN
    /\ worker[w].pc = "load"
    /\ IF Readable(j)
          THEN worker' = [worker EXCEPT ![w] =
                             [pc |-> "scan", job |-> j, copy |-> jobFile[j]]]
          ELSE Finish(w)
    /\ UNCHANGED <<files, gateway, left, history>>

\* A missing or torn file and a wrong status raise: the task ends.
LoadToMeasure(w) ==
    LET j == worker[w].job IN
    /\ worker[w].pc = "load"
    /\ IF Readable(j) /\ jobFile[j].status \in {"OPEN", "PARTIAL"}
          THEN worker' = [worker EXCEPT ![w] =
                             [pc |-> "scan", job |-> j, copy |-> jobFile[j]]]
          ELSE Finish(w)
    /\ UNCHANGED <<files, gateway, left, history>>

\* NexRedOrchestrator.execute takes minutes; save_scan_result follows it.
ScanEnds(w) ==
    LET j == worker[w].job IN
    /\ worker[w].pc = "scan"
    /\ \E s \in Scans : scanFile' = [scanFile EXCEPT ![j] = s]
    /\ worker' = [worker EXCEPT
                     ![w] = [pc |-> "save", job |-> j,
                             copy |-> [worker[w].copy EXCEPT
                                          !.status = "PENDING_APPROVAL",
                                          !.measured = TRUE]]]
    /\ UNCHANGED <<jobFile, memory, gateway, left, history>>

ScanRaises(w) ==
    /\ worker[w].pc = "scan"
    /\ Finish(w)
    /\ UNCHANGED <<files, gateway, left, history>>

SaveMeasured(w) ==
    LET j == worker[w].job IN
    /\ worker[w].pc = "save"
    /\ SaveToPost(w, j, worker[w].copy, TRUE, "post", "idle")
    /\ UNCHANGED <<scanFile, memory, gateway, left, passed, holders, outcomes, raced>>

-----------------------------------------------------------------------------
(* approve                                                                 *)

Gate(w) ==
    LET j == worker[w].job
        yes == worker[w].yes
    IN
    /\ worker[w].pc = "gate"
    /\ IF Readable(j) /\ jobFile[j].status = "PENDING_APPROVAL"
          THEN /\ worker' = [worker EXCEPT ![w] =
                     [pc |-> IF yes THEN "close" ELSE "refused", job |-> j,
                      copy |-> [jobFile[j] EXCEPT !.approvals = Append(@, yes)]]]
               /\ passed' = [passed EXCEPT ![j] = IF yes THEN @ + 1 ELSE @]
          ELSE Finish(w) /\ UNCHANGED passed
    /\ UNCHANGED <<files, gateway, left, saved, holders, outcomes, raced, lapse>>

\* A rejection is saved and never posted to the gateway.
SaveRefused(w) ==
    LET j == worker[w].job IN
    /\ worker[w].pc = "refused"
    /\ SaveJob(j, [worker[w].copy EXCEPT !.status = "PARTIAL"])
    /\ lapse' = lapse \cup {j}
    /\ Finish(w)
    /\ UNCHANGED <<scanFile, memory, gateway, left, passed, holders, outcomes, raced>>

\* Mutant: the verdict is computed and the status stays VERIFYING.
CloseVerifying(w) ==
    /\ worker[w].pc = "close"
    /\ worker' = [worker EXCEPT ![w] =
                     [pc |-> "recall", job |-> worker[w].job,
                      copy |-> [worker[w].copy EXCEPT !.status = "VERIFYING"]]]
    /\ UNCHANGED <<files, gateway, left, history>>

\* The scan is read from its file now: not the one the copy was saved with.
Close(w) ==
    LET j == worker[w].job
        s == scanFile[j]
    IN
    /\ worker[w].pc = "close"
    /\ worker' = [worker EXCEPT ![w] =
                     [pc |-> "recall", job |-> j,
                      copy |-> [worker[w].copy EXCEPT
                                   !.status = ResolveClosure(s, j \in L1),
                                   !.basis = s]]]
    /\ UNCHANGED <<files, gateway, left, history>>

\* record_job_outcome loads the whole host history...
RecallMemory(w) ==
    /\ worker[w].pc = "recall"
    /\ IF memory.torn
          THEN Finish(w) /\ UNCHANGED raced
          ELSE /\ worker' = [worker EXCEPT ![w] =
                                [pc |-> "remember", job |-> worker[w].job,
                                 copy |-> worker[w].copy, recalled |-> memory.history]]
               /\ raced' = (raced \/ \E v \in Workers : worker[v].pc = "remember")
    /\ UNCHANGED <<files, gateway, left, saved, passed, holders, outcomes, lapse>>

\* Mutant: the history is cut at its head.
NewestTail(h) == SubSeq(h, IF Len(h) < Keep THEN 1 ELSE Len(h) - Keep + 1, Len(h))

\* The history with one more outcome at its head, cut to the newest.
Newest(h) == SubSeq(h, 1, IF Len(h) < Keep THEN Len(h) ELSE Keep)
Recorded(j, status, h) == Newest(<<[job |-> j, status |-> status]>> \o h)

\* ...puts the outcome at its head, cuts it and writes it back (the host's
\* counters and its row at the gateway, posted next, are left out: nothing
\* reads them here).
RememberOutcome(w) ==
    LET j == worker[w].job
        status == worker[w].copy.status
    IN
    /\ worker[w].pc = "remember"
    /\ memory' = [torn |-> FALSE, history |-> Recorded(j, status, worker[w].recalled)]
    /\ outcomes' = <<[job |-> j, status |-> status]>> \o outcomes
    /\ worker' = [worker EXCEPT ![w] = [pc |-> "settle", job |-> j,
                                        copy |-> worker[w].copy]]
    /\ UNCHANGED <<jobFile, scanFile, gateway, left, saved, passed, holders, raced, lapse>>

HoldersOf(w, j) ==
    {v \in Workers \ {w} : worker[v].pc \in Loaded /\ worker[v].job = j}

\* Mutant: the gateway is told first, and the save may fail.
SaveVerdictLate(w) ==
    LET j == worker[w].job
        copy == worker[w].copy
    IN
    /\ worker[w].pc = "settle"
    /\ worker' = [worker EXCEPT ![w] =
                     [pc |-> "artifacts", job |-> j, next |-> "idle",
                      post |-> Message(w, j, copy, copy.basis # NoScan)]]
    /\ UNCHANGED <<files, gateway, left, history>>

\* The verdict is saved; its artifact files are read before it is posted.
SaveVerdict(w) ==
    LET j == worker[w].job
        copy == worker[w].copy
    IN
    /\ worker[w].pc = "settle"
    /\ SaveToPost(w, j, copy, copy.basis # NoScan, "artifacts", "idle")
    /\ holders' = [holders EXCEPT ![j] = HoldersOf(w, j)]
    /\ UNCHANGED <<scanFile, memory, gateway, left, passed, outcomes, raced>>

\* A scan file that cannot be parsed, or an artifact that cannot be written or
\* read back, raises: the request ends there.
ApproveRaises(w) ==
    /\ worker[w].pc \in {"close", "recall", "artifacts"}
    /\ lapse' = IF worker[w].pc = "artifacts" THEN lapse \cup {worker[w].post.job} ELSE lapse
    /\ Finish(w)
    /\ UNCHANGED <<files, gateway, left, saved, passed, holders, outcomes, raced>>

-----------------------------------------------------------------------------
(* sync_job and the gateway                                                *)

\* The post is sent; the thread goes on with what follows the call.
SyncJob(w) ==
    LET j == worker[w].job IN
    /\ worker[w].pc \in Posting
    /\ wire' = wire \cup {worker[w].post}
    /\ IF worker[w].next = "load" THEN Begin(w, "load", j) ELSE Finish(w)
    /\ UNCHANGED <<files, mirror, left, history>>

\* Mutant: a row that exists is not replaced.
UpsertOnce(m) ==
    /\ m \in wire
    /\ wire' = wire \ {m}
    /\ mirror' = IF mirror[m.job] = NoJob
                    THEN [mirror EXCEPT ![m.job] = [status |-> m.status,
                             approvals |-> m.approvals, scan |-> m.scan]]
                    ELSE mirror
    /\ UNCHANGED <<files, worker, left, history>>

\* UpsertCoworkJob and SaveCoworkJobScanResult: the row is replaced, which
\* clears its scan, the approvals of the post are appended to the others, the
\* scan is stored when the post has one.  No transaction: an error after the
\* row leaves the rest undone.
Upsert(m) ==
    LET old == IF mirror[m.job] = NoJob THEN 0 ELSE mirror[m.job].approvals IN
    /\ m \in wire
    /\ wire' = wire \ {m}
    /\ \E whole \in BOOLEAN :
          mirror' = [mirror EXCEPT ![m.job] =
                        [status |-> m.status,
                         approvals |-> IF whole THEN old + m.approvals ELSE old,
                         scan |-> whole /\ m.scan]]
    /\ UNCHANGED <<files, worker, left, history>>

\* The gateway is down, or has no database.
LosePost(m) ==
    /\ m \in wire
    /\ wire' = wire \ {m}
    /\ lapse' = lapse \cup {m.job}
    /\ UNCHANGED <<files, worker, mirror, left, saved, passed, holders, outcomes, raced>>

-----------------------------------------------------------------------------
\* The bridge dies: every thread is gone, with the posts not sent yet; a file
\* being written may be torn.
Crash ==
    /\ Spend("crashes")
    /\ worker' = [w \in Workers |-> Idle]
    /\ lapse' = lapse \cup {worker[w].post.job : w \in {v \in Workers : worker[v].pc \in Posting}}
    /\ \/ UNCHANGED <<jobFile, memory>>
       \/ \E w \in Workers :
             /\ worker[w].pc \in {"save", "refused", "settle"}
             /\ jobFile' = [jobFile EXCEPT ![worker[w].job] = Torn]
             /\ UNCHANGED memory
       \/ \E w \in Workers :
             /\ worker[w].pc = "remember"
             /\ memory' = [memory EXCEPT !.torn = TRUE]
             /\ UNCHANGED jobFile
    /\ UNCHANGED <<scanFile, gateway, saved, passed, holders, outcomes, raced>>

Next ==
    \/ \E w \in Workers :
          \/ \E j \in Jobs : CreateJob(w, j) \/ RunAgain(w, j) \/ AskApproval(w, j)
          \/ LoadToMeasure(w) \/ ScanEnds(w) \/ ScanRaises(w) \/ SaveMeasured(w)
          \/ Gate(w) \/ SaveRefused(w) \/ Close(w) \/ RecallMemory(w)
          \/ RememberOutcome(w) \/ SaveVerdict(w) \/ ApproveRaises(w) \/ SyncJob(w)
    \/ \E m \in wire : Upsert(m) \/ LosePost(m)
    \/ Crash

Spec == Init /\ [][Next]_vars

-----------------------------------------------------------------------------
(* Types                                                                   *)

WorkerState ==
    {Idle}
    \cup [pc : {"load"}, job : Jobs]
    \cup [pc : {"gate"}, job : Jobs, yes : BOOLEAN]
    \cup [pc : Loaded \ {"remember"}, job : Jobs, copy : JobRecord]
    \cup [pc : {"remember"}, job : Jobs, copy : JobRecord, recalled : Seq(Entry)]
    \cup [pc : Posting, job : Jobs, next : {"load", "idle"}, post : Post]

\* Every variable keeps its shape.
TypeOK ==
    /\ jobFile \in [Jobs -> JobRecord \cup {NoJob, Torn}]
    /\ scanFile \in [Jobs -> Scans \cup {NoScan}]
    /\ memory \in [torn : BOOLEAN, history : Seq(Entry)]
    /\ worker \in [Workers -> WorkerState]
    /\ wire \subseteq Post
    /\ mirror \in [Jobs -> Row \cup {NoJob}]
    /\ left \in [runs : Nat, answers : Nat, crashes : Nat]
    /\ saved \in [Jobs -> SUBSET Statuses]
    /\ passed \in [Jobs -> Nat]
    /\ holders \in [Jobs -> SUBSET Workers]
    /\ outcomes \in Seq(Entry)
    /\ raced \in BOOLEAN
    /\ lapse \subseteq Jobs

-----------------------------------------------------------------------------
(* Properties                                                              *)

HasVerdict(j) == jobFile[j].status \in Closed
Gaps(s) == (s.deltas \cap {"replay_missed", "origin_open"})
           \cup (IF s.loop = "failed" THEN {"antibody_loop_failed"} ELSE {})
Evidence(s, l1) == s.deltas # {} \/ s.status = "COMPLETED" \/ (l1 /\ s.loop = "ok")

\* Whatever runs overlap, a verdict in a job file was given to a scan and last
\* answered by an approval: green for a scan without any gap and with evidence,
\* CLOSED_GAP for a scan with one (closure.py against its product rule).
VerdictsEarned ==
    \A j \in Jobs : HasVerdict(j) =>
        LET v == jobFile[j] IN
        /\ v.basis # NoScan
        /\ v.approvals # <<>> /\ v.approvals[Len(v.approvals)]
        /\ v.status = "CLOSED_OK" => Gaps(v.basis) = {} /\ Evidence(v.basis, j \in L1)
        /\ v.status = "CLOSED_GAP" => Gaps(v.basis) # {}

\* Once a job is closed, the only threads that still hold a copy of it, and so
\* could write it again, are those that had loaded it before it was closed
\* (the status checks of run_measurement and approve).
OnlyHoldersReopen ==
    \A j \in Jobs : HasVerdict(j) =>
        \A w \in Workers :
            worker[w].pc \in Loaded /\ worker[w].job = j => w \in holders[j]

\* The gateway never shows, and is never sent, a status the job file did not
\* have first (save_job before sync_job, posts late, lost or out of order).
MirrorNeverAhead ==
    /\ \A j \in Jobs : mirror[j] # NoJob => mirror[j].status \in saved[j]
    /\ \A m \in UnderWay : m.status \in saved[m.job]

\* The last time an outcome was recorded is at least Keep outcomes back.
Overtaken(e) ==
    \E k \in DOMAIN outcomes :
        /\ k > Keep /\ outcomes[k] = e
        /\ \A i \in 1 .. Keep : outcomes[i] # e

Remembered(e) == \E i \in DOMAIN memory.history : memory.history[i] = e

\* The verdict of a closed job is in its host's history, until Keep outcomes
\* of the host have come after it; unless the file was torn or two threads had
\* it loaded at once (record_job_outcome before save_job).
SettledIsRemembered ==
    \A j \in Jobs : HasVerdict(j) =>
        LET e == [job |-> j, status |-> jobFile[j].status] IN
        raced \/ memory.torn \/ Remembered(e) \/ Overtaken(e)

EntriesOf(j, h) == {i \in DOMAIN h : h[i].job = j}

\* The history counts a job at most once for each approval that passed the
\* status gate, through crashes and second approvals.
CountedPerApproval ==
    \A j \in Jobs : Cardinality(EntriesOf(j, memory.history)) <= passed[j]

\* The host's history keeps the verdict of every closed job while fewer than
\* Keep outcomes came after it, and counts no approval twice
\* (record_job_outcome, between load_job and save_job of approve); a torn file
\* and two threads that had it loaded at once are excepted from the first.
HistoryFaithful == SettledIsRemembered /\ CountedPerApproval

\* With no post of a job under way, the gateway shows its status, unless the
\* last change of the file was a rejection, which is not posted, or its post
\* was lost, never sent (a crash, an artifact that could not be read), or sent
\* while another post of the job was still under way.
MirrorSettles ==
    \A j \in Jobs :
        Readable(j) /\ j \notin lapse /\ (\A m \in UnderWay : m.job # j)
            => mirror[j] # NoJob /\ mirror[j].status = jobFile[j].status

\* docs/PRODUCT_MODEL.md:140: a job must not be CLOSED_OK when there is a
\* replay_missed that is not written down in CLOSED_GAP.  The scan is the one
\* kept with the job, which the artifact route shows beside its status.
NoGreenWithMissedReplay ==
    \A j \in Jobs :
        jobFile[j].status = "CLOSED_OK" /\ scanFile[j] # NoScan
            => "replay_missed" \notin scanFile[j].deltas

=============================================================================
