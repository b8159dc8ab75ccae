------------------------ MODULE Operations_proofs ---------------------------
(***************************************************************************)
(* Safety of the parts that run beside the index, each for every value of  *)
(* its constants: the shared reads of the flow feed, the backup commands,  *)
(* the watchdog, the holder gate, the trade desk and the fee claim.  They  *)
(* share no state and are proved one by one.                               *)
(***************************************************************************)
EXTENDS FlowFeed, DataBackup, Watchdog, HolderGate, TradeDesk, PoolActions,
        FunctionTheorems, FiniteSetTheorems, SequenceTheorems, WellFoundedInduction, TLAPS

-----------------------------------------------------------------------------
\* The flow feed.

FlowTypeOK ==
    /\ page \in [FlowKeys -> {"none", "fresh", "stale"}]
    /\ leaderOf \in [FlowKeys -> Readers \cup {NULL}]
    /\ reader \in [Readers -> [pc: {"idle", "lead", "read", "follow"},
                               key: FlowKeys \cup {NULL},
                               answer: {NULL, "page", "error"}]]
    /\ publisherLock \in Readers \cup {NULL}
    /\ closing \in {"no", "closing", "closed"}

Leads(r) == reader[r].pc \in {"lead", "read"}

\* A reader that leads is the one registered for its page, and only it is.
Registered ==
    /\ \A r \in Readers : Leads(r) =>
          reader[r].key \in FlowKeys /\ leaderOf[reader[r].key] = r
    /\ \A k \in FlowKeys : leaderOf[k] # NULL =>
          Leads(leaderOf[k]) /\ reader[leaderOf[k]].key = k

\* A follower that still waits has a leader registered for its page.
Followed ==
    \A r \in Readers : reader[r].pc = "follow" =>
        /\ reader[r].key \in FlowKeys
        /\ reader[r].answer = NULL => leaderOf[reader[r].key] # NULL

\* The publisher's lock is held exactly while its holder's request is out.
OneRequest == \A r \in Readers : reader[r].pc = "read" <=> publisherLock = r

Shut ==
    /\ closing # "no" => \A k \in FlowKeys : page[k] = "none"
    /\ closing = "closed" => publisherLock = NULL

FlowInv == FlowTypeOK /\ Registered /\ Followed /\ OneRequest /\ Shut

LEMMA FlowInitInv == FlowInit => FlowInv
BY FlowAssumption DEF FlowInit, IdleReader, FlowInv, FlowTypeOK, Leads, Registered, Followed, OneRequest, Shut

\* The end of a leader's read, however it ends: its page has no leader and
\* no follower without an answer.
LEMMA SettledInv ==
    ASSUME FlowInv, NEW r \in Readers, Leads(r), NEW answer \in {"page", "error"},
           reader' = Settled(r, answer),
           leaderOf' = [leaderOf EXCEPT ![reader[r].key] = NULL],
           publisherLock' = IF reader[r].pc = "read" THEN NULL ELSE publisherLock
    PROVE  /\ leaderOf' \in [FlowKeys -> Readers \cup {NULL}]
           /\ reader' \in [Readers -> [pc: {"idle", "lead", "read", "follow"},
                               key: FlowKeys \cup {NULL},
                               answer: {NULL, "page", "error"}]]
           /\ Registered' /\ Followed' /\ OneRequest'
<1> USE DEF FlowInv
<1> DEFINE k == reader[r].key
<1>1. k \in FlowKeys /\ leaderOf[k] = r
    BY DEF Registered
<1>2. reader' \in [Readers -> [pc: {"idle", "lead", "read", "follow"},
                               key: FlowKeys \cup {NULL},
                               answer: {NULL, "page", "error"}]]
    BY DEF FlowTypeOK, Settled, IdleReader
<1>3. \A x \in Readers \ {r} :
         /\ reader'[x].pc = reader[x].pc /\ reader'[x].key = reader[x].key
         /\ reader[x].pc = "follow" /\ reader[x].key = k => reader'[x].answer # NULL
         /\ reader[x].key # k => reader'[x].answer = reader[x].answer
    BY FlowAssumption DEF FlowTypeOK, Settled
<1>4. reader'[r].pc = "idle"
    BY DEF Settled, IdleReader
<1>5. \A q \in FlowKeys : leaderOf'[q] = IF q = k THEN NULL ELSE leaderOf[q]
    BY DEF FlowTypeOK
<1>6. \A q \in FlowKeys : leaderOf'[q] # NULL => leaderOf[q] = leaderOf'[q] /\ leaderOf[q] \in Readers \ {r}
    BY <1>1, <1>5 DEF FlowTypeOK, Registered
<1>7. Registered'
    BY <1>1, <1>3, <1>4, <1>5, <1>6 DEF Registered, Leads
<1>8. Followed'
    BY <1>1, <1>3, <1>4, <1>5 DEF Followed
<1>9. OneRequest'
    BY <1>3, <1>4, FlowAssumption DEF OneRequest
<1> QED
    BY <1>2, <1>5, <1>7, <1>8, <1>9 DEF FlowTypeOK

LEMMA FlowNextInv == FlowInv /\ [FlowNext]_flowVars => FlowInv'
<1> SUFFICES ASSUME FlowInv, [FlowNext]_flowVars PROVE FlowInv'
    OBVIOUS
<1> USE DEF FlowInv
<1>1. ASSUME NEW r \in Readers, NEW k \in FlowKeys, Ask(r, k)
      PROVE  FlowInv'
  <2>1. CASE UNCHANGED <<reader, leaderOf>>
      BY <1>1, <2>1 DEF Ask, FlowTypeOK, Registered, Leads, Followed, OneRequest, Shut
  <2>2. CASE reader' = [reader EXCEPT ![r] = [pc |-> "follow", key |-> k, answer |-> NULL]]
             /\ leaderOf[k] # NULL /\ UNCHANGED leaderOf
      BY <1>1, <2>2, FlowAssumption DEF Ask, FlowTypeOK, Registered, Leads, Followed, OneRequest, Shut
  <2>3. CASE reader' = [reader EXCEPT ![r] = [pc |-> "lead", key |-> k, answer |-> NULL]]
             /\ leaderOf[k] = NULL /\ leaderOf' = [leaderOf EXCEPT ![k] = r]
      BY <1>1, <2>3, FlowAssumption DEF Ask, FlowTypeOK, Registered, Leads, Followed, OneRequest, Shut
  <2> QED
      BY <1>1, <2>1, <2>2, <2>3 DEF Ask
<1>2. ASSUME NEW r \in Readers, SendRequest(r)
      PROVE  FlowInv'
    BY <1>2, FlowAssumption DEF SendRequest, FlowTypeOK, Registered, Leads, Followed, OneRequest, Shut
<1>3. ASSUME NEW r \in Readers, RefuseRequest(r)
      PROVE  FlowInv'
  <2>1. Leads(r)
      BY <1>3 DEF RefuseRequest, Leads
  <2> QED
      BY <1>3, <2>1, SettledInv DEF RefuseRequest, FlowTypeOK, Shut
<1>4. ASSUME NEW r \in Readers, ReadSucceeds(r)
      PROVE  FlowInv'
  <2>1. Leads(r) /\ reader[r].key \in FlowKeys
      BY <1>4 DEF ReadSucceeds, Leads, Registered
  <2>2. page' \in [FlowKeys -> {"none", "fresh", "stale"}] /\ Shut'
      BY <1>4, <2>1 DEF ReadSucceeds, FlowTypeOK, Shut
  <2>3. FlowTypeOK' /\ Registered' /\ Followed' /\ OneRequest'
      BY <1>4, <2>1, <2>2, SettledInv DEF ReadSucceeds, FlowTypeOK
  <2> QED
      BY <2>2, <2>3
<1>5. ASSUME NEW r \in Readers, NEW counted \in BOOLEAN, ReadFails(r, counted)
      PROVE  FlowInv'
  <2>1. Leads(r)
      BY <1>5 DEF ReadFails, Leads
  <2>2. FlowTypeOK' /\ Registered' /\ Followed' /\ OneRequest'
      BY <1>5, <2>1, SettledInv DEF ReadFails, FlowTypeOK
  <2>3. Shut'
      BY <1>5 DEF ReadFails, Shut
  <2> QED
      BY <2>2, <2>3
<1>6. ASSUME NEW r \in Readers, FollowerReturns(r) \/ FollowerTimesOut(r)
      PROVE  FlowInv'
    BY <1>6 DEF FollowerReturns, FollowerTimesOut, IdleReader, FlowTypeOK, Registered, Leads,
                Followed, OneRequest, Shut
<1>7. ASSUME NEW k \in FlowKeys, PageAges(k)
      PROVE  FlowInv'
    BY <1>7 DEF PageAges, FlowTypeOK, Registered, Leads, Followed, OneRequest, Shut
<1>8. CASE BreakerCloses
    BY <1>8 DEF BreakerCloses, FlowTypeOK, Registered, Leads, Followed, OneRequest, Shut
<1>9. CASE StartClose
    BY <1>9 DEF StartClose, FlowTypeOK, Registered, Leads, Followed, OneRequest, Shut
<1>10. CASE CloseSession
    BY <1>10 DEF CloseSession, FlowTypeOK, Registered, Leads, Followed, OneRequest, Shut
<1>11. CASE UNCHANGED flowVars
    BY <1>11 DEF flowVars, FlowTypeOK, Registered, Leads, Followed, OneRequest, Shut
<1> QED
    BY <1>1, <1>2, <1>3, <1>4, <1>5, <1>6, <1>7, <1>8, <1>9, <1>10, <1>11
    DEF FlowNext, FlowStep

\* _page and close(): no follower waits without a leader, and nothing
\* outlives close(), for any number of threads and pages and any breaker.
THEOREM FlowLed == FlowSpec => []FlightsLed
<1>1. FlowInv => FlightsLed
    BY FlowAssumption DEF FlowInv, FlowTypeOK, Registered, Leads, Followed, OneRequest, Shut, FlightsLed
<1> QED
    BY <1>1, FlowInitInv, FlowNextInv, PTL DEF FlowSpec

-----------------------------------------------------------------------------
\* The backup commands.

\* What a page of a copy may read as, and the copies under construction.
Contents == Nat \cup {Bad}
Partial == UNION {[D -> Contents] : D \in SUBSET DbPages}

Copies == [data: [DbPages -> Contents], sum: committed, synced: BOOLEAN]

BackupTypeOK ==
    /\ IsFiniteSet(committed) /\ committed \subseteq [DbPages -> Nat]
    /\ database \in committed
    /\ published \in [Names -> {NULL} \cup Copies]
    /\ jobs \in [Jobs -> [cmd: Names \cup {"none"}, from: Names \cup {"database", NULL},
                          sum: committed \cup {NULL}, out: Partial, synced: BOOLEAN,
                          pc: {"idle", "copy", "seal", "publish"}]]

\* A running command builds towards a state that was committed, from the
\* database or from a copy that stays published, and has synced what it seals.
Staged == \A j \in Jobs : jobs[j].pc # "idle" =>
    /\ jobs[j].cmd \in Names /\ jobs[j].sum \in committed
    /\ jobs[j].from = "database" \/ (jobs[j].from \in Names /\ published[jobs[j].from] \in Copies)
    /\ jobs[j].pc # "copy" => jobs[j].synced
    /\ jobs[j].pc = "publish" => jobs[j].out = jobs[j].sum

\* What is published is durable, and what was restored is what was promised.
Durable ==
    /\ \A n \in Names : published[n] # NULL => published[n].synced
    /\ published["restored"] # NULL => published["restored"].data = published["restored"].sum

BackupInv == BackupTypeOK /\ Staged /\ Durable

USE DEF Copies

LEMMA NoCommandType ==
    /\ NoCommand.pc = "idle"
    /\ NoCommand \in [cmd: Names \cup {"none"}, from: Names \cup {"database", NULL},
                      sum: committed \cup {NULL}, out: Partial, synced: BOOLEAN,
                      pc: {"idle", "copy", "seal", "publish"}]
<1>1. <<>> \in [{} -> Contents]
    OBVIOUS
<1>2. <<>> \in Partial
    BY <1>1 DEF Partial
<1> QED
    BY <1>2 DEF NoCommand

LEMMA BackupInitInv == BackupInit => BackupInv
<1> SUFFICES ASSUME BackupInit PROVE BackupInv
    OBVIOUS
<1>1. IsFiniteSet(committed) /\ committed \subseteq [DbPages -> Nat] /\ database \in committed
  <2>1. IsFiniteSet({database})
      BY FS_Singleton
  <2>2. committed = {database} /\ database \in [DbPages -> Nat]
      BY DEF BackupInit
  <2> QED
      BY <2>1, <2>2
<1>2. NULL \in committed \cup {NULL}
    OBVIOUS
<1>3. BackupTypeOK
    BY <1>1, NoCommandType DEF BackupInit, BackupTypeOK
<1>4. Staged /\ Durable
    BY NoCommandType DEF BackupInit, Staged, Durable, Names
<1> QED
    BY <1>3, <1>4 DEF BackupInv

\* A command that begins towards a committed state.
LEMMA BeginInv ==
    ASSUME BackupInv, NEW j \in Jobs, NEW cmd \in Names, NEW from \in Names \cup {"database"},
           NEW sum \in committed, from = "database" \/ published[from] \in Copies,
           Begin(j, [NoCommand EXCEPT !.cmd = cmd, !.from = from, !.sum = sum, !.pc = "copy"]),
           UNCHANGED <<database, committed>>
    PROVE  BackupInv'
<1> DEFINE new == [NoCommand EXCEPT !.cmd = cmd, !.from = from, !.sum = sum, !.pc = "copy"]
<1>1. new \in [cmd: Names \cup {"none"}, from: Names \cup {"database", NULL},
               sum: committed \cup {NULL}, out: Partial, synced: BOOLEAN,
               pc: {"idle", "copy", "seal", "publish"}]
    BY NoCommandType
<1>2. new.pc = "copy" /\ new.cmd = cmd /\ new.from = from /\ new.sum = sum
    BY DEF NoCommand
<1>3. jobs' = [jobs EXCEPT ![j] = new] /\ published' = published
    BY DEF Begin
<1> HIDE DEF new
<1> QED
    BY <1>1, <1>2, <1>3 DEF BackupInv, BackupTypeOK, Staged, Durable

LEMMA BackupNextInv == BackupInv /\ [BackupNext]_backupVars => BackupInv'
<1> SUFFICES ASSUME BackupInv, [BackupNext]_backupVars PROVE BackupInv'
    OBVIOUS
<1> USE DEF BackupInv
<1>1. ASSUME NEW pages \in SUBSET DbPages, CommitPages(pages)
      PROVE  BackupInv'
  <2>1. Cardinality(committed) \in Nat
      BY FS_CardinalityType DEF BackupTypeOK
  <2>2. database' \in [DbPages -> Nat] /\ committed' = committed \cup {database'}
      BY <1>1, <2>1 DEF CommitPages, BackupTypeOK
  <2>3. IsFiniteSet(committed') /\ committed' \subseteq [DbPages -> Nat] /\ database' \in committed'
      BY <2>2, FS_AddElement DEF BackupTypeOK
  <2>4. committed \subseteq committed' /\ UNCHANGED <<published, jobs>>
      BY <1>1 DEF CommitPages
  <2>5. BackupTypeOK'
      BY <2>3, <2>4 DEF BackupTypeOK
  <2> QED
      BY <2>4, <2>5 DEF Staged, Durable
<1>2. CASE PowerLoss
  <2>1. published' = published
      BY <1>2 DEF PowerLoss, BackupTypeOK, Durable
  <2>2. BackupTypeOK'
      BY <1>2, <2>1, NoCommandType DEF PowerLoss, BackupTypeOK
  <2>3. Staged' /\ Durable'
      BY <1>2, <2>1, NoCommandType DEF PowerLoss, Staged, Durable
  <2> QED
      BY <2>2, <2>3
<1>3. ASSUME NEW n \in Names, NEW p \in DbPages, Rot(n, p)
      PROVE  BackupInv'
  <2>1. published' = [published EXCEPT ![n] = [published[n] EXCEPT !.data = [@ EXCEPT ![p] = Bad]]]
      BY <1>3 DEF Rot
  <2>2. published[n] \in Copies
      BY <1>3 DEF Rot, BackupTypeOK
  <2>3. [published[n].data EXCEPT ![p] = Bad] \in [DbPages -> Contents]
      BY <2>2 DEF Contents
  <2>4. /\ published'[n] \in Copies /\ published'[n].synced
        /\ \A m \in Names \ {n} : published'[m] = published[m]
      BY <1>3, <2>1, <2>2, <2>3 DEF Rot, BackupTypeOK, Durable
  <2>5. BackupTypeOK'
      BY <1>3, <2>1, <2>2, <2>3 DEF Rot, BackupTypeOK
  <2>6. Staged'
      BY <1>3, <2>4 DEF Rot, Staged
  <2>7. Durable'
      BY <1>3, <2>4 DEF Rot, Durable, Names
  <2> QED
      BY <2>5, <2>6, <2>7
<1>4. ASSUME NEW j \in Jobs, CreateBackup(j)
      PROVE  BackupInv'
  <2>1. database \in committed /\ "backup" \in Names /\ UNCHANGED <<database, committed>>
      BY <1>4 DEF CreateBackup, Begin, Names, BackupTypeOK
  <2>2. Begin(j, [NoCommand EXCEPT !.cmd = "backup", !.from = "database", !.sum = database, !.pc = "copy"])
      BY <1>4 DEF CreateBackup
  <2> QED
      BY <2>1, <2>2, BeginInv
<1>5. ASSUME NEW j \in Jobs, NEW cmd \in Names, NEW name \in Names, FromCopy(j, cmd, name)
      PROVE  BackupInv'
  <2>1. published[name].sum \in committed
      BY <1>5 DEF FromCopy, BackupTypeOK
  <2>2. published[name] \in Copies /\ UNCHANGED <<database, committed>>
      BY <1>5 DEF FromCopy, Begin, BackupTypeOK
  <2>3. Begin(j, [NoCommand EXCEPT !.cmd = cmd, !.from = name, !.sum = published[name].sum, !.pc = "copy"])
      BY <1>5 DEF FromCopy
  <2> QED
      BY <2>1, <2>2, <2>3, BeginInv
<1>6. ASSUME NEW j \in Jobs, NEW p \in DbPages, CopyPage(j, p)
      PROVE  BackupInv'
  <2> DEFINE out == [q \in DOMAIN jobs[j].out \cup {p} |->
                       IF q = p THEN Read(jobs[j], p) ELSE jobs[j].out[q]]
  <2>1. jobs' = [jobs EXCEPT ![j].out = out]
      BY <1>6 DEF CopyPage
  <2>2. Read(jobs[j], p) \in Contents
      BY <1>6 DEF CopyPage, Read, BackupTypeOK, Staged, Contents
  <2>3. PICK D \in SUBSET DbPages : jobs[j].out \in [D -> Contents]
    <3>1. jobs[j].out \in Partial
        BY DEF BackupTypeOK
    <3> QED
        BY <3>1 DEF Partial
  <2>4. out \in [D \cup {p} -> Contents]
      BY <2>2, <2>3
  <2>5. out \in Partial
      BY <2>4 DEF Partial
  <2> HIDE DEF out
  <2>6. BackupTypeOK'
      BY <1>6, <2>1, <2>5 DEF CopyPage, BackupTypeOK
  <2>7. Staged' /\ Durable'
      BY <1>6, <2>1 DEF CopyPage, BackupTypeOK, Staged, Durable
  <2> QED
      BY <2>6, <2>7
<1>7. ASSUME NEW j \in Jobs, SyncCopy(j)
      PROVE  BackupInv'
  <2>1. jobs' = [jobs EXCEPT ![j] = [jobs[j] EXCEPT !.pc = "seal", !.synced = TRUE]]
      BY <1>7 DEF SyncCopy
  <2>2. BackupTypeOK'
      BY <1>7, <2>1 DEF SyncCopy, BackupTypeOK
  <2>3. Staged' /\ Durable'
      BY <1>7, <2>1 DEF SyncCopy, BackupTypeOK, Staged, Durable
  <2> QED
      BY <2>2, <2>3
<1>8. ASSUME NEW j \in Jobs, SealCopy(j)
      PROVE  BackupInv'
  <2>1. CASE jobs' = [jobs EXCEPT ![j].pc = "publish"] /\ CopyMatches(jobs[j])
      BY <1>8, <2>1 DEF SealCopy, CopyMatches, BackupTypeOK, Staged, Durable
  <2>2. CASE jobs' = [jobs EXCEPT ![j] = NoCommand]
      BY <1>8, <2>2, NoCommandType DEF SealCopy, BackupTypeOK, Staged, Durable
  <2> QED
      BY <1>8, <2>1, <2>2 DEF SealCopy
<1>9. ASSUME NEW j \in Jobs, PublishCopy(j)
      PROVE  BackupInv'
  <2> DEFINE row == [data |-> jobs[j].out, sum |-> jobs[j].sum, synced |-> jobs[j].synced]
  <2>1. jobs[j].cmd \in Names /\ jobs[j].sum \in committed /\ jobs[j].synced
        /\ jobs[j].out = jobs[j].sum
      BY <1>9 DEF PublishCopy, Staged
  <2>2. jobs[j].out \in [DbPages -> Contents]
    <3>1. jobs[j].sum \in [DbPages -> Nat]
        BY <2>1 DEF BackupTypeOK
    <3> QED
        BY <2>1, <3>1 DEF Contents
  <2>3. row \in Copies
        /\ row.synced /\ row.data = row.sum
      BY <2>1, <2>2
  <2>4. \A n \in Names : published'[n] = published[n] \/ (published[n] = NULL /\ published'[n] = row)
      BY <1>9 DEF PublishCopy, BackupTypeOK
  <2>5. published' \in [Names -> {NULL} \cup Copies]
    <3>1. published' = [n \in Names |-> published'[n]]
        BY <1>9 DEF PublishCopy, BackupTypeOK
    <3>2. \A n \in Names : published'[n] \in {NULL} \cup Copies
        BY <2>3, <2>4 DEF BackupTypeOK
    <3> QED
        BY <3>1, <3>2, Zenon
  <2> HIDE DEF row
  <2>6. jobs' = [jobs EXCEPT ![j] = NoCommand] /\ UNCHANGED <<database, committed>>
      BY <1>9 DEF PublishCopy
  <2>7. BackupTypeOK'
      BY <2>5, <2>6, NoCommandType DEF BackupTypeOK
  <2>8. Staged'
    <3>1. \A k \in Jobs : jobs'[k] = jobs[k] \/ jobs'[k].pc = "idle"
        BY <2>6, NoCommandType DEF BackupTypeOK
    <3>2. \A n \in Names : published[n] \in Copies => published'[n] \in Copies
        BY <2>3, <2>4
    <3> QED
        BY <2>6, <3>1, <3>2 DEF Staged
  <2>9. Durable'
      BY <2>3, <2>4 DEF Durable, Names
  <2> QED
      BY <2>7, <2>8, <2>9
<1>10. ASSUME NEW j \in Jobs, GiveUp(j)
       PROVE  BackupInv'
    BY <1>10, NoCommandType DEF GiveUp, BackupTypeOK, Staged, Durable
<1>11. CASE UNCHANGED backupVars
    BY <1>11 DEF backupVars, BackupTypeOK, Staged, Durable
<1> QED
    BY <1>1, <1>2, <1>3, <1>4, <1>5, <1>6, <1>7, <1>8, <1>9, <1>10, <1>11
    DEF BackupNext, ArchiveBackup, RestoreBackup, Names

\* What restore() publishes is byte for byte a state the database
\* committed, whatever is interrupted, rots or runs beside it.
THEOREM BackupRestores == BackupSpec => []RestoredCommitted
<1>1. BackupInv => RestoredCommitted
    BY DEF BackupInv, BackupTypeOK, Durable, RestoredCommitted, Names
<1> QED
    BY <1>1, BackupInitInv, BackupNextInv, PTL DEF BackupSpec

-----------------------------------------------------------------------------
\* The watchdog.

\* The state file, and an invocation in each of its stages.
WdStates == [origin: Nat, public: Nat, attempts: [Units -> SUBSET Nat],
             signature: Origins \cup {NULL}, progressAt: Nat \cup {NULL}]

Probed == [pc: {"probed"}, at: Nat, origin: Origins, publicOk: BOOLEAN]
Judging == [pc: Units, at: Nat, state: WdStates]
Restarting == [pc: {"restart"}, at: Nat, unit: Units]

WdTypeOK ==
    /\ wdTime \in Nat
    /\ disk \in WdStates
    /\ check \in {NULL} \cup Probed \cup Judging \cup Restarting
    /\ restarts \in Seq([unit: Units, at: Nat])
    /\ \A u \in Units : IsFiniteSet(disk.attempts[u])
    /\ check # NULL => /\ check.at <= wdTime
                       /\ check.pc \in Units => \A u \in Units : IsFiniteSet(check.state.attempts[u])

Of(u) == {i \in DOMAIN restarts : restarts[i].unit = u}

\* Every restart of u is one of these times, or left the window by the instant at.
Remembers(times, u, at) ==
    \A i \in Of(u) : restarts[i].at \in times \/ restarts[i].at + Window <= at

\* Everything that is pruned is judged by the start of an invocation.
Horizon == IF check = NULL THEN wdTime ELSE check.at

Remembered ==
    /\ \A u \in Units : Remembers(disk.attempts[u], u, Horizon)
    /\ check # NULL /\ check.pc \in Units =>
         \A u \in Units : Remembers(check.state.attempts[u], u, check.at)

\* The restarts of u that the window still holds at an instant.
Recent(u, at) == {i \in Of(u) : at < restarts[i].at + Window}

\* A restart is issued only when its attempt is on disk and the limits allow it.
Licensed ==
    check # NULL /\ check.pc = "restart" =>
        /\ check.at \in disk.attempts[check.unit]
        /\ \A i \in Of(check.unit) : restarts[i].at + Cooldown <= check.at
        /\ Cardinality(Recent(check.unit, check.at)) < MaxRecoveries

WdInv == WdTypeOK /\ Remembered /\ Licensed /\ RestartsBounded

LEMMA WdInitInv == WdInit => WdInv
<1> SUFFICES ASSUME WdInit PROVE WdInv
    OBVIOUS
<1>1. EmptyState \in WdStates /\ \A u \in Units : EmptyState.attempts[u] = {}
    BY DEF EmptyState, WdStates
<1>2. restarts \in Seq([unit: Units, at: Nat]) /\ \A u \in Units : Of(u) = {}
    BY DEF WdInit, Of
<1>3. WdTypeOK
    BY <1>1, <1>2, FS_EmptySet DEF WdInit, WdTypeOK
<1>4. Remembered /\ Licensed
    BY <1>2 DEF WdInit, Remembered, Remembers, Licensed
<1>5. RestartsBounded
    BY <1>2 DEF RestartsBounded, Of
<1> QED
    BY <1>3, <1>4, <1>5 DEF WdInv

LEMMA RestartsTyped ==
    ASSUME WdTypeOK, NEW i \in DOMAIN restarts
    PROVE  /\ i \in 1..Len(restarts) /\ i \in Nat
           /\ restarts[i].at \in Nat /\ restarts[i].unit \in Units
<1>1. restarts \in Seq([unit: Units, at: Nat])
    BY DEF WdTypeOK
<1>2. i \in 1..Len(restarts) /\ Len(restarts) \in Nat
    BY <1>1, LenProperties
<1>3. restarts[i] \in [unit: Units, at: Nat]
    BY <1>1, <1>2, ElementOfSeq
<1> QED
    BY <1>2, <1>3

\* What happened is forgotten by no later instant.
LEMMA LaterHorizon ==
    ASSUME WdTypeOK, NEW u \in Units, NEW times, NEW a \in Nat, NEW b \in Nat, a <= b,
           Remembers(times, u, a)
    PROVE  Remembers(times, u, b)
BY RestartsTyped, WdAssumption DEF Remembers, Of

\* Pruning at the instant that bounds the window forgets nothing it holds.
LEMMA PrunedRemembers ==
    ASSUME WdTypeOK, NEW u \in Units, NEW times \in SUBSET Nat, NEW at \in Nat,
           Remembers(times, u, at)
    PROVE  Remembers(Pruned(times, at), u, at)
BY RestartsTyped, WdAssumption DEF Remembers, Of, Pruned

\* The rate limit, read off a state that remembers every restart, bounds them.
LEMMA LimitsHold ==
    ASSUME WdInv, NEW u \in Units, NEW times \in SUBSET Nat, NEW at \in Nat,
           IsFiniteSet(times), Remembers(times, u, at),
           \A t \in Pruned(times, at) : at >= t + Cooldown,
           Cardinality(Pruned(times, at)) < MaxRecoveries
    PROVE  /\ \A i \in Of(u) : restarts[i].at + Cooldown <= at
           /\ Cardinality(Recent(u, at)) < MaxRecoveries
<1> USE DEF WdInv
<1>1. \A i \in Of(u) : restarts[i].at \in Nat
    BY RestartsTyped DEF Of
<1>2. \A i \in Of(u) : restarts[i].at \in Pruned(times, at) \/ restarts[i].at + Window <= at
    BY PrunedRemembers DEF Remembers
<1>3. \A i \in Of(u) : restarts[i].at + Cooldown <= at
    BY <1>1, <1>2, WdAssumption
<1>4. IsFiniteSet(Pruned(times, at)) /\ Cardinality(Pruned(times, at)) \in Nat
    BY FS_Subset, FS_CardinalityType DEF Pruned
<1> DEFINE f == [i \in Recent(u, at) |-> restarts[i].at]
<1>5. \A i \in Recent(u, at) : i \in Of(u) /\ i \in Nat /\ at < restarts[i].at + Window
    BY RestartsTyped DEF Recent, Of
<1>6. \A i \in Recent(u, at) : restarts[i].at \in Pruned(times, at)
    BY <1>1, <1>2, <1>5, WdAssumption
<1>7. \A i, j \in Recent(u, at) : restarts[i].at = restarts[j].at => i = j
    <2> SUFFICES ASSUME NEW i \in Recent(u, at), NEW j \in Recent(u, at), i < j
                 PROVE  restarts[i].at # restarts[j].at
        BY <1>5
    <2>1. restarts[i].at + Cooldown <= restarts[j].at
        BY <1>5 DEF RestartsBounded, Of
    <2> QED
        BY <1>1, <1>5, <2>1, WdAssumption
<1>8. f \in Injection(Recent(u, at), Pruned(times, at))
    BY <1>6, <1>7 DEF Injection, IsInjective
<1>9. Cardinality(Recent(u, at)) <= Cardinality(Pruned(times, at))
      /\ IsFiniteSet(Recent(u, at))
    BY <1>4, <1>8, FS_Injection
<1>10. Cardinality(Recent(u, at)) \in Nat
    BY <1>9, FS_CardinalityType
<1> QED
    BY <1>3, <1>4, <1>9, <1>10, WdAssumption

LEMMA HealthTyped ==
    ASSUME NEW state \in WdStates, NEW c \in Probed
    PROVE  /\ HealthAfter(state, c) \in WdStates
           /\ \A u \in Units : HealthAfter(state, c).attempts[u] = Pruned(state.attempts[u], c.at)
<1>1. \A failures \in Nat : OneMore(failures) \in Nat
    BY WdAssumption DEF OneMore
<1>2. ProgressAt(state, c.origin, c.at) \in Nat
    BY DEF ProgressAt, WdStates, Probed
<1>3. \A u \in Units : Pruned(state.attempts[u], c.at) \in SUBSET Nat
    BY DEF Pruned, WdStates
<1> QED
    BY <1>1, <1>2, <1>3 DEF HealthAfter, WdStates, Probed

\* A step that issues no restart keeps what is said of the restarts, when the
\* states it leaves on disk and in memory remember them.
LEMMA QuietStep ==
    ASSUME WdInv, UNCHANGED restarts, wdTime' \in Nat, disk' \in WdStates,
           \A u \in Units : IsFiniteSet(disk'.attempts[u]) /\ Remembers(disk'.attempts[u], u, Horizon'),
           \/ check' = NULL
           \/ /\ check' \in Probed /\ check'.at <= wdTime'
           \/ /\ check' \in Judging /\ check'.at <= wdTime'
              /\ \A u \in Units : /\ IsFiniteSet(check'.state.attempts[u])
                                  /\ Remembers(check'.state.attempts[u], u, check'.at)
           \/ /\ check' \in Restarting /\ check'.at <= wdTime'
              /\ Licensed'
    PROVE  WdInv'
<1> USE DEF WdInv
<1>1. WdTypeOK'
    BY DEF WdTypeOK, Probed, Judging, Restarting, Units
<1>2. Remembered'
    BY DEF Remembered, Remembers, Of, Probed, Judging, Restarting, Units
<1>3. Licensed'
    BY DEF Licensed, Probed, Judging, Units
<1>4. RestartsBounded'
    BY DEF RestartsBounded
<1> QED
    BY <1>1, <1>2, <1>3, <1>4

LEMMA WdNextInv == WdInv /\ [WdNext]_wdVars => WdInv'
<1> SUFFICES ASSUME WdInv, [WdNext]_wdVars PROVE WdInv'
    OBVIOUS
<1> USE DEF WdInv
<1>a. wdTime \in Nat /\ disk \in WdStates /\ Horizon \in Nat /\ Horizon <= wdTime
    BY DEF WdTypeOK, Horizon, Probed, Judging, Restarting
<1>b. \A u \in Units : IsFiniteSet(disk.attempts[u]) /\ Remembers(disk.attempts[u], u, wdTime)
    BY <1>a, LaterHorizon DEF WdTypeOK, Remembered
<1>1. CASE WdTick
  <2>1. wdTime' \in Nat /\ wdTime <= wdTime' /\ UNCHANGED <<disk, check, restarts>>
      BY <1>1, <1>a DEF WdTick
  <2>2. \A u \in Units : Remembers(disk.attempts[u], u, Horizon')
    <3>1. Horizon' \in Nat /\ Horizon <= Horizon'
        BY <2>1, <1>a DEF Horizon
    <3> QED
        BY <1>a, <3>1, LaterHorizon DEF Remembered
  <2>3. check # NULL => check.at \in Nat /\ check.at <= wdTime'
      BY <2>1, <1>a DEF WdTypeOK, Probed, Judging, Restarting
  <2>4. Licensed'
      BY <2>1 DEF Licensed, Recent, Of
  <2> QED
      BY <1>a, <1>b, <2>1, <2>2, <2>3, <2>4, QuietStep DEF WdTypeOK, Remembered, Probed, Judging, Restarting
<1>2. ASSUME NEW o \in Origins, NEW p \in BOOLEAN, Probe(o, p)
      PROVE  WdInv'
  <2>1. check' \in Probed /\ check'.at = wdTime /\ UNCHANGED <<wdTime, disk, restarts>>
      BY <1>2, <1>a DEF Probe, Probed
  <2>2. Horizon' = wdTime
      BY <2>1 DEF Horizon
  <2> QED
      BY <1>a, <1>b, <2>1, <2>2, QuietStep
<1>3. ASSUME NEW saved \in BOOLEAN, ObserveHealth(saved)
      PROVE  WdInv'
  <2> DEFINE state == HealthAfter(disk, check)
             at == check.at
  <2>1. check # NULL /\ check \in Probed /\ at \in Nat /\ at <= wdTime
      BY <1>3 DEF ObserveHealth, WdTypeOK, Probed, Judging, Restarting, Units
  <2>2. UNCHANGED <<wdTime, restarts>> /\ disk' \in {state, disk}
      BY <1>3 DEF ObserveHealth, Saves
  <2>3. check' = NULL \/ \E u \in Units : check' = [pc |-> u, at |-> at, state |-> state]
      BY <1>3 DEF ObserveHealth, Units
  <2>4. state \in WdStates /\ \A u \in Units : state.attempts[u] = Pruned(disk.attempts[u], at)
      BY <1>a, <2>1, HealthTyped
  <2> HIDE DEF state
  <2>5. \A u \in Units : /\ IsFiniteSet(state.attempts[u])
                         /\ Remembers(state.attempts[u], u, at)
    <3> SUFFICES ASSUME NEW u \in Units
                 PROVE  IsFiniteSet(state.attempts[u]) /\ Remembers(state.attempts[u], u, at)
        OBVIOUS
    <3>1. disk.attempts[u] \in SUBSET Nat /\ Pruned(disk.attempts[u], at) \in SUBSET disk.attempts[u]
        BY <1>a DEF WdStates, Pruned
    <3>2. Remembers(disk.attempts[u], u, at)
        BY <2>1 DEF Remembered, Horizon
    <3> QED
        BY <1>b, <2>1, <2>4, <3>1, <3>2, PrunedRemembers, FS_Subset
  <2>6. \A u \in Units : Remembers(disk.attempts[u], u, at)
      BY <2>1 DEF Remembered, Horizon
  <2>7. \A u \in Units : IsFiniteSet(disk'.attempts[u]) /\ Remembers(disk'.attempts[u], u, at)
                         /\ Remembers(disk'.attempts[u], u, wdTime)
      BY <1>a, <1>b, <2>1, <2>2, <2>5, <2>6, LaterHorizon
  <2>8. disk' \in WdStates
      BY <1>a, <2>2, <2>4
  <2>9. CASE check' = NULL
    <3>1. Horizon' = wdTime
        BY <2>2, <2>9 DEF Horizon
    <3> QED
        BY <1>a, <2>2, <2>7, <2>8, <2>9, <3>1, QuietStep
  <2>10. ASSUME NEW u \in Units, check' = [pc |-> u, at |-> at, state |-> state]
         PROVE  WdInv'
    <3>1. Horizon' = wdTime \/ Horizon' = at
        BY <2>2, <2>10 DEF Horizon
    <3>2. check' \in Judging /\ check'.at = at /\ check'.state = state
        BY <2>1, <2>4, <2>10 DEF Judging
    <3> HIDE DEF at
    <3> QED
        BY <1>a, <2>1, <2>2, <2>5, <2>7, <2>8, <3>1, <3>2, QuietStep
  <2> QED
      BY <2>3, <2>9, <2>10
<1>4. CASE Killed \/ \E u \in Units, s \in UnitStates : NoRecovery(u, s)
  <2>1. check' = NULL /\ UNCHANGED <<wdTime, disk, restarts>>
      BY <1>4 DEF Killed, NoRecovery
  <2>2. Horizon' = wdTime
      BY <2>1 DEF Horizon
  <2> QED
      BY <1>a, <1>b, <2>1, <2>2, QuietStep
<1>5. ASSUME NEW u \in Units, NEW s \in UnitStates, NEW saved \in BOOLEAN, Attempt(u, s, saved)
      PROVE  WdInv'
  <2> DEFINE at == check.at
             times == check.state.attempts[u]
             state == [check.state EXCEPT !.attempts[u] = Pruned(times, at) \cup {at}]
  <2>1. check # NULL /\ check.pc = u /\ RateAllows(u) /\ UNCHANGED <<wdTime, restarts>>
      BY <1>5 DEF Attempt, RecordAttempt
  <2>2. check \in Judging /\ at \in Nat /\ at <= wdTime
      BY <2>1 DEF WdTypeOK, Probed, Judging, Restarting, Units
  <2>3. disk' = disk \/ disk' = state
      BY <1>5 DEF Attempt, RecordAttempt, Saves
  <2>4. \/ check' = NULL
        \/ disk' = state /\ check' = [pc |-> "restart", at |-> at, unit |-> u]
      BY <1>5 DEF Attempt, RecordAttempt, Saves
  <2>5. check.state \in WdStates
      BY <2>2 DEF Judging
  <2>6. times \in SUBSET Nat /\ IsFiniteSet(times) /\ Remembers(times, u, at)
      BY <2>1, <2>2, <2>5 DEF WdTypeOK, Remembered, Judging, WdStates
  <2>7. Pruned(times, at) \cup {at} \in SUBSET Nat
      BY <2>2, <2>6 DEF Pruned
  <2>8. state \in WdStates /\ state.attempts[u] = Pruned(times, at) \cup {at}
        /\ \A v \in Units \ {u} : state.attempts[v] = check.state.attempts[v]
      BY <2>5, <2>7 DEF WdStates
  <2>9. Pruned(times, at) \in SUBSET times
      BY DEF Pruned
  <2> HIDE DEF state
  <2>10. \A v \in Units : IsFiniteSet(state.attempts[v]) /\ Remembers(state.attempts[v], v, at)
    <3>1. IsFiniteSet(Pruned(times, at) \cup {at})
        BY <2>6, <2>9, FS_Subset, FS_AddElement
    <3>2. Remembers(Pruned(times, at), u, at)
        BY <2>2, <2>6, PrunedRemembers
    <3>3. Remembers(Pruned(times, at) \cup {at}, u, at)
        BY <3>2 DEF Remembers
    <3>4. \A v \in Units : IsFiniteSet(check.state.attempts[v]) /\ Remembers(check.state.attempts[v], v, at)
        BY <2>1, <2>2 DEF WdTypeOK, Remembered, Judging
    <3> QED
        BY <2>8, <3>1, <3>3, <3>4
  <2>11. \A v \in Units : Remembers(disk.attempts[v], v, at)
      BY <2>1 DEF Remembered, Horizon
  <2>12. \A v \in Units : IsFiniteSet(disk'.attempts[v]) /\ Remembers(disk'.attempts[v], v, at)
                          /\ Remembers(disk'.attempts[v], v, wdTime)
      BY <1>a, <1>b, <2>2, <2>3, <2>10, <2>11, LaterHorizon
  <2>13. disk' \in WdStates
      BY <1>a, <2>3, <2>8
  <2>14. CASE check' = NULL
    <3>1. Horizon' = wdTime
        BY <2>1, <2>14 DEF Horizon
    <3> QED
        BY <1>a, <2>1, <2>12, <2>13, <2>14, <3>1, QuietStep
  <2>15. CASE disk' = state /\ check' = [pc |-> "restart", at |-> at, unit |-> u]
    <3>1. /\ \A i \in Of(u) : restarts[i].at + Cooldown <= at
          /\ Cardinality(Recent(u, at)) < MaxRecoveries
        BY <2>1, <2>2, <2>6, LimitsHold DEF RateAllows
    <3>2. at \in disk'.attempts[u]
        BY <2>8, <2>15
    <3>3. check' \in Restarting /\ check'.at = at /\ check'.unit = u
        BY <2>2, <2>15 DEF Restarting
    <3> HIDE DEF at, times
    <3>4. Licensed'
        BY <2>1, <3>1, <3>2, <3>3 DEF Licensed, Recent, Of
    <3>5. Horizon' = wdTime \/ Horizon' = at
        BY <2>1, <3>3 DEF Horizon
    <3> QED
        BY <1>a, <2>1, <2>2, <2>12, <2>13, <3>3, <3>4, <3>5, QuietStep
  <2> QED
      BY <2>4, <2>14, <2>15
<1>6. CASE RestartUnit
  <2> DEFINE u == check.unit
             at == check.at
             n == Len(restarts) + 1
  <2>1. check # NULL /\ check.pc = "restart" /\ check' = NULL /\ UNCHANGED <<wdTime, disk>>
        /\ restarts' = Append(restarts, [unit |-> u, at |-> at])
      BY <1>6 DEF RestartUnit
  <2>2. check \in Restarting /\ u \in Units /\ at \in Nat /\ at <= wdTime
      BY <2>1 DEF WdTypeOK, Probed, Judging, Restarting, Units
  <2>3. restarts \in Seq([unit: Units, at: Nat]) /\ Len(restarts) \in Nat
        /\ DOMAIN restarts = 1..Len(restarts)
      BY LenProperties DEF WdTypeOK
  <2>4. /\ restarts' \in Seq([unit: Units, at: Nat]) /\ DOMAIN restarts' = 1..n
        /\ restarts'[n].unit = u /\ restarts'[n].at = at
        /\ \A i \in DOMAIN restarts : restarts'[i] = restarts[i] /\ i \in Nat /\ i < n
    <3>1. [unit |-> u, at |-> at] \in [unit: Units, at: Nat]
        BY <2>2
    <3> HIDE DEF u, at
    <3> QED
        BY <2>1, <2>3, <3>1, AppendProperties, LenProperties
  <2> HIDE DEF u, at, n
  <2>5. \A v \in Units : Of(v)' = Of(v) \cup (IF v = u THEN {n} ELSE {})
    <3>1. DOMAIN restarts' = DOMAIN restarts \cup {n} /\ n \notin DOMAIN restarts
        BY <2>3, <2>4 DEF n
    <3> QED
        BY <2>4, <3>1 DEF Of
  <2>6. /\ at \in disk.attempts[u]
        /\ \A i \in Of(u) : restarts[i].at + Cooldown <= at
        /\ Cardinality(Recent(u, at)) < MaxRecoveries
      BY <2>1 DEF Licensed, u, at
  <2>7. WdTypeOK'
      BY <1>a, <1>b, <2>1, <2>4 DEF WdTypeOK
  <2>8. Remembered'
    <3>1. Horizon' = wdTime
        BY <2>1 DEF Horizon
    <3> SUFFICES ASSUME NEW v \in Units, NEW i \in Of(v)'
                 PROVE  restarts'[i].at \in disk.attempts[v] \/ restarts'[i].at + Window <= wdTime
        BY <2>1, <3>1 DEF Remembered, Remembers
    <3>2. CASE i \in Of(v)
        BY <1>b, <2>4, <3>2 DEF Remembers, Of
    <3>3. CASE i \notin Of(v)
        BY <2>4, <2>5, <2>6, <3>3
    <3> QED
        BY <3>2, <3>3
  <2>9. Licensed'
      BY <2>1 DEF Licensed
  <2>10. ASSUME NEW v \in Units, NEW i \in Of(v)', NEW j \in Of(v)', i < j
         PROVE  restarts'[i].at + Cooldown <= restarts'[j].at
    <3>1. i \in Of(v)
        BY <2>4, <2>5, <2>10 DEF Of
    <3>2. CASE j \in Of(v)
        BY <2>4, <2>10, <3>1, <3>2 DEF RestartsBounded, Of
    <3>3. CASE j \notin Of(v)
        BY <2>4, <2>5, <2>6, <3>1, <3>3 DEF Of
    <3> QED
        BY <3>2, <3>3
  <2>11. ASSUME NEW v \in Units, NEW j \in Of(v)'
         PROVE  Cardinality({i \in Of(v)' : i <= j /\ restarts'[j].at < restarts'[i].at + Window}) <= MaxRecoveries
    <3>1. CASE j \in Of(v)
      <4>1. {i \in Of(v)' : i <= j /\ restarts'[j].at < restarts'[i].at + Window}
            = {i \in Of(v) : i <= j /\ restarts[j].at < restarts[i].at + Window}
          BY <2>4, <2>5, <3>1 DEF Of
      <4> QED
          BY <3>1, <4>1 DEF RestartsBounded, Of
    <3>2. CASE j \notin Of(v)
      <4>1. v = u /\ j = n
          BY <2>5, <3>2
      <4>2. {i \in Of(v)' : i <= j /\ restarts'[j].at < restarts'[i].at + Window}
            = Recent(u, at) \cup {n}
          BY <2>2, <2>4, <2>5, <4>1, RestartsTyped, WdAssumption DEF Recent, Of
      <4>3. IsFiniteSet(Recent(u, at))
        <5>1. IsFiniteSet(1..Len(restarts))
            BY <2>3, FS_Interval
        <5>2. Recent(u, at) \in SUBSET (1..Len(restarts))
            BY <2>3 DEF Recent, Of
        <5> QED
            BY <5>1, <5>2, FS_Subset
      <4>4. n \notin Recent(u, at)
          BY <2>4 DEF Recent, Of
      <4>5. Cardinality(Recent(u, at) \cup {n}) = Cardinality(Recent(u, at)) + 1
          BY <4>3, <4>4, FS_AddElement
      <4>6. Cardinality(Recent(u, at)) \in Nat
          BY <4>3, FS_CardinalityType
      <4>7. Cardinality(Recent(u, at) \cup {n}) <= MaxRecoveries
          BY <2>6, <4>5, <4>6, WdAssumption
      <4> QED
          BY <4>2, <4>7, Zenon
    <3> QED
        BY <3>1, <3>2
  <2>12. RestartsBounded'
      BY <2>10, <2>11 DEF RestartsBounded, Of
  <2> QED
      BY <2>7, <2>8, <2>9, <2>12
<1>7. CASE UNCHANGED wdVars
  <2>1. Horizon' = Horizon
      BY <1>7 DEF wdVars, Horizon
  <2> QED
      BY <1>7, <2>1 DEF wdVars, WdTypeOK, Remembered, Remembers, Licensed, Recent, Of, RestartsBounded
<1> QED
    BY <1>1, <1>2, <1>3, <1>4, <1>5, <1>6, <1>7 DEF WdNext

\* _app_recovery and _tunnel_recovery restart a unit only after the attempt is on disk and
\* _rate_limit_reason found nothing against it: for every schedule of checks, failed saves and
\* killed runs, a unit is not restarted within the cooldown of its last restart
\* nor more than MaxRecoveries times in a window.
THEOREM WdBounded == WdSpec => []RestartsBounded
<1>1. WdInv => RestartsBounded
    BY DEF WdInv
<1> QED
    BY <1>1, WdInitInv, WdNextInv, PTL DEF WdSpec

-----------------------------------------------------------------------------
\* The holder gate.  The invariant ties every number the gate holds to an
\* instant of the chain: the cached balance, the one a running evaluation
\* found, and the stored anchor.

Observation == [amount: Nat, at: Nat]
Anchor == [at: Nat, version: Nat \ {0}]
Pcs == {"idle", "observe", "fetch", "publish", "follow", "anchors", "settle", "done"}
CallType == [pc: Pcs, policy: Policies \cup {Unset}, start: Nat, at: Nat,
             found: Observation \cup {NULL}, seen: Anchor \cup {NULL},
             granted: {"no", "held", "grace"}]

Running(c) == calls[c].pc \notin {"idle", "done"}

GateTypeOK ==
  /\ gateTime \in Nat
  /\ policyTable \subseteq Policies
  /\ gatePolicy.policy \in policyTable \cup {Unset}
  /\ applying # NULL => applying.policy \in Policies
  /\ balances \in [GateTokens -> 0..MaxBalance]
  /\ lastHeld \in [GateTokens -> [1..MaxBalance -> Nat \cup {NULL}]]
  /\ holding \in Observation \cup {NULL}
  /\ anchor \in Anchor \cup {NULL}
  /\ calls \in [GateCalls -> CallType]
  /\ crossed \in BOOLEAN

\* The table keeps one policy of each version.
OneOfEach == \A p, q \in policyTable : p.version = q.version => p = q

\* lastHeld never lies in the future, and is now for what is held now.
HeldNow ==
  \A t \in GateTokens, a \in 1..MaxBalance :
     /\ lastHeld[t][a] # NULL => lastHeld[t][a] <= gateTime
     /\ a <= balances[t] => lastHeld[t][a] = gateTime

\* The tokens that a balance read for t may be of.
TokensFor(t) == IF crossed THEN GateTokens ELSE {t} \cap GateTokens

\* At least amount was held at some instant from at on.
HeldSince(t, amount, at) == lastHeld[t][amount] # NULL /\ lastHeld[t][amount] >= at

Observed(h, token) ==
  \E t \in TokensFor(token) : \A a \in 1..MaxBalance : a <= h.amount => HeldSince(t, a, h.at)

Anchored(row) ==
  \E p \in policyTable : /\ p.version = row.version
                         /\ \E t \in TokensFor(p.token) : HeldSince(t, p.need, row.at)

\* A running evaluation has a stored policy on the server's own token, unless
\* the token was changed under an evaluation.
RunsPolicy(c) ==
  Running(c) => /\ calls[c].policy \in policyTable
                /\ crossed \/ calls[c].policy.token = gatePolicy.policy.token

\* Every balance and every anchor the oracle or a call holds is backed.
CallBacked(c) ==
  Running(c) => /\ calls[c].found # NULL => Observed(calls[c].found, calls[c].policy.token)
                /\ calls[c].seen # NULL => Anchored(calls[c].seen)

Granted(c) ==
  calls[c].pc = "done" /\ calls[c].granted # "no" =>
    /\ calls[c].policy \in Policies
    /\ \E t \in TokensFor(calls[c].policy.token) :
         /\ lastHeld[t][calls[c].policy.need] # NULL
         /\ lastHeld[t][calls[c].policy.need]
              + (IF calls[c].granted = "held" THEN GateTtl ELSE GateGrace) >= calls[c].start

GateInv ==
  /\ GateTypeOK /\ OneOfEach /\ HeldNow
  /\ holding # NULL => Observed(holding, gatePolicy.policy.token)
  /\ anchor # NULL => Anchored(anchor)
  /\ \A c \in GateCalls : /\ calls[c].at <= gateTime
                          /\ RunsPolicy(c) /\ CallBacked(c) /\ Granted(c)

NonceInv ==
  /\ sessions \in [Nonces -> Nat]
  /\ nonces \in [Nonces -> {"unissued", "live", "gone"}]
  /\ signIns \in [SignIns -> Nonces \cup {NULL}]
  /\ \A n \in Nonces : sessions[n] <= 1 /\ (nonces[n] # "gone" => sessions[n] = 0)

LEMMA PolicyType ==
  \A p \in Policies : /\ p.version \in Nat \ {0} /\ p.token \in GateTokens
                      /\ p.need \in 1..MaxBalance
BY GateAssumption

\* What is known to have been held stays so: lastHeld only grows.
Grows ==
  \A t \in GateTokens, a \in 1..MaxBalance :
     lastHeld[t][a] # NULL => lastHeld'[t][a] # NULL /\ lastHeld'[t][a] >= lastHeld[t][a]

LEMMA GrowsKeeps ==
  ASSUME GateTypeOK, GateTypeOK', Grows, crossed => crossed', policyTable \subseteq policyTable'
  PROVE  /\ \A tok : \A h \in Observation : Observed(h, tok) => Observed(h, tok)'
         /\ \A row \in Anchor : Anchored(row) => Anchored(row)'
         /\ \A c \in GateCalls : Granted(c) /\ calls'[c] = calls[c] => Granted(c)'
<1>1. \A tok : TokensFor(tok) \subseteq TokensFor(tok)' /\ TokensFor(tok) \subseteq GateTokens
    BY DEF TokensFor
<1>2. \A t \in GateTokens, a \in 1..MaxBalance :
         /\ lastHeld[t][a] \in Nat \cup {NULL} /\ lastHeld'[t][a] \in Nat \cup {NULL}
         /\ lastHeld[t][a] # NULL => lastHeld'[t][a] # NULL /\ lastHeld'[t][a] >= lastHeld[t][a]
    BY DEF GateTypeOK, Grows
<1>3. ASSUME NEW t \in GateTokens, NEW a \in 1..MaxBalance, NEW at \in Nat, HeldSince(t, a, at)
      PROVE  HeldSince(t, a, at)'
    BY <1>2, <1>3, GateAssumption DEF HeldSince
<1>4. ASSUME NEW h \in Observation, NEW tok, Observed(h, tok)
      PROVE  Observed(h, tok)'
  <2>1. PICK t \in TokensFor(tok) : \A a \in 1..MaxBalance : a <= h.amount => HeldSince(t, a, h.at)
      BY <1>4 DEF Observed
  <2>2. t \in GateTokens /\ t \in TokensFor(tok)' /\ h.at \in Nat
      BY <1>1 DEF Observation
  <2> QED
      BY <2>1, <2>2, <1>3 DEF Observed
<1>5. ASSUME NEW row \in Anchor, Anchored(row)
      PROVE  Anchored(row)'
  <2>1. PICK p \in policyTable : /\ p.version = row.version
                                 /\ \E t \in TokensFor(p.token) : HeldSince(t, p.need, row.at)
      BY <1>5 DEF Anchored
  <2>2. PICK t \in TokensFor(p.token) : HeldSince(t, p.need, row.at)
      BY <2>1
  <2>3. t \in GateTokens /\ t \in TokensFor(p.token)' /\ row.at \in Nat /\ p.need \in 1..MaxBalance
      BY <1>1, PolicyType DEF Anchor, GateTypeOK
  <2>4. HeldSince(t, p.need, row.at)'
      BY <2>2, <2>3, <1>3
  <2>5. p \in policyTable'
      OBVIOUS
  <2> QED
      BY <2>1, <2>3, <2>4, <2>5 DEF Anchored
<1>6. ASSUME NEW c \in GateCalls, Granted(c), calls'[c] = calls[c]
      PROVE  Granted(c)'
  <2> SUFFICES ASSUME calls[c].pc = "done", calls[c].granted # "no" PROVE Granted(c)'
      BY <1>6 DEF Granted
  <2> DEFINE p == calls[c].policy
             window == IF calls[c].granted = "held" THEN GateTtl ELSE GateGrace
  <2>1. /\ p \in Policies
        /\ \E t \in TokensFor(p.token) : /\ lastHeld[t][p.need] # NULL
                                         /\ lastHeld[t][p.need] + window >= calls[c].start
      BY <1>6 DEF Granted
  <2>2. PICK t \in TokensFor(p.token) : /\ lastHeld[t][p.need] # NULL
                                        /\ lastHeld[t][p.need] + window >= calls[c].start
      BY <2>1
  <2>3. t \in GateTokens /\ t \in TokensFor(p.token)' /\ p.need \in 1..MaxBalance
      BY <1>1, <1>6, <2>1, PolicyType
  <2>4. window \in Nat /\ calls[c].start \in Nat
      BY GateAssumption DEF GateTypeOK, CallType
  <2>5. lastHeld'[t][p.need] # NULL /\ lastHeld'[t][p.need] + window >= calls[c].start
    <3> DEFINE old == lastHeld[t][p.need]
               new == lastHeld'[t][p.need]
    <3>1. old # NULL /\ old \in Nat \cup {NULL} /\ new # NULL /\ new \in Nat \cup {NULL} /\ new >= old
        BY <1>2, <2>2, <2>3
    <3>2. old + window >= calls[c].start
        BY <2>2
    <3> HIDE DEF old, new, p, window
    <3>3. new + window >= calls[c].start
        BY <3>1, <3>2, <2>4
    <3> QED
        BY <3>1, <3>3 DEF new
  <2> QED
      BY <1>6, <2>1, <2>3, <2>5 DEF Granted
<1> QED
    BY <1>4, <1>5, <1>6

LEMMA NewestIsStored == NewestPolicy \in policyTable \cup {Unset}
BY DEF NewestPolicy

\* A step that leaves the evaluations and the anchor alone.
LEMMA WorldStep ==
  ASSUME GateInv, GateTypeOK', OneOfEach', HeldNow', Grows,
         crossed => crossed', policyTable \subseteq policyTable',
         UNCHANGED <<calls, anchor>>, gateTime' >= gateTime,
         \/ holding' = NULL
         \/ holding' = holding /\ (crossed' \/ gatePolicy'.policy.token = gatePolicy.policy.token),
         \/ crossed'
         \/ gatePolicy'.policy.token = gatePolicy.policy.token
         \/ \A c \in GateCalls : ~Running(c)
  PROVE  GateInv'
<1> USE DEF GateInv
<1>1. /\ \A tok : \A h \in Observation : Observed(h, tok) => Observed(h, tok)'
      /\ \A row \in Anchor : Anchored(row) => Anchored(row)'
      /\ \A c \in GateCalls : Granted(c) => Granted(c)'
    BY GrowsKeeps
<1>3. holding' # NULL => Observed(holding, gatePolicy.policy.token)'
  <2> SUFFICES ASSUME holding' # NULL PROVE Observed(holding, gatePolicy.policy.token)'
      OBVIOUS
  <2>1. holding' = holding /\ holding \in Observation
      BY DEF GateTypeOK
  <2>2. (Observed(holding, gatePolicy.policy.token))
      BY <2>1
  <2> QED
      BY <1>1, <2>1, <2>2 DEF Observed, TokensFor
<1>4. anchor' # NULL => Anchored(anchor)'
  <2> SUFFICES ASSUME anchor' # NULL PROVE Anchored(anchor)'
      OBVIOUS
  <2>1. anchor' = anchor /\ anchor \in Anchor /\ Anchored(anchor)
      BY DEF GateTypeOK
  <2> QED
      BY <1>1, <2>1 DEF Anchored
<1>5. ASSUME NEW c \in GateCalls PROVE RunsPolicy(c)'
    BY DEF RunsPolicy, Running
<1>6. ASSUME NEW c \in GateCalls PROVE CallBacked(c)'
  <2> SUFFICES ASSUME Running(c) PROVE CallBacked(c)'
      BY DEF CallBacked, Running
  <2>1. calls[c].found \in Observation \cup {NULL} /\ calls[c].seen \in Anchor \cup {NULL}
      BY DEF GateTypeOK, CallType
  <2>2. calls[c].found # NULL => Observed(calls[c].found, calls[c].policy.token)'
    <3> SUFFICES ASSUME calls[c].found # NULL
                 PROVE  Observed(calls[c].found, calls[c].policy.token)'
        OBVIOUS
    <3>1. Observed(calls[c].found, calls[c].policy.token)
        BY DEF CallBacked
    <3> QED
        BY <1>1, <2>1, <3>1 DEF Observed, TokensFor
  <2>3. calls[c].seen # NULL => Anchored(calls[c].seen)'
      BY <1>1, <2>1 DEF CallBacked, Anchored
  <2> QED
      BY <2>2, <2>3 DEF CallBacked
<1>7. ASSUME NEW c \in GateCalls PROVE calls'[c].at <= gateTime'
    BY DEF GateTypeOK, CallType
<1> QED
    BY <1>1, <1>3, <1>4, <1>5, <1>6, <1>7

\* What an evaluation may not touch.
WorldKept == UNCHANGED <<gateTime, policyTable, gatePolicy, applying, balances, lastHeld, crossed>>

LEMMA KeptBacked ==
  ASSUME WorldKept
  PROVE  /\ \A h, tok : Observed(h, tok)' <=> Observed(h, tok)
         /\ \A row : Anchored(row)' <=> Anchored(row)
         /\ OneOfEach' <=> OneOfEach
         /\ HeldNow' <=> HeldNow
BY DEF WorldKept, Observed, Anchored, TokensFor, HeldSince, OneOfEach, HeldNow

\* A step of one evaluation, whose record becomes new.
LEMMA CallStep ==
  ASSUME GateInv, WorldKept, NEW c \in GateCalls, NEW new \in CallType,
         calls' = [calls EXCEPT ![c] = new],
         holding' \in Observation \cup {NULL},
         holding' # NULL => Observed(holding', gatePolicy.policy.token),
         anchor' \in Anchor \cup {NULL},
         anchor' # NULL => Anchored(anchor'),
         new.pc \notin {"idle", "done"} =>
           /\ new.policy \in policyTable
           /\ crossed \/ new.policy.token = gatePolicy.policy.token
           /\ new.found # NULL => Observed(new.found, new.policy.token)
           /\ new.seen # NULL => Anchored(new.seen),
         new.at <= gateTime,
         Granted(c)'
  PROVE  GateInv'
<1> USE DEF GateInv
<1>1. GateTypeOK'
    BY DEF GateTypeOK, WorldKept
<1>2. OneOfEach' /\ HeldNow'
    BY KeptBacked
<1>3. /\ holding' # NULL => Observed(holding, gatePolicy.policy.token)'
      /\ anchor' # NULL => Anchored(anchor)'
    BY DEF WorldKept, Observed, Anchored, TokensFor, HeldSince
<1>4. calls'[c] = new /\ \A d \in GateCalls \ {c} : calls'[d] = calls[d]
    BY DEF GateTypeOK
<1>5. ASSUME NEW d \in GateCalls PROVE RunsPolicy(d)'
    BY <1>4 DEF RunsPolicy, Running, WorldKept
<1>6. ASSUME NEW d \in GateCalls PROVE CallBacked(d)'
  <2>1. CASE d = c
      BY <1>4, <2>1 DEF CallBacked, Running, WorldKept, Observed, Anchored, TokensFor, HeldSince
  <2>2. CASE d # c
      BY <1>4, <2>2 DEF CallBacked, Running, WorldKept, Observed, Anchored, TokensFor, HeldSince
  <2> QED
      BY <2>1, <2>2
<1>7. ASSUME NEW d \in GateCalls PROVE Granted(d)'
  <2>1. CASE d # c
      BY <1>4, <2>1 DEF Granted, TokensFor, WorldKept
  <2> QED
      BY <2>1
<1>8. ASSUME NEW d \in GateCalls PROVE calls'[d].at <= gateTime'
    BY <1>4 DEF WorldKept
<1> QED
    BY <1>1, <1>2, <1>3, <1>5, <1>6, <1>7, <1>8

LEMMA GateInitInv == GateInit => GateInv /\ NonceInv
<1> SUFFICES ASSUME GateInit PROVE GateInv /\ NonceInv
    OBVIOUS
<1> USE DEF GateInit, GateInv
<1>1. calls \in [GateCalls -> CallType]
  <2>1. IdleCall \in CallType
      BY DEF IdleCall, CallType, Pcs
  <2> QED
      BY <2>1
<1>2. GateTypeOK
  <2>1. balances \in [GateTokens -> 0..MaxBalance]
      BY GateAssumption
  <2>2. lastHeld \in [GateTokens -> [1..MaxBalance -> Nat \cup {NULL}]]
      OBVIOUS
  <2>3. policyTable \subseteq Policies /\ gatePolicy.policy \in policyTable \cup {Unset}
      BY NewestIsStored, GateAssumption
  <2> QED
      BY <1>1, <2>1, <2>2, <2>3 DEF GateTypeOK
<1>3. OneOfEach
    BY GateAssumption DEF OneOfEach
<1>4. HeldNow
    BY GateAssumption DEF HeldNow
<1>5. \A c \in GateCalls : RunsPolicy(c) /\ CallBacked(c) /\ Granted(c)
    BY DEF RunsPolicy, CallBacked, Granted, Running, IdleCall
<1>7. \A c \in GateCalls : calls[c].at <= gateTime
    BY DEF IdleCall
<1>6. NonceInv
    BY GateAssumption DEF NonceInv
<1> QED
    BY <1>2, <1>3, <1>4, <1>5, <1>6, <1>7

\* A step that leaves the evaluation running under its policy.
LEMMA RunningStep ==
  ASSUME GateInv, WorldKept, NEW c \in GateCalls, Running(c), NEW new \in CallType,
         calls' = [calls EXCEPT ![c] = new],
         new.pc \notin {"idle", "done"}, new.policy = calls[c].policy,
         new.at \in {calls[c].at, gateTime},
         new.seen \in {calls[c].seen, anchor},
         \/ new.found \in {calls[c].found, holding, NULL}
         \/ Observed(new.found, calls[c].policy.token),
         UNCHANGED anchor, holding' \in {holding, calls[c].found}
  PROVE  GateInv'
<1> DEFINE call == calls[c]
<1>1. /\ call \in CallType /\ holding \in Observation \cup {NULL} /\ anchor \in Anchor \cup {NULL}
      /\ call.found \in Observation \cup {NULL} /\ gateTime \in Nat /\ call.at <= gateTime
    BY DEF GateInv, GateTypeOK, CallType
<1>2. /\ holding # NULL => Observed(holding, gatePolicy.policy.token)
      /\ anchor # NULL => Anchored(anchor)
      /\ call.policy \in policyTable /\ (crossed \/ call.policy.token = gatePolicy.policy.token)
      /\ call.found # NULL => Observed(call.found, call.policy.token)
      /\ call.seen # NULL => Anchored(call.seen)
    BY DEF GateInv, RunsPolicy, CallBacked
<1>3. \A h : Observed(h, call.policy.token) <=> Observed(h, gatePolicy.policy.token)
    BY <1>2 DEF Observed, TokensFor
<1>4. new.at <= gateTime
    BY <1>1
<1>5. new.found # NULL => Observed(new.found, new.policy.token)
    BY <1>2, <1>3
<1>6. new.seen # NULL => Anchored(new.seen)
    BY <1>2
<1>7. holding' # NULL => Observed(holding', gatePolicy.policy.token)
    BY <1>2, <1>3
<1>8. Granted(c)'
    BY DEF Granted, GateInv, GateTypeOK
<1>9. /\ holding' \in Observation \cup {NULL}
      /\ anchor' \in Anchor \cup {NULL}
      /\ anchor' # NULL => Anchored(anchor')
      /\ new.policy \in policyTable
      /\ crossed \/ new.policy.token = gatePolicy.policy.token
    BY <1>1, <1>2
<1> HIDE DEF call
<1> QED
    BY <1>4, <1>5, <1>6, <1>7, <1>8, <1>9, CallStep

LEMMA ReadPolicyInv ==
  ASSUME GateInv, NEW c \in GateCalls, ReadPolicy(c)
  PROVE  GateInv'
<1> DEFINE new == [IdleCall EXCEPT
                     !.pc = IF gatePolicy.policy.token = NULL THEN "done" ELSE "observe",
                     !.policy = gatePolicy.policy, !.start = gateTime]
<1>1. /\ gatePolicy.policy \in policyTable \cup {Unset} /\ policyTable \subseteq Policies
      /\ gateTime \in Nat /\ holding \in Observation \cup {NULL} /\ anchor \in Anchor \cup {NULL}
    BY DEF GateInv, GateTypeOK
<1>2. new \in CallType
    BY <1>1 DEF CallType, IdleCall, Pcs
<1>3. new.pc # "done" => new.policy \in policyTable
    BY <1>1 DEF IdleCall, Unset
<1>4. /\ new.found = NULL /\ new.seen = NULL /\ new.granted = "no" /\ new.at <= gateTime
      /\ new.policy = gatePolicy.policy
    BY <1>1 DEF IdleCall
<1>5. /\ WorldKept /\ UNCHANGED <<holding, anchor>>
      /\ calls' = [calls EXCEPT ![c] = new]
    BY DEF ReadPolicy, WorldKept
<1> HIDE DEF new
<1>6. Granted(c)'
    BY <1>4, <1>5 DEF Granted, GateInv, GateTypeOK
<1>7. /\ holding' # NULL => Observed(holding', gatePolicy.policy.token)
      /\ anchor' # NULL => Anchored(anchor')
    BY <1>5 DEF GateInv
<1> QED
    BY <1>1, <1>2, <1>3, <1>4, <1>5, <1>6, <1>7, CallStep

LEMMA ObserveInv ==
  ASSUME GateInv, NEW c \in GateCalls,
         \/ Observe(c) \/ NodeAnswers(c) \/ PublishHolding(c)
         \/ NodeFails(c) \/ FollowerWakes(c) \/ SelectAnchor(c)
  PROVE  GateInv'
<1> DEFINE call == calls[c]
<1>1. /\ call \in CallType /\ holding \in Observation \cup {NULL} /\ anchor \in Anchor \cup {NULL}
      /\ gateTime \in Nat
    BY DEF GateInv, GateTypeOK
<1>2. CASE Observe(c)
  <2>1. /\ Running(c) /\ WorldKept /\ UNCHANGED <<holding, anchor>>
        /\ \/ calls' = [calls EXCEPT ![c] = [call EXCEPT !.pc = "anchors", !.found = holding]]
           \/ calls' = [calls EXCEPT ![c] = [call EXCEPT !.pc = "fetch", !.at = gateTime,
                                                         !.found = holding]]
           \/ calls' = [calls EXCEPT ![c] = [call EXCEPT !.pc = "follow", !.at = gateTime]]
      BY <1>2 DEF Observe, Running, WorldKept
  <2> DEFINE n1 == [call EXCEPT !.pc = "anchors", !.found = holding]
             n2 == [call EXCEPT !.pc = "fetch", !.at = gateTime, !.found = holding]
             n3 == [call EXCEPT !.pc = "follow", !.at = gateTime]
  <2>2. CASE calls' = [calls EXCEPT ![c] = n1]
    <3>1. n1 \in CallType
        BY <1>1 DEF CallType, Pcs
    <3> QED
        BY <1>1, <2>1, <2>2, <3>1, RunningStep DEF CallType
  <2>3. CASE calls' = [calls EXCEPT ![c] = n2]
    <3>1. n2 \in CallType
        BY <1>1 DEF CallType, Pcs
    <3> QED
        BY <1>1, <2>1, <2>3, <3>1, RunningStep DEF CallType
  <2>4. CASE calls' = [calls EXCEPT ![c] = n3]
    <3>1. n3 \in CallType
        BY <1>1 DEF CallType, Pcs
    <3> QED
        BY <1>1, <2>1, <2>4, <3>1, RunningStep DEF CallType
  <2> QED
      BY <2>1, <2>2, <2>3, <2>4
<1>3. CASE NodeAnswers(c)
  <2> DEFINE h == [amount |-> balances[call.policy.token], at |-> call.at]
  <2>1. /\ Running(c) /\ WorldKept /\ UNCHANGED <<holding, anchor>>
        /\ calls' = [calls EXCEPT ![c] = [call EXCEPT !.pc = "publish", !.found = h]]
      BY <1>3 DEF NodeAnswers, Running, WorldKept
  <2>2. call.policy.token \in GateTokens
      BY <2>1, PolicyType DEF GateInv, GateTypeOK, RunsPolicy
  <2>3. balances[call.policy.token] \in 0..MaxBalance /\ call.at \in Nat /\ call.at <= gateTime
      BY <1>1, <2>2 DEF GateInv, GateTypeOK, CallType
  <2>4. h \in Observation
      BY <2>3, GateAssumption DEF Observation
  <2>5. \A a \in 1..MaxBalance : a <= h.amount => HeldSince(call.policy.token, a, h.at)
      BY <1>1, <2>2, <2>3, GateAssumption DEF HeldSince, GateInv, HeldNow
  <2>6. Observed(h, call.policy.token)
      BY <2>2, <2>5 DEF Observed, TokensFor
  <2> HIDE DEF h
  <2> QED
      BY <1>1, <2>1, <2>4, <2>6, RunningStep DEF CallType, Pcs
<1>4. CASE PublishHolding(c)
  <2>1. /\ Running(c) /\ WorldKept /\ UNCHANGED anchor /\ holding' = call.found
        /\ calls' = [calls EXCEPT ![c] = [call EXCEPT !.pc = "anchors"]]
      BY <1>4 DEF PublishHolding, Running, WorldKept
  <2> QED
      BY <1>1, <2>1, RunningStep DEF CallType, Pcs
<1>5. CASE NodeFails(c)
  <2>1. /\ Running(c) /\ WorldKept /\ UNCHANGED <<holding, anchor>>
        /\ \E h \in {call.found, NULL} :
              calls' = [calls EXCEPT ![c] = [call EXCEPT !.pc = "anchors", !.found = h]]
      BY <1>5 DEF NodeFails, Usable, Running, WorldKept
  <2>2. PICK h \in {call.found, NULL} :
              calls' = [calls EXCEPT ![c] = [call EXCEPT !.pc = "anchors", !.found = h]]
      BY <2>1
  <2> DEFINE new == [call EXCEPT !.pc = "anchors", !.found = h]
  <2>3. /\ new \in CallType /\ new.pc = "anchors" /\ new.policy = call.policy
        /\ new.at = call.at /\ new.seen = call.seen /\ new.found = h
      BY <1>1 DEF CallType, Pcs
  <2>4. calls' = [calls EXCEPT ![c] = new]
      BY <2>2
  <2> HIDE DEF new
  <2> QED
      BY <1>1, <2>1, <2>2, <2>3, <2>4, RunningStep
<1>6. CASE FollowerWakes(c)
  <2>1. /\ Running(c) /\ WorldKept /\ UNCHANGED <<holding, anchor>>
        /\ \E h \in {holding, NULL} :
              calls' = [calls EXCEPT ![c] = [call EXCEPT !.pc = "anchors", !.found = h]]
      BY <1>6 DEF FollowerWakes, Usable, Running, WorldKept
  <2>2. PICK h \in {holding, NULL} :
              calls' = [calls EXCEPT ![c] = [call EXCEPT !.pc = "anchors", !.found = h]]
      BY <2>1
  <2> DEFINE new == [call EXCEPT !.pc = "anchors", !.found = h]
  <2>3. /\ new \in CallType /\ new.pc = "anchors" /\ new.policy = call.policy
        /\ new.at = call.at /\ new.seen = call.seen /\ new.found = h
      BY <1>1 DEF CallType, Pcs
  <2>4. calls' = [calls EXCEPT ![c] = new]
      BY <2>2
  <2> HIDE DEF new
  <2> QED
      BY <1>1, <2>1, <2>2, <2>3, <2>4, RunningStep
<1>7. CASE SelectAnchor(c)
  <2>1. /\ Running(c) /\ WorldKept /\ UNCHANGED <<holding, anchor>>
        /\ calls' = [calls EXCEPT ![c] = [call EXCEPT !.pc = "settle", !.seen = anchor]]
      BY <1>7 DEF SelectAnchor, Running, WorldKept
  <2> QED
      BY <1>1, <2>1, RunningStep DEF CallType, Pcs
<1> QED
    BY <1>2, <1>3, <1>4, <1>5, <1>6, <1>7

LEMMA SettleInv ==
  ASSUME GateInv, NEW c \in GateCalls, SettleAnchor(c)
  PROVE  GateInv'
<1> DEFINE call == calls[c]
           below == FreshAt(call.found, call.start) /\ call.found.amount < call.policy.need
           kept == IF below THEN NULL ELSE call.seen
           how == IF Qualifies(call) THEN "held"
                  ELSE IF InGrace([call EXCEPT !.seen = kept]) THEN "grace" ELSE "no"
           new == [IdleCall EXCEPT !.pc = "done", !.policy = call.policy,
                                   !.start = call.start, !.granted = how]
<1>1. /\ call \in CallType /\ holding \in Observation \cup {NULL} /\ anchor \in Anchor \cup {NULL}
      /\ gateTime \in Nat
    BY DEF GateInv, GateTypeOK
<1>2. /\ call.found \in Observation \cup {NULL} /\ call.seen \in Anchor \cup {NULL}
      /\ call.start \in Nat /\ call.policy \in Policies \cup {Unset}
    BY <1>1 DEF CallType
<1>3. Running(c)
    BY DEF SettleAnchor, Running
<1>4. /\ call.policy \in policyTable /\ policyTable \subseteq Policies
      /\ call.found # NULL => Observed(call.found, call.policy.token)
      /\ call.seen # NULL => Anchored(call.seen)
      /\ holding # NULL => Observed(holding, gatePolicy.policy.token)
      /\ anchor # NULL => Anchored(anchor)
      /\ OneOfEach
    BY <1>3 DEF GateInv, GateTypeOK, RunsPolicy, CallBacked
<1>5. /\ call.policy.version \in Nat \ {0} /\ call.policy.token \in GateTokens
      /\ call.policy.need \in 1..MaxBalance
    BY <1>4, PolicyType
<1>6. /\ WorldKept /\ UNCHANGED holding
      /\ calls' = [calls EXCEPT ![c] = new]
      /\ anchor' \in {anchor, NULL} \/ (Qualifies(call) /\ anchor' = AnchorOf(call))
  <2>1. WorldKept /\ UNCHANGED holding /\ calls' = [calls EXCEPT ![c] = new]
      BY DEF SettleAnchor, WorldKept
  <2>2. anchor' \in {anchor, NULL} \/ (Qualifies(call) /\ anchor' = AnchorOf(call))
      BY DEF SettleAnchor
  <2> QED
      BY <2>1, <2>2
<1>7. /\ new.pc = "done" /\ new.policy = call.policy /\ new.start = call.start
      /\ new.granted = how /\ new.at = 0 /\ how \in {"no", "held", "grace"}
    BY DEF IdleCall
<1>8. new \in CallType
    BY <1>2 DEF CallType, IdleCall, Pcs
<1>9. ASSUME Qualifies(call)
      PROVE  \E t \in TokensFor(call.policy.token) :
                /\ lastHeld[t][call.policy.need] \in Nat /\ lastHeld[t][call.policy.need] # NULL
                /\ lastHeld[t][call.policy.need] >= call.found.at
  <2>1. call.found # NULL /\ call.found.amount >= call.policy.need
      BY <1>9 DEF Qualifies, FreshAt
  <2>2. PICK t \in TokensFor(call.policy.token) :
           \A a \in 1..MaxBalance : a <= call.found.amount => HeldSince(t, a, call.found.at)
      BY <1>4, <2>1 DEF Observed
  <2>3. HeldSince(t, call.policy.need, call.found.at)
      BY <1>2, <1>5, <2>1, <2>2 DEF Observation
  <2>4. lastHeld[t][call.policy.need] \in Nat \cup {NULL}
      BY <1>5, <2>2 DEF GateInv, GateTypeOK, TokensFor
  <2> QED
      BY <2>2, <2>3, <2>4 DEF HeldSince
<1>10. ASSUME how = "grace"
       PROVE  \E t \in TokensFor(call.policy.token) :
                 /\ lastHeld[t][call.policy.need] \in Nat /\ lastHeld[t][call.policy.need] # NULL
                 /\ lastHeld[t][call.policy.need] + GateGrace >= call.start
  <2>1. /\ call.seen # NULL /\ call.seen.version = call.policy.version
        /\ call.start <= call.seen.at + GateGrace
      BY <1>1, <1>10 DEF InGrace, CallType
  <2>2. PICK p \in policyTable : /\ p.version = call.seen.version
                                 /\ \E t \in TokensFor(p.token) : HeldSince(t, p.need, call.seen.at)
      BY <1>4, <2>1 DEF Anchored
  <2>3. p = call.policy
      BY <1>4, <2>1, <2>2 DEF OneOfEach
  <2>4. PICK t \in TokensFor(call.policy.token) : HeldSince(t, call.policy.need, call.seen.at)
      BY <2>2, <2>3
  <2>5. lastHeld[t][call.policy.need] \in Nat \cup {NULL} /\ call.seen.at \in Nat
      BY <1>2, <1>5, <2>1, <2>4 DEF GateInv, GateTypeOK, TokensFor, Anchor
  <2> QED
      BY <1>2, <2>1, <2>4, <2>5, GateAssumption DEF HeldSince
<1>11. anchor' \in Anchor \cup {NULL} /\ (anchor' # NULL => Anchored(anchor'))
  <2>1. CASE anchor' \in {anchor, NULL}
      BY <1>1, <1>4, <2>1
  <2>2. CASE Qualifies(call) /\ anchor' = AnchorOf(call)
    <3>1. call.found \in Observation
        BY <1>2, <2>2 DEF Qualifies, FreshAt
    <3>2. anchor' \in Anchor /\ anchor'.version = call.policy.version /\ anchor'.at = call.found.at
        BY <1>5, <2>2, <3>1 DEF AnchorOf, Anchor, Observation
    <3>3. \E t \in TokensFor(call.policy.token) : HeldSince(t, call.policy.need, call.found.at)
        BY <1>9, <2>2 DEF HeldSince
    <3> QED
        BY <1>4, <3>2, <3>3 DEF Anchored
  <2> QED
      BY <1>6, <2>1, <2>2
<1>12. ASSUME how # "no"
       PROVE  \E t \in TokensFor(call.policy.token) :
                 /\ lastHeld[t][call.policy.need] # NULL
                 /\ lastHeld[t][call.policy.need]
                      + (IF how = "held" THEN GateTtl ELSE GateGrace) >= call.start
  <2>1. CASE Qualifies(call)
    <3>1. call.found.at \in Nat /\ call.start < call.found.at + GateTtl /\ how = "held"
        BY <1>2, <2>1 DEF Qualifies, FreshAt, Observation
    <3>2. PICK t \in TokensFor(call.policy.token) :
             /\ lastHeld[t][call.policy.need] \in Nat /\ lastHeld[t][call.policy.need] # NULL
             /\ lastHeld[t][call.policy.need] >= call.found.at
        BY <1>9, <2>1
    <3>3. lastHeld[t][call.policy.need] + GateTtl >= call.start
        BY <1>2, <3>1, <3>2, GateAssumption
    <3> QED
        BY <3>1, <3>2, <3>3
  <2>2. CASE ~Qualifies(call)
    <3>1. how = "grace"
        BY <1>12, <2>2
    <3> HIDE DEF how
    <3> QED
        BY <1>10, <3>1
  <2> QED
      BY <2>1, <2>2
<1>13. Granted(c)'
  <2>1. calls'[c] = new
      BY <1>6 DEF GateInv, GateTypeOK
  <2>2. lastHeld' = lastHeld /\ \A tok : TokensFor(tok)' = TokensFor(tok)
      BY <1>6 DEF WorldKept, TokensFor
  <2>3. /\ calls'[c].policy = call.policy /\ calls'[c].start = call.start
        /\ calls'[c].granted = how
      BY <1>7, <2>1
  <2> HIDE DEF new, how
  <2> QED
      BY <1>4, <1>12, <2>2, <2>3 DEF Granted
<1>14. /\ holding' \in Observation \cup {NULL}
       /\ holding' # NULL => Observed(holding', gatePolicy.policy.token)
       /\ new.at <= gateTime
    BY <1>1, <1>4, <1>6, <1>7
<1> HIDE DEF new
<1> QED
    BY <1>6, <1>7, <1>8, <1>11, <1>13, <1>14, CallStep

LEMMA HeldStill ==
  ASSUME GateTypeOK, HeldNow, UNCHANGED <<gateTime, balances, lastHeld>>
  PROVE  Grows /\ gateTime' >= gateTime /\ HeldNow'
<1>1. \A t \in GateTokens, a \in 1..MaxBalance : lastHeld[t][a] \in Nat \cup {NULL}
    BY DEF GateTypeOK
<1>2. Grows
    BY <1>1 DEF Grows
<1>3. gateTime' >= gateTime
    BY DEF GateTypeOK
<1>4. HeldNow'
    BY DEF HeldNow
<1> QED
    BY <1>2, <1>3, <1>4

LEMMA PolicyInv == GateInv /\ GatePolicyNext => GateInv'
<1> SUFFICES ASSUME GateInv, GatePolicyNext PROVE GateInv'
    OBVIOUS
<1>1. GateTypeOK /\ OneOfEach /\ HeldNow
    BY DEF GateInv
<1>2. CASE RefreshPolicy
  <2>1. /\ UNCHANGED <<gateTime, policyTable, applying, balances, lastHeld, anchor, calls>>
        /\ gatePolicy'.policy = NewestPolicy /\ holding' \in {holding, NULL}
        /\ gatePolicy'.policy.token # gatePolicy.policy.token => holding' = NULL
        /\ crossed' = (crossed \/ (gatePolicy'.policy.token # gatePolicy.policy.token
                                   /\ \E c \in GateCalls : Running(c)))
      BY <1>2 DEF RefreshPolicy, ReRead, Adopt, Running
  <2>2. GateTypeOK'
      BY <1>1, <2>1, NewestIsStored DEF GateTypeOK
  <2>3. OneOfEach' /\ HeldNow'
      BY <1>1, <2>1 DEF OneOfEach, HeldNow
  <2>4. Grows /\ (crossed => crossed') /\ gateTime' >= gateTime
      BY <1>1, <2>1, GateAssumption DEF Grows, GateTypeOK
  <2> QED
      BY <2>1, <2>2, <2>3, <2>4, WorldStep
<1>3. CASE StorePolicy
  <2>1. UNCHANGED <<gateTime, balances, lastHeld, anchor, calls>> /\ applying' = NULL
        /\ applying # NULL
      BY <1>3 DEF StorePolicy
  <2>2. Grows /\ gateTime' >= gateTime /\ HeldNow'
      BY <1>1, <2>1, HeldStill
  <2>3. CASE \E q \in policyTable : q.version = applying.policy.version
    <3>1. UNCHANGED <<policyTable, gatePolicy, holding, crossed>>
        BY <1>3, <2>3 DEF StorePolicy
    <3>2. GateTypeOK' /\ OneOfEach'
        BY <1>1, <2>1, <3>1 DEF GateTypeOK, OneOfEach
    <3> QED
        BY <2>1, <2>2, <3>1, <3>2, WorldStep
  <2>4. CASE ~\E q \in policyTable : q.version = applying.policy.version
    <3>1. /\ policyTable' = policyTable \cup {applying.policy}
          /\ gatePolicy'.policy = applying.policy /\ holding' = NULL
          /\ crossed' = (crossed \/ (gatePolicy'.policy.token # gatePolicy.policy.token
                                     /\ \E c \in GateCalls : Running(c)))
        BY <1>3, <2>4 DEF StorePolicy, Adopt, Running
    <3>2. GateTypeOK'
        BY <1>1, <2>1, <3>1 DEF GateTypeOK
    <3>3. OneOfEach'
        BY <1>1, <2>4, <3>1 DEF OneOfEach
    <3> QED
        BY <2>1, <2>2, <3>1, <3>2, <3>3, WorldStep
  <2> QED
      BY <2>3, <2>4
<1>4. ASSUME NEW p \in Policies, CheckPolicy(p) PROVE GateInv'
  <2>1. /\ UNCHANGED <<gateTime, policyTable, gatePolicy, balances, lastHeld, anchor, calls,
                       holding, crossed>>
        /\ applying'.policy = p
      BY <1>4 DEF CheckPolicy
  <2>2. GateTypeOK' /\ OneOfEach'
      BY <1>1, <2>1 DEF GateTypeOK, OneOfEach
  <2> QED
      BY <1>1, <2>1, <2>2, HeldStill, WorldStep
<1>5. ASSUME NEW p \in Policies, CliPolicy(p) PROVE GateInv'
  <2>1. /\ UNCHANGED <<gateTime, gatePolicy, applying, balances, lastHeld, anchor, calls,
                       holding, crossed>>
        /\ policyTable' = policyTable \cup {p} /\ \A q \in policyTable : p.version > q.version
      BY <1>5 DEF CliPolicy
  <2>2. GateTypeOK'
      BY <1>1, <2>1 DEF GateTypeOK
  <2>3. OneOfEach'
      BY <1>1, <1>5, <2>1, PolicyType DEF OneOfEach, GateTypeOK
  <2> QED
      BY <1>1, <2>1, <2>2, <2>3, HeldStill, WorldStep
<1> QED
    BY <1>2, <1>3, <1>4, <1>5 DEF GatePolicyNext

LEMMA EnvInv == GateInv /\ GateEnvNext => GateInv'
<1> SUFFICES ASSUME GateInv, GateEnvNext PROVE GateInv'
    OBVIOUS
<1>1. GateTypeOK /\ OneOfEach /\ HeldNow
    BY DEF GateInv
<1>2. CASE GateTick
  <2>1. /\ UNCHANGED <<policyTable, gatePolicy, applying, balances, holding, anchor, calls, crossed>>
        /\ gateTime' = gateTime + 1
        /\ lastHeld' = [t \in GateTokens |-> [a \in 1..MaxBalance |->
                          IF a <= balances[t] THEN gateTime + 1 ELSE lastHeld[t][a]]]
      BY <1>2 DEF GateTick
  <2>4. \A t \in GateTokens, a \in 1..MaxBalance : lastHeld[t][a] \in Nat \cup {NULL}
      BY <1>1 DEF GateTypeOK
  <2>5. gateTime' \in Nat /\ lastHeld' \in [GateTokens -> [1..MaxBalance -> Nat \cup {NULL}]]
      BY <1>1, <2>1, <2>4 DEF GateTypeOK
  <2>2. GateTypeOK' /\ OneOfEach'
      BY <1>1, <2>1, <2>5 DEF GateTypeOK, OneOfEach
  <2>3. gateTime' >= gateTime
      BY <1>1, <2>1 DEF GateTypeOK
  <2>6. \A t \in GateTokens, a \in 1..MaxBalance :
           lastHeld'[t][a] = IF a <= balances[t] THEN gateTime + 1 ELSE lastHeld[t][a]
      BY <2>1
  <2>7. HeldNow' /\ Grows
    <3> SUFFICES ASSUME NEW t \in GateTokens, NEW a \in 1..MaxBalance
                 PROVE  /\ lastHeld'[t][a] # NULL => lastHeld'[t][a] <= gateTime'
                        /\ a <= balances'[t] => lastHeld'[t][a] = gateTime'
                        /\ lastHeld[t][a] # NULL =>
                             lastHeld'[t][a] # NULL /\ lastHeld'[t][a] >= lastHeld[t][a]
        BY DEF HeldNow, Grows
    <3>1. lastHeld[t][a] \in Nat \cup {NULL} /\ gateTime \in Nat /\ NULL \notin Nat
        BY <1>1, <2>4, GateAssumption DEF GateTypeOK
    <3>2. lastHeld[t][a] # NULL => lastHeld[t][a] <= gateTime
        BY <1>1 DEF HeldNow
    <3>3. CASE a <= balances[t]
        BY <2>1, <2>6, <3>1, <3>2, <3>3
    <3>4. CASE ~(a <= balances[t])
        BY <2>1, <2>6, <3>1, <3>2, <3>4
    <3> QED
        BY <3>3, <3>4
  <2> QED
      BY <2>1, <2>2, <2>3, <2>7, WorldStep
<1>3. ASSUME NEW t \in GateTokens, NEW amount \in 0..MaxBalance, BalanceMoves(t, amount)
      PROVE  GateInv'
  <2>1. /\ UNCHANGED <<gateTime, policyTable, gatePolicy, applying, holding, anchor, calls, crossed>>
        /\ balances' = [balances EXCEPT ![t] = amount]
        /\ lastHeld' = [lastHeld EXCEPT ![t] = [a \in 1..MaxBalance |->
                          IF a <= amount THEN gateTime ELSE lastHeld[t][a]]]
      BY <1>3 DEF BalanceMoves
  <2>2. GateTypeOK' /\ OneOfEach'
      BY <1>1, <2>1 DEF GateTypeOK, OneOfEach
  <2>3. HeldNow' /\ Grows /\ gateTime' >= gateTime
      BY <1>1, <2>1, GateAssumption DEF GateTypeOK, HeldNow, Grows
  <2> QED
      BY <2>1, <2>2, <2>3, WorldStep
<1> QED
    BY <1>2, <1>3 DEF GateEnvNext

LEMMA GateNextInv == GateInv /\ [GateNext \/ SignInNext]_gateVars => GateInv'
<1> SUFFICES ASSUME GateInv, [GateNext \/ SignInNext]_gateVars PROVE GateInv'
    OBVIOUS
<1>1. CASE GateCallNext
    BY <1>1, ReadPolicyInv, ObserveInv, SettleInv DEF GateCallNext
<1>2. CASE GatePolicyNext \/ GateEnvNext
    BY <1>2, PolicyInv, EnvInv
<1>3. CASE UNCHANGED oracleVars
    BY <1>3 DEF oracleVars, GateInv, GateTypeOK, OneOfEach, HeldNow, RunsPolicy, CallBacked, Granted,
       Running, Observed, Anchored, TokensFor, HeldSince
<1>4. CASE SignInNext
    BY <1>3, <1>4 DEF SignInNext, IssueNonce, ExpireNonce, FindNonce, RefuseSigner, MintSession
<1>5. CASE UNCHANGED gateVars
    BY <1>3, <1>5 DEF gateVars, oracleVars, boundVars
<1> QED
    BY <1>1, <1>2, <1>4, <1>5 DEF GateNext

LEMMA NonceNextInv == NonceInv /\ [GateNext \/ SignInNext]_gateVars => NonceInv'
<1> SUFFICES ASSUME NonceInv, [GateNext \/ SignInNext]_gateVars PROVE NonceInv'
    OBVIOUS
<1> USE DEF NonceInv
<1>1. CASE UNCHANGED signVars
    BY <1>1 DEF signVars
<1>2. CASE GateNext
  <2>1. UNCHANGED signVars
      BY <1>2 DEF GateNext, GateCallNext, GatePolicyNext, GateEnvNext, ReadPolicy, Observe, NodeAnswers,
         PublishHolding, NodeFails, FollowerWakes, SelectAnchor, SettleAnchor, RefreshPolicy,
         StorePolicy, CheckPolicy, CliPolicy, GateTick, BalanceMoves
  <2> QED
      BY <1>1, <2>1
<1>3. ASSUME NEW n \in Nonces, IssueNonce(n) \/ ExpireNonce(n) PROVE NonceInv'
    BY <1>3 DEF IssueNonce, ExpireNonce
<1>4. ASSUME NEW h \in SignIns, RefuseSigner(h) PROVE NonceInv'
    BY <1>4 DEF RefuseSigner
<1>5. ASSUME NEW h \in SignIns, NEW n \in Nonces, FindNonce(h, n) PROVE NonceInv'
    BY <1>5 DEF FindNonce
<1>6. ASSUME NEW h \in SignIns, MintSession(h) PROVE NonceInv'
  <2>1. signIns[h] \in Nonces /\ nonces[signIns[h]] = "live" /\ sessions[signIns[h]] = 0
      BY <1>6 DEF MintSession, TakesNonce
  <2> QED
      BY <1>6, <2>1 DEF MintSession
<1>7. CASE UNCHANGED gateVars
    BY <1>1, <1>7 DEF gateVars, signVars
<1> QED
    BY <1>2, <1>3, <1>4, <1>5, <1>6, <1>7 DEF SignInNext

\* entitle() grants a feature only on a balance that was really there, within
\* the oracle's TTL or the policy's grace, unless the token was changed under a
\* running evaluation; and a nonce mints one session.  For any number of threads,
\* policies, tokens and balances.
THEOREM HolderAccessBacked == GateSpec => []AccessBacked
<1>1. GateInv /\ NonceInv => AccessBacked
  <2> SUFFICES ASSUME GateInv, NonceInv PROVE AccessBacked
      OBVIOUS
  <2>1. NonceMintsOnce
      BY DEF NonceInv, NonceMintsOnce
  <2>2. ASSUME NEW c \in GateCalls, calls[c].pc = "done", calls[c].granted # "no"
        PROVE  \E t \in (IF crossed THEN GateTokens ELSE {calls[c].policy.token}) :
                  /\ lastHeld[t][calls[c].policy.need] # NULL
                  /\ lastHeld[t][calls[c].policy.need]
                       + (IF calls[c].granted = "held" THEN GateTtl ELSE GateGrace) >= calls[c].start
      BY <2>2 DEF GateInv, Granted, TokensFor
  <2>3. GrantBacked
      BY <2>2 DEF GrantBacked
  <2> QED
      BY <2>1, <2>3 DEF AccessBacked
<1> QED
    BY <1>1, GateInitInv, GateNextInv, NonceNextInv, PTL DEF GateSpec

-----------------------------------------------------------------------------
\* The trade desk.

\* The least of a set of numbers.
LEMMA LeastNumber ==
    ASSUME NEW S \in SUBSET Nat, S # {}
    PROVE  \E n \in S : \A m \in S : n <= m
<1> DEFINE below == {0..k : k \in S}
           R == StrictSubsetOrdering(Nat)
<1>1. \A k \in S : 0..k \in FiniteSubsetsOf(Nat)
    BY FS_Interval DEF FiniteSubsetsOf
<1>2. below \subseteq FiniteSubsetsOf(Nat) /\ below # {}
    BY <1>1
<1>3. IsWellFoundedOn(R, FiniteSubsetsOf(Nat))
    BY FS_StrictSubsetOrderingWellFounded
<1> HIDE DEF below, R
<1>4. PICK x \in below : \A y \in below : <<y, x>> \notin R
    BY <1>2, <1>3, WFMin
<1>5. PICK k \in S : x = 0..k
    BY <1>4 DEF below
<1>6. ASSUME NEW m \in S, m < k PROVE FALSE
  <2>1. 0..m \in below
      BY <1>6 DEF below
  <2>4. k \in 0..k /\ k \notin 0..m /\ 0..m \subseteq 0..k
      BY <1>6
  <2>2. 0..m \in SUBSET Nat /\ 0..k \in SUBSET Nat
      OBVIOUS
  <2>3. <<0..m, 0..k>> \in R
      BY <2>2, <2>4 DEF R, StrictSubsetOrdering
  <2> QED
      BY <1>4, <1>5, <2>1, <2>3
<1> QED
    BY <1>6


DeskTypes ==
    /\ now \in Nat /\ made \in Nat
    /\ IsFiniteSet(quotes)
    /\ \A q \in quotes : q.id \in 1..made /\ q.expires \in Nat
    /\ \A p \in prepared : p.id \in 1..made /\ p.wallet \in Wallets
    /\ \A r \in journal : r.hash \in 1..made /\ r.at \in Nat
    /\ DOMAIN quoting = Wallets
    /\ \A w \in Wallets : quoting[w] # NULL => quoting[w].expires \in Nat
    /\ DOMAIN reading = Wallets /\ DOMAIN historyPages = Wallets
    /\ \A w \in Wallets : reading[w] # NULL => reading[w].began \in Nat
    /\ \A w \in Wallets : historyPages[w] # NULL => historyPages[w].until \in Nat

\* A quote, the transaction made of it and the trade it became are of one wallet.
OneOwner ==
    /\ \A q, r \in quotes : q.id = r.id => q.wallet = r.wallet
    /\ \A q \in quotes, p \in prepared : q.id = p.id => q.wallet = p.wallet
    /\ \A p, o \in prepared : p.id = o.id => p.wallet = o.wallet
    /\ \A q \in quotes, r \in journal : q.id = r.hash => q.wallet = r.wallet
    /\ \A p \in prepared, r \in journal : p.id = r.hash => p.wallet = r.wallet

\* What a call has read, and a page holds, is every trade saved before it began.
PagesOK ==
    \A w \in Wallets :
        /\ reading[w] # NULL =>
             /\ reading[w].began <= now
             /\ \A r \in journal :
                  r.wallet = w /\ r.at < reading[w].began => r.hash \in reading[w].rows
        /\ historyPages[w] # NULL =>
             /\ historyPages[w].until <= now + CacheSeconds
             /\ \A r \in journal :
                  r.wallet = w /\ r.at + CacheSeconds < historyPages[w].until
                  => r.hash \in historyPages[w].rows

DeskInv == DeskTypes /\ OneOwner /\ PagesOK

LEMMA DeskInitInv == DeskInit => DeskInv
BY FS_EmptySet, DeskAssumption DEF DeskInit, DeskInv, DeskTypes, OneOwner, PagesOK

LEMMA OldestIsOwn ==
    ASSUME DeskTypes, NEW w, NEW S \in SUBSET quotes,
           ~(Cardinality(Owned(S, w)) < WalletQuotes)
    PROVE  Oldest(Owned(S, w)) \in quotes /\ Oldest(Owned(S, w)).wallet = w
<1> DEFINE own == Owned(S, w)
           ids == {q.id : q \in own}
<1>1. own \in SUBSET quotes /\ \A q \in own : q.wallet = w
    BY DEF Owned
<1>2. own # {}
    BY FS_EmptySet, DeskAssumption
<1>3. ids \in SUBSET Nat /\ ids # {}
    BY <1>1, <1>2 DEF DeskTypes
<1>4. PICK n \in ids : \A m \in ids : n <= m
  <2> HIDE DEF ids
  <2> QED
      BY <1>3, LeastNumber
<1>5. PICK q \in own : q.id = n
    BY <1>4
<1>6. \A r \in own : q.id <= r.id
    BY <1>4, <1>5
<1>7. Oldest(own) \in own
    BY <1>5, <1>6 DEF Oldest
<1> QED
    BY <1>1, <1>7

LEMMA StoreQuoteInv ==
    ASSUME DeskInv, NEW w \in Wallets, StoreQuote(w)
    PROVE  DeskInv' /\ \A q \in quotes :
              \/ q \in quotes' \/ now >= q.expires
              \/ \E r \in quotes' \ quotes : r.wallet = q.wallet
<1> DEFINE new == [id |-> made + 1, wallet |-> w, block |-> quoting[w].block,
                   expires |-> quoting[w].expires]
           left == WithoutOldest(Unexpired(quotes), w)
<1>1. /\ quotes' = left \cup {new} /\ made' = made + 1
      /\ quoting' = [quoting EXCEPT ![w] = NULL] /\ quoting[w] # NULL
      /\ UNCHANGED <<now, prepared, journal, historyPages, reading>>
    BY DEF StoreQuote, tradeVars
<1>2. left \in SUBSET quotes /\ Unexpired(quotes) \in SUBSET quotes
    BY DEF WithoutOldest, Unexpired
<1>3. new.id = made + 1 /\ new.wallet = w /\ new.expires = quoting[w].expires
    OBVIOUS
<1>4. made \in Nat /\ made + 1 \notin 1..made /\ 1..made \subseteq 1..(made + 1)
    BY DEF DeskInv, DeskTypes
<1>5. new \notin quotes
    BY <1>3, <1>4 DEF DeskInv, DeskTypes
<1>6. \A q \in quotes : q \in left \/ now >= q.expires \/ q.wallet = w
  <2> TAKE q \in quotes
  <2> SUFFICES ASSUME q \in Unexpired(quotes), q \notin left PROVE q.wallet = w
      BY DEF Unexpired, DeskInv, DeskTypes
  <2>1. ~(Cardinality(Owned(Unexpired(quotes), w)) < WalletQuotes)
      BY DEF WithoutOldest
  <2>2. q = Oldest(Owned(Unexpired(quotes), w))
      BY <2>1 DEF WithoutOldest
  <2> QED
      BY <1>2, <2>1, <2>2, OldestIsOwn DEF DeskInv
<1> HIDE DEF new, left
<1>7. DeskTypes'
  <2>1. IsFiniteSet(quotes')
      BY <1>1, <1>2, FS_Subset, FS_AddElement DEF DeskInv, DeskTypes
  <2> QED
      BY <1>1, <1>2, <1>3, <1>4, <2>1 DEF DeskInv, DeskTypes
<1>8. OneOwner'
    BY <1>1, <1>2, <1>3, <1>4 DEF DeskInv, DeskTypes, OneOwner
<1>9. PagesOK'
    BY <1>1 DEF DeskInv, PagesOK
<1> QED
    BY <1>1, <1>3, <1>5, <1>6, <1>7, <1>8, <1>9 DEF DeskInv

LEMMA PrepareTradeInv ==
    ASSUME DeskInv, NEW w \in Wallets, NEW q \in quotes, PrepareTrade(w, q)
    PROVE  DeskInv' /\ \A r \in quotes : r \in quotes' \/ now >= r.expires
<1>1. UNCHANGED <<now, quoting, made, journal, historyPages, reading>>
    BY DEF PrepareTrade, tradeVars
<1>2. CASE now >= q.expires
  <2>1. quotes' = quotes \ {q} /\ UNCHANGED prepared
      BY <1>2 DEF PrepareTrade
  <2>2. IsFiniteSet(quotes')
      BY <2>1, FS_Subset DEF DeskInv, DeskTypes
  <2>3. DeskTypes'
      BY <1>1, <2>1, <2>2 DEF DeskInv, DeskTypes
  <2>4. OneOwner' /\ PagesOK'
      BY <1>1, <2>1 DEF DeskInv, OneOwner, PagesOK
  <2> QED
      BY <1>2, <2>1, <2>3, <2>4 DEF DeskInv
<1>3. CASE ~(now >= q.expires)
  <2> DEFINE p == [id |-> q.id, wallet |-> w]
  <2>1. prepared' = prepared \cup {p} /\ w = q.wallet /\ UNCHANGED quotes
      BY <1>3 DEF PrepareTrade
  <2>2. p.id = q.id /\ p.wallet = w
      OBVIOUS
  <2> HIDE DEF p
  <2>3. DeskTypes'
      BY <1>1, <2>1, <2>2 DEF DeskInv, DeskTypes
  <2>4. OneOwner'
      BY <1>1, <2>1, <2>2 DEF DeskInv, OneOwner
  <2>5. PagesOK'
      BY <1>1 DEF DeskInv, PagesOK
  <2> QED
      BY <2>1, <2>3, <2>4, <2>5 DEF DeskInv
<1> QED
    BY <1>2, <1>3

LEMMA SaveTradeInv ==
    ASSUME DeskInv, NEW p \in prepared, SaveTrade(p)
    PROVE  DeskInv'
<1> DEFINE old == {r \in journal : r.hash = p.id}
           at == IF old = {} THEN now ELSE (CHOOSE r \in old : TRUE).at
           new == [hash |-> p.id, wallet |-> p.wallet, block |-> BlockOf(p.id), at |-> at]
<1>1. /\ journal' = (journal \ old) \cup {new}
      /\ UNCHANGED <<now, quotes, quoting, made, prepared, historyPages, reading>>
    BY DEF SaveTrade, quoteVars
<1>2. new.hash = p.id /\ new.wallet = p.wallet /\ new.at = at
    OBVIOUS
<1>3. at \in Nat /\ (at = now \/ \E r \in journal : r.hash = p.id /\ r.wallet = p.wallet /\ r.at = at)
  <2>1. CASE old = {}
      BY <2>1 DEF DeskInv, DeskTypes
  <2>2. CASE old # {}
    <3>1. (CHOOSE r \in old : TRUE) \in old
        BY <2>2
    <3> QED
        BY <2>2, <3>1 DEF DeskInv, DeskTypes, OneOwner
  <2> QED
      BY <2>1, <2>2
<1> HIDE DEF old, at, new
<1>4. journal' \subseteq journal \cup {new}
    BY <1>1
<1>5. DeskTypes'
    BY <1>1, <1>2, <1>3, <1>4 DEF DeskInv, DeskTypes
<1>6. OneOwner'
    BY <1>1, <1>2, <1>4 DEF DeskInv, OneOwner
<1>7. PagesOK'
  <2> SUFFICES ASSUME NEW w \in Wallets
               PROVE  /\ reading[w] # NULL =>
                           /\ reading[w].began <= now
                           /\ \A r \in journal \cup {new} :
                                r.wallet = w /\ r.at < reading[w].began => r.hash \in reading[w].rows
                      /\ historyPages[w] # NULL =>
                           /\ historyPages[w].until <= now + CacheSeconds
                           /\ \A r \in journal \cup {new} :
                                r.wallet = w /\ r.at + CacheSeconds < historyPages[w].until
                                => r.hash \in historyPages[w].rows
      BY <1>1, <1>4 DEF PagesOK
  <2>1. CASE at = now
      BY <1>2, <2>1, DeskAssumption DEF DeskInv, DeskTypes, PagesOK
  <2>2. CASE \E r \in journal : r.hash = p.id /\ r.wallet = p.wallet /\ r.at = at
      BY <1>2, <2>2 DEF DeskInv, PagesOK
  <2> QED
      BY <1>3, <2>1, <2>2
<1> QED
    BY <1>5, <1>6, <1>7 DEF DeskInv

LEMMA HistoryInv ==
    ASSUME DeskInv, NEW w \in Wallets,
           DropPages(w) \/ HistoryReads(w) \/ HistoryReturns(w) \/ HistoryFails(w)
    PROVE  DeskInv'
<1>1. UNCHANGED <<now, quotes, quoting, made, prepared, journal>>
    BY DEF DropPages, HistoryReads, HistoryReturns, HistoryFails, quoteVars
<1>2. OneOwner'
    BY <1>1 DEF DeskInv, OneOwner
<1>3. CASE DropPages(w)
    BY <1>1, <1>2, <1>3 DEF DropPages, DeskInv, DeskTypes, PagesOK
<1>4. CASE HistoryFails(w)
    BY <1>1, <1>2, <1>4 DEF HistoryFails, DeskInv, DeskTypes, PagesOK
<1>5. CASE HistoryReads(w)
  <2> DEFINE call == [began |-> now, rows |-> StoredTrades(w) \cup Discovered(w)]
  <2>1. reading' = [reading EXCEPT ![w] = call] /\ UNCHANGED historyPages
      BY <1>5 DEF HistoryReads
  <2>2. call.began = now /\ \A r \in journal : r.wallet = w => r.hash \in call.rows
      BY DEF StoredTrades
  <2> HIDE DEF call
  <2>3. DeskTypes'
      BY <1>1, <2>1, <2>2 DEF DeskInv, DeskTypes
  <2>4. PagesOK'
      BY <1>1, <2>1, <2>2 DEF DeskInv, DeskTypes, PagesOK
  <2> QED
      BY <1>2, <2>3, <2>4 DEF DeskInv
<1>6. CASE HistoryReturns(w)
  <2> DEFINE served == [until |-> PageExpiry(reading[w].began), rows |-> reading[w].rows]
  <2>1. /\ historyPages' = [historyPages EXCEPT ![w] = served]
        /\ reading' = [reading EXCEPT ![w] = NULL] /\ reading[w] # NULL
      BY <1>6 DEF HistoryReturns
  <2>2. served.until = reading[w].began + CacheSeconds /\ served.rows = reading[w].rows
      BY DEF PageExpiry
  <2> HIDE DEF served
  <2>3. DeskTypes'
      BY <1>1, <2>1, <2>2, DeskAssumption DEF DeskInv, DeskTypes
  <2>4. PagesOK'
    <3> SUFFICES ASSUME NEW v \in Wallets
                 PROVE  /\ reading'[v] # NULL =>
                             /\ reading[v].began <= now
                             /\ \A r \in journal :
                                  r.wallet = v /\ r.at < reading[v].began => r.hash \in reading[v].rows
                        /\ historyPages'[v] # NULL =>
                             /\ historyPages'[v].until <= now + CacheSeconds
                             /\ \A r \in journal :
                                  r.wallet = v /\ r.at + CacheSeconds < historyPages'[v].until
                                  => r.hash \in historyPages'[v].rows
        BY <1>1, <2>1 DEF DeskInv, DeskTypes, PagesOK
    <3>1. CASE v = w
        BY <2>1, <2>2, <3>1, DeskAssumption DEF DeskInv, DeskTypes, PagesOK
    <3>2. CASE v # w
        BY <2>1, <3>2 DEF DeskInv, DeskTypes, PagesOK
    <3> QED
        BY <3>1, <3>2
  <2> QED
      BY <1>2, <2>3, <2>4 DEF DeskInv
<1> QED
    BY <1>3, <1>4, <1>5, <1>6

\* Nothing but an expiry or a newer quote of its wallet takes a quote away.
LEMMA DeskStep ==
    DeskInv /\ [DeskNext]_deskVars =>
        /\ DeskInv'
        /\ [\A q \in quotes :
              \/ q \in quotes' \/ now >= q.expires
              \/ \E r \in quotes' \ quotes : r.wallet = q.wallet]_deskVars
<1> SUFFICES ASSUME DeskInv, [DeskNext]_deskVars
             PROVE  /\ DeskInv'
                    /\ \A q \in quotes :
                         \/ q \in quotes' \/ now >= q.expires
                         \/ \E r \in quotes' \ quotes : r.wallet = q.wallet
    OBVIOUS
<1>1. ASSUME NEW w \in Wallets, BeginQuote(w) \/ RefuseQuote(w)
      PROVE  DeskInv' /\ UNCHANGED quotes
  <2>1. UNCHANGED <<now, quotes, made, prepared, journal, historyPages, reading>>
      BY <1>1 DEF BeginQuote, RefuseQuote, tradeVars
  <2>2. OneOwner' /\ PagesOK'
      BY <2>1 DEF DeskInv, OneOwner, PagesOK
  <2>3. DOMAIN quoting' = Wallets
        /\ \A v \in Wallets : quoting'[v] # NULL => quoting'[v].expires \in Nat
    <3>1. CASE BeginQuote(w)
        BY <3>1, DeskAssumption DEF BeginQuote, DeskInv, DeskTypes
    <3>2. CASE RefuseQuote(w)
        BY <3>2 DEF RefuseQuote, DeskInv, DeskTypes
    <3> QED
        BY <1>1, <3>1, <3>2
  <2> QED
      BY <2>1, <2>2, <2>3 DEF DeskInv, DeskTypes
<1>2. ASSUME NEW w \in Wallets,
             DropPages(w) \/ HistoryReads(w) \/ HistoryReturns(w) \/ HistoryFails(w)
      PROVE  DeskInv' /\ UNCHANGED quotes
    BY <1>2, HistoryInv DEF DropPages, HistoryReads, HistoryReturns, HistoryFails, quoteVars
<1>3. ASSUME NEW p \in prepared, SaveTrade(p) PROVE DeskInv' /\ UNCHANGED quotes
    BY <1>3, SaveTradeInv DEF SaveTrade, quoteVars
<1>4. CASE NewBlock \/ ForkBlock \/ (\E p \in prepared : Broadcast(p)) \/ UNCHANGED deskVars
  <2>1. UNCHANGED <<now, quoteVars, tradeVars>>
      BY <1>4 DEF NewBlock, ForkBlock, Broadcast, deskVars
  <2> QED
      BY <2>1 DEF quoteVars, tradeVars, DeskInv, DeskTypes, OneOwner, PagesOK
<1>5. CASE ClockTicks
  <2>1. now' = now + 1 /\ UNCHANGED <<quoteVars, tradeVars>>
      BY <1>5 DEF ClockTicks
  <2>2. PagesOK'
      BY <2>1, DeskAssumption DEF quoteVars, tradeVars, DeskInv, DeskTypes, PagesOK
  <2> QED
      BY <2>1, <2>2 DEF quoteVars, tradeVars, DeskInv, DeskTypes, OneOwner
<1> QED
    BY <1>1, <1>2, <1>3, <1>4, <1>5, StoreQuoteInv, PrepareTradeInv DEF DeskNext

\* A page served from the cache misses no trade saved longer than the cache time
\* ago, and only its expiry or its own wallet takes a quote away (TxCore._store,
\* history, receipt).
THEOREM DeskPromises == DeskSpec => DeskKept
<1>1. DeskInv => HistoryBounded
    BY DeskAssumption DEF DeskInv, DeskTypes, PagesOK, HistoryBounded, CacheHit
<1> QED
    BY <1>1, DeskInitInv, DeskStep, PTL DEF DeskSpec, DeskKept, QuoteKept

-----------------------------------------------------------------------------
\* The fee claim on a concentrated pool.  First what masking does.

Residues == 0..(Wrap - 1)

LEMMA MaskedIsResidue ==
    ASSUME NEW n \in Int
    PROVE  /\ Masked(n) \in Residues
           /\ \E q \in Int : n = Masked(n) + q * Wrap
<1>1. Wrap \in Nat \ {0}
    BY PoolAssumption
<1>2. n = (n \div Wrap) * Wrap + Masked(n) /\ n \div Wrap \in Int
    BY <1>1 DEF Masked
<1>3. Masked(n) \in Residues
    BY <1>1 DEF Masked, Residues
<1>4. n = Masked(n) + (n \div Wrap) * Wrap
    BY <1>1, <1>2, <1>3 DEF Residues
<1> QED
    BY <1>2, <1>3, <1>4, Zenon

LEMMA ResidueIsUnique ==
    ASSUME NEW a \in Residues, NEW b \in Residues, NEW q \in Int, a = b + q * Wrap
    PROVE  a = b
<1>1. Wrap \in Nat \ {0}
    BY PoolAssumption
<1>2. q * Wrap < Wrap /\ -Wrap < q * Wrap
    BY <1>1 DEF Residues
<1>3. q = 0
    BY <1>1, <1>2
<1> QED
    BY <1>1, <1>3 DEF Residues

LEMMA MaskedShift ==
    ASSUME NEW a \in Int, NEW b \in Int, NEW q \in Int, a = b + q * Wrap
    PROVE  Masked(a) = Masked(b)
<1>1. Wrap \in Nat
    BY PoolAssumption
<1>2. PICK i \in Int : a = Masked(a) + i * Wrap
    BY MaskedIsResidue
<1>3. PICK j \in Int : b = Masked(b) + j * Wrap
    BY MaskedIsResidue
<1>4. Masked(a) \in Residues /\ Masked(b) \in Residues
    BY MaskedIsResidue
<1>5. Masked(a) = Masked(b) + (j + q - i) * Wrap
    BY <1>1, <1>2, <1>3, <1>4 DEF Residues
<1>6. j + q - i \in Int
    OBVIOUS
<1> QED
    BY <1>4, <1>5, <1>6, ResidueIsUnique

LEMMA MaskedInside ==
    ASSUME NEW a \in Int, NEW b \in Int
    PROVE  /\ Masked(a - Masked(b)) = Masked(a - b)
           /\ Masked(Masked(a) - b) = Masked(a - b)
<1>1. Wrap \in Nat
    BY PoolAssumption
<1>2. PICK i \in Int : a = Masked(a) + i * Wrap
    BY MaskedIsResidue
<1>3. PICK j \in Int : b = Masked(b) + j * Wrap
    BY MaskedIsResidue
<1>4. Masked(a) \in Int /\ Masked(b) \in Int
    BY <1>1, MaskedIsResidue DEF Residues
<1>5. a - Masked(b) = (a - b) + j * Wrap
    BY <1>1, <1>3, <1>4
<1>6. a - b = (Masked(a) - b) + i * Wrap
    BY <1>1, <1>2, <1>4
<1>10. a - Masked(b) \in Int /\ a - b \in Int
    BY <1>4
<1>7. Masked(a - Masked(b)) = Masked(a - b)
    BY <1>5, <1>10, MaskedShift, Zenon
<1>8. Masked(a) - b \in Int /\ a - b \in Int
    BY <1>4
<1>9. Masked(Masked(a) - b) = Masked(a - b)
    BY <1>6, <1>8, MaskedShift, Zenon
<1> QED
    BY <1>7, <1>9

LEMMA MaskedOfResidue ==
    ASSUME NEW m \in Residues
    PROVE  Masked(m) = m
<1>1. m \in Int
    BY PoolAssumption DEF Residues
<1>2. PICK q \in Int : m = Masked(m) + q * Wrap
    BY <1>1, MaskedIsResidue
<1>3. Masked(m) \in Residues
    BY <1>1, MaskedIsResidue
<1> QED
    BY <1>2, <1>3, ResidueIsUnique

LEMMA MaskedNext ==
    ASSUME NEW a \in Int, Masked(a) + 1 < Wrap
    PROVE  Masked(a + 1) = Masked(a) + 1
<1>1. Wrap \in Nat
    BY PoolAssumption
<1>2. PICK q \in Int : a = Masked(a) + q * Wrap
    BY MaskedIsResidue
<1>3. Masked(a) \in Residues
    BY MaskedIsResidue
<1>4. Masked(a) + 1 \in Residues
    BY <1>1, <1>3 DEF Residues
<1>5. a + 1 = (Masked(a) + 1) + q * Wrap
    BY <1>1, <1>2, <1>3 DEF Residues
<1>7. a + 1 \in Int /\ Masked(a) + 1 \in Int
    BY <1>1, <1>3 DEF Residues
<1>6. Masked(a + 1) = Masked(Masked(a) + 1)
    BY <1>5, <1>7, MaskedShift, Zenon
<1> QED
    BY <1>4, <1>6, MaskedOfResidue

LEMMA InsideIs ==
    ASSUME NEW t \in Int, NEW g \in Int, NEW out, out[LowerTick] \in Int, out[UpperTick] \in Int
    PROVE  InsideGrowth(t, g, out) =
             Masked((g - (IF t >= LowerTick THEN out[LowerTick] ELSE g - out[LowerTick]))
                      - (IF t < UpperTick THEN out[UpperTick] ELSE g - out[UpperTick]))
<1> DEFINE below == IF t >= LowerTick THEN out[LowerTick] ELSE g - out[LowerTick]
           above == IF t < UpperTick THEN out[UpperTick] ELSE g - out[UpperTick]
           b == BelowGrowth(t, g, out)
           a == AboveGrowth(t, g, out)
<1>1. below \in Int /\ above \in Int
    OBVIOUS
<1>2. b = below \/ b = Masked(below)
    BY DEF BelowGrowth
<1>3. a = above \/ a = Masked(above)
    BY DEF AboveGrowth
<1>4. InsideGrowth(t, g, out) = Masked((g - b) - a)
    BY DEF InsideGrowth
<1> HIDE DEF below, above, a, b
<1>5. \A n \in Int : Masked(n) \in Int
    BY PoolAssumption, MaskedIsResidue DEF Residues
<1>6. a \in Int /\ b \in Int
    BY <1>1, <1>2, <1>3, <1>5, Zenon
<1>7. g - b \in Int /\ g - below \in Int /\ g - a \in Int /\ g - above \in Int
    BY <1>1, <1>6
<1>8. Masked((g - b) - a) = Masked((g - b) - above)
  <2>1. Masked((g - b) - Masked(above)) = Masked((g - b) - above)
      BY <1>1, <1>7, MaskedInside, Zenon
  <2> QED
      BY <1>3, <2>1
<1>9. (g - b) - above = (g - above) - b /\ (g - above) - below = (g - below) - above
    BY <1>1, <1>6
<1>10. Masked((g - above) - b) = Masked((g - above) - below)
  <2>1. Masked((g - above) - Masked(below)) = Masked((g - above) - below)
      BY <1>1, <1>7, MaskedInside, Zenon
  <2> QED
      BY <1>2, <2>1
<1>11. InsideGrowth(t, g, out) = Masked((g - below) - above)
    BY <1>4, <1>8, <1>9, <1>10
<1> QED
    BY <1>11 DEF below, above

-----------------------------------------------------------------------------
\* Now the position.

Inside == InsideGrowth(tick, growth, outside)
Claim == Masked(Inside - pos.last)

FeeTypes ==
    /\ tick \in Int /\ growth \in Residues
    /\ DOMAIN outside = Ticks /\ outside[LowerTick] \in Residues /\ outside[UpperTick] \in Residues
    /\ pos \in [liq : Nat, last : Residues, owed : Nat]
    /\ earned \in Nat /\ paid \in Nat
    /\ \A s \in simulated : s.liq \in Nat

\* The fees earned bound what has grown inside the range since the position
\* was last credited, so that the difference has not wrapped.
FeeInv ==
    /\ FeeTypes
    /\ earned - paid = pos.owed + pos.liq * Claim

LEMMA InsideType ==
    ASSUME FeeTypes
    PROVE  Inside \in Residues /\ Claim \in Residues
<1>1. Wrap \in Nat
    BY PoolAssumption
<1>2. \A t \in Int : \A g \in Residues : \A out :
         out[LowerTick] \in Residues /\ out[UpperTick] \in Residues
         => InsideGrowth(t, g, out) \in Residues
  <2>1. ASSUME NEW t \in Int, NEW g \in Residues, NEW out,
               out[LowerTick] \in Residues, out[UpperTick] \in Residues
        PROVE  InsideGrowth(t, g, out) \in Residues
    <3> DEFINE n == (g - (IF t >= LowerTick THEN out[LowerTick] ELSE g - out[LowerTick]))
                      - (IF t < UpperTick THEN out[UpperTick] ELSE g - out[UpperTick])
    <3>1. g \in Int /\ out[LowerTick] \in Int /\ out[UpperTick] \in Int
        BY <1>1, <2>1 DEF Residues
    <3>2. n \in Int
        BY <3>1
    <3>3. InsideGrowth(t, g, out) = Masked(n)
        BY <3>1, InsideIs
    <3> QED
        BY <3>2, <3>3, MaskedIsResidue
  <2> QED
      BY <2>1
<1>3. Inside \in Residues
    BY <1>2 DEF Inside, FeeTypes
<1>4. Inside - pos.last \in Int
    BY <1>1, <1>3 DEF FeeTypes, Residues
<1> QED
    BY <1>3, <1>4, MaskedIsResidue DEF Claim

LEMMA NothingClaimed == Masked(0) = 0
BY PoolAssumption, MaskedOfResidue DEF Residues

LEMMA FeesAre ==
    ASSUME FeeTypes
    PROVE  UncollectedFees = pos.owed + pos.liq * Claim
<1>1. Claim \in Nat
    BY InsideType, PoolAssumption DEF Residues
<1>2. pos.liq \in Nat /\ pos.owed \in Nat
    BY DEF FeeTypes
<1>3. pos.liq = 0 => pos.liq * Claim = 0
    BY <1>1
<1>4. FeeGrowthAmount(pos.liq, Inside, pos.last) = pos.liq * Claim
    BY DEF FeeGrowthAmount, Claim
<1> HIDE DEF Claim
<1> QED
    BY <1>1, <1>2, <1>3, <1>4 DEF UncollectedFees, Inside

\* The position is credited what it earned, whatever becomes of its liquidity.
LEMMA CreditedInv ==
    ASSUME FeeInv, NEW liq \in Nat, pos' = Credited(liq),
           UNCHANGED <<tick, growth, outside, earned, paid, simulated>>
    PROVE  FeeInv'
<1>1. pos' = [liq |-> liq, last |-> Inside, owed |-> UncollectedFees]
    BY DEF Credited, Inside
<1>2. Inside \in Residues /\ Claim \in Nat
    BY InsideType, PoolAssumption DEF FeeInv, Residues
<1>3. UncollectedFees = earned - paid
    BY FeesAre DEF FeeInv
<1>4. UncollectedFees \in Nat
  <2>1. pos.owed \in Nat /\ pos.liq \in Nat /\ UncollectedFees = pos.owed + pos.liq * Claim
      BY FeesAre DEF FeeInv, FeeTypes
  <2> HIDE DEF Claim
  <2>2. pos.liq * Claim \in Nat
      BY <1>2, <2>1
  <2> QED
      BY <2>1, <2>2
<1>5. FeeTypes'
    BY <1>1, <1>2, <1>4 DEF FeeInv, FeeTypes
<1>6. Inside' = Inside
    BY DEF Inside
<1>7. pos'.last = Inside /\ pos'.liq = liq /\ pos'.owed = earned - paid
    BY <1>1, <1>3
<1>8. Claim' = 0
  <2>1. Claim' = Masked(Inside - Inside)
      BY <1>6, <1>7 DEF Claim
  <2>2. Inside - Inside = 0
      BY <1>2, PoolAssumption DEF Residues
  <2> QED
      BY <2>1, <2>2, NothingClaimed
<1>9. earned' - paid' = pos'.owed + pos'.liq * Claim'
    BY <1>7, <1>8 DEF FeeInv, FeeTypes
<1> QED
    BY <1>5, <1>9 DEF FeeInv

LEMMA FeeInit == ActionInit => FeeInv
<1> SUFFICES ASSUME ActionInit PROVE FeeInv
    OBVIOUS
<1>1. Wrap \in Nat \ {0}
    BY PoolAssumption
<1>2. /\ tick \in Int /\ growth \in Residues
      /\ DOMAIN outside = Ticks /\ outside[LowerTick] \in Residues /\ outside[UpperTick] \in Residues
      /\ simulated = {} /\ earned = 0 /\ paid = 0
    BY <1>1 DEF ActionInit, Residues, Ticks
<1>3. pos = [liq |-> 1, last |-> Inside, owed |-> 0]
    BY DEF ActionInit, Inside
<1>4. Inside \in Residues
  <2> DEFINE below == growth - (IF tick >= LowerTick THEN outside[LowerTick] ELSE growth - outside[LowerTick])
             n == below - (IF tick < UpperTick THEN outside[UpperTick] ELSE growth - outside[UpperTick])
  <2>1. growth \in Int /\ outside[LowerTick] \in Int /\ outside[UpperTick] \in Int
      BY <1>1, <1>2 DEF Residues
  <2>2. n \in Int
      BY <2>1
  <2>3. Inside = Masked(n)
      BY <1>2, <2>1, InsideIs DEF Inside
  <2> QED
      BY <2>2, <2>3, MaskedIsResidue
<1>5. FeeTypes
    BY <1>2, <1>3, <1>4 DEF FeeTypes
<1>6. Claim = 0
  <2>1. Inside - pos.last = 0
      BY <1>1, <1>3, <1>4 DEF Residues
  <2> QED
      BY <2>1, NothingClaimed DEF Claim
<1> QED
    BY <1>2, <1>3, <1>5, <1>6 DEF FeeInv

\* Growth counts for the position while the price is in its range, and only then.
LEMMA AccrueInv == ASSUME FeeInv, Accrue PROVE FeeInv'
<1> DEFINE low == outside[LowerTick]
           up == outside[UpperTick]
           g == growth + 1
<1>1. Wrap \in Nat /\ Ticks = {LowerTick, UpperTick} /\ LowerTick < UpperTick
      /\ LowerTick \in Nat /\ UpperTick \in Nat /\ MaxEarned \in Nat /\ MaxEarned < Wrap
    BY PoolAssumption DEF Ticks
<1>2. /\ tick \in Int /\ growth \in Residues /\ growth \in Int
      /\ low \in Residues /\ up \in Residues /\ low \in Int /\ up \in Int
      /\ pos \in [liq : Nat, last : Residues, owed : Nat]
      /\ earned \in Nat /\ paid \in Nat
    BY <1>1 DEF FeeInv, FeeTypes, Residues
<1>3. /\ UNCHANGED <<tick, outside, pos, paid, simulated>>
      /\ growth' = Masked(g) /\ earned < MaxEarned
      /\ earned' = IF InRange THEN earned + pos.liq ELSE earned
    BY DEF Accrue
<1>4. growth' \in Residues
    BY <1>2, <1>3, MaskedIsResidue
<1>5. FeeTypes'
    BY <1>2, <1>3, <1>4 DEF FeeInv, FeeTypes
<1>6. Inside' = InsideGrowth(tick, growth', outside)
    BY <1>3 DEF Inside
<1>7. CASE ~InRange
  <2>1. Inside' = Inside
    <3>1. growth' \in Int
        BY <1>1, <1>4 DEF Residues
    <3>2. CASE tick < LowerTick
      <4>1. (growth - (growth - low)) - up = low - up /\ (growth' - (growth' - low)) - up = low - up
          BY <1>2, <3>1
      <4> QED
          BY <1>1, <1>2, <1>6, <3>1, <3>2, <4>1, InsideIs DEF Inside
    <3>3. CASE tick >= UpperTick
      <4>1. (growth - low) - (growth - up) = up - low /\ (growth' - low) - (growth' - up) = up - low
          BY <1>2, <3>1
      <4> QED
          BY <1>1, <1>2, <1>6, <3>1, <3>3, <4>1, InsideIs DEF Inside
    <3> QED
        BY <1>1, <1>2, <1>7, <3>2, <3>3 DEF InRange
  <2>2. Claim' = Claim
      BY <1>3, <2>1 DEF Claim
  <2> QED
      BY <1>3, <1>5, <1>7, <2>2 DEF FeeInv
<1>8. CASE InRange
  <2> DEFINE n == (growth - low) - up
             m == (g - low) - up
  <2>1. tick >= LowerTick /\ tick < UpperTick
      BY <1>8 DEF InRange
  <2>2. Inside = Masked(n)
      BY <1>2, <2>1, InsideIs DEF Inside
  <2>3. Inside' = Masked(m)
    <3>1. growth' \in Int
        BY <1>1, <1>4 DEF Residues
    <3>2. Inside' = Masked((growth' - low) - up)
        BY <1>2, <1>6, <2>1, <3>1, InsideIs
    <3>3. (growth' - low) - up = Masked(g) - (low + up) /\ m = g - (low + up)
        BY <1>2, <1>3, <3>1
    <3>4. g \in Int /\ low + up \in Int
        BY <1>2
    <3>5. Masked(Masked(g) - (low + up)) = Masked(g - (low + up))
        BY <3>4, MaskedInside, Zenon
    <3> QED
        BY <3>2, <3>3, <3>5
  <2>4. m = n + 1 /\ n \in Int /\ m \in Int
      BY <1>2
  <2> HIDE DEF m, n
  <2>5. pos.last \in Int
      BY <1>1, <1>2 DEF Residues
  <2>6. Claim = Masked(n - pos.last) /\ Claim' = Masked(m - pos.last)
    <3>1. /\ Masked(Masked(n) - pos.last) = Masked(n - pos.last)
          /\ Masked(Masked(m) - pos.last) = Masked(m - pos.last)
        BY <2>4, <2>5, MaskedInside, Zenon
    <3> QED
        BY <1>3, <2>2, <2>3, <3>1 DEF Claim
  <2>7. Claim \in Nat
      BY InsideType, PoolAssumption DEF FeeInv, Residues
  <2>8. earned - paid = pos.owed + pos.liq * Claim
      BY DEF FeeInv
  <2>9. pos.liq \in Nat /\ pos.owed \in Nat
      BY <1>2
  <2>10. CASE pos.liq = 0
    <3>1. Claim' \in Residues
      <4>1. m - pos.last \in Int
          BY <2>4, <2>5
      <4> QED
          BY <2>6, <4>1, MaskedIsResidue
    <3>2. pos.liq * Claim = 0 /\ pos.liq * Claim' = 0
      <4> HIDE DEF Claim
      <4>1. Claim' \in Nat
          BY <1>1, <3>1 DEF Residues
      <4>2. \A x \in Nat : 0 * x = 0
          OBVIOUS
      <4> QED
          BY <2>7, <2>10, <4>1, <4>2
    <3>3. earned' = earned
        BY <1>2, <1>3, <2>10
    <3> QED
        BY <1>3, <1>5, <2>8, <3>2, <3>3 DEF FeeInv
  <2>11. CASE pos.liq # 0
    <3>1. Claim <= pos.liq * Claim
      <4> HIDE DEF Claim
      <4>1. pos.liq - 1 \in Nat /\ (pos.liq - 1) * Claim \in Nat
          BY <2>7, <2>9, <2>11
      <4>2. pos.liq * Claim = (pos.liq - 1) * Claim + Claim
          BY <2>7, <2>9
      <4> QED
          BY <2>7, <4>1, <4>2
    <3>2. pos.liq * Claim \in Nat
      <4> HIDE DEF Claim
      <4> QED
          BY <2>7, <2>9
    <3>3. Claim + 1 < Wrap
      <4> HIDE DEF Claim
      <4> DEFINE grown == pos.liq * Claim
      <4>1. earned - paid = pos.owed + grown /\ Claim <= grown /\ grown \in Nat
          BY <2>8, <3>1, <3>2
      <4> HIDE DEF grown
      <4> QED
          BY <1>1, <1>2, <1>3, <2>7, <2>9, <4>1
    <3>4. Claim' = Claim + 1
      <4> DEFINE d == n - pos.last
      <4>1. d \in Int /\ m - pos.last = d + 1
          BY <2>4, <2>5
      <4>2. Masked(d) + 1 < Wrap
          BY <2>6, <3>3
      <4> HIDE DEF d
      <4>3. Masked(d + 1) = Masked(d) + 1
          BY <4>1, <4>2, MaskedNext, Zenon
      <4> QED
          BY <2>6, <4>1, <4>3 DEF d
    <3>5. pos.liq * (Claim + 1) = pos.liq * Claim + pos.liq
      <4> HIDE DEF Claim
      <4> QED
          BY <2>7, <2>9
    <3>6. earned' = earned + pos.liq /\ pos' = pos /\ paid' = paid
        BY <1>3, <1>8
    <3>7. earned' - paid' = pos'.owed + pos'.liq * Claim'
      <4>1. pos'.liq * Claim' = pos.liq * Claim + pos.liq
          BY <3>4, <3>5, <3>6
      <4> DEFINE grown == pos.liq * Claim
      <4>2. grown \in Nat /\ earned - paid = pos.owed + grown /\ pos'.liq * Claim' = grown + pos.liq
          BY <2>8, <3>2, <4>1
      <4> HIDE DEF grown, Claim
      <4> QED
          BY <1>2, <2>9, <3>6, <4>2
    <3> QED
        BY <1>5, <3>7 DEF FeeInv
  <2> QED
      BY <2>10, <2>11
<1> QED
    BY <1>7, <1>8

\* Crossing a tick flips its outside counter, and the growth inside stays.
LEMMA CrossInv == ASSUME FeeInv, NEW t \in 0..MaxPoolTick, CrossTick(t) PROVE FeeInv'
<1> DEFINE low == outside[LowerTick]
           up == outside[UpperTick]
           flips(x) == (tick < x) # (t < x)
           Low == IF flips(LowerTick) THEN Masked(growth - low) ELSE low
           Up == IF flips(UpperTick) THEN Masked(growth - up) ELSE up
<1>1. Wrap \in Nat /\ Ticks = {LowerTick, UpperTick} /\ LowerTick < UpperTick
      /\ LowerTick \in Nat /\ UpperTick \in Nat /\ t \in Int
    BY PoolAssumption DEF Ticks
<1>2. /\ tick \in Int /\ growth \in Residues /\ growth \in Int
      /\ low \in Residues /\ up \in Residues /\ low \in Int /\ up \in Int
    BY <1>1 DEF FeeInv, FeeTypes, Residues
<1>3. /\ tick' = t /\ DOMAIN outside' = Ticks
      /\ outside'[LowerTick] = Low /\ outside'[UpperTick] = Up
      /\ UNCHANGED <<growth, pos, earned, paid, simulated>>
    BY <1>1 DEF CrossTick
<1>4. growth - low \in Int /\ growth - up \in Int
    BY <1>2
<1>5. Low \in Residues /\ Up \in Residues
  <2>1. Masked(growth - low) \in Residues /\ Masked(growth - up) \in Residues
      BY <1>4, MaskedIsResidue
  <2> QED
      BY <1>2, <2>1
<1>6. FeeTypes'
    BY <1>1, <1>3, <1>5 DEF FeeInv, FeeTypes
<1>7. Low \in Int /\ Up \in Int
    BY <1>1, <1>5 DEF Residues
<1> DEFINE below == IF tick >= LowerTick THEN low ELSE growth - low
           above == IF tick < UpperTick THEN up ELSE growth - up
           Below == IF t >= LowerTick THEN Low ELSE growth - Low
           Above == IF t < UpperTick THEN Up ELSE growth - Up
<1>8. Inside = Masked((growth - below) - above)
    BY <1>2, InsideIs DEF Inside
<1>9. Inside' = Masked((growth - Below) - Above)
    BY <1>1, <1>2, <1>3, <1>7, InsideIs DEF Inside
<1>10. below \in Int /\ above \in Int /\ Below \in Int /\ Above \in Int
    BY <1>2, <1>7
<1>11. Masked((growth - Below) - Above) = Masked((growth - below) - Above)
  <2>1. CASE ~flips(LowerTick)
      BY <1>1, <1>2, <2>1
  <2>2. CASE flips(LowerTick) /\ t >= LowerTick
    <3>1. Below = Masked(growth - low) /\ below = growth - low
        BY <1>1, <1>2, <2>2
    <3>2. (growth - Below) - Above = (growth - Above) - Masked(growth - low)
          /\ (growth - below) - Above = (growth - Above) - (growth - low)
        BY <1>2, <1>10, <3>1
    <3>3. growth - Above \in Int
        BY <1>2, <1>10
    <3> HIDE DEF Above, Below, below
    <3>4. Masked((growth - Above) - Masked(growth - low)) = Masked((growth - Above) - (growth - low))
        BY <1>4, <3>3, MaskedInside, Zenon
    <3> QED
        BY <3>2, <3>4
  <2>3. CASE flips(LowerTick) /\ ~(t >= LowerTick)
    <3>1. Below = growth - Masked(growth - low) /\ below = low /\ Masked(growth - low) \in Int
        BY <1>1, <1>2, <1>7, <2>3
    <3> HIDE DEF Above, Below, below
    <3>2. (growth - Below) - Above = Masked(growth - low) - Above
          /\ (growth - below) - Above = (growth - low) - Above
        BY <1>2, <1>10, <3>1
    <3>3. Masked(Masked(growth - low) - Above) = Masked((growth - low) - Above)
        BY <1>4, <1>10, MaskedInside, Zenon
    <3> QED
        BY <3>2, <3>3
  <2> QED
      BY <2>1, <2>2, <2>3
<1>12. Masked((growth - below) - Above) = Masked((growth - below) - above)
  <2>1. CASE ~flips(UpperTick)
      BY <1>1, <1>2, <2>1
  <2>2. CASE flips(UpperTick) /\ t < UpperTick
    <3>1. Above = Masked(growth - up) /\ above = growth - up
        BY <1>1, <1>2, <2>2
    <3>2. growth - below \in Int
        BY <1>2, <1>10
    <3> HIDE DEF Above, above, below
    <3>3. Masked((growth - below) - Masked(growth - up)) = Masked((growth - below) - (growth - up))
        BY <1>4, <3>2, MaskedInside, Zenon
    <3> QED
        BY <3>1, <3>3
  <2>3. CASE flips(UpperTick) /\ ~(t < UpperTick)
    <3>1. Above = growth - Masked(growth - up) /\ above = up /\ Masked(growth - up) \in Int
        BY <1>1, <1>2, <1>7, <2>3
    <3> HIDE DEF Above, above, below
    <3>2. (growth - below) - Above = Masked(growth - up) - below
          /\ (growth - below) - above = (growth - up) - below
        BY <1>2, <1>10, <3>1
    <3>3. Masked(Masked(growth - up) - below) = Masked((growth - up) - below)
        BY <1>4, <1>10, MaskedInside, Zenon
    <3> QED
        BY <3>2, <3>3
  <2> QED
      BY <2>1, <2>2, <2>3
<1> HIDE DEF below, above, Below, Above
<1>13. Inside' = Inside
    BY <1>8, <1>9, <1>11, <1>12
<1>14. Claim' = Claim
    BY <1>3, <1>13 DEF Claim
<1> QED
    BY <1>3, <1>6, <1>14 DEF FeeInv

\* Records made room for, and added, are simulations of some of the liquidity.
LEMMA QuotedInv ==
    ASSUME FeeInv, NEW action, NEW liq \in Nat, NEW steps, Quoted(action, liq, steps)
    PROVE  FeeInv'
<1>1. /\ UNCHANGED <<tick, growth, outside, pos, earned, paid>>
      /\ \A s \in simulated' : s \in simulated \/ s.liq = liq
    BY DEF Quoted, Remember, poolVars
<1>2. FeeTypes'
    BY <1>1 DEF FeeInv, FeeTypes
<1>3. Claim' = Claim
    BY <1>1 DEF Claim, Inside
<1> QED
    BY <1>1, <1>2, <1>3 DEF FeeInv

LEMMA FeeNext == FeeInv /\ [ActionNext]_actionVars => FeeInv'
<1> SUFFICES ASSUME FeeInv, [ActionNext]_actionVars PROVE FeeInv'
    OBVIOUS
<1>1. pos \in [liq : Nat, last : Residues, owed : Nat] /\ \A s \in simulated : s.liq \in Nat
    BY DEF FeeInv, FeeTypes
<1>2. ASSUME UNCHANGED poolVars, simulated' \subseteq simulated PROVE FeeInv'
  <2>1. FeeTypes'
      BY <1>2 DEF FeeInv, FeeTypes, poolVars
  <2>2. Claim' = Claim
      BY <1>2 DEF Claim, Inside, poolVars
  <2> QED
      BY <1>2, <2>1, <2>2 DEF FeeInv, poolVars
<1>3. CASE MintLiquidity
  <2>1. pos.liq + 1 \in Nat /\ pos' = Credited(pos.liq + 1)
        /\ UNCHANGED <<tick, growth, outside, earned, paid, simulated>>
      BY <1>1, <1>3 DEF MintLiquidity
  <2> QED
      BY <2>1, CreditedInv
<1>4. CASE WallClock
    BY <1>2, <1>4 DEF WallClock
<1>5. CASE SimulateCollect
    BY <1>5, QuotedInv DEF SimulateCollect
<1>6. ASSUME NEW l \in 1..MaxLiquidity, SimulateRemove(l) PROVE FeeInv'
  <2>1. l \in Nat
      BY PoolAssumption
  <2> QED
      BY <1>6, <2>1, QuotedInv DEF SimulateRemove
<1>7. ASSUME NEW s \in simulated, PrepareBurn(s) PROVE FeeInv'
  <2>1. pos.liq - s.liq \in Nat /\ pos' = Credited(pos.liq - s.liq)
        /\ UNCHANGED <<tick, growth, outside, earned, paid, simulated>>
      BY <1>1, <1>7 DEF PrepareBurn
  <2> QED
      BY <2>1, CreditedInv
<1>8. ASSUME NEW s \in simulated, PreparePoke(s) PROVE FeeInv'
  <2>1. pos.liq \in Nat /\ pos' = Credited(pos.liq)
        /\ UNCHANGED <<tick, growth, outside, earned, paid, simulated>>
      BY <1>1, <1>8 DEF PreparePoke
  <2> QED
      BY <2>1, CreditedInv
<1>9. ASSUME NEW s \in simulated, PrepareCollect(s) PROVE FeeInv'
  <2>1. /\ paid' = paid + pos.owed /\ pos' = [pos EXCEPT !.owed = 0]
        /\ UNCHANGED <<tick, growth, outside, earned, simulated>>
      BY <1>9 DEF PrepareCollect
  <2>2. pos'.liq = pos.liq /\ pos'.last = pos.last /\ pos'.owed = 0
      BY <1>1, <2>1
  <2>3. FeeTypes'
      BY <1>1, <2>1 DEF FeeInv, FeeTypes
  <2>4. Claim' = Claim
      BY <2>1, <2>2 DEF Claim, Inside
  <2>5. pos.liq * Claim \in Nat /\ pos.owed \in Nat /\ earned \in Nat /\ paid \in Nat
    <3>1. Claim \in Nat
        BY InsideType, PoolAssumption DEF FeeInv, Residues
    <3> HIDE DEF Claim
    <3> QED
        BY <1>1, <3>1 DEF FeeInv, FeeTypes
  <2> DEFINE grown == pos.liq * Claim
  <2>6. earned - paid = pos.owed + grown /\ pos'.liq * Claim' = grown
      BY <2>2, <2>4 DEF FeeInv
  <2>7. earned' - paid' = pos'.owed + grown
    <3> HIDE DEF grown
    <3>1. grown \in Nat
        BY <2>5 DEF grown
    <3> QED
        BY <2>1, <2>2, <2>5, <2>6, <3>1
  <2> QED
      BY <2>3, <2>6, <2>7 DEF FeeInv
<1>10. ASSUME NEW s \in simulated, DropExpired(s) PROVE FeeInv'
    BY <1>2, <1>10 DEF DropExpired
<1>11. CASE UNCHANGED actionVars
    BY <1>2, <1>11 DEF actionVars
<1> QED
    BY <1>3, <1>4, <1>5, <1>6, <1>7, <1>8, <1>9, <1>10, <1>11, AccrueInv, CrossInv DEF ActionNext

\* fee_claim masks each difference of counters that wrap: for any width of the
\* counters, any range, any price path, crossings, mints, burns, pokes and collects,
\* the claim _uncollected_fees reports is what the position earned and was not paid.
THEOREM ClaimIsExact == ActionSpec => []FeesExact
<1>1. FeeInv => FeesExact
    BY FeesAre DEF FeeInv, FeesExact
<1> QED
    BY <1>1, FeeInit, FeeNext, PTL DEF ActionSpec
=============================================================================
