----------------------------- MODULE CostLedger -----------------------------
(***************************************************************************)
(* services/cost_service.py and its callers.  A refresh deletes the cost   *)
(* records of a VM and inserts one per day of its life; the dashboard,     *)
(* /cost-records and /metrics refresh every VM in one transaction; a       *)
(* provisioning and a destroy refresh their VM in the transaction that     *)
(* records it.  Nothing makes the pair (vm_id, cost_date) unique.          *)
(*                                                                         *)
(* The database is PostgreSQL under READ COMMITTED: a DELETE takes the     *)
(* rows committed when it starts, waits for those that another transaction *)
(* is deleting, and never sees what another inserted meanwhile.            *)
(***************************************************************************)
EXTENDS Integers, FiniteSetsExt

CONSTANTS
    Vms,            \* virtual machines
    FreeVms,        \* VMs whose template costs nothing
    Refreshers,     \* coroutines that refresh costs
    Maker,          \* the transaction that records a VM, which refreshes it
    NoVm,           \* the VM of a coroutine between two VMs
    DayLength,      \* hours of a day
    Wall,           \* Wall[t]: the clock of Europe/Zurich at instant t
    Patches,        \* bound: the changes of status, <<VM, status>>, of the run
    Doomed,         \* bound: the VMs that the run may destroy
    Births,         \* bound: the creations, <<VM, instant>>, of the run
    MaxNow,         \* bound: hours of the run
    MaxRefreshes    \* bound: transactions of a coroutine

ASSUME FreeAssumption == FreeVms \union Doomed \subseteq Vms
ASSUME NoVmAssumption == NoVm \notin Vms
ASSUME MakerAssumption == Maker \notin Refreshers
ASSUME DayAssumption  == DayLength \in Nat \ {0}
ASSUME BoundAssumption ==
    /\ MaxNow \in Nat /\ MaxRefreshes \in Nat
    /\ Births \subseteq Vms \X Nat
    /\ Patches \subseteq Vms \X {"active", "error", "destroyed"}

ASSUME WallAssumption == Wall \in [0..MaxNow -> Nat]

VARIABLES
    now,        \* the instant
    status,     \* status[v]: the VM: "absent", "making" in a transaction that
                \* is not committed, "active", "error", "destroyed"
    created,    \* created[v]: its created_at
    ended,      \* ended[v]: its destroyed_at, or Never
    ledger,     \* ledger[v]: committed records of v, as the batches inserted
    pc,         \* pc[p]: what coroutine p is about to do
    todo,       \* todo[p]: VMs its loop has still to refresh
    cur,        \* cur[p]: the VM being refreshed
    seen,       \* seen[p]: the end of that VM as its row was read
    targets,    \* targets[p]: the batches its DELETE waits for
    gone,       \* gone[p][v]: batches deleted, not committed
    fresh,      \* fresh[p][v]: batches inserted, not committed
    victim,     \* victim[p]: the VM that the transaction records as destroyed
    alone,      \* alone[p]: no other refresh was open during p's, and the job
                \* ended no VM
    tx          \* tx[p]: transactions of p so far

Never   == -1
Instant == 0..MaxNow

\* The records of one refresh of one VM: they are inserted, and deleted,
\* together.  They cover the hours from the VM's creation to end.
Batch == [by : Refreshers \union {Maker}, tx : 0..MaxRefreshes, end : Instant]

\* The end of the VM a refresh works with: "now", or a known instant.
Ending == [open : BOOLEAN, at : Instant]

vmVars  == <<status, created, ended>>
txnVars == <<pc, todo, cur, seen, targets, gone, fresh, victim, alone, tx>>
vars    == <<now, vmVars, ledger, txnVars>>

TypeOK ==
    /\ now \in Instant
    /\ status \in [Vms -> {"absent", "making", "active", "error", "destroyed"}]
    /\ created \in [Vms -> Instant]
    /\ ended \in [Vms -> Instant \union {Never}]
    /\ ledger \in [Vms -> SUBSET Batch]
    /\ pc \in [Refreshers -> {"idle", "next", "deleting", "waiting"}]
    /\ todo \in [Refreshers -> SUBSET Vms]
    /\ cur \in [Refreshers -> Vms \union {NoVm}]
    /\ seen \in [Refreshers -> Ending]
    /\ targets \in [Refreshers -> SUBSET Batch]
    /\ gone \in [Refreshers -> [Vms -> SUBSET Batch]]
    /\ fresh \in [Refreshers -> [Vms -> SUBSET Batch]]
    /\ victim \in [Refreshers -> Vms \union {NoVm}]
    /\ alone \in [Refreshers -> BOOLEAN]
    /\ tx \in [Refreshers -> 0..MaxRefreshes]

Nothing == [v \in Vms |-> {}]
Unknown == [open |-> FALSE, at |-> 0]

Init ==
    /\ now = 0
    /\ status = [v \in Vms |-> "absent"]
    /\ created = [v \in Vms |-> 0]
    /\ ended = [v \in Vms |-> Never]
    /\ ledger = Nothing
    /\ pc = [p \in Refreshers |-> "idle"]
    /\ todo = [p \in Refreshers |-> {}]
    /\ cur = [p \in Refreshers |-> NoVm]
    /\ seen = [p \in Refreshers |-> Unknown]
    /\ targets = [p \in Refreshers |-> {}]
    /\ gone = [p \in Refreshers |-> Nothing]
    /\ fresh = [p \in Refreshers |-> Nothing]
    /\ victim = [p \in Refreshers |-> NoVm]
    /\ alone = [p \in Refreshers |-> FALSE]
    /\ tx = [p \in Refreshers |-> 0]

-----------------------------------------------------------------------------
(* The daily records of a batch.                                           *)

\* Mutant of DailyHours: the last day counts to its end.
DailyHoursWhole(start, end) ==
    LET NextMidnight(c) == ((c \div DayLength) + 1) * DayLength
        rows[c \in start..end] ==
            IF c >= end
            THEN {}
            ELSE {[date |-> c \div DayLength, hours |-> NextMidnight(c) - c]}
                    \union rows[Min({NextMidnight(c), end})]
    IN  IF end <= start THEN {} ELSE rows[start]

\* _daily_hours(), on the clock of the wall: cut the life at every midnight.
\* (Subtracting two datetimes of one zone compares their clocks.)
DailyHours(start, end) ==
    LET NextMidnight(c) == ((c \div DayLength) + 1) * DayLength
        SliceEnd(c) == Min({NextMidnight(c), end})
        rows[c \in start..end] ==
            IF c >= end
            THEN {}
            ELSE {[date |-> c \div DayLength, hours |-> SliceEnd(c) - c]}
                    \union rows[SliceEnd(c)]
    IN  IF end <= start THEN {} ELSE rows[start]

\* The records that batch b of VM v stands for.
Records(v, b) == DailyHours(Wall[created[v]], Wall[b.end])

HoursOf(v, b) == MapThenSumSet(LAMBDA r : r.hours, Records(v, b))

\* The batch that transaction n of p inserts when it refreshes VM v: none when
\* the VM has not lived or its template costs nothing.
Inserted(p, n, v, end) ==
    IF Wall[end] <= Wall[created[v]] \/ v \in FreeVms
    THEN {}
    ELSE {[by |-> p, tx |-> n, end |-> end]}

-----------------------------------------------------------------------------
(* The other services.                                                     *)

Tick ==
    /\ now < MaxNow
    /\ now' = now + 1
    /\ UNCHANGED <<vmVars, ledger, txnVars>>

\* The row of v is committed.
Present(v) == status[v] \notin {"absent", "making"}

\* _provision_request() reads the template of the request, which opens its
\* transaction, and calls the provisioner.  created_at is func.now(): in
\* PostgreSQL, the start of the transaction that will insert the row.
BeginVm(v) ==
    /\ status[v] = "absent"
    /\ <<v, now>> \in Births
    /\ status' = [status EXCEPT ![v] = "making"]
    /\ created' = [created EXCEPT ![v] = now]
    /\ UNCHANGED <<now, ended, ledger, txnVars>>

\* The machine is there: its row is inserted, refreshed and committed.  A VM
\* that took hours to make has records of them.
RecordVm(v) ==
    /\ status[v] = "making"
    /\ status' = [status EXCEPT ![v] = "active"]
    /\ ledger' = [ledger EXCEPT ![v] = Inserted(Maker, 0, v, now)]
    /\ UNCHANGED <<now, created, ended, txnVars>>

\* The provisioner raised: the transaction is rolled back.
FailVm(v) ==
    /\ status[v] = "making"
    /\ status' = [status EXCEPT ![v] = "absent"]
    /\ created' = [created EXCEPT ![v] = 0]
    /\ UNCHANGED <<now, ended, ledger, txnVars>>

\* PATCH, or the end of an Ansible task: the status changes and nothing is
\* refreshed.  The row of a VM being destroyed is held by its transaction.
SetStatus(v) ==
    /\ Present(v)
    /\ v \notin {victim[p] : p \in Refreshers}
    /\ \E c \in Patches : c[1] = v /\ status' = [status EXCEPT ![v] = c[2]]
    /\ UNCHANGED <<now, created, ended, ledger, txnVars>>

\* The lifecycle job records a destruction, whatever the VM has become since
\* the job selected it, and refreshes nothing: the records of the VM go on to
\* the last refresh until another one.
JobDestroys(v) ==
    /\ Present(v)
    /\ v \notin {victim[p] : p \in Refreshers}
    /\ status' = [status EXCEPT ![v] = "destroyed"]
    /\ ended' = [ended EXCEPT ![v] = now]
    /\ alone' = [p \in Refreshers |-> FALSE]
    /\ UNCHANGED <<now, created, ledger, pc, todo, cur, seen, targets, gone, fresh, victim, tx>>

-----------------------------------------------------------------------------
(* Transactions.                                                           *)

Open(p) == pc[p] # "idle"

\* A transaction of coroutine p opens; whoever is open is no longer alone.
BeginTransaction(p) ==
    /\ ~Open(p)
    /\ tx[p] < MaxRefreshes
    /\ tx' = [tx EXCEPT ![p] = @ + 1]
    /\ alone' = [q \in Refreshers |->
                    IF q = p THEN \A o \in Refreshers : ~Open(o) ELSE FALSE]

\* refresh_all() reads the ids of all VMs.
RefreshAll(p) ==
    /\ BeginTransaction(p)
    /\ pc' = [pc EXCEPT ![p] = "next"]
    /\ todo' = [todo EXCEPT ![p] = {v \in Vms : Present(v)}]
    /\ UNCHANGED <<now, vmVars, ledger, cur, seen, targets, gone, fresh, victim>>

\* The provisioner destroyed the VM, or an admin reports that it is destroyed
\* (nothing asks whether it was already): its row is updated, and refreshed.
RefreshDestroyed(p, v) ==
    /\ BeginTransaction(p)
    /\ Present(v)
    /\ v \notin {victim[q] : q \in Refreshers}
    /\ pc' = [pc EXCEPT ![p] = "deleting"]
    /\ victim' = [victim EXCEPT ![p] = v]
    /\ cur' = [cur EXCEPT ![p] = v]
    /\ seen' = [seen EXCEPT ![p] = [open |-> FALSE, at |-> now]]
    /\ UNCHANGED <<now, vmVars, ledger, todo, targets, gone, fresh>>

\* Mutant of BillingEnd: destroyed_at is believed to be set once a VM stops.
BillingEndUndated(v) ==
    IF status[v] \in {"destroyed", "error"}
    THEN [open |-> FALSE, at |-> ended[v]]
    ELSE [open |-> TRUE, at |-> 0]

\* Mutant of BillingEnd: a VM costs until now, whatever became of it.
BillingEndNow(v) == [open |-> TRUE, at |-> 0]

\* _billing_end() of the row as it is committed: its destroyed_at if it has
\* one, nothing for an error or an undated destruction, or the instant at
\* which the records will be computed.
BillingEnd(v) ==
    IF ended[v] # Never
    THEN [open |-> FALSE, at |-> ended[v]]
    ELSE IF status[v] \in {"destroyed", "error"}
         THEN [open |-> FALSE, at |-> created[v]]
         ELSE [open |-> TRUE, at |-> 0]

\* Mutant of SelectVm: the list is read again before each VM.
SelectVmAgain(p, v) ==
    /\ pc[p] = "next"
    /\ v \in todo[p]
    /\ pc' = [pc EXCEPT ![p] = "deleting"]
    /\ todo' = [todo EXCEPT ![p] = {w \in Vms : Present(w)}]
    /\ cur' = [cur EXCEPT ![p] = v]
    /\ seen' = [seen EXCEPT ![p] = BillingEnd(v)]
    /\ UNCHANGED <<now, vmVars, ledger, targets, gone, fresh, victim, alone, tx>>

\* refresh_vm() reads the row.  refresh_all() takes the VMs in the order its
\* SELECT returned them: any order.
SelectVm(p, v) ==
    /\ pc[p] = "next"
    /\ v \in todo[p]
    /\ pc' = [pc EXCEPT ![p] = "deleting"]
    /\ todo' = [todo EXCEPT ![p] = @ \ {v}]
    /\ cur' = [cur EXCEPT ![p] = v]
    /\ seen' = [seen EXCEPT ![p] = BillingEnd(v)]
    /\ UNCHANGED <<now, vmVars, ledger, targets, gone, fresh, victim, alone, tx>>

\* Mutant of DeleteStart: only the records of past days are deleted.
DeleteStartPast(p) ==
    /\ pc[p] = "deleting"
    /\ pc' = [pc EXCEPT ![p] = "waiting"]
    /\ targets' = [targets EXCEPT ![p] =
          {b \in ledger[cur[p]] : Wall[b.end] \div DayLength < Wall[now] \div DayLength}]
    /\ UNCHANGED <<now, vmVars, ledger, todo, cur, seen, gone, fresh, victim, alone, tx>>

\* DELETE FROM cost_records WHERE vm_id = ...: the rows committed by now.
DeleteStart(p) ==
    /\ pc[p] = "deleting"
    /\ pc' = [pc EXCEPT ![p] = "waiting"]
    /\ targets' = [targets EXCEPT ![p] = ledger[cur[p]]]
    /\ UNCHANGED <<now, vmVars, ledger, todo, cur, seen, gone, fresh, victim, alone, tx>>

\* q is deleting a row that the DELETE of p waits for.
Blocks(q, p) ==
    /\ q # p
    /\ pc[p] = "waiting"
    /\ gone[q][cur[p]] \intersect targets[p] # {}

\* The batch that the refresh inserts.
Billed(p) ==
    Inserted(p, tx[p], cur[p], IF seen[p].open THEN now ELSE seen[p].at)

\* The DELETE is over: the rows that others deleted and committed are gone
\* already, and what they inserted is not looked at.  The records of the VM
\* are inserted.
DeleteEnd(p) ==
    /\ pc[p] = "waiting"
    /\ \A q \in Refreshers : ~Blocks(q, p)
    /\ gone' = [gone EXCEPT ![p][cur[p]] = targets[p] \intersect ledger[cur[p]]]
    /\ fresh' = [fresh EXCEPT ![p][cur[p]] = Billed(p)]
    /\ targets' = [targets EXCEPT ![p] = {}]
    /\ cur' = [cur EXCEPT ![p] = NoVm]
    /\ pc' = [pc EXCEPT ![p] = "next"]
    /\ seen' = [seen EXCEPT ![p] = IF victim[p] = NoVm THEN Unknown ELSE @]
    /\ UNCHANGED <<now, vmVars, ledger, todo, victim, alone, tx>>

\* The transaction is over, and the session holds nothing.
Close(p) ==
    /\ pc' = [pc EXCEPT ![p] = "idle"]
    /\ todo' = [todo EXCEPT ![p] = {}]
    /\ cur' = [cur EXCEPT ![p] = NoVm]
    /\ seen' = [seen EXCEPT ![p] = Unknown]
    /\ targets' = [targets EXCEPT ![p] = {}]
    /\ gone' = [gone EXCEPT ![p] = Nothing]
    /\ fresh' = [fresh EXCEPT ![p] = Nothing]
    /\ victim' = [victim EXCEPT ![p] = NoVm]
    /\ alone' = [alone EXCEPT ![p] = FALSE]
    /\ UNCHANGED <<now, created, tx>>

Commit(p) ==
    /\ pc[p] = "next"
    /\ todo[p] = {}
    /\ ledger' = [v \in Vms |-> (ledger[v] \ gone[p][v]) \union fresh[p][v]]
    /\ IF victim[p] = NoVm
       THEN UNCHANGED <<status, ended>>
       ELSE /\ status' = [status EXCEPT ![victim[p]] = "destroyed"]
            /\ ended' = [ended EXCEPT ![victim[p]] = seen[p].at]
    /\ Close(p)

\* Transactions that wait for each other.
Deadlocked(p) ==
    \E S \in SUBSET Refreshers :
        p \in S /\ \A o \in S : \E q \in S : Blocks(q, o)

\* PostgreSQL rolls one of them back, and its HTTP request ends in an error.
Abort(p) ==
    /\ Deadlocked(p)
    /\ Close(p)
    /\ UNCHANGED <<status, ended, ledger>>

-----------------------------------------------------------------------------

Refresh(p) ==
    \/ (\E v \in Vms : SelectVm(p, v))
    \/ DeleteStart(p) \/ DeleteEnd(p) \/ Commit(p) \/ Abort(p)

Next ==
    \/ Tick
    \/ \E v \in Vms : BeginVm(v) \/ RecordVm(v) \/ FailVm(v) \/ SetStatus(v)
    \/ \E p \in Refreshers : RefreshAll(p) \/ Refresh(p)
    \/ \E v \in Doomed : JobDestroys(v) \/ \E p \in Refreshers : RefreshDestroyed(p, v)

Spec == Init /\ [][Next]_vars

\* An open transaction goes on: the event loop is fair and the database
\* answers, with a deadlock error when that is the answer.
FairSpec == Spec /\ \A p \in Refreshers : WF_vars(Refresh(p))

-----------------------------------------------------------------------------
(* Properties.                                                             *)

\* Two refreshes that overlap each keep their own records of a VM, and the
\* next refresh sweeps both: a VM never has more sets of records than there
\* are coroutines refreshing at once, and the one it was recorded with.
OneBatchPerRefresher ==
    \A v \in Vms : \A b, c \in ledger[v] : b.by = c.by => b = c

\* The VMs that the transaction of p refreshes.
Covered(p) == IF victim[p] = NoVm THEN Vms ELSE {victim[p]}

\* A refresh that no other overlapped leaves one set of records per VM, also
\* of those that were recorded after it had read the list of VMs, and the set
\* ends when the VM did: what overlapping refreshes doubled, and what the
\* lifecycle job left open, is put right by the next one.
CleanWhenAlone ==
    [][\A p \in Refreshers : Commit(p) /\ alone[p] =>
          \A v \in Covered(p) :
              /\ \A b, c \in ledger'[v] : b = c
              /\ ended'[v] # Never => \A b \in ledger'[v] : b.end = ended'[v]]_vars

\* The daily records of a life are cut at midnights: one per day, none longer
\* than a day, and together the whole life.
SlicesAddUp ==
    \A v \in Vms : \A b \in ledger[v] :
        /\ \A r, s \in Records(v, b) : r.date = s.date => r = s
        /\ \A r \in Records(v, b) : r.hours \in 1..DayLength
        /\ HoursOf(v, b) = Wall[b.end] - Wall[created[v]]

\* Every refresh ends: two that delete the same rows in opposite orders do
\* not wait for each other for ever.
RefreshEnds == \A p \in Refreshers : []<>~Open(p)

\* "cout = heures_d_execution_reelles * prix_horaire_template"
\* (docs/cost-model.md): the hours recorded for a VM are not more than the
\* hours since it was created.
HoursAreReal ==
    \A v \in Vms :
        MapThenSumSet(LAMBDA b : HoursOf(v, b), ledger[v]) <= now - created[v]

=============================================================================
