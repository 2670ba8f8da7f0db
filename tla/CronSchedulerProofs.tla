------------------------ MODULE CronSchedulerProofs ------------------------
(***************************************************************************)
(* Proofs about the scheduler for any number of crons, users, runs and     *)
(* failed calls.  The copies of the rows in due, cur and put are why the   *)
(* properties are not inductive alone: the strengthening counts a firing   *)
(* before it happens, for every cron that is armed.                        *)
(***************************************************************************)
EXTENDS CronScheduler, TLAPS

Running == phase \in {"log", "history", "clear"}

\* The tick holds one copy per cron, and none of the cron it is running.
DueInv ==
  /\ \A d, e \in due : d.cron = e.cron => d = e
  /\ Running => \A d \in due : d.cron # cur.cron

\* A cron that may still fire for the date it has: listed, or with a date.
Armed(c) == row[c].date # Never \/ \E d \in due : d.cron = c

\* An armed cron that is not running has its next firing left to spend.
FiredInv ==
  \A c \in Crons :
    /\ fired[c] <= 1 + troubles
    /\ Armed(c) /\ ~(Running /\ cur.cron = c) => fired[c] <= troubles

\* Once a run's log was attempted it is on disk, or known to have failed.
LogInv == phase \in {"history", "clear"} => runs \in files \cup unlogged

SweepInv == sweeping.at <= now

IInv == TypeOK /\ DueInv /\ FiredInv /\ LogInv /\ HistoryHasLog /\ SweepInv

-----------------------------------------------------------------------------
(* Rows.                                                                   *)

LEMMA RowFields ==
  ASSUME NEW r \in Rows, NEW date \in Times \cup {Never}, NEW live \in BOOLEAN
  PROVE  /\ [r EXCEPT !.date = date] \in Rows
         /\ [r EXCEPT !.date = date].date = date
         /\ [r EXCEPT !.date = date].live = r.live
         /\ [r EXCEPT !.live = live] \in Rows
         /\ [r EXCEPT !.live = live].date = r.date
  BY Zenon DEF Rows

\* Whatever the body of a PUT says, what it writes back is a row.
LEMMA MergedType ==
  ASSUME NEW r \in Rows, NEW date \in Times \cup {Never},
         NEW status \in Statuses \cup {Unchanged}, NEW years \in Years
  PROVE  Merged(r, date, status, years) \in Rows
  <1> DEFINE s == IF status = Unchanged THEN r.status ELSE status
             y == IF years > 0 THEN years ELSE r.years
  <1>1. r.status \in Statuses /\ r.years \in Years
    BY DEF Rows
  <1>2. s \in Statuses
    BY <1>1 DEF Statuses, Unchanged
  <1>3. y \in Years
    BY <1>1
  <1>4. Merged(r, date, status, years)
          = [r EXCEPT !.date = date, !.status = s, !.years = y]
    BY Zenon DEF Merged, Rows
  <1> HIDE DEF s, y
  <1> QED BY <1>2, <1>3, <1>4, Zenon DEF Rows

-----------------------------------------------------------------------------

LEMMA InitOK == Init => IInv
  <1> SUFFICES ASSUME Init PROVE IInv
    OBVIOUS
  <1> USE DEF Init
  <1>1. TypeOK
    BY BoundsAssumption DEF TypeOK, Times, NoSweep, NoPut, NoCron
  <1>2. DueInv /\ LogInv /\ HistoryHasLog
    BY DEF DueInv, LogInv, HistoryHasLog, Running
  <1>3. FiredInv
    BY DEF FiredInv
  <1>4. SweepInv
    BY DEF SweepInv, NoSweep
  <1> QED BY <1>1, <1>2, <1>3, <1>4 DEF IInv

-----------------------------------------------------------------------------
(* The steps of the scheduler.                                             *)

LEMMA ListDueOK == IInv /\ ListDue => IInv'
  <1> SUFFICES ASSUME IInv, ListDue PROVE IInv'
    OBVIOUS
  <1> USE DEF IInv, ListDue, rowVars, auxVars
  <1>1. \A d \in due' : d.cron \in Crons /\ d.row = row[d.cron] /\ d \in Snapshots
                        /\ row[d.cron].date # Never
    BY DEF TypeOK, Snapshots, IsDue
  <1>2. TypeOK'
    BY <1>1 DEF TypeOK, Snapshots, Rows
  <1>3. DueInv'
    BY <1>1 DEF DueInv, Running, Snapshots
  <1>4. FiredInv'
    <2>1. \A c \in Crons : Armed(c)' => Armed(c)
      BY <1>1 DEF Armed
    <2> QED BY <2>1 DEF FiredInv, Running
  <1> QED BY <1>2, <1>3, <1>4 DEF LogInv, HistoryHasLog, SweepInv

\* Before the run the cron was armed by its copy in due; while it runs it is not counted.
LEMMA AttemptOK ==
  ASSUME IInv, NEW d \in due, NEW date \in Times \cup {Never}, Attempt(d, date)
  PROVE  IInv'
  <1> USE DEF IInv, Attempt
  <1>1. /\ d \in Snapshots /\ d.cron \in Crons /\ cur' = d /\ due' = due \ {d}
        /\ runs' = runs + 1 /\ runs < MaxRuns /\ phase = "next" /\ phase' = "log"
    BY DEF TypeOK, Snapshots
  <1>2. /\ row' \in [Crons -> Rows] /\ fired' \in [Crons -> Nat]
        /\ \A c \in Crons : c # d.cron => row'[c] = row[c] /\ fired'[c] = fired[c]
        /\ fired'[d.cron] = fired[d.cron] + 1 \/ fired'[d.cron] = 0
    <2>1. CASE date = Never \/ ~row[d.cron].live
      BY <2>1, <1>1 DEF TypeOK
    <2>2. CASE ~(date = Never \/ ~row[d.cron].live)
      <3>1. row' = [row EXCEPT ![d.cron] = [row[d.cron] EXCEPT !.date = date]]
        BY <2>2, Zenon
      <3>2. [row[d.cron] EXCEPT !.date = date] \in Rows
        BY <1>1, RowFields DEF TypeOK
      <3> HIDE DEF Attempt
      <3>3. /\ row' \in [Crons -> Rows]
            /\ \A c \in Crons : c # d.cron => row'[c] = row[c]
        BY <3>1, <3>2, <1>1, Zenon DEF TypeOK
      <3>4. fired' = [fired EXCEPT ![d.cron] = 0]
        BY <2>2, Zenon DEF Attempt
      <3> QED BY <3>3, <3>4, <1>1 DEF TypeOK
    <2> QED BY <2>1, <2>2
  <1>3. TypeOK'
    BY <1>1, <1>2, BoundsAssumption DEF TypeOK, Snapshots
  <1>4. DueInv'
    BY <1>1 DEF DueInv, Running
  <1>5. FiredInv'
    <2>1. fired[d.cron] <= troubles
      BY <1>1 DEF FiredInv, Armed, Running
    <2>2. \A c \in Crons : c # d.cron /\ Armed(c)' => Armed(c)
      BY <1>1, <1>2 DEF Armed
    <2>3. troubles \in Nat /\ troubles' = troubles /\ fired \in [Crons -> Nat]
      BY DEF TypeOK
    <2>4. ASSUME NEW c \in Crons, c # d.cron
          PROVE  /\ fired'[c] <= 1 + troubles'
                 /\ Armed(c)' => fired'[c] <= troubles'
      BY <2>2, <2>3, <2>4, <1>1, <1>2 DEF FiredInv, Running
    <2>5. fired'[d.cron] <= 1 + troubles'
      BY <2>1, <2>3, <1>1, <1>2
    <2>6. (Running /\ cur.cron = d.cron)'
      BY <1>1 DEF Running
    <2> HIDE DEF IInv, Attempt
    <2> QED BY <2>4, <2>5, <2>6 DEF FiredInv
  <1> QED BY <1>1, <1>3, <1>4, <1>5 DEF LogInv, HistoryHasLog, SweepInv

LEMMA WriteLogOK == IInv /\ WriteLog => IInv'
  <1> SUFFICES ASSUME IInv, WriteLog PROVE IInv'
    OBVIOUS
  <1> USE DEF WriteLog, Trouble, rowVars
  <1>1. TypeOK'
    <2>1. runs \in 1..MaxRuns
      BY BoundsAssumption DEF IInv, TypeOK
    <2>2. files' \subseteq 1..MaxRuns /\ unlogged' \subseteq 1..MaxRuns
      BY <2>1 DEF IInv, TypeOK
    <2> QED BY <2>2 DEF IInv, TypeOK
  <1>2. LogInv'
    BY DEF LogInv
  <1>3. HistoryHasLog'
    BY DEF IInv, HistoryHasLog
  <1>4. FiredInv'
    <2>1. \A c \in Crons : Armed(c)' => Armed(c)
      BY DEF Armed
    <2>2. troubles \in Nat /\ (troubles' = troubles \/ troubles' = troubles + 1)
          /\ fired \in [Crons -> Nat]
      BY DEF IInv, TypeOK
    <2> QED BY <2>1, <2>2 DEF IInv, FiredInv, Running
  <1>5. DueInv'
    BY DEF IInv, DueInv, Running
  <1> QED BY <1>1, <1>2, <1>3, <1>4, <1>5 DEF IInv, SweepInv

LEMMA RecordHistoryOK == IInv /\ RecordHistory => IInv'
  <1> SUFFICES ASSUME IInv, RecordHistory PROVE IInv'
    OBVIOUS
  <1> USE DEF RecordHistory, Trouble, rowVars
  <1>1. TypeOK'
    BY BoundsAssumption DEF IInv, TypeOK, Snapshots
  <1>2. HistoryHasLog'
    BY DEF IInv, HistoryHasLog, LogInv
  <1>3. FiredInv'
    <2>1. \A c \in Crons : Armed(c)' => Armed(c)
      BY DEF Armed
    <2>2. troubles \in Nat /\ (troubles' = troubles \/ troubles' = troubles + 1)
          /\ fired \in [Crons -> Nat]
      BY DEF IInv, TypeOK
    <2> QED BY <2>1, <2>2 DEF IInv, FiredInv, Running
  <1>4. DueInv'
    BY DEF IInv, DueInv, Running
  <1> QED BY <1>1, <1>2, <1>3, <1>4 DEF IInv, LogInv, SweepInv

\* Clearing the date spends the firing: the row has none left, and no copy is in due.
LEMMA ClearDateOK == IInv /\ ClearDate => IInv'
  <1> SUFFICES ASSUME IInv, ClearDate PROVE IInv'
    OBVIOUS
  <1> USE DEF ClearDate, auxVars
  <1>1. cur \in Snapshots /\ cur.cron \in Crons /\ cur.row \in Rows
    BY DEF IInv, TypeOK, Snapshots
  <1>2. /\ row' \in [Crons -> Rows] /\ row'[cur.cron].date = Never
        /\ \A c \in Crons : c # cur.cron => row'[c] = row[c]
    <2>1. [cur.row EXCEPT !.date = Never] \in Rows
          /\ [cur.row EXCEPT !.date = Never].date = Never
      BY <1>1, RowFields
    <2> QED BY <1>1, <2>1, Zenon DEF IInv, TypeOK
  <1>3. TypeOK'
    BY <1>2 DEF IInv, TypeOK
  <1>4. FiredInv'
    <2>1. \A c \in Crons : c = cur.cron => ~Armed(c)'
      BY <1>2 DEF IInv, DueInv, Armed, Running
    <2>2. \A c \in Crons : c # cur.cron /\ Armed(c)' => Armed(c)
      BY <1>2 DEF Armed
    <2> QED BY <2>1, <2>2 DEF IInv, FiredInv, Running
  <1>5. DueInv'
    BY DEF IInv, DueInv, Running
  <1> QED BY <1>3, <1>4, <1>5 DEF IInv, LogInv, HistoryHasLog, SweepInv

\* A run whose date stays because the update failed is paid for by that failure.
LEMMA ClearFailsOK == IInv /\ ClearFails => IInv'
  <1> SUFFICES ASSUME IInv, ClearFails PROVE IInv'
    OBVIOUS
  <1>1. /\ phase = "clear" /\ phase' = "next" /\ troubles' = troubles + 1
        /\ UNCHANGED <<now, row, put, histories, files, runs, due, sweeping,
                       fired, unlogged>>
        /\ cur' = NoCron
    BY DEF ClearFails, Trouble, rowVars
  <1>2. TypeOK'
    BY <1>1 DEF IInv, TypeOK
  <1>3. FiredInv'
    BY <1>1 DEF IInv, FiredInv, TypeOK
  <1>4. DueInv'
    BY <1>1 DEF IInv, DueInv, Running
  <1> QED BY <1>1, <1>2, <1>3, <1>4 DEF IInv, LogInv, HistoryHasLog, SweepInv

LEMMA SweepOK ==
  ASSUME IInv, SweepRead \/ SweepFails \/ (\E h \in histories : SweepRow(h)) \/ SweepDone
  PROVE  IInv'
  <1>1. /\ UNCHANGED <<now, row, put, files, runs, due, cur, fired, unlogged>>
        /\ histories' \subseteq histories
        /\ phase \in {"next", "sweep"} /\ phase' \in {"wait", "sweep"}
        /\ troubles' = troubles \/ troubles' = troubles + 1
    BY DEF SweepRead, SweepFails, SweepRow, SweepDone, Trouble, rowVars, auxVars, runVars
  <1>2. /\ sweeping'.at \in Times /\ sweeping'.at <= now'
        /\ DOMAIN sweeping'.years \subseteq Crons
        /\ sweeping'.years \in [DOMAIN sweeping'.years -> Years]
    <2>1. CASE sweeping' = sweeping
      BY <2>1, <1>1 DEF IInv, TypeOK, SweepInv
    <2>2. CASE sweeping' = NoSweep
      BY <2>2, <1>1, BoundsAssumption DEF IInv, TypeOK, NoSweep, Times
    <2>3. CASE SweepRead
      <3> DEFINE live == {d \in Crons : row[d].live}
      <3>1. sweeping' = [at |-> now, years |-> [c \in live |-> row[c].years]]
        BY <2>3 DEF SweepRead
      <3>2. \A c \in live : row[c].years \in Years
        BY DEF IInv, TypeOK, Rows
      <3> QED BY <3>1, <3>2, <1>1, BoundsAssumption DEF IInv, TypeOK, Times
    <2> QED BY <2>1, <2>2, <2>3 DEF SweepFails, SweepRow, SweepDone, runVars
  <1>3. TypeOK'
    BY <1>1, <1>2 DEF IInv, TypeOK
  <1>4. FiredInv'
    <2>1. \A c \in Crons : Armed(c)' => Armed(c)
      BY <1>1 DEF Armed
    <2> QED BY <1>1, <2>1 DEF IInv, FiredInv, Running, TypeOK
  <1>5. DueInv'
    BY <1>1 DEF IInv, DueInv, Running
  <1> QED BY <1>1, <1>2, <1>3, <1>4, <1>5 DEF IInv, LogInv, HistoryHasLog, SweepInv

\* A crash in the middle of a run leaves its date, and is one trouble more.
LEMMA CrashOK == IInv /\ Crash => IInv'
  <1> SUFFICES ASSUME IInv, Crash PROVE IInv'
    OBVIOUS
  <1> USE DEF Crash, Trouble
  <1>1. TypeOK'
    BY BoundsAssumption DEF IInv, TypeOK, NoSweep, Times
  <1>2. FiredInv'
    BY DEF IInv, FiredInv, TypeOK
  <1>3. SweepInv'
    BY DEF IInv, TypeOK, SweepInv, NoSweep, Times
  <1> QED BY <1>1, <1>2, <1>3 DEF IInv, DueInv, LogInv, HistoryHasLog, Running

-----------------------------------------------------------------------------
(* The steps of the users, and the clock.                                  *)

\* A PUT that writes a row chooses its date anew, so no firing is counted.
LEMMA PutWriteOK == \A u \in Users : IInv /\ PutWrite(u) => IInv'
  <1> SUFFICES ASSUME IInv, NEW u \in Users, PutWrite(u) PROVE IInv'
    OBVIOUS
  <1> USE DEF PutWrite, runVars
  <1>1. put[u] \in Snapshots /\ put[u].cron \in Crons /\ put[u].row \in Rows
    BY DEF IInv, TypeOK, Snapshots
  <1>2. /\ row' \in [Crons -> Rows] /\ fired' \in [Crons -> Nat]
        /\ \A c \in Crons : \/ row'[c] = row[c] /\ fired'[c] = fired[c]
                            \/ fired'[c] = 0
    BY <1>1 DEF IInv, TypeOK
  <1>3. TypeOK'
    BY <1>2 DEF IInv, TypeOK
  <1>4. FiredInv'
    <2>1. \A c \in Crons : row'[c] = row[c] /\ Armed(c)' => Armed(c)
      BY DEF Armed
    <2> QED BY <1>2, <2>1 DEF IInv, FiredInv, Running, TypeOK
  <1>5. DueInv'
    BY DEF IInv, DueInv, Running
  <1> QED BY <1>3, <1>4, <1>5 DEF IInv, LogInv, HistoryHasLog, SweepInv

LEMMA PutFindOK ==
  ASSUME IInv, NEW u \in Users, NEW c \in Crons, NEW date \in Times \cup {Never},
         NEW status \in Statuses \cup {Unchanged}, NEW years \in Years,
         PutFind(u, c, date, status, years)
  PROVE  IInv'
  <1> USE DEF PutFind, runVars, auxVars
  <1>1. [cron |-> c, row |-> Merged(row[c], date, status, years)] \in Snapshots
    BY MergedType DEF IInv, TypeOK, Snapshots
  <1>2. TypeOK'
    BY <1>1 DEF IInv, TypeOK
  <1>3. FiredInv' /\ DueInv'
    BY DEF IInv, FiredInv, DueInv, Running, Armed
  <1> QED BY <1>2, <1>3 DEF IInv, LogInv, HistoryHasLog, SweepInv

LEMMA SetLiveOK ==
  ASSUME IInv, NEW c \in Crons, NEW live \in BOOLEAN, SetLive(c, live)
  PROVE  IInv'
  <1> USE DEF runVars, auxVars
  <1>1. /\ row' \in [Crons -> Rows]
        /\ \A b \in Crons : row'[b].date = row[b].date
    <2>1. row' = [row EXCEPT ![c] = [row[c] EXCEPT !.live = live]]
      BY Zenon DEF SetLive
    <2>2. /\ [row[c] EXCEPT !.live = live] \in Rows
          /\ [row[c] EXCEPT !.live = live].date = row[c].date
      BY RowFields, Never \in Times \cup {Never} DEF IInv, TypeOK
    <2> QED BY <2>1, <2>2, Zenon DEF IInv, TypeOK
  <1>2. UNCHANGED <<now, put, histories, files, runs, runVars, auxVars>>
    BY DEF SetLive
  <1>3. TypeOK'
    BY <1>1, <1>2 DEF IInv, TypeOK
  <1>4. FiredInv' /\ DueInv'
    BY <1>1, <1>2 DEF IInv, FiredInv, DueInv, Running, Armed
  <1> QED BY <1>2, <1>3, <1>4 DEF IInv, LogInv, HistoryHasLog, SweepInv

LEMMA ClockOK == IInv /\ Clock => IInv'
  <1> SUFFICES ASSUME IInv, Clock PROVE IInv'
    OBVIOUS
  <1> USE DEF Clock, rowVars, runVars, auxVars
  <1>1. TypeOK'
    BY BoundsAssumption DEF IInv, TypeOK, Times
  <1>2. FiredInv' /\ DueInv'
    BY DEF IInv, FiredInv, DueInv, Running, Armed
  <1>3. SweepInv'
    BY BoundsAssumption DEF IInv, TypeOK, SweepInv, Times
  <1> QED BY <1>1, <1>2, <1>3 DEF IInv, LogInv, HistoryHasLog

LEMMA StepOK == IInv /\ [Next]_vars => IInv'
  <1> SUFFICES ASSUME IInv, [Next]_vars PROVE IInv'
    OBVIOUS
  <1>1. CASE Scheduler
    BY <1>1, ListDueOK, AttemptOK, WriteLogOK, RecordHistoryOK, ClearDateOK,
       ClearFailsOK, SweepOK DEF Scheduler
  <1>2. CASE Crash
    BY <1>2, CrashOK
  <1>3. CASE \E u \in Users : User(u)
    BY <1>3, PutFindOK, PutWriteOK DEF User
  <1>4. CASE \E c \in Crons : Delete(c) \/ Restore(c)
    BY <1>4, SetLiveOK DEF Delete, Restore
  <1>5. CASE Clock
    BY <1>5, ClockOK
  <1>6. CASE UNCHANGED vars
    <2> USE <1>6 DEF vars, rowVars, runVars, auxVars
    <2>1. TypeOK'
      BY DEF IInv, TypeOK
    <2>2. FiredInv' /\ DueInv'
      BY DEF IInv, FiredInv, DueInv, Running, Armed
    <2> QED BY <2>1, <2>2 DEF IInv, LogInv, HistoryHasLog, SweepInv
  <1> QED BY <1>1, <1>2, <1>3, <1>4, <1>5, <1>6 DEF Next

-----------------------------------------------------------------------------

LEMMA Inductive == Spec => []IInv
  BY InitOK, StepOK, PTL DEF Spec

\* Every variable keeps its type.
THEOREM TypeCorrect == Spec => []TypeOK
  <1>1. IInv => TypeOK
    BY DEF IInv
  <1> QED BY <1>1, Inductive, PTL

\* A chosen date fires its cron once more only for each failed call, crash or
\* deletion, whatever copies of the row were in flight.
THEOREM RefireHolds == Spec => []RefireNeedsTrouble
  <1>1. IInv => RefireNeedsTrouble
    BY DEF IInv, FiredInv, RefireNeedsTrouble
  <1> QED BY <1>1, Inductive, PTL

\* A history row names a log that was written, or whose writing failed.
THEOREM HistoryHasLogHolds == Spec => []HistoryHasLog
  <1>1. IInv => HistoryHasLog
    BY DEF IInv
  <1> QED BY <1>1, Inductive, PTL

\* A sweep leaves every history row of the current year alone.
THEOREM YoungHistoryKeptHolds == Spec => YoungHistoryKept
  <1>1. IInv /\ [Next]_vars => [\A h \in histories \ histories' : h.at < now]_vars
    <2> SUFFICES ASSUME IInv, Next, NEW h \in histories, h \notin histories'
                 PROVE  h.at < now
      BY DEF vars
    <2>1. PICK g \in histories : SweepRow(g)
      BY DEF Next, Scheduler, User, ListDue, Attempt, WriteLog, RecordHistory,
             ClearDate, ClearFails, SweepRead, SweepFails, SweepDone, Crash,
             PutFind, PutWrite, Delete, Restore, SetLive, Clock, auxVars
    <2>2. h = g /\ Expired(h)
      BY <2>1 DEF SweepRow
    <2>3. /\ h.at \in Int /\ h.at <= sweeping.at - Retention(h.cron)
          /\ sweeping.at \in Int /\ now \in Int /\ sweeping.at <= now
      BY <2>2 DEF IInv, TypeOK, SweepInv, Expired, Times
    <2>4. Retention(h.cron) \in Int /\ Retention(h.cron) >= 1
      <3>1. \A c \in DOMAIN sweeping.years : sweeping.years[c] \in Nat
        BY BoundsAssumption DEF IInv, TypeOK
      <3> QED BY <3>1 DEF Retention
    <2> QED BY <2>3, <2>4
  <1> QED BY <1>1, Inductive, PTL DEF Spec, YoungHistoryKept

\* Only the generic restore brings a deleted cron back; the write-back of the row
\* as it was listed, and a PUT's, find no row.
THEOREM OnlyRestoreRevivesHolds == Spec => OnlyRestoreRevives
  <1>1. IInv /\ [Next]_vars
          => [\A c \in Crons : ~row[c].live /\ row'[c].live => Restore(c)]_vars
    <2> SUFFICES ASSUME IInv, Next, NEW c \in Crons, ~row[c].live, row'[c].live
                 PROVE  Restore(c)
      BY DEF vars
    <2>1. row[c] # row'[c] /\ row' # row
      OBVIOUS
    <2>2. ASSUME ClearDate PROVE FALSE
      <3>1. cur.cron \in Crons /\ row[cur.cron].live
        BY <2>2 DEF ClearDate, IInv, TypeOK, Snapshots
      <3>2. c # cur.cron => row'[c] = row[c]
        BY <2>2, <3>1 DEF ClearDate, IInv, TypeOK
      <3> QED BY <3>1, <3>2
    <2>3. ASSUME NEW u \in Users, PutWrite(u) PROVE FALSE
      <3>1. put[u].cron \in Crons /\ row[put[u].cron].live
        BY <2>3, <2>1 DEF PutWrite, IInv, TypeOK, Snapshots
      <3>2. c # put[u].cron => row'[c] = row[c]
        BY <2>3, <3>1 DEF PutWrite, IInv, TypeOK
      <3> QED BY <3>1, <3>2
    <2>4. ASSUME NEW d \in due, NEW date \in Times \cup {Never}, Attempt(d, date) PROVE FALSE
      <3>1. row' = [row EXCEPT ![d.cron] = [row[d.cron] EXCEPT !.date = date]]
            /\ d.cron \in Crons
        BY <2>4, <2>1, Zenon DEF Attempt, IInv, TypeOK, Snapshots
      <3>2. [row[d.cron] EXCEPT !.date = date].live = row[d.cron].live
        BY <3>1, RowFields, TRUE \in BOOLEAN DEF IInv, TypeOK
      <3> QED BY <3>1, <3>2, Zenon DEF IInv, TypeOK
    <2>5. ASSUME NEW b \in Crons, Delete(b) \/ Restore(b) PROVE Restore(c)
      <3>1. PICK live \in BOOLEAN :
              /\ row' = [row EXCEPT ![b] = [row[b] EXCEPT !.live = live]]
              /\ live = TRUE <=> Restore(b)
              /\ row[b].live # live
        <4>1. CASE Delete(b)
          BY <4>1, Zenon DEF Delete, Restore, SetLive
        <4>2. CASE Restore(b)
          BY <4>2, Zenon DEF Restore, SetLive
        <4> QED BY <2>5, <4>1, <4>2
      <3>2. b = c
        BY <3>1, <2>1, Zenon DEF IInv, TypeOK
      <3>3. row[b].live = FALSE
        BY <3>2 DEF IInv, TypeOK, Rows
      <3> QED BY <3>1, <3>2, <3>3
    <2> QED BY <2>1, <2>2, <2>3, <2>4, <2>5
        DEF Next, Scheduler, User, ListDue, WriteLog, RecordHistory, ClearFails,
            SweepRead, SweepFails, SweepRow, SweepDone, Crash, PutFind, Clock, rowVars
  <1> QED BY <1>1, Inductive, PTL DEF Spec, OnlyRestoreRevives
=============================================================================
