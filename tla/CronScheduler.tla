--------------------------- MODULE CronScheduler ---------------------------
(***************************************************************************)
(* Background actions: internal/cron's Scheduler (scheduler.go), its       *)
(* retention sweep (retention.go) and the edits users make to the same     *)
(* rows (modules/cron/handler.go, the generic delete and restore).         *)
(*                                                                         *)
(* Every tick lists the due crons, runs them one after the other, writes a *)
(* log file and a history row for each and clears its date by writing back *)
(* the whole row it listed; then it sweeps the history that expired.       *)
(* Users edit the rows meanwhile, any database call may fail, and the      *)
(* process may die between any two steps.                                  *)
(***************************************************************************)
EXTENDS Integers, FiniteSets

CONSTANTS
  Crons,       \* the cron rows
  Users,       \* concurrent PUT requests
  Years,       \* the history retentions crons may have
  MaxTime,     \* bound: the last instant
  MaxRuns,     \* bound: runs started in a behaviour
  MaxTrouble   \* bound: failed calls and crashes in a behaviour

ASSUME BoundsAssumption ==
  Years \subseteq Nat /\ MaxTime \in Nat /\ MaxRuns \in Nat /\ MaxTrouble \in Nat

Never == -1    \* execution_date is NULL
Times == 0..MaxTime
Statuses == {"active", "deactivated"}   \* "archived" acts as "deactivated"
Unchanged == "unchanged"                \* an empty status in the body of a PUT

VARIABLES
  now,
  row,         \* the cron table
  histories,   \* the cron_history table
  files,       \* run ids whose log file is on disk
  runs,        \* runs started so far; the last one is the current run id
  phase,       \* what the scheduler is doing
  due,         \* crons listed and not run yet, with the row as it was listed
  cur,         \* the cron being run, with the row as it was listed
  sweeping,    \* when the sweep in progress began, and the retentions it read
  put,         \* per user: the PUT in progress, with the row it is about to write
  fired,       \* auxiliary: runs of a cron since its date was last chosen
  troubles,    \* auxiliary: failed calls and crashes so far
  unlogged     \* auxiliary: runs whose log could not be written

rowVars == <<row, put>>
runVars == <<phase, due, cur, sweeping>>
auxVars == <<fired, troubles, unlogged>>
vars == <<now, rowVars, histories, files, runs, runVars, auxVars>>

NoPut == [cron |-> "none"]
NoCron == [cron |-> "none"]
NoSweep == [at |-> 0, years |-> [c \in {} |-> 0]]

IsDue(c) ==
  /\ row[c].live /\ row[c].status = "active"
  /\ row[c].date # Never /\ row[c].date <= now

\* Something went wrong: at most MaxTrouble times in a behaviour.
Trouble == troubles < MaxTrouble /\ troubles' = troubles + 1

-----------------------------------------------------------------------------
(* The tick.                                                               *)

\* dueCrons: one query over every tenant; the rows are kept as they are now.
\* (A failed query is logged and the next tick tries again.)
ListDue ==
  /\ phase = "wait"
  /\ due' = {[cron |-> c, row |-> row[c]] : c \in {d \in Crons : IsDue(d)}}
  /\ phase' = "next"
  /\ UNCHANGED <<now, rowVars, histories, files, runs, cur, sweeping, auxVars>>

\* attempt: the run-as user and its permission are checked, then the action
\* runs; it may choose a new date for its own cron, and it may fail.
Attempt(d, date) ==
  /\ phase = "next" /\ d \in due
  /\ runs < MaxRuns
  /\ runs' = runs + 1
  /\ due' = due \ {d}
  /\ cur' = d
  /\ phase' = "log"
  /\ IF date = Never \/ ~row[d.cron].live
       THEN UNCHANGED row /\ fired' = [fired EXCEPT ![d.cron] = @ + 1]
       ELSE /\ row' = [row EXCEPT ![d.cron].date = date]
            /\ fired' = [fired EXCEPT ![d.cron] = 0]
  /\ UNCHANGED <<now, put, histories, files, sweeping, troubles, unlogged>>

\* WriteLog under a run id of its own; a failure is only logged.
WriteLog ==
  /\ phase = "log"
  /\ phase' = "history"
  /\ \/ files' = files \cup {runs} /\ UNCHANGED <<troubles, unlogged>>
     \/ Trouble /\ unlogged' = unlogged \cup {runs} /\ UNCHANGED files
  /\ UNCHANGED <<now, rowVars, histories, runs, due, cur, sweeping, fired>>

\* The history row names the log file; a failure is only logged.
RecordHistory ==
  /\ phase = "history"
  /\ phase' = "clear"
  /\ \/ /\ histories' = histories \cup {[cron |-> cur.cron, at |-> now,
                                         log |-> runs]}
        /\ UNCHANGED troubles
     \/ Trouble /\ UNCHANGED histories
  /\ UNCHANGED <<now, rowVars, files, runs, due, cur, sweeping, fired, unlogged>>

\* Mutants: the row goes back with its date, or even over a deleted row.
ClearKeepsDate ==
  /\ phase = "clear"
  /\ row[cur.cron].live
  /\ row' = [row EXCEPT ![cur.cron] = cur.row]
  /\ phase' = "next"
  /\ cur' = NoCron
  /\ UNCHANGED <<now, put, histories, files, runs, due, sweeping, auxVars>>
ClearRevives ==
  /\ phase = "clear"
  /\ row' = [row EXCEPT ![cur.cron] = [cur.row EXCEPT !.date = Never]]
  /\ phase' = "next"
  /\ cur' = NoCron
  /\ UNCHANGED <<now, put, histories, files, runs, due, sweeping, auxVars>>

\* crons.Update writes every column as it was listed, with the date cleared;
\* it matches no row that was soft-deleted.
ClearDate ==
  /\ phase = "clear"
  /\ row[cur.cron].live
  /\ row' = [row EXCEPT ![cur.cron] = [cur.row EXCEPT !.date = Never]]
  /\ phase' = "next"
  /\ cur' = NoCron
  /\ UNCHANGED <<now, put, histories, files, runs, due, sweeping, auxVars>>

\* The update failed, or the row was deleted while its cron ran: logged, and
\* the tick goes on with the next cron.
ClearFails ==
  /\ phase = "clear"
  /\ \/ Trouble
     \/ ~row[cur.cron].live /\ troubles' = troubles + 1
  /\ phase' = "next"
  /\ cur' = NoCron
  /\ UNCHANGED <<now, rowVars, histories, files, runs, due, sweeping, fired,
                 unlogged>>

-----------------------------------------------------------------------------
(* SweepHistory, on the same tick.                                         *)

\* Retention of every live cron; the rows of the others use the default.
SweepRead ==
  /\ phase = "next" /\ due = {}
  /\ sweeping' = [at |-> now,
                   years |-> [c \in {d \in Crons : row[d].live} |-> row[c].years]]
  /\ phase' = "sweep"
  /\ UNCHANGED <<now, rowVars, histories, files, runs, due, cur, auxVars>>

\* Mutant: the error ends the scheduler's loop.
SweepFailsForGood ==
  /\ phase = "next" /\ due = {}
  /\ Trouble
  /\ phase' = "stopped"
  /\ UNCHANGED <<now, rowVars, histories, files, runs, due, cur, sweeping,
                 fired, unlogged>>

\* One of its two queries failed: nothing is swept on this tick.
SweepFails ==
  /\ phase = "next" /\ due = {}
  /\ Trouble
  /\ phase' = "wait"
  /\ UNCHANGED <<now, rowVars, histories, files, runs, due, cur, sweeping,
                 fired, unlogged>>

\* Mutant: a retention of zero is taken literally.
RetentionNoDefault(c) ==
  IF c \in DOMAIN sweeping.years THEN sweeping.years[c] ELSE 0

\* historyExpired: zero, or no entry, reads as one year.
Retention(c) ==
  IF c \in DOMAIN sweeping.years /\ sweeping.years[c] > 0
    THEN sweeping.years[c] ELSE 1
Expired(h) == h.at <= sweeping.at - Retention(h.cron)

\* Mutant: the log a row names goes first, and then the row cannot be deleted.
SweepFileFirst(h) ==
  /\ phase = "sweep"
  /\ h \in histories
  /\ Expired(h)
  /\ Trouble
  /\ files' = files \ {h.log}
  /\ UNCHANGED <<now, rowVars, histories, runs, runVars, fired, unlogged>>

\* The file removed is the one named after the history row's own id -- a path
\* no run ever wrote -- so the row goes and files stay as they are.
SweepRow(h) ==
  /\ phase = "sweep"
  /\ h \in histories
  /\ Expired(h)
  /\ histories' = histories \ {h}
  /\ UNCHANGED <<now, rowVars, files, runs, runVars, auxVars>>

\* Done; a row whose deletion failed waits for the next tick.
SweepDone ==
  /\ phase = "sweep"
  /\ (\E h \in histories : Expired(h)) => Trouble
  /\ (\A h \in histories : ~Expired(h)) => UNCHANGED troubles
  /\ phase' = "wait"
  /\ sweeping' = NoSweep
  /\ UNCHANGED <<now, rowVars, histories, files, runs, due, cur, fired,
                 unlogged>>

\* The process dies and starts again with a fresh scheduler.
Crash ==
  /\ Trouble
  /\ phase' = "wait" /\ due' = {} /\ cur' = NoCron /\ sweeping' = NoSweep
  /\ put' = [u \in Users |-> NoPut]
  /\ UNCHANGED <<now, row, histories, files, runs, fired, unlogged>>

-----------------------------------------------------------------------------
(* The users.                                                              *)

\* Mutant: fields the body leaves out overwrite the row's.
MergedVerbatim(existing, date, status, years) ==
  [existing EXCEPT !.date = date, !.status = status, !.years = years]

\* The body of a PUT over the row found: the date always verbatim, the other
\* fields when the body has a value for them (zero years are none).
Merged(existing, date, status, years) ==
  [existing EXCEPT
     !.date = date,
     !.status = IF status = Unchanged THEN @ ELSE status,
     !.years = IF years > 0 THEN years ELSE @]

\* PUT /api/v1/cron/:id finds the row and merges the body into it ...
PutFind(u, c, date, status, years) ==
  /\ put[u] = NoPut
  /\ row[c].live
  /\ put' = [put EXCEPT ![u] = [cron |-> c,
                                row |-> Merged(row[c], date, status, years)]]
  /\ UNCHANGED <<now, row, histories, files, runs, runVars, auxVars>>

\* ... and writes the whole row back, if it is still there.
PutWrite(u) ==
  /\ put[u] # NoPut
  /\ LET p == put[u]
     IN IF row[p.cron].live
          THEN /\ row' = [row EXCEPT ![p.cron] = p.row]
               /\ fired' = [fired EXCEPT ![p.cron] = 0]
          ELSE UNCHANGED <<row, fired>>
  /\ put' = [put EXCEPT ![u] = NoPut]
  /\ UNCHANGED <<now, histories, files, runs, runVars, troubles, unlogged>>

\* The generic DELETE is a soft delete, the generic restore undoes it.
SetLive(c, live) ==
  /\ row[c].live # live
  /\ row' = [row EXCEPT ![c].live = live]
  /\ UNCHANGED <<now, put, histories, files, runs, runVars, auxVars>>
Delete(c) == SetLive(c, FALSE)
Restore(c) == SetLive(c, TRUE)

Clock ==
  /\ now < MaxTime
  /\ now' = now + 1
  /\ UNCHANGED <<rowVars, histories, files, runs, runVars, auxVars>>

-----------------------------------------------------------------------------

Rows == [live : BOOLEAN, date : Times \cup {Never}, status : Statuses,
         years : Years]

Init ==
  /\ now = 0
  /\ row \in [Crons -> {r \in Rows : r.live /\ r.date # Never
                                       /\ r.status = "active"}]
  /\ histories = {} /\ files = {} /\ runs = 0
  /\ phase = "wait" /\ due = {} /\ cur = NoCron /\ sweeping = NoSweep
  /\ put = [u \in Users |-> NoPut]
  /\ fired = [c \in Crons |-> 0]
  /\ troubles = 0 /\ unlogged = {}

Scheduler ==
  \/ ListDue
  \/ \E d \in due, date \in Times \cup {Never} : Attempt(d, date)
  \/ WriteLog
  \/ RecordHistory
  \/ ClearDate
  \/ ClearFails
  \/ SweepRead
  \/ SweepFails
  \/ \E h \in histories : SweepRow(h)
  \/ SweepDone

User(u) ==
  \/ \E c \in Crons, date \in Times \cup {Never},
        status \in Statuses \cup {Unchanged}, years \in Years :
       PutFind(u, c, date, status, years)
  \/ PutWrite(u)

Next ==
  \/ Scheduler
  \/ Crash
  \/ \E u \in Users : User(u)
  \/ \E c \in Crons : Delete(c) \/ Restore(c)
  \/ Clock

Spec == Init /\ [][Next]_vars

\* The goroutine keeps ticking, and the loop over the due rows goes on.
FairSpec == Spec /\ WF_vars(Scheduler)

-----------------------------------------------------------------------------
(* Properties.                                                             *)

Snapshots == [cron : Crons, row : Rows]

\* Every variable has its type.
TypeOK ==
  /\ now \in Times
  /\ row \in [Crons -> Rows]
  /\ histories \subseteq [cron : Crons, at : Times, log : 1..MaxRuns]
  /\ files \subseteq 1..MaxRuns
  /\ runs \in 0..MaxRuns
  /\ phase \in {"wait", "next", "log", "history", "clear", "sweep"}
  /\ due \subseteq Snapshots
  /\ cur \in Snapshots \cup {NoCron}
  /\ phase \in {"log", "history", "clear"} => cur \in Snapshots /\ runs > 0
  /\ sweeping.at \in Times
  /\ DOMAIN sweeping.years \subseteq Crons
  /\ sweeping.years \in [DOMAIN sweeping.years -> Years]
  /\ put \in [Users -> Snapshots \cup {NoPut}]
  /\ fired \in [Crons -> Nat]
  /\ troubles \in Nat
  /\ unlogged \subseteq 1..MaxRuns

\* A date somebody chose fires its cron once; it fires again only after a call
\* failed, the process died, or the cron was deleted (and later restored),
\* between the run and the clearing of its date.
RefireNeedsTrouble == \A c \in Crons : fired[c] <= 1 + troubles

\* A history row names a log that is on disk, unless writing that log failed:
\* the log is written first, and a crash in between leaves no dangling row.
HistoryHasLog == \A h \in histories : h.log \in files \cup unlogged

\* The scheduler's write-back of the row it listed never brings back a cron
\* that was deleted while it ran; only a restore does.
OnlyRestoreRevives ==
  [][\A c \in Crons : ~row[c].live /\ row'[c].live => Restore(c)]_vars

\* A history row younger than a year survives every sweep, whatever its
\* cron's retention (0 is "use the default, never delete immediately") and
\* even when the cron is gone.
YoungHistoryKept == [][\A h \in histories \ histories' : h.at < now]_vars

\* models.go: an action that wants to reschedule itself may set a new date in
\* its own Run: the scheduler's write-back leaves the date it chose.
RescheduleSurvives ==
  [][ClearDate /\ fired[cur.cron] = 0 /\ row[cur.cron].live
       => row'[cur.cron].date = row[cur.cron].date]_vars

\* A cron that stays due is eventually run or cleared, if its ticks go on.
DueCronsRun ==
  \A c \in Crons :
    IsDue(c) ~> (~IsDue(c) \/ runs = MaxRuns \/ cur.cron = c)
=============================================================================
