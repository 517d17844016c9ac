------------------------------- MODULE Nightly -------------------------------
(***************************************************************************)
(* The record a stable release rests on: the streak of scheduled nightly   *)
(* runs that src/scripts/audit-nightly.ts computes from what GitHub        *)
(* reports, the consistency it demands of the ledger it writes, and the    *)
(* guard of src/scripts/stable-release.ts.                                 *)
(*                                                                         *)
(* Days are numbers.  A history is the sequence of the workflow's runs in  *)
(* the order they were created: [event, date, attempt, status,             *)
(* conclusion].  GitHub reports a run's latest attempt only, so a re-run   *)
(* changes the past.  A run stands for its own address in the ledger.      *)
(***************************************************************************)
EXTENDS Integers, Sequences, SequencesExt

CONSTANTS Required,  \* consecutive runs a stable release needs
          Null

Scheduled(r) == r.event = "schedule"
Completed(r) == Scheduled(r) /\ r.status = "completed"

End(date, kind, run) == [date |-> date, kind |-> kind, run |-> run]

\* The day that has no completed run; a run of that day still under way is named.
Missed(runs, due) ==
  LET pending == { i \in DOMAIN runs : /\ Scheduled(runs[i]) /\ ~Completed(runs[i])
                                       /\ runs[i].date = due }
      latest == CHOOSE i \in pending : \A j \in pending : j <= i
  IN  End(due, "missed", IF pending = {} THEN Null ELSE runs[latest])

\* Mutant: a day without a run is stepped over.
NextCycleSkips(s, run, runs, today) ==
  IF s.end # Null THEN s
  ELSE IF run.conclusion # "success" THEN [s EXCEPT !.end = End(run.date, "conclusion", run)]
  ELSE IF run.attempt # 1 THEN [s EXCEPT !.end = End(run.date, "rerun", run)]
  ELSE IF run.date = s.counted THEN s
  ELSE [s EXCEPT !.cycles = Append(@, run), !.counted = run.date]

\* One completed run, newest first; counted is the last day counted, or 0.
NextCycle(s, run, runs, today) ==
  LET due == (IF s.counted = 0 THEN today ELSE s.counted) - 1 IN
  IF s.end # Null THEN s
  ELSE IF run.date # s.counted /\ run.date < due THEN [s EXCEPT !.end = Missed(runs, due)]
  ELSE IF run.conclusion # "success" THEN [s EXCEPT !.end = End(run.date, "conclusion", run)]
  ELSE IF run.attempt # 1 THEN [s EXCEPT !.end = End(run.date, "rerun", run)]
  ELSE IF run.date = s.counted THEN s
  ELSE [s EXCEPT !.cycles = Append(@, run), !.counted = run.date]

\* The k newest runs, counted.
Counted(runs, today) ==
  LET after[k \in 0..Len(runs)] ==
        IF k = 0 THEN [cycles |-> <<>>, end |-> Null, counted |-> 0]
        ELSE IF Completed(runs[Len(runs) - k + 1])
             THEN NextCycle(after[k - 1], runs[Len(runs) - k + 1], runs, today)
             ELSE after[k - 1]
  IN  after

\* computeStreak.  When every completed run was counted, one under way before
\* them still ends the streak.
ComputeStreak(runs, today) ==
  LET s == Counted(runs, today)[Len(runs)]
      older == s.counted # 0 /\ \E i \in DOMAIN runs : Scheduled(runs[i]) /\ runs[i].date < s.counted
  IN  [cycles |-> s.cycles,
       end |-> IF s.end = Null /\ older THEN Missed(runs, s.counted - 1) ELSE s.end]

\* The ledger: what is computed, and the two fields kept by hand.
Ledger(runs, today, hand) ==
  LET streak == ComputeStreak(runs, today)
      none == \A i \in DOMAIN runs : ~Completed(runs[i])
  IN  [cycles |-> streak.cycles, end |-> streak.end,
       status |-> IF none THEN "no_scheduled_runs" ELSE "measured",
       current |-> Len(streak.cycles),
       first |-> IF streak.cycles = <<>> THEN Null ELSE Last(streak.cycles).date,
       last |-> IF streak.cycles = <<>> THEN Null ELSE Head(streak.cycles).date,
       required |-> hand.required, authorized |-> hand.authorized]

LedgerProblems(l) ==
  LET date(i) == l.cycles[i].date
      oldest == IF l.cycles = <<>> THEN Null ELSE Last(l.cycles).date
      newest == IF l.cycles = <<>> THEN Null ELSE Head(l.cycles).date
      problem ==
        [count |-> l.current # Len(l.cycles),
         first |-> l.first # oldest,
         last |-> l.last # newest,
         attempts |-> \E i \in DOMAIN l.cycles : l.cycles[i].attempt # 1,
         dates |-> \E i \in 2..Len(l.cycles) : date(i) # date(i - 1) - 1,
         end |-> l.end # Null /\ oldest # Null /\ l.end.date \notin {oldest, oldest - 1},
         status |-> IF l.status = "measured" THEN l.cycles = <<>> /\ l.end = Null
                    ELSE l.cycles # <<>> \/ l.end # Null]
  IN  { p \in DOMAIN problem : problem[p] }

StableReleaseProblems(l, today) ==
  LedgerProblems(l)
    \cup (IF l.status = "measured" /\ l.required = Required /\ l.current >= Required
          THEN {} ELSE {"streak"})
    \cup (IF l.last \in {today, today - 1} THEN {} ELSE {"stale"})
    \cup (IF l.authorized THEN {} ELSE {"unauthorized"})

\* checkStableRelease: publishing also audits the committed ledger against
\* GitHub's present answer.
CheckStableRelease(committed, runs, today, publish) ==
  /\ StableReleaseProblems(committed, today) = {}
  /\ publish => committed = Ledger(runs, today, committed)

------------------------------------------------------------------------------
\* What the record owes.

\* The runs of a day that have ended, and whether the day, or its newest run,
\* may count.
Of(runs, day) == { i \in DOMAIN runs : Completed(runs[i]) /\ runs[i].date = day }
Passed(r) == r.conclusion = "success" /\ r.attempt = 1
Whole(runs, day) == Of(runs, day) # {} /\ \A i \in Of(runs, day) : Passed(runs[i])
Newest(runs, day) ==
  \E i \in Of(runs, day) : Passed(runs[i]) /\ \A j \in Of(runs, day) : j <= i

\* n days in a row, today's or yesterday's the last, each passed by its newest
\* run and all but the oldest by every run.
InARow(runs, today, n) ==
  LET last == IF Of(runs, today) # {} THEN today ELSE today - 1
  IN  n > 0 => /\ \A day \in (last - n + 1)..last : Newest(runs, day)
               /\ \A day \in (last - n + 2)..last : Whole(runs, day)

\* The streak is as long as the history allows and no longer; the ledger
\* written from it is one the same script accepts.
StreakExact(runs, today, hand) ==
  LET l == Ledger(runs, today, hand) IN
  /\ \A n \in 0..(Len(runs) + 1) : InARow(runs, today, n) <=> n <= l.current
  /\ LedgerProblems(l) = {}

\* Whatever was committed and whatever became of the runs since, publishing
\* needs that many days in a row in the history as it is now.
PublishesOnStreak(committed, runs, today) ==
  CheckStableRelease(committed, runs, today, TRUE) =>
    InARow(runs, today, Required) /\ committed.authorized
=============================================================================
