------------------------------ MODULE MCControl ------------------------------
(* Small instances of ControlPlane. *)
EXTENDS AdminPage

CONSTANTS p1, p2, j1, n1, a1, r1

MCMoments == [minute : {0, 15}, hour : {2, 3}, day : {0, 1}]

Daily(h) == <<0, h, Star, Star, Star>>
EveryQuarter == <<15, Star, Star, Star, Star>>
Unparsable == <<99, Star, Star, Star, Star>>
TooShort == <<0, 2>>
MCNightlyCron == Daily(2)

\* Rows as sequences of legal edits leave them.
SafeRow == [retention |-> 7, enabled |-> TRUE, actor |-> None, reason |-> None,
            policy |-> "daily", cron |-> Daily(2), hour |-> 2, minute |-> 0, day |-> None]
LowRow == [SafeRow EXCEPT !.retention = 2, !.actor = a1, !.reason = r1]
OffRow == [SafeRow EXCEPT !.enabled = FALSE]
BadCronRow == [SafeRow EXCEPT !.policy = "custom_cron", !.cron = Unparsable,
                              !.hour = None, !.minute = None]

\* Bodies of requests.
Nothing == [f \in Columns |-> None]
LowApproved == [Nothing EXCEPT !.retention = 1, !.actor = a1, !.reason = r1]
LowAgain == [Nothing EXCEPT !.retention = 1]
Safe == [Nothing EXCEPT !.retention = 7]
Later == [Nothing EXCEPT !.hour = 3]
OnMondays == [Nothing EXCEPT !.policy = "weekly", !.day = 1]
Quarterly == [Nothing EXCEPT !.cron = EveryQuarter]
Malformed == [Nothing EXCEPT !.policy = "custom_cron", !.cron = TooShort]
Form == [Nothing EXCEPT !.retention = 7, !.cron = Daily(2)]
Unscheduled == [Nothing EXCEPT !.policy = Null, !.cron = Null, !.hour = Null]
Uncounted == [Nothing EXCEPT !.retention = Null]
On == ToggleBody(TRUE)
Off == ToggleBody(FALSE)

MCDtos ==
  {LowApproved, LowAgain, Safe, Later, OnMondays, Quarterly, Malformed, Unscheduled,
   Uncounted, Form, On, Off}

Load(events, flags, rows, n) ==
  [left   |-> [k \in Events |-> IF k \in DOMAIN events THEN events[k] ELSE 0],
   env    |-> flags,
   job    |-> rows,
   active |-> [t \in Targets |-> n]]

Flags(pods, apply, strict, nightly) ==
  [pods |-> pods, apply |-> apply, strict |-> strict, nightly |-> nightly,
   watched |-> FALSE]
Plain == Flags({p1}, TRUE, FALSE, FALSE)
Bootstrapped(pods) == Flags(pods, TRUE, FALSE, TRUE)
Rows(r, n) == [j \in Jobs |-> IF j = n1 THEN n ELSE r]

\* Overlapping edits of one job, of which a statement may fail.
Editing == {Load([boots |-> 1, edits |-> 2, faults |-> 1], Plain, Rows(r, None), 0) :
              r \in {None, SafeRow, LowRow}}

\* The bootstrap takes over a row of its own, in a restart after a crash, and in a
\* rollout while the older process serves an edit.  A database without the row
\* is booted by one process.
Bootstrapping ==
  {Load([boots |-> 2, edits |-> 1, crashes |-> 1, faults |-> 1],
        Bootstrapped({p1}), Rows(None, r), 0) : r \in {None, LowRow}}
  \cup
  {Load([boots |-> 2, edits |-> 1], Bootstrapped({p1, p2}), Rows(None, r), 0) :
     r \in {LowRow, OffRow}}

\* Backups: next to an edit, with a crash and a fault, and in a rollout.
BackingUp ==
  {Load([boots |-> 1, edits |-> 1, backups |-> 1, faults |-> 1],
        Plain, Rows(r, None), 0) : r \in {SafeRow, LowRow}}
  \cup
  {Load([boots |-> 2, backups |-> 2, crashes |-> 1, faults |-> 1],
        Plain, Rows(SafeRow, None), 0),
   Load([boots |-> 2, backups |-> 2],
        Flags({p1, p2}, TRUE, FALSE, FALSE), Rows(SafeRow, None), 0)}

\* A rollout of this release over an older one, over rows that do and do not allow
\* the index, and over a cron expression that does not parse.
RollingOut ==
  {Load([boots |-> 3, restores |-> 2, crashes |-> 1, faults |-> 1],
        Flags({p1, p2}, a, s, FALSE), Rows(None, None), n) :
     a, s \in BOOLEAN, n \in {0, 2}}
  \cup
  {Load([boots |-> 2], Plain, Rows(BadCronRow, None), 0)}

\* Requests while auth rotates its keys.
Verifying ==
  {Load([boots |-> 1, tokens |-> 3, publishes |-> 2], Plain, Rows(None, None), 0),
   Load([boots |-> 2, tokens |-> 2, publishes |-> 1, crashes |-> 1],
        Plain, Rows(None, None), 0)}

\* The jobs page: its buttons and its form next to another edit, a backup by the
\* button of a row, and a process that comes and goes.
Watched(flags) == [flags EXCEPT !.watched = TRUE]
Watching ==
  {Load([boots |-> 1, edits |-> 1, faults |-> 1], Watched(Plain), Rows(None, SafeRow), 0),
   Load([boots |-> 1, backups |-> 1], Watched(Plain), Rows(SafeRow, None), 0),
   Load([boots |-> 2, crashes |-> 1], Watched(Bootstrapped({p1})), Rows(None, None), 0)}

MCLoads ==
  Editing \cup Bootstrapping \cup BackingUp \cup RollingOut \cup Verifying \cup Watching

\* An owner disables the job of a cron.
MCDisabling == {Load([boots |-> 1, edits |-> 1, backups |-> 1],
                     Plain, Rows(SafeRow, None), 0)}
=============================================================================
