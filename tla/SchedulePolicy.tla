---------------------------- MODULE SchedulePolicy ----------------------------
(***************************************************************************)
(* resolveSchedulePolicy: the schedule of a job, from the fields a client  *)
(* gave or a row holds, normalised to the one cron expression that is      *)
(* executed.                                                               *)
(*                                                                         *)
(* A cron expression is the sequence of its fields (minute, hour, day of   *)
(* the month, month, day of the week), each a number or the wildcard Star. *)
(***************************************************************************)
EXTENDS Deployment, Sequences

CONSTANTS
  Star,    \* the cron field "*"
  Moments  \* the moments at which a cron and its policy are compared

ASSUME StarAssumption == Star \notin Nat

ASSUME MomentsAssumption == Moments \subseteq [minute : Nat, hour : Nat, day : Nat]

CronFields == Nat \cup {Star}
Crons == [1..5 -> CronFields]

ScheduleFields == {"policy", "cron", "hour", "minute", "day"}

Policies == {"hourly", "daily", "weekly", "custom_cron"}

ASSUME NoneAssumption == None \notin Policies

\* input.field ?? default.
Given(x, default) == IF x = None THEN default ELSE x

PolicyOf(in) ==
  Given(in.policy, IF in.cron = None THEN "daily" ELSE "custom_cron")

MinuteOf(in) == Given(in.minute, 0)
HourOf(in) == Given(in.hour, 2)
DayOf(in) == Given(in.day, 0)

\* MUTANT: an expression that was sent along is stored as it is.
validateCronExpressionSkipped(cron) == TRUE

\* Five fields, each of digits and cron punctuation: a number is not compared
\* with the range of its field.
validateCronExpression(cron) == Len(cron) = 5

\* resolveSchedulePolicy returns, and does not throw.
Resolvable(in) ==
  /\ PolicyOf(in) \in Policies
  /\ MinuteOf(in) \in 0..59
  /\ PolicyOf(in) \in {"daily", "weekly"} => HourOf(in) \in 0..23
  /\ PolicyOf(in) = "weekly" => DayOf(in) \in 0..6
  /\ PolicyOf(in) = "custom_cron" => in.cron # None /\ validateCronExpression(in.cron)

\* MUTANT: an expression that was sent along wins over the policy.
resolveSchedulePolicyCronFirst(in) ==
  LET policy == PolicyOf(in)
  IN  [policy |-> policy,
       cron   |-> IF in.cron # None THEN in.cron
                  ELSE <<MinuteOf(in), HourOf(in), Star, Star, Star>>,
       hour   |-> in.hour,
       minute |-> in.minute,
       day    |-> in.day]

resolveSchedulePolicy(in) ==
  LET policy == PolicyOf(in)
      minute == MinuteOf(in)
      hour == HourOf(in)
      day == DayOf(in)
      Normalized(cron, h, d) ==
        [policy |-> policy, cron |-> cron, hour |-> h, minute |-> minute, day |-> d]
  IN  CASE policy = "hourly" -> Normalized(<<minute, Star, Star, Star, Star>>, None, None)
        [] policy = "daily"  -> Normalized(<<minute, hour, Star, Star, Star>>, hour, None)
        [] policy = "weekly" -> Normalized(<<minute, hour, Star, Star, day>>, hour, day)
        [] OTHER             -> [in EXCEPT !.policy = policy]

----------------------------------------------------------------------------
\* What the cron library makes of an expression: it throws unless every number
\* is in the range of its field.
Parsable(cron) ==
  /\ cron[1] \in 0..59 \cup {Star}
  /\ cron[2] \in 0..23 \cup {Star}
  /\ cron[3] \in 1..31 \cup {Star}
  /\ cron[4] \in 1..12 \cup {Star}
  /\ cron[5] \in 0..7 \cup {Star}

Fires(cron, m) ==
  /\ cron[1] \in {Star, m.minute}
  /\ cron[2] \in {Star, m.hour}
  /\ cron[5] \in {Star, m.day}

\* What the fields of a policy say, without its cron.
Meant(s, m) ==
  /\ m.minute = s.minute
  /\ s.policy \in {"daily", "weekly"} => m.hour = s.hour
  /\ s.policy = "weekly" => m.day = s.day

\* A job runs when its policy says: its cron fires at just those moments.
CronAgrees(s) ==
  s.policy = "custom_cron" \/ \A m \in Moments : Fires(s.cron, m) <=> Meant(s, m)
=============================================================================
