------------------------------- MODULE FeeBasis -------------------------------
(***************************************************************************)
(* reference/fee_schedule.py and db/fee_observations.py: the dated fee     *)
(* basis of one field of one instrument, the observations recorded against *)
(* it, and the fills that make up a month's volume.  A file entry is       *)
(* appended by an operator at any time and need not be in date order.      *)
(* Time is in hours, days and months from the first of a month on, in UTC; *)
(* the venue's calendar is Bangkok's, seven hours ahead.                   *)
(***************************************************************************)
EXTENDS Integers, Sequences, FiniteSets, Vocabulary
LOCAL INSTANCE SequencesExt

CONSTANTS MonthLength,              \* days of each month of the calendar
          Fee,                      \* rates
          Stamp,                    \* UTC hours at which something may happen
          Effective,                \* days on which a rate may take effect
          MaxAge,                   \* max_age_days of every entry
          MaxEntries, MaxObserved   \* bounds

ASSUME FeeAssumption ==
  /\ \A i \in DOMAIN MonthLength : MonthLength[i] \in 28..31
  /\ Fee \subseteq Nat /\ Stamp \subseteq Nat /\ Effective \subseteq Nat

VARIABLES file,      \* the [[...]] blocks in the order they were appended
          observed,  \* rows of execution.fee_observations
          traded     \* exec_ts of the fills of the account
feeVars == <<file, observed, traded>>

FirstOf == [m \in 1..Len(MonthLength) + 1 |->
              FoldLeft(LAMBDA a, b : a + b, 0, SubSeq(MonthLength, 1, m - 1))]
Month == DOMAIN MonthLength
Day == 0..FirstOf[Len(MonthLength) + 1] - 1
UtcDate(ts) == ts \div 24

venue_date(ts) == (ts + 7) \div 24

MonthOf(day) == CHOOSE m \in Month : FirstOf[m] <= day /\ day < FirstOf[m + 1]
venue_fee_month(ts) == FirstOf[MonthOf(venue_date(ts))]

(* Variant: three days after the 28th. *)
next_fee_month_short(fee_month) ==
  LET day == fee_month + 27 + 3 IN IF day \in Day THEN FirstOf[MonthOf(day)] ELSE day + 1

(* The 28th, four days on, and back to the first of that month. *)
next_fee_month(fee_month) ==
  LET day == fee_month + 27 + 4
  IN IF day \in Day THEN FirstOf[MonthOf(day)] ELSE FirstOf[Len(MonthLength) + 1]
-----------------------------------------------------------------------------
(* Variant: a block appended out of order stays where it is. *)
load_fee_schedule_unsorted(blocks) == blocks

(* Sorted by effective_from; Python's sort keeps the file's order of equal dates. *)
load_fee_schedule(blocks) ==
  LET Place(i) == Cardinality({j \in DOMAIN blocks :
                    \/ blocks[j].effective_from < blocks[i].effective_from
                    \/ /\ blocks[j].effective_from = blocks[i].effective_from
                       /\ j <= i})
  IN [n \in DOMAIN blocks |-> blocks[CHOOSE i \in DOMAIN blocks : Place(i) = n]]

is_stale(entry, day) == day - entry.recorded > MaxAge

(* The last applicable entry; NULL: KeyError, or FeeScheduleStale. *)
resolve_on(blocks, day, allow_stale, today) ==
  LET applicable == SelectSeq(load_fee_schedule(blocks),
                              LAMBDA e : e.effective_from <= day)
  IN IF applicable = <<>> THEN NULL
     ELSE IF is_stale(Last(applicable), today) /\ ~allow_stale THEN NULL
     ELSE Last(applicable)

(* resolve with allow_stale, and the one-sided verdict. *)
compare(value, day, today) ==
  LET entry == resolve_on(file, day, TRUE, today)
  IN IF entry = NULL THEN NULL
     ELSE [basis |-> entry.value, verdict |-> IF value > entry.value THEN "above" ELSE "at_or_below"]
-----------------------------------------------------------------------------
FeeInit ==
  /\ \E value \in Fee : file = <<[value |-> value, effective_from |-> 0, recorded |-> 0]>>
  /\ observed = {} /\ traded = {}

(* Checked against the basis of its own venue day, then appended; ~KeyError. *)
record_observation(ts, value) ==
  LET check == compare(value, venue_date(ts), UtcDate(ts))
  IN /\ Cardinality(observed) < MaxObserved
     /\ check # NULL
     /\ observed' = observed \cup
          {[observed_at |-> ts, value |-> value, fee_month |-> venue_fee_month(ts),
            basis |-> check.basis, verdict |-> check.verdict]}
     /\ UNCHANGED <<file, traded>>

(* An operator adopts a rate: render_entry and append_entry. *)
append_entry(value, effective_from, ts) ==
  /\ Len(file) < MaxEntries
  /\ file' = Append(file, [value |-> value, effective_from |-> effective_from,
                           recorded |-> UtcDate(ts)])
  /\ UNCHANGED <<observed, traded>>

trading(ts) ==
  /\ traded = {}
  /\ traded' = {ts}
  /\ UNCHANGED <<file, observed>>

fetch_observations(fee_month) == {r \in observed : r.fee_month = fee_month}

(* _SUM_FILLED_QTY: (exec_ts AT TIME ZONE 'Asia/Bangkok')::date in the month. *)
month_to_date_contracts(fee_month) ==
  {ts \in traded : venue_date(ts) >= fee_month /\ venue_date(ts) < next_fee_month(fee_month)}

FeeNext ==
  \E ts \in Stamp :
    \/ trading(ts)
    \/ \E value \in Fee :
         record_observation(ts, value) \/ \E day \in Effective : append_entry(value, day, ts)
FeeSpec == FeeInit /\ [][FeeNext]_feeVars
-----------------------------------------------------------------------------
(* Whatever is adopted, an observation above every rate of the file is        *)
(* flagged as above its basis, however old that basis is, and one at or below *)
(* every rate is not (compare: a stale basis must not "disable the alarm      *)
(* precisely when it matters most").                                          *)
UnderstatedIsFlagged ==
  \A ts \in Stamp, value \in Fee :
    LET check == compare(value, venue_date(ts), UtcDate(ts))
    IN /\ check # NULL
       /\ (\A i \in DOMAIN file : value > file[i].value) => check.verdict = "above"
       /\ (\A i \in DOMAIN file : value <= file[i].value) => check.verdict = "at_or_below"

(* The basis of a day is right, and observations are judged by it: an adopted *)
(* rate changes no basis of a day before it takes effect, and from that day   *)
(* to the next dated entry it is the basis, wherever it stands in the file    *)
(* (fee_schedule.py, load_fee_schedule: "a block appended out of order still  *)
(* resolves correctly"); what exceeds it is flagged.                          *)
PastBasisStands ==
  /\ []UnderstatedIsFlagged
  /\ [][Len(file') > Len(file) =>
          LET new == Last(file')
          IN \A day \in Effective \cup {venue_date(ts) : ts \in Stamp} :
               resolve_on(file', day, TRUE, day) =
                 IF /\ new.effective_from <= day
                    /\ \A i \in DOMAIN file : file[i].effective_from <= day =>
                                                file[i].effective_from <= new.effective_from
                 THEN new ELSE resolve_on(file, day, TRUE, day)]_feeVars

(* An observation and a fill of one instant count in the same month: the      *)
(* month a row is filed under is the one whose volume its fill adds to, and   *)
(* no other (db/fee_observations.py, month_to_date_contracts).                *)
MonthsAgree ==
  \A r \in observed, ts \in traded : r.observed_at = ts =>
    \A m \in Month :
      r \in fetch_observations(FirstOf[m]) <=> ts \in month_to_date_contracts(FirstOf[m])
=============================================================================
