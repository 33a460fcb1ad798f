---------------------------- MODULE HistoryCache ----------------------------
(* The cache of market data for one id of one dataset (lib/data.py): the     *)
(* directory with one file per month, the single file with the range of      *)
(* months it claims, and the migration of the first to the second.  Several  *)
(* processes (ticks, backtests, reports) read, extend and save it without a  *)
(* lock; each write replaces a file in one step.                             *)
(*                                                                           *)
(* Time is a number of half months.  A half is one bar: daily data has it    *)
(* from its first instant, minute data when it is over.                      *)
EXTENDS Integers, FiniteSets, FiniteSetsExt

CONSTANTS
  Callers,       \* processes
  LastHalf,      \* bound on the clock
  MaxCalls,      \* bound on the calls for history
  CacheFaults    \* subset of {"unreadable", "killed"}

ASSUME CacheAssumption ==
  /\ LastHalf \in Nat \ {0} /\ MaxCalls \in Nat
  /\ CacheFaults \subseteq {"unreadable", "killed"}

Halves     == 1 .. LastHalf
Month(h)   == (h + 1) \div 2
FirstOf(m) == 2 * m - 1
OfMonth(m) == {2 * m - 1, 2 * m}
Months     == 1 .. Month(LastHalf)

VARIABLES
  daily,     \* a dataset of _SINGLE_FILE_PREFIXES, or minute data
  single,    \* the installed lib keeps it in one file
  half,      \* the current half month
  since,     \* the half in which the source's history begins
  whole,     \* the single file: rows, first and last month claimed, tail_fetched_at
  parts,     \* the directory: for each month its rows and its mtime
  task,      \* what each caller is at
  calls,     \* calls so far
  seams      \* ghost: months frozen by one of the ways the code has

cacheVars == <<daily, single, half, since, whole, parts, task, calls, seams>>
fixed     == <<daily, single, half, since>>

NoFile  == [rows |-> {}, from |-> 0, to |-> 0, tail |-> 0]
NoPart  == [rows |-> {}, mtime |-> 0]
NoDir   == [m \in Months |-> NoPart]
Resting == [at |-> "none", back |-> "none", batch |-> FALSE, cold |-> FALSE, start |-> 0, end |-> 0, t |-> 0,
            todo |-> {}, seen |-> NoFile, got |-> NoFile, dir |-> NoDir]

\* What earlier calls have left of month m: nothing, its bars up to p, or an empty
\* marker once it was over.
LeftOf(m) == {NoPart} \cup
  {f \in {[rows |-> {h \in OfMonth(m) : since <= h /\ (IF daily THEN h <= p ELSE h < p)}, mtime |-> p] :
            p \in {q \in FirstOf(m) .. FirstOf(m + 1) : q <= half}} :
     f.rows = {} => f.mtime > 2 * m}

CacheInit ==
  /\ daily \in BOOLEAN /\ single \in BOOLEAN /\ (single => daily)
  /\ half \in Halves /\ since \in {1, 3} \cap Halves
  /\ parts \in {d \in [Months -> UNION {LeftOf(m) : m \in Months}] : \A m \in Months : d[m] \in LeftOf(m)}
  /\ whole = NoFile
  /\ IF parts = NoDir THEN half = 1 /\ calls = 0 ELSE calls = 1
  /\ task = [c \in Callers |-> Resting] /\ seams = {}

\* A call takes minutes, so it sees at most one new half begin.
NextHalf ==
  /\ half < LastHalf /\ half' = half + 1
  /\ \A c \in Callers : task[c].at # "none" => task[c].t = half
  /\ UNCHANGED <<daily, single, since, whole, parts, task, calls, seams>>

\* The release that moved daily datasets to one file is installed.
Upgrade ==
  /\ daily /\ ~single /\ single' = TRUE
  /\ \A c \in Callers : task[c].at = "none"
  /\ UNCHANGED <<daily, half, since, whole, parts, task, calls, seams>>

-----------------------------------------------------------------------------
(* What is asked, and what the source answers.                               *)

\* The bars of s .. e - 1 the source has by now.
Bars(s, e) == {h \in s .. e - 1 : since <= h /\ (IF daily THEN h <= half ELSE h < half)}

Cached == whole # NoFile \/ \E m \in Months : parts[m] # NoPart

Go(c, at)   == task' = [task EXCEPT ![c].at = at]
Rest(c)     == task' = [task EXCEPT ![c] = Resting]
\* A failed id of a batch goes to phase 2; a single fetch raises.
GiveUp(c)   == IF task[c].batch THEN Go(c, "batch") ELSE Rest(c)

EndOf(c, t) == IF task[c].end = 0 THEN t ELSE task[c].end
Upper(c)    == IF Month(EndOf(c, task[c].t)) >= Month(task[c].t) THEN task[c].t + 1
               ELSE FirstOf(Month(EndOf(c, task[c].t)) + 1)

\* end = 0 leaves the end to the library.
Call(c) ==
  /\ task[c].at = "none" /\ calls < MaxCalls /\ calls' = calls + 1
  /\ \E batch \in BOOLEAN, s \in 1 .. half, e \in {0} \cup 1 .. half :
       /\ e # 0 => s <= e
       /\ task' = [task EXCEPT ![c] = [Resting EXCEPT !.batch = batch, !.start = s, !.end = e,
                     !.t = half,
                     !.at = IF batch /\ ~Cached THEN "batch" ELSE IF single THEN "read" ELSE "plan"]]
  /\ UNCHANGED <<fixed, whole, parts, seams>>

-----------------------------------------------------------------------------
(* One file per month: _extend_cache_monthly.                                *)

Asked(c, t) == Month(task[c].start) .. Month(EndOf(c, t))

\* Absent, or last written before the month was over.
Unfinished(m) == Month(parts[m].mtime) <= m

NeedsFetch(c) == {m \in Asked(c, task[c].t) : m < Month(task[c].t) /\ Unfinished(m)}

Plan(c) ==
  /\ task[c].at = "plan"
  /\ task' = [task EXCEPT ![c].at = "fill", ![c].todo = NeedsFetch(c)]
  /\ UNCHANGED <<fixed, whole, parts, calls, seams>>

\* A past month is fetched whole and merged with the rows it has.
FillMonth(c) ==
  /\ task[c].at = "fill" /\ task[c].todo # {}
  /\ LET m == Min(task[c].todo) IN
       /\ parts' = [parts EXCEPT ![m] = [rows |-> @.rows \cup Bars(FirstOf(m), FirstOf(m + 1)),
                                        mtime |-> half]]
       /\ task' = [task EXCEPT ![c].todo = @ \ {m}]
       /\ seams' = seams \ {m}
  /\ UNCHANGED <<fixed, whole, calls>>

\* The current month: its rows and what followed its last bar.
Peek(c) ==
  LET m == Month(task[c].t)
      rows == parts[m].rows
      delta == Bars(IF rows = {} THEN FirstOf(m) ELSE Max(rows), task[c].t + 1) IN
  /\ task[c].at = "fill" /\ task[c].todo = {}
  /\ IF m \in Asked(c, task[c].t) /\ delta # {}
     THEN task' = [task EXCEPT ![c].at = "keep", ![c].got.rows = rows \cup delta]
     ELSE Rest(c)
  /\ UNCHANGED <<fixed, whole, parts, calls, seams>>

\* The month may have ended between the fetch and the write.
RolledOver(c) == Month(half) > Month(task[c].t)

KeepMonth(c) ==
  LET m == Month(task[c].t) IN
  /\ task[c].at = "keep"
  /\ parts' = [parts EXCEPT ![m] = [rows |-> task[c].got.rows, mtime |-> half]]
  /\ seams' = IF RolledOver(c) THEN seams \cup {m} ELSE seams
  /\ Rest(c)
  /\ UNCHANGED <<fixed, whole, calls>>

MonthFetchFails(c) ==
  /\ task[c].at = "fill" /\ GiveUp(c)
  /\ UNCHANGED <<fixed, whole, parts, calls, seams>>

-----------------------------------------------------------------------------
(* Phase 2 of a batch: the whole range for an id that has no cache, or whose *)
(* extension failed.                                                         *)

BatchFetch(c) ==
  LET s == IF single THEN FirstOf(Month(task[c].start)) ELSE task[c].start IN
  /\ task[c].at = "batch"
  /\ task' = [task EXCEPT ![c].at = "save", ![c].got.rows = Bars(s, EndOf(c, half) + 1)]
  /\ UNCHANGED <<fixed, whole, parts, calls, seams>>

\* BatchIncomplete: nothing of a failed id is cached.
BatchFails(c) ==
  /\ task[c].at = "batch" /\ Rest(c)
  /\ UNCHANGED <<fixed, whole, parts, calls, seams>>

\* Months the range covers in part: it begins inside, or ends inside one that is over.
PartOf(c) == {m \in Asked(c, task[c].t) :
                \/ task[c].start > FirstOf(m)
                \/ m < Month(half) /\ (EndOf(c, task[c].t) < 2 * m \/ m >= Month(task[c].t))}

\* _save_monthly: each month that has rows, merged with its file.
SaveMonths(c) ==
  LET rows == task[c].got.rows
      ms == {Month(h) : h \in rows} IN
  /\ task[c].at = "save" /\ ~single
  /\ parts' = [m \in Months |-> IF m \in ms THEN [rows |-> parts[m].rows \cup (rows \cap OfMonth(m)),
                                                  mtime |-> half]
                                ELSE parts[m]]
  /\ seams' = seams \cup (ms \cap PartOf(c))
  /\ Go(c, "mark")
  /\ UNCHANGED <<fixed, whole, calls>>

\* _mark_empty_months: past months of the range that have no file.
Unfiled(c) == {m \in Asked(c, half) : m < Month(half) /\ parts[m] = NoPart}

MarkEmpty(c) ==
  /\ task[c].at = "mark"
  /\ parts' = [m \in Months |-> IF m \in Unfiled(c) THEN [rows |-> {}, mtime |-> half] ELSE parts[m]]
  /\ seams' = seams \cup (Unfiled(c) \cap PartOf(c))
  /\ Rest(c)
  /\ UNCHANGED <<fixed, whole, calls>>

-----------------------------------------------------------------------------
(* The single file: _read_single and the migration.                          *)

Looks == {"read", "merge", "reread"}

\* Where a caller goes with what it has read.
Then(c, at, f) ==
  IF at = "reread" THEN Resting
  ELSE [task[c] EXCEPT !.at = CASE at = "merge" -> "merging"
                                [] at = "read"  -> IF f = NoFile THEN "cold" ELSE "extend",
          !.back = "none", !.dir = NoDir, !.seen = f]

\* A directory beside the file is thrown away.
ReadSingle(c) ==
  /\ task[c].at \in Looks /\ (whole # NoFile \/ parts = NoDir)
  /\ task' = [task EXCEPT ![c] = Then(c, @.at, whole)]
  /\ parts' = NoDir
  /\ UNCHANGED <<fixed, whole, calls, seams>>

\* The directory is renamed: from here on nobody else sees it.
TakeDir(c) ==
  /\ task[c].at \in Looks /\ whole = NoFile /\ parts # NoDir
  /\ task' = [task EXCEPT ![c].at = "migrate", ![c].back = task[c].at, ![c].dir = parts]
  /\ parts' = NoDir
  /\ UNCHANGED <<fixed, whole, calls, seams>>

\* The first month of the last run of consecutive months.
LastRun(ok) == Min({m \in ok : m .. Max(ok) \subseteq ok})

Consolidated(dir, ok) ==
  [rows |-> UNION {dir[m].rows : m \in ok}, from |-> LastRun(ok), to |-> Max(ok),
   tail |-> dir[Max(ok)].mtime]

\* A file may be unreadable; so is a directory another caller has thrown away.
Readable(c) ==
  LET all == {m \in Months : task[c].dir[m] # NoPart} IN
  IF "unreadable" \in CacheFaults THEN SUBSET all ELSE {all}

Migrate(c) ==
  /\ task[c].at = "migrate"
  /\ \E ok \in Readable(c) :
       LET f == IF ok = {} THEN NoFile ELSE Consolidated(task[c].dir, ok) IN
       /\ whole' = IF ok = {} THEN whole ELSE f
       /\ task' = [task EXCEPT ![c] = Then(c, @.back, f)]
       /\ seams' = IF ok = {} THEN seams
                   ELSE seams \cup {m \in f.from .. f.to - 1 : Month(task[c].dir[m].mtime) <= m}
  /\ UNCHANGED <<fixed, parts, calls>>

\* The write fails: the directory goes back to its place.
MigrateFails(c) ==
  /\ task[c].at = "migrate"
  /\ parts' = task[c].dir
  /\ task' = [task EXCEPT ![c] = IF @.batch /\ (@.back = "read" \/ @.cold)
                 THEN [@ EXCEPT !.at = "batch", !.back = "none", !.cold = FALSE, !.dir = NoDir]
                 ELSE Resting]
  /\ UNCHANGED <<fixed, whole, calls, seams>>

-----------------------------------------------------------------------------
(* The single file: _extend_cache_single and _save_single.                   *)

Open(f) == Month(f.tail) <= f.to

\* Where the next fetch of new bars begins.
NextFetch(f, t) == IF f.to >= Month(t) \/ Open(f) THEN Max({FirstOf(f.to)} \cup f.rows)
                   ELSE FirstOf(f.to + 1)

\* Earlier months in front, new bars behind.
Extend(c) ==
  LET f == task[c].seen  t == task[c].t
      s == Month(task[c].start)  to == Month(EndOf(c, t))
      early == s < f.from
      front == IF early THEN [f EXCEPT !.from = s, !.rows = @ \cup Bars(FirstOf(s), FirstOf(f.from))]
               ELSE f
      begin == NextFetch(front, t)
      later == (f.to >= Month(t) \/ Open(f) \/ to > f.to) /\ begin < Upper(c)
      both == IF later THEN [front EXCEPT !.rows = @ \cup Bars(begin, Upper(c)),
                               !.to = Max({@, to}), !.tail = t]
              ELSE front IN
  /\ task[c].at = "extend"
  /\ IF early \/ later THEN task' = [task EXCEPT ![c].at = "write", ![c].got = both] ELSE Rest(c)
  /\ UNCHANGED <<fixed, whole, parts, calls, seams>>

ColdFetch(c) ==
  LET s == Month(task[c].start)  t == task[c].t IN
  /\ task[c].at = "cold"
  /\ task' = [task EXCEPT ![c].at = "merge", ![c].cold = TRUE,
        ![c].got = [rows |-> Bars(FirstOf(s), Upper(c)), from |-> s, to |-> Month(EndOf(c, t)), tail |-> t]]
  /\ UNCHANGED <<fixed, whole, parts, calls, seams>>

FetchFails(c) ==
  /\ task[c].at \in {"extend", "cold"} /\ GiveUp(c)
  /\ UNCHANGED <<fixed, whole, parts, calls, seams>>

\* The extension replaces the file by what was read and what was fetched.
Write(c) ==
  /\ task[c].at = "write"
  /\ whole' = task[c].got
  /\ Rest(c)
  /\ UNCHANGED <<fixed, parts, calls, seams>>

\* tail_fetched_at of a batch: how far the fetch reached.
Reach(c) == Min({half, EndOf(c, half) + 1})

Save(c) ==
  /\ task[c].at = "save" /\ single
  /\ task' = [task EXCEPT ![c].at = "merge",
        ![c].got = [@ EXCEPT !.from = Month(task[c].start), !.to = Month(EndOf(c, half)), !.tail = Reach(c)]]
  /\ UNCHANGED <<fixed, whole, parts, calls, seams>>

\* _merge_meta: the range that ends first, and the other.
Earlier(f, g) == IF f.to <= g.to THEN f ELSE g
Later(f, g)   == IF f.to <= g.to THEN g ELSE f
Touch(a, b)   == a.to + 1 >= b.from /\ b.to + 1 >= a.from

\* Mutant: the union is claimed whatever lies between.
JoinAny(f, g) ==
  LET a == Earlier(f, g)  b == Later(f, g) IN
  [from |-> Min({a.from, b.from}), to |-> b.to, tail |-> IF a.to = b.to THEN Max({a.tail, b.tail}) ELSE b.tail]

Join(f, g) ==
  LET a == Earlier(f, g)  b == Later(f, g) IN
  IF Touch(a, b)
  THEN [from |-> Min({a.from, b.from}), to |-> b.to,
        tail |-> IF a.to = b.to THEN Max({a.tail, b.tail}) ELSE b.tail]
  ELSE [from |-> b.from, to |-> b.to, tail |-> b.tail]

\* An open tail of one range that the other begins behind.
SewnOver(f, g) ==
  LET a == Earlier(f, g)  b == Later(f, g) IN
  IF a.to + 1 = b.from /\ Open(a) THEN {a.to} ELSE {}

\* _merge_single: nothing fetched never blanks what is there.
MergeSingle(c) ==
  LET f == task[c].seen  g == task[c].got  j == Join(f, g) IN
  /\ task[c].at = "merging"
  /\ IF f = NoFile THEN whole' = g /\ UNCHANGED seams
     ELSE IF g.rows = {} THEN UNCHANGED <<whole, seams>>
     ELSE /\ whole' = [rows |-> f.rows \cup g.rows, from |-> j.from, to |-> j.to, tail |-> j.tail]
          /\ seams' = seams \cup SewnOver(f, g)
  \* The cold path reads back what it wrote.
  /\ IF task[c].cold THEN Go(c, "reread") ELSE Rest(c)
  /\ UNCHANGED <<fixed, parts, calls>>

\* The process is killed; a renamed directory stays where nobody looks.
Killed(c) ==
  /\ "killed" \in CacheFaults /\ task[c].at # "none" /\ Rest(c)
  /\ UNCHANGED <<fixed, whole, parts, calls, seams>>

CacheNext ==
  \/ NextHalf \/ Upgrade
  \/ \E c \in Callers :
       \/ Call(c) \/ Plan(c) \/ FillMonth(c) \/ Peek(c) \/ KeepMonth(c) \/ MonthFetchFails(c)
       \/ BatchFetch(c) \/ BatchFails(c) \/ SaveMonths(c) \/ MarkEmpty(c)
       \/ ReadSingle(c) \/ TakeDir(c) \/ Migrate(c) \/ MigrateFails(c)
       \/ Extend(c) \/ ColdFetch(c) \/ FetchFails(c) \/ Write(c) \/ Save(c)
       \/ MergeSingle(c) \/ Killed(c)

CacheSpec == CacheInit /\ [][CacheNext]_cacheVars

-----------------------------------------------------------------------------

\* Bars nothing will ever fetch again: of the months the file claims, up to where
\* the next fetch begins; of the directory, those of months written after their end.
Final ==
  IF single
  THEN IF whole = NoFile THEN {} ELSE FirstOf(whole.from) .. NextFetch(whole, half) - 1
  ELSE UNION {OfMonth(m) : m \in {n \in Months : n < Month(half) /\ ~Unfinished(n)}}

Held == IF single THEN whole.rows ELSE UNION {parts[m].rows : m \in Months}

Frozen == {h \in Final : since <= h /\ h \notin Held}

\* A hole that is never fetched again lies in a month that was cached in part in one
\* of four ways: saved by a batch that asked for part of it, written after it ended
\* with what was fetched before, migrated behind a later month, or joined at its open
\* tail.  Extension, overlaps, lost races, retries and failed fetches leave none.
HolesOnlyAtSeams == \A h \in Frozen : Month(h) \in seams

\* _merge_meta: a gap was never fetched and must not be claimed.
NoFrozenHole == single => Frozen = {}
=============================================================================
