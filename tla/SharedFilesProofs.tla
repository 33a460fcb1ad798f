------------------------- MODULE SharedFilesProofs -------------------------
(* Proofs about what several processes do through files they share: the cache   *)
(* of market data (HistoryCache) and the desk of the futures broker (BrokerDesk). *)
(* What the cache will never fetch again is there, but for the months that were  *)
(* cached in part in one of the ways get_data has; nothing is assumed of the     *)
(* faults.  For any number of senders, and whatever the margins and the length   *)
(* of a login: an order that leaves within ORDER_SETTLE_S of its claim was       *)
(* decided on a read that shows every earlier one of its contract that did so    *)
(* too; and as long as all leave so, the bot holds one contract month, and       *)
(* closes only what is its own.                                                  *)
EXTENDS HistoryCache, BrokerDesk, WellFoundedInduction, TLAPS

-----------------------------------------------------------------------------
(* The cache.                                                                  *)

(* The inductive invariant.  Its predicates are of one file, one directory, one*)
(* caller, with o the half in which the source begins, n the current half and w*)
(* the seams.                                                                *)

\* The rows of month m: complete up to the last of them; complete.
UpTo(m, rows, o)   == \A h \in OfMonth(m), r \in rows : o <= h /\ h <= r /\ r \in OfMonth(m) => h \in rows
Filled(m, rows, o) == \A h \in OfMonth(m) : o <= h => h \in rows

\* A month that is no seam has no hole before its last row, and none at all once it
\* was written after its end.
DirOK(d, o, n, w) ==
  \A m \in Months :
    /\ d[m].rows \subseteq OfMonth(m)
    /\ d[m] # NoPart => m <= Month(n)
    /\ m \in w \/ (UpTo(m, d[m].rows, o) /\ (Month(d[m].mtime) > m => Filled(m, d[m].rows, o)))

\* What a file claims for good: the months before its last one, and of that one
\* what precedes a row, or all of it once it was fetched after its end.
Claims(f, h) ==
  /\ f.from <= Month(h)
  /\ Month(h) < f.to \/ (Month(h) = f.to /\ (~Open(f) \/ \E r \in f.rows : h <= r))

FileOK(f, o, n, w) ==
  f # NoFile =>
    /\ 1 <= f.from /\ f.from <= f.to /\ f.to <= Month(n)
    /\ \A r \in f.rows : r <= 2 * f.to
    /\ \A h \in Nat : o <= h /\ Claims(f, h) /\ Month(h) \notin w => h \in f.rows

\* A call lasts less than two half months, and asks for what is over or running.
Sound(x, n) ==
  /\ x.t <= n /\ n <= x.t + 1
  /\ 1 <= x.start /\ x.start <= x.t
  /\ x.end <= x.t /\ (x.end # 0 => x.start <= x.end)

\* What a batch has fetched at half p; y: daily data, g: one file.
Answered(x, p, o, y, g) ==
  LET s == IF g THEN FirstOf(Month(x.start)) ELSE x.start
      e == IF x.end = 0 THEN p ELSE x.end IN
  {h \in s .. e : o <= h /\ (IF y THEN h <= p ELSE h < p)}

Monthly == {"plan", "fill", "keep", "mark"}
OneFile == {"read", "merge", "reread", "migrate", "merging", "extend", "cold", "write"}

\* A caller that has fetched rows for the file, and not yet merged or written them.
Carries(x) == x.at \in {"write", "merge", "merging"} \/ (x.at = "migrate" /\ x.back = "merge")

CallerOK(x, o, n, w, y, g, p) ==
  /\ x.at \notin (IF g THEN Monthly ELSE OneFile)
  /\ x.at # "none" => Sound(x, n)
  /\ x.at = "fill" => \A m \in x.todo : m < Month(x.t)
  /\ x.at = "keep" => /\ x.got.rows \subseteq OfMonth(Month(x.t))
                      /\ \/ Month(x.t) \in w \/ Month(x.t) < Month(n)
                         \/ UpTo(Month(x.t), x.got.rows, o)
  /\ x.at \in {"save", "mark"} => \E q \in x.t .. n : x.got.rows = Answered(x, q, o, y, g)
  /\ x.at = "mark" => \A h \in x.got.rows : p[Month(h)] # NoPart
  /\ x.at = "migrate" => x.back \in Looks /\ DirOK(x.dir, o, n, w)
  /\ x.at = "extend" => x.seen # NoFile
  /\ x.at \in {"extend", "merging"} => FileOK(x.seen, o, n, w)
  /\ Carries(x) => FileOK(x.got, o, n, w)

File  == [rows : SUBSET Halves, from : Nat, to : Nat, tail : Nat]
Part  == [rows : SUBSET Halves, mtime : Nat]
Dirs  == [Months -> Part]
Tasks == [at : {"none", "batch", "save"} \cup Monthly \cup OneFile, back : {"none"} \cup Looks,
          batch : BOOLEAN, cold : BOOLEAN, start : Nat, end : Nat, t : Nat,
          todo : SUBSET Months, seen : File, got : File, dir : Dirs]

CacheTypes ==
  /\ daily \in BOOLEAN /\ single \in BOOLEAN
  /\ half \in Halves /\ since \in Nat \ {0}
  /\ whole \in File /\ parts \in Dirs
  /\ task \in [Callers -> Tasks]

\* A hole in what is final is a seam, in the file, in the directory, and in all that
\* a caller has in hand and may still write over them.
CacheIInv ==
  /\ CacheTypes
  /\ (single => daily) /\ (~single => whole = NoFile)
  /\ DirOK(parts, since, half, seams)
  /\ FileOK(whole, since, half, seams)
  /\ \A c \in Callers : CallerOK(task[c], since, half, seams, daily, single, parts)

-----------------------------------------------------------------------------
(* What the operators compute.                                               *)

\* The two halves of a month.
LEMMA MonthIs ==
  ASSUME NEW h \in Int
  PROVE  Month(h) \in Int /\ 2 * Month(h) - 1 <= h /\ h <= 2 * Month(h) /\ h \in OfMonth(Month(h))
<1> DEFINE m == Month(h)
<1>1. m \in Int /\ 2 * m - 1 <= h /\ h <= 2 * m
  BY DEF Month
<1>2. h = 2 * m - 1 \/ h = 2 * m
  <2> HIDE DEF m
  <2> QED
    BY <1>1
<1> QED
  BY <1>1, <1>2 DEF OfMonth

LEMMA OfMonthIs ==
  ASSUME NEW m \in Int, NEW h \in OfMonth(m)
  PROVE  h \in Int /\ 2 * m - 1 <= h /\ h <= 2 * m /\ Month(h) = m
<1>1. h = 2 * m - 1 \/ h = 2 * m
  BY DEF OfMonth
<1> QED
  BY <1>1 DEF Month

LEMMA MonthsGrow ==
  ASSUME NEW a \in Int, NEW b \in Int, a <= b
  PROVE  Month(a) <= Month(b)
  BY DEF Month

LEMMA HalfTypes ==
  /\ LastHalf \in Nat \ {0}
  /\ Month(LastHalf) \in Nat \ {0}
  /\ \A h \in Halves : h \in Nat /\ 1 <= h /\ h <= LastHalf
  /\ \A m \in Months : m \in Nat /\ 1 <= m
  /\ \A h \in Halves : Month(h) \in Months
<1>1. LastHalf \in Nat \ {0}
  BY CacheAssumption
<1>2. \A h \in Halves : h \in Nat /\ 1 <= h /\ h <= LastHalf
  BY <1>1 DEF Halves
<1>3. Month(LastHalf) \in Nat \ {0}
  BY <1>1, MonthIs
<1>4. ASSUME NEW h \in Halves PROVE Month(h) \in Months
  <2>1. h \in Int /\ LastHalf \in Int /\ 1 <= h /\ h <= LastHalf
    BY <1>1, <1>2
  <2>2. Month(h) \in Int /\ 1 <= Month(h) /\ Month(h) <= Month(LastHalf)
    BY <2>1 DEF Month
  <2> QED
    BY <1>3, <2>2 DEF Months
<1> QED
  BY <1>1, <1>2, <1>3, <1>4 DEF Months

\* Some halves, or months, have a first and a last one.
LEMMA MinIs ==
  ASSUME NEW T \in SUBSET Nat, T # {}
  PROVE  Min(T) \in T /\ \A k \in T : Min(T) <= k
<1>1. PICK m \in T : \A k \in T : ~ (<<k, m>> \in OpToRel(<, Nat))
  BY NatLessThanWellFounded, WFMin
<1>2. \A k \in T : ~ (k < m)
  BY <1>1 DEF OpToRel
<1>3. \A k \in T : m <= k
  BY <1>2
<1> QED
  BY <1>3 DEF Min

LEMMA MaxIs ==
  ASSUME NEW n \in Nat, NEW S, S \subseteq 0 .. n, S # {}
  PROVE  Max(S) \in S /\ \A k \in S : k <= Max(S)
<1> DEFINE T == {n - k : k \in S}
<1>1. T \in SUBSET Nat /\ T # {}
  <2>1. \A k \in S : n - k \in Nat
    OBVIOUS
  <2> QED
    BY <2>1
<1>2. PICK m \in T : \A k \in T : m <= k
  <2> HIDE DEF T
  <2> QED
    BY <1>1, MinIs
<1>3. PICK x \in S : m = n - x
  BY <1>2
<1>4. \A k \in S : k <= x
  <2> SUFFICES ASSUME NEW k \in S PROVE k <= x
    OBVIOUS
  <2>1. m <= n - k
    BY <1>2
  <2> QED
    BY <1>3, <2>1
<1> QED
  BY <1>4 DEF Max

\* Time and seams only add to what may be missing.
LEMMA FileLater ==
  ASSUME NEW f \in File, NEW o \in Nat, NEW n \in Nat, NEW n2 \in Nat, n <= n2, NEW w, NEW w2,
         w \subseteq w2, FileOK(f, o, n, w)
  PROVE  FileOK(f, o, n2, w2)
<1> SUFFICES ASSUME f # NoFile PROVE f.to <= Month(n2)
  BY DEF FileOK
<1>1. f.to <= Month(n) /\ f.to \in Nat
  BY DEF FileOK, File
<1> QED
  BY <1>1 DEF Month

LEMMA DirLater ==
  ASSUME NEW d \in Dirs, NEW o \in Nat, NEW n \in Nat, NEW n2 \in Nat, n <= n2, NEW w, NEW w2,
         w \subseteq w2, DirOK(d, o, n, w)
  PROVE  DirOK(d, o, n2, w2)
<1>1. \A m \in Months : m <= Month(n) => m <= Month(n2)
  BY HalfTypes, MonthIs, MonthsGrow
<1> QED
  BY <1>1 DEF DirOK

LEMMA EmptyDirOK ==
  ASSUME NEW o, NEW n, NEW w
  PROVE  DirOK(NoDir, o, n, w) /\ NoDir \in Dirs /\ NoFile \in File /\ FileOK(NoFile, o, n, w)
<1>1. \A m \in Months : NoDir[m] = NoPart /\ NoPart.rows = {} /\ NoPart.mtime = 0
  BY DEF NoDir, NoPart
<1>2. Month(0) = 0
  BY MonthIs
<1>3. \A m \in Months : ~(Month(0) > m)
  BY <1>2, HalfTypes
<1> QED
  BY <1>1, <1>3 DEF DirOK, UpTo, NoDir, Dirs, Part, NoPart, NoFile, File, FileOK

\* The migration: the months of the last run, and of the ones before it the rows.
LEMMA Consolidates ==
  ASSUME NEW d \in Dirs, NEW o \in Nat, NEW n \in Nat, NEW w, NEW w2, DirOK(d, o, n, w),
         NEW ok \in SUBSET {m \in Months : d[m] # NoPart}, ok # {},
         w2 = w \cup {m \in Consolidated(d, ok).from .. Consolidated(d, ok).to - 1 :
                        Month(d[m].mtime) <= m}
  PROVE  Consolidated(d, ok) \in File /\ FileOK(Consolidated(d, ok), o, n, w2)
<1> DEFINE f == Consolidated(d, ok)
           to == Max(ok)
           R  == {m \in ok : m .. to \subseteq ok}
<1>1. ok \subseteq 0 .. Month(LastHalf) /\ ok \subseteq Months
  BY HalfTypes DEF Months
<1>2. to \in ok /\ \A m \in ok : m <= to
  BY <1>1, HalfTypes, MaxIs
<1>3. to \in Nat /\ 1 <= to /\ to \in Months
  BY <1>1, <1>2, HalfTypes
<1>4. R \in SUBSET Nat /\ to \in R
  <2> HIDE DEF to
  <2>1. \A m \in to .. to : m = to
    BY <1>3
  <2>2. ok \subseteq Nat
    BY <1>1, HalfTypes
  <2> QED
    BY <1>2, <2>1, <2>2
<1>5. Min(R) \in R
  BY <1>4, MinIs
<1>6. /\ f.from = Min(R) /\ f.to = to /\ f.tail = d[to].mtime
      /\ f.rows = UNION {d[m].rows : m \in ok}
      /\ f = [rows |-> UNION {d[m].rows : m \in ok}, from |-> Min(R), to |-> to,
              tail |-> d[to].mtime]
  BY DEF Consolidated, LastRun
<1>7. f.from \in ok /\ f.from .. to \subseteq ok
  BY <1>5, <1>6
<1>8. f.from \in Nat /\ 1 <= f.from /\ f.from <= to
  BY <1>1, <1>2, <1>7, HalfTypes
<1>9. \A m \in Months : d[m].rows \subseteq Halves /\ d[m].mtime \in Nat
  BY DEF Dirs, Part
<1>10. f \in File
  <2>1. f.rows \subseteq Halves
    BY <1>1, <1>6, <1>9
  <2> QED
    BY <1>3, <1>6, <1>8, <1>9, <2>1 DEF File
<1> HIDE DEF f, to, R
<1>11. to <= Month(n)
  BY <1>2, <1>3 DEF DirOK
<1>12. \A r \in f.rows : \E m \in ok : r \in d[m].rows /\ r \in OfMonth(m) /\ Month(r) = m /\ m <= to
  <2> SUFFICES ASSUME NEW m \in ok, NEW r \in d[m].rows
               PROVE  r \in OfMonth(m) /\ Month(r) = m /\ m <= to
    BY <1>6
  <2>1. r \in OfMonth(m) /\ m \in Nat /\ m <= to
    BY <1>1, <1>2, HalfTypes DEF DirOK
  <2> QED
    BY <2>1, OfMonthIs
<1>13. \A r \in f.rows : r <= 2 * f.to
  <2> SUFFICES ASSUME NEW r \in f.rows PROVE r <= 2 * to
    BY <1>6
  <2>1. r \in Halves /\ Month(r) <= to
    BY <1>10, <1>12 DEF File
  <2> QED
    BY <1>3, <2>1, MonthIs, HalfTypes
<1>14. ASSUME NEW h \in Nat, o <= h, Claims(f, h), Month(h) \notin w2
       PROVE  h \in f.rows
  <2> DEFINE m == Month(h)
             k == Month(d[m].mtime)
  <2>0. h \in Int
    OBVIOUS
  <2>1. /\ m \in Int /\ h \in OfMonth(m) /\ f.from <= m /\ m \notin w2
        /\ m < to \/ (m = to /\ (~Open(f) \/ \E r \in f.rows : h <= r))
    <3>1. m \in Int /\ h \in OfMonth(m)
      BY <2>0, MonthIs, Zenon
    <3> QED
      BY <1>6, <1>14, <3>1 DEF Claims
  <2> HIDE DEF m
  <2>2. m \in ok /\ m \in Months /\ m \notin w
    <3>1. m \in f.from .. to
      BY <1>3, <1>8, <2>1
    <3>2. w \subseteq w2
      OBVIOUS
    <3> QED
      BY <1>1, <1>7, <2>1, <3>1, <3>2
  <2>3. UpTo(m, d[m].rows, o) /\ (k > m => Filled(m, d[m].rows, o))
    BY <2>2 DEF DirOK
  <2>4. k \in Int
    <3>1. d[m].mtime \in Int
      BY <1>9, <2>2
    <3> QED
      BY <3>1, MonthIs, Zenon
  <2>5. CASE m < to
    <3>1. k > m
      <4>1. w2 = w \cup {j \in f.from .. f.to - 1 : Month(d[j].mtime) <= j}
        BY DEF f
      <4>2. m \in f.from .. f.to - 1
        BY <1>3, <1>6, <1>8, <2>1, <2>5
      <4>3. ~(k <= m)
        BY <2>1, <4>1, <4>2
      <4> HIDE DEF k
      <4> QED
        BY <2>1, <2>4, <4>3
    <3>2. h \in d[m].rows
      BY <1>14, <2>1, <2>3, <3>1 DEF Filled
    <3> QED
      BY <1>6, <2>2, <3>2
  <2>6. CASE m = to
    <3>1. CASE ~Open(f)
      <4>1. k > m
        <5>1. ~(k <= m)
          BY <1>6, <2>6, <3>1 DEF Open
        <5> HIDE DEF k
        <5> QED
          BY <2>1, <2>4, <5>1
      <4>2. h \in d[m].rows
        BY <1>14, <2>1, <2>3, <4>1 DEF Filled
      <4> QED
        BY <1>6, <2>2, <4>2
    <3>2. CASE \E r \in f.rows : h <= r
      <4>1. PICK r \in f.rows : h <= r
        BY <3>2
      <4>2. PICK j \in ok : r \in d[j].rows /\ r \in OfMonth(j) /\ Month(r) = j /\ j <= to
        BY <1>12
      <4>3. r \in Int /\ r <= 2 * j /\ j \in Int
        BY <1>1, <4>2, OfMonthIs, HalfTypes
      <4>4. j = m
        <5>1. 2 * m - 1 <= h
          BY <2>1, OfMonthIs
        <5> QED
          BY <1>3, <2>0, <2>1, <2>6, <4>1, <4>2, <4>3, <5>1
      <4>5. h \in d[m].rows
        BY <1>14, <2>1, <2>3, <4>1, <4>2, <4>4 DEF UpTo
      <4> QED
        BY <1>6, <2>2, <4>5
    <3> QED
      BY <1>3, <2>1, <2>6, <3>1, <3>2
  <2> QED
    BY <2>1, <2>5, <2>6
<1>15. FileOK(f, o, n, w2)
  BY <1>6, <1>8, <1>11, <1>13, <1>14 DEF FileOK
<1> QED
  BY <1>10, <1>15 DEF f

\* Two ranges: the union where they touch, or the one that ends later; where an open
\* tail is sewn over, its month is a seam.
LEMMA Joined ==
  ASSUME NEW f \in File, NEW g \in File, f # NoFile, g # NoFile, NEW o \in Nat, NEW n \in Nat,
         NEW w, FileOK(f, o, n, w), FileOK(g, o, n, w),
         NEW x, x = [rows |-> f.rows \cup g.rows, from |-> Join(f, g).from, to |-> Join(f, g).to,
                     tail |-> Join(f, g).tail]
  PROVE  x \in File /\ FileOK(x, o, n, w \cup SewnOver(f, g))
<1> DEFINE a == Earlier(f, g)
           b == Later(f, g)
<1>1. /\ a \in File /\ b \in File /\ a # NoFile /\ b # NoFile /\ a.to <= b.to
      /\ f.rows \cup g.rows = a.rows \cup b.rows
      /\ FileOK(a, o, n, w) /\ FileOK(b, o, n, w)
  <2>1. f.to \in Nat /\ g.to \in Nat
    BY DEF File
  <2> QED
    BY <2>1 DEF Earlier, Later
<1>2. /\ x.rows = a.rows \cup b.rows /\ x.to = b.to
      /\ x = [rows |-> a.rows \cup b.rows, from |-> x.from, to |-> b.to, tail |-> x.tail]
      /\ Touch(a, b) => /\ x.from = Min({a.from, b.from})
                        /\ x.tail = IF a.to = b.to THEN Max({a.tail, b.tail}) ELSE b.tail
      /\ ~Touch(a, b) => x.from = b.from /\ x.tail = b.tail
      /\ SewnOver(f, g) = IF a.to + 1 = b.from /\ Open(a) THEN {a.to} ELSE {}
  BY <1>1 DEF Join, SewnOver
<1> HIDE DEF a, b
<1>3. /\ a.from \in Nat /\ a.to \in Nat /\ a.tail \in Nat /\ a.rows \subseteq Halves
      /\ b.from \in Nat /\ b.to \in Nat /\ b.tail \in Nat /\ b.rows \subseteq Halves
  BY <1>1 DEF File
<1>4. /\ 1 <= a.from /\ a.from <= a.to /\ 1 <= b.from /\ b.from <= b.to /\ b.to <= Month(n)
      /\ \A r \in a.rows : r <= 2 * a.to
      /\ \A r \in b.rows : r <= 2 * b.to
  BY <1>1 DEF FileOK
<1>5. /\ Min({a.from, b.from}) \in {a.from, b.from}
      /\ Min({a.from, b.from}) <= a.from /\ Min({a.from, b.from}) <= b.from
  <2> DEFINE S == {a.from, b.from}
  <2>1. S \in SUBSET Nat /\ S # {}
    BY <1>3
  <2> HIDE DEF S
  <2>2. Min(S) \in S /\ \A k \in S : Min(S) <= k
    BY <2>1, MinIs
  <2> QED
    BY <2>2 DEF S
<1>6. Max({a.tail, b.tail}) \in {a.tail, b.tail}
  <2> DEFINE S == {a.tail, b.tail}
  <2>1. S \subseteq 0 .. (a.tail + b.tail) /\ S # {} /\ a.tail + b.tail \in Nat
    BY <1>3
  <2> HIDE DEF S
  <2>2. Max(S) \in S
    BY <2>1, MaxIs
  <2> QED
    BY <2>2 DEF S
<1>7. x.from \in Nat /\ x.tail \in Nat /\ 1 <= x.from /\ x.from <= x.to
  BY <1>2, <1>3, <1>4, <1>5, <1>6
<1>8. x \in File
  BY <1>2, <1>3, <1>7 DEF File
<1>9. \A r \in x.rows : r <= 2 * x.to
  BY <1>1, <1>2, <1>3, <1>4, HalfTypes
<1>10. ASSUME NEW h \in Nat, o <= h, Claims(x, h), Month(h) \notin w \cup SewnOver(f, g)
       PROVE  h \in x.rows
  <2> DEFINE m == Month(h)
  <2>0. h \in Int
    OBVIOUS
  <2>1. m \in Int /\ 2 * m - 1 <= h /\ h <= 2 * m
    BY <2>0, MonthIs, Zenon
  <2>2. x.from <= m /\ m <= b.to /\ m \notin w
    BY <1>2, <1>3, <1>10, <2>1 DEF Claims
  <2>3. Claims(a, h) => h \in a.rows
    BY <1>1, <1>10, <2>2 DEF FileOK
  <2>4. Claims(b, h) => h \in b.rows
    BY <1>1, <1>10, <2>2 DEF FileOK
  <2>5. CASE b.from <= m /\ m < b.to
    BY <1>2, <2>4, <2>5 DEF Claims
  <2>6. CASE b.from <= m /\ m = b.to
    <3>1. CASE \E r \in x.rows : h <= r
      <4>1. PICK r \in x.rows : h <= r
        BY <3>1
      <4>2. CASE r \in b.rows
        BY <1>2, <2>4, <2>6, <4>1, <4>2 DEF Claims
      <4>3. CASE r \in a.rows
        <5>1. r <= 2 * a.to /\ r \in Nat
          BY <1>3, <1>4, <4>3, HalfTypes
        <5>2. a.to = b.to
          BY <1>1, <1>3, <2>1, <2>6, <4>1, <5>1
        <5>3. Claims(a, h)
          BY <1>3, <1>4, <2>6, <4>1, <4>3, <5>2, <2>2, <2>1 DEF Claims
        <5> QED
          BY <1>2, <2>3, <5>3
      <4> QED
        BY <1>2, <4>2, <4>3
    <3>2. CASE ~Open(x)
      <4>1. CASE Open(b)
        <5>1. a.to = b.to /\ x.tail = a.tail
          BY <1>1, <1>2, <1>3, <1>4, <1>5, <1>6, <3>2, <4>1 DEF Open
        <5>2. ~Open(a)
          BY <1>2, <3>2, <5>1 DEF Open
        <5>3. Claims(a, h)
          BY <1>3, <1>4, <2>6, <5>1, <5>2 DEF Claims
        <5> QED
          BY <1>2, <2>3, <5>3
      <4>2. CASE ~Open(b)
        BY <1>2, <2>4, <2>6, <4>2 DEF Claims
      <4> QED
        BY <4>1, <4>2
    <3> QED
      BY <1>2, <1>3, <1>10, <2>6, <3>1, <3>2 DEF Claims
  <2>7. CASE m < b.from
    <3>1. Touch(a, b) /\ x.from = a.from
      BY <1>2, <1>3, <1>5, <2>1, <2>2, <2>7
    <3>2. a.from <= m /\ m <= a.to
      BY <1>3, <2>1, <2>2, <2>7, <3>1 DEF Touch
    <3>3. CASE m < a.to
      BY <1>2, <2>3, <3>2, <3>3 DEF Claims
    <3>4. CASE m = a.to
      <4>1. a.to + 1 = b.from
        BY <1>3, <2>7, <3>1, <3>4 DEF Touch
      <4>2. ~Open(a)
        BY <1>2, <1>10, <3>4, <4>1
      <4> QED
        BY <1>2, <2>3, <3>2, <3>4, <4>2 DEF Claims
    <3> QED
      BY <1>3, <2>1, <3>2, <3>3, <3>4
  <2> QED
    BY <1>3, <2>1, <2>2, <2>5, <2>6, <2>7
<1> QED
  BY <1>2, <1>4, <1>7, <1>8, <1>9, <1>10 DEF FileOK

-----------------------------------------------------------------------------
(* The steps.                                                                *)

LEMMA RestingOK ==
  ASSUME NEW o, NEW n, NEW w, NEW y, NEW g, NEW p
  PROVE  Resting \in Tasks /\ CallerOK(Resting, o, n, w, y, g, p)
<1>1. Resting \in Tasks
  BY EmptyDirOK DEF Resting, Tasks
<1> QED
  BY <1>1 DEF CallerOK, Resting, Monthly, OneFile, Carries

\* What holds of a caller goes on to hold while time passes, others add seams, and
\* others complete a month that is over.
LEMMA CallerLater ==
  ASSUME NEW x \in Tasks, NEW o \in Nat, NEW n \in Nat, NEW n2 \in Nat,
         n2 = n \/ (n2 = n + 1 /\ (x.at # "none" => x.t = n)),
         NEW w, NEW w2, NEW y, NEW g, NEW p \in Dirs, NEW p2 \in Dirs,
         w \subseteq w2 \/ (~g /\ \A k \in w \ w2 : k < Month(n2)),
         g \/ (\A m \in Months : p[m] # NoPart => p2[m] # NoPart),
         CallerOK(x, o, n, w, y, g, p)
  PROVE  CallerOK(x, o, n2, w2, y, g, p2)
<1>0. n <= n2 /\ x.t \in Nat /\ x.got \in File /\ x.seen \in File /\ x.dir \in Dirs
      /\ x.got.rows \subseteq Halves
  BY DEF Tasks, File
<1>1. x.at \notin (IF g THEN Monthly ELSE OneFile)
  BY DEF CallerOK
<1>2. x.at # "none" => Sound(x, n2)
  BY <1>0 DEF CallerOK, Sound
<1>3. x.at = "fill" => \A m \in x.todo : m < Month(x.t)
  BY DEF CallerOK
<1>4. ASSUME x.at = "keep"
      PROVE  /\ x.got.rows \subseteq OfMonth(Month(x.t))
             /\ \/ Month(x.t) \in w2 \/ Month(x.t) < Month(n2)
                \/ UpTo(Month(x.t), x.got.rows, o)
  <2>1. Month(n) <= Month(n2)
    BY <1>0, MonthIs
  <2>2. x.got.rows \subseteq OfMonth(Month(x.t))
    BY <1>4 DEF CallerOK
  <2>3. Month(x.t) \in w \/ Month(x.t) < Month(n) \/ UpTo(Month(x.t), x.got.rows, o)
    BY <1>4 DEF CallerOK
  <2>4. Month(x.t) < Month(n) => Month(x.t) < Month(n2)
    BY <1>0 DEF Month
  <2>5. Month(x.t) \in w => Month(x.t) \in w2 \/ Month(x.t) < Month(n2)
    OBVIOUS
  <2> QED
    BY <2>2, <2>3, <2>4, <2>5
<1>5. x.at \in {"save", "mark"} => \E q \in x.t .. n2 : x.got.rows = Answered(x, q, o, y, g)
  <2>1. \A q \in x.t .. n : q \in x.t .. n2
    BY <1>0
  <2> QED
    BY <2>1 DEF CallerOK
<1>6. x.at = "mark" => \A h \in x.got.rows : p2[Month(h)] # NoPart
  BY <1>0, <1>1, HalfTypes DEF CallerOK, Monthly
<1>7. x.at = "migrate" => x.back \in Looks /\ DirOK(x.dir, o, n2, w2)
  <2>1. ASSUME x.at = "migrate" PROVE w \subseteq w2 /\ x.back \in Looks /\ DirOK(x.dir, o, n, w)
    BY <1>1, <2>1 DEF OneFile, CallerOK
  <2> QED
    BY <1>0, <2>1, DirLater
<1>8. ASSUME x.at \in OneFile PROVE w \subseteq w2
  BY <1>1, <1>8
<1>9. x.at = "extend" => x.seen # NoFile
  BY DEF CallerOK
<1>10. x.at \in {"extend", "merging"} => FileOK(x.seen, o, n2, w2)
  BY <1>0, <1>8, FileLater DEF CallerOK, OneFile
<1>11. Carries(x) => FileOK(x.got, o, n2, w2)
  <2>1. Carries(x) => x.at \in OneFile
    BY DEF Carries, OneFile
  <2>2. Carries(x) => FileOK(x.got, o, n, w)
    BY DEF CallerOK
  <2> QED
    BY <1>0, <1>8, <2>1, <2>2, FileLater
<1> QED
  BY <1>1, <1>2, <1>3, <1>4, <1>5, <1>6, <1>7, <1>9, <1>10, <1>11 DEF CallerOK

\* A step of one caller, which leaves the files and itself in order.
LEMMA OneMoves ==
  ASSUME CacheIInv, NEW c \in Callers, NEW x \in Tasks, task' = [task EXCEPT ![c] = x],
         UNCHANGED fixed,
         seams \subseteq seams' \/ (~single /\ \A k \in seams \ seams' : k < Month(half)),
         single \/ (\A m \in Months : parts[m] # NoPart => parts'[m] # NoPart),
         parts' \in Dirs, DirOK(parts', since, half, seams'),
         whole' \in File, FileOK(whole', since, half, seams'), ~single => whole' = NoFile,
         CallerOK(x, since, half, seams', daily, single, parts')
  PROVE  CacheIInv'
<1>1. half \in Nat /\ since \in Nat /\ parts \in Dirs /\ daily' = daily /\ single' = single
      /\ half' = half /\ since' = since /\ task \in [Callers -> Tasks]
  BY HalfTypes DEF CacheIInv, CacheTypes, fixed
<1>2. CacheTypes'
  BY <1>1 DEF CacheIInv, CacheTypes
<1>3. ASSUME NEW d \in Callers
      PROVE  CallerOK(task'[d], since, half, seams', daily, single, parts')
  <2>1. CASE d = c
    BY <1>1, <2>1
  <2>2. CASE d # c
    <3>1. task'[d] = task[d] /\ task[d] \in Tasks
      BY <1>1, <2>2
    <3>2. CallerOK(task[d], since, half, seams, daily, single, parts)
      BY DEF CacheIInv
    <3>3. CallerOK(task[d], since, half, seams', daily, single, parts')
      BY <1>1, <3>1, <3>2, CallerLater
    <3> QED
      BY <3>1, <3>3
  <2> QED
    BY <2>1, <2>2
<1> QED
  BY <1>1, <1>2, <1>3 DEF CacheIInv

\* The same, when nothing is written.
LEMMA OnlyLooks ==
  ASSUME CacheIInv, NEW c \in Callers, NEW x \in Tasks, task' = [task EXCEPT ![c] = x],
         UNCHANGED <<fixed, whole, parts, seams>>,
         CallerOK(x, since, half, seams, daily, single, parts)
  PROVE  CacheIInv'
<1>1. /\ parts \in Dirs /\ DirOK(parts, since, half, seams) /\ whole \in File
      /\ FileOK(whole, since, half, seams) /\ (~single => whole = NoFile)
  BY DEF CacheIInv, CacheTypes
<1> QED
  BY <1>1, OneMoves

\* What is known of a caller that is at something.
LEMMA CallerIs ==
  ASSUME CacheIInv, NEW c \in Callers
  PROVE  /\ task[c] \in Tasks /\ CallerOK(task[c], since, half, seams, daily, single, parts)
         /\ task[c].at # "none" => Sound(task[c], half)
         /\ task[c].at \in OneFile => single /\ daily
         /\ task[c].at \in Monthly => ~single
         /\ half \in Nat /\ 1 <= half /\ half <= LastHalf /\ since \in Nat /\ 1 <= since
         /\ daily \in BOOLEAN /\ single \in BOOLEAN
         /\ whole \in File /\ parts \in Dirs /\ task \in [Callers -> Tasks]
         /\ FileOK(whole, since, half, seams) /\ DirOK(parts, since, half, seams)
         /\ (~single => whole = NoFile)
<1>1. CacheTypes /\ CallerOK(task[c], since, half, seams, daily, single, parts)
  BY DEF CacheIInv
<1> QED
  BY <1>1, HalfTypes DEF CacheIInv, CacheTypes, CallerOK

LEMMA SoundTypes ==
  ASSUME NEW x \in Tasks, NEW n \in Nat, Sound(x, n)
  PROVE  /\ x.t \in Nat /\ x.start \in Nat /\ x.end \in Nat /\ x.t <= n /\ n <= x.t + 1
         /\ 1 <= x.start /\ x.start <= x.t /\ 1 <= x.t
         /\ x.end <= x.t /\ (x.end # 0 => x.start <= x.end)
         /\ Month(x.t) \in Nat /\ 1 <= Month(x.t) /\ Month(x.t) <= Month(n)
         /\ Month(x.start) \in Nat /\ 1 <= Month(x.start) /\ Month(x.start) <= Month(x.t)
         /\ n <= LastHalf => Month(x.t) \in Months
<1>1. /\ x.t \in Nat /\ x.start \in Nat /\ x.end \in Nat /\ x.t <= n /\ n <= x.t + 1
      /\ 1 <= x.start /\ x.start <= x.t
      /\ x.end <= x.t /\ (x.end # 0 => x.start <= x.end)
  BY DEF Tasks, Sound
<1>2. /\ Month(x.t) \in Nat /\ 1 <= Month(x.t) /\ Month(x.t) <= Month(n)
      /\ Month(x.start) \in Nat /\ 1 <= Month(x.start) /\ Month(x.start) <= Month(x.t)
  BY <1>1 DEF Month
<1>3. n <= LastHalf => x.t \in Halves
  BY <1>1, HalfTypes DEF Halves
<1> QED
  BY <1>1, <1>2, <1>3, HalfTypes

\* The rows the source answers are of this history.
LEMMA BarsTyped ==
  ASSUME CacheIInv, NEW s \in Int, NEW e \in Int
  PROVE  Bars(s, e) \subseteq Halves
<1>1. half \in Nat /\ half <= LastHalf /\ since \in Nat /\ 1 <= since /\ LastHalf \in Nat
  BY HalfTypes DEF CacheIInv, CacheTypes
<1> QED
  BY <1>1 DEF Bars, Halves

\* A caller that ends, or goes to phase 2.
LEMMA RestStep ==
  ASSUME CacheIInv, NEW c \in Callers, Rest(c), UNCHANGED <<fixed, whole, parts, seams>>
  PROVE  CacheIInv'
  BY RestingOK, OnlyLooks DEF Rest

LEMMA GiveUpStep ==
  ASSUME CacheIInv, NEW c \in Callers, task[c].at # "none", GiveUp(c),
         UNCHANGED <<fixed, whole, parts, seams>>
  PROVE  CacheIInv'
<1>1. CASE Rest(c)
  BY <1>1, RestStep
<1>2. CASE Go(c, "batch")
  <2> DEFINE x == [task[c] EXCEPT !.at = "batch"]
  <2>1. task[c] \in Tasks /\ Sound(task[c], half)
    BY CallerIs
  <2>2. x \in Tasks /\ x.at = "batch" /\ x.t = task[c].t /\ x.start = task[c].start
        /\ x.end = task[c].end
    BY <2>1 DEF Tasks
  <2>3. task' = [task EXCEPT ![c] = x]
    BY <1>2 DEF Go
  <2>4. CallerOK(x, since, half, seams, daily, single, parts)
    BY <2>1, <2>2 DEF CallerOK, Sound, Monthly, OneFile, Carries
  <2> QED
    BY <2>2, <2>3, <2>4, OnlyLooks
<1> QED
  BY <1>1, <1>2 DEF GiveUp

LEMMA CallStep ==
  ASSUME CacheIInv, NEW c \in Callers, Call(c)
  PROVE  CacheIInv'
<1>0. /\ half \in Nat /\ 1 <= half /\ single \in BOOLEAN /\ task \in [Callers -> Tasks]
  BY CallerIs
<1>1. PICK batch \in BOOLEAN, s \in 1 .. half, e \in {0} \cup 1 .. half :
        /\ e # 0 => s <= e
        /\ task' = [task EXCEPT ![c] = [Resting EXCEPT !.batch = batch, !.start = s, !.end = e,
                      !.t = half,
                      !.at = IF batch /\ ~Cached THEN "batch" ELSE IF single THEN "read" ELSE "plan"]]
  BY DEF Call
<1> DEFINE to == IF batch /\ ~Cached THEN "batch" ELSE IF single THEN "read" ELSE "plan"
           x  == [Resting EXCEPT !.batch = batch, !.start = s, !.end = e, !.t = half, !.at = to]
<1>2. Resting \in Tasks /\ to \in {"batch", IF single THEN "read" ELSE "plan"}
  BY RestingOK
<1>3. /\ x \in Tasks /\ x.at \in {"batch", IF single THEN "read" ELSE "plan"}
      /\ x.start = s /\ x.end = e /\ x.t = half
  <2> HIDE DEF to
  <2>1. to \in {"none", "batch", "save"} \cup Monthly \cup OneFile
    BY <1>0, <1>2 DEF Monthly, OneFile
  <2>2. e \in Nat /\ s \in Nat
    BY <1>0
  <2> QED
    BY <1>0, <1>2, <2>1, <2>2 DEF Tasks
<1>4. task' = [task EXCEPT ![c] = x]
  BY <1>1
<1> HIDE DEF to
<1> HIDE DEF x
<1>5. Sound(x, half)
  BY <1>0, <1>1, <1>3 DEF Sound
<1>6. CallerOK(x, since, half, seams, daily, single, parts)
  BY <1>0, <1>3, <1>5 DEF CallerOK, Monthly, OneFile, Carries
<1>7. UNCHANGED <<fixed, whole, parts, seams>>
  BY DEF Call
<1> QED
  BY <1>3, <1>4, <1>6, <1>7, OnlyLooks

LEMMA PlanStep ==
  ASSUME CacheIInv, NEW c \in Callers, Plan(c)
  PROVE  CacheIInv'
<1> DEFINE x == [task[c] EXCEPT !.at = "fill", !.todo = NeedsFetch(c)]
<1>1. /\ task[c] \in Tasks /\ task[c].at = "plan" /\ Sound(task[c], half) /\ ~single
      /\ half \in Nat /\ half <= LastHalf /\ task \in [Callers -> Tasks]
  BY CallerIs DEF Plan, Monthly
<1>2. \A m \in NeedsFetch(c) : m \in Months /\ m < Month(task[c].t)
  <2> SUFFICES ASSUME NEW m \in NeedsFetch(c) PROVE m \in Months /\ m < Month(task[c].t)
    OBVIOUS
  <2>1. m \in Int /\ Month(task[c].start) <= m /\ m < Month(task[c].t)
    <3>1. EndOf(c, task[c].t) \in Int
      BY <1>1, SoundTypes DEF EndOf
    <3> QED
      BY <1>1, <3>1, SoundTypes, MonthIs DEF NeedsFetch, Asked
  <2> QED
    BY <1>1, <2>1, SoundTypes, HalfTypes DEF Months
<1>3. x \in Tasks /\ x.at = "fill" /\ x.todo = NeedsFetch(c) /\ x.t = task[c].t
      /\ x.start = task[c].start /\ x.end = task[c].end
  BY <1>1, <1>2 DEF Tasks, Monthly
<1>4. task' = [task EXCEPT ![c] = x]
  BY DEF Plan
<1> HIDE DEF x
<1>5. CallerOK(x, since, half, seams, daily, single, parts)
  BY <1>1, <1>2, <1>3 DEF CallerOK, Sound, Monthly, OneFile, Carries
<1>6. UNCHANGED <<fixed, whole, parts, seams>>
  BY DEF Plan
<1> QED
  BY <1>3, <1>4, <1>5, <1>6, OnlyLooks

LEMMA FillStep ==
  ASSUME CacheIInv, NEW c \in Callers, FillMonth(c)
  PROVE  CacheIInv'
<1> DEFINE m  == Min(task[c].todo)
           x  == [task[c] EXCEPT !.todo = @ \ {m}]
           rs == parts[m].rows \cup Bars(FirstOf(m), FirstOf(m + 1))
           b  == [rows |-> rs, mtime |-> half]
<1>1. /\ task[c] \in Tasks /\ task[c].at = "fill" /\ Sound(task[c], half) /\ ~single
      /\ task[c].todo # {} /\ \A k \in task[c].todo : k < Month(task[c].t)
      /\ half \in Nat /\ half <= LastHalf /\ 1 <= half /\ since \in Nat /\ daily \in BOOLEAN
      /\ task \in [Callers -> Tasks] /\ parts \in Dirs /\ DirOK(parts, since, half, seams)
      /\ whole = NoFile
  BY CallerIs DEF FillMonth, Monthly, CallerOK
<1>2. m \in task[c].todo /\ m \in Months /\ m \in Nat /\ 1 <= m /\ m < Month(task[c].t)
  <2>1. task[c].todo \subseteq Months /\ task[c].todo \in SUBSET Nat
    BY <1>1, HalfTypes DEF Tasks
  <2>2. Min(task[c].todo) \in task[c].todo
    BY <1>1, <2>1, MinIs
  <2> QED
    BY <1>1, <2>1, <2>2, HalfTypes
<1>3. /\ parts' = [parts EXCEPT ![m] = b] /\ task' = [task EXCEPT ![c] = x]
      /\ seams' = seams \ {m} /\ UNCHANGED <<fixed, whole>>
  BY DEF FillMonth
<1>4. x \in Tasks /\ x.at = "fill" /\ x.todo \subseteq task[c].todo /\ x.t = task[c].t
      /\ x.start = task[c].start /\ x.end = task[c].end
  BY <1>1 DEF Tasks
<1> HIDE DEF m, x
<1>5. m < Month(half) /\ 2 * m < half
  BY <1>1, <1>2, SoundTypes, MonthIs
<1>6. rs \subseteq OfMonth(m) /\ rs \subseteq Halves
  <2>1. parts[m].rows \subseteq OfMonth(m) /\ parts[m].rows \subseteq Halves
    BY <1>1, <1>2 DEF DirOK, Dirs, Part
  <2>2. Bars(FirstOf(m), FirstOf(m + 1)) \subseteq OfMonth(m)
    BY <1>2 DEF Bars, FirstOf, OfMonth
  <2>3. Bars(FirstOf(m), FirstOf(m + 1)) \subseteq Halves
    BY <1>2, BarsTyped DEF FirstOf
  <2> QED
    BY <2>1, <2>2, <2>3
<1>7. Filled(m, rs, since)
  BY <1>1, <1>2, <1>5 DEF Filled, Bars, FirstOf, OfMonth
<1>8. b \in Part /\ b.rows = rs /\ b.mtime = half /\ b # NoPart
  BY <1>1, <1>6 DEF Part, NoPart
<1> HIDE DEF b, rs
<1>9. parts' \in Dirs /\ parts'[m] = b /\ \A k \in Months : k # m => parts'[k] = parts[k]
  BY <1>1, <1>2, <1>3, <1>8 DEF Dirs
<1>10. DirOK(parts', since, half, seams')
  <2> SUFFICES ASSUME NEW k \in Months
               PROVE  /\ parts'[k].rows \subseteq OfMonth(k)
                      /\ parts'[k] # NoPart => k <= Month(half)
                      /\ \/ k \in seams'
                         \/ UpTo(k, parts'[k].rows, since) /\
                            (Month(parts'[k].mtime) > k => Filled(k, parts'[k].rows, since))
    BY DEF DirOK
  <2>1. CASE k = m
    <3>1. UpTo(m, rs, since)
      BY <1>7 DEF UpTo, Filled
    <3>2. m <= Month(half)
      BY <1>1, <1>2, <1>5 DEF Month
    <3> QED
      BY <1>6, <1>7, <1>8, <1>9, <2>1, <3>1, <3>2
  <2>2. CASE k # m
    BY <1>1, <1>3, <1>9, <2>2 DEF DirOK
  <2> QED
    BY <2>1, <2>2
<1>11. CallerOK(x, since, half, seams', daily, single, parts')
  BY <1>1, <1>4 DEF CallerOK, Sound, Monthly, OneFile, Carries
<1>12. \A k \in seams \ seams' : k < Month(half)
  BY <1>3, <1>5
<1>13. \A k \in Months : parts[k] # NoPart => parts'[k] # NoPart
  BY <1>8, <1>9
<1>14. whole' = NoFile /\ whole' \in File /\ FileOK(whole', since, half, seams')
  BY <1>1, <1>3, EmptyDirOK
<1> QED
  BY <1>1, <1>3, <1>4, <1>9, <1>10, <1>11, <1>12, <1>13, <1>14, OneMoves

LEMMA PeekStep ==
  ASSUME CacheIInv, NEW c \in Callers, Peek(c)
  PROVE  CacheIInv'
<1> DEFINE m     == Month(task[c].t)
           rows  == parts[m].rows
           begin == IF rows = {} THEN FirstOf(m) ELSE Max(rows)
           delta == Bars(begin, task[c].t + 1)
           x     == [task[c] EXCEPT !.at = "keep", !.got.rows = rows \cup delta]
<1>0. UNCHANGED <<fixed, whole, parts, seams>>
  BY DEF Peek
<1>1. CASE Rest(c)
  BY <1>0, <1>1, RestStep
<1>2. CASE task' = [task EXCEPT ![c].at = "keep", ![c].got.rows = rows \cup delta]
  <2>1. /\ task[c] \in Tasks /\ task[c].at = "fill" /\ Sound(task[c], half) /\ ~single
        /\ half \in Nat /\ half <= LastHalf /\ 1 <= half /\ since \in Nat /\ daily \in BOOLEAN
        /\ task \in [Callers -> Tasks] /\ parts \in Dirs /\ DirOK(parts, since, half, seams)
    BY CallerIs DEF Peek, Monthly
  <2>2. m \in Months /\ m \in Nat /\ 1 <= m /\ 2 * m - 1 <= task[c].t /\ task[c].t <= 2 * m
        /\ task[c].t <= half /\ task[c].t \in Nat
    <3>1. m \in Months /\ m \in Nat /\ 1 <= m /\ task[c].t <= half /\ task[c].t \in Nat
      BY <2>1, SoundTypes
    <3>2. task[c].t \in Int
      BY <3>1
    <3>3. 2 * m - 1 <= task[c].t /\ task[c].t <= 2 * m
      BY <3>2, MonthIs, Zenon
    <3> QED
      BY <3>1, <3>3
  <2>3. rows \subseteq OfMonth(m) /\ rows \subseteq Halves
        /\ (m \in seams \/ UpTo(m, rows, since))
    BY <2>1, <2>2 DEF DirOK, Dirs, Part
  <2>4. begin \in Int /\ 2 * m - 1 <= begin /\ (begin # 2 * m - 1 => begin \in rows)
    <3>1. CASE rows = {}
      BY <2>2, <3>1 DEF FirstOf
    <3>2. CASE rows # {}
      <4>1. rows \subseteq 0 .. LastHalf
        BY <2>3, HalfTypes
      <4>2. Max(rows) \in rows
        BY <3>2, <4>1, HalfTypes, MaxIs
      <4>3. begin \in rows
        BY <3>2, <4>2
      <4> QED
        BY <2>2, <2>3, <4>3 DEF OfMonth
    <3> QED
      BY <3>1, <3>2
  <2> HIDE DEF begin
  <2>5. delta \subseteq OfMonth(m) /\ delta \subseteq Halves
    <3>1. delta \subseteq OfMonth(m)
      BY <2>2, <2>4 DEF Bars, OfMonth
    <3> QED
      BY <2>2, <2>4, <3>1, BarsTyped
  <2>6. m \in seams \/ UpTo(m, rows \cup delta, since)
    <3> SUFFICES ASSUME UpTo(m, rows, since), NEW h \in OfMonth(m), NEW r \in rows \cup delta,
                        since <= h, h <= r, h \notin rows
                 PROVE  h \in delta
      BY <2>3 DEF UpTo
    <3>1. h \in Int /\ r \in Int /\ 2 * m - 1 <= h
      BY <2>2, <2>3, <2>5 DEF OfMonth
    <3>2. r \in delta
      BY <2>3 DEF UpTo
    <3>3. begin <= h
      <4>1. CASE begin \in rows
        BY <2>3, <2>4, <3>1, <4>1 DEF UpTo
      <4> QED
        BY <2>2, <2>4, <3>1, <4>1
    <3> QED
      BY <2>1, <2>2, <2>4, <3>1, <3>2, <3>3 DEF Bars
  <2> HIDE DEF delta, rows
  <2>7. /\ x \in Tasks /\ x.at = "keep" /\ x.got.rows = rows \cup delta /\ x.t = task[c].t
        /\ x.start = task[c].start /\ x.end = task[c].end
    <3>1. task[c].got \in File
      BY <2>1 DEF Tasks
    <3>2. [task[c].got EXCEPT !.rows = rows \cup delta] \in File
      BY <2>3, <2>5, <3>1 DEF File
    <3>3. x = [task[c] EXCEPT !.at = "keep", !.got = [task[c].got EXCEPT !.rows = rows \cup delta]]
      BY <2>1 DEF Tasks
    <3> QED
      BY <2>1, <3>1, <3>2, <3>3 DEF Tasks, Monthly, File
  <2>8. task' = [task EXCEPT ![c] = x]
    BY <1>2, <2>1
  <2> HIDE DEF x
  <2>9. CallerOK(x, since, half, seams, daily, single, parts)
    BY <2>1, <2>3, <2>5, <2>6, <2>7 DEF CallerOK, Sound, Monthly, OneFile, Carries
  <2> QED
    BY <1>0, <2>7, <2>8, <2>9, OnlyLooks
<1> QED
  BY <1>1, <1>2 DEF Peek

LEMMA KeepStep ==
  ASSUME CacheIInv, NEW c \in Callers, KeepMonth(c)
  PROVE  CacheIInv'
<1> DEFINE m == Month(task[c].t)
           b == [rows |-> task[c].got.rows, mtime |-> half]
<1>1. /\ task[c] \in Tasks /\ task[c].at = "keep" /\ Sound(task[c], half) /\ ~single
      /\ half \in Nat /\ half <= LastHalf /\ 1 <= half /\ since \in Nat
      /\ task \in [Callers -> Tasks] /\ parts \in Dirs /\ DirOK(parts, since, half, seams)
      /\ whole = NoFile /\ CallerOK(task[c], since, half, seams, daily, single, parts)
  BY CallerIs DEF KeepMonth, Monthly
<1>2. m \in Months /\ m \in Nat /\ m <= Month(half) /\ Month(half) \in Int
  BY <1>1, SoundTypes, MonthIs
<1>3. /\ task[c].got.rows \subseteq OfMonth(m) /\ task[c].got.rows \subseteq Halves
      /\ m \in seams \/ m < Month(half) \/ UpTo(m, task[c].got.rows, since)
  BY <1>1 DEF CallerOK, Tasks, File
<1>4. /\ parts' = [parts EXCEPT ![m] = b] /\ task' = [task EXCEPT ![c] = Resting]
      /\ seams' = (IF m < Month(half) THEN seams \cup {m} ELSE seams) /\ UNCHANGED <<fixed, whole>>
  <2>1. RolledOver(c) <=> m < Month(half)
    BY <1>2 DEF RolledOver
  <2> QED
    BY <2>1 DEF KeepMonth, Rest
<1>5. b \in Part /\ b.rows = task[c].got.rows /\ b.mtime = half /\ b # NoPart
  BY <1>1, <1>3 DEF Part, NoPart
<1> HIDE DEF m, b
<1>6. parts' \in Dirs /\ parts'[m] = b /\ \A k \in Months : k # m => parts'[k] = parts[k]
  BY <1>1, <1>2, <1>4, <1>5 DEF Dirs
<1>7. seams \subseteq seams' /\ (m < Month(half) => m \in seams')
  BY <1>4
<1>8. DirOK(parts', since, half, seams')
  <2> SUFFICES ASSUME NEW k \in Months
               PROVE  /\ parts'[k].rows \subseteq OfMonth(k)
                      /\ parts'[k] # NoPart => k <= Month(half)
                      /\ \/ k \in seams'
                         \/ UpTo(k, parts'[k].rows, since) /\
                            (Month(parts'[k].mtime) > k => Filled(k, parts'[k].rows, since))
    BY DEF DirOK
  <2>1. CASE k = m
    BY <1>2, <1>3, <1>5, <1>6, <1>7, <2>1
  <2>2. CASE k # m
    BY <1>1, <1>6, <1>7, <2>2 DEF DirOK
  <2> QED
    BY <2>1, <2>2
<1>9. \A k \in Months : parts[k] # NoPart => parts'[k] # NoPart
  BY <1>5, <1>6
<1>10. whole' = NoFile /\ whole' \in File /\ FileOK(whole', since, half, seams')
  BY <1>1, <1>4, EmptyDirOK
<1>11. Resting \in Tasks /\ CallerOK(Resting, since, half, seams', daily, single, parts')
  BY RestingOK
<1> QED
  BY <1>1, <1>4, <1>6, <1>7, <1>8, <1>9, <1>10, <1>11, OneMoves

LEMMA BatchStep ==
  ASSUME CacheIInv, NEW c \in Callers, BatchFetch(c)
  PROVE  CacheIInv'
<1> DEFINE s    == IF single THEN FirstOf(Month(task[c].start)) ELSE task[c].start
           e    == EndOf(c, half)
           rows == Bars(s, e + 1)
           x    == [task[c] EXCEPT !.at = "save", !.got.rows = rows]
<1>1. /\ task[c] \in Tasks /\ task[c].at = "batch" /\ Sound(task[c], half)
      /\ half \in Nat /\ half <= LastHalf /\ 1 <= half /\ since \in Nat /\ single \in BOOLEAN
      /\ task \in [Callers -> Tasks]
  BY CallerIs DEF BatchFetch
<1>2. s \in Int /\ e \in Int
  BY <1>1, SoundTypes DEF FirstOf, EndOf
<1>3. rows = Answered(task[c], half, since, daily, single)
  <2>1. e = IF task[c].end = 0 THEN half ELSE task[c].end
    BY DEF EndOf
  <2>2. s .. (e + 1) - 1 = s .. e
    BY <1>2
  <2> QED
    BY <2>1, <2>2 DEF Bars, Answered
<1>4. rows \subseteq Halves
  BY <1>2, BarsTyped
<1> HIDE DEF rows
<1>5. /\ x \in Tasks /\ x.at = "save" /\ x.got.rows = rows /\ x.t = task[c].t
      /\ x.start = task[c].start /\ x.end = task[c].end
  <2>1. task[c].got \in File
    BY <1>1 DEF Tasks
  <2>2. [task[c].got EXCEPT !.rows = rows] \in File
    BY <1>4, <2>1 DEF File
  <2>3. x = [task[c] EXCEPT !.at = "save", !.got = [task[c].got EXCEPT !.rows = rows]]
    BY <1>1 DEF Tasks
  <2> QED
    BY <1>1, <2>1, <2>2, <2>3 DEF Tasks, File
<1>6. task' = [task EXCEPT ![c] = x]
  BY <1>1 DEF BatchFetch, rows
<1> HIDE DEF x
<1>7. x.got.rows = Answered(x, half, since, daily, single) /\ half \in x.t .. half
  BY <1>1, <1>3, <1>5, SoundTypes DEF Answered
<1>8. CallerOK(x, since, half, seams, daily, single, parts)
  BY <1>1, <1>5, <1>7 DEF CallerOK, Sound, Monthly, OneFile, Carries
<1>9. UNCHANGED <<fixed, whole, parts, seams>>
  BY DEF BatchFetch
<1> QED
  BY <1>5, <1>6, <1>8, <1>9, OnlyLooks

LEMMA RowsIn ==
  ASSUME NEW s \in Nat, NEW e \in Nat, NEW q \in Nat, e <= q, NEW o \in Nat, NEW y \in BOOLEAN,
         NEW rows, rows = {h \in s .. e : o <= h /\ (IF y THEN h <= q ELSE h < q)}
  PROVE  /\ \A h \in rows : h \in Nat /\ s <= h /\ h <= e /\ h <= q
         /\ \A h \in Nat, r \in rows : s <= h /\ o <= h /\ h <= r => h \in rows
         /\ \A h \in Nat : s <= h /\ o <= h /\ h < q /\ h <= e => h \in rows
  OBVIOUS

\* What a batch has of a month it covers, and of the running one.
LEMMA AnswerIs ==
  ASSUME CacheIInv, NEW x \in Tasks, Sound(x, half), NEW q \in x.t .. half,
         x.got.rows = Answered(x, q, since, daily, FALSE)
  PROVE  /\ \A h \in x.got.rows : h \in Halves /\ x.start <= h /\ h <= q
         /\ \A h \in x.got.rows : x.end # 0 => h <= x.end
         /\ \A h \in Nat, r \in x.got.rows : x.start <= h /\ since <= h /\ h <= r => h \in x.got.rows
         /\ \A h \in Nat : x.start <= h /\ since <= h /\ h < x.t /\ (x.end # 0 => h <= x.end)
                             => h \in x.got.rows
<1> DEFINE e == IF x.end = 0 THEN q ELSE x.end
<1>1. /\ x.t \in Nat /\ x.start \in Nat /\ x.end \in Nat /\ x.t <= half /\ x.end <= x.t
      /\ half \in Nat /\ since \in Nat /\ x.t <= q /\ q <= half /\ q \in Nat
  BY HalfTypes, SoundTypes DEF CacheIInv, CacheTypes
<1>2. x.got.rows = {h \in x.start .. e : since <= h /\ (IF daily THEN h <= q ELSE h < q)}
  BY DEF Answered
<1>3. e \in Nat /\ e <= q /\ (x.end # 0 => e = x.end) /\ (x.end = 0 => e = q)
  BY <1>1
<1> HIDE DEF e
<1>4. x.got.rows \subseteq Halves
  BY DEF Tasks, File
<1> DEFINE rows == x.got.rows
<1>6. /\ \A h \in rows : h \in Nat /\ x.start <= h /\ h <= e /\ h <= q
      /\ \A h \in Nat, r \in rows : x.start <= h /\ since <= h /\ h <= r => h \in rows
      /\ \A h \in Nat : x.start <= h /\ since <= h /\ h < q /\ h <= e => h \in rows
  <2>1. daily \in BOOLEAN
    BY DEF CacheIInv, CacheTypes
  <2>2. rows = {h \in x.start .. e : since <= h /\ (IF daily THEN h <= q ELSE h < q)}
    BY <1>2
  <2>3. x.start \in Nat /\ e \in Nat /\ q \in Nat /\ e <= q /\ since \in Nat
    BY <1>1, <1>3
  <2> HIDE DEF rows
  <2> QED
    BY <2>1, <2>2, <2>3, RowsIn
<1> HIDE DEF rows
<1>7. \A h \in rows : x.end # 0 => h <= x.end
  BY <1>3, <1>6
<1>8. \A h \in Nat : x.start <= h /\ since <= h /\ h < x.t /\ (x.end # 0 => h <= x.end) => h \in rows
  <2> SUFFICES ASSUME NEW h \in Nat, x.start <= h, since <= h, h < x.t, x.end # 0 => h <= x.end
               PROVE  h < q /\ h <= e
    BY <1>6
  <2> QED
    BY <1>1, <1>3
<1> QED
  BY <1>4, <1>6, <1>7, <1>8 DEF rows

LEMMA SaveMonthsStep ==
  ASSUME CacheIInv, NEW c \in Callers, SaveMonths(c)
  PROVE  CacheIInv'
<1> DEFINE y    == task[c]
           rows == y.got.rows
           ms   == {Month(h) : h \in rows}
           x    == [y EXCEPT !.at = "mark"]
<1>1. /\ y \in Tasks /\ y.at = "save" /\ Sound(y, half) /\ single = FALSE
      /\ half \in Nat /\ half <= LastHalf /\ 1 <= half /\ since \in Nat /\ since >= 1
      /\ task \in [Callers -> Tasks] /\ parts \in Dirs /\ DirOK(parts, since, half, seams)
      /\ whole = NoFile /\ CallerOK(y, since, half, seams, daily, single, parts)
  BY CallerIs DEF SaveMonths
<1>2. PICK q \in y.t .. half : rows = Answered(y, q, since, daily, FALSE)
  BY <1>1 DEF CallerOK
<1>3. /\ \A h \in rows : h \in Halves /\ y.start <= h /\ h <= q
      /\ \A h \in rows : y.end # 0 => h <= y.end
      /\ \A h \in Nat, r \in rows : y.start <= h /\ since <= h /\ h <= r => h \in rows
      /\ \A h \in Nat : y.start <= h /\ since <= h /\ h < y.t /\ (y.end # 0 => h <= y.end)
                          => h \in rows
  BY <1>1, <1>2, AnswerIs
<1>4. /\ y.t \in Nat /\ y.start \in Nat /\ y.end \in Nat /\ y.t <= half /\ half <= y.t + 1
      /\ 1 <= y.start /\ y.start <= y.t /\ y.end <= y.t /\ q \in Nat /\ q <= half
      /\ (y.end # 0 => y.start <= y.end)
  BY <1>1, SoundTypes
<1>5. /\ parts' = [m \in Months |-> IF m \in ms THEN [rows |-> parts[m].rows \cup (rows \cap OfMonth(m)),
                                                     mtime |-> half]
                                    ELSE parts[m]]
      /\ seams' = seams \cup (ms \cap PartOf(c)) /\ task' = [task EXCEPT ![c] = x]
      /\ UNCHANGED <<fixed, whole>>
  BY <1>1 DEF SaveMonths, Go
<1>6. x \in Tasks /\ x.at = "mark" /\ x.got.rows = rows /\ x.t = y.t /\ x.start = y.start
      /\ x.end = y.end
  BY <1>1 DEF Tasks, Monthly
<1>7. \A m \in Months : parts[m].rows \subseteq OfMonth(m) /\ parts[m].rows \subseteq Halves
  BY <1>1 DEF DirOK, Dirs, Part
<1> HIDE DEF ms, x
<1>8. parts' \in Dirs
  <2>1. \A m \in Months : parts[m].rows \cup (rows \cap OfMonth(m)) \subseteq Halves
    BY <1>3, <1>7
  <2>2. \A m \in Months : [rows |-> parts[m].rows \cup (rows \cap OfMonth(m)), mtime |-> half] \in Part
    BY <1>1, <2>1 DEF Part
  <2> QED
    BY <1>1, <1>5, <2>2 DEF Dirs
<1>9. \A m \in Months : m \notin ms => parts'[m] = parts[m]
  BY <1>5
<1>10. \A m \in Months : m \in ms => parts'[m].rows = parts[m].rows \cup (rows \cap OfMonth(m))
                                     /\ parts'[m].mtime = half
  BY <1>5
<1> HIDE DEF rows
<1>11. ASSUME NEW m \in Months, m \in ms
       PROVE  /\ parts'[m].rows \subseteq OfMonth(m) /\ m <= Month(half)
              /\ \/ m \in seams'
                 \/ UpTo(m, parts'[m].rows, since) /\
                    (Month(parts'[m].mtime) > m => Filled(m, parts'[m].rows, since))
  <2>0. m \in Nat /\ 1 <= m
    BY HalfTypes
  <2>1. PICK g \in rows : m = Month(g)
    BY <1>11 DEF ms
  <2>2. g \in Nat /\ y.start <= g /\ g <= q /\ 2 * m - 1 <= g /\ g <= 2 * m
        /\ (y.end # 0 => g <= y.end)
    <3>1. g \in Nat /\ g \in Int
      BY <1>3, HalfTypes
    <3>2. 2 * m - 1 <= g /\ g <= 2 * m
      BY <2>1, <3>1, MonthIs
    <3> QED
      BY <1>3, <3>1, <3>2
  <2>3. m <= Month(half)
    BY <1>1, <1>4, <2>0, <2>2 DEF Month
  <2>4. parts'[m].rows = parts[m].rows \cup (rows \cap OfMonth(m)) /\ parts'[m].mtime = half
    BY <1>10, <1>11
  <2>5. parts'[m].rows \subseteq OfMonth(m)
    BY <1>7, <2>4
  <2>6. CASE m \in PartOf(c)
    BY <1>5, <1>11, <2>3, <2>5, <2>6
  <2>7. CASE m \in seams
    BY <1>5, <2>3, <2>5, <2>7
  <2>8. CASE m \notin PartOf(c) /\ m \notin seams
    <3>1. UpTo(m, parts[m].rows, since)
      BY <1>1, <2>8 DEF DirOK
    \* It has been fetched from its beginning on, or nothing of it but its first half can be.
    <3>2. y.start <= 2 * m - 1 \/ g = 2 * m - 1
      <4>1. CASE m \in Asked(c, y.t)
        BY <1>4, <2>0, <2>8, <4>1 DEF PartOf, FirstOf
      <4>2. CASE m \notin Asked(c, y.t)
        <5>1. Month(y.start) <= m
          BY <1>4, <2>0, <2>2 DEF Month
        <5>2. ~(m <= Month(EndOf(c, y.t)))
          BY <1>4, <2>0, <4>2, <5>1 DEF Asked, Month, EndOf
        <5>3. y.end = 0
          <6>1. CASE y.end # 0
            <7>1. m <= Month(y.end)
              BY <1>4, <2>0, <2>2, <6>1 DEF Month
            <7> QED
              BY <5>2, <6>1, <7>1 DEF EndOf
          <6> QED
            BY <6>1
        <5>4. ~(m <= Month(y.t))
          BY <5>2, <5>3 DEF EndOf
        <5> QED
          BY <1>4, <2>0, <2>2, <5>4 DEF Month
      <4> QED
        BY <4>1, <4>2
    <3>3. UpTo(m, parts'[m].rows, since)
      <4> SUFFICES ASSUME NEW h \in OfMonth(m), NEW r \in parts'[m].rows, since <= h, h <= r
                   PROVE  h \in parts'[m].rows
        BY DEF UpTo
      <4>1. h \in Nat /\ r \in Nat /\ 2 * m - 1 <= h /\ h <= 2 * m
        BY <1>8, <2>0, HalfTypes DEF OfMonth, Dirs, Part
      <4>2. CASE r \in parts[m].rows
        BY <1>7, <2>4, <3>1, <4>2 DEF UpTo
      <4>3. CASE r \in rows
        <5>1. CASE y.start <= 2 * m - 1
          <6>1. y.start <= h
            BY <1>4, <2>0, <4>1, <5>1
          <6> QED
            BY <1>3, <2>4, <4>1, <4>3, <6>1
        <5>2. CASE g = 2 * m - 1 /\ h # g
          <6>1. g <= h /\ y.start <= h
            BY <1>4, <2>2, <4>1, <5>2
          <6> QED
            BY <1>3, <2>4, <4>1, <4>3, <6>1
        <5>3. CASE h = g
          BY <2>1, <2>4, <5>3
        <5> QED
          BY <3>2, <5>1, <5>2, <5>3
      <4> QED
        BY <2>4, <4>2, <4>3
    <3>4. ASSUME Month(half) > m PROVE Filled(m, parts'[m].rows, since)
      <4>1. m \in Asked(c, y.t)
        <5>1. m <= Month(y.t)
          BY <1>1, <1>4, <2>0, <3>4 DEF Month
        <5>2. Month(y.start) <= m
          BY <1>4, <2>0, <2>2 DEF Month
        <5>3. y.end # 0 => m <= Month(y.end)
          BY <1>4, <2>0, <2>2 DEF Month
        <5> QED
          BY <1>4, <2>0, <5>1, <5>2, <5>3 DEF Asked, EndOf, Month
      <4>2. /\ ~(y.start > 2 * m - 1) /\ ~(EndOf(c, y.t) < 2 * m) /\ ~(m >= Month(y.t))
        BY <2>8, <3>4, <4>1, <2>0 DEF PartOf, FirstOf
      <4>3. y.start <= 2 * m - 1 /\ 2 * m < y.t /\ (y.end # 0 => 2 * m <= y.end)
        BY <1>4, <2>0, <4>2 DEF EndOf, Month
      <4> SUFFICES ASSUME NEW h \in OfMonth(m), since <= h PROVE h \in parts'[m].rows
        BY DEF Filled
      <4>4. h \in Nat /\ 2 * m - 1 <= h /\ h <= 2 * m
        BY <2>0 DEF OfMonth
      <4>5. h \in rows
        BY <1>3, <1>4, <2>0, <4>3, <4>4
      <4> QED
        BY <2>4, <4>5
    <3> QED
      BY <2>3, <2>4, <2>5, <3>3, <3>4
  <2> QED
    BY <2>6, <2>7, <2>8
<1>12. DirOK(parts', since, half, seams')
  <2> SUFFICES ASSUME NEW m \in Months
               PROVE  /\ parts'[m].rows \subseteq OfMonth(m)
                      /\ parts'[m] # NoPart => m <= Month(half)
                      /\ \/ m \in seams'
                         \/ UpTo(m, parts'[m].rows, since) /\
                            (Month(parts'[m].mtime) > m => Filled(m, parts'[m].rows, since))
    BY DEF DirOK
  <2>1. CASE m \in ms
    BY <1>11, <2>1
  <2>2. CASE m \notin ms
    BY <1>1, <1>5, <1>9, <2>2 DEF DirOK
  <2> QED
    BY <2>1, <2>2
<1>13. \A m \in Months : m \in ms => parts'[m] # NoPart
  BY <1>1, <1>10 DEF NoPart
<1>14. \A h \in rows : Month(h) \in Months /\ parts'[Month(h)] # NoPart
  BY <1>3, <1>13, HalfTypes DEF ms
<1>15. CallerOK(x, since, half, seams', daily, single, parts')
  <2>1. Answered(x, q, since, daily, single) = rows
    BY <1>1, <1>2, <1>6 DEF Answered, rows
  <2> QED
    BY <1>1, <1>6, <1>14, <2>1 DEF CallerOK, Sound, Monthly, OneFile, Carries
<1>16. whole' = NoFile /\ whole' \in File /\ FileOK(whole', since, half, seams')
  BY <1>1, <1>5, EmptyDirOK
<1>17. \A m \in Months : parts[m] # NoPart => parts'[m] # NoPart
  BY <1>9, <1>13
<1>18. seams \subseteq seams'
  BY <1>5
<1> QED
  BY <1>5, <1>6, <1>8, <1>12, <1>15, <1>16, <1>17, <1>18, OneMoves

LEMMA MarkEmptyStep ==
  ASSUME CacheIInv, NEW c \in Callers, MarkEmpty(c)
  PROVE  CacheIInv'
<1> DEFINE y    == task[c]
           rows == y.got.rows
           b    == [rows |-> {}, mtime |-> half]
<1>1. /\ y \in Tasks /\ y.at = "mark" /\ Sound(y, half) /\ single = FALSE
      /\ half \in Nat /\ half <= LastHalf /\ 1 <= half /\ since \in Nat /\ since >= 1
      /\ task \in [Callers -> Tasks] /\ parts \in Dirs /\ DirOK(parts, since, half, seams)
      /\ whole = NoFile /\ CallerOK(y, since, half, seams, daily, single, parts)
  BY CallerIs DEF MarkEmpty, Monthly
<1>2. PICK q \in y.t .. half : rows = Answered(y, q, since, daily, FALSE)
  BY <1>1 DEF CallerOK
<1>3. \A h \in Nat : y.start <= h /\ since <= h /\ h < y.t /\ (y.end # 0 => h <= y.end)
                       => h \in rows
  BY <1>1, <1>2, AnswerIs
<1>4. /\ y.t \in Nat /\ y.start \in Nat /\ y.end \in Nat /\ y.t <= half /\ half <= y.t + 1
      /\ 1 <= y.start /\ y.start <= y.t /\ y.end <= y.t
      /\ (y.end # 0 => y.start <= y.end)
  BY <1>1, SoundTypes
<1>5. \A h \in rows : parts[Month(h)] # NoPart
  BY <1>1 DEF CallerOK
<1>6. /\ parts' = [m \in Months |-> IF m \in Unfiled(c) THEN b ELSE parts[m]]
      /\ seams' = seams \cup (Unfiled(c) \cap PartOf(c)) /\ task' = [task EXCEPT ![c] = Resting]
      /\ UNCHANGED <<fixed, whole>>
  BY DEF MarkEmpty, Rest
<1>7. b \in Part /\ b.rows = {} /\ b.mtime = half /\ b # NoPart
  BY <1>1 DEF Part, NoPart
<1> HIDE DEF b, rows
<1>8. parts' \in Dirs
  BY <1>1, <1>6, <1>7 DEF Dirs
<1>9. ASSUME NEW m \in Months, m \in Unfiled(c)
      PROVE  parts'[m] = b /\ m <= Month(half) /\ (m \in seams' \/ Filled(m, {}, since))
  <2>0. m \in Nat /\ 1 <= m
    BY HalfTypes
  <2>1. m \in Asked(c, half) /\ m < Month(half) /\ parts[m] = NoPart
    BY <1>9 DEF Unfiled
  <2>2. m <= Month(half) /\ Month(half) \in Int
    BY <1>1, <2>0, <2>1, MonthIs
  <2>3. CASE m \in PartOf(c)
    BY <1>6, <1>9, <2>2, <2>3
  <2>4. CASE m \notin PartOf(c)
    \* The months asked for are those of the call's own time, but for the running one.
    <3>1. m \in Asked(c, y.t)
      <4>1. m <= Month(y.t)
        BY <1>1, <1>4, <2>0, <2>1 DEF Month
      <4>2. Month(y.start) <= m /\ (y.end # 0 => m <= Month(y.end))
        BY <1>1, <1>4, <2>0, <2>1 DEF Asked, EndOf, Month
      <4> QED
        BY <1>4, <2>0, <4>1, <4>2 DEF Asked, EndOf, Month
    <3>2. /\ ~(y.start > 2 * m - 1) /\ ~(EndOf(c, y.t) < 2 * m) /\ ~(m >= Month(y.t))
      BY <2>0, <2>1, <2>4, <3>1 DEF PartOf, FirstOf
    <3>3. y.start <= 2 * m - 1 /\ 2 * m < y.t /\ (y.end # 0 => 2 * m <= y.end)
      BY <1>4, <2>0, <3>2 DEF EndOf, Month
    <3>4. Filled(m, {}, since)
      <4> SUFFICES ASSUME NEW h \in OfMonth(m), since <= h PROVE FALSE
        BY DEF Filled
      <4>1. h \in Nat /\ 2 * m - 1 <= h /\ h <= 2 * m /\ Month(h) = m
        BY <2>0, OfMonthIs DEF OfMonth
      <4>2. h \in rows
        BY <1>3, <1>4, <2>0, <3>3, <4>1
      <4> QED
        BY <1>5, <2>1, <4>1, <4>2
    <3> QED
      BY <1>6, <1>9, <2>2, <3>4
  <2> QED
    BY <2>3, <2>4
<1>10. DirOK(parts', since, half, seams')
  <2> SUFFICES ASSUME NEW m \in Months
               PROVE  /\ parts'[m].rows \subseteq OfMonth(m)
                      /\ parts'[m] # NoPart => m <= Month(half)
                      /\ \/ m \in seams'
                         \/ UpTo(m, parts'[m].rows, since) /\
                            (Month(parts'[m].mtime) > m => Filled(m, parts'[m].rows, since))
    BY DEF DirOK
  <2>1. CASE m \in Unfiled(c)
    BY <1>7, <1>9, <2>1 DEF UpTo
  <2>2. CASE m \notin Unfiled(c)
    BY <1>1, <1>6, <2>2 DEF DirOK
  <2> QED
    BY <2>1, <2>2
<1>11. \A m \in Months : parts[m] # NoPart => parts'[m] # NoPart
  BY <1>6, <1>7
<1>12. whole' = NoFile /\ whole' \in File /\ FileOK(whole', since, half, seams')
  BY <1>1, <1>6, EmptyDirOK
<1>13. Resting \in Tasks /\ CallerOK(Resting, since, half, seams', daily, single, parts')
  BY RestingOK
<1>14. seams \subseteq seams'
  BY <1>6
<1> QED
  BY <1>6, <1>8, <1>10, <1>11, <1>12, <1>13, <1>14, OneMoves

-----------------------------------------------------------------------------
\* Where a caller goes with the file it has read or made.
LEMMA ThenOK ==
  ASSUME CacheIInv, NEW c \in Callers, task[c].at # "none", NEW at \in Looks, single = TRUE, NEW w,
         NEW p, NEW f \in File, FileOK(f, since, half, w),
         at = "merge" => FileOK(task[c].got, since, half, w)
  PROVE  Then(c, at, f) \in Tasks /\ CallerOK(Then(c, at, f), since, half, w, daily, single, p)
<1> DEFINE y  == task[c]
           to == CASE at = "merge" -> "merging"
                   [] at = "read"  -> IF f = NoFile THEN "cold" ELSE "extend"
           x  == [y EXCEPT !.at = to, !.back = "none", !.dir = NoDir, !.seen = f]
<1>1. CASE at = "reread"
  BY <1>1, RestingOK DEF Then
<1>2. CASE at # "reread"
  <2>1. y \in Tasks /\ Sound(y, half)
    BY CallerIs
  <2>2. /\ to \in {"merging", "cold", "extend"}
        /\ to = "merging" => at = "merge"
        /\ to = "extend" => f # NoFile
    BY <1>2 DEF Looks
  <2>3. Then(c, at, f) = x
    BY <1>2 DEF Then
  <2> HIDE DEF to
  <2>4. /\ x \in Tasks /\ x.at = to /\ x.back = "none" /\ x.seen = f /\ x.got = y.got /\ x.t = y.t
        /\ x.start = y.start /\ x.end = y.end
    BY <2>1, <2>2, EmptyDirOK DEF Tasks, OneFile
  <2> HIDE DEF x
  <2>5. CallerOK(x, since, half, w, daily, single, p)
    BY <2>1, <2>2, <2>4 DEF CallerOK, Sound, Monthly, Carries
  <2> QED
    BY <2>3, <2>4, <2>5
<1> QED
  BY <1>1, <1>2

LEMMA ReadSingleStep ==
  ASSUME CacheIInv, NEW c \in Callers, ReadSingle(c)
  PROVE  CacheIInv'
<1>1. /\ task[c] \in Tasks /\ task[c].at \in Looks /\ single = TRUE
      /\ task \in [Callers -> Tasks] /\ whole \in File /\ FileOK(whole, since, half, seams)
      /\ CallerOK(task[c], since, half, seams, daily, single, parts)
  BY CallerIs DEF ReadSingle, Looks, OneFile
<1>2. task[c].at # "none" /\ (task[c].at = "merge" => FileOK(task[c].got, since, half, seams))
  BY <1>1 DEF Looks, CallerOK, Carries
<1> DEFINE x == Then(c, task[c].at, whole)
<1>3. x \in Tasks /\ CallerOK(x, since, half, seams, daily, single, NoDir)
  BY <1>1, <1>2, ThenOK
<1>4. task' = [task EXCEPT ![c] = x] /\ parts' = NoDir /\ UNCHANGED <<fixed, whole, seams>>
  BY <1>1 DEF ReadSingle
<1> HIDE DEF x
<1>5. NoDir \in Dirs /\ DirOK(NoDir, since, half, seams)
  BY EmptyDirOK
<1> QED
  BY <1>1, <1>3, <1>4, <1>5, OneMoves

LEMMA TakeDirStep ==
  ASSUME CacheIInv, NEW c \in Callers, TakeDir(c)
  PROVE  CacheIInv'
<1> DEFINE y == task[c]
           x == [y EXCEPT !.at = "migrate", !.back = y.at, !.dir = parts]
<1>1. /\ y \in Tasks /\ y.at \in Looks /\ single = TRUE /\ Sound(y, half)
      /\ task \in [Callers -> Tasks] /\ whole \in File /\ FileOK(whole, since, half, seams)
      /\ parts \in Dirs /\ DirOK(parts, since, half, seams)
      /\ CallerOK(y, since, half, seams, daily, single, parts)
  BY CallerIs DEF TakeDir, Looks, OneFile
<1>2. /\ x \in Tasks /\ x.at = "migrate" /\ x.back = y.at /\ x.dir = parts /\ x.got = y.got
      /\ x.t = y.t /\ x.start = y.start /\ x.end = y.end
  BY <1>1 DEF Tasks, OneFile
<1>3. task' = [task EXCEPT ![c] = x] /\ parts' = NoDir /\ UNCHANGED <<fixed, whole, seams>>
  BY <1>1 DEF TakeDir
<1> HIDE DEF x
<1>4. CallerOK(x, since, half, seams, daily, single, NoDir)
  BY <1>1, <1>2 DEF CallerOK, Sound, Monthly, Carries
<1>5. NoDir \in Dirs /\ DirOK(NoDir, since, half, seams)
  BY EmptyDirOK
<1> QED
  BY <1>1, <1>2, <1>3, <1>4, <1>5, OneMoves

LEMMA MigrateStep ==
  ASSUME CacheIInv, NEW c \in Callers, Migrate(c)
  PROVE  CacheIInv'
<1> DEFINE y == task[c]
<1>1. /\ y \in Tasks /\ y.at = "migrate" /\ single = TRUE
      /\ task \in [Callers -> Tasks] /\ whole \in File /\ FileOK(whole, since, half, seams)
      /\ parts \in Dirs /\ DirOK(parts, since, half, seams)
      /\ CallerOK(y, since, half, seams, daily, single, parts)
      /\ half \in Nat /\ since \in Nat
  BY CallerIs DEF Migrate, OneFile
<1>2. /\ y.back \in Looks /\ y.dir \in Dirs /\ DirOK(y.dir, since, half, seams) /\ y.got \in File
      /\ y.back = "merge" => FileOK(y.got, since, half, seams)
  BY <1>1 DEF CallerOK, Carries, Tasks
<1>3. PICK ok \in Readable(c) :
        LET f == IF ok = {} THEN NoFile ELSE Consolidated(y.dir, ok) IN
        /\ whole' = IF ok = {} THEN whole ELSE f
        /\ task' = [task EXCEPT ![c] = Then(c, @.back, f)]
        /\ seams' = IF ok = {} THEN seams
                    ELSE seams \cup {m \in f.from .. f.to - 1 : Month(y.dir[m].mtime) <= m}
  BY DEF Migrate
<1>4. UNCHANGED <<fixed, parts>>
  BY DEF Migrate
<1>5. ok \in SUBSET {m \in Months : y.dir[m] # NoPart}
  BY DEF Readable
<1>6. CASE ok = {}
  <2>1. task' = [task EXCEPT ![c] = Then(c, y.back, NoFile)] /\ whole' = whole /\ seams' = seams
    BY <1>1, <1>3, <1>6
  <2>2. Then(c, y.back, NoFile) \in Tasks
        /\ CallerOK(Then(c, y.back, NoFile), since, half, seams, daily, single, parts)
    BY <1>1, <1>2, EmptyDirOK, ThenOK
  <2> QED
    BY <1>4, <2>1, <2>2, OnlyLooks
<1>7. CASE ok # {}
  <2> DEFINE f == Consolidated(y.dir, ok)
  <2>1. /\ whole' = f /\ task' = [task EXCEPT ![c] = Then(c, y.back, f)]
        /\ seams' = seams \cup {m \in f.from .. f.to - 1 : Month(y.dir[m].mtime) <= m}
    BY <1>1, <1>3, <1>7
  <2>2. f \in File /\ FileOK(f, since, half, seams')
    BY <1>1, <1>2, <1>5, <1>7, <2>1, Consolidates
  <2> HIDE DEF f
  <2>3. seams \subseteq seams'
    BY <2>1
  <2>4. y.back = "merge" => FileOK(y.got, since, half, seams')
    BY <1>1, <1>2, <2>3, FileLater
  <2>5. Then(c, y.back, f) \in Tasks
        /\ CallerOK(Then(c, y.back, f), since, half, seams', daily, single, parts)
    BY <1>1, <1>2, <2>2, <2>4, ThenOK
  <2>6. DirOK(parts, since, half, seams')
    BY <1>1, <2>3, DirLater
  <2>7. parts' = parts
    BY <1>4
  <2> QED
    BY <1>1, <1>4, <2>1, <2>2, <2>3, <2>5, <2>6, <2>7, OneMoves
<1> QED
  BY <1>6, <1>7

LEMMA MigrateFailsStep ==
  ASSUME CacheIInv, NEW c \in Callers, MigrateFails(c)
  PROVE  CacheIInv'
<1> DEFINE y == task[c]
           x == [y EXCEPT !.at = "batch", !.back = "none", !.cold = FALSE, !.dir = NoDir]
<1>1. /\ y \in Tasks /\ y.at = "migrate" /\ single = TRUE /\ Sound(y, half)
      /\ task \in [Callers -> Tasks] /\ whole \in File /\ FileOK(whole, since, half, seams)
      /\ CallerOK(y, since, half, seams, daily, single, parts)
  BY CallerIs DEF MigrateFails, OneFile
<1>2. y.dir \in Dirs /\ DirOK(y.dir, since, half, seams)
  BY <1>1 DEF CallerOK, Tasks
<1>3. /\ parts' = y.dir /\ UNCHANGED <<fixed, whole, seams>>
      /\ task' = [task EXCEPT ![c] = x] \/ task' = [task EXCEPT ![c] = Resting]
  BY <1>1 DEF MigrateFails
<1>4. /\ x \in Tasks /\ x.at = "batch" /\ x.t = y.t /\ x.start = y.start /\ x.end = y.end
  BY <1>1, EmptyDirOK DEF Tasks
<1> HIDE DEF x
<1>5. CallerOK(x, since, half, seams, daily, single, parts')
  BY <1>1, <1>4 DEF CallerOK, Sound, Monthly, Carries
<1>6. Resting \in Tasks /\ CallerOK(Resting, since, half, seams, daily, single, parts')
  BY RestingOK
<1>7. CASE task' = [task EXCEPT ![c] = x]
  BY <1>1, <1>2, <1>3, <1>4, <1>5, <1>7, OneMoves
<1>8. CASE task' = [task EXCEPT ![c] = Resting]
  BY <1>1, <1>2, <1>3, <1>6, <1>8, OneMoves
<1> QED
  BY <1>3, <1>7, <1>8

-----------------------------------------------------------------------------
\* Where the next fetch of a file begins: before it nothing is missing but seams.
LEMMA NextIs ==
  ASSUME NEW f \in File, f # NoFile, NEW o \in Nat, NEW n \in Nat, n <= LastHalf, NEW w,
         FileOK(f, o, n, w), NEW t \in Nat
  PROVE  /\ NextFetch(f, t) \in Nat /\ 2 * f.to - 1 <= NextFetch(f, t)
         /\ f.to \in Nat /\ f.from \in Nat /\ 1 <= f.from /\ f.from <= f.to
         /\ \A h \in Nat : o <= h /\ f.from <= Month(h) /\ h < NextFetch(f, t) /\ Month(h) \notin w
                             => h \in f.rows
<1> DEFINE b == NextFetch(f, t)
<1>1. /\ f.to \in Nat /\ f.from \in Nat /\ 1 <= f.from /\ f.from <= f.to /\ f.to <= Month(n)
      /\ \A r \in f.rows : r \in Halves /\ r \in Nat /\ r <= LastHalf /\ r <= 2 * f.to
  BY HalfTypes DEF FileOK, File
<1>2. CASE f.to >= Month(t) \/ Open(f)
  <2> DEFINE S == {FirstOf(f.to)} \cup f.rows
  <2>1. b = Max(S)
    BY <1>2 DEF NextFetch
  <2>2. S \subseteq 0 .. (LastHalf + 2 * f.to) /\ S # {} /\ LastHalf + 2 * f.to \in Nat
    BY <1>1, HalfTypes DEF FirstOf
  <2> HIDE DEF S, b
  <2>3. b \in S /\ \A k \in S : k <= b
    BY <2>1, <2>2, MaxIs
  <2>4. b \in Nat /\ 2 * f.to - 1 <= b /\ (b = 2 * f.to - 1 \/ b \in f.rows)
    BY <1>1, <2>3 DEF S, FirstOf
  <2>5. ASSUME NEW h \in Nat, o <= h, f.from <= Month(h), h < b, Month(h) \notin w
        PROVE  h \in f.rows
    <3>1. Month(h) <= f.to
      BY <1>1, <2>4, <2>5 DEF Month
    <3>2. Month(h) = f.to => b \in f.rows /\ h <= b
      BY <1>1, <2>4, <2>5 DEF Month
    <3>3. Month(h) \in Int
      BY DEF Month
    <3>4. Claims(f, h)
      BY <1>1, <2>5, <3>1, <3>2, <3>3 DEF Claims
    <3> QED
      BY <2>5, <3>4 DEF FileOK
  <2> QED
    BY <1>1, <2>4, <2>5 DEF b
<1>3. CASE ~(f.to >= Month(t) \/ Open(f))
  <2>1. b = 2 * f.to + 1
    BY <1>1, <1>3 DEF NextFetch, FirstOf
  <2> HIDE DEF b
  <2>2. ASSUME NEW h \in Nat, o <= h, f.from <= Month(h), h < b, Month(h) \notin w
        PROVE  h \in f.rows
    <3>1. Month(h) <= f.to
      BY <1>1, <2>1, <2>2 DEF Month
    <3>2. Month(h) \in Int
      BY DEF Month
    <3>3. Claims(f, h)
      BY <1>1, <1>3, <2>2, <3>1, <3>2 DEF Claims
    <3> QED
      BY <2>2, <3>3 DEF FileOK
  <2>3. b \in Nat /\ 2 * f.to - 1 <= b
    BY <1>1, <2>1
  <2> QED
    BY <1>1, <2>2, <2>3 DEF b
<1> QED
  BY <1>2, <1>3

\* Daily data is there from the first instant of its half month.
LEMMA DailyBars ==
  ASSUME CacheIInv, daily = TRUE, NEW s \in Int, NEW e \in Int
  PROVE  /\ Bars(s, e) \subseteq Halves
         /\ \A h \in Bars(s, e) : h \in Nat /\ s <= h /\ h < e /\ h <= half
         /\ \A h \in Nat : s <= h /\ h < e /\ since <= h /\ h <= half => h \in Bars(s, e)
<1>1. Bars(s, e) \subseteq Halves
  BY BarsTyped
<1>2. half \in Nat /\ since \in Nat /\ \A h \in Halves : h \in Nat
  BY HalfTypes DEF CacheIInv, CacheTypes
<1>3. Bars(s, e) = {h \in s .. e - 1 : since <= h /\ h <= half}
  BY DEF Bars
<1> QED
  BY <1>1, <1>2, <1>3

\* Up to where a call fetches.
LEMMA UpperIs ==
  ASSUME CacheIInv, NEW c \in Callers, task[c].at # "none"
  PROVE  LET t == task[c].t  to == Month(EndOf(c, t)) IN
         /\ t \in Nat /\ t <= half /\ half <= t + 1 /\ half \in Nat /\ half <= LastHalf
         /\ since \in Nat
         /\ to \in Nat /\ Month(task[c].start) \in Nat
         /\ 1 <= Month(task[c].start) /\ Month(task[c].start) <= to /\ to <= Month(half)
         /\ \/ to = Month(t) /\ Upper(c) = t + 1 /\ t <= 2 * to /\ 2 * to - 1 <= t
            \/ to < Month(t) /\ Upper(c) = 2 * to + 1 /\ 2 * to < t
<1> DEFINE y  == task[c]
           to == Month(EndOf(c, y.t))
<1>1. /\ y \in Tasks /\ Sound(y, half) /\ half \in Nat /\ half <= LastHalf /\ since \in Nat
  BY CallerIs
<1>2. /\ y.t \in Nat /\ y.start \in Nat /\ y.end \in Nat /\ y.t <= half /\ half <= y.t + 1
      /\ 1 <= y.start /\ y.start <= y.t /\ y.end <= y.t /\ (y.end # 0 => y.start <= y.end)
  BY <1>1, SoundTypes
<1>3. /\ EndOf(c, y.t) \in Nat /\ y.start <= EndOf(c, y.t) /\ EndOf(c, y.t) <= y.t
  BY <1>2 DEF EndOf
<1>4. /\ to \in Nat /\ Month(y.start) \in Nat /\ Month(y.t) \in Nat
      /\ 1 <= Month(y.start) /\ Month(y.start) <= to /\ to <= Month(half) /\ to <= Month(y.t)
  BY <1>1, <1>2, <1>3 DEF Month
<1>5. Upper(c) = IF to >= Month(y.t) THEN y.t + 1 ELSE FirstOf(to + 1)
  BY DEF Upper
<1> HIDE DEF to
<1>6. CASE to = Month(y.t)
  <2>1. y.t <= 2 * to /\ 2 * to - 1 <= y.t
    BY <1>2, <1>6 DEF Month
  <2> QED
    BY <1>1, <1>2, <1>4, <1>5, <1>6, <2>1 DEF to
<1>7. CASE to < Month(y.t)
  <2>1. 2 * to < y.t
    BY <1>2, <1>4, <1>7 DEF Month
  <2>2. Upper(c) = 2 * to + 1
    BY <1>4, <1>5, <1>7 DEF FirstOf
  <2> QED
    BY <1>1, <1>2, <1>4, <1>7, <2>1, <2>2 DEF to
<1> QED
  BY <1>4, <1>6, <1>7

LEMMA ColdFetchStep ==
  ASSUME CacheIInv, NEW c \in Callers, ColdFetch(c)
  PROVE  CacheIInv'
<1> DEFINE y    == task[c]
           s    == Month(y.start)
           to   == Month(EndOf(c, y.t))
           rows == Bars(FirstOf(s), Upper(c))
           g    == [rows |-> rows, from |-> s, to |-> to, tail |-> y.t]
           x    == [y EXCEPT !.at = "merge", !.cold = TRUE, !.got = g]
<1>1. /\ y \in Tasks /\ y.at = "cold" /\ single = TRUE /\ daily = TRUE /\ Sound(y, half)
      /\ task \in [Callers -> Tasks]
  BY CallerIs DEF ColdFetch, OneFile
<1>2. /\ y.t \in Nat /\ y.t <= half /\ half <= y.t + 1 /\ half \in Nat /\ since \in Nat
      /\ to \in Nat /\ s \in Nat /\ 1 <= s /\ s <= to /\ to <= Month(half)
      /\ \/ to = Month(y.t) /\ Upper(c) = y.t + 1 /\ y.t <= 2 * to /\ 2 * to - 1 <= y.t
         \/ to < Month(y.t) /\ Upper(c) = 2 * to + 1 /\ 2 * to < y.t
  BY <1>1, UpperIs
<1>3. task' = [task EXCEPT ![c] = x] /\ UNCHANGED <<fixed, whole, parts, seams>>
  BY <1>1 DEF ColdFetch
<1> HIDE DEF to, s
<1>4. /\ rows \subseteq Halves
      /\ \A h \in rows : h \in Nat /\ h < Upper(c) /\ h <= half
      /\ \A h \in Nat : 2 * s - 1 <= h /\ h < Upper(c) /\ since <= h /\ h <= half => h \in rows
  <2>1. FirstOf(s) \in Int /\ FirstOf(s) = 2 * s - 1 /\ Upper(c) \in Int
    BY <1>2 DEF FirstOf
  <2> QED
    BY <1>1, <2>1, DailyBars
<1> HIDE DEF rows
<1>5. g \in File /\ g.rows = rows /\ g.from = s /\ g.to = to /\ g.tail = y.t
  BY <1>2, <1>4 DEF File
<1> HIDE DEF g
<1>6. /\ x \in Tasks /\ x.at = "merge" /\ x.got = g /\ x.t = y.t /\ x.start = y.start /\ x.end = y.end
  BY <1>1, <1>5 DEF Tasks, OneFile
<1> HIDE DEF x
<1>7. ASSUME NEW h \in Nat, since <= h, Claims(g, h) PROVE h \in rows
  <2>1. /\ Month(h) \in Int /\ s <= Month(h)
        /\ Month(h) < to \/ (Month(h) = to /\ (~Open(g) \/ \E r \in rows : h <= r))
    <3>1. Month(h) \in Int
      BY DEF Month
    <3> QED
      BY <1>5, <1>7, <3>1 DEF Claims
  <2>2. 2 * s - 1 <= h /\ h <= 2 * Month(h)
    BY <1>2, <2>1 DEF Month
  <2>3. CASE to < Month(y.t)
    BY <1>2, <1>4, <1>7, <2>1, <2>2, <2>3
  <2>4. CASE to = Month(y.t)
    <3>1. Open(g)
      BY <1>2, <1>5, <2>4 DEF Open
    <3>2. CASE Month(h) < to
      BY <1>2, <1>4, <1>7, <2>1, <2>2, <2>4, <3>2
    <3>3. CASE \E r \in rows : h <= r
      <4>1. PICK r \in rows : h <= r
        BY <3>3
      <4>2. r \in Nat /\ r < Upper(c) /\ r <= half /\ Upper(c) \in Nat
        BY <1>2, <1>4
      <4> QED
        BY <1>2, <1>4, <1>7, <2>2, <4>1, <4>2
    <3> QED
      BY <2>1, <3>1, <3>2, <3>3
  <2> QED
    BY <1>2, <2>3, <2>4
<1>8. \A r \in rows : r <= 2 * to
  BY <1>2, <1>4
<1>9. FileOK(g, since, half, seams)
  BY <1>2, <1>5, <1>7, <1>8 DEF FileOK
<1>10. CallerOK(x, since, half, seams, daily, single, parts)
  BY <1>1, <1>6, <1>9 DEF CallerOK, Sound, Monthly, Carries
<1> QED
  BY <1>3, <1>6, <1>10, OnlyLooks

\* Earlier months in front of a file.
LEMMA FrontIs ==
  ASSUME CacheIInv, daily = TRUE, NEW f \in File, f # NoFile, FileOK(f, since, half, seams),
         NEW s \in Nat, 1 <= s, s < f.from,
         NEW x, x = [f EXCEPT !.from = s, !.rows = @ \cup Bars(FirstOf(s), FirstOf(f.from))]
  PROVE  /\ x \in File /\ x # NoFile /\ x.from = s /\ x.to = f.to /\ x.tail = f.tail
         /\ FileOK(x, since, half, seams)
<1> DEFINE bars == Bars(FirstOf(s), FirstOf(f.from))
<1>1. /\ half \in Nat /\ since \in Nat /\ f.from \in Nat /\ f.to \in Nat /\ f.rows \subseteq Halves
      /\ 1 <= f.from /\ f.from <= f.to /\ f.to <= Month(half)
      /\ \A r \in f.rows : r <= 2 * f.to /\ r \in Nat
  BY HalfTypes DEF CacheIInv, CacheTypes, File, FileOK
<1>2. /\ bars \subseteq Halves
      /\ \A h \in bars : h \in Nat /\ h < 2 * f.from - 1
      /\ \A h \in Nat : 2 * s - 1 <= h /\ h < 2 * f.from - 1 /\ since <= h /\ h <= half => h \in bars
  <2>1. /\ FirstOf(s) \in Int /\ FirstOf(s) = 2 * s - 1
        /\ FirstOf(f.from) \in Int /\ FirstOf(f.from) = 2 * f.from - 1
    BY <1>1 DEF FirstOf
  <2> QED
    BY <2>1, DailyBars
<1> HIDE DEF bars
<1>3. /\ x \in File /\ x.from = s /\ x.to = f.to /\ x.tail = f.tail /\ x.rows = f.rows \cup bars
  <2>1. x = [f EXCEPT !.from = s, !.rows = f.rows \cup bars]
    BY DEF bars, File
  <2> QED
    BY <1>1, <1>2, <2>1 DEF File
<1>4. x # NoFile
  <2>1. f.to # 0
    BY <1>1
  <2>2. NoFile.to = 0
    BY DEF NoFile
  <2> QED
    BY <1>3, <2>1, <2>2
<1>5. ASSUME NEW h \in Nat, since <= h, Claims(x, h), Month(h) \notin seams
      PROVE  h \in x.rows
  <2>1. /\ Month(h) \in Int /\ s <= Month(h)
        /\ Month(h) < f.to \/ (Month(h) = f.to /\ (~Open(f) \/ \E r \in f.rows \cup bars : h <= r))
    <3>1. Month(h) \in Int
      BY DEF Month
    <3>2. Open(x) <=> Open(f)
      BY <1>3 DEF Open
    <3> QED
      BY <1>3, <1>5, <3>1, <3>2 DEF Claims
  <2>2. 2 * Month(h) - 1 <= h /\ h <= 2 * Month(h)
    BY DEF Month
  <2>3. CASE Month(h) < f.from
    <3>1. h < 2 * f.from - 1 /\ 2 * s - 1 <= h
      BY <1>1, <2>1, <2>2, <2>3
    <3>2. h <= half
      <4>1. Month(h) < Month(half)
        BY <1>1, <2>1, <2>3 DEF Month
      <4> QED
        BY <1>1, <4>1 DEF Month
    <3> QED
      BY <1>2, <1>3, <1>5, <3>1, <3>2
  <2>4. CASE f.from <= Month(h)
    <3>1. \A r \in bars : ~(h <= r)
      BY <1>1, <1>2, <2>1, <2>2, <2>4
    <3>2. Claims(f, h)
      BY <2>1, <2>4, <3>1 DEF Claims
    <3> QED
      BY <1>3, <1>5, <3>2 DEF FileOK
  <2> QED
    BY <1>1, <2>1, <2>3, <2>4
<1>6. \A r \in x.rows : r <= 2 * x.to
  BY <1>1, <1>2, <1>3
<1> QED
  BY <1>1, <1>3, <1>4, <1>5, <1>6 DEF FileOK

\* New bars behind it.
LEMMA BehindIs ==
  ASSUME CacheIInv, NEW c \in Callers, task[c].at # "none", daily = TRUE,
         NEW f \in File, f # NoFile, FileOK(f, since, half, seams),
         NextFetch(f, task[c].t) < Upper(c),
         NEW x, x = [f EXCEPT !.rows = @ \cup Bars(NextFetch(f, task[c].t), Upper(c)),
                       !.to = Max({@, Month(EndOf(c, task[c].t))}), !.tail = task[c].t]
  PROVE  x \in File /\ FileOK(x, since, half, seams)
<1> DEFINE t     == task[c].t
           to    == Month(EndOf(c, t))
           begin == NextFetch(f, t)
           bars  == Bars(begin, Upper(c))
           last  == Max({f.to, to})
<1>1. /\ t \in Nat /\ t <= half /\ half <= t + 1 /\ half \in Nat /\ half <= LastHalf /\ since \in Nat
      /\ to \in Nat /\ to <= Month(half)
      /\ \/ to = Month(t) /\ Upper(c) = t + 1 /\ t <= 2 * to /\ 2 * to - 1 <= t
         \/ to < Month(t) /\ Upper(c) = 2 * to + 1 /\ 2 * to < t
  BY UpperIs
<1>2. /\ begin \in Nat /\ 2 * f.to - 1 <= begin
      /\ f.to \in Nat /\ f.from \in Nat /\ 1 <= f.from /\ f.from <= f.to
      /\ \A h \in Nat : since <= h /\ f.from <= Month(h) /\ h < begin /\ Month(h) \notin seams
                          => h \in f.rows
  BY <1>1, NextIs
<1>3. /\ x = [f EXCEPT !.rows = f.rows \cup bars, !.to = last, !.tail = t] /\ begin < Upper(c)
  BY DEF File
<1>4. f.rows \subseteq Halves /\ \A r \in f.rows : r <= 2 * f.to /\ r \in Nat
  BY HalfTypes DEF File, FileOK
<1> HIDE DEF to, begin, t, last
<1>5. /\ bars \subseteq Halves
      /\ \A h \in bars : h \in Nat /\ h < Upper(c) /\ h <= half
      /\ \A h \in Nat : begin <= h /\ h < Upper(c) /\ since <= h /\ h <= half => h \in bars
  <2>1. begin \in Int /\ Upper(c) \in Int
    BY <1>1, <1>2
  <2> QED
    BY <2>1, DailyBars
<1> HIDE DEF bars
<1>6. f.to <= to
  BY <1>1, <1>2, <1>3
<1>7. last = to
  <2> DEFINE S == {f.to, to}
  <2>1. S \subseteq 0 .. to /\ S # {}
    BY <1>1, <1>2, <1>6
  <2> HIDE DEF S
  <2>2. Max(S) \in S /\ \A k \in S : k <= Max(S)
    BY <1>1, <2>1, MaxIs
  <2> QED
    BY <1>1, <1>2, <1>6, <2>2 DEF S, last
<1>8. /\ x \in File /\ x.rows = f.rows \cup bars /\ x.from = f.from /\ x.to = to /\ x.tail = t
  BY <1>1, <1>3, <1>4, <1>5, <1>7 DEF File
<1>9. ASSUME NEW h \in Nat, since <= h, Claims(x, h), Month(h) \notin seams
      PROVE  h \in x.rows
  <2>1. /\ Month(h) \in Int /\ f.from <= Month(h)
        /\ Month(h) < to \/ (Month(h) = to /\ (~Open(x) \/ \E r \in f.rows \cup bars : h <= r))
    <3>1. Month(h) \in Int
      BY DEF Month
    <3> QED
      BY <1>8, <1>9, <3>1 DEF Claims
  <2>2. 2 * Month(h) - 1 <= h /\ h <= 2 * Month(h)
    BY DEF Month
  <2>3. CASE h < begin
    BY <1>2, <1>8, <1>9, <2>1, <2>3
  <2>4. CASE begin <= h /\ to < Month(t)
    BY <1>1, <1>5, <1>8, <1>9, <2>1, <2>2, <2>4
  <2>5. CASE begin <= h /\ to = Month(t)
    <3>1. Open(x)
      BY <1>1, <1>8, <2>5 DEF Open
    <3>2. CASE Month(h) < to
      BY <1>1, <1>5, <1>8, <1>9, <2>1, <2>2, <2>5, <3>2
    <3>3. CASE Month(h) = to /\ \E r \in f.rows \cup bars : h <= r
      <4>1. PICK r \in f.rows \cup bars : h <= r
        BY <3>3
      <4>2. CASE r \in bars
        <5>1. r < Upper(c) /\ r <= half /\ r \in Nat /\ Upper(c) \in Nat
          BY <1>1, <1>5, <4>2
        <5> QED
          BY <1>1, <1>5, <1>8, <1>9, <2>5, <4>1, <5>1
      <4>3. CASE r \in f.rows
        <5>1. f.to = Month(h)
          BY <1>1, <1>2, <1>4, <1>6, <2>1, <2>2, <3>3, <4>1, <4>3
        <5>2. Claims(f, h)
          BY <2>1, <4>1, <4>3, <5>1 DEF Claims
        <5> QED
          BY <1>8, <1>9, <5>2 DEF FileOK
      <4> QED
        BY <4>1, <4>2, <4>3
    <3> QED
      BY <2>1, <3>1, <3>2, <3>3
  <2> QED
    BY <1>1, <1>2, <2>3, <2>4, <2>5
<1>10. \A r \in x.rows : r <= 2 * x.to
  BY <1>1, <1>2, <1>4, <1>5, <1>6, <1>8
<1>11. 1 <= x.from /\ x.from <= x.to /\ x.to <= Month(half)
  BY <1>1, <1>2, <1>6, <1>8
<1> QED
  BY <1>8, <1>9, <1>10, <1>11 DEF FileOK

LEMMA ExtendStep ==
  ASSUME CacheIInv, NEW c \in Callers, Extend(c)
  PROVE  CacheIInv'
<1> DEFINE y     == task[c]
           f     == y.seen
           t     == y.t
           s     == Month(y.start)
           to    == Month(EndOf(c, t))
           early == s < f.from
           front == IF early THEN [f EXCEPT !.from = s, !.rows = @ \cup Bars(FirstOf(s), FirstOf(f.from))]
                    ELSE f
           begin == NextFetch(front, t)
           later == (f.to >= Month(t) \/ Open(f) \/ to > f.to) /\ begin < Upper(c)
           both  == IF later THEN [front EXCEPT !.rows = @ \cup Bars(begin, Upper(c)),
                                     !.to = Max({@, to}), !.tail = t]
                    ELSE front
<1>1. /\ y \in Tasks /\ y.at = "extend" /\ single = TRUE /\ daily = TRUE /\ Sound(y, half)
      /\ task \in [Callers -> Tasks] /\ CallerOK(y, since, half, seams, daily, single, parts)
      /\ half \in Nat
  BY CallerIs DEF Extend, OneFile
<1>2. f \in File /\ f # NoFile /\ FileOK(f, since, half, seams)
  BY <1>1 DEF CallerOK, Tasks
<1>3. s \in Nat /\ 1 <= s
  BY <1>1, SoundTypes
<1>4. front \in File /\ front # NoFile /\ FileOK(front, since, half, seams)
  <2>1. CASE early
    <3>1. front = [f EXCEPT !.from = s, !.rows = @ \cup Bars(FirstOf(s), FirstOf(f.from))]
      BY <2>1
    <3> HIDE DEF front, f, s
    <3> QED
      BY <1>1, <1>2, <1>3, <2>1, <3>1, FrontIs DEF early
  <2>2. CASE ~early
    BY <1>2, <2>2
  <2> QED
    BY <2>1, <2>2
<1>5. both \in File /\ FileOK(both, since, half, seams)
  <2>1. CASE later
    <3>1. /\ NextFetch(front, task[c].t) < Upper(c)
          /\ both = [front EXCEPT !.rows = @ \cup Bars(NextFetch(front, task[c].t), Upper(c)),
                       !.to = Max({@, Month(EndOf(c, task[c].t))}), !.tail = task[c].t]
      BY <2>1
    <3>2. task[c].at # "none"
      BY <1>1
    <3> HIDE DEF both, front
    <3> QED
      BY <1>1, <1>4, <3>1, <3>2, BehindIs
  <2>2. CASE ~later
    BY <1>4, <2>2
  <2> QED
    BY <2>1, <2>2
<1>6. UNCHANGED <<fixed, whole, parts, seams>>
  BY DEF Extend
<1>7. CASE early \/ later
  <2> DEFINE x == [y EXCEPT !.at = "write", !.got = both]
  <2>1. task' = [task EXCEPT ![c] = x]
    <3>1. task' = [task EXCEPT ![c].at = "write", ![c].got = both]
      BY <1>7 DEF Extend
    <3> HIDE DEF both
    <3> QED
      BY <1>1, <3>1
  <2> HIDE DEF both
  <2>2. /\ x \in Tasks /\ x.at = "write" /\ x.got = both /\ x.t = y.t /\ x.start = y.start
        /\ x.end = y.end
    BY <1>1, <1>5 DEF Tasks, OneFile
  <2> HIDE DEF x
  <2>3. CallerOK(x, since, half, seams, daily, single, parts)
    BY <1>1, <1>5, <2>2 DEF CallerOK, Sound, Monthly, Carries
  <2> QED
    BY <1>6, <2>1, <2>2, <2>3, OnlyLooks
<1>8. CASE ~(early \/ later)
  <2>1. Rest(c)
    BY <1>8 DEF Extend
  <2> QED
    BY <1>6, <2>1, RestStep
<1> QED
  BY <1>7, <1>8

LEMMA DailyRowsIn ==
  ASSUME NEW s \in Int, NEW e \in Int, NEW q \in Int, NEW o \in Int,
         NEW rows, rows = {h \in s .. e : o <= h /\ h <= q}
  PROVE  /\ \A h \in rows : h \in Int /\ s <= h /\ h <= e /\ h <= q
         /\ \A h \in Int : s <= h /\ o <= h /\ h <= e /\ h <= q => h \in rows
  OBVIOUS

\* A batch brings the range it asked for, fetched as far as it had come.
LEMMA BatchFile ==
  ASSUME NEW y \in Tasks, NEW n \in Nat, Sound(y, n), NEW o \in Nat, NEW w, NEW q \in y.t .. n,
         NEW end \in Nat, end = (IF y.end = 0 THEN n ELSE y.end),
         NEW r \in Nat, r = n \/ r = end + 1, r <= n, r <= end + 1,
         NEW g \in File, g.rows = Answered(y, q, o, TRUE, TRUE), g.from = Month(y.start),
         g.to = Month(end), g.tail = r
  PROVE  FileOK(g, o, n, w)
<1>1. /\ y.t \in Nat /\ y.start \in Nat /\ y.end \in Nat /\ y.t <= n /\ n <= y.t + 1
      /\ 1 <= y.start /\ y.start <= y.t /\ y.end <= y.t /\ (y.end # 0 => y.start <= y.end)
      /\ q \in Nat /\ y.t <= q /\ q <= n
  BY SoundTypes
<1>2. end <= n /\ y.start <= end
  BY <1>1
<1> DEFINE s  == Month(y.start)
           to == Month(end)
<1>3. /\ s \in Nat /\ 1 <= s /\ s <= to /\ to <= Month(n) /\ to \in Nat
      /\ 2 * to - 1 <= end /\ end <= 2 * to
  BY <1>1, <1>2 DEF Month
<1>4. g.from = s /\ g.to = to
  OBVIOUS
<1>5. Open(g) <=> Month(r) <= to
  BY DEF Open
<1> HIDE DEF s, to
<1> DEFINE e == IF y.end = 0 THEN q ELSE y.end
<1>6. e \in Nat /\ e <= end /\ (y.end # 0 => e = end) /\ (y.end = 0 => e = q /\ end = n)
  BY <1>1
<1> DEFINE R == g.rows
<1>7. /\ \A h \in R : h \in Int /\ 2 * s - 1 <= h /\ h <= e /\ h <= q
      /\ \A h \in Int : 2 * s - 1 <= h /\ o <= h /\ h <= e /\ h <= q => h \in R
  <2>1. FirstOf(Month(y.start)) = 2 * s - 1
    BY DEF FirstOf, s
  <2>2. R = {h \in 2 * s - 1 .. e : o <= h /\ h <= q}
    BY <2>1 DEF Answered
  <2> HIDE DEF e, R
  <2>3. 2 * s - 1 \in Int /\ e \in Int /\ q \in Int /\ o \in Int
    BY <1>1, <1>3, <1>6
  <2> QED
    BY <2>2, <2>3, DailyRowsIn
<1> HIDE DEF e, R
<1>8. \A h \in R : h \in Int /\ h <= e /\ h <= 2 * to
  BY <1>3, <1>6, <1>7
<1>9. ASSUME NEW h \in Nat, o <= h, Claims(g, h) PROVE h \in R
  <2>1. /\ Month(h) \in Int /\ s <= Month(h)
        /\ Month(h) < to \/ (Month(h) = to /\ (~Open(g) \/ \E k \in R : h <= k))
    <3>1. Month(h) \in Int
      BY DEF Month
    <3> QED
      BY <1>4, <1>9, <3>1 DEF Claims, R
  <2>2. 2 * s - 1 <= h /\ 2 * Month(h) - 1 <= h /\ h <= 2 * Month(h)
    BY <1>3, <2>1 DEF Month
  <2>3. CASE \E k \in R : h <= k
    <3>1. PICK k \in R : h <= k
      BY <2>3
    <3>2. k \in Int /\ k <= e /\ k <= q
      BY <1>7, <3>1
    <3> QED
      BY <1>1, <1>3, <1>6, <1>7, <1>9, <2>2, <3>1, <3>2
  <2>4. CASE Month(h) < to
    <3>1. h < 2 * to - 1
      BY <1>3, <2>1, <2>2, <2>4
    <3>2. h < end
      BY <1>3, <3>1
    <3>3. h <= e /\ h <= q
      BY <1>1, <1>2, <1>6, <3>2
    <3> QED
      BY <1>3, <1>6, <1>7, <1>9, <2>2, <3>3
  <2>5. CASE Month(h) = to /\ ~Open(g)
    <3>1. r > 2 * to
      <4>1. to < Month(r)
        BY <1>3, <1>5, <2>5 DEF Month
      <4> QED
        BY <1>3, <4>1 DEF Month
    <3>2. r = end + 1 /\ end = 2 * to /\ end < n
      BY <1>2, <1>3, <3>1
    <3>3. y.end # 0 /\ e = end
      BY <1>6, <3>2
    <3>4. h <= e /\ h <= q
      BY <1>1, <1>3, <2>2, <2>5, <3>2, <3>3
    <3> QED
      BY <1>3, <1>6, <1>7, <1>9, <2>2, <3>4
  <2> QED
    BY <2>1, <2>3, <2>4, <2>5
<1> QED
  BY <1>3, <1>4, <1>8, <1>9 DEF FileOK, R

LEMMA SaveStep ==
  ASSUME CacheIInv, NEW c \in Callers, Save(c)
  PROVE  CacheIInv'
<1> DEFINE y    == task[c]
           end  == EndOf(c, half)
           g    == [y.got EXCEPT !.from = Month(y.start), !.to = Month(end), !.tail = Reach(c)]
           x    == [y EXCEPT !.at = "merge", !.got = g]
<1>1. /\ y \in Tasks /\ y.at = "save" /\ single = TRUE /\ daily = TRUE /\ Sound(y, half)
      /\ task \in [Callers -> Tasks] /\ CallerOK(y, since, half, seams, daily, single, parts)
      /\ half \in Nat /\ since \in Nat /\ 1 <= half
  BY CallerIs DEF Save, CacheIInv
<1>2. /\ y.t \in Nat /\ y.start \in Nat /\ y.end \in Nat /\ y.t <= half /\ half <= y.t + 1
      /\ 1 <= y.start /\ y.start <= y.t /\ y.end <= y.t /\ (y.end # 0 => y.start <= y.end)
      /\ Month(y.start) \in Nat
  BY <1>1, SoundTypes
<1>3. task' = [task EXCEPT ![c] = x] /\ UNCHANGED <<fixed, whole, parts, seams>>
  BY <1>1 DEF Save
<1>4. end \in Nat /\ end = (IF y.end = 0 THEN half ELSE y.end) /\ Month(end) \in Nat
  <2>1. end \in Nat /\ end = (IF y.end = 0 THEN half ELSE y.end)
    BY <1>1, <1>2 DEF EndOf
  <2> QED
    BY <2>1 DEF Month
<1>5. /\ Reach(c) \in Nat /\ (Reach(c) = half \/ Reach(c) = end + 1)
      /\ Reach(c) <= half /\ Reach(c) <= end + 1
  <2> DEFINE S == {half, end + 1}
  <2>1. S \in SUBSET Nat /\ S # {}
    BY <1>1, <1>4
  <2>2. Reach(c) = Min(S)
    BY DEF Reach
  <2> HIDE DEF S, end
  <2>3. Min(S) \in S /\ \A k \in S : Min(S) <= k
    BY <2>1, MinIs
  <2> QED
    BY <1>4, <1>1, <2>2, <2>3 DEF S
<1> HIDE DEF end
<1>6. PICK q \in y.t .. half : y.got.rows = Answered(y, q, since, TRUE, TRUE)
  BY <1>1 DEF CallerOK
<1>7. /\ g \in File /\ g.rows = y.got.rows /\ g.from = Month(y.start) /\ g.to = Month(end)
      /\ g.tail = Reach(c)
  <2>1. y.got \in File
    BY <1>1 DEF Tasks
  <2> QED
    BY <1>2, <1>4, <1>5, <2>1 DEF File
<1> HIDE DEF g
<1>8. FileOK(g, since, half, seams)
  BY <1>1, <1>4, <1>5, <1>6, <1>7, BatchFile
<1>9. /\ x \in Tasks /\ x.at = "merge" /\ x.got = g /\ x.t = y.t /\ x.start = y.start /\ x.end = y.end
  BY <1>1, <1>7 DEF Tasks, OneFile
<1> HIDE DEF x
<1>10. CallerOK(x, since, half, seams, daily, single, parts)
  BY <1>1, <1>8, <1>9 DEF CallerOK, Sound, Monthly, Carries
<1> QED
  BY <1>3, <1>9, <1>10, OnlyLooks

\* A file replaces what there was, and the caller is done or looks once more.
LEMMA FileStep ==
  ASSUME CacheIInv, NEW c \in Callers, single = TRUE, UNCHANGED <<fixed, parts>>,
         task[c].at # "none", whole' \in File, seams \subseteq seams',
         FileOK(whole', since, half, seams'), Rest(c) \/ Go(c, "reread")
  PROVE  CacheIInv'
<1>1. /\ task[c] \in Tasks /\ daily = TRUE /\ Sound(task[c], half)
      /\ CallerOK(task[c], since, half, seams, daily, single, parts)
      /\ half \in Nat /\ since \in Nat /\ parts \in Dirs /\ DirOK(parts, since, half, seams)
      /\ parts' = parts
  BY CallerIs DEF CacheIInv
<1>2. DirOK(parts', since, half, seams')
  BY <1>1, DirLater
<1>3. CASE Rest(c)
  <2>1. task' = [task EXCEPT ![c] = Resting]
    BY <1>3 DEF Rest
  <2> QED
    BY <1>1, <1>2, <2>1, RestingOK, OneMoves
<1>4. CASE Go(c, "reread")
  <2> DEFINE x == [task[c] EXCEPT !.at = "reread"]
  <2>1. task' = [task EXCEPT ![c] = x]
    BY <1>4 DEF Go
  <2>2. x \in Tasks /\ x.at = "reread" /\ x.t = task[c].t /\ x.start = task[c].start
        /\ x.end = task[c].end
    BY <1>1 DEF Tasks, OneFile
  <2> HIDE DEF x
  <2>3. CallerOK(x, since, half, seams', daily, single, parts')
    BY <1>1, <2>2 DEF CallerOK, Sound, Monthly, Carries
  <2> QED
    BY <1>1, <1>2, <2>1, <2>2, <2>3, OneMoves
<1> QED
  BY <1>3, <1>4

LEMMA WriteStep ==
  ASSUME CacheIInv, NEW c \in Callers, Write(c)
  PROVE  CacheIInv'
<1>1. /\ task[c] \in Tasks /\ task[c].at = "write" /\ single = TRUE
      /\ CallerOK(task[c], since, half, seams, daily, single, parts)
  BY CallerIs DEF Write, OneFile
<1>2. task[c].got \in File /\ FileOK(task[c].got, since, half, seams)
  BY <1>1 DEF CallerOK, Carries, Tasks
<1>3. /\ whole' = task[c].got /\ Rest(c) /\ UNCHANGED <<fixed, parts>>
      /\ seams' = seams
  BY DEF Write
<1> QED
  BY <1>1, <1>2, <1>3, FileStep

\* What was fetched is joined to what is there now, over a gap never.
LEMMA MergeSingleStep ==
  ASSUME CacheIInv, NEW c \in Callers, MergeSingle(c)
  PROVE  CacheIInv'
<1> DEFINE f == task[c].seen
           g == task[c].got
           j == Join(f, g)
           x == [rows |-> f.rows \cup g.rows, from |-> j.from, to |-> j.to, tail |-> j.tail]
<1>1. /\ task[c] \in Tasks /\ task[c].at = "merging" /\ single = TRUE
      /\ CallerOK(task[c], since, half, seams, daily, single, parts)
      /\ half \in Nat /\ since \in Nat /\ whole \in File /\ FileOK(whole, since, half, seams)
  BY CallerIs DEF MergeSingle, OneFile
<1>2. /\ f \in File /\ FileOK(f, since, half, seams)
      /\ g \in File /\ FileOK(g, since, half, seams)
  BY <1>1 DEF CallerOK, Carries, Tasks
<1>3. UNCHANGED <<fixed, parts>> /\ (Rest(c) \/ Go(c, "reread"))
  BY DEF MergeSingle
<1>4. CASE f = NoFile
  <2>1. whole' = g /\ seams' = seams
    BY <1>4 DEF MergeSingle
  <2> QED
    BY <1>1, <1>2, <1>3, <2>1, FileStep
<1>5. CASE f # NoFile /\ g.rows = {}
  <2>1. whole' = whole /\ seams' = seams
    BY <1>5 DEF MergeSingle
  <2> QED
    BY <1>1, <1>3, <2>1, FileStep
<1>6. CASE f # NoFile /\ g.rows # {}
  <2>1. whole' = x /\ seams' = seams \cup SewnOver(f, g)
    BY <1>6 DEF MergeSingle
  <2>2. g # NoFile
    BY <1>6 DEF NoFile
  <2> HIDE DEF f, g
  <2>3. x \in File /\ FileOK(x, since, half, seams \cup SewnOver(f, g))
    BY <1>1, <1>2, <1>6, <2>2, Joined
  <2> HIDE DEF x
  <2> QED
    BY <1>1, <1>3, <2>1, <2>3, FileStep
<1> QED
  BY <1>4, <1>5, <1>6

-----------------------------------------------------------------------------
(* The clock, the update, and the theorem.                                   *)

LEMMA NextHalfStep ==
  ASSUME CacheIInv, NextHalf
  PROVE  CacheIInv'
<1>1. /\ half \in Nat /\ half + 1 \in Halves /\ half' = half + 1 /\ since \in Nat
      /\ parts \in Dirs /\ whole \in File /\ task \in [Callers -> Tasks]
  BY HalfTypes DEF NextHalf, CacheIInv, CacheTypes, Halves
<1>2. /\ daily' = daily /\ single' = single /\ since' = since /\ whole' = whole /\ parts' = parts
      /\ task' = task /\ seams' = seams
      /\ \A c \in Callers : task[c].at # "none" => task[c].t = half
  BY DEF NextHalf
<1>3. DirOK(parts, since, half', seams)
  BY <1>1, DirLater DEF CacheIInv
<1>4. FileOK(whole, since, half', seams)
  BY <1>1, FileLater DEF CacheIInv
<1>5. ASSUME NEW c \in Callers
      PROVE  CallerOK(task[c], since, half', seams, daily, single, parts)
  <2>1. CallerOK(task[c], since, half, seams, daily, single, parts) /\ task[c] \in Tasks
    BY <1>1 DEF CacheIInv
  <2>2. half' \in Nat /\ half' = half + 1 /\ (task[c].at # "none" => task[c].t = half)
    BY <1>1, <1>2
  <2> QED
    BY <1>1, <2>1, <2>2, CallerLater
<1> QED
  BY <1>1, <1>2, <1>3, <1>4, <1>5 DEF CacheIInv, CacheTypes

LEMMA UpgradeStep ==
  ASSUME CacheIInv, Upgrade
  PROVE  CacheIInv'
<1>1. /\ daily = TRUE /\ single' = TRUE
      /\ UNCHANGED <<daily, half, since, whole, parts, task, calls, seams>>
      /\ \A c \in Callers : task[c].at = "none"
  BY DEF Upgrade, CacheIInv, CacheTypes
<1>2. ASSUME NEW c \in Callers
      PROVE  CallerOK(task[c], since, half, seams, daily, TRUE, parts)
  BY <1>1 DEF CallerOK, Monthly, OneFile, Carries
<1> QED
  BY <1>1, <1>2 DEF CacheIInv, CacheTypes

LEMMA CacheStarts ==
  ASSUME CacheInit
  PROVE  CacheIInv
<1>1. /\ daily \in BOOLEAN /\ single \in BOOLEAN /\ (single => daily)
      /\ half \in Halves /\ half \in Nat /\ since \in Halves /\ since \in Nat /\ 1 <= since
      /\ whole = NoFile /\ seams = {} /\ task = [c \in Callers |-> Resting]
  BY HalfTypes DEF CacheInit
<1>2. ASSUME NEW m \in Months
      PROVE  /\ parts[m] \in Part /\ parts[m].rows \subseteq OfMonth(m)
             /\ parts[m] # NoPart => m <= Month(half)
             /\ UpTo(m, parts[m].rows, since)
             /\ Month(parts[m].mtime) > m => Filled(m, parts[m].rows, since)
  <2>1. parts[m] \in LeftOf(m) /\ m \in Nat /\ 1 <= m
    BY HalfTypes DEF CacheInit
  <2>2. CASE parts[m] = NoPart
    <3>1. Month(0) = 0
      BY MonthIs
    <3> QED
      BY <2>1, <2>2, <3>1 DEF NoPart, Part, UpTo
  <2>3. CASE parts[m] # NoPart
    <3>1. PICK p \in FirstOf(m) .. FirstOf(m + 1) :
             p <= half /\ parts[m] = [rows |-> {h \in OfMonth(m) : since <= h /\ (IF daily THEN h <= p ELSE h < p)},
                                      mtime |-> p]
      BY <2>1, <2>3 DEF LeftOf
    <3>2. p \in Nat /\ 2 * m - 1 <= p /\ p <= 2 * m + 1
      BY <2>1, <3>1 DEF FirstOf
    <3>3. /\ parts[m].mtime = p
          /\ parts[m].rows = {h \in OfMonth(m) : since <= h /\ (IF daily THEN h <= p ELSE h < p)}
      BY <3>1
    <3>4. \A h \in OfMonth(m) : h \in Nat /\ 1 <= h /\ 2 * m - 1 <= h /\ h <= 2 * m
      BY <2>1, OfMonthIs
    <3>5. parts[m].rows \subseteq Halves
      <4>1. half <= LastHalf /\ LastHalf \in Nat /\ half \in Nat /\ daily \in BOOLEAN
        BY <1>1, HalfTypes
      <4>2. \A h \in parts[m].rows : h \in Nat /\ 1 <= h /\ h <= p
        BY <3>2, <3>3, <3>4, <4>1
      <4> QED
        BY <3>1, <3>2, <4>1, <4>2 DEF Halves
    <3>6. UpTo(m, parts[m].rows, since)
      BY <1>1, <3>2, <3>3, <3>4 DEF UpTo
    <3>7. m <= Month(half)
      BY <1>1, <2>1, <3>1, <3>2 DEF Month
    <3>8. ASSUME Month(p) > m PROVE Filled(m, parts[m].rows, since)
      <4>1. p > 2 * m
        BY <2>1, <3>2, <3>8 DEF Month
      <4> QED
        BY <1>1, <2>1, <3>2, <3>3, <3>4, <4>1 DEF Filled
    <3>9. parts[m] \in Part
      BY <3>1, <3>2, <3>3, <3>5 DEF Part
    <3> QED
      BY <3>3, <3>6, <3>7, <3>8, <3>9
  <2> QED
    BY <2>2, <2>3
<1>3. DirOK(parts, since, half, seams)
  BY <1>2 DEF DirOK
<1>4. parts \in Dirs
  <2>1. parts \in [Months -> UNION {LeftOf(m) : m \in Months}]
    BY DEF CacheInit
  <2> QED
    BY <1>2, <2>1 DEF Dirs
<1>5. whole \in File /\ FileOK(whole, since, half, seams)
  BY <1>1, EmptyDirOK
<1>6. task \in [Callers -> Tasks] /\ \A c \in Callers : CallerOK(task[c], since, half, seams, daily, single, parts)
  BY <1>1, RestingOK
<1> QED
  BY <1>1, <1>3, <1>4, <1>5, <1>6 DEF CacheIInv, CacheTypes

LEMMA CacheStep ==
  ASSUME CacheIInv, [CacheNext]_cacheVars
  PROVE  CacheIInv'
<1>1. CASE NextHalf
  BY <1>1, NextHalfStep
<1>2. CASE Upgrade
  BY <1>2, UpgradeStep
<1>3. ASSUME NEW c \in Callers,
             \/ Call(c) \/ Plan(c) \/ FillMonth(c) \/ Peek(c) \/ KeepMonth(c)
             \/ BatchFetch(c) \/ SaveMonths(c) \/ MarkEmpty(c)
             \/ ReadSingle(c) \/ TakeDir(c) \/ Migrate(c) \/ MigrateFails(c)
             \/ Extend(c) \/ ColdFetch(c) \/ Write(c) \/ Save(c) \/ MergeSingle(c)
      PROVE  CacheIInv'
  BY <1>3, CallStep, PlanStep, FillStep, PeekStep, KeepStep, BatchStep, SaveMonthsStep, MarkEmptyStep,
     ReadSingleStep, TakeDirStep, MigrateStep, MigrateFailsStep, ExtendStep, ColdFetchStep, WriteStep,
     SaveStep, MergeSingleStep
<1>4. ASSUME NEW c \in Callers, MonthFetchFails(c) \/ FetchFails(c)
      PROVE  CacheIInv'
  <2>1. task[c].at # "none" /\ GiveUp(c) /\ UNCHANGED <<fixed, whole, parts, seams>>
    BY <1>4 DEF MonthFetchFails, FetchFails
  <2> QED
    BY <2>1, GiveUpStep
<1>5. ASSUME NEW c \in Callers, BatchFails(c) \/ Killed(c)
      PROVE  CacheIInv'
  <2>1. Rest(c) /\ UNCHANGED <<fixed, whole, parts, seams>>
    BY <1>5 DEF BatchFails, Killed
  <2> QED
    BY <2>1, RestStep
<1>6. CASE UNCHANGED cacheVars
  BY <1>6 DEF cacheVars, CacheIInv, CacheTypes, FileOK, Claims, Open, DirOK, CallerOK, Sound,
     Answered, Carries
<1> QED
  BY <1>1, <1>2, <1>3, <1>4, <1>5, <1>6 DEF CacheNext

LEMMA HolesLieInSeams ==
  ASSUME CacheIInv
  PROVE  HolesOnlyAtSeams
<1>1. /\ half \in Nat /\ half <= LastHalf /\ since \in Nat /\ 1 <= since /\ whole \in File
      /\ parts \in Dirs /\ single \in BOOLEAN
      /\ FileOK(whole, since, half, seams) /\ DirOK(parts, since, half, seams)
  BY HalfTypes DEF CacheIInv, CacheTypes
<1> SUFFICES ASSUME NEW h \in Final, since <= h, h \notin Held, Month(h) \notin seams
             PROVE  FALSE
  BY DEF HolesOnlyAtSeams, Frozen
<1>2. CASE single = TRUE /\ whole = NoFile
  BY <1>2 DEF Final
<1>3. CASE single = TRUE /\ whole # NoFile
  <2>1. h \in FirstOf(whole.from) .. NextFetch(whole, half) - 1 /\ h \notin whole.rows
    BY <1>3 DEF Final, Held
  <2>2. /\ NextFetch(whole, half) \in Nat /\ whole.from \in Nat /\ 1 <= whole.from
        /\ \A k \in Nat : since <= k /\ whole.from <= Month(k) /\ k < NextFetch(whole, half)
                            /\ Month(k) \notin seams => k \in whole.rows
    BY <1>1, <1>3, NextIs
  <2>3. FirstOf(whole.from) = 2 * whole.from - 1
    BY DEF FirstOf
  <2>4. h \in Nat /\ 2 * whole.from - 1 <= h /\ h < NextFetch(whole, half)
    BY <2>1, <2>2, <2>3
  <2>5. whole.from <= Month(h)
    BY <2>2, <2>4 DEF Month
  <2> QED
    BY <2>1, <2>2, <2>4, <2>5
<1>4. CASE single = FALSE
  <2>1. PICK m \in Months : ~Unfinished(m) /\ h \in OfMonth(m)
    BY <1>4 DEF Final
  <2>2. m \in Nat /\ Month(h) = m
    BY <2>1, HalfTypes, OfMonthIs
  <2>3. Month(parts[m].mtime) > m
    <3>1. parts[m].mtime \in Nat /\ Month(parts[m].mtime) \in Int
      <4>1. parts[m].mtime \in Nat
        BY <1>1 DEF Dirs, Part
      <4> QED
        BY <4>1, MonthIs
    <3> QED
      BY <2>1, <2>2, <3>1 DEF Unfinished
  <2>4. Filled(m, parts[m].rows, since)
    BY <1>1, <2>2, <2>3 DEF DirOK
  <2>5. h \in parts[m].rows
    BY <2>1, <2>4 DEF Filled
  <2> QED
    BY <1>4, <2>5 DEF Held
<1> QED
  BY <1>1, <1>2, <1>3, <1>4

\* A bar that is missing from what the cache will never fetch again lies in a month
\* that was cached in part in one of the four ways get_data has: neither extending
\* nor merging nor migrating the file, nor any order in which processes that hold no
\* lock do so, nor a failed fetch, an unreadable file or a kill leaves another hole.
THEOREM HolesAreSeams == CacheSpec => []HolesOnlyAtSeams
<1>1. CacheInit => CacheIInv
  BY CacheStarts
<1>2. CacheIInv /\ [CacheNext]_cacheVars => CacheIInv'
  BY CacheStep
<1>3. CacheIInv => HolesOnlyAtSeams
  BY HolesLieInSeams
<1> QED
  BY <1>1, <1>2, <1>3, PTL DEF CacheSpec

-----------------------------------------------------------------------------
(* The desk.                                                                   *)

\* The clocks, the counts and what a read or a claim keeps of them.
DeskTypes ==
  /\ now \in Nat
  /\ sendMarker \in [Contracts -> Int] /\ lastSend \in [Contracts -> Int]
  /\ sent \in [Contracts -> Nat] /\ prompt \in [Contracts -> Nat]
  /\ query.shown \in [Contracts -> Nat]
  /\ snapshot.ok \in BOOLEAN
  /\ snapshot.ok => snapshot.started \in Nat /\ snapshot.shown \in [Contracts -> Nat]
  /\ reading # NoRead => reading.started \in Nat
  /\ order = [c \in Senders |-> order[c]]
  /\ \A c \in Senders : order[c].phase = "login" =>
       order[c].month \in Contracts /\ order[c].at \in Nat /\ order[c].shown \in Nat

\* A send is behind its marker, and no marker is of a time to come.
MarkedFirst ==
  \A m \in Contracts : /\ lastSend[m] <= sendMarker[m] /\ sendMarker[m] <= now
                       /\ sendMarker[m] = -1 => sent[m] = 0

\* What is not shown yet was sent no longer ago than Lag.
ShownInTime ==
  \A m \in Contracts : /\ query.shown[m] <= sent[m] /\ prompt[m] <= sent[m]
                       /\ query.shown[m] < sent[m] => now <= lastSend[m] + Lag

\* A read begun Settle after the last send shows it, while it is under way ...
ReadingShows ==
  reading # NoRead =>
    /\ reading.started <= now
    /\ \A m \in Contracts : lastSend[m] + Settle <= reading.started => query.shown[m] = sent[m]

\* ... and once it is in the file.
SnapshotShows ==
  snapshot.ok =>
    /\ snapshot.started <= now
    /\ \A m \in Contracts : lastSend[m] + Settle <= snapshot.started =>
         snapshot.shown[m] = sent[m]

\* An order on its way holds the marker; while it is prompt, its read shows all
\* the prompt ones before it.
ClaimsHold ==
  \A c \in Senders : order[c].phase = "login" =>
    /\ order[c].at <= sendMarker[order[c].month]
    /\ Prompt(order[c]) => order[c].shown >= prompt[order[c].month]

\* Two claims of one contract are Settle apart.
ClaimsApart ==
  \A c, d \in Senders :
    c # d /\ order[c].phase = "login" /\ order[d].phase = "login"
      /\ order[c].month = order[d].month =>
        order[c].at + Settle <= order[d].at \/ order[d].at + Settle <= order[c].at

DeskIInv == DeskTypes /\ MarkedFirst /\ ShownInTime /\ ReadingShows /\ SnapshotShows
              /\ ClaimsHold /\ ClaimsApart

LEMMA DeskInitOK == DeskInit => DeskIInv
<1> SUFFICES ASSUME DeskInit PROVE DeskIInv
  OBVIOUS
<1>1. DeskTypes
  BY DEF DeskInit, DeskTypes, Nothing, NoOrder, NoRead
<1>2. MarkedFirst /\ ShownInTime
  BY DEF DeskInit, MarkedFirst, ShownInTime, Nothing
<1>3. ReadingShows /\ SnapshotShows /\ ClaimsHold /\ ClaimsApart
  BY DEF DeskInit, ReadingShows, SnapshotShows, ClaimsHold, ClaimsApart, NoOrder, NoRead
<1> QED  BY <1>1, <1>2, <1>3 DEF DeskIInv

\* A claim that goes through was decided on a read Settle younger than the marker.
LEMMA ClaimIsCaughtUp ==
  ASSUME NEW c \in Senders, NEW m \in Contracts, NEW n, NEW i, Claim(c, m, n, i)
  PROVE  /\ order[c].phase = "none" /\ snapshot.ok
         /\ sendMarker[m] = -1 \/ snapshot.started >= sendMarker[m] + Settle
         /\ sendMarker' = [sendMarker EXCEPT ![m] = now]
         /\ order' = [order EXCEPT ![c] = [phase |-> "login", intent |-> i, month |-> m,
                                          lots |-> n, at |-> now, shown |-> snapshot.shown[m]]]
         /\ UNCHANGED <<now, sent, lastSend, prompt, query, reading, snapshot>>
  BY DEF Claim, CloseGoesTo, EntryGoesTo, CaughtUp, clock, broker, wire, reads

LEMMA ClaimStep ==
  ASSUME DeskIInv, NEW c \in Senders, NEW m \in Contracts, NEW n, NEW i, Claim(c, m, n, i)
  PROVE  DeskIInv'
<1> USE DeskAssumption DEF DeskIInv
<1>1. /\ order[c].phase = "none" /\ snapshot.ok
      /\ sendMarker[m] = -1 \/ snapshot.started >= sendMarker[m] + Settle
      /\ sendMarker' = [sendMarker EXCEPT ![m] = now]
      /\ order' = [order EXCEPT ![c] = [phase |-> "login", intent |-> i, month |-> m,
                                       lots |-> n, at |-> now, shown |-> snapshot.shown[m]]]
      /\ UNCHANGED <<now, sent, lastSend, prompt, query, reading, snapshot>>
  BY ClaimIsCaughtUp
<1>2. snapshot.started \in Nat /\ snapshot.shown \in [Contracts -> Nat]
  BY <1>1 DEF DeskTypes
<1>3. /\ order'[c].phase = "login" /\ order'[c].month = m /\ order'[c].at = now
      /\ order'[c].shown = snapshot.shown[m]
      /\ \A d \in Senders : d # c => order'[d] = order[d]
      /\ order' = [d \in Senders |-> order'[d]]
  BY <1>1 DEF DeskTypes
<1>4. DeskTypes'
  <2>1. \A d \in Senders : order'[d].phase = "login" =>
          order'[d].month \in Contracts /\ order'[d].at \in Nat /\ order'[d].shown \in Nat
    BY <1>2, <1>3 DEF DeskTypes
  <2>2. sendMarker' \in [Contracts -> Int]
    BY <1>1 DEF DeskTypes
  <2> QED  BY <1>1, <1>3, <2>1, <2>2 DEF DeskTypes
<1>5. MarkedFirst' /\ ShownInTime'
  BY <1>1 DEF DeskTypes, MarkedFirst, ShownInTime
<1>6. ReadingShows' /\ SnapshotShows'
  BY <1>1 DEF ReadingShows, SnapshotShows
<1>7. snapshot.shown[m] >= prompt[m]
  BY <1>1, <1>2 DEF DeskTypes, MarkedFirst, ShownInTime, SnapshotShows
<1>8. ClaimsHold'
  <2> SUFFICES ASSUME NEW d \in Senders, order'[d].phase = "login"
               PROVE  /\ order'[d].at <= sendMarker'[order'[d].month]
                      /\ Prompt(order[d])' => order'[d].shown >= prompt'[order'[d].month]
    BY DEF ClaimsHold
  <2>1. CASE d = c
    BY <2>1, <1>1, <1>3, <1>7 DEF DeskTypes
  <2>2. CASE d # c
    BY <2>2, <1>1, <1>3 DEF DeskTypes, MarkedFirst, ClaimsHold, Prompt
  <2> QED  BY <2>1, <2>2
<1>9. ASSUME NEW d \in Senders, d # c, order[d].phase = "login", order[d].month = m
      PROVE  order[d].at + Settle <= now
  BY <1>9, <1>1, <1>2 DEF DeskTypes, ClaimsHold, SnapshotShows
<1>10. ClaimsApart'
  BY <1>3, <1>9 DEF ClaimsApart
<1> QED  BY <1>4, <1>5, <1>6, <1>8, <1>10

LEMMA SendStep ==
  ASSUME DeskIInv, NEW c \in Senders, Send(c)
  PROVE  DeskIInv'
<1> USE DeskAssumption DEF DeskIInv
<1> DEFINE m == order[c].month
<1>1. order[c].phase = "login" /\ m \in Contracts /\ order[c].at \in Nat
  BY DEF Send, DeskTypes
<1>2. /\ sendMarker' = [sendMarker EXCEPT ![m] = now]
      /\ lastSend' = [lastSend EXCEPT ![m] = now]
      /\ sent' = [sent EXCEPT ![m] = @ + 1]
      /\ prompt' = IF Prompt(order[c]) THEN [prompt EXCEPT ![m] = sent[m] + 1] ELSE prompt
      /\ UNCHANGED <<now, query, reading, snapshot>>
  BY DEF Send, clock, reads
<1>3. /\ order' = [d \in Senders |-> order'[d]]
      /\ order'[c].phase = "sent"
      /\ \A d \in Senders : d # c => order'[d] = order[d]
  BY DEF Send, DeskTypes
<1>4. DeskTypes'
  BY <1>1, <1>2, <1>3 DEF DeskTypes
<1>5. MarkedFirst' /\ ShownInTime'
  BY <1>1, <1>2 DEF DeskTypes, MarkedFirst, ShownInTime
<1>6. ReadingShows' /\ SnapshotShows'
  BY <1>1, <1>2 DEF DeskTypes, ReadingShows, SnapshotShows
<1>7. ASSUME NEW d \in Senders, d # c, order[d].phase = "login", order[d].month = m,
             Prompt(order[d])
      PROVE  ~Prompt(order[c])
  BY <1>7, <1>1 DEF DeskTypes, MarkedFirst, ClaimsHold, ClaimsApart, Prompt
<1>8. ClaimsHold'
  <2> SUFFICES ASSUME NEW d \in Senders, order'[d].phase = "login"
               PROVE  /\ order'[d].at <= sendMarker'[order'[d].month]
                      /\ Prompt(order[d])' => order'[d].shown >= prompt'[order'[d].month]
    BY DEF ClaimsHold
  <2>1. d # c /\ order'[d] = order[d]
    BY <1>3
  <2>2. order[d].at <= sendMarker'[order[d].month]
    BY <2>1, <1>2 DEF DeskTypes, MarkedFirst, ClaimsHold
  <2>3. Prompt(order[d]) => order[d].shown >= prompt'[order[d].month]
    BY <2>1, <1>1, <1>2, <1>7 DEF DeskTypes, ClaimsHold
  <2> QED  BY <2>1, <2>2, <2>3, <1>2 DEF Prompt
<1>9. ClaimsApart'
  BY <1>3 DEF ClaimsApart
<1> QED  BY <1>4, <1>5, <1>6, <1>8, <1>9

LEMMA NotSentStep ==
  ASSUME DeskIInv, NEW c \in Senders, NotSent(c)
  PROVE  DeskIInv'
<1> USE DeskAssumption DEF DeskIInv
<1> DEFINE m == order[c].month
<1>1. m \in Contracts
  BY DEF NotSent, DeskTypes
<1>2. /\ sendMarker' \in {sendMarker, [sendMarker EXCEPT ![m] = now]}
      /\ order' = [order EXCEPT ![c] = NoOrder]
      /\ UNCHANGED <<now, sent, lastSend, prompt, query, reading, snapshot>>
  BY DEF NotSent, clock, broker, wire, reads
<1>3. /\ order' = [d \in Senders |-> order'[d]]
      /\ \A d \in Senders : order'[d].phase = "login" => order'[d] = order[d]
  BY <1>2 DEF DeskTypes, NoOrder
<1>4. DeskTypes'
  BY <1>1, <1>2, <1>3 DEF DeskTypes
<1>5. MarkedFirst' /\ ShownInTime'
  BY <1>1, <1>2 DEF DeskTypes, MarkedFirst, ShownInTime
<1>6. ReadingShows' /\ SnapshotShows' /\ ClaimsApart'
  BY <1>2, <1>3 DEF ReadingShows, SnapshotShows, ClaimsApart
<1>7. ClaimsHold'
  BY <1>2, <1>3 DEF DeskTypes, MarkedFirst, ClaimsHold, Prompt
<1> QED  BY <1>4, <1>5, <1>6, <1>7

LEMMA ReadStep ==
  ASSUME DeskIInv, StartRead \/ ReadPositions \/ ReadFails
  PROVE  DeskIInv'
<1> USE DeskAssumption DEF DeskIInv
<1>1. UNCHANGED <<now, sent, lastSend, prompt, query, sendMarker, order>>
  BY DEF StartRead, ReadPositions, ReadFails, clock, broker, wire
<1>2. MarkedFirst' /\ ShownInTime' /\ ClaimsHold' /\ ClaimsApart'
  BY <1>1 DEF MarkedFirst, ShownInTime, ClaimsHold, ClaimsApart, Prompt
<1>3. CASE StartRead
  <2>1. reading' = [ok |-> FALSE, started |-> now] /\ snapshot' = snapshot
    BY <1>3 DEF StartRead
  <2>2. \A m \in Contracts : lastSend[m] + Settle <= now => query.shown[m] = sent[m]
    BY DEF DeskTypes, ShownInTime
  <2> QED  BY <1>1, <1>2, <2>1, <2>2 DEF DeskTypes, ReadingShows, SnapshotShows
<1>4. CASE ReadPositions
  <2>1. /\ snapshot'.ok = TRUE /\ snapshot'.started = reading.started
        /\ snapshot'.shown = query.shown /\ reading # NoRead /\ reading' = NoRead
    BY <1>4 DEF ReadPositions
  <2> QED  BY <1>1, <1>2, <2>1 DEF DeskTypes, ReadingShows, SnapshotShows
<1>5. CASE ReadFails
  <2>1. reading' = NoRead /\ snapshot' \in {snapshot, NoRead} /\ NoRead.ok = FALSE
    BY <1>5 DEF ReadFails, NoRead
  <2>2. CASE snapshot' = snapshot
    BY <1>1, <1>2, <2>1, <2>2 DEF DeskTypes, ReadingShows, SnapshotShows
  <2>3. CASE snapshot' = NoRead
    BY <1>1, <1>2, <2>1, <2>3 DEF DeskTypes, ReadingShows, SnapshotShows
  <2> QED  BY <2>1, <2>2, <2>3
<1> QED  BY <1>3, <1>4, <1>5

LEMMA ShowsStep ==
  ASSUME DeskIInv, Shows
  PROVE  DeskIInv'
<1> USE DEF DeskIInv
<1>1. /\ query'.shown = sent
      /\ UNCHANGED <<now, sent, lastSend, prompt, sendMarker, order, reading, snapshot>>
  BY DEF Shows, clock, wire, reads
<1> QED
  BY <1>1 DEF DeskTypes, MarkedFirst, ShownInTime, ReadingShows, SnapshotShows, ClaimsHold,
              ClaimsApart, Prompt

LEMMA TickStep ==
  ASSUME DeskIInv, Tick
  PROVE  DeskIInv'
<1> USE DeskAssumption DEF DeskIInv
<1>1. /\ now' = now + 1
      /\ \A m \in Contracts : query.shown[m] < sent[m] => now < lastSend[m] + Lag
      /\ UNCHANGED <<sent, lastSend, prompt, query, sendMarker, order, reading, snapshot>>
  BY DEF Tick, broker, wire, reads
<1>2. DeskTypes' /\ MarkedFirst' /\ ShownInTime'
  BY <1>1 DEF DeskTypes, MarkedFirst, ShownInTime
<1>3. ReadingShows' /\ SnapshotShows' /\ ClaimsApart'
  BY <1>1 DEF DeskTypes, ReadingShows, SnapshotShows, ClaimsApart
<1>4. ClaimsHold'
  BY <1>1 DEF DeskTypes, ClaimsHold, Prompt
<1> QED  BY <1>2, <1>3, <1>4

\* The broker's other doings, the line in the book and a step of nobody.
LEMMA OtherStep ==
  ASSUME DeskIInv,
         \/ \E c \in Senders : Recorded(c)
         \/ \E m \in Contracts : UserBuys(m)
         \/ Roll \/ SettlementTime \/ Settles \/ UNCHANGED deskVars
  PROVE  DeskIInv'
<1> USE DEF DeskIInv
<1>1. UNCHANGED <<now, sent, lastSend, prompt, query, sendMarker, reading, snapshot>>
  BY DEF Recorded, UserBuys, Roll, SettlementTime, Settles, deskVars, clock, broker, wire, reads
<1>2. /\ order' = [d \in Senders |-> order'[d]]
      /\ \A d \in Senders : order'[d].phase = "login" => order'[d] = order[d]
  <2>1. CASE \E c \in Senders : Recorded(c)
    BY <2>1 DEF Recorded, DeskTypes, NoOrder
  <2>2. CASE order' = order
    BY <2>2 DEF DeskTypes
  <2> QED
    BY <2>1, <2>2 DEF UserBuys, Roll, SettlementTime, Settles, deskVars
<1> QED
  BY <1>1, <1>2 DEF DeskTypes, MarkedFirst, ShownInTime, ReadingShows, SnapshotShows, ClaimsHold,
                    ClaimsApart, Prompt

LEMMA DeskStep ==
  ASSUME DeskIInv, [DeskNext]_deskVars
  PROVE  DeskIInv'
<1>1. ASSUME NEW c \in Senders, OrderStep(c)
      PROVE  DeskIInv'
  BY <1>1, ClaimStep, SendStep, NotSentStep, OtherStep DEF OrderStep
<1> QED
  BY <1>1, ReadStep, ShowsStep, TickStep, OtherStep DEF DeskNext

\* An order that is sent was on its way, and its read shows the prompt ones before it.
LEMMA TurnStep ==
  ASSUME DeskIInv, [DeskNext]_deskVars
  PROVE  \A c \in Senders :
           order[c].phase = "login" /\ order'[c].phase = "sent" /\ Prompt(order[c]) =>
             order[c].shown >= prompt[order[c].month]
  BY DEF DeskIInv, ClaimsHold

\* An order that leaves within ORDER_SETTLE_S of its claim rests on a read that
\* shows each earlier one of its contract that did (order_president._claim, _send).
THEOREM OrdersInTurn == DeskSpec => SendsInTurn
<1>1. DeskSpec => []DeskIInv
  BY DeskInitOK, DeskStep, PTL DEF DeskSpec
<1> QED  BY <1>1, TurnStep, PTL DEF DeskSpec, SendsInTurn

-----------------------------------------------------------------------------
(* One contract month at a time, and no lot of the user's.                   *)

\* The lots, and what a read and an order keep of them.
LotTypes ==
  /\ listed \in BOOLEAN /\ outran \in BOOLEAN /\ calendar \in {"front", "rolled", "settled"}
  /\ lotsHeld \in [Contracts -> Nat] /\ own \in [Contracts -> Int] /\ book \in [Contracts -> Int]
  /\ query.lots \in [Contracts -> Nat]
  /\ snapshot.ok => /\ snapshot.lots \in [Contracts -> Nat]
                    /\ snapshot.oldIs \in {"listed", "gone", "unread"}
  /\ \A c \in Senders :
       /\ order[c].phase \in {"none", "login", "sent"}
       /\ order[c].phase = "login" => order[c].intent \in {"entry", "reduce"} /\ order[c].lots \in Nat
       /\ order[c].phase = "sent" => /\ order[c].month \in Contracts /\ order[c].at \in Nat
                                     /\ order[c].made \in Int

\* What a sent order has not recorded yet it made no longer ago than Await, and behind its marker.
SentLately ==
  \A c \in Senders : order[c].phase = "sent" =>
    order[c].at <= sendMarker[order[c].month] /\ now <= order[c].at + Await

\* A settled month holds nothing, and a list without it was read after that.
SettledIsEmpty ==
  /\ ~listed => lotsHeld["old"] = 0 /\ own["old"] = 0
  /\ snapshot.ok /\ snapshot.oldIs = "gone" => ~listed

\* A read that shows every send shows the bot's lots.
LotsShown ==
  \A m \in Contracts :
    /\ own[m] <= lotsHeld[m]
    /\ query.shown[m] = sent[m] => own[m] <= query.lots[m]
    /\ snapshot.ok => snapshot.shown[m] <= sent[m]
    /\ snapshot.ok /\ snapshot.shown[m] = sent[m] => own[m] <= snapshot.lots[m]

\* Nobody is about an order of a month beside one that is sent and not recorded,
\* except one whose login has taken too long.
SentAlone ==
  \A c, d \in Senders :
    c # d /\ order[c].phase = "sent" /\ order[d].phase \in {"login", "sent"}
      /\ order[c].month = order[d].month => order[d].phase = "login" /\ ~Prompt(order[d])

\* The book and what is not recorded yet are the bot's lots, until the month settles.
BookIsOwn ==
  \A m \in Contracts : m = "new" \/ listed =>
    /\ \A c \in Senders : order[c].phase = "sent" /\ order[c].month = m =>
         book[m] + order[c].made = own[m]
    /\ (\A c \in Senders : ~(order[c].phase = "sent" /\ order[c].month = m)) => book[m] = own[m]

\* A prompt entry has nothing in the other month to meet, and no other entry on its
\* way; a prompt close closes the bot's own.
EntriesHold ==
  \A c \in Senders : order[c].phase = "login" /\ order[c].intent = "entry" /\ Prompt(order[c]) =>
    /\ \A m \in Contracts \ {order[c].month} : own[m] = 0
    /\ \A d \in Senders \ {c} :
         order[d].phase = "login" /\ order[d].intent = "entry" => ~Prompt(order[d])
ClosesHold ==
  \A c \in Senders :
    /\ order[c].phase = "login" /\ order[c].intent = "reduce" /\ Prompt(order[c])
    /\ order[c].month = "new" \/ listed
    => order[c].lots <= own[order[c].month]

OneMonth == (own["old"] = 0 \/ own["new"] = 0) /\ own["old"] >= 0 /\ own["new"] >= 0

LotInv  == LotTypes /\ SentLately /\ SettledIsEmpty /\ LotsShown
HeldInv == SentAlone /\ BookIsOwn /\ EntriesHold /\ ClosesHold /\ OneMonth

MonthIInv == DeskIInv /\ LotInv /\ (~outran => HeldInv)

LEMMA MonthStart == DeskInit => LotInv /\ HeldInv
<1> SUFFICES ASSUME DeskInit PROVE LotInv /\ HeldInv
  OBVIOUS
<1>1. /\ \A c \in Senders : order[c].phase = "none"
      /\ snapshot.ok = FALSE /\ listed = TRUE /\ outran = FALSE /\ calendar = "front"
      /\ query.lots = Nothing /\ query.shown = Nothing
      /\ lotsHeld = Nothing /\ own = Nothing /\ book = Nothing /\ sent = Nothing
  BY DEF DeskInit, NoOrder, NoRead
<1>2. Nothing \in [Contracts -> Nat] /\ Nothing \in [Contracts -> Int] /\ \A m \in Contracts : Nothing[m] = 0
  BY DEF Nothing
<1>3. LotTypes
  BY <1>1, <1>2 DEF LotTypes
<1>4. SentLately /\ SettledIsEmpty /\ LotsShown
  BY <1>1, <1>2 DEF SentLately, SettledIsEmpty, LotsShown
<1>5. SentAlone /\ EntriesHold /\ ClosesHold
  BY <1>1 DEF SentAlone, EntriesHold, ClosesHold
<1>6. BookIsOwn /\ OneMonth
  BY <1>1, <1>2 DEF BookIsOwn, OneMonth, Contracts
<1> QED  BY <1>3, <1>4, <1>5, <1>6 DEF LotInv, HeldInv

\* Of a contract the snapshot has caught up with, nothing is sent and unrecorded,
\* nothing that is on its way is prompt, and the read shows every send.
LEMMA Quiet ==
  ASSUME DeskIInv, LotInv, snapshot.ok, NEW k \in Contracts,
         sendMarker[k] = -1 \/ snapshot.started >= sendMarker[k] + Settle
  PROVE  /\ \A d \in Senders : order[d].phase = "sent" => order[d].month # k
         /\ \A d \in Senders : order[d].phase = "login" /\ order[d].month = k => ~Prompt(order[d])
         /\ snapshot.shown[k] = sent[k]
<1> USE DeskAssumption DEF DeskIInv, LotInv
<1>1. /\ snapshot.started \in Nat /\ snapshot.started <= now /\ now \in Nat
      /\ sendMarker[k] \in Int /\ lastSend[k] \in Int /\ lastSend[k] <= sendMarker[k]
  BY DEF DeskTypes, SnapshotShows, MarkedFirst
<1>2. ASSUME NEW d \in Senders, order[d].phase = "sent", order[d].month = k
      PROVE  FALSE
  <2>1. order[d].at \in Nat /\ order[d].at <= sendMarker[k] /\ now <= order[d].at + Await
    BY <1>2 DEF LotTypes, SentLately
  <2> QED  BY <1>1, <2>1
<1>3. ASSUME NEW d \in Senders, order[d].phase = "login", order[d].month = k
      PROVE  ~Prompt(order[d])
  <2>1. order[d].at \in Nat /\ order[d].at <= sendMarker[k]
    BY <1>3 DEF DeskTypes, ClaimsHold
  <2> QED  BY <1>1, <2>1 DEF Prompt
<1>4. snapshot.shown[k] = sent[k]
  <2>1. CASE sendMarker[k] = -1
    <3>1. sent[k] = 0 /\ snapshot.shown[k] \in Nat /\ snapshot.shown[k] <= sent[k]
      BY <2>1 DEF MarkedFirst, DeskTypes, LotsShown
    <3> QED  BY <3>1
  <2>2. CASE sendMarker[k] # -1
    <3>1. lastSend[k] + Settle <= snapshot.started
      BY <1>1, <2>2
    <3> QED  BY <3>1 DEF SnapshotShows
  <2> QED  BY <2>1, <2>2
<1> QED  BY <1>2, <1>3, <1>4

\* An entry that is let through finds nothing of the bot's in the other month.
LEMMA EntryFinds ==
  ASSUME DeskIInv, LotInv, HeldInv, snapshot.ok, ~Unknown, NEW m \in Contracts, EntryGoesTo(m),
         NEW k \in Contracts \ {m}
  PROVE  own[k] = 0
<1> SUFFICES ASSUME own[k] # 0 PROVE FALSE
  OBVIOUS
<1>1. k \in Contracts /\ own[k] \in Int /\ own[k] > 0
  BY DEF LotInv, LotTypes, HeldInv, OneMonth, Contracts
<1>2. k = "new" \/ listed
  BY <1>1 DEF LotInv, SettledIsEmpty, Contracts
<1>3. sendMarker[k] = -1 \/ snapshot.started >= sendMarker[k] + Settle
  BY <1>1 DEF EntryGoesTo, CaughtUp
<1>4. /\ \A d \in Senders : order[d].phase = "sent" => order[d].month # k
      /\ snapshot.shown[k] = sent[k]
  BY <1>1, <1>3, Quiet
<1>5. book[k] = own[k]
  BY <1>1, <1>2, <1>4 DEF HeldInv, BookIsOwn
<1>6. own[k] <= snapshot.lots[k] /\ snapshot.lots[k] \in Nat
  BY <1>1, <1>4 DEF LotInv, LotsShown, LotTypes
<1>7. book[k] # 0 /\ snapshot.lots[k] # 0
  BY <1>1, <1>5, <1>6
<1>8. k = "old" /\ calendar = "settled" => snapshot.oldIs = "listed"
  BY <1>2, <1>7 DEF Unknown, LotInv, LotTypes, SettledIsEmpty
<1>9. k \in Rows
  BY <1>1, <1>7, <1>8 DEF Rows
<1> QED  BY <1>9 DEF EntryGoesTo

LEMMA ClaimMonths ==
  ASSUME DeskIInv, LotInv, NEW c \in Senders, NEW m \in Contracts, NEW n \in Nat,
         NEW i \in {"entry", "reduce"}, Claim(c, m, n, i)
  PROVE  LotInv' /\ (~outran' /\ HeldInv => HeldInv')
<1> USE DeskAssumption
<1>1. /\ order[c].phase = "none" /\ snapshot.ok
      /\ sendMarker[m] = -1 \/ snapshot.started >= sendMarker[m] + Settle
      /\ sendMarker' = [sendMarker EXCEPT ![m] = now]
      /\ order' = [order EXCEPT ![c] = [phase |-> "login", intent |-> i, month |-> m,
                                       lots |-> n, at |-> now, shown |-> snapshot.shown[m]]]
      /\ UNCHANGED <<now, sent, lastSend, prompt, query, reading, snapshot>>
  BY ClaimIsCaughtUp
<1>2. UNCHANGED <<listed, calendar, outran, lotsHeld, own, book>>
  BY DEF Claim, clock, broker, wire
<1>3. /\ order'[c].phase = "login" /\ order'[c].month = m /\ order'[c].at = now
      /\ order'[c].intent = i /\ order'[c].lots = n
      /\ \A d \in Senders : d # c => order'[d] = order[d]
  BY <1>1 DEF DeskIInv, DeskTypes
<1>4. LotTypes'
  BY <1>1, <1>2, <1>3 DEF LotInv, LotTypes
<1>5. SentLately'
  <2>1. /\ now \in Nat /\ \A k \in Contracts : sendMarker[k] \in Int /\ sendMarker[k] <= now
        /\ \A k \in Contracts : sendMarker'[k] = IF k = m THEN now ELSE sendMarker[k]
    BY <1>1 DEF DeskIInv, DeskTypes, MarkedFirst
  <2> SUFFICES ASSUME NEW d \in Senders, order'[d].phase = "sent"
               PROVE  order'[d].at <= sendMarker'[order'[d].month] /\ now' <= order'[d].at + Await
    BY DEF SentLately
  <2>2. d # c /\ order'[d] = order[d] /\ order[d].month \in Contracts /\ order[d].at \in Nat
    BY <1>3 DEF LotInv, LotTypes
  <2>3. order[d].at <= sendMarker[order[d].month] /\ now <= order[d].at + Await
    BY <2>2 DEF LotInv, SentLately
  <2> QED  BY <1>1, <2>1, <2>2, <2>3
<1>6. SettledIsEmpty' /\ LotsShown'
  BY <1>1, <1>2 DEF LotInv, SettledIsEmpty, LotsShown
<1>7. ASSUME HeldInv
      PROVE  HeldInv'
  <2>1. /\ \A d \in Senders : order[d].phase = "sent" => order[d].month # m
        /\ \A d \in Senders : order[d].phase = "login" /\ order[d].month = m => ~Prompt(order[d])
    BY <1>1, Quiet
  <2>2. \A d \in Senders \ {c} : Prompt(order[d])' <=> Prompt(order[d])
    BY <1>1, <1>3 DEF Prompt
  <2>3. SentAlone'
    BY <1>3, <1>7, <2>1, <2>2 DEF HeldInv, SentAlone
  <2>4. BookIsOwn'
    BY <1>2, <1>3, <1>1, <1>7 DEF HeldInv, BookIsOwn
  <2>5. OneMonth'
    BY <1>2, <1>7 DEF HeldInv, OneMonth
  <2>6. CASE i = "entry"
    <3>1. EntryGoesTo(m) /\ ~Unknown
      BY <2>6 DEF Claim
    <3>2. \A k \in Contracts \ {m} : own[k] = 0
      BY <1>1, <1>7, <3>1, EntryFinds
    <3>3. \A k \in Contracts : sendMarker[k] = -1 \/ snapshot.started >= sendMarker[k] + Settle
      BY <3>1 DEF EntryGoesTo, CaughtUp
    <3>4. \A d \in Senders : order[d].phase = "login" => ~Prompt(order[d])
      <4> SUFFICES ASSUME NEW d \in Senders, order[d].phase = "login"
                   PROVE  ~Prompt(order[d])
        OBVIOUS
      <4>1. order[d].month \in Contracts
        BY DEF DeskIInv, DeskTypes
      <4> QED  BY <1>1, <3>3, <4>1, Quiet
    <3>5. EntriesHold'
      BY <1>2, <1>3, <2>2, <3>2, <3>4 DEF EntriesHold
    <3>6. ClosesHold'
      BY <1>2, <1>3, <2>2, <2>6, <3>4 DEF ClosesHold
    <3> QED  BY <2>3, <2>4, <2>5, <3>5, <3>6 DEF HeldInv
  <2>7. CASE i = "reduce"
    <3>1. n <= book[m]
      BY <2>7 DEF Claim
    <3>2. m = "new" \/ listed => n <= own[m]
      BY <1>7, <2>1, <3>1 DEF HeldInv, BookIsOwn
    <3>3. EntriesHold'
      BY <1>2, <1>3, <1>7, <2>2, <2>7 DEF HeldInv, EntriesHold
    <3>4. ClosesHold'
      BY <1>2, <1>3, <1>7, <2>2, <3>2 DEF HeldInv, ClosesHold
    <3> QED  BY <2>3, <2>4, <2>5, <3>3, <3>4 DEF HeldInv
  <2> QED  BY <2>6, <2>7
<1> QED  BY <1>4, <1>5, <1>6, <1>7 DEF LotInv

LEMMA SendMonths ==
  ASSUME DeskIInv, LotInv, NEW c \in Senders, Send(c)
  PROVE  LotInv' /\ (~outran' /\ HeldInv => HeldInv')
<1> USE DeskAssumption
<1> DEFINE o == order[c]
           m == order[c].month
<1>1. /\ o.phase = "login" /\ m \in Contracts /\ o.at \in Nat /\ o.lots \in Nat
      /\ o.intent \in {"entry", "reduce"}
  BY DEF Send, DeskIInv, DeskTypes, LotInv, LotTypes
<1>2. PICK f \in 0 .. o.lots :
        /\ o.intent = "reduce" => f <= lotsHeld[m]
        /\ lotsHeld' = [lotsHeld EXCEPT ![m] = @ + (IF o.intent = "entry" THEN f ELSE -f)]
        /\ own' = [own EXCEPT ![m] = @ + (IF o.intent = "entry" THEN f ELSE -f)]
        /\ order' = [order EXCEPT ![c] = [phase |-> "sent", month |-> m, at |-> now,
                                         made |-> (IF o.intent = "entry" THEN f ELSE -f)]]
  BY DEF Send
<1> DEFINE made == IF o.intent = "entry" THEN f ELSE -f
<1>3. /\ o.intent = "entry" => m = "new" \/ listed
      /\ sendMarker' = [sendMarker EXCEPT ![m] = now]
      /\ sent' = [sent EXCEPT ![m] = @ + 1]
      /\ outran' = (outran \/ ~Prompt(o))
      /\ UNCHANGED <<now, calendar, listed, query, book, reading, snapshot>>
  BY DEF Send, clock, reads
<1>4. f \in Nat /\ f <= o.lots /\ made \in Int
  BY <1>1, <1>2
<1>5. /\ order'[c].phase = "sent" /\ order'[c].month = m /\ order'[c].at = now /\ order'[c].made = made
      /\ \A d \in Senders : d # c => order'[d] = order[d]
  BY <1>2 DEF DeskIInv, DeskTypes
<1>6. /\ lotsHeld' \in [Contracts -> Int] /\ own' \in [Contracts -> Int]
      /\ lotsHeld'[m] = lotsHeld[m] + made /\ own'[m] = own[m] + made
      /\ \A k \in Contracts \ {m} : lotsHeld'[k] = lotsHeld[k] /\ own'[k] = own[k]
      /\ lotsHeld[m] \in Nat /\ own[m] \in Int
  BY <1>1, <1>2, <1>4 DEF LotInv, LotTypes
<1>7. lotsHeld'[m] \in Nat
  BY <1>1, <1>2, <1>4, <1>6
<1> HIDE DEF made
<1>8. LotTypes'
  <2>1. lotsHeld' \in [Contracts -> Nat]
    <3>1. \A k \in Contracts : lotsHeld'[k] \in Nat
      BY <1>6, <1>7 DEF LotInv, LotTypes
    <3> QED  BY <1>6, <3>1
  <2>2. outran' \in BOOLEAN
    BY <1>3 DEF LotInv, LotTypes
  <2>3. \A d \in Senders :
          /\ order'[d].phase \in {"none", "login", "sent"}
          /\ order'[d].phase = "login" => order'[d].intent \in {"entry", "reduce"} /\ order'[d].lots \in Nat
          /\ order'[d].phase = "sent" => /\ order'[d].month \in Contracts /\ order'[d].at \in Nat
                                         /\ order'[d].made \in Int
    BY <1>1, <1>4, <1>5 DEF LotInv, LotTypes, DeskIInv, DeskTypes
  <2> QED  BY <1>3, <1>6, <2>1, <2>2, <2>3 DEF LotInv, LotTypes
<1>9. SentLately'
  <2>1. /\ now \in Nat /\ \A k \in Contracts : sendMarker[k] \in Int /\ sendMarker[k] <= now
        /\ \A k \in Contracts : sendMarker'[k] = IF k = m THEN now ELSE sendMarker[k]
    BY <1>3 DEF DeskIInv, DeskTypes, MarkedFirst
  <2> SUFFICES ASSUME NEW d \in Senders, order'[d].phase = "sent"
               PROVE  order'[d].at <= sendMarker'[order'[d].month] /\ now' <= order'[d].at + Await
    BY DEF SentLately
  <2>2. CASE d = c
    BY <1>1, <1>3, <1>5, <2>1, <2>2
  <2>3. CASE d # c
    <3>1. order'[d] = order[d] /\ order[d].month \in Contracts /\ order[d].at \in Nat
      BY <1>5, <2>3 DEF LotInv, LotTypes
    <3>2. order[d].at <= sendMarker[order[d].month] /\ now <= order[d].at + Await
      BY <3>1 DEF LotInv, SentLately
    <3> QED  BY <1>3, <2>1, <3>1, <3>2
  <2> QED  BY <2>2, <2>3
<1>10. SettledIsEmpty'
  <2>1. ~listed /\ m = "old" => f = 0
    <3> SUFFICES ASSUME ~listed, m = "old" PROVE f = 0
      OBVIOUS
    <3>1. o.intent = "reduce" /\ lotsHeld[m] = 0
      BY <1>1, <1>3 DEF LotInv, SettledIsEmpty
    <3> QED  BY <1>2, <1>4, <3>1
  <2>2. f = 0 => made = 0
    <3>1. made = f \/ made + f = 0
      BY <1>4 DEF made
    <3> QED  BY <1>4, <3>1
  <2>3. ~listed => lotsHeld'["old"] = 0 /\ own'["old"] = 0
    <3>1. "old" \in Contracts
      BY DEF Contracts
    <3> QED  BY <1>6, <2>1, <2>2, <3>1 DEF LotInv, SettledIsEmpty
  <2> QED  BY <1>3, <2>3 DEF LotInv, SettledIsEmpty
<1>11. LotsShown'
  <2>1. \A k \in Contracts : own'[k] <= lotsHeld'[k]
    BY <1>4, <1>6 DEF LotInv, LotsShown
  <2>2. \A k \in Contracts : /\ sent[k] \in Nat /\ query.shown[k] \in Nat /\ query.shown[k] <= sent[k]
                             /\ sent'[k] = IF k = m THEN sent[k] + 1 ELSE sent[k]
    BY <1>1, <1>3 DEF DeskIInv, DeskTypes, ShownInTime
  <2>3. \A k \in Contracts : query.shown[k] = sent'[k] => own'[k] <= query.lots[k]
    BY <1>6, <2>2 DEF LotInv, LotsShown
  <2>4. snapshot.ok => \A k \in Contracts : /\ snapshot.shown[k] \in Nat /\ snapshot.shown[k] <= sent[k]
    BY DEF DeskIInv, DeskTypes, LotInv, LotsShown
  <2>5. snapshot.ok => \A k \in Contracts : snapshot.shown[k] <= sent'[k]
    BY <2>2, <2>4
  <2>6. snapshot.ok => \A k \in Contracts : snapshot.shown[k] = sent'[k] => own'[k] <= snapshot.lots[k]
    BY <1>6, <2>2, <2>4 DEF LotInv, LotsShown
  <2> QED  BY <1>3, <2>1, <2>3, <2>5, <2>6 DEF LotsShown
<1>12. ASSUME HeldInv, ~outran'
       PROVE  HeldInv'
  <2>1. Prompt(o)
    BY <1>3, <1>12
  <2>2. \A d \in Senders \ {c} : order[d].phase = "login" /\ order[d].month = m => ~Prompt(order[d])
    <3> SUFFICES ASSUME NEW d \in Senders \ {c}, order[d].phase = "login", order[d].month = m, Prompt(order[d])
                 PROVE  FALSE
      OBVIOUS
    <3>1. order[d].at \in Nat /\ order[d].at <= now /\ o.at <= now
      BY <1>1 DEF DeskIInv, DeskTypes, MarkedFirst, ClaimsHold
    <3>2. order[d].at + Settle <= o.at \/ o.at + Settle <= order[d].at
      BY <1>1 DEF DeskIInv, ClaimsApart
    <3> QED  BY <1>1, <2>1, <3>1, <3>2 DEF Prompt, DeskIInv, DeskTypes
  <2>3. \A d \in Senders : order[d].phase = "sent" => order[d].month # m
    BY <1>1, <1>12, <2>1 DEF HeldInv, SentAlone
  <2>4. \A d \in Senders \ {c} : Prompt(order[d])' <=> Prompt(order[d])
    BY <1>3, <1>5 DEF Prompt
  <2>5. SentAlone'
    BY <1>5, <1>12, <2>2, <2>3, <2>4 DEF HeldInv, SentAlone
  <2>6. BookIsOwn'
    <3> SUFFICES ASSUME NEW k \in Contracts, k = "new" \/ listed
                 PROVE  /\ \A d \in Senders : order'[d].phase = "sent" /\ order'[d].month = k =>
                             book[k] + order'[d].made = own'[k]
                        /\ (\A d \in Senders : ~(order'[d].phase = "sent" /\ order'[d].month = k)) => book[k] = own'[k]
      BY <1>3 DEF BookIsOwn
    <3>1. CASE k = m
      <4>1. book[m] = own[m]
        BY <1>12, <2>3, <3>1 DEF HeldInv, BookIsOwn
      <4> QED  BY <1>5, <1>6, <2>3, <3>1, <4>1
    <3>2. CASE k # m
      <4>1. \A d \in Senders : order'[d].phase = "sent" /\ order'[d].month = k =>
              order[d].phase = "sent" /\ order[d].month = k /\ order'[d] = order[d]
        BY <1>5, <3>2
      <4>2. \A d \in Senders : order[d].phase = "sent" /\ order[d].month = k =>
              order'[d].phase = "sent" /\ order'[d].month = k
        BY <1>1, <1>5
      <4> QED  BY <1>6, <1>12, <3>2, <4>1, <4>2 DEF HeldInv, BookIsOwn
    <3> QED  BY <3>1, <3>2
  <2>7. /\ own[m] >= 0 /\ \A k \in Contracts : own[k] \in Int /\ own[k] >= 0
        /\ o.intent = "reduce" => f <= own[m] /\ made = -f
        /\ o.intent = "entry" => made = f /\ \A k \in Contracts \ {m} : own[k] = 0
    <3>1. \A k \in Contracts : own[k] \in Int /\ own[k] >= 0
      BY <1>12 DEF LotInv, LotTypes, HeldInv, OneMonth, Contracts
    <3>2. o.intent = "entry" => \A k \in Contracts \ {m} : own[k] = 0
      BY <1>1, <1>12, <2>1 DEF HeldInv, EntriesHold
    <3>3. o.intent = "reduce" => f <= own[m]
      <4> SUFFICES ASSUME o.intent = "reduce" PROVE f <= own[m]
        OBVIOUS
      <4>1. CASE m = "new" \/ listed
        <5>1. o.lots <= own[m]
          BY <1>1, <1>12, <2>1, <4>1 DEF HeldInv, ClosesHold
        <5> QED  BY <1>1, <1>4, <1>6, <5>1
      <4>2. CASE ~(m = "new" \/ listed)
        <5>1. lotsHeld[m] = 0 /\ own[m] = 0
          BY <1>1, <4>2 DEF LotInv, SettledIsEmpty, Contracts
        <5> QED  BY <1>2, <1>4, <5>1
      <4> QED  BY <4>1, <4>2
    <3> QED  BY <1>1, <3>1, <3>2, <3>3 DEF made
  <2>8. OneMonth'
    <3>1. own'["old"] >= 0 /\ own'["new"] >= 0
      BY <1>1, <1>4, <1>6, <2>7 DEF Contracts
    <3>2. own'["old"] = 0 \/ own'["new"] = 0
      <4>1. CASE o.intent = "entry"
        BY <1>1, <1>6, <2>7, <4>1 DEF Contracts
      <4>2. CASE o.intent = "reduce"
        <5>1. own[m] = 0 => own'[m] = 0
          BY <1>1, <1>4, <1>6, <2>7, <4>2
        <5>2. \A k \in Contracts : own[k] = 0 => own'[k] = 0
          BY <1>6, <5>1
        <5> QED  BY <1>12, <5>2 DEF HeldInv, OneMonth, Contracts
      <4> QED  BY <1>1, <4>1, <4>2
    <3> QED  BY <3>1, <3>2 DEF OneMonth
  <2>9. EntriesHold'
    <3> SUFFICES ASSUME NEW d \in Senders, order'[d].phase = "login", order'[d].intent = "entry", Prompt(order[d])'
                 PROVE  /\ \A k \in Contracts \ {order'[d].month} : own'[k] = 0
                        /\ \A e \in Senders \ {d} :
                             order'[e].phase = "login" /\ order'[e].intent = "entry" => ~Prompt(order[e])'
      BY DEF EntriesHold
    <3>1. d # c /\ order'[d] = order[d] /\ Prompt(order[d])
      BY <1>5, <2>4
    <3>2. /\ \A k \in Contracts \ {order[d].month} : own[k] = 0
          /\ \A e \in Senders \ {d} : order[e].phase = "login" /\ order[e].intent = "entry" => ~Prompt(order[e])
      BY <1>12, <3>1 DEF HeldInv, EntriesHold
    <3>3. o.intent = "reduce"
      BY <1>1, <2>1, <3>1, <3>2
    <3>4. own[m] = 0 => own'[m] = 0
      BY <1>1, <1>4, <1>6, <2>7, <3>3
    <3>5. \A k \in Contracts \ {order[d].month} : own'[k] = 0
      BY <1>6, <3>2, <3>4
    <3>6. \A e \in Senders \ {d} :
            order'[e].phase = "login" /\ order'[e].intent = "entry" => ~Prompt(order[e])'
      BY <1>5, <2>4, <3>2
    <3> QED  BY <3>1, <3>5, <3>6
  <2>10. ClosesHold'
    BY <1>3, <1>5, <1>6, <1>12, <2>2, <2>4 DEF HeldInv, ClosesHold, DeskIInv, DeskTypes
  <2> QED  BY <2>5, <2>6, <2>8, <2>9, <2>10 DEF HeldInv
<1> QED  BY <1>8, <1>9, <1>10, <1>11, <1>12 DEF LotInv

LEMMA RecordedMonths ==
  ASSUME DeskFaults = {}, DeskIInv, LotInv, NEW c \in Senders, Recorded(c)
  PROVE  LotInv' /\ (~outran' /\ HeldInv => HeldInv')
<1> USE DeskAssumption
<1> DEFINE m == order[c].month
<1>1. /\ order[c].phase = "sent" /\ m \in Contracts /\ order[c].made \in Int
      /\ book' = [book EXCEPT ![m] = @ + order[c].made]
      /\ order' = [order EXCEPT ![c] = NoOrder]
      /\ UNCHANGED <<now, calendar, listed, lotsHeld, own, sent, outran, query, sendMarker, snapshot>>
  BY DEF Recorded, LotInv, LotTypes, clock, broker, wire, reads
<1>2. /\ order'[c].phase = "none" /\ \A d \in Senders : d # c => order'[d] = order[d]
  BY <1>1 DEF DeskIInv, DeskTypes, NoOrder
<1>3. /\ book' \in [Contracts -> Int] /\ book'[m] = book[m] + order[c].made
      /\ \A k \in Contracts \ {m} : book'[k] = book[k]
  BY <1>1 DEF LotInv, LotTypes
<1>4. LotTypes'
  BY <1>1, <1>2, <1>3 DEF LotInv, LotTypes
<1>5. SentLately'
  BY <1>1, <1>2 DEF LotInv, SentLately
<1>6. SettledIsEmpty' /\ LotsShown'
  BY <1>1 DEF LotInv, SettledIsEmpty, LotsShown
<1>7. ASSUME HeldInv
      PROVE  HeldInv'
  <2>1. \A d \in Senders \ {c} : Prompt(order[d])' <=> Prompt(order[d])
    BY <1>1, <1>2 DEF Prompt
  <2>2. SentAlone' /\ EntriesHold' /\ ClosesHold' /\ OneMonth'
    BY <1>1, <1>2, <1>7, <2>1 DEF HeldInv, SentAlone, EntriesHold, ClosesHold, OneMonth
  <2>3. \A d \in Senders \ {c} : ~(order[d].phase = "sent" /\ order[d].month = m)
    BY <1>1, <1>7 DEF HeldInv, SentAlone
  <2>4. BookIsOwn'
    <3> SUFFICES ASSUME NEW k \in Contracts, k = "new" \/ listed
                 PROVE  /\ \A d \in Senders : order'[d].phase = "sent" /\ order'[d].month = k =>
                             book'[k] + order'[d].made = own[k]
                        /\ (\A d \in Senders : ~(order'[d].phase = "sent" /\ order'[d].month = k)) => book'[k] = own[k]
      BY <1>1 DEF BookIsOwn
    <3>1. CASE k = m
      <4>1. book[m] + order[c].made = own[m]
        BY <1>1, <1>7, <3>1 DEF HeldInv, BookIsOwn
      <4> QED  BY <1>2, <1>3, <2>3, <3>1, <4>1
    <3>2. CASE k # m
      <4>1. \A d \in Senders : (order'[d].phase = "sent" /\ order'[d].month = k) <=>
                               (order[d].phase = "sent" /\ order[d].month = k)
        BY <1>2, <3>2
      <4>2. \A d \in Senders : order'[d].phase = "sent" => order'[d] = order[d]
        BY <1>2
      <4> QED  BY <1>3, <1>7, <3>2, <4>1, <4>2 DEF HeldInv, BookIsOwn
    <3> QED  BY <3>1, <3>2
  <2> QED  BY <2>2, <2>4 DEF HeldInv
<1> QED  BY <1>4, <1>5, <1>6, <1>7 DEF LotInv

LEMMA NotSentMonths ==
  ASSUME DeskIInv, LotInv, NEW c \in Senders, NotSent(c)
  PROVE  LotInv' /\ (~outran' /\ HeldInv => HeldInv')
<1> USE DeskAssumption
<1> DEFINE m == order[c].month
<1>1. /\ m \in Contracts
      /\ sendMarker' \in {sendMarker, [sendMarker EXCEPT ![m] = now]}
      /\ order' = [order EXCEPT ![c] = NoOrder]
      /\ UNCHANGED <<now, calendar, listed, lotsHeld, own, book, sent, outran, query, snapshot>>
  BY DEF NotSent, DeskIInv, DeskTypes, clock, broker, wire, reads
<1>2. /\ order'[c].phase = "none" /\ \A d \in Senders : d # c => order'[d] = order[d]
  BY <1>1 DEF DeskIInv, DeskTypes, NoOrder
<1>3. LotTypes'
  BY <1>1, <1>2 DEF LotInv, LotTypes
<1>4. SentLately'
  <2>1. /\ now \in Nat /\ \A k \in Contracts : sendMarker[k] \in Int /\ sendMarker[k] <= now
        /\ \A k \in Contracts : sendMarker'[k] = now \/ sendMarker'[k] = sendMarker[k]
    BY <1>1 DEF DeskIInv, DeskTypes, MarkedFirst
  <2> SUFFICES ASSUME NEW d \in Senders, order'[d].phase = "sent"
               PROVE  order'[d].at <= sendMarker'[order'[d].month] /\ now' <= order'[d].at + Await
    BY DEF SentLately
  <2>2. d # c /\ order'[d] = order[d] /\ order[d].month \in Contracts /\ order[d].at \in Nat
    BY <1>2 DEF LotInv, LotTypes
  <2>3. order[d].at <= sendMarker[order[d].month] /\ now <= order[d].at + Await
    BY <2>2 DEF LotInv, SentLately
  <2> QED  BY <1>1, <2>1, <2>2, <2>3
<1>5. SettledIsEmpty' /\ LotsShown'
  BY <1>1 DEF LotInv, SettledIsEmpty, LotsShown
<1>6. ASSUME HeldInv
      PROVE  HeldInv'
  <2>1. \A d \in Senders \ {c} : Prompt(order[d])' <=> Prompt(order[d])
    BY <1>1, <1>2 DEF Prompt
  <2>2. SentAlone' /\ EntriesHold' /\ ClosesHold' /\ OneMonth'
    BY <1>1, <1>2, <1>6, <2>1 DEF HeldInv, SentAlone, EntriesHold, ClosesHold, OneMonth
  <2>3. order[c].phase = "login"
    BY DEF NotSent
  <2>4. BookIsOwn'
    BY <1>1, <1>2, <1>6, <2>3 DEF HeldInv, BookIsOwn
  <2> QED  BY <2>2, <2>4 DEF HeldInv
<1> QED  BY <1>3, <1>4, <1>5, <1>6 DEF LotInv

\* Steps that move no lot of the bot's and no order.
LEMMA ReadMonths ==
  ASSUME DeskIInv, LotInv, StartRead \/ ReadPositions \/ ReadFails \/ Shows
  PROVE  LotInv' /\ (~outran' /\ HeldInv => HeldInv')
<1> USE DeskAssumption
<1>1. UNCHANGED <<now, calendar, listed, lotsHeld, own, book, sent, outran, sendMarker, order>>
  BY DEF StartRead, ReadPositions, ReadFails, Shows, clock, broker, wire
<1>2. SentLately' /\ (HeldInv => HeldInv')
  BY <1>1 DEF LotInv, SentLately, HeldInv, SentAlone, BookIsOwn, EntriesHold, ClosesHold, OneMonth, Prompt
<1>3. CASE StartRead
  <2>1. UNCHANGED <<query, snapshot>>
    BY <1>3 DEF StartRead, broker
  <2> QED  BY <1>1, <1>2, <2>1 DEF LotInv, LotTypes, SettledIsEmpty, LotsShown
<1>4. CASE ReadPositions
  <2>1. PICK l \in {"listed", "gone", "unread"} :
          /\ l = "gone" => ~listed
          /\ snapshot' = [ok |-> TRUE, started |-> reading.started, lots |-> query.lots,
                          shown |-> query.shown, oldIs |-> l]
    BY <1>4 DEF ReadPositions
  <2>2. query' = query
    BY <1>4 DEF ReadPositions, broker
  <2>3. \A m \in Contracts : query.shown[m] <= sent[m]
    BY DEF DeskIInv, ShownInTime
  <2>4. snapshot'.lots = query.lots /\ snapshot'.shown = query.shown /\ snapshot'.oldIs = l
    BY <2>1
  <2>5. LotTypes'
    BY <1>1, <2>2, <2>4 DEF LotInv, LotTypes
  <2>6. SettledIsEmpty' /\ LotsShown'
    BY <1>1, <2>1, <2>2, <2>3, <2>4 DEF LotInv, SettledIsEmpty, LotsShown
  <2> QED  BY <1>2, <2>5, <2>6 DEF LotInv
<1>5. CASE ReadFails
  <2>1. query' = query /\ (snapshot' = snapshot \/ ~snapshot'.ok)
    BY <1>5 DEF ReadFails, broker, NoRead
  <2> QED  BY <1>1, <1>2, <2>1 DEF LotInv, LotTypes, SettledIsEmpty, LotsShown
<1>6. CASE Shows
  <2>1. query'.lots = lotsHeld /\ query'.shown = sent /\ snapshot' = snapshot
    BY <1>6 DEF Shows, reads
  <2> QED  BY <1>1, <1>2, <2>1 DEF LotInv, LotTypes, SettledIsEmpty, LotsShown
<1> QED  BY <1>3, <1>4, <1>5, <1>6

LEMMA WorldMonths ==
  ASSUME DeskIInv, LotInv,
         \/ \E m \in Contracts : UserBuys(m)
         \/ Roll \/ SettlementTime \/ Settles \/ Tick \/ UNCHANGED deskVars
  PROVE  LotInv' /\ (~outran' /\ HeldInv => HeldInv')
<1> USE DeskAssumption
<1>1. UNCHANGED <<book, sent, outran, query, sendMarker, order, snapshot>>
  BY DEF UserBuys, Roll, SettlementTime, Settles, Tick, deskVars, broker, wire, reads
<1>2. ASSUME NEW m \in Contracts, UserBuys(m)
      PROVE  LotInv' /\ (HeldInv => HeldInv')
  <2>1. /\ m = "old" => listed
        /\ lotsHeld' = [lotsHeld EXCEPT ![m] = @ + 1]
        /\ UNCHANGED <<now, calendar, listed, own>>
    BY <1>2 DEF UserBuys, clock
  <2>2. lotsHeld' \in [Contracts -> Nat] /\ \A k \in Contracts : lotsHeld'[k] >= lotsHeld[k]
    BY <2>1 DEF LotInv, LotTypes
  <2>3. LotTypes' /\ SentLately'
    BY <1>1, <2>1, <2>2 DEF LotInv, LotTypes, SentLately
  <2>4. SettledIsEmpty'
    BY <1>1, <2>1 DEF LotInv, LotTypes, SettledIsEmpty, Contracts
  <2>5. LotsShown'
    <3>1. \A k \in Contracts : own[k] <= lotsHeld'[k]
      BY <2>2 DEF LotInv, LotsShown, LotTypes
    <3> QED  BY <1>1, <2>1, <3>1 DEF LotInv, LotsShown
  <2>6. HeldInv => HeldInv'
    BY <1>1, <2>1 DEF HeldInv, SentAlone, BookIsOwn, EntriesHold, ClosesHold, OneMonth, Prompt
  <2> QED  BY <2>3, <2>4, <2>5, <2>6 DEF LotInv
<1>3. CASE Roll \/ SettlementTime \/ UNCHANGED deskVars
  <2>1. /\ UNCHANGED <<now, listed, lotsHeld, own>>
        /\ calendar' \in {"front", "rolled", "settled"}
    BY <1>3 DEF Roll, SettlementTime, deskVars, broker, LotInv, LotTypes
  <2>2. LotTypes' /\ SentLately' /\ SettledIsEmpty' /\ LotsShown'
    BY <1>1, <2>1 DEF LotInv, LotTypes, SentLately, SettledIsEmpty, LotsShown
  <2>3. HeldInv => HeldInv'
    BY <1>1, <2>1 DEF HeldInv, SentAlone, BookIsOwn, EntriesHold, ClosesHold, OneMonth, Prompt
  <2> QED  BY <2>2, <2>3 DEF LotInv
<1>4. CASE Settles
  <2>1. /\ listed' = FALSE
        /\ lotsHeld' = [lotsHeld EXCEPT !["old"] = 0] /\ own' = [own EXCEPT !["old"] = 0]
        /\ UNCHANGED <<now, calendar>>
    BY <1>4 DEF Settles
  <2>2. /\ lotsHeld' \in [Contracts -> Nat] /\ own' \in [Contracts -> Int]
        /\ lotsHeld'["old"] = 0 /\ own'["old"] = 0
        /\ \A k \in Contracts \ {"old"} : lotsHeld'[k] = lotsHeld[k] /\ own'[k] = own[k]
    BY <2>1 DEF LotInv, LotTypes, Contracts
  <2>3. LotTypes' /\ SentLately'
    BY <1>1, <2>1, <2>2 DEF LotInv, LotTypes, SentLately
  <2>4. SettledIsEmpty'
    BY <2>1, <2>2 DEF SettledIsEmpty
  <2>5. LotsShown'
    BY <1>1, <2>2 DEF LotInv, LotsShown, LotTypes
  <2>6. ASSUME HeldInv
        PROVE  HeldInv'
    <3>1. SentAlone'
      BY <1>1, <2>1, <2>6 DEF HeldInv, SentAlone, Prompt
    <3>2. BookIsOwn'
      BY <1>1, <2>1, <2>2, <2>6 DEF HeldInv, BookIsOwn, Contracts
    <3>3. \A k \in Contracts : own[k] = 0 => own'[k] = 0
      BY <2>2
    <3>4. EntriesHold'
      BY <1>1, <2>1, <2>6, <3>3 DEF HeldInv, EntriesHold, Prompt
    <3>5. ClosesHold'
      BY <1>1, <2>1, <2>2, <2>6 DEF HeldInv, ClosesHold, Prompt, Contracts
    <3>6. OneMonth'
      BY <2>2, <2>6, <3>3 DEF HeldInv, OneMonth, Contracts
    <3> QED  BY <3>1, <3>2, <3>4, <3>5, <3>6 DEF HeldInv
  <2> QED  BY <2>3, <2>4, <2>5, <2>6 DEF LotInv
<1>5. CASE Tick
  <2>1. /\ now' = now + 1 /\ now \in Nat
        /\ \A c \in Senders : order[c].phase = "sent" => now < order[c].at + Await
        /\ UNCHANGED <<calendar, listed, lotsHeld, own>>
    BY <1>5 DEF Tick, broker, DeskIInv, DeskTypes
  <2>2. LotTypes' /\ SettledIsEmpty' /\ LotsShown'
    BY <1>1, <2>1 DEF LotInv, LotTypes, SettledIsEmpty, LotsShown
  <2>3. SentLately'
    <3> SUFFICES ASSUME NEW c \in Senders, order[c].phase = "sent"
                 PROVE  order[c].at <= sendMarker[order[c].month] /\ now + 1 <= order[c].at + Await
      BY <1>1, <2>1 DEF SentLately
    <3>1. order[c].at \in Nat /\ order[c].at <= sendMarker[order[c].month] /\ now < order[c].at + Await
      BY <2>1 DEF LotInv, LotTypes, SentLately
    <3> QED  BY <2>1, <3>1
  <2>4. \A c \in Senders : order[c].phase = "login" /\ Prompt(order[c])' => Prompt(order[c])
    BY <1>1, <2>1 DEF Prompt, DeskIInv, DeskTypes
  <2>5. HeldInv => HeldInv'
    BY <1>1, <2>1, <2>4 DEF HeldInv, SentAlone, BookIsOwn, EntriesHold, ClosesHold, OneMonth
  <2> QED  BY <2>2, <2>3, <2>5 DEF LotInv
<1> QED  BY <1>2, <1>3, <1>4, <1>5

LEMMA MonthStep ==
  ASSUME DeskFaults = {}, MonthIInv, [DeskNext]_deskVars
  PROVE  MonthIInv'
<1>1. DeskIInv' /\ DeskIInv /\ LotInv
  BY DeskStep DEF MonthIInv
<1>2. LotInv' /\ (~outran' /\ HeldInv => HeldInv')
  <2>1. ASSUME NEW c \in Senders, OrderStep(c)
        PROVE  LotInv' /\ (~outran' /\ HeldInv => HeldInv')
    <3>1. ASSUME NEW m \in Contracts, NEW n \in 1 .. MaxLots, NEW i \in {"entry", "reduce"}, Claim(c, m, n, i)
          PROVE  LotInv' /\ (~outran' /\ HeldInv => HeldInv')
      <4>1. n \in Nat
        BY DeskAssumption
      <4> QED  BY <1>1, <3>1, <4>1, ClaimMonths
    <3> QED  BY <1>1, <2>1, <3>1, SendMonths, NotSentMonths, RecordedMonths DEF OrderStep
  <2> QED  BY <1>1, <2>1, ReadMonths, WorldMonths DEF DeskNext
<1>3. ~outran' => ~outran
  BY DEF DeskNext, OrderStep, Claim, NotSent, Send, Recorded, StartRead, ReadPositions, ReadFails, UserBuys,
         Shows, Roll, SettlementTime, Settles, Tick, deskVars, broker, wire
<1> QED  BY <1>1, <1>2, <1>3 DEF MonthIInv

\* The bot never holds two contract months of a root and no close takes a lot of the
\* user's, whatever rolls or settles between a claim, its fill and the read that shows
\* it, until an order leaves later than ORDER_SETTLE_S after its claim
\* (order_president.entry_contract and _checked_close); for any number of senders and
\* lots, as long as every fill is reported before the order gives up waiting.
THEOREM OneMonthHeld ==
  ASSUME DeskFaults = {}
  PROVE  DeskSpec => []OwnMonthOnly
<1>1. DeskInit => MonthIInv
  BY DeskInitOK, MonthStart DEF MonthIInv
<1>2. MonthIInv /\ [DeskNext]_deskVars => MonthIInv'
  BY MonthStep
<1>3. MonthIInv => OwnMonthOnly
  BY DEF MonthIInv, HeldInv, OneMonth, OwnMonthOnly, Contracts
<1> QED  BY <1>1, <1>2, <1>3, PTL DEF DeskSpec

=============================================================================
