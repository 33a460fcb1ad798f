----------------------------- MODULE GuardProofs -----------------------------
(* Proofs about what holds the reconciler back: the HALT of an account that is *)
(* rejected or replaced (AccountGuard), and the gate of signals that a start   *)
(* leaves waiting (HaltGate).                                                  *)
EXTENDS AccountGuard, HaltGate, TLAPS


\* The flag in memory is always of a HALT that was seen on disk: it goes up with
\* the file, and the poll that finds the file gone drops it.
SeenInv == memoryHalt => haltSeen

LEMMA SeenStep == SeenInv /\ [Next]_vars => SeenInv'
<1> SUFFICES ASSUME SeenInv, [Next]_vars PROVE SeenInv'
  OBVIOUS
<1> USE DEF SeenInv
<1>1. CASE Poll
  BY <1>1 DEF Poll
<1>2. CASE ReadRejected
  BY <1>2 DEF ReadRejected, HaltOnce, TripHalt, flags
<1>3. CASE ReadUnclassified
  BY <1>3 DEF ReadUnclassified, HaltOnce, TripHalt, flags
<1>4. CASE Trip
  BY <1>4 DEF Trip, HaltAgain, TripHalt, flags
<1>5. CASE Die
  BY <1>5 DEF Die
<1>6. CASE ReadTransient \/ ReadGood \/ Identify \/ CheckBook \/ HoldBook \/ Decide
           \/ EndRound \/ Baseline \/ Enter \/ Close
  BY <1>6 DEF ReadTransient, ReadGood, Identify, CheckBook, HoldBook, Decide,
              EndRound, Baseline, Enter, Close, daemon, flags
<1>7. CASE Listener
  BY <1>7 DEF Listener, BindKey, BindRead, BindCheck, PressStart, ClearHalt, PressHalt,
              FirstSave, ReadQuestion, Confirm, daemon, flags
<1>8. CASE UNCHANGED vars
  BY <1>8 DEF vars, daemon, flags
<1> QED
  BY <1>1, <1>2, <1>3, <1>4, <1>5, <1>6, <1>7, <1>8 DEF Next, RoundStep

\* Whatever the environment does, a start that removed the HALT is heard: the
\* flag left in the daemon's memory goes at its next poll.
THEOREM StartsAreHeard == Spec => []StartIsHeard
<1>1. Init => SeenInv
  BY DEF Init, SeenInv
<1>2. SeenInv => StartIsHeard
  BY DEF SeenInv, StartIsHeard
<1> QED
  BY <1>1, <1>2, SeenStep, PTL DEF Spec

-----------------------------------------------------------------------------
\* Within a round the flag in memory implies the file: only a start removes it.
MemoryIsDisk == pc # "poll" /\ memoryHalt => halt # "no"

\* A reset nobody has answered is under a HALT, or on its way to one in the round
\* that found it.
OnTheWay == pc = "trip" \/ (pc = "decide" /\ verdict = "reset")

ResetIsHalted == awaiting => halt # "no" \/ OnTheWay

ResetInv == MemoryIsDisk /\ ResetIsHalted /\ SeenInv

\* No start lands in the middle of a round.
LEMMA ResetStepInv ==
  ASSUME "early_start" \notin Faults
  PROVE  ResetInv /\ [Next]_vars => ResetInv'
<1> SUFFICES ASSUME ResetInv, [Next]_vars PROVE MemoryIsDisk' /\ ResetIsHalted'
  BY SeenStep DEF ResetInv
<1> USE DEF ResetInv, MemoryIsDisk, ResetIsHalted, OnTheWay
<1>1. CASE Poll
  BY <1>1 DEF Poll, SeenInv, files
<1>2. CASE ReadRejected
  BY <1>2 DEF ReadRejected, HaltOnce, Halted, TripHalt, flags, RoundOver, history
<1>3. CASE ReadUnclassified
  BY <1>3 DEF ReadUnclassified, HaltOnce, Halted, TripHalt, flags, RoundOver, history
<1>4. CASE Trip
  \* The HALT lands, or one stands: the flag alone cannot hide that it does not.
  BY <1>4 DEF Trip, HaltAgain, Halted, TripHalt, flags, RoundOver, history
<1>5. CASE Die
  BY <1>5 DEF Die, RoundOver, files
<1>6. CASE CheckBook
  <2>1. awaiting' => awaiting \/ verdict' = "reset"
    BY <1>6 DEF CheckBook, CheckAccount
  <2>2. pc = "check" /\ pc' = "decide" /\ UNCHANGED <<halt, memoryHalt>>
    BY <1>6 DEF CheckBook, flags
  <2> QED
    BY <2>1, <2>2
<1>7. CASE Decide
  <2>1. /\ pc = "decide" /\ UNCHANGED <<halt, memoryHalt, awaiting>>
        /\ pc' \in {"trip", "poll", "trade"}
    BY <1>7 DEF Decide, flags, history
  <2>2. CASE verdict = "reset"
    <3>1. pc' = "trip" \/ (memory.pending /\ Halted)
      BY <1>7, <2>2 DEF Decide
    <3> QED
      BY <2>1, <3>1 DEF Halted
  <2> QED
    BY <2>1, <2>2
<1>8. CASE HoldBook
  BY <1>8 DEF HoldBook, flags, history, Unread
<1>9. CASE ReadTransient \/ ReadGood \/ Identify \/ EndRound
  BY <1>9 DEF ReadTransient, ReadGood, Identify, EndRound, RoundOver, files, flags,
              history
<1>10. CASE Baseline \/ Enter \/ Close
  BY <1>10 DEF Baseline, Enter, Close, daemon, flags, locals
<1>11. CASE BindCheck
  <2>1. awaiting' => awaiting \/ halt' # "no"
    BY <1>11 DEF BindCheck, CheckAccount
  <2>2. halt # "no" => halt' # "no"
    BY <1>11 DEF BindCheck
  <2>3. UNCHANGED <<pc, memoryHalt, verdict>>
    BY <1>11 DEF BindCheck, daemon, flags, locals
  <2> QED
    BY <2>1, <2>2, <2>3
<1>12. CASE ClearHalt
  BY <1>12 DEF ClearHalt, daemon, flags
<1>13. CASE (\E k \in Keys : BindKey(k)) \/ BindRead \/ PressStart \/ PressHalt
            \/ FirstSave \/ ReadQuestion \/ Confirm
  BY <1>13 DEF BindKey, BindRead, PressStart, PressHalt, FirstSave, ReadQuestion, Confirm, daemon,
               flags, locals, files, history
<1>14. CASE UNCHANGED vars
  BY <1>14 DEF vars, daemon, flags, locals, files, history
<1> QED
  BY <1>1, <1>2, <1>3, <1>4, <1>5, <1>6, <1>7, <1>8, <1>9, <1>10, <1>11, <1>12, <1>13,
     <1>14 DEF Next, RoundStep, Listener

\* As long as the user does not press start in the middle of a round, no entry
\* leaves on the account that emptied the book before they have pressed start:
\* for any accounts and keys, any reads of the id, any death of the daemon.
THEOREM NewAccountWaitsForStart ==
  ASSUME "early_start" \notin Faults
  PROVE  Spec => []ResetWaitsForStart
<1>1. Init => ResetInv
  BY DEF Init, ResetInv, MemoryIsDisk, ResetIsHalted, SeenInv
<1>2. ResetInv => ResetWaitsForStart
  BY DEF ResetInv, ResetIsHalted, OnTheWay, ResetWaitsForStart, MayEnter, Halted
<1> QED
  BY <1>1, <1>2, ResetStepInv, PTL DEF Spec

-----------------------------------------------------------------------------
\* A round knows the key it read.
TypeInv == TypeOK /\ (pc # "poll" => knownKey \in Keys)

LEMMA RecordTyped ==
  ASSUME NEW k \in Keys, NEW u \in Accounts \cup Unread, account \in Record
  PROVE  RecordFor(k, u) \in Record /\ Judge(k, u) \in Verdicts
<1>1. Judge(k, u) \in Verdicts
  BY DEF Judge, Verdicts, Unread
<1>2. account.id \in Accounts \cup {NoAccount}
  BY DEF Record
<1>3. RecordFor(k, u) \in Record
  BY <1>2 DEF RecordFor, Record
<1> QED
  BY <1>1, <1>3

LEMMA ReadsTyped ==
  ASSUME NEW k \in Keys
  PROVE  IdReads(k) \subseteq Accounts \cup Unread
  BY AccountGuardAssumption DEF IdReads

LEMMA RoundOverTyped ==
  ASSUME RoundOver
  PROVE  pc' = "poll" /\ uid' \in Accounts \cup Unread /\ verdict' \in Verdicts
         /\ startHalted' \in BOOLEAN
<1>1. startHalted' \in BOOLEAN
  BY Zenon DEF RoundOver
<1>2. pc' = "poll" /\ uid' \in Accounts \cup Unread /\ verdict' \in Verdicts
  BY DEF RoundOver, Judged, Verdicts, Unread
<1> QED
  BY <1>1, <1>2

LEMMA HaltTyped ==
  ASSUME halt \in {"no", "reconciler", "other"}, memoryHalt \in BOOLEAN, haltSeen \in BOOLEAN,
         HaltOnce \/ HaltAgain \/ UNCHANGED <<halt, flags>>
  PROVE  halt' \in {"no", "reconciler", "other"} /\ memoryHalt' \in BOOLEAN
         /\ haltSeen' \in BOOLEAN
<1>1. CASE UNCHANGED <<halt, flags>>
  BY <1>1 DEF flags
<1>2. CASE TripHalt
  BY <1>2, Zenon DEF TripHalt
<1> QED
  BY <1>1, <1>2 DEF HaltOnce, HaltAgain

LEMMA EmptyTyped ==
  ASSUME EmptyBook
  PROVE  book' \in Accounts \cup {NoAccount} /\ blind' \in BOOLEAN
<1>1. blind' \in BOOLEAN
  BY Zenon DEF EmptyBook
<1> QED
  BY <1>1 DEF EmptyBook

LEMMA TypeStep == TypeInv /\ [Next]_vars => TypeInv'
<1> SUFFICES ASSUME TypeInv, [Next]_vars PROVE TypeInv'
  OBVIOUS
<1> USE DEF TypeInv, TypeOK
<1>1. CASE Poll
  BY <1>1 DEF Poll, files, books, listener
<1>2. CASE ReadTransient
  <2>1. guardDue' \in BOOLEAN
    BY <1>2, Zenon DEF ReadTransient
  <2>2. UNCHANGED <<files, memory, flags, knownKey, strikes, listener, answer, history>>
    BY <1>2 DEF ReadTransient
  <2> QED
    BY <1>2, <2>1, <2>2, RoundOverTyped DEF ReadTransient, files, books, flags, listener, history
<1>3. CASE ReadRejected
  <2>1. guardDue' \in BOOLEAN
    BY <1>3, Zenon DEF ReadRejected
  <2> QED
    BY <1>3, <2>1, RoundOverTyped, HaltTyped DEF ReadRejected, books, listener, history
<1>4. CASE ReadUnclassified
  <2>1. strikes' \in 0 .. HaltAfter
    BY <1>4, AccountGuardAssumption DEF ReadUnclassified
  <2>2. guardDue' \in BOOLEAN
    BY <1>4, Zenon DEF ReadUnclassified
  <2>3. HaltOnce \/ UNCHANGED <<halt, flags>>
    BY <1>4 DEF ReadUnclassified
  <2> QED
    BY <1>4, <2>1, <2>2, <2>3, RoundOverTyped, HaltTyped DEF ReadUnclassified, books, listener, history
<1>5. CASE ReadGood
  BY <1>5, AccountGuardAssumption DEF ReadGood, files, books, flags, locals, listener, history
<1>6. CASE Identify
  BY <1>6, ReadsTyped DEF Identify, files, books, flags, listener, history
<1>7. CASE CheckBook
  <2>1. account' \in Record /\ verdict' \in Verdicts
    BY <1>7, RecordTyped DEF CheckBook, CheckAccount
  <2>2. book' \in Accounts \cup {NoAccount} /\ blind' \in BOOLEAN /\ awaiting' \in BOOLEAN
    BY <1>7 DEF CheckBook, CheckAccount, EmptyBook, KeepBook
  <2> QED
    BY <1>7, <2>1, <2>2 DEF CheckBook, flags, listener
<1>8. CASE HoldBook
  <2>1. PICK asks \in BOOLEAN :
          LET ask == verdict = "unreadable" \/ asks
              now == [memory EXCEPT !.hold = IF ask THEN "asked"
                                             ELSE IF @ = "no" THEN "wait" ELSE @]
          IN /\ memory' = now
             /\ guardFile' = IF now # memory \/ verdict = "transient" THEN now ELSE guardFile
             /\ pc' = IF ask /\ ~(memory.hold = "asked" /\ Halted) THEN "trip" ELSE "poll"
    BY <1>8 DEF HoldBook
  <2>2. memory' \in GuardState /\ guardFile' \in GuardState /\ pc' \in {"trip", "poll"}
    BY <2>1 DEF GuardState
  <2> QED
    BY <1>8, <2>2 DEF HoldBook, Judged, books, flags, listener, history, Verdicts, Unread
<1>9. CASE Decide
  <2>1. memory' \in GuardState /\ guardFile' \in GuardState /\ pc' \in {"trip", "poll", "trade"}
    BY <1>9 DEF Decide, GuardState
  <2>2. guardDue' \in BOOLEAN
    BY <1>9, Zenon DEF Decide
  <2>3. /\ Judged /\ pc = "decide"
        /\ UNCHANGED <<key, books, halt, flags, knownKey, strikes, startHalted,
                       listener, answer, history>>
    BY <1>9 DEF Decide
  <2> QED
    BY <2>1, <2>2, <2>3 DEF Judged, books, flags, listener, history, Verdicts, Unread
<1>10. CASE Trip
  BY <1>10, RoundOverTyped, HaltTyped DEF Trip, books, listener, history
<1>11. CASE EndRound
  BY <1>11, RoundOverTyped DEF EndRound, files, books, flags, listener, history
<1>12. CASE Baseline
  BY <1>12, AccountGuardAssumption DEF Baseline, NoRecord, Record, daemon, flags, locals, listener
<1>13. CASE Enter
  BY <1>13, AccountGuardAssumption DEF Enter, daemon, flags, locals, listener
<1>14. CASE Close
  BY <1>14, EmptyTyped DEF Close, daemon, flags, locals, listener
<1>15. CASE \E k \in Keys : BindKey(k)
  BY <1>15 DEF BindKey, books, daemon, flags, locals
<1>16. CASE BindRead
  BY <1>16, ReadsTyped DEF BindRead, files, books, daemon, flags, locals, history
<1>17. CASE BindCheck
  <2>1. account' \in Record
    BY <1>17, RecordTyped DEF BindCheck, CheckAccount
  <2>2. book' \in Accounts \cup {NoAccount} /\ blind' \in BOOLEAN /\ awaiting' \in BOOLEAN
    BY <1>17 DEF BindCheck, CheckAccount, EmptyBook, KeepBook
  <2>3. guardFile' \in GuardState /\ halt' \in {"no", "reconciler", "other"}
    BY <1>17 DEF BindCheck, GuardState
  <2> QED
    BY <1>17, <2>1, <2>2, <2>3 DEF BindCheck, daemon, flags, locals, Unread
<1>18. CASE PressStart
  BY <1>18 DEF PressStart, books, daemon, flags, locals, history
<1>19. CASE ClearHalt
  <2>1. guardFile' \in GuardState
    BY <1>19 DEF ClearHalt, GuardState
  <2>2. awaiting' \in BOOLEAN
    BY <1>19, Zenon DEF ClearHalt
  <2> QED
    BY <1>19, <2>1, <2>2 DEF ClearHalt, books, daemon, flags, locals
<1>20. CASE PressHalt \/ ReadQuestion
  BY <1>20 DEF PressHalt, ReadQuestion, files, books, daemon, flags, locals, listener, history
<1>24. CASE FirstSave
  <2>1. seeded' \in BOOLEAN /\ account' \in Record
    <3>1. seeded' \in BOOLEAN
      BY <1>24, Zenon DEF FirstSave
    <3> QED
      BY <1>24, <3>1 DEF FirstSave, NoRecord, Record
  <2> QED
    BY <1>24, <2>1 DEF FirstSave, daemon, flags, locals, listener, history
<1>21. CASE Confirm
  <2>1. IdReads(key) \subseteq Accounts \cup Unread
    BY ReadsTyped
  <2>2. account' \in Record
    BY <1>21, <2>1 DEF Confirm, Record
  <2>3. guardFile' \in GuardState /\ book' \in Accounts \cup {NoAccount} /\ blind' \in BOOLEAN
    BY <1>21 DEF Confirm, EmptyBook, KeepBook, GuardState
  <2> QED
    BY <1>21, <2>2, <2>3 DEF Confirm, daemon, flags, locals, listener
<1>22. CASE Die
  <2>1. guardDue' \in BOOLEAN /\ memoryHalt' \in BOOLEAN /\ haltSeen' \in BOOLEAN
    BY <1>22, Zenon DEF Die
  <2>2. awaiting' \in BOOLEAN
    BY <1>22 DEF Die
  <2>3. 0 \in 0 .. HaltAfter
    BY AccountGuardAssumption
  <2> QED
    BY <1>22, <2>1, <2>2, <2>3, RoundOverTyped DEF Die, files, books, listener
<1>23. CASE UNCHANGED vars
  BY <1>23 DEF vars, files, books, daemon, flags, locals, listener, history
<1> QED
  BY <1>1, <1>2, <1>3, <1>4, <1>5, <1>6, <1>7, <1>8, <1>9, <1>10, <1>11, <1>12, <1>13, <1>14,
     <1>15, <1>16, <1>17, <1>18, <1>19, <1>20, <1>21, <1>22, <1>23, <1>24
     DEF Next, RoundStep, Listener

LEMMA TypeInit == Init => TypeInv
<1> SUFFICES ASSUME Init PROVE TypeInv
  OBVIOUS
<1>1. /\ memoryHalt \in BOOLEAN /\ haltSeen \in BOOLEAN /\ guardDue \in BOOLEAN
      /\ startHalted \in BOOLEAN /\ rebound \in BOOLEAN /\ awaiting \in BOOLEAN
      /\ blind \in BOOLEAN
  BY Zenon DEF Init
<1>2. guardFile \in GuardState /\ memory \in GuardState /\ account \in Record
  BY DEF Init, NoRecord, Record, GuardState
<1> QED
  BY <1>1, <1>2, AccountGuardAssumption DEF Init, TypeInv, TypeOK, Verdicts, Unread

\* The files, the daemon's memory and the commands keep their types.
THEOREM TypesKept == Spec => []TypeOK
<1>1. TypeInv => TypeOK
  BY DEF TypeInv
<1> QED
  BY <1>1, TypeInit, TypeStep, PTL DEF Spec

-----------------------------------------------------------------------------
\* What a book without a blind fill says of its account: the record names it, and
\* the key on record opens it.
OwnRecord == ~blind /\ book # NoAccount =>
  account.fp # NoKey /\ AccountOf[account.fp] = book /\ account.id \in {NoAccount, book}

SeededBook == book # NoAccount => seeded

\* The user answers truthfully, and about the key that is bound.
Truthful == answer = "same" => book \in {NoAccount, AccountOf[key]}

\* A round to which no bind came in knows the key of .env, and an id that was
\* read is the id of the key it was read with.
KeyRead == pc # "poll" /\ ~rebound => knownKey = key
IdRead  == /\ pc = "check" /\ uid \in Accounts => uid = AccountOf[knownKey]
           /\ cmd = "read" /\ cmdUid \in Accounts => cmdUid = AccountOf[key]

\* A guard that need not ask again, or has just asked, knows the book's account.
Settled == ~guardDue \/ (pc = "decide" /\ verdict \notin Unread) =>
             (~blind /\ book # NoAccount => AccountOf[knownKey] = book)
TradeSettled == pc = "trade" => ~guardDue

AccountInv == /\ OwnRecord /\ SeededBook /\ Truthful /\ KeyRead /\ IdRead /\ Settled
              /\ TradeSettled

\* A check of the book against a key leaves a true record, and unless the id could
\* not be read, a book of that key's account.
LEMMA CheckKeeps ==
  ASSUME OwnRecord, NEW k \in Keys, NEW u \in Accounts \cup Unread,
         u \in Accounts => u = AccountOf[k], account \in Record, CheckAccount(k, u)
  PROVE  /\ OwnRecord'
         /\ Judge(k, u) \notin Unread /\ ~blind' /\ book' # NoAccount => AccountOf[k] = book'
         /\ book' \in {NoAccount, book} /\ (book' # NoAccount => blind' = blind)
<1>1. CASE Judge(k, u) = "reset"
  BY <1>1 DEF CheckAccount, EmptyBook, OwnRecord
<1>2. CASE Judge(k, u) # "reset"
  <2>1. book' = book /\ blind' = blind /\ account' = RecordFor(k, u)
    BY <1>2 DEF CheckAccount, KeepBook
  <2>2. SUFFICES ASSUME ~blind, book # NoAccount
                 PROVE  /\ account'.fp # NoKey /\ AccountOf[account'.fp] = book
                        /\ account'.id \in {NoAccount, book}
                        /\ Judge(k, u) \notin Unread => AccountOf[k] = book
    BY <2>1 DEF OwnRecord
  <2>3. /\ account.fp # NoKey /\ AccountOf[account.fp] = book /\ account.id \in {NoAccount, book}
    BY <2>2 DEF OwnRecord
  <2>4. CASE Judge(k, u) \in Unread
    BY <2>1, <2>3, <2>4 DEF RecordFor
  <2>5. CASE Judge(k, u) \notin Unread
    <3>1. (u \in Accounts /\ account.id = u) \/ account.fp = k
      BY <1>2, <2>2, <2>3, <2>5 DEF Judge, Recorded, Unread
    <3>2. AccountOf[k] = book
      BY <2>3, <3>1, AccountGuardAssumption
    <3>3. CASE u \in Accounts
      <4>1. account' \in {account, [id |-> u, fp |-> k, answer |-> "none"]}
        BY <2>1, <3>3, AccountGuardAssumption DEF RecordFor, Unread
      <4> QED
        BY <2>3, <3>2, <3>3, <4>1, AccountGuardAssumption
    <3>4. CASE u \notin Accounts
      <4>1. account' \in {account, [id |-> account.id, fp |-> k, answer |-> "none"]}
        BY <2>1, <3>4 DEF RecordFor
      <4> QED
        BY <2>3, <3>2, <4>1, AccountGuardAssumption
    <3> QED
      BY <3>3, <3>4
  <2> QED
    BY <2>4, <2>5
<1> QED
  BY <1>1, <1>2

\* No answer arrives for a key other than the one it was given for.
LEMMA AccountStep ==
  ASSUME "stale_answer" \notin Faults
  PROVE  TypeInv /\ AccountInv /\ [Next]_vars => AccountInv'
<1> SUFFICES ASSUME TypeInv, AccountInv, [Next]_vars PROVE AccountInv'
  OBVIOUS
<1> USE DEF AccountInv, OwnRecord, SeededBook, Truthful, KeyRead, IdRead, Settled, TradeSettled
<1>1. CASE Poll
  BY <1>1 DEF Poll, files, books, listener
<1>2. CASE ReadTransient \/ ReadRejected \/ ReadUnclassified \/ ReadGood \/ Trip \/ EndRound
  <2>1. UNCHANGED <<key, books, knownKey, listener, answer, history>>
    BY <1>2 DEF ReadTransient, ReadRejected, ReadUnclassified, ReadGood, Trip, EndRound, files
  <2>2. /\ pc # "poll" /\ pc' \in {"poll", "identify", "trade"}
        /\ ~guardDue' => ~guardDue
        /\ pc' = "trade" => ~guardDue'
    BY <1>2 DEF ReadTransient, ReadRejected, ReadUnclassified, ReadGood, Trip, EndRound, RoundOver
  <2> QED
    BY <2>1, <2>2 DEF books, listener, history
<1>3. CASE Identify
  BY <1>3, AccountGuardAssumption DEF Identify, IdReads, Unread, files, books, listener, history
<1>4. CASE CheckBook
  <2>1. /\ pc = "check" /\ pc' = "decide" /\ CheckAccount(knownKey, uid)
        /\ verdict' = Judge(knownKey, uid)
        /\ UNCHANGED <<key, seeded, guardDue, knownKey, uid, cmd, cmdUid, answer, rebound>>
    BY <1>4 DEF CheckBook, listener
  <2>2. knownKey \in Keys /\ uid \in Accounts \cup Unread /\ account \in Record
    BY <2>1 DEF TypeInv, TypeOK
  <2> HIDE DEF OwnRecord
  <2>3. /\ OwnRecord'
        /\ verdict' \notin Unread /\ ~blind' /\ book' # NoAccount => AccountOf[knownKey] = book'
        /\ book' \in {NoAccount, book} /\ (book' # NoAccount => blind' = blind)
    BY <2>1, <2>2, CheckKeeps
  <2> QED
    BY <2>1, <2>3
<1>5. CASE HoldBook
  <2>1. /\ pc = "decide" /\ pc' \in {"trip", "poll"} /\ guardDue' = TRUE
        /\ UNCHANGED <<key, books, knownKey, listener, answer, history>>
    BY <1>5 DEF HoldBook
  <2> QED
    BY <2>1 DEF books, listener, history
<1>6. CASE Decide
  <2>1. /\ pc = "decide" /\ verdict \notin Unread /\ pc' \in {"trip", "poll", "trade"}
        /\ guardDue' = FALSE
        /\ UNCHANGED <<key, books, knownKey, listener, answer, history>>
    BY <1>6 DEF Decide
  <2> QED
    BY <2>1 DEF books, listener, history
<1>7. CASE Baseline
  BY <1>7, Zenon DEF Baseline, daemon, flags, locals, listener
<1>8. CASE Enter
  <2>1. /\ pc = "trade" /\ seeded /\ ~guardDue
        /\ book' = IF book = NoAccount THEN AccountOf[key] ELSE book
        /\ UNCHANGED <<key, seeded, account, daemon, answer, rebound, cmd, cmdUid>>
    BY <1>8 DEF Enter, MayEnter, listener
  <2>2. ~blind' => ~blind /\ ~rebound /\ account.fp = key /\ account.id \in {NoAccount, book'}
    BY <1>8 DEF Enter
  <2>3. key # NoKey
    BY AccountGuardAssumption DEF TypeInv, TypeOK
  <2> QED
    BY <2>1, <2>2, <2>3 DEF daemon, flags, locals
<1>9. CASE Close
  BY <1>9 DEF Close, EmptyBook, daemon, flags, locals, listener
<1>10. CASE \E k \in Keys : BindKey(k)
  BY <1>10 DEF BindKey, books, daemon, flags, locals
<1>11. CASE BindRead
  BY <1>11, AccountGuardAssumption DEF BindRead, IdReads, Unread, files, books, daemon, flags,
                                       locals, history
<1>12. CASE BindCheck
  <2>1. /\ cmd = "read" /\ cmd' = "idle" /\ CheckAccount(key, cmdUid)
        /\ UNCHANGED <<key, seeded, daemon, answer, rebound>>
    BY <1>12 DEF BindCheck
  <2>2. key \in Keys /\ cmdUid \in Accounts \cup Unread /\ account \in Record
    BY DEF TypeInv, TypeOK
  <2> HIDE DEF OwnRecord
  <2>3. OwnRecord' /\ book' \in {NoAccount, book} /\ (book' # NoAccount => blind' = blind)
    BY <2>1, <2>2, CheckKeeps
  <2> QED
    BY <2>1, <2>3 DEF daemon, flags, locals
<1>13. CASE PressStart \/ ClearHalt \/ PressHalt
  BY <1>13 DEF PressStart, ClearHalt, PressHalt, books, daemon, flags, locals, listener, history
<1>14. CASE FirstSave
  BY <1>14 DEF FirstSave, daemon, flags, locals, listener, history
<1>15. CASE ReadQuestion
  BY <1>15 DEF ReadQuestion, files, books, daemon, flags, locals, listener, history
<1>16. CASE Confirm
  <2>1. UNCHANGED <<key, seeded, daemon, cmd, cmdUid, rebound>> /\ answer' = "none"
    BY <1>16 DEF Confirm, listener
  <2>2. CASE UNCHANGED <<account, book, blind>>
    BY <2>1, <2>2 DEF daemon, flags, locals
  <2>3. CASE EmptyBook
    BY <2>1, <2>3 DEF EmptyBook, daemon, flags, locals
  <2>4. CASE ~(UNCHANGED <<account, book, blind>>) /\ ~EmptyBook
    <3>1. PICK first \in IdReads(key), second \in IdReads(key) :
            LET final == IF first \in Accounts THEN first ELSE second
            IN /\ Acts(first, final) /\ answer = "same"
               /\ account' = [id |-> IF final \in Accounts THEN final ELSE account.id,
                              fp |-> key, answer |-> answer]
               /\ UNCHANGED <<book, blind>>
      BY <1>16, <2>4 DEF Confirm, KeepBook
    <3>2. book = AccountOf[key] /\ key \in Keys
      BY <3>1 DEF Acts, TypeInv, TypeOK
    <3>3. \A u \in IdReads(key) : u \in Accounts => u = book
      BY <3>2, AccountGuardAssumption DEF IdReads, Unread
    <3>4. account'.fp = key /\ account'.id \in {account.id, book}
      BY <3>1, <3>3
    <3> QED
      BY <2>1, <3>1, <3>2, <3>4, AccountGuardAssumption DEF daemon, flags, locals
  <2> QED
    BY <2>2, <2>3, <2>4
<1>17. CASE Die
  BY <1>17 DEF Die, RoundOver, files, books, listener
<1>18. CASE UNCHANGED vars
  BY <1>18 DEF vars, files, books, daemon, flags, locals, listener, history
<1> QED
  BY <1>1, <1>2, <1>3, <1>4, <1>5, <1>6, <1>7, <1>8, <1>9, <1>10, <1>11, <1>12, <1>13, <1>14,
     <1>15, <1>16, <1>17, <1>18 DEF Next, RoundStep, Listener

\* For any accounts and keys, any failures of the reads, binds in the middle of a
\* round and deaths: if every fill of the book came under the key of its round and
\* of the record, and no answer is delivered late, an order goes to the account
\* the book was built on.
THEOREM OrdersFollow ==
  ASSUME "stale_answer" \notin Faults
  PROVE  Spec => []OrdersFollowTheAccount
<1>1. Init => TypeInv /\ AccountInv
  <2>1. Init => AccountInv
    BY DEF Init, AccountInv, OwnRecord, SeededBook, Truthful, KeyRead, IdRead, Settled,
           TradeSettled
  <2> QED
    BY <2>1, TypeInit
<1>2. AccountInv => OrdersFollowTheAccount
  BY DEF AccountInv, KeyRead, Settled, TradeSettled, OrdersFollowTheAccount, OnItsOwnAccount,
         MayEnter, MayClose
<1> QED
  BY <1>1, <1>2, TypeStep, AccountStep, PTL DEF Spec
-----------------------------------------------------------------------------
\* An answer "another account" on the screen is about the book that stands.  If the
\* book has been built anew on the account of the bound key since, the record is
\* of that key and no question is open, nor on its way to be opened.
LateAnswer == answer = "different" /\ ~blind /\ book # NoAccount /\ book = AccountOf[key] =>
  account.fp = key /\ ~rebound /\ ~Asking(guardFile) /\ ~(pc = "decide" /\ verdict \in Unread)

\* No answer is waiting while a key is being bound.
BindsUnasked == cmd \in {"bound", "read"} => answer = "none"

AnswerInv == LateAnswer /\ BindsUnasked

LEMMA AnswerStep ==
  ASSUME "stale_answer" \notin Faults
  PROVE  TypeInv /\ AccountInv /\ AnswerInv /\ [Next]_vars => AnswerInv'
<1> SUFFICES ASSUME TypeInv, AccountInv, AnswerInv, [Next]_vars PROVE AnswerInv'
  OBVIOUS
<1> USE DEF AnswerInv, LateAnswer, BindsUnasked
<1>1. CASE Poll
  BY <1>1 DEF Poll, files, books, listener
<1>2. CASE ReadTransient \/ ReadRejected \/ ReadUnclassified \/ ReadGood \/ Identify \/ Trip
           \/ EndRound
  <2>1. UNCHANGED <<key, books, guardFile, listener, answer, history>> /\ pc' # "decide"
    BY <1>2 DEF ReadTransient, ReadRejected, ReadUnclassified, ReadGood, Identify, Trip, EndRound,
                RoundOver, files
  <2> QED
    BY <2>1 DEF books, listener, history
<1>3. CASE CheckBook
  <2>1. /\ pc = "check" /\ CheckAccount(knownKey, uid) /\ verdict' = Judge(knownKey, uid)
        /\ UNCHANGED <<key, guardFile, cmd, answer, rebound>>
    BY <1>3 DEF CheckBook, listener
  <2>2. SUFFICES ASSUME answer = "different", ~blind', book' # NoAccount, book' = AccountOf[key]
                 PROVE  account'.fp = key /\ ~rebound /\ ~Asking(guardFile) /\ verdict' \notin Unread
    BY <2>1 DEF Asking
  <2>3. account' = RecordFor(knownKey, uid) /\ book' = book /\ blind' = blind
    BY <2>1, <2>2 DEF CheckAccount, EmptyBook, KeepBook
  <2>4. account.fp = key /\ ~rebound /\ ~Asking(guardFile)
    BY <2>2, <2>3
  <2>5. knownKey = key
    BY <2>1, <2>4 DEF AccountInv, KeyRead
  <2>6. verdict' \notin Unread
    BY <2>1, <2>4, <2>5, AccountGuardAssumption DEF Judge, Unread
  <2>7. account'.fp = key
    BY <2>3, <2>4, <2>5 DEF RecordFor
  <2> QED
    BY <2>4, <2>6, <2>7
<1>4. CASE HoldBook
  <2>1. /\ pc = "decide" /\ verdict \in Unread /\ pc' # "decide"
        /\ UNCHANGED <<key, books, listener, answer, history>>
    BY <1>4 DEF HoldBook
  <2> QED
    BY <2>1 DEF books, listener, history
<1>5. CASE Decide
  <2>1. pc' # "decide" /\ UNCHANGED <<key, books, listener, answer, history>>
    BY <1>5 DEF Decide
  <2>2. Asking(guardFile)' => Asking(guardFile)
    BY <1>5 DEF Decide, Asking, TypeInv, TypeOK, GuardState
  <2> QED
    BY <2>1, <2>2 DEF books, listener, history
<1>6. CASE Baseline
  BY <1>6, Zenon DEF Baseline, daemon, flags, locals, listener
<1>7. CASE Enter
  <2>1. /\ pc = "trade" /\ guardFile.hold = "no"
        /\ UNCHANGED <<key, account, guardFile, daemon, answer, rebound, cmd, cmdUid>>
    BY <1>7 DEF Enter, MayEnter, AccountHeld, listener
  <2>2. ~blind' => ~rebound /\ account.fp = key
    BY <1>7 DEF Enter
  <2> QED
    BY <2>1, <2>2 DEF daemon, flags, locals, Asking
<1>8. CASE Close
  BY <1>8 DEF Close, EmptyBook, daemon, flags, locals, listener
<1>9. CASE \E k \in Keys : BindKey(k)
  BY <1>9 DEF BindKey, books, daemon, flags, locals
<1>10. CASE BindRead
  BY <1>10 DEF BindRead, files, books, daemon, flags, locals, history
<1>11. CASE BindCheck
  BY <1>11 DEF BindCheck
<1>12. CASE PressStart \/ ClearHalt \/ PressHalt
  <2>1. UNCHANGED <<key, books, daemon, answer, rebound, blind>> /\ cmd' \notin {"bound", "read"}
    BY <1>12 DEF PressStart, ClearHalt, PressHalt, history, listener
  <2>2. Asking(guardFile)' <=> Asking(guardFile)
    BY <1>12 DEF PressStart, ClearHalt, PressHalt, Asking, TypeInv, TypeOK, GuardState
  <2> QED
    BY <2>1, <2>2 DEF books, daemon, flags, locals
<1>13. CASE FirstSave
  BY <1>13 DEF FirstSave, AccountInv, SeededBook, daemon, flags, locals, listener, history
<1>14. CASE ReadQuestion
  BY <1>14 DEF ReadQuestion, files, books, daemon, flags, locals, listener, history
<1>15. CASE Confirm
  BY <1>15 DEF Confirm, listener
<1>16. CASE Die
  BY <1>16 DEF Die, RoundOver, files, books, listener
<1>17. CASE UNCHANGED vars
  BY <1>17 DEF vars, files, books, daemon, flags, locals, listener, history
<1> QED
  BY <1>1, <1>2, <1>3, <1>4, <1>5, <1>6, <1>7, <1>8, <1>9, <1>10, <1>11, <1>12, <1>13, <1>14,
     <1>15, <1>16, <1>17 DEF Next, RoundStep, Listener

\* A book is emptied by a check against a key that opens another account, or by the
\* user's answer about one.
LEMMA ResetsOtherAccount ==
  TypeInv /\ AccountInv /\ AnswerInv /\ [Next]_vars =>
    (ResetStep /\ ~blind => AccountOf[account'.fp] # book)
<1> SUFFICES ASSUME TypeInv, AccountInv, AnswerInv, [Next]_vars, ResetStep, ~blind
             PROVE  AccountOf[account'.fp] # book
  OBVIOUS
<1>1. /\ account' # account /\ book # NoAccount /\ book' = NoAccount
      /\ account.fp # NoKey /\ AccountOf[account.fp] = book /\ account.id \in {NoAccount, book}
  BY DEF ResetStep, AccountInv, OwnRecord
<1>2. ASSUME NEW k \in Keys, NEW u \in Accounts \cup Unread, u \in Accounts => u = AccountOf[k],
             CheckAccount(k, u)
      PROVE  AccountOf[account'.fp] # book
  <2>1. Judge(k, u) = "reset" /\ account' = RecordFor(k, u)
    BY <1>1, <1>2 DEF CheckAccount, KeepBook
  <2>2. u \in Accounts /\ account.id \notin {NoAccount, u}
    BY <2>1, AccountGuardAssumption DEF Judge, Unread
  <2>3. account'.fp = k
    BY <2>1, <2>2, AccountGuardAssumption DEF RecordFor, Unread
  <2> QED
    BY <1>1, <1>2, <2>2, <2>3
<1>3. CASE CheckBook
  <2>1. pc = "check" /\ CheckAccount(knownKey, uid)
    BY <1>3 DEF CheckBook
  <2>2. knownKey \in Keys /\ uid \in Accounts \cup Unread
    BY <2>1 DEF TypeInv, TypeOK
  <2> QED
    BY <1>2, <2>1, <2>2 DEF AccountInv, IdRead
<1>4. CASE BindCheck
  <2>1. cmd = "read" /\ CheckAccount(key, cmdUid)
    BY <1>4 DEF BindCheck
  <2>2. key \in Keys /\ cmdUid \in Accounts \cup Unread
    BY DEF TypeInv, TypeOK
  <2> QED
    BY <1>2, <2>1, <2>2 DEF AccountInv, IdRead
<1>5. CASE Confirm
  <2>1. PICK first \in IdReads(key), second \in IdReads(key) :
          /\ Acts(first, IF first \in Accounts THEN first ELSE second)
          /\ account'.fp = key
          /\ answer # "same"
    BY <1>1, <1>5 DEF Confirm, KeepBook
  <2>2. Asking(guardFile) /\ answer = "different"
    BY <1>5, <2>1 DEF Acts, Confirm, TypeInv, TypeOK
  <2> QED
    BY <1>1, <2>1, <2>2 DEF AnswerInv, LateAnswer
<1>6. CASE Baseline \/ FirstSave
  BY <1>1, <1>6 DEF Baseline, FirstSave, AccountInv, SeededBook
<1>7. CASE UNCHANGED account
  BY <1>1, <1>7
<1>8. CheckBook \/ BindCheck \/ Confirm \/ Baseline \/ FirstSave \/ UNCHANGED account
  BY DEF Next, RoundStep, Listener, Poll, ReadTransient, ReadRejected, ReadUnclassified, ReadGood,
         Identify, HoldBook, Decide, Trip, EndRound, Enter, Close, BindKey, BindRead, PressStart,
         ClearHalt, PressHalt, ReadQuestion, Die, vars, files, books
<1> QED
  BY <1>3, <1>4, <1>5, <1>6, <1>7, <1>8

\* A reset never abandons the positions the bot has on the account it goes on
\* trading: if every fill of the book came under the key of its round and of the
\* record, and no answer is delivered late, the book is emptied only for a key that
\* opens another account, whichever process finds it and whatever the user answers.
THEOREM NothingAbandoned ==
  ASSUME "stale_answer" \notin Faults
  PROVE  Spec => NoBookAbandoned
<1>1. Init => TypeInv /\ AccountInv /\ AnswerInv
  <2>1. Init => AccountInv /\ AnswerInv
    BY DEF Init, AccountInv, OwnRecord, SeededBook, Truthful, KeyRead, IdRead, Settled,
           TradeSettled, AnswerInv, LateAnswer, BindsUnasked
  <2> QED
    BY <2>1, TypeInit
<1>2. TypeInv /\ AccountInv /\ AnswerInv /\ [Next]_vars =>
        [ResetStep /\ ~blind => AccountOf[account'.fp] # book]_vars
  BY ResetsOtherAccount
<1> QED
  BY <1>1, <1>2, TypeStep, AccountStep, AnswerStep, PTL DEF Spec, NoBookAbandoned

-----------------------------------------------------------------------------
(* The gate: a start that waits never catches up, and nothing is held back     *)
(* that the user has not asked to hold back.                                   *)
LEMMA WithoutIs ==
  ASSUME NEW g \in Readings, NEW names
  PROVE  /\ Without(g, names) \in Readings
         /\ \A n \in Strategies :
              Without(g, names)[n] = IF n \in names THEN NoSignal ELSE g[n]
  BY DEF Without, Readings, SignalsOrNone

LEMMA GateTypeInit == GateInit => GateTypeOK
<1> SUFFICES ASSUME GateInit PROVE GateTypeOK
  OBVIOUS
<1>1. [n \in Strategies |-> NoSignal] \in Readings
  BY DEF Readings, SignalsOrNone
<1>2. signal \in Readings /\ gate \in Readings /\ waiting \in Readings
  BY <1>1 DEF GateInit
<1>3. round \in [at : {"idle", "gate", "merge", "orders"}, halted : BOOLEAN, seen : Readings,
                 funded : SUBSET Strategies, lifted : SUBSET Strategies, gated : BOOLEAN]
  BY <1>1 DEF GateInit, NoRound
<1>4. command \in [at : {"idle", "write", "clear", "clean"}, read : Readings,
                   picked : SUBSET Strategies]
  BY <1>1 DEF GateInit, NoCommand
<1>5. halted \in BOOLEAN
  BY Zenon DEF GateInit
<1> QED
  BY <1>2, <1>3, <1>4, <1>5 DEF GateInit, GateTypeOK

LEMMA GateTypeStep == GateTypeOK /\ [GateNext]_gateVars => GateTypeOK'
<1> SUFFICES ASSUME GateTypeOK, [GateNext]_gateVars PROVE GateTypeOK'
  OBVIOUS
<1> USE DEF GateTypeOK
<1>0. NoCommand \in [at : {"idle", "write", "clear", "clean"}, read : Readings,
                     picked : SUBSET Strategies]
  BY DEF NoCommand, Readings, SignalsOrNone
<1>00. NoRound \in [at : {"idle", "gate", "merge", "orders"}, halted : BOOLEAN, seen : Readings,
                    funded : SUBSET Strategies, lifted : SUBSET Strategies, gated : BOOLEAN]
  BY DEF NoRound, Readings, SignalsOrNone
<1>1. ASSUME NEW n \in Strategies, NewSignal(n) PROVE GateTypeOK'
  <2>1. signal' \in Readings
    BY <1>1 DEF NewSignal, Readings, SignalsOrNone
  <2>2. waiting' \in Readings
    BY <1>1, WithoutIs DEF NewSignal
  <2> QED
    BY <1>1, <2>1, <2>2 DEF NewSignal, listenerVars
<1>2. ASSUME NEW n \in Strategies, Unfund(n) PROVE GateTypeOK'
  <2>1. waiting' \in Readings
    BY <1>2, WithoutIs DEF Unfund
  <2> QED
    BY <1>2, <2>1 DEF Unfund
<1>3. ASSUME NEW names \in SUBSET Strategies, SaveAmounts(names) PROVE GateTypeOK'
  <2>1. waiting' \in Readings
    BY <1>3, WithoutIs DEF SaveAmounts
  <2>2. command' \in [at : {"idle", "write", "clear", "clean"}, read : Readings,
                     picked : SUBSET Strategies]
    <3>1. command' = [command EXCEPT !.at = "clean", !.picked = names \cap funded]
      BY <1>3 DEF SaveAmounts
    <3>2. names \cap funded \in SUBSET Strategies
      OBVIOUS
    <3> QED
      BY <3>1, <3>2
  <2>3. /\ funded' \subseteq Strategies /\ asked' \subseteq Strategies /\ commands' \in Nat
        /\ UNCHANGED <<signal, gate, round, signals>>
    BY <1>3 DEF SaveAmounts, Issue
  <2>4. halted' \in BOOLEAN
    BY <1>3, Zenon DEF SaveAmounts
  <2> QED
    BY <2>1, <2>2, <2>3, <2>4
<1>4. CASE SetHalt
  <2>1. halted' \in BOOLEAN
    BY <1>4, Zenon DEF SetHalt
  <2> QED
    BY <1>4, <2>1 DEF SetHalt, Issue, Free, ghostVars
<1>5. CASE Resume
  <2>1. gate' \in Readings /\ waiting' \in Readings
    BY <1>5 DEF Resume, Readings, SignalsOrNone
  <2> QED
    BY <1>5, <2>1 DEF Resume, Issue, Free
<1>6. CASE ResumeWait
  <2>1. CASE UNCHANGED <<command, ghostVars>>
    BY <1>6, <2>1 DEF ResumeWait, Issue, Free, ghostVars
  <2>2. CASE ~UNCHANGED <<command, ghostVars>>
    <3> DEFINE picked == {n \in funded : signal[n] # NoSignal}
    <3>1. /\ command' = [at |-> "write", read |-> signal, picked |-> picked]
          /\ waiting' = Without(signal, Strategies \ picked) /\ asked' = picked
      BY <1>6, <2>2 DEF ResumeWait
    <3>2. waiting' \in Readings
      BY <3>1, WithoutIs
    <3> QED
      BY <1>6, <3>1, <3>2 DEF ResumeWait, Issue, Free
  <2> QED
    BY <2>1, <2>2
<1>7. CASE WriteGate
  <2>1. gate' \in Readings
    BY <1>7, WithoutIs DEF WriteGate
  <2> QED
    BY <1>7, <2>1 DEF WriteGate, ghostVars
<1>8. CASE LiftHalt
  <2>1. halted' \in BOOLEAN
    BY <1>8, Zenon DEF LiftHalt
  <2> QED
    BY <1>8, <1>0, <2>1 DEF LiftHalt, ghostVars
<1>9. CASE CleanGate
  <2>1. gate' \in Readings
    BY <1>9, WithoutIs DEF CleanGate
  <2> QED
    BY <1>9, <1>0, <2>1 DEF CleanGate, ghostVars
<1>10. CASE Begin
  BY <1>10 DEF Begin, listenerVars, ghostVars
<1>11. CASE ReadGate
  <2>1. round'.lifted \in SUBSET Strategies /\ round'.gated \in BOOLEAN
    BY <1>11 DEF ReadGate, OnGate
  <2>2. round' = [round EXCEPT !.at = "merge", !.lifted = round'.lifted, !.gated = round'.gated]
    BY <1>11 DEF ReadGate
  <2> QED
    BY <1>11, <2>1, <2>2 DEF ReadGate, listenerVars, ghostVars
<1>12. CASE Merge
  <2>1. gate' \in Readings
    BY <1>12, WithoutIs DEF Merge
  <2> QED
    BY <1>12, <2>1 DEF Merge, listenerVars, ghostVars
<1>13. CASE EnterLeg \/ RoundEnds
  BY <1>13, <1>00 DEF EnterLeg, RoundEnds, listenerVars, ghostVars
<1>14. CASE UNCHANGED gateVars
  BY <1>14 DEF gateVars, listenerVars, ghostVars
<1> QED
  BY <1>1, <1>2, <1>3, <1>4, <1>5, <1>6, <1>7, <1>8, <1>9, <1>10, <1>11, <1>12, <1>13, <1>14
     DEF GateNext

-----------------------------------------------------------------------------
\* A signal waited on is the strategy's signal; it is on its way into the gate or
\* in it, and a clean-up keeps it there.
Current == \A n \in Strategies : waiting[n] # NoSignal => signal[n] = waiting[n]
Filed   == \A n \in Strategies : waiting[n] # NoSignal =>
             IF command.at = "write" THEN n \in command.picked /\ command.read[n] = waiting[n]
                                     ELSE gate[n] = waiting[n]
Kept    == command.at = "clean" =>
             \A n \in Strategies : waiting[n] # NoSignal => n \in command.picked

\* HALT stands until a start has written its gate, and no start comes into a
\* round that began without HALT.
Standing == command.at \in {"write", "clear"} => halted
NoStart  == round.at # "idle" /\ ~round.halted => command.at \notin {"write", "clear"}

\* A round that has yet to read the gate saw the signal waited on; one that has
\* read it does not lift that strategy, and unless HALT stood, holds the symbol.
SeesIt   == round.at = "gate" /\ command.at # "write" =>
              \A n \in Strategies : waiting[n] # NoSignal => round.seen[n] = waiting[n]
Unlifted == round.at = "merge" /\ command.at # "write" =>
              \A n \in round.lifted : waiting[n] = NoSignal
Holds    == round.at \in {"merge", "orders"} /\ ~round.gated /\ ~round.halted =>
              \A n \in round.funded : waiting[n] = NoSignal

WaitInv == GateTypeOK /\ Current /\ Filed /\ Kept /\ Standing /\ NoStart /\ SeesIt
           /\ Unlifted /\ Holds

LEMMA WaitInit == GateInit => WaitInv
<1> SUFFICES ASSUME GateInit PROVE WaitInv
  OBVIOUS
<1>1. \A n \in Strategies : waiting[n] = NoSignal
  BY DEF GateInit
<1>2. command.at = "idle" /\ round.at = "idle"
  BY DEF GateInit, NoCommand, NoRound
<1> QED
  BY <1>1, <1>2, GateTypeInit
     DEF WaitInv, Current, Filed, Kept, Standing, NoStart, SeesIt, Unlifted, Holds

\* HALT is not set and lifted within a round, and the gate is not rewritten while
\* a round is between its reads of states and gate.
LEMMA WaitStep ==
  ASSUME GateFaults = {}
  PROVE  WaitInv /\ [GateNext]_gateVars => WaitInv'
<1> SUFFICES ASSUME WaitInv, [GateNext]_gateVars PROVE WaitInv'
  OBVIOUS
<1>0. GateTypeOK /\ GateTypeOK'
  BY GateTypeStep DEF WaitInv
<1> DEFINE Rest == Current /\ Filed /\ Kept /\ Standing /\ NoStart /\ SeesIt /\ Unlifted /\ Holds
<1> SUFFICES Rest'
  BY <1>0 DEF WaitInv
<1>w. GateTypeOK /\ WaitInv
  BY <1>0
<1> USE DEF Current, Filed, Kept, Standing, NoStart, SeesIt, Unlifted, Holds
\* Waits that end, and nothing else of theirs that moves.
<1>1. ASSUME NEW n \in Strategies, NewSignal(n) PROVE Rest'
  <2>1. \A k \in Strategies : waiting'[k] = IF k = n THEN NoSignal ELSE waiting[k]
    BY <1>1, <1>w, WithoutIs DEF NewSignal, GateTypeOK
  <2>2. \A k \in Strategies : k # n => signal'[k] = signal[k]
    BY <1>1, <1>w DEF NewSignal, GateTypeOK, Readings
  <2>3. UNCHANGED <<gate, halted, round, command>>
    BY <1>1 DEF NewSignal, listenerVars
  <2>4. round.funded \subseteq Strategies /\ round.lifted \subseteq Strategies
    BY <1>w DEF GateTypeOK
  <2> QED
    BY <1>w, <2>1, <2>2, <2>3, <2>4 DEF WaitInv
<1>2. ASSUME NEW n \in Strategies, Unfund(n) PROVE Rest'
  <2>1. \A k \in Strategies : waiting'[k] = IF k = n THEN NoSignal ELSE waiting[k]
    BY <1>2, <1>w, WithoutIs DEF Unfund, GateTypeOK
  <2>2. UNCHANGED <<signal, gate, halted, round, command>>
    BY <1>2 DEF Unfund
  <2>3. round.funded \subseteq Strategies /\ round.lifted \subseteq Strategies
    BY <1>w DEF GateTypeOK
  <2> QED
    BY <1>w, <2>1, <2>2, <2>3 DEF WaitInv
<1>3. ASSUME NEW names \in SUBSET Strategies, SaveAmounts(names) PROVE Rest'
  <2>1. /\ command.at = "idle" /\ command'.at = "clean" /\ command'.picked = names \cap funded
        /\ UNCHANGED <<signal, gate, halted, round>>
    BY <1>3, <1>w DEF SaveAmounts, Issue, Free, GateTypeOK
  <2>2. \A k \in Strategies : waiting'[k] # NoSignal =>
          waiting'[k] = waiting[k] /\ k \in names \cap funded
    BY <1>3, <1>w, WithoutIs DEF SaveAmounts, GateTypeOK
  <2>3. round.funded \subseteq Strategies /\ round.lifted \subseteq Strategies
    BY <1>w DEF GateTypeOK
  <2> QED
    BY <1>w, <2>1, <2>2, <2>3 DEF WaitInv
<1>4. CASE SetHalt
  BY <1>4, <1>w DEF SetHalt, Issue, Free, ghostVars, WaitInv
<1>5. CASE Resume
  <2>1. /\ \A n \in Strategies : waiting'[n] = NoSignal
        /\ command'.at = "clear" /\ halted /\ UNCHANGED <<signal, halted, round>>
        /\ round.at = "idle" \/ round.halted
    BY <1>5, <1>w DEF Resume, MayStart, GateTypeOK
  <2>2. round.funded \subseteq Strategies /\ round.lifted \subseteq Strategies
    BY <1>w DEF GateTypeOK
  <2> QED
    BY <1>w, <2>1, <2>2 DEF WaitInv
<1>6. CASE ResumeWait
  <2>1. CASE UNCHANGED <<command, ghostVars>>
    BY <1>6, <1>w, <2>1 DEF ResumeWait, ghostVars, WaitInv
  <2>2. CASE ~UNCHANGED <<command, ghostVars>>
    <3> DEFINE picked == {n \in funded : signal[n] # NoSignal}
    <3>1. /\ command' = [at |-> "write", read |-> signal, picked |-> picked]
          /\ waiting' = Without(signal, Strategies \ picked)
          /\ halted /\ (round.at = "idle" \/ round.halted)
          /\ UNCHANGED <<signal, gate, halted, round>>
      BY <1>6, <2>2 DEF ResumeWait, MayStart
    <3>2. \A n \in Strategies : waiting'[n] = IF n \in picked THEN signal[n] ELSE NoSignal
      BY <1>w, <3>1, WithoutIs DEF GateTypeOK
    <3> QED
      BY <1>w, <3>1, <3>2 DEF WaitInv
  <2> QED
    BY <2>1, <2>2
<1>7. CASE WriteGate
  <2>1. /\ command.at = "write" /\ round.at \notin {"gate", "merge"}
        /\ command'.at = "clear" /\ UNCHANGED <<signal, halted, round, waiting>>
    BY <1>7, <1>w DEF WriteGate, ghostVars, GateTypeOK
  <2>2. \A n \in Strategies : n \in command.picked => gate'[n] = command.read[n]
    BY <1>7, <1>w, WithoutIs DEF WriteGate, GateTypeOK
  <2> QED
    BY <1>w, <2>1, <2>2 DEF WaitInv
<1>8. CASE LiftHalt
  <2>1. /\ command.at = "clear" /\ command'.at = "idle"
        /\ UNCHANGED <<signal, gate, round, waiting>>
    BY <1>8 DEF LiftHalt, NoCommand, ghostVars
  <2> QED
    BY <1>w, <2>1 DEF WaitInv
<1>9. CASE CleanGate
  <2>1. /\ command.at = "clean" /\ command'.at = "idle"
        /\ UNCHANGED <<signal, halted, round, waiting>>
    BY <1>9 DEF CleanGate, NoCommand, ghostVars
  <2>2. \A n \in Strategies : n \in command.picked => gate'[n] = gate[n]
    BY <1>9, <1>w, WithoutIs DEF CleanGate, GateTypeOK
  <2> QED
    BY <1>w, <2>1, <2>2 DEF WaitInv
<1>10. CASE Begin
  <2>1. /\ round'.at = "gate" /\ round'.halted = halted /\ round'.seen = signal
        /\ UNCHANGED <<signal, gate, halted, command, waiting>>
    BY <1>10, <1>w DEF Begin, listenerVars, ghostVars, GateTypeOK
  <2> QED
    BY <1>w, <2>1 DEF WaitInv
<1>11. CASE ReadGate
  <2>1. /\ round.at = "gate" /\ round'.at = "merge"
        /\ round'.lifted = {n \in OnGate : ~Same(n)}
        /\ round'.gated = (\E n \in OnGate : Same(n))
        /\ UNCHANGED <<signal, gate, halted, command, waiting>>
        /\ round'.halted = round.halted /\ round'.funded = round.funded
        /\ round.funded \subseteq Strategies
    BY <1>11, <1>w DEF ReadGate, listenerVars, ghostVars, GateTypeOK
  <2>2. ASSUME command.at # "write", NEW n \in round.funded, waiting[n] # NoSignal
        PROVE  n \in OnGate /\ Same(n)
    BY <1>w, <2>1, <2>2 DEF WaitInv, OnGate, Same
  <2>3. Unlifted'
    BY <2>1, <2>2 DEF OnGate
  <2>4. Holds'
    BY <1>w, <2>1, <2>2 DEF WaitInv
  <2> QED
    BY <1>w, <2>1, <2>3, <2>4 DEF WaitInv
<1>12. CASE Merge
  <2>1. /\ round.at = "merge" /\ round'.at = "orders" /\ round'.gated = round.gated
        /\ round'.halted = round.halted /\ round'.funded = round.funded
        /\ UNCHANGED <<signal, halted, command, waiting>>
    BY <1>12, <1>w DEF Merge, listenerVars, ghostVars, GateTypeOK
  <2>2. \A n \in Strategies : n \notin round.lifted => gate'[n] = gate[n]
    BY <1>12, <1>w, WithoutIs DEF Merge, GateTypeOK
  <2> QED
    BY <1>w, <2>1, <2>2 DEF WaitInv
<1>13. CASE EnterLeg \/ RoundEnds
  <2>1. round'.at = "idle" /\ UNCHANGED <<signal, gate, halted, command, waiting>>
    BY <1>13 DEF EnterLeg, RoundEnds, NoRound, listenerVars, ghostVars
  <2> QED
    BY <1>w, <2>1 DEF WaitInv
<1>14. CASE UNCHANGED gateVars
  BY <1>14, <1>w DEF gateVars, listenerVars, ghostVars, WaitInv
<1> QED
  BY <1>1, <1>2, <1>3, <1>4, <1>5, <1>6, <1>7, <1>8, <1>9, <1>10, <1>11, <1>12, <1>13, <1>14
     DEF GateNext

\* For any strategies and signals, whatever the user and the agent do: if HALT is
\* not set and lifted within one round and the gate is not rewritten between a
\* round's two reads, a start that waits never catches up with what it waits for.
THEOREM NeverCatchesUp ==
  ASSUME GateFaults = {}
  PROVE  GateSpec => NoCatchUp
<1>1. ASSUME WaitInv, [GateNext]_gateVars
      PROVE  [EnterLeg => \A n \in round.funded : waiting[n] = NoSignal]_gateVars
  BY <1>1 DEF WaitInv, Holds, EnterLeg, MayOpen
<1> QED
  BY <1>1, WaitInit, WaitStep, PTL DEF GateSpec, NoCatchUp

-----------------------------------------------------------------------------
\* Between commands a gated strategy is asked for or not funded; a command on its
\* way will see to the rest.
Accounted ==
  \A n \in Strategies : gate[n] # NoSignal =>
    \/ n \in asked \/ n \notin funded \/ command.at = "write"
    \/ command.at = "clean" /\ n \notin command.picked
Picked == /\ command.at = "write" => command.picked \subseteq asked
          /\ command.at = "clean" => command.picked \subseteq funded

AskedInv == GateTypeOK /\ Accounted /\ Picked

LEMMA AskedInit == GateInit => AskedInv
<1>1. GateInit => Accounted /\ Picked
  BY DEF GateInit, NoCommand, Accounted, Picked
<1> QED
  BY <1>1, GateTypeInit DEF AskedInv

LEMMA AskedStep == AskedInv /\ [GateNext]_gateVars => AskedInv'
<1> SUFFICES ASSUME AskedInv, [GateNext]_gateVars PROVE Accounted' /\ Picked'
  BY GateTypeStep DEF AskedInv
<1>w. GateTypeOK /\ Accounted /\ Picked
  BY DEF AskedInv
<1> USE DEF Accounted, Picked
<1>1. CASE \E n \in Strategies : NewSignal(n)
  BY <1>1, <1>w DEF NewSignal, listenerVars
<1>2. CASE \E n \in Strategies : Unfund(n)
  BY <1>2, <1>w DEF Unfund
<1>3. ASSUME NEW names \in SUBSET Strategies, SaveAmounts(names) PROVE Accounted' /\ Picked'
  <2>1. /\ command.at = "idle" /\ command'.at = "clean" /\ command'.picked = names \cap funded
        /\ asked' = asked \cap names \cap funded /\ funded' = names /\ UNCHANGED gate
    BY <1>3, <1>w DEF SaveAmounts, Issue, Free, GateTypeOK
  <2> QED
    BY <1>w, <2>1
<1>4. CASE SetHalt
  BY <1>4, <1>w DEF SetHalt, Issue, Free, ghostVars
<1>5. CASE Resume
  BY <1>5, <1>w DEF Resume, GateTypeOK
<1>6. CASE ResumeWait
  <2>1. CASE UNCHANGED <<command, ghostVars>>
    BY <1>6, <1>w, <2>1 DEF ResumeWait, ghostVars
  <2>2. CASE ~UNCHANGED <<command, ghostVars>>
    <3>1. command'.at = "write" /\ command'.picked = asked'
      BY <1>6, <2>2 DEF ResumeWait
    <3> QED
      BY <3>1
  <2> QED
    BY <2>1, <2>2
<1>7. CASE WriteGate
  <2>1. \A n \in Strategies : gate'[n] # NoSignal => n \in command.picked
    BY <1>7, <1>w, WithoutIs DEF WriteGate, GateTypeOK
  <2>2. command.at = "write" /\ command'.at = "clear" /\ UNCHANGED asked
    BY <1>7, <1>w DEF WriteGate, ghostVars, GateTypeOK
  <2> QED
    BY <1>w, <2>1, <2>2
<1>8. CASE LiftHalt
  BY <1>8, <1>w DEF LiftHalt, NoCommand, ghostVars
<1>9. CASE CleanGate
  <2>1. \A n \in Strategies : gate'[n] # NoSignal => gate[n] # NoSignal /\ n \in command.picked
    BY <1>9, <1>w, WithoutIs DEF CleanGate, GateTypeOK
  <2>2. command.at = "clean" /\ command'.at = "idle" /\ UNCHANGED <<asked, funded>>
    BY <1>9 DEF CleanGate, NoCommand, ghostVars
  <2> QED
    BY <1>w, <2>1, <2>2
<1>10. CASE Begin \/ ReadGate \/ EnterLeg \/ RoundEnds
  BY <1>10, <1>w DEF Begin, ReadGate, EnterLeg, RoundEnds, listenerVars, ghostVars
<1>11. CASE Merge
  <2>1. \A n \in Strategies : gate'[n] # NoSignal => gate[n] # NoSignal
    BY <1>11, <1>w, WithoutIs DEF Merge, GateTypeOK
  <2> QED
    BY <1>11, <1>w, <2>1 DEF Merge, listenerVars, ghostVars
<1>12. CASE UNCHANGED gateVars
  BY <1>12, <1>w DEF gateVars, listenerVars, ghostVars
<1> QED
  BY <1>1, <1>2, <1>3, <1>4, <1>5, <1>6, <1>7, <1>8, <1>9, <1>10, <1>11, <1>12 DEF GateNext

\* For any strategies and signals, and any timing: no strategy is held back by a
\* wait the user has not asked for or has taken back.
THEOREM OnlyAsked == GateSpec => []HeldBackAsAsked
<1>1. AskedInv => HeldBackAsAsked
  BY DEF AskedInv, GateTypeOK, Accounted, HeldBackAsAsked
<1> QED
  BY <1>1, AskedInit, AskedStep, PTL DEF GateSpec
=============================================================================
