---------------------------- MODULE AccountGuard ----------------------------
(***************************************************************************)
(* Whose account the bot trades: the account guard of the reconciler       *)
(* (manager/reconciler.py), the book's account record (lib/portfolio), the *)
(* kill switch both processes share (lib/guard) and the commands of the    *)
(* web listener that bind a key, ask the user and start trading again      *)
(* (runtime/command_listener.py).  One venue, never paper.                 *)
(*                                                                         *)
(* The two processes share four files and no lock: .env (`key'), the       *)
(* ledger seed (`seeded', `account', `book'), state/HALT (`halt') and      *)
(* state/venue_account.json (`guardFile').  The reconciler loads the last  *)
(* of them once and from then on writes its own `memory' of it back.       *)
(* `book' names the account on which the open rows of the bot's book were  *)
(* really built, which no process can see.                                 *)
(***************************************************************************)
EXTENDS Naturals

CONSTANTS
  Accounts,       \* the user's accounts at the venue
  Keys,           \* the API keys the user may bind
  AccountOf,      \* the account each key opens
  NoAccount, NoKey,
  HaltAfter,      \* DISCONNECT_HALT_AFTER
  Faults          \* what this instance lets the environment do, see FaultKinds

\* unread_id: the venue answers the position read but not the id read.
\* bind_in_round, early_start: the user binds a key, or presses start, while a
\* round is running.
\* stale_answer: the answer to one question arrives after the next key.
FaultKinds == {"unread_id", "bind_in_round", "early_start", "stale_answer"}

ASSUME AccountGuardAssumption ==
  /\ AccountOf \in [Keys -> Accounts]
  /\ NoAccount \notin Accounts /\ NoKey \notin Keys
  /\ Accounts \cap {"transient", "unreadable"} = {}
  /\ HaltAfter \in Nat \ {0}
  /\ Faults \subseteq FaultKinds

VARIABLES
  key,            \* the key in .env
  seeded,         \* the seed has its cutoff, seeded_at: without it nothing trades
  account,        \* the seed's venue_account: which account the book is said to be
  book,           \* the account the open rows of the book were built on
  guardFile,      \* state/venue_account.json
  halt,           \* state/HALT: "no", or who set it
  pc,             \* where the reconciler's main loop is
  memory,         \* _account_guard: the reconciler's copy of guardFile
  memoryHalt,     \* guard._halt_flag of the reconciler's process
  haltSeen,       \* _halt_file_seen
  guardDue, strikes,
  knownKey,       \* _key_fp: the key of .env as the last round read it
  uid, verdict, startHalted,      \* locals of the running round
  cmd, cmdUid,    \* the command the listener is in, and the id it read
  answer,         \* the answer on the user's screen, not delivered yet
  rebound,        \* a key was bound since the round read .env
  awaiting,       \* the book was reset and start was not pressed since
  blind           \* the book took a fill that its account record does not answer for

books     == <<seeded, account, book>>
files     == <<key, books, guardFile, halt>>
flags     == <<memoryHalt, haltSeen>>
locals    == <<uid, verdict, startHalted>>
daemon    == <<pc, memory, flags, guardDue, knownKey, strikes, locals>>
listener  == <<cmd, cmdUid>>
history   == <<rebound, awaiting, blind>>
vars      == <<files, daemon, listener, answer, history>>

Unread    == {"transient", "unreadable"}
Verdicts  == {"ok", "reset"} \cup Unread
Record    == [id : Accounts \cup {NoAccount}, fp : Keys \cup {NoKey},
              answer : {"none", "same", "different"}]
NoRecord  == [id |-> NoAccount, fp |-> NoKey, answer |-> "none"]

\* hold: waiting for the next round, asking the user, asking with its HALT set.
\* mark: bind_reset, still to be taken over, or taken over by a start.
GuardState == [pending : BOOLEAN, hold : {"no", "wait", "ask", "asked"},
               mark : {"no", "marked", "acked"}]
Asking(state) == state.hold \in {"ask", "asked"}

TypeOK ==
  /\ key \in Keys /\ seeded \in BOOLEAN /\ account \in Record
  /\ book \in Accounts \cup {NoAccount}
  /\ guardFile \in GuardState /\ halt \in {"no", "reconciler", "other"}
  /\ pc \in {"poll", "read", "identify", "check", "decide", "trip", "trade"}
  /\ memory \in GuardState /\ memoryHalt \in BOOLEAN /\ haltSeen \in BOOLEAN
  /\ guardDue \in BOOLEAN /\ knownKey \in Keys \cup {NoKey}
  /\ strikes \in 0 .. HaltAfter
  /\ uid \in Accounts \cup Unread /\ verdict \in Verdicts
  /\ startHalted \in BOOLEAN
  /\ cmd \in {"idle", "bound", "read", "starting"}
  /\ cmdUid \in Accounts \cup Unread
  /\ answer \in {"none", "same", "different"}
  /\ rebound \in BOOLEAN /\ awaiting \in BOOLEAN /\ blind \in BOOLEAN

-----------------------------------------------------------------------------
(* lib/portfolio: the account record of the book.                            *)

IdReads(k) ==
  {AccountOf[k]} \cup (IF "unread_id" \in Faults THEN Unread ELSE {})

Recorded == account.fp # NoKey

\* book_account_check: is the book the book of the account that key k opens?
\* u is the id the exchange answered, or how the read failed.
\* Mutant: identity is the key, not the account.
JudgeByKey(k, u) ==
  CASE Recorded /\ account.fp # k /\ u \in Accounts -> "reset"
    [] u \in Unread /\ Recorded /\ account.fp # k /\ book # NoAccount -> u
    [] OTHER -> "ok"

\* Mutant: a record without an id is always this key's.
JudgeAdopting(k, u) ==
  CASE u \in Accounts /\ account.id \notin {NoAccount, u} -> "reset"
    [] u \in Unread /\ Recorded /\ account.fp # k /\ book # NoAccount -> u
    [] OTHER -> "ok"

Judge(k, u) ==
  CASE u \in Accounts /\ account.id \notin {NoAccount, u} -> "reset"
    [] u \in Accounts /\ Recorded /\ account.id = NoAccount
         /\ account.fp # k /\ book # NoAccount -> "unreadable"
    [] u \in Unread /\ Recorded /\ account.fp # k /\ book # NoAccount -> u
    [] OTHER -> "ok"

RecordFor(k, u) ==
  IF Judge(k, u) \in Unread THEN account
  ELSE CASE u \in Accounts /\ (account.id # u \/ account.fp # k) ->
              [id |-> u, fp |-> k, answer |-> "none"]
         [] u \in Unread /\ account.fp # k ->
              [id |-> account.id, fp |-> k, answer |-> "none"]
         [] OTHER -> account

EmptyBook == book' = NoAccount /\ blind' = FALSE
KeepBook  == UNCHANGED <<book, blind>>

CheckAccount(k, u) ==
  /\ account' = RecordFor(k, u)
  /\ IF Judge(k, u) = "reset" THEN EmptyBook /\ awaiting' = TRUE
                              ELSE KeepBook /\ UNCHANGED awaiting

-----------------------------------------------------------------------------
(* lib/guard, as the reconciler's process sees it.                           *)

Halted == memoryHalt \/ halt # "no"

\* account_held: no order of any kind reaches the venue.
AccountHeld ==
  \/ guardFile.hold # "no"
  \/ (guardFile.pending \/ guardFile.mark = "marked") /\ Halted

TripHalt == halt' = "reconciler" /\ memoryHalt' = TRUE /\ haltSeen' = TRUE

\* _halt: once; with retrip also over a HALT of the reconciler's own.
HaltOnce  == IF Halted THEN UNCHANGED <<halt, flags>> ELSE TripHalt
\* Mutant: a trip that is pending is taken to have set its HALT.
HaltAgainUnlessPending ==
  IF Halted \/ memory.pending THEN UNCHANGED <<halt, flags>> ELSE TripHalt

HaltAgain ==
  IF Halted /\ halt # "reconciler" THEN UNCHANGED <<halt, flags>> ELSE TripHalt

Init ==
  /\ key \in Keys /\ seeded \in BOOLEAN /\ account = NoRecord /\ book = NoAccount
  /\ guardFile = [pending |-> FALSE, hold |-> "no", mark |-> "no"]
  /\ halt = "no"
  /\ pc = "poll" /\ memory = guardFile /\ memoryHalt = FALSE /\ haltSeen = FALSE
  /\ guardDue = TRUE /\ knownKey = NoKey /\ strikes = 0
  /\ uid = "unreadable" /\ verdict = "ok" /\ startHalted = FALSE
  /\ cmd = "idle" /\ cmdUid = "unreadable" /\ answer = "none"
  /\ rebound = FALSE /\ awaiting = FALSE /\ blind = FALSE

-----------------------------------------------------------------------------
(* The reconciler.                                                           *)

\* The locals of the round are not read again.
Judged    == uid' = "unreadable" /\ verdict' = "ok"
RoundOver == pc' = "poll" /\ Judged /\ startHalted' = FALSE

\* One poll: _sync_halt_flag, then a round if one is due; the round reads the
\* credentials first (_get_positions_guarded).
Poll ==
  /\ pc = "poll"
  /\ haltSeen' = (halt # "no")
  /\ memoryHalt' = (memoryHalt /\ (halt # "no" \/ ~haltSeen))
  /\ startHalted' = (memoryHalt' \/ halt # "no")
  /\ knownKey' = key
  /\ guardDue' = (guardDue \/ key # knownKey)
  /\ rebound' = FALSE
  /\ pc' = "read"
  /\ UNCHANGED <<files, memory, strikes, uid, verdict, listener, answer, awaiting,
                 blind>>

ReadTransient ==
  /\ pc = "read"
  /\ guardDue' = TRUE /\ RoundOver
  /\ UNCHANGED <<files, memory, flags, knownKey, strikes, listener, answer, history>>

ReadRejected ==
  /\ pc = "read"
  /\ HaltOnce
  /\ guardDue' = TRUE /\ RoundOver
  /\ UNCHANGED <<key, books, guardFile, memory, knownKey, strikes, listener,
                 answer, history>>

\* The count is capped at the threshold.
ReadUnclassified ==
  /\ pc = "read"
  /\ strikes' = IF strikes < HaltAfter THEN strikes + 1 ELSE strikes
  /\ IF strikes' = HaltAfter THEN HaltOnce ELSE UNCHANGED <<halt, flags>>
  /\ guardDue' = TRUE /\ RoundOver
  /\ UNCHANGED <<key, books, guardFile, memory, knownKey, listener, answer,
                 history>>

\* A settled guard lets the round trade without asking for the account.
ReadGood ==
  /\ pc = "read"
  /\ strikes' = 0
  /\ pc' = IF guardDue \/ memory.pending \/ memory.hold # "no"
           THEN "identify" ELSE "trade"
  /\ UNCHANGED <<files, memory, flags, guardDue, knownKey, locals, listener, answer,
                 history>>

Identify ==
  /\ pc = "identify"
  /\ uid' \in IdReads(knownKey)
  /\ pc' = "check"
  /\ UNCHANGED <<files, memory, flags, guardDue, knownKey, strikes,
                 verdict, startHalted, listener, answer, history>>

CheckBook ==
  /\ pc = "check"
  /\ CheckAccount(knownKey, uid)
  /\ verdict' = Judge(knownKey, uid)
  /\ pc' = "decide"
  /\ UNCHANGED <<key, seeded, guardFile, halt, memory, flags, guardDue, knownKey, strikes,
                 uid, startHalted, listener, answer, rebound>>

\* _book_hold: a failed read that has gone on for long enough asks as well.
HoldBook ==
  /\ pc = "decide" /\ verdict \in Unread
  /\ \E asks \in IF memory.hold = "no" THEN {FALSE} ELSE BOOLEAN :
       LET ask == verdict = "unreadable" \/ asks
           now == [memory EXCEPT !.hold = IF ask THEN "asked"
                                          ELSE IF @ = "no" THEN "wait" ELSE @] IN
       /\ memory' = now
       /\ guardFile' = IF now # memory \/ verdict = "transient" THEN now ELSE guardFile
       /\ pc' = IF ask /\ ~(memory.hold = "asked" /\ Halted) THEN "trip" ELSE "poll"
  /\ guardDue' = TRUE /\ Judged
  /\ UNCHANGED <<key, books, halt, flags, knownKey, strikes, startHalted,
                 listener, answer, history>>

\* The hold is dropped from memory and file; then a bind's mark is looked for in
\* the file, and account_guard_decide says whether this round may trade.
Decide ==
  LET settled  == [memory EXCEPT !.hold = "no"]
      onDisk   == IF memory.hold # "no" THEN settled ELSE guardFile
      mark     == onDisk.mark
      another  == verdict = "reset" \/ mark = "marked"
      waiting  == memory.pending /\ Halted
  IN
  /\ pc = "decide" /\ verdict \notin Unread
  \* empty: the positions are gone while the targets still stand; newId: the
  \* account_id kept for the report is another one
  /\ \E empty, newId \in BOOLEAN :
       LET trips == ~waiting /\ \/ another
                                \/ empty /\ mark = "no" /\ ~memory.pending /\ ~Halted
           now   == [pending |-> waiting \/ trips, hold |-> "no", mark |-> "no"] IN
       /\ memory' = now
       /\ guardFile' = IF now # settled \/ mark # "no" \/ newId THEN now ELSE onDisk
       /\ pc' = IF trips THEN "trip" ELSE IF waiting THEN "poll" ELSE "trade"
  /\ guardDue' = FALSE /\ Judged
  /\ UNCHANGED <<key, books, halt, flags, knownKey, strikes, startHalted,
                 listener, answer, history>>

Trip ==
  /\ pc = "trip"
  /\ HaltAgain
  /\ RoundOver
  /\ UNCHANGED <<key, books, guardFile, memory, guardDue, knownKey, strikes,
                 listener, answer, history>>

\* The orders of the round go out under the key that is in .env by then.
MayEnter == pc = "trade" /\ seeded /\ ~startHalted /\ ~Halted /\ ~AccountHeld
MayClose == pc = "trade" /\ book # NoAccount /\ ~AccountHeld

\* Without a baseline the round writes one and adopts what the targets explain of
\* the account's positions.  The new seed has no account record.
Baseline ==
  /\ pc = "trade" /\ ~seeded
  /\ seeded' = TRUE /\ account' = NoRecord
  /\ book' \in {NoAccount, AccountOf[key]} /\ blind' = (book' # NoAccount)
  /\ UNCHANGED <<key, guardFile, halt, daemon, listener, answer, rebound, awaiting>>

Enter ==
  /\ MayEnter
  /\ book' = IF book = NoAccount THEN AccountOf[key] ELSE book
  /\ blind' = (blind \/ rebound \/ account.fp # key
                     \/ account.id \notin {NoAccount, book'})
  /\ UNCHANGED <<key, seeded, account, guardFile, halt, daemon, listener, answer,
                 rebound, awaiting>>

Close ==
  /\ MayClose
  /\ EmptyBook
  /\ UNCHANGED <<key, seeded, account, guardFile, halt, daemon, listener, answer,
                 rebound, awaiting>>

EndRound ==
  /\ pc = "trade"
  /\ RoundOver
  /\ UNCHANGED <<files, memory, flags, guardDue, knownKey, strikes, listener, answer,
                 history>>

\* A death, and the start of the next process.  Nobody holds a reset for the
\* user if the process died on the way from the book to the HALT.
Die ==
  /\ RoundOver
  /\ memory' = guardFile /\ memoryHalt' = FALSE /\ haltSeen' = FALSE
  /\ guardDue' = TRUE /\ knownKey' = NoKey /\ strikes' = 0
  /\ awaiting' = (awaiting /\ halt # "no")
  /\ UNCHANGED <<files, listener, answer, rebound, blind>>

-----------------------------------------------------------------------------
(* The command listener, one command at a time.                              *)

\* _cmd_credentials writes .env, then _bind_book_accounts reads the id.  A
\* dialog about the key before it closes, unless it is open on another device.
BindKey(k) ==
  /\ cmd = "idle" /\ k # key
  /\ "bind_in_round" \in Faults \/ pc = "poll"
  /\ key' = k /\ rebound' = TRUE /\ cmd' = "bound"
  /\ answer' = IF "stale_answer" \in Faults THEN answer ELSE "none"
  /\ UNCHANGED <<books, guardFile, halt, daemon, cmdUid, awaiting, blind>>

BindRead ==
  /\ cmd = "bound"
  /\ cmdUid' \in IdReads(key)
  /\ cmd' = "read"
  /\ UNCHANGED <<files, daemon, answer, history>>

\* Another account: HALT and the mark land before the book is reset.
BindCheck ==
  LET found == Judge(key, cmdUid) IN
  /\ cmd = "read"
  /\ CheckAccount(key, cmdUid)
  /\ halt' = IF found = "reset" THEN "reconciler" ELSE halt
  /\ guardFile' = [guardFile EXCEPT
       !.mark = IF found = "reset" THEN "marked" ELSE @,
       !.hold = IF found = "unreadable" /\ @ # "asked" THEN "ask" ELSE @]
  /\ cmd' = "idle" /\ cmdUid' = "unreadable"
  /\ UNCHANGED <<key, seeded, daemon, answer, rebound>>

\* _cmd_resume, _cmd_resume_wait: not over an open question.
PressStart ==
  /\ cmd = "idle"
  /\ IF Asking(guardFile) THEN halt' = "reconciler" /\ UNCHANGED cmd
                          ELSE cmd' = "starting" /\ UNCHANGED halt
  /\ UNCHANGED <<key, books, guardFile, daemon, cmdUid, answer, history>>

ClearHalt ==
  /\ cmd = "starting"
  /\ "early_start" \in Faults \/ pc = "poll"
  /\ guardFile' = [guardFile EXCEPT !.mark = IF @ = "marked" THEN "acked" ELSE @]
  /\ halt' = "no" /\ awaiting' = FALSE
  /\ cmd' = "idle"
  /\ UNCHANGED <<key, books, daemon, cmdUid, answer, rebound, blind>>

PressHalt ==
  /\ cmd = "idle" /\ halt' = "other"
  /\ UNCHANGED <<key, books, guardFile, daemon, listener, answer, history>>

\* The first save of the amounts on a machine that has never traded writes the
\* baseline of an empty book.
FirstSave ==
  /\ cmd = "idle" /\ ~seeded
  /\ seeded' = TRUE /\ account' = NoRecord
  /\ UNCHANGED <<key, book, guardFile, halt, daemon, listener, answer, history>>

\* The user reads the question and answers it truthfully.
ReadQuestion ==
  /\ Asking(guardFile) /\ book # NoAccount /\ cmd = "idle"
  /\ answer' = IF book = AccountOf[key] THEN "same" ELSE "different"
  /\ UNCHANGED <<files, daemon, listener, history>>

\* book_account_confirm reads the id twice, then the hold leaves the file (not
\* the memory of the reconciler).  Every other answer changes nothing.
Acts(first, final) ==
  /\ account.fp = key => account.answer \notin {answer, "different"}
  /\ Asking(guardFile) /\ Recorded /\ book # NoAccount
  /\ first \in Unread \/ account.id = NoAccount
  /\ answer = "same" /\ final \in Accounts => account.id \in {NoAccount, final}

Confirm ==
  /\ cmd = "idle" /\ answer # "none"
  /\ \E first, second \in IdReads(key) :
       LET final == IF first \in Accounts THEN first ELSE second
           old   == IF answer = "same" THEN account.id ELSE NoAccount IN
       IF Acts(first, final)
       THEN /\ account' = [id |-> IF final \in Accounts THEN final ELSE old,
                           fp |-> key, answer |-> answer]
            /\ IF answer = "same" THEN KeepBook ELSE EmptyBook
            /\ guardFile' = [guardFile EXCEPT !.hold = "no"]
       ELSE UNCHANGED <<account, book, blind, guardFile>>
  /\ answer' = "none"
  /\ UNCHANGED <<key, seeded, halt, daemon, listener, rebound, awaiting>>

RoundStep ==
  \/ Poll \/ ReadTransient \/ ReadRejected \/ ReadUnclassified \/ ReadGood
  \/ Identify \/ CheckBook \/ HoldBook \/ Decide \/ Trip \/ EndRound

Listener ==
  \/ \E k \in Keys : BindKey(k)
  \/ BindRead \/ BindCheck \/ PressStart \/ ClearHalt \/ PressHalt \/ FirstSave
  \/ ReadQuestion \/ Confirm

Next == RoundStep \/ Baseline \/ Enter \/ Close \/ Listener \/ Die

Spec == Init /\ [][Next]_vars

-----------------------------------------------------------------------------
\* An order that leaves under the key its round was checked with never trades an
\* account other than the one the bot's book was built on (book_account_check):
\* a close there would sell what the user holds.
OnItsOwnAccount ==
  (MayEnter \/ MayClose) /\ ~rebound => book \in {NoAccount, AccountOf[key]}

\* The same, where every fill in the book came under the key its round had read,
\* with that key on record and no other account's verified id beside it.
OrdersFollowTheAccount == ~blind => OnItsOwnAccount

\* Once another account emptied the book, no entry leaves before the user has
\* pressed start (account_guard_decide, _mark_bind_account_change), whatever
\* HALTs were standing and whichever process found the account.
ResetWaitsForStart == awaiting => ~MayEnter

\* The book is emptied only for a key of another account: a reset never abandons
\* the positions the bot has on the account it goes on trading.
ResetStep == account' # account /\ book # NoAccount /\ book' = NoAccount
NoBookAbandoned ==
  [][ResetStep /\ ~blind => AccountOf[account'.fp] # book]_vars

\* A start that removed the HALT is heard: a flag left in the daemon's memory is
\* of a HALT it saw on disk, so its next poll drops it (_sync_halt_flag).
StartIsHeard == memoryHalt /\ halt = "no" => haltSeen
=============================================================================
