--------------------------- MODULE TelegramPairing ---------------------------
(***************************************************************************)
(* Which Telegram chat may talk to the machine.  The user links and        *)
(* unlinks a bot on the web; the api mints a generation for each change.   *)
(* Three writers keep config/telegram.json: the poller and the             *)
(* telegram_reset command (runtime/telegram_pairing.py) and the bridge     *)
(* that adopts the first chat to write (runtime/telegram_bridge.py), which *)
(* also keeps the offset of the updates it has taken.                      *)
(* Update ids are message numbers; the date of a message is the generation *)
(* it was sent in, and pair_at is the generation a pairing begins with.    *)
(***************************************************************************)
EXTENDS Integers, Sequences, FiniteSets

CONSTANTS
  Incoming,     \* update ids, in the order they are sent
  Bots, NoBot,
  Chats, NoChat,
  BotOf, ChatOf,
  Unsupported,  \* voice, stickers...: they cannot pair and start no turn
  PairFaults,   \* blank: the api may state neither token nor generation;
                \* late_write: a new pairing may
                \* land between the bridge's last look and its write;
                \* stale_answer: the web or another writer may come between what
                \* poller or command read and what they write
  MaxLinks,     \* bound on links and unlinks
  MaxCrashes    \* bound on restarts of the bridge and failed drains

Gens == 0 .. MaxLinks + 1

ASSUME PairingAssumption ==
  /\ Incoming \subseteq Nat \ {0} /\ IsFiniteSet(Incoming)
  /\ NoBot \notin Bots /\ NoChat \notin Chats
  /\ BotOf \in [Incoming -> Bots] /\ ChatOf \in [Incoming -> Chats]
  /\ Unsupported \subseteq Incoming
  /\ PairFaults \subseteq {"blank", "late_write", "stale_answer"}
  /\ MaxLinks \in Nat /\ MaxCrashes \in Nat

VARIABLES
  backend,      \* the api's bot and generation
  sent,         \* the generation each message was sent in, 0 before
  confirmed,    \* per bot, what getUpdates has been told to forget
  config,       \* telegram.json
  offsetFile,   \* state/tg_offset: a bot and its next update
  poller,       \* one tick of the poller: the config and the answer it read
  reset,        \* a telegram_reset command
  bridge,       \* the bridge process
  crashes,      \* bridges that died, and backlog drains that failed
  undrained,    \* ghost: a backlog drain failed
  handled,      \* ghost: turns started for each message
  pairedBy,     \* ghost: the message that paired the chat in config
  lateTurns     \* ghost: turns of one batch for a pairing that is gone, less the times it went

bridgeVars == <<bridge, offsetFile, confirmed, handled, pairedBy, lateTurns>>
ills == <<crashes, undrained>>
vars == <<backend, sent, config, poller, reset, ills, bridgeVars>>

Configs  == [bot : Bots \cup {NoBot}, gen : Gens, at : Gens, chat : Chats \cup {NoChat}]
Blank    == [bot |-> NoBot, gen |-> 0, at |-> 0, chat |-> NoChat]
NoIdent  == [bot |-> NoBot, gen |-> 0]

\* pairing_identity.
IdentOf(c) == IF c.bot = NoBot THEN NoIdent ELSE [bot |-> c.bot, gen |-> c.gen]

Updates == UNION {[1 .. n -> Incoming] : n \in 0 .. Cardinality(Incoming)}
NoOffset == [bot |-> NoBot, next |-> 0]
Idle     == [at |-> "idle", local |-> Blank, answer |-> Blank, gen |-> 0]
NewBridge == [at |-> "top", ident |-> NoIdent, chat |-> NoChat, pairAt |-> 0,
              offset |-> 0, drained |-> FALSE, batch |-> <<>>, copy |-> Blank]

TypeOK ==
  /\ backend \in [bot : Bots \cup {NoBot}, gen : Gens]
  /\ sent \in [Incoming -> Gens] /\ confirmed \in [Bots -> Nat]
  /\ config \in Configs
  /\ offsetFile \in [bot : Bots \cup {NoBot}, next : Nat]
  /\ {poller, reset} \subseteq [at : {"idle", "fetch", "apply", "sync", "failed"},
                               local : Configs, answer : Configs, gen : Gens]
  /\ bridge \in [at : {"top", "drain", "poll", "batch", "pair", "write", "route"},
                 ident : [bot : Bots \cup {NoBot}, gen : Gens],
                 chat : Chats \cup {NoChat}, pairAt : Gens, offset : Nat,
                 drained : BOOLEAN, batch : Updates, copy : Configs]
  /\ crashes \in Nat /\ undrained \in BOOLEAN
  /\ handled \in [Incoming -> Nat] /\ lateTurns \in Int
  /\ pairedBy \in Incoming \cup {0}

Init ==
  /\ backend = [bot |-> NoBot, gen |-> 1]
  /\ sent = [m \in Incoming |-> 0] /\ confirmed = [b \in Bots |-> 0]
  /\ config = Blank /\ offsetFile = NoOffset
  /\ poller = Idle /\ reset = Idle /\ bridge = NewBridge /\ crashes = 0
  /\ undrained = FALSE
  /\ handled = [m \in Incoming |-> 0] /\ pairedBy = 0 /\ lateTurns = 0

\* The bridge has looked for the last time and not written yet.
Undisturbed == bridge.at \in {"pair", "write"} => "late_write" \in PairFaults

\* What was fetched is still what the api says; nobody else is about to write.
Settled(p) == p.at \notin {"apply", "sync"} \/ "stale_answer" \in PairFaults
Alone      == poller.at = "idle" \/ "stale_answer" \in PairFaults

-----------------------------------------------------------------------------
(* The user: messages, links and unlinks.                                    *)

Send(m) ==
  /\ sent[m] = 0 /\ \A n \in Incoming : n < m => sent[n] # 0
  /\ sent' = [sent EXCEPT ![m] = backend.gen]
  /\ UNCHANGED <<backend, config, poller, reset, ills, bridgeVars>>

\* Each change mints a generation; a running machine also gets the command.
Link(bot) ==
  /\ bot # backend.bot \/ bot # NoBot
  /\ backend.gen <= MaxLinks /\ Settled(poller) /\ Settled(reset)
  /\ backend' = [bot |-> bot, gen |-> backend.gen + 1]
  /\ reset' \in {reset} \cup (IF reset.at # "idle" THEN {} ELSE
                  {[Idle EXCEPT !.at = "fetch", !.gen = backend.gen + 1]})
  /\ UNCHANGED <<sent, config, poller, ills, bridgeVars>>

-----------------------------------------------------------------------------
(* The poller and the command.                                               *)

Agreed == [bot |-> backend.bot, gen |-> backend.gen, at |-> backend.gen, chat |-> NoChat]
Answers ==
  {Agreed} \cup (IF "blank" \in PairFaults THEN {Blank} ELSE {})

\* Mutant: the token alone decides what a new pairing is.
ConvergeOnToken(local, answer) ==
  CASE answer.bot = NoBot -> IF answer.gen = 0 THEN "keep" ELSE "apply"
    [] OTHER -> IF local.bot = answer.bot THEN "keep" ELSE "apply"

\* What converge does with the config it was given and the api's answer.
Converge(local, answer) ==
  CASE answer.bot = NoBot /\ (answer.gen = 0 \/ (local.bot = NoBot /\ local.gen = answer.gen))
         -> "keep"
    [] answer.bot = NoBot /\ local.bot = NoBot /\ answer.gen \notin {0, local.gen} -> "sync"
    [] answer.bot # NoBot /\ local.bot # NoBot
         /\ (answer.gen = 0 \/ (local.bot = answer.bot /\ local.gen = answer.gen)) -> "keep"
    [] OTHER -> "apply"

\* main: while paired only every PAIRED_CHECK_S; the fetch may fail.
PollerReads ==
  /\ poller.at = "idle" /\ Undisturbed
  /\ poller' = [Idle EXCEPT !.at = "fetch", !.local = config]
  /\ UNCHANGED <<backend, sent, config, reset, ills, bridgeVars>>

PollerFetches ==
  /\ poller.at = "fetch"
  /\ \/ poller' = Idle
     \/ \E answer \in Answers :
          poller' = CASE Converge(poller.local, answer) = "keep" -> Idle
                      [] Converge(poller.local, answer) = "apply" ->
                           [poller EXCEPT !.at = "apply", !.answer = answer]
                      [] OTHER -> [poller EXCEPT !.at = "sync",
                           !.answer = [poller.local EXCEPT !.gen = answer.gen]]
  /\ UNCHANGED <<backend, sent, config, reset, ills, bridgeVars>>

\* A fetch the api answers in full.
PollerAnswered ==
  /\ PollerFetches
  /\ poller'.answer = [Agreed EXCEPT !.chat = poller'.answer.chat, !.at = poller'.answer.at]
     \/ Converge(poller.local, Agreed) = "keep"

\* reset asks the api too; a failed fetch does not keep the pairing.
ResetFetches ==
  /\ reset.at = "fetch"
  /\ \/ \E answer \in Answers : reset' = [reset EXCEPT !.at = "apply", !.answer = answer]
     \/ reset' = [reset EXCEPT !.at = "failed"]
  /\ UNCHANGED <<backend, sent, config, poller, ills, bridgeVars>>

\* _apply: the offset of another bot goes, the config is written.  Its file
\* operations follow each other at once, so they are one step.
Apply(bot, new) ==
  /\ offsetFile' = IF bot # NoBot /\ offsetFile.bot = bot THEN offsetFile ELSE NoOffset
  /\ config' = new

\* A write that takes the pairing of the batch in hand away allows the one turn
\* that is on its way.
PairingGone ==
  lateTurns' = IF IdentOf(config) = bridge.ident /\ IdentOf(config') # bridge.ident
               THEN lateTurns - 1 ELSE lateTurns

PollerApplies ==
  /\ poller.at = "apply" /\ Undisturbed /\ Apply(poller.answer.bot, poller.answer)
  /\ poller' = Idle /\ PairingGone
  /\ UNCHANGED <<backend, sent, reset, ills, bridge, confirmed, handled, pairedBy>>

PollerSyncs ==
  /\ poller.at = "sync" /\ Undisturbed /\ config' = poller.answer /\ poller' = Idle
  /\ PairingGone
  /\ UNCHANGED <<backend, sent, reset, ills, bridge, offsetFile, confirmed, handled,
                 pairedBy>>

\* The pairing is dropped now even if the api did not answer; the bot's offset stays.
ResetApplies ==
  /\ \/ /\ reset.at = "apply"
        /\ Apply(reset.answer.bot,
             [reset.answer EXCEPT !.gen = IF @ = 0 THEN reset.gen ELSE @])
     \/ reset.at = "failed" /\ Apply(config.bot, [Blank EXCEPT !.gen = reset.gen])
  /\ Alone /\ Undisturbed /\ reset' = Idle /\ PairingGone
  /\ UNCHANGED <<backend, sent, poller, ills, bridge, confirmed, handled, pairedBy>>

-----------------------------------------------------------------------------
(* The bridge.                                                               *)

Go(step) == bridge' = [bridge EXCEPT !.at = step]
BackToTop == bridge' = [bridge EXCEPT !.at = "top", !.batch = <<>>, !.copy = Blank]

\* load_offset: only the offset of this bot counts.
LoadOffset(bot) == IF offsetFile.bot = bot THEN offsetFile.next ELSE 0

\* The top of the loop: a new identity starts over with offset and backlog.
ReadConfig ==
  LET cur == IdentOf(config)  new == cur # bridge.ident
      drained == ~new /\ bridge.drained
  IN
  /\ bridge.at = "top"
  /\ bridge' = [bridge EXCEPT
       !.at = CASE config.bot = NoBot -> "top"
                [] config.bot # NoBot /\ config.chat = NoChat /\ ~drained -> "drain"
                [] OTHER -> "poll",
       !.ident = cur, !.chat = config.chat, !.pairAt = config.at,
       !.offset = IF new /\ config.bot # NoBot THEN LoadOffset(config.bot) ELSE @,
       !.drained = drained]
  /\ lateTurns' = 0
  /\ UNCHANGED <<backend, sent, config, poller, reset, ills, offsetFile, confirmed,
                 handled, pairedBy>>

\* What getUpdates returns, oldest first; asking with an offset confirms what is
\* below it.
Known(bot, offset) == IF offset > confirmed[bot] THEN offset ELSE confirmed[bot]
GetUpdates(bot, offset) ==
  {updates \in Updates :
     /\ {updates[i] : i \in DOMAIN updates} =
          {m \in Incoming : BotOf[m] = bot /\ sent[m] # 0 /\ m >= Known(bot, offset)}
     /\ \A i, j \in DOMAIN updates : i < j => updates[i] < updates[j]}
Confirm(bot, offset) == confirmed' = [confirmed EXCEPT ![bot] = Known(bot, offset)]

\* Mutant: only the age of a message makes it stale.
SentBeforeByAge(m, pairAt) == FALSE

\* Sent before the link: it belongs to the pairing before.
SentBefore(m, pairAt) == sent[m] < pairAt

\* Up to the first message that is recent and sent after pair_at.
Drain ==
  LET bot == bridge.ident.bot IN
  /\ bridge.at = "drain"
  /\ \E updates \in GetUpdates(bot, bridge.offset) : \E n \in 0 .. Len(updates) :
       /\ n < Len(updates) => ~SentBefore(updates[n + 1], bridge.pairAt)
       /\ LET next == IF n = 0 THEN bridge.offset ELSE updates[n] + 1 IN
          /\ bridge' = [bridge EXCEPT !.at = "poll", !.offset = next, !.drained = TRUE]
          /\ offsetFile' = IF next = 0 THEN offsetFile ELSE [bot |-> bot, next |-> next]
  /\ Confirm(bot, bridge.offset)
  /\ UNCHANGED <<backend, sent, config, poller, reset, ills, handled, pairedBy,
                 lateTurns>>

\* The drain is not tried again.
DrainFails ==
  /\ bridge.at = "drain" /\ crashes < MaxCrashes
  /\ bridge' = [bridge EXCEPT !.at = "poll", !.drained = TRUE]
  /\ crashes' = crashes + 1 /\ undrained' = TRUE
  /\ UNCHANGED <<backend, sent, config, poller, reset, offsetFile, confirmed,
                 handled, pairedBy, lateTurns>>

\* The long poll; an error leaves the loop at its top.
Poll ==
  LET bot == bridge.ident.bot IN
  /\ bridge.at = "poll"
  /\ \/ BackToTop /\ UNCHANGED confirmed
     \/ /\ \E updates \in GetUpdates(bot, bridge.offset) :
             updates # <<>> /\ bridge' = [bridge EXCEPT !.at = "batch", !.batch = updates]
        /\ Confirm(bot, bridge.offset)
  /\ UNCHANGED <<backend, sent, config, poller, reset, ills, offsetFile, handled,
                 pairedBy, lateTurns>>

\* Mutant: the offset is kept in memory only.
TakeUnsaved ==
  LET m == Head(bridge.batch) IN
  /\ bridge.at = "batch" /\ bridge.batch # <<>> /\ IdentOf(config) = bridge.ident
  /\ Alone
  /\ bridge' = [bridge EXCEPT !.offset = m + 1,
       !.at = IF bridge.chat = NoChat /\ m \notin Unsupported THEN "pair" ELSE "route"]
  /\ UNCHANGED <<backend, sent, config, poller, reset, ills, offsetFile, confirmed,
                 handled, pairedBy, lateTurns>>

\* The next update of the batch, if the pairing is still the one it was read for.
Take ==
  LET m == Head(bridge.batch) IN
  /\ bridge.at = "batch" /\ bridge.batch # <<>> /\ IdentOf(config) = bridge.ident
  /\ Alone
  /\ bridge' = [bridge EXCEPT !.offset = m + 1,
       !.at = IF bridge.chat = NoChat /\ m \notin Unsupported THEN "pair" ELSE "route"]
  /\ offsetFile' = [bot |-> bridge.ident.bot, next |-> m + 1]
  /\ UNCHANGED <<backend, sent, config, poller, reset, ills, confirmed, handled,
                 pairedBy, lateTurns>>

BatchEnds ==
  /\ bridge.at = "batch"
  /\ bridge.batch = <<>> \/ IdentOf(config) # bridge.ident
  /\ BackToTop
  /\ UNCHANGED <<backend, sent, config, poller, reset, ills, offsetFile, confirmed,
                 handled, pairedBy, lateTurns>>

\* Auto-pair: the config is read again right before it is written.
PairRead ==
  /\ bridge.at = "pair"
  /\ IF IdentOf(config) # bridge.ident THEN BackToTop
     ELSE bridge' = [bridge EXCEPT !.at = "write", !.chat = ChatOf[Head(bridge.batch)],
                       !.copy = [config EXCEPT !.chat = ChatOf[Head(bridge.batch)]]]
  /\ UNCHANGED <<backend, sent, config, poller, reset, ills, offsetFile, confirmed,
                 handled, pairedBy, lateTurns>>

\* A failed write leaves the chat paired for this batch only.
PairWrite ==
  /\ bridge.at = "write"
  /\ bridge' = [bridge EXCEPT !.at = "route", !.copy = Blank]
  /\ \/ /\ config' = bridge.copy /\ pairedBy' = Head(bridge.batch)
     \/ UNCHANGED <<config, pairedBy>>
  /\ UNCHANGED <<backend, sent, poller, reset, ills, offsetFile, confirmed, handled,
                 lateTurns>>

\* run_agent_turn for the allowed chat; everything else is ignored.
Route ==
  LET m == Head(bridge.batch)
      turn == ChatOf[m] = bridge.chat /\ m \notin Unsupported
  IN
  /\ bridge.at = "route"
  /\ bridge' = [bridge EXCEPT !.at = "batch", !.batch = Tail(@)]
  /\ handled' = IF turn THEN [handled EXCEPT ![m] = @ + 1] ELSE handled
  /\ lateTurns' = IF turn /\ IdentOf(config) # bridge.ident THEN lateTurns + 1
                  ELSE lateTurns
  /\ UNCHANGED <<backend, sent, config, poller, reset, ills, offsetFile, confirmed,
                 pairedBy>>

\* A restart forgets everything but the files.
Crash ==
  /\ crashes < MaxCrashes /\ crashes' = crashes + 1
  /\ bridge' = NewBridge
  /\ UNCHANGED <<undrained, backend, sent, config, poller, reset, offsetFile, confirmed, handled,
                 pairedBy, lateTurns>>

Poller == PollerReads \/ PollerFetches \/ PollerApplies \/ PollerSyncs
Reset  == ResetFetches \/ ResetApplies
Bridge == ReadConfig \/ Drain \/ DrainFails \/ Poll \/ Take \/ BatchEnds
            \/ PairRead \/ PairWrite \/ Route

Next ==
  \/ \E m \in Incoming : Send(m)
  \/ \E bot \in Bots \cup {NoBot} : Link(bot)
  \/ Poller \/ Reset \/ Bridge \/ Crash

Spec == Init /\ [][Next]_vars

\* The poller's timer fires, the api answers now and then, the bridge loops.
FairSpec ==
  /\ Spec
  /\ WF_vars(PollerReads) /\ WF_vars(PollerApplies) /\ WF_vars(PollerSyncs)
  /\ SF_vars(PollerAnswered)
  /\ WF_vars(Reset) /\ WF_vars(Bridge)

-----------------------------------------------------------------------------
\* The chat in telegram.json wrote after the link it is paired under: neither a
\* stranger's old message nor the old account's pairs (main, the backlog drain),
\* unless that drain failed, which is not tried again.
PairedAfterLink == config.chat # NoChat /\ ~undrained => sent[pairedBy] >= config.at

\* A message starts at most one turn, whatever crashes and whatever is unlinked and
\* linked again (save_offset before the turn, _drop_foreign_offset), unless a drain
\* failed: the offset of the pairing before is gone by then.
AtMostOnce == ~undrained => \A m \in Incoming : handled[m] <= 1

\* Each time a pairing goes, the old chat gets at most the turn that was on its way,
\* though the same pairing may come back under a batch read before
\* (telegram_bridge.py 411-422).
OneLateTurn == lateTurns <= 0

\* The two together: a chat is served from its own link to the next, and no turn
\* but the one on its way then.
OnlyTheLinkedChat == PairedAfterLink /\ OneLateTurn

\* The file says what the api says.
Agrees == config.bot = backend.bot /\ config.gen = backend.gen
=============================================================================
