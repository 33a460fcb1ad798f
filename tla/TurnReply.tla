----------------------------- MODULE TurnReply -----------------------------
(* The text of a turn on its way from the model to the chat and to the         *)
(* history: the loop over the engine's messages (run_turn), the sink of the    *)
(* web and desktop chats (WebSink of runtime/agent_turn.py) and the desktop's  *)
(* chat (collectDraft of shell/renderer/app.js).  Text is a sequence of words, *)
(* numbered as the model says them, and markup; layout is left out.            *)
EXTENDS Naturals, Sequences, FiniteSets, SequencesExt

CONSTANTS
  MaxWords,     \* words the model says in a turn
  ReplyFaults   \* subset of AllReplyFaults

(* image: a picture from a background command arrives while the reply streams   *)
AllReplyFaults == {"image"}

ASSUME ReplyAssumption == MaxWords \in Nat /\ ReplyFaults \subseteq AllReplyFaults

VARIABLES
  streams,  \* the SDK delivers text deltas
  grouped,  \* it delivers a message whole, not one per content block
  phase,    \* "stream", "ending", "over"
  resumed,  \* the turn was run again after an empty reply
  stopped,  \* sink.interrupted
  failed,   \* sink.error_text
  said,     \* ghost: what the model said since its last tool
  aside,    \* ghost: what it said last before a tool
  words,    \* words said
  block,    \* the text block being generated
  texts,    \* blocks generated of a message not delivered yet
  streamed, \* deltas delivered, by block of the message
  sink,     \* the sink's buffers
  chat,     \* the renderer: draft, the bubble, bubbles closed by a picture
  history   \* the row of the session store

replyVars == <<streams, grouped, phase, resumed, stopped, failed, said, aside, words, block,
               texts, streamed, sink, chat, history>>

\* The two halves of a <nav> marker; a <suggest> block not closed yet, or an invented
\* user turn: cut with all that follows; the line that says the turn was stopped.
NavOpen  == MaxWords + 1
NavClose == MaxWords + 2
Extra == MaxWords + 3
Note  == MaxWords + 4
Text  == Seq(1..Note)
NoHold == <<0>>

ReplyTypeOK ==
  /\ {streams, grouped, resumed, stopped, failed} \subseteq BOOLEAN
  /\ phase \in {"stream", "ending", "over"} /\ words \in 0..MaxWords
  /\ {said, aside, block, history} \subseteq Text
  /\ texts \in Seq(Text) /\ streamed \in Seq(Text)
  /\ sink.full \in Text /\ sink.pending \in Text /\ sink.status \in Text
  /\ sink.head \in Text \cup {NoHold}
  /\ chat \in [draft : Text, bubble : Text, closed : Text]

ReplyInit ==
  /\ streams \in BOOLEAN /\ grouped \in BOOLEAN
  /\ phase = "stream" /\ resumed = FALSE /\ stopped = FALSE /\ failed = FALSE
  /\ said = <<>> /\ aside = <<>> /\ words = 0
  /\ block = <<>> /\ texts = <<>> /\ streamed = <<>>
  /\ sink = [full |-> <<>>, pending |-> <<>>, head |-> <<>>, status |-> <<>>]
  /\ chat = [draft |-> <<>>, bubble |-> <<>>, closed |-> <<>>] /\ history = <<>>

-----------------------------------------------------------------------------
(* The sink.  A value of both is a record [sink, chat]; `flush` says whether   *)
(* the interval since the last flush has passed.                               *)

IsNav(text) == IsPrefix(<<NavOpen, NavClose>>, text)
StripNavs(text) ==
  LET Marks(i) == text[i] = NavClose \/ (text[i] = NavOpen /\ i < Len(text) /\ text[i + 1] = NavClose)
      kept     == {i \in DOMAIN text : ~Marks(i)}
  IN [k \in 1..Cardinality(kept) |->
        text[CHOOSE i \in kept : Cardinality({j \in kept : j < i}) = k - 1]]

\* strip_hallucinated_turn, extract_suggestions and the stray markers.
Clean(text) ==
  LET cuts == {i \in DOMAIN text : text[i] = Extra}
      end  == IF cuts = {} THEN Len(text) ELSE (CHOOSE i \in cuts : \A j \in cuts : i <= j) - 1
  IN StripNavs(SubSeq(text, 1, end))

FlushText(s) ==
  [s EXCEPT !.chat.draft = @ \o s.sink.pending, !.sink.pending = <<>>]

EmitText(s, text, flush) ==
  LET to == [s EXCEPT !.sink.full = @ \o text, !.sink.pending = @ \o text]
  IN IF flush THEN FlushText(to) ELSE to

\* nav_hold_more: the head of a segment is held while it may become a marker.
HoldMore(head) == NavClose \notin ToSet(head) /\ (head = <<>> \/ head[1] = NavOpen)
Unmarked(head) == IF IsNav(head) THEN SubSeq(head, 3, Len(head)) ELSE head

OnText(s, text, flush) ==
  LET head == s.sink.head \o text IN
  IF text = <<>> THEN s
  ELSE IF s.sink.head = NoHold THEN EmitText(s, text, flush)
  ELSE IF HoldMore(head) THEN [s EXCEPT !.sink.head = head]
  ELSE LET open == [s EXCEPT !.sink.head = NoHold]
       IN IF Unmarked(head) = <<>> THEN open ELSE EmitText(open, Unmarked(head), flush)

FlushHead(s, flush) ==
  IF s.sink.head \in {NoHold, <<>>} THEN [s EXCEPT !.sink.head = NoHold]
  ELSE EmitText([s EXCEPT !.sink.head = NoHold], Unmarked(s.sink.head), flush)

OnStatus(s, text) ==
  IF StripNavs(text) = <<>> THEN s ELSE [s EXCEPT !.sink.status = StripNavs(text)]

\* The asides of a message in turn: the last with a word in it stays the status.
OnAsides(s, asides) ==
  LET told == {i \in DOMAIN asides : StripNavs(asides[i]) # <<>>}
  IN IF told = {} THEN s
     ELSE OnStatus(s, asides[CHOOSE i \in told : \A j \in told : j <= i])

\* Mutant: what was not sent yet is left for after the tool.
KeepsPending(s, flush) ==
  LET to == FlushHead(s, flush) IN
  [to EXCEPT !.sink.status = IF to.sink.full = <<>> THEN @ ELSE to.sink.full,
             !.sink.full = <<>>, !.sink.head = <<>>,
             !.chat.draft = <<>>, !.chat.bubble = <<>>]

\* What was said so far was an aside: out of the reply, in the sink and in the chat.
OnTool(s, flush) ==
  LET to == FlushHead(s, flush) IN
  [to EXCEPT !.sink.status = IF to.sink.full = <<>> THEN @ ELSE to.sink.full,
             !.sink.full = <<>>, !.sink.pending = <<>>, !.sink.head = <<>>,
             !.chat.draft = <<>>, !.chat.bubble = <<>>]

HasReply == sink.full # <<>> \/ sink.head \notin {NoHold, <<>>}

\* draftPromote
Promote(c) == [c EXCEPT !.bubble = @ \o c.draft, !.draft = <<>>]

\* finalize without an error: the last aside stands in for an empty reply.
Finalized(s, flush) ==
  LET open == FlushHead(s, flush)
      full == FlushText(IF open.sink.full = <<>> THEN OnText(open, StripNavs(open.sink.status), flush)
                                                 ELSE open)
      text == Clean(full.sink.full)
      c    == IF text = full.sink.full THEN full.chat ELSE [full.chat EXCEPT !.draft = text]
  IN [text |-> text, chat |-> Promote(c)]

-----------------------------------------------------------------------------
(* The loop.                                                                   *)

Now == [sink |-> sink, chat |-> chat]
Become(s) == sink' = s.sink /\ chat' = s.chat

\* One event is handled, then a stopped turn leaves the loop.
GoesOn == phase' = IF stopped THEN "ending" ELSE "stream"

\* The model says a fragment: a marker first of all, words, and what it invents or
\* suggests once after them.
Says(f) ==
  /\ phase = "stream"
  /\ CASE f = NavOpen  -> said = <<>>
       [] f = NavClose -> block = <<NavOpen>>
       [] f = Extra -> block # <<>> /\ Last(block) \in 1..MaxWords /\ Extra \notin ToSet(said)
       [] OTHER       -> f = words + 1 /\ block # <<NavOpen>>
  /\ words' = IF f \in 1..MaxWords THEN f ELSE words
  /\ block' = Append(block, f) /\ said' = Append(said, f)
  /\ IF streams
     THEN /\ streamed' = IF block = <<>> THEN Append(streamed, <<f>>)
                         ELSE [streamed EXCEPT ![Len(streamed)] = Append(@, f)]
          /\ \E flush \in BOOLEAN : Become(OnText(Now, <<f>>, flush))
          /\ GoesOn
     ELSE UNCHANGED <<streamed, sink, chat, phase>>
  /\ UNCHANGED <<streams, grouped, resumed, stopped, failed, aside, texts, history>>

\* _unstreamed: which deltas a finished block was delivered by.
Place(text, sent) ==
  LET of == {i \in DOMAIN sent : IsPrefix(sent[i], text)} IN
  CHOOSE i \in of \cup {0} : \A j \in of : i # 0 /\ i <= j

\* What the deltas did not deliver of a block; deltas that fit no block are believed.
Undelivered(text, sent) ==
  IF sent = <<>> THEN text
  ELSE IF Place(text, sent) = 0 THEN <<>>
  ELSE SubSeq(text, Len(sent[Place(text, sent)]) + 1, Len(text))

Consumed(text, sent) ==
  IF sent = <<>> \/ Place(text, sent) = 0 THEN sent ELSE RemoveAt(sent, Place(text, sent))

\* A text of a message is heard; `sent` are the deltas no text was matched with yet.
Hear(to, text, flush) ==
  [now  |-> OnText(to.now, Undelivered(text, to.sent), flush),
   sent |-> Consumed(text, to.sent)]

\* The texts of a message without a tool; a stop is seen after its first block.
Delivered(s, message, flush) ==
  LET heard == IF stopped THEN <<message[1]>> ELSE message
      hear[i \in 0..Len(heard)] == IF i = 0 THEN [now |-> s, sent |-> streamed]
                                   ELSE Hear(hear[i - 1], heard[i], flush)
  IN hear[Len(heard)].now

BlockEnds ==
  /\ phase = "stream" /\ block # <<>> /\ block' = <<>>
  /\ IF grouped
     THEN texts' = Append(texts, block) /\ UNCHANGED <<streamed, sink, chat, phase>>
     ELSE /\ \E flush \in BOOLEAN : Become(Delivered(Now, <<block>>, flush))
          /\ streamed' = <<>> /\ GoesOn /\ UNCHANGED texts
  /\ UNCHANGED <<streams, grouped, resumed, stopped, failed, said, aside, words, history>>

MessageEnds ==
  /\ phase = "stream" /\ block = <<>> /\ texts # <<>>
  /\ \E flush \in BOOLEAN : Become(Delivered(Now, texts, flush))
  /\ texts' = <<>> /\ streamed' = <<>> /\ GoesOn
  /\ UNCHANGED <<streams, grouped, resumed, stopped, failed, said, aside, words, block, history>>

\* A tool ends its message; the texts before it are asides.  A stop is seen between them.
CallsTool ==
  /\ phase = "stream" /\ block = <<>>
  /\ IF stopped /\ texts # <<>>
     THEN Become(OnStatus(Now, texts[1])) /\ UNCHANGED <<said, aside>>
     ELSE /\ \E flush \in BOOLEAN : Become(OnTool(OnAsides(Now, texts), flush))
          /\ said' = <<>> /\ aside' = IF StripNavs(said) = <<>> THEN aside ELSE said
  /\ texts' = <<>> /\ streamed' = <<>> /\ GoesOn
  /\ UNCHANGED <<streams, grouped, resumed, stopped, failed, words, block, history>>

\* The stream ends: between messages, or cut short.  An empty reply is tried once more.
StreamEnds ==
  /\ phase = "stream" /\ (stopped \/ (block = <<>> /\ texts = <<>>))
  /\ IF ~HasReply /\ ~resumed /\ ~stopped
     THEN phase' = "stream" /\ resumed' = TRUE
     ELSE phase' = "ending" /\ UNCHANGED resumed
  /\ failed' = (phase' = "ending" /\ ~stopped /\ ~HasReply /\ sink.status = <<>>)
  /\ block' = <<>> /\ texts' = <<>> /\ streamed' = <<>>
  /\ UNCHANGED <<streams, grouped, stopped, said, aside, words, sink, chat, history>>

Fails ==
  /\ phase = "stream" /\ ~stopped /\ phase' = "ending" /\ failed' = TRUE
  /\ UNCHANGED <<streams, grouped, resumed, stopped, said, aside, words, block, texts, streamed,
                 sink, chat, history>>

Stop ==
  /\ phase = "stream" /\ ~stopped /\ stopped' = TRUE
  /\ UNCHANGED <<streams, grouped, phase, resumed, failed, said, aside, words, block, texts,
                 streamed, sink, chat, history>>

\* The end of run_turn: the note of a stop, then finalize and the row of the history.
ReplyEnds ==
  /\ phase = "ending" /\ phase' = "over"
  /\ \E flush \in BOOLEAN :
       LET noted == IF stopped THEN OnText(Now, <<Note>>, flush) ELSE Now IN
       IF failed
       THEN sink' = sink /\ chat' = Promote(FlushText(noted).chat) /\ history' = <<>>
       ELSE LET final == Finalized(noted, flush)
            IN sink' = noted.sink /\ chat' = final.chat /\ history' = final.text
  /\ UNCHANGED <<streams, grouped, resumed, stopped, failed, said, aside, words, block, texts,
                 streamed>>

\* A picture closes the bubble it finds.
Image ==
  /\ "image" \in ReplyFaults /\ phase = "stream"
  /\ chat' = [draft |-> <<>>, bubble |-> <<>>,
              closed |-> chat.closed \o Promote(chat).bubble]
  /\ UNCHANGED <<streams, grouped, phase, resumed, stopped, failed, said, aside, words, block,
                 texts, streamed, sink, history>>

ReplyNext ==
  \/ (\E f \in 1..Extra : Says(f))
  \/ BlockEnds \/ MessageEnds \/ CallsTool \/ StreamEnds \/ Fails \/ Stop \/ ReplyEnds \/ Image

ReplySpec == ReplyInit /\ [][ReplyNext]_replyVars

-----------------------------------------------------------------------------

\* When a turn is over the chat shows what the history keeps.  Unless it was stopped,
\* that is what the model said after its last tool, each word once, without its
\* markup; and an aside only when it said nothing after it.
ReplyIsKept ==
  phase = "over" /\ ~failed =>
    /\ chat.closed \o chat.bubble = history
    /\ ~stopped /\ Clean(said) # <<>> => history = Clean(said)
    /\ ~stopped /\ said = <<>> /\ aside # <<>> => history # <<>>

\* A stopped turn says so: "that line goes into the reply and the history".
StopIsTold ==
  phase = "over" /\ stopped => Note \in ToSet(history) /\ Note \in ToSet(chat.bubble)
=============================================================================
