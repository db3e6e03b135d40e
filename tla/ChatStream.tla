------------------------------ MODULE ChatStream ------------------------------
(***************************************************************************)
(* One conversation of the chat, from the page to the goroutines that      *)
(* stream the answers: the page (src/frontend, Chat.tsx and                *)
(* websocketService.ts), its websocket connections (handlers/websocket.go, *)
(* connection_manager.go), the turns (processStream and what it starts in  *)
(* chat_service.go) and the buffer that a page which comes back is served  *)
(* from (stream_buffer_service.go).                                        *)
(*                                                                         *)
(* A chunk of an answer is <<q, i>>, the i-th that a turn says to question *)
(* q; the turns of one question are not told apart.  The time to live of a *)
(* buffer, the time limit of a resume and the delay of a retry are actions *)
(* of their own.  Channels are never full.                                 *)
(***************************************************************************)
EXTENDS Naturals, Sequences

CONSTANTS
  Turn,         \* slots for turns that are streamed
  None,
  MaxAsked,     \* bound on the questions of the user
  MaxMishaps,   \* bound on the connections that break, the failures of providers and the stops
                \* of the user
  MaxChunks,    \* bound on the chunks of an answer
  MaxImages,    \* bound on the images that tools make
  MaxRounds,    \* maxToolIterations: rounds of tool calls of a turn
  MaxKept,      \* MaxChunksPerBuffer, and the limit of pending messages
  MaxRetries    \* MAX_AUTO_RETRIES

ASSUME NoneAssumption == None \notin Nat
ASSUME BoundAssumption ==
  /\ {MaxMishaps, MaxChunks, MaxImages, MaxRounds, MaxKept, MaxRetries} \subseteq Nat
  /\ MaxAsked \in Nat \ {0}

\* Each connection that breaks may take the server, and with it another connection, with it.
Conn     == 1 .. 2 * MaxMishaps + 1
Question == 1 .. MaxAsked
Image    == 1 .. MaxImages
Chunk    == Question \X (0 .. MaxChunks)

VARIABLES
  page,    \* the chat page and its WebSocketService
  conn,    \* [Conn -> a UserConnection and what is on its way]
  turn,    \* [Turn -> StreamChatCompletion and what follows it]
  buffer,  \* the StreamBuffer of the conversation
  odd,     \* what has happened that a property excepts
  spent    \* counted for MaxMishaps and MaxImages

vars == <<page, conn, turn, buffer, odd, spent>>

NoConn == [state |-> "none", alive |-> FALSE, inbox |-> <<>>, out |-> <<>>, stop |-> FALSE,
           resume |-> None]
NoTurn == [pc |-> "none", conn |-> 1, question |-> 1, said |-> 0, rounds |-> 0]
NoBuffer == [chunks |-> <<>>, images |-> <<>>, complete |-> FALSE]

Request == [kind : {"chat"}, question : Question] \cup [kind : {"stop", "resume"}]
Answer ==
  [kind : {"chunk"}, chunk : Chunk] \cup [kind : {"image"}, image : Image]
    \cup [kind : {"resume"}, chunks : Seq(Chunk), complete : BOOLEAN]
    \cup [kind : {"missed", "error", "end"}]
Kept == [chunks : Seq(Chunk), images : Seq(Image), complete : BOOLEAN]

TypeOK ==
  /\ page \in [conn : Conn \cup {0}, last : Conn, asked : 0 .. MaxAsked,
               sending : 0 .. MaxAsked, loading : BOOLEAN,
               message : Seq(Chunk) \cup {None}, images : Seq(Image), tracked : BOOLEAN,
               timer : BOOLEAN, ghosts : Nat, pending : Seq(Request), known : BOOLEAN,
               tries : 0 .. MaxRetries, stopped : BOOLEAN, retries : Seq(Question)]
  /\ conn \in [Conn -> [state : {"none", "open", "removed"}, alive : BOOLEAN,
                        inbox : Seq(Request), out : Seq(Answer), stop : BOOLEAN,
                        resume : Kept \cup {None}]]
  /\ turn \in [Turn -> [pc : {"none", "request", "stream", "tools", "results",
                              "fallback", "end", "cut", "error", "aborted"},
                        conn : Conn, question : Question, said : 0 .. MaxChunks,
                        rounds : 0 .. MaxRounds]]
  /\ buffer \in Kept \cup {None}
  /\ odd \subseteq {"late", "two"}
  /\ spent \in [mishaps : 0 .. MaxMishaps, images : 0 .. MaxImages]

Init ==
  /\ page = [conn |-> 1, last |-> 1, asked |-> 0, sending |-> 0, loading |-> FALSE,
             message |-> None, images |-> <<>>, tracked |-> FALSE, timer |-> FALSE,
             ghosts |-> 0, pending |-> <<>>, known |-> FALSE, tries |-> 0, stopped |-> FALSE,
             retries |-> <<>>]
  /\ conn = [c \in Conn |-> IF c = 1 THEN [NoConn EXCEPT !.state = "open", !.alive = TRUE]
                            ELSE NoConn]
  /\ turn = [t \in Turn |-> NoTurn]
  /\ buffer = None
  /\ odd = {}
  /\ spent = [mishaps |-> 0, images |-> 0]

------------------------------------------------------------------------------
(* Helpers.                                                                *)

Live(t) == turn[t].pc # "none"

\* What is written to a connection arrives unless it is broken.
Told(c, msgs) == [conn EXCEPT ![c].out = IF conn[c].alive THEN @ \o msgs ELSE @]
Asked(c, msgs) == [conn EXCEPT ![c].inbox = IF conn[c].alive THEN @ \o msgs ELSE @]

TurnTo(t, pc) == turn' = [turn EXCEPT ![t].pc = pc]
TurnOver(t)   == turn' = [turn EXCEPT ![t] = NoTurn]

\* A panic that nobody recovers ends the server, which starts again without what it had in
\* memory.
Crash ==
  /\ conn' = [c \in Conn |-> IF conn[c].state = "none" THEN NoConn
                             ELSE [NoConn EXCEPT !.state = "removed"]]
  /\ turn' = [t \in Turn |-> NoTurn]
  /\ buffer' = None

\* userConn.WriteChan <- msg, which panics when the channel is closed.  The goroutine that goes
\* on after tool calls recovers, the one that handleChatMessage starts does not.
Sends(t, msgs, pc, b) ==
  IF conn[turn[t].conn].state = "open"
  THEN /\ conn' = Told(turn[t].conn, msgs)
       /\ IF pc = "none" THEN TurnOver(t) ELSE TurnTo(t, pc)
       /\ buffer' = b
  ELSE IF turn[t].rounds > 0 THEN TurnOver(t) /\ UNCHANGED <<conn, buffer>>
  ELSE Crash

------------------------------------------------------------------------------
(* A turn: StreamChatCompletion, processStream, the tools.                 *)

\* The provider cannot be reached or refuses; or it refuses tools, which the page is told of as
\* an error while the turn asks again without them.
RequestFails(t) ==
  /\ turn[t].pc = "request"
  /\ spent.mishaps < MaxMishaps
  /\ spent' = [spent EXCEPT !.mishaps = @ + 1]
  /\ \/ /\ TurnTo(t, IF turn[t].rounds = 0 THEN "error" ELSE "fallback")
        /\ UNCHANGED <<conn, buffer>>
     \/ Sends(t, <<[kind |-> "error"]>>, "request", buffer)
  /\ UNCHANGED <<page, odd>>

\* The stream begins; a buffer that exists is kept.
StreamBegins(t) ==
  /\ turn[t].pc = "request"
  /\ TurnTo(t, "stream")
  /\ buffer' = IF buffer = None THEN NoBuffer ELSE buffer
  /\ UNCHANGED <<page, conn, odd, spent>>

Line_onfail(t) ==
  LET c == turn[t].conn
      chunk == <<turn[t].question, turn[t].said + 1>>
  IN  /\ turn[t].pc = "stream"
      /\ \/ /\ conn[c].stop \/ conn[c].state = "removed"
            /\ TurnOver(t)
            /\ buffer' = None
            /\ conn' = [conn EXCEPT ![c].stop = FALSE]
         \/ /\ ~conn[c].stop /\ conn[c].state = "open"
            /\ turn[t].said < MaxChunks
            /\ turn' = [turn EXCEPT ![t].said = @ + 1]
            /\ conn' = Told(c, <<[kind |-> "chunk", chunk |-> chunk]>>)
            /\ UNCHANGED buffer
      /\ UNCHANGED <<page, odd, spent>>

\* A line of the stream, with the select on StopChan before it: closed, it says stop for ever.
\* Otherwise the chunk is buffered and sent (safeSendChunk).
Line(t) ==
  LET c == turn[t].conn
      chunk == <<turn[t].question, turn[t].said + 1>>
  IN  /\ turn[t].pc = "stream"
      /\ \/ /\ conn[c].stop \/ conn[c].state = "removed"
            /\ TurnOver(t)
            /\ buffer' = None
            /\ conn' = [conn EXCEPT ![c].stop = FALSE]
         \/ /\ ~conn[c].stop /\ conn[c].state = "open"
            /\ turn[t].said < MaxChunks
            /\ turn' = [turn EXCEPT ![t].said = @ + 1]
            /\ buffer' = IF buffer = None \/ Len(buffer.chunks) >= MaxKept THEN buffer
                         ELSE [buffer EXCEPT !.chunks = Append(@, chunk)]
            /\ conn' = Told(c, <<[kind |-> "chunk", chunk |-> chunk]>>)
      /\ UNCHANGED <<page, odd, spent>>

MarkedComplete == IF buffer = None THEN None ELSE [buffer EXCEPT !.complete = TRUE]

\* The stream ends with tool calls; with nothing or with calls that are malformed; with an
\* answer; or it breaks off after a part of one.
StreamEnds(t) ==
  /\ turn[t].pc = "stream"
  /\ \/ /\ TurnTo(t, "tools")
        /\ UNCHANGED <<buffer, spent>>
     \/ /\ turn[t].said = 0 \/ spent.mishaps < MaxMishaps
        /\ spent' = [spent EXCEPT !.mishaps = IF turn[t].said = 0 THEN @ ELSE @ + 1]
        /\ TurnTo(t, "fallback")
        /\ UNCHANGED buffer
     \/ /\ turn[t].said > 0
        /\ TurnTo(t, "end")
        /\ buffer' = MarkedComplete
        /\ UNCHANGED spent
     \/ /\ turn[t].said > 0 /\ spent.mishaps < MaxMishaps
        /\ spent' = [spent EXCEPT !.mishaps = @ + 1]
        /\ TurnTo(t, "cut")
        /\ buffer' = MarkedComplete
  /\ UNCHANGED <<page, conn, odd>>

ToolResult_both(t) ==
  LET c == turn[t].conn
      i == spent.images + 1
  IN  /\ turn[t].pc = "tools"
      /\ TurnTo(t, "results")
      /\ \/ UNCHANGED <<conn, buffer, spent>>
         \/ /\ spent.images < MaxImages
            /\ spent' = [spent EXCEPT !.images = i]
            /\ buffer' = IF buffer = None \/ Len(buffer.images) >= MaxKept THEN buffer
                         ELSE [buffer EXCEPT !.images = Append(@, i)]
            /\ conn' = IF conn[c].state = "open"
                       THEN Told(c, <<[kind |-> "image", image |-> i]>>) ELSE conn
      /\ UNCHANGED <<page, odd>>

\* A tool's result is sent (SafeSend), or buffered when it has an image and cannot be sent.
ToolResult(t) ==
  LET c == turn[t].conn
      i == spent.images + 1
  IN  /\ turn[t].pc = "tools"
      /\ TurnTo(t, "results")
      /\ \/ UNCHANGED <<conn, buffer, spent>>
         \/ /\ spent.images < MaxImages
            /\ spent' = [spent EXCEPT !.images = i]
            /\ IF conn[c].state = "open"
               THEN conn' = Told(c, <<[kind |-> "image", image |-> i]>>) /\ UNCHANGED buffer
               ELSE /\ buffer' = IF buffer = None \/ Len(buffer.images) >= MaxKept THEN buffer
                                 ELSE [buffer EXCEPT !.images = Append(@, i)]
                    /\ UNCHANGED conn
      /\ UNCHANGED <<page, odd>>

\* All tools are through: the buffer is cleared and the turn goes on, unless it has gone on
\* too often or calls the same tools again.
RoundOver(t) ==
  /\ turn[t].pc = "results"
  /\ buffer' = None
  /\ \/ /\ turn[t].rounds < MaxRounds
        /\ turn' = [turn EXCEPT ![t].pc = "request", ![t].said = 0, ![t].rounds = @ + 1]
     \/ /\ turn[t].rounds = MaxRounds \/ turn[t].rounds > 0
        /\ TurnTo(t, "aborted")
  /\ UNCHANGED <<page, conn, odd, spent>>

\* emitAssistantFallback, up to the end of the stream.
Fallback(t) ==
  /\ turn[t].pc = "fallback"
  /\ Sends(t, <<[kind |-> "chunk", chunk |-> <<turn[t].question, 0>>]>>, "end", MarkedComplete)
  /\ UNCHANGED <<page, odd, spent>>

\* The last messages of a turn: stream_end, the errors of a stream that broke off, or the error
\* of a request.  After tool calls the second error of a stream is a phrase.
Closing(pc) ==
  CASE pc = "end"     -> <<"end">>
    [] pc = "cut"     -> <<"end", "error">>
    [] pc = "error"   -> <<"error">>
    [] pc = "aborted" -> <<"error", "end">>

TurnEnds(t) ==
  /\ turn[t].pc \in {"end", "cut", "error", "aborted"}
  /\ LET told == Closing(turn[t].pc)
     IN  Sends(t, [i \in 1 .. Len(told) |-> [kind |-> told[i]]],
               IF turn[t].pc # "cut" THEN "none"
               ELSE IF turn[t].rounds = 0 THEN "error" ELSE "fallback", buffer)
  /\ UNCHANGED <<page, odd, spent>>

------------------------------------------------------------------------------
(* A connection at the server.                                             *)

\* readLoop: a chat message starts a turn.
HandleChat(c) ==
  LET t == CHOOSE u \in Turn : ~Live(u) IN
  /\ \E u \in Turn : ~Live(u)
  /\ conn[c].state = "open"
  /\ conn[c].resume = None
  /\ conn[c].inbox # <<>>
  /\ Head(conn[c].inbox).kind = "chat"
  /\ turn' = [turn EXCEPT ![t] = [NoTurn EXCEPT !.pc = "request", !.conn = c,
                                    !.question = Head(conn[c].inbox).question]]
  /\ conn' = [conn EXCEPT ![c].inbox = Tail(@)]
  /\ odd' = IF \E u \in Turn : Live(u) THEN odd \cup {"two"} ELSE odd
  /\ UNCHANGED <<page, buffer, spent>>

\* handleStopGeneration: the stop waits in the channel for whoever streams next.
HandleStop(c) ==
  /\ conn[c].state = "open"
  /\ conn[c].resume = None
  /\ conn[c].inbox # <<>>
  /\ Head(conn[c].inbox).kind = "stop"
  /\ conn' = [conn EXCEPT ![c].inbox = Tail(@), ![c].stop = TRUE]
  /\ UNCHANGED <<page, turn, buffer, odd, spent>>

\* handleResumeStream: GetBufferData, which refuses a second resume within a second.
HandleResume(c) ==
  LET rest == [conn EXCEPT ![c].inbox = Tail(@)]
  IN  /\ conn[c].state = "open"
      /\ conn[c].resume = None
      /\ conn[c].inbox # <<>>
      /\ Head(conn[c].inbox).kind = "resume"
      /\ conn' = IF buffer # None /\ \A d \in Conn : conn[d].resume = None
                 THEN [rest EXCEPT ![c].resume = buffer]
                 ELSE [rest EXCEPT ![c].out = Append(@, [kind |-> "missed"])]
      /\ UNCHANGED <<page, turn, buffer, odd, spent>>

\* The replay, and what is done with the buffer then.
Replay(c) ==
  LET data == conn[c].resume
      images == [i \in 1 .. Len(data.images) |-> [kind |-> "image", image |-> data.images[i]]]
      text == IF data.chunks = <<>> THEN <<>>
              ELSE <<[kind |-> "resume", chunks |-> data.chunks, complete |-> data.complete]>>
      over == IF data.complete THEN <<[kind |-> "end"]>> ELSE <<>>
  IN  /\ data # None
      /\ conn' = [Told(c, images \o text \o over) EXCEPT ![c].resume = None]
      /\ buffer' = IF buffer = None \/ data.complete THEN None
                   ELSE [buffer EXCEPT !.images = <<>>]
      /\ odd' = IF data.complete THEN odd ELSE odd \cup {"late"}
      /\ UNCHANGED <<page, turn, spent>>

\* The connection cannot be read any more: Remove closes its channels.
Removed(c) ==
  /\ conn[c].state = "open"
  /\ ~conn[c].alive
  /\ conn[c].resume = None
  /\ conn' = [conn EXCEPT ![c].state = "removed", ![c].stop = FALSE]
  /\ UNCHANGED <<page, turn, buffer, odd, spent>>

Break ==
  /\ page.conn # 0
  /\ conn[page.conn].alive
  /\ spent.mishaps < MaxMishaps
  /\ spent' = [spent EXCEPT !.mishaps = @ + 1]
  /\ conn' = [conn EXCEPT ![page.conn].alive = FALSE, ![page.conn].inbox = <<>>,
                          ![page.conn].out = <<>>]
  /\ UNCHANGED <<page, turn, buffer, odd>>

\* The cleanup of the buffers.
Expire ==
  /\ buffer # None
  /\ buffer' = None
  /\ UNCHANGED <<page, conn, turn, odd, spent>>

------------------------------------------------------------------------------
(* The page.                                                               *)

\* The end of handleSendMessage, on the page p: a placeholder for the answer, then queueOrSend.
Sent(p, q) ==
  LET msg == [kind |-> "chat", question |-> q]
      s == [p EXCEPT !.message = <<>>, !.tracked = TRUE, !.known = TRUE]
  IN  IF page.conn # 0 THEN page' = s /\ conn' = Asked(page.conn, <<msg>>)
      ELSE page' = [s EXCEPT !.pending = Append(@, msg)] /\ UNCHANGED conn

\* The user asks; files are uploaded, or a conversation is set up, before the question is sent.
Ask ==
  /\ page.asked < MaxAsked
  /\ ~page.loading
  /\ page.sending = 0
  /\ page.conn # 0
  /\ page' = [page EXCEPT !.asked = @ + 1, !.sending = page.asked + 1, !.loading = TRUE,
                          !.stopped = FALSE, !.tries = 0]
  /\ UNCHANGED <<conn, turn, buffer, odd, spent>>

SendOff ==
  /\ page.sending # 0
  /\ Sent([page EXCEPT !.sending = 0], page.sending)
  /\ UNCHANGED <<turn, buffer, odd, spent>>

\* The delay of a retry is over, what was on its way has come: it is dropped when the user
\* stopped or the page is not connected.
Retry ==
  /\ page.retries # <<>>
  /\ page.conn # 0 => conn[page.conn].out = <<>>
  /\ LET p == [page EXCEPT !.retries = Tail(@),
                           !.loading = IF page.stopped THEN @ ELSE page.conn # 0]
     IN  IF page.stopped \/ page.conn = 0 THEN page' = p /\ UNCHANGED conn
         ELSE Sent(p, Head(page.retries))
  /\ UNCHANGED <<turn, buffer, odd, spent>>

\* handleStopGeneration of the page; the server is told when the conversation has been sent to
\* since the last reconnection.
Stop ==
  /\ spent.mishaps < MaxMishaps
  /\ spent' = [spent EXCEPT !.mishaps = @ + 1]
  /\ page.loading \/ page.message # None
  /\ page' = [page EXCEPT !.stopped = TRUE, !.tries = 0, !.loading = FALSE, !.message = None]
  /\ conn' = IF page.conn = 0 \/ ~page.known THEN conn
              ELSE Asked(page.conn, <<[kind |-> "stop"]>>)
  /\ UNCHANGED <<turn, buffer, odd>>

Failed_uncapped(p) ==
  LET again == ~p.stopped /\ p.tries <= MaxRetries
  IN  [p EXCEPT !.message = None, !.loading = FALSE,
                !.tries = IF again THEN @ + 1 ELSE @,
                !.retries = IF again THEN Append(@, p.asked) ELSE @]

\* The answer failed: it is closed, and asked for again while there are tries left.
Failed(p) ==
  LET again == ~p.stopped /\ p.tries < MaxRetries
  IN  [p EXCEPT !.message = None, !.loading = FALSE,
                !.tries = IF again THEN @ + 1 ELSE @,
                !.retries = IF again THEN Append(@, p.asked) ELSE @]

\* clearStreamingConversation.
Untracked(p) == [p EXCEPT !.tracked = FALSE, !.timer = FALSE]

\* handleMessage and the page's callback.
Heard(msg) ==
  CASE msg.kind = "chunk" ->
         [page EXCEPT !.message = IF @ = None THEN None ELSE Append(@, msg.chunk)]
    [] msg.kind = "image" -> [page EXCEPT !.images = Append(@, msg.image)]
    [] msg.kind = "resume" ->
         LET p == IF msg.complete THEN Untracked(page) ELSE [page EXCEPT !.timer = FALSE]
         IN  IF page.message = None THEN p
             ELSE IF msg.complete THEN [p EXCEPT !.message = None, !.loading = FALSE]
             ELSE [p EXCEPT !.message = @ \o msg.chunks]
    [] msg.kind = "missed" -> Failed(Untracked(page))
    [] msg.kind = "error"  -> Failed(page)
    [] msg.kind = "end" ->
         [Untracked(page) EXCEPT !.tries = 0, !.stopped = FALSE, !.loading = FALSE,
                                 !.message = None]

Hear ==
  LET c == page.conn
  IN  /\ c # 0
      /\ conn[c].out # <<>>
      /\ page' = Heard(Head(conn[c].out))
      /\ conn' = [conn EXCEPT ![c].out = Tail(@)]
      /\ UNCHANGED <<turn, buffer, odd, spent>>

\* onclose.
Closed ==
  /\ page.conn # 0
  /\ ~conn[page.conn].alive
  /\ page' = [page EXCEPT !.conn = 0, !.known = FALSE]
  /\ UNCHANGED <<conn, turn, buffer, odd, spent>>

\* connect() and onopen: what was queued is sent, and a stream that is tracked is asked for; a
\* timer that runs already goes on beside the new one.
Connect ==
  LET c == page.last + 1
      resume == IF page.tracked THEN <<[kind |-> "resume"]>> ELSE <<>>
  IN  /\ page.conn = 0
      /\ page.last < 2 * MaxMishaps + 1
      /\ page' = [page EXCEPT !.conn = c, !.last = c, !.pending = <<>>,
                              !.timer = @ \/ page.tracked,
                              !.ghosts = IF page.timer /\ page.tracked THEN @ + 1 ELSE @]
      /\ conn' = [conn EXCEPT ![c].state = "open", ![c].alive = TRUE,
                              ![c].inbox = page.pending \o resume]
      /\ UNCHANGED <<turn, buffer, odd, spent>>

\* The five seconds of requestStreamResume are over; an answer that is on its way is in time.
Awaited ==
  /\ page.conn # 0
  /\ \/ conn[page.conn].resume # None
     \/ \E i \in 1 .. Len(conn[page.conn].inbox) : conn[page.conn].inbox[i].kind = "resume"
     \/ \E i \in 1 .. Len(conn[page.conn].out) :
          conn[page.conn].out[i].kind \in {"resume", "missed", "end"}

ResumeTimesOut_quiet ==
  /\ \/ /\ page.timer /\ ~Awaited
        /\ page' = Untracked(page)
     \/ /\ page.ghosts > 0
        /\ page' = Untracked([page EXCEPT !.ghosts = @ - 1])
  /\ UNCHANGED <<conn, turn, buffer, odd, spent>>

ResumeTimesOut ==
  /\ \/ /\ page.timer /\ ~Awaited
        /\ page' = Failed(Untracked(page))
     \/ /\ page.ghosts > 0
        /\ page' = Failed(Untracked([page EXCEPT !.ghosts = @ - 1]))
  /\ UNCHANGED <<conn, turn, buffer, odd, spent>>

------------------------------------------------------------------------------
(* Specification.                                                          *)

TurnStep(t) ==
  \/ RequestFails(t) \/ StreamBegins(t)
  \/ Line(t) \/ StreamEnds(t)
  \/ ToolResult(t) \/ RoundOver(t)
  \/ Fallback(t) \/ TurnEnds(t)

ConnStep(c) ==
  \/ HandleChat(c)
  \/ HandleStop(c) \/ HandleResume(c) \/ Replay(c)
  \/ Removed(c)

PageStep == SendOff \/ Hear \/ Closed \/ Connect \/ Retry \/ ResumeTimesOut

Next ==
  \/ \E t \in Turn : TurnStep(t)
  \/ \E c \in Conn : ConnStep(c)
  \/ PageStep
  \/ Ask \/ Stop
  \/ Break \/ Expire

Spec == Init /\ [][Next]_vars

\* Goroutines run, requests to providers and tools end (they have time limits), and the event
\* loop of the page hears, reconnects and lets timers fire.  Users, faults and the cleanup of
\* buffers owe nothing.
FairSpec ==
  /\ Spec
  /\ WF_vars(\E t \in Turn : TurnStep(t))
  /\ WF_vars(\E c \in Conn : ConnStep(c))
  /\ WF_vars(PageStep)

------------------------------------------------------------------------------
(* Properties.                                                             *)

\* An image that a tool made comes to the page once, whatever was replayed after a
\* reconnection: "Only buffer if send failed" (chat_service.go), and what a resume delivers
\* leaves the buffer.
ImageComesOnce ==
  \A i, j \in 1 .. Len(page.images) : i # j => page.images[i] # page.images[j]

\* What a turn has said in this round of it is what the buffer ends in, in order, so that a
\* resume brings all of it: also what was said over a connection that broke without the server
\* knowing, and behind what an earlier answer left in the buffer.  Only a full buffer misses
\* the rest, and two turns at once share it.
NothingSaidIsMissed ==
  buffer # None /\ "two" \notin odd =>
    \A t \in Turn : \E k \in 0 .. turn[t].said :
      /\ k < turn[t].said => Len(buffer.chunks) >= MaxKept
      /\ k <= Len(buffer.chunks)
      /\ \A i \in 1 .. k : buffer.chunks[Len(buffer.chunks) - k + i] = <<turn[t].question, i>>

\* A page stops waiting, with an answer or an error, through disconnections, resumes that come
\* too late or time out, failing providers and a server that restarts; unless it has resumed a
\* stream that was still running, which goes on talking to the connection that is gone.
WaitEnds == (page.loading /\ "late" \notin odd) ~> (~page.loading \/ "late" \in odd)
==============================================================================
