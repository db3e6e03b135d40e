--------------------------- MODULE ChatStreamProofs ---------------------------
(***************************************************************************)
(* Proofs about ChatStream, for every number of turns, questions, mishaps, *)
(* chunks, images, rounds of tools and retries, and every limit of the     *)
(* buffer.  Their invariant has three parts: the types, with a page that   *)
(* was asked nothing at rest (Quiet); where each image is (ImageInv); and  *)
(* what the buffer has of the turn that streams (TextInv).                 *)
(***************************************************************************)
EXTENDS ChatStream, SequenceTheorems, TLAPS

------------------------------------------------------------------------------
(* The types.                                                              *)

PageRec ==
  [conn : Conn \cup {0}, last : Conn, asked : 0 .. MaxAsked,
   sending : 0 .. MaxAsked, loading : BOOLEAN,
   message : Seq(Chunk) \cup {None}, images : Seq(Image), tracked : BOOLEAN,
   timer : BOOLEAN, ghosts : Nat, pending : Seq(Request), known : BOOLEAN,
   tries : 0 .. MaxRetries, stopped : BOOLEAN, retries : Seq(Question)]
ConnRec ==
  [state : {"none", "open", "removed"}, alive : BOOLEAN, inbox : Seq(Request),
   out : Seq(Answer), stop : BOOLEAN, resume : Kept \cup {None}]
Place == {"none", "request", "stream", "tools", "results",
          "fallback", "end", "cut", "error", "aborted"}
TurnRec ==
  [pc : Place, conn : Conn, question : Question, said : 0 .. MaxChunks, rounds : 0 .. MaxRounds]

\* Until the user has asked something, nothing is said, sent or waited for.
Quiet ==
  page.asked = 0 =>
    /\ page.sending = 0 /\ page.retries = <<>> /\ page.pending = <<>>
    /\ page.message = None /\ ~page.loading /\ ~page.timer /\ page.ghosts = 0 /\ ~page.tracked
    /\ buffer = None
    /\ \A t \in Turn : turn[t].pc = "none"
    /\ \A c \in Conn : conn[c].inbox = <<>> /\ conn[c].out = <<>> /\ conn[c].resume = None

Typed == TypeOK /\ Quiet

\* What TypeOK says of each variable.
LEMMA TypeParts ==
  TypeOK <=> /\ page \in PageRec /\ conn \in [Conn -> ConnRec] /\ turn \in [Turn -> TurnRec]
             /\ buffer \in Kept \cup {None} /\ odd \subseteq {"late", "two"}
             /\ spent \in [mishaps : 0 .. MaxMishaps, images : 0 .. MaxImages]
  BY DEF TypeOK, PageRec, ConnRec, TurnRec, Place

\* The bounds are numbers, the first connection and the first question exist, and 0 is neither.
LEMMA Bounds ==
  /\ MaxAsked \in Nat \ {0} /\ MaxMishaps \in Nat /\ MaxChunks \in Nat /\ MaxImages \in Nat
  /\ MaxRounds \in Nat /\ MaxKept \in Nat /\ MaxRetries \in Nat
  /\ 1 \in Conn /\ 1 \in Question /\ 0 \notin Conn /\ 0 \notin Question
  /\ Conn \subseteq Nat /\ Question \subseteq Nat /\ Image \subseteq Nat
<1>1. /\ MaxAsked \in Nat \ {0} /\ MaxMishaps \in Nat /\ MaxChunks \in Nat /\ MaxImages \in Nat
      /\ MaxRounds \in Nat /\ MaxKept \in Nat /\ MaxRetries \in Nat
  BY BoundAssumption
<1>2. 1 \in Conn /\ 0 \notin Conn /\ Conn \subseteq Nat
  BY <1>1 DEF Conn
<1>3. 1 \in Question /\ 0 \notin Question /\ Question \subseteq Nat /\ Image \subseteq Nat
  BY <1>1 DEF Question, Image
<1> QED BY <1>1, <1>2, <1>3

\* A connection that is not there, a turn that is not there and an empty buffer are typed.
LEMMA EmptyTyped == NoConn \in ConnRec /\ NoTurn \in TurnRec /\ NoBuffer \in Kept
<1>1. NoConn \in ConnRec
  BY DEF NoConn, ConnRec
<1>2. NoTurn \in TurnRec
  BY Bounds DEF NoTurn, TurnRec, Place
<1>3. NoBuffer \in Kept
  BY DEF NoBuffer, Kept
<1> QED BY <1>1, <1>2, <1>3

\* The initial state is well typed, and the page is at rest.
LEMMA InitTyped == Init => Typed
<1> SUFFICES ASSUME Init PROVE TypeOK /\ Quiet
  BY DEF Typed
<1>1. page \in PageRec
  BY Bounds DEF Init, PageRec
<1>2. conn \in [Conn -> ConnRec]
  <2>1. [NoConn EXCEPT !.state = "open", !.alive = TRUE] \in ConnRec
    BY EmptyTyped DEF ConnRec
  <2> QED BY <2>1, EmptyTyped DEF Init
<1>3. turn \in [Turn -> TurnRec]
  BY EmptyTyped DEF Init
<1>4. TypeOK
  BY <1>1, <1>2, <1>3, TypeParts, Bounds DEF Init
<1>5. Quiet
  BY DEF Init, Quiet, NoConn, NoTurn
<1> QED BY <1>4, <1>5

\* The messages that are written to a connection.
LEMMA AnswersTyped ==
  /\ \A x \in Chunk : [kind |-> "chunk", chunk |-> x] \in Answer
  /\ \A i \in Image : [kind |-> "image", image |-> i] \in Answer
  /\ \A k \in {"missed", "error", "end"} : [kind |-> k] \in Answer
  /\ \A xs \in Seq(Chunk) : \A b \in BOOLEAN :
       [kind |-> "resume", chunks |-> xs, complete |-> b] \in Answer
<1>1. \A x \in Chunk : [kind |-> "chunk", chunk |-> x] \in [kind : {"chunk"}, chunk : Chunk]
  OBVIOUS
<1>2. \A i \in Image : [kind |-> "image", image |-> i] \in [kind : {"image"}, image : Image]
  OBVIOUS
<1>3. \A k \in {"missed", "error", "end"} : [kind |-> k] \in [kind : {"missed", "error", "end"}]
  OBVIOUS
<1>4. \A xs \in Seq(Chunk) : \A b \in BOOLEAN :
        [kind |-> "resume", chunks |-> xs, complete |-> b]
          \in [kind : {"resume"}, chunks : Seq(Chunk), complete : BOOLEAN]
  OBVIOUS
<1> QED BY <1>1, <1>2, <1>3, <1>4 DEF Answer

\* What a message of each kind carries.
LEMMA AnswerParts ==
  ASSUME NEW a \in Answer
  PROVE  /\ a.kind \in {"chunk", "image", "resume", "missed", "error", "end"}
         /\ a.kind = "chunk" => a.chunk \in Chunk
         /\ a.kind = "image" => a.image \in Image
         /\ a.kind = "resume" => a.chunks \in Seq(Chunk) /\ a.complete \in BOOLEAN
  BY DEF Answer

\* Writing to a connection, and asking over one.
LEMMA ToldTyped ==
  ASSUME TypeOK, NEW c \in Conn
  PROVE  /\ \A msgs \in Seq(Answer) : Told(c, msgs) \in [Conn -> ConnRec]
         /\ \A msgs \in Seq(Request) : Asked(c, msgs) \in [Conn -> ConnRec]
<1>1. conn \in [Conn -> ConnRec] /\ conn[c].out \in Seq(Answer) /\ conn[c].inbox \in Seq(Request)
  BY TypeParts DEF ConnRec
<1>2. ASSUME NEW msgs \in Seq(Answer) PROVE Told(c, msgs) \in [Conn -> ConnRec]
  <2>1. conn[c].out \o msgs \in Seq(Answer)
    BY <1>1, ConcatProperties
  <2> QED BY <1>1, <2>1 DEF Told, ConnRec
<1>3. ASSUME NEW msgs \in Seq(Request) PROVE Asked(c, msgs) \in [Conn -> ConnRec]
  <2>1. conn[c].inbox \o msgs \in Seq(Request)
    BY <1>1, ConcatProperties
  <2> QED BY <1>1, <2>1 DEF Asked, ConnRec
<1> QED BY <1>2, <1>3

\* A turn that moves on or is over, and a server that starts again.
LEMMA TurnsTyped ==
  ASSUME TypeOK, NEW t \in Turn
  PROVE  /\ \A pc \in Place : TurnTo(t, pc) => turn' \in [Turn -> TurnRec]
         /\ TurnOver(t) => turn' \in [Turn -> TurnRec]
         /\ Crash => /\ turn' \in [Turn -> TurnRec] /\ conn' \in [Conn -> ConnRec]
                     /\ buffer' \in Kept \cup {None}
<1>1. turn \in [Turn -> TurnRec]
  BY TypeParts
<1>2. \A pc \in Place : TurnTo(t, pc) => turn' \in [Turn -> TurnRec]
  BY <1>1 DEF TurnTo, TurnRec
<1>3. TurnOver(t) => turn' \in [Turn -> TurnRec]
  BY <1>1, EmptyTyped DEF TurnOver
<1>4. [NoConn EXCEPT !.state = "removed"] \in ConnRec
  BY EmptyTyped DEF ConnRec
<1>5. Crash => conn' \in [Conn -> ConnRec]
  BY <1>4, EmptyTyped DEF Crash
<1>6. Crash => turn' \in [Turn -> TurnRec] /\ buffer' \in Kept \cup {None}
  BY EmptyTyped DEF Crash
<1> QED BY <1>2, <1>3, <1>5, <1>6

\* Sending keeps the types, whatever becomes of the message.
LEMMA SendsTyped ==
  ASSUME TypeOK, NEW t \in Turn, NEW msgs \in Seq(Answer), NEW pc \in Place,
         NEW b \in Kept \cup {None}, Sends(t, msgs, pc, b)
  PROVE  /\ turn' \in [Turn -> TurnRec] /\ conn' \in [Conn -> ConnRec]
         /\ buffer' \in Kept \cup {None}
<1>1. turn[t].conn \in Conn /\ conn \in [Conn -> ConnRec] /\ buffer \in Kept \cup {None}
  BY TypeParts DEF TurnRec
<1>2. CASE conn[turn[t].conn].state = "open"
  BY <1>1, <1>2, ToldTyped, TurnsTyped DEF Sends
<1>3. CASE conn[turn[t].conn].state # "open" /\ turn[t].rounds > 0
  BY <1>1, <1>3, TurnsTyped DEF Sends
<1>4. CASE conn[turn[t].conn].state # "open" /\ ~(turn[t].rounds > 0)
  BY <1>1, <1>4, TurnsTyped DEF Sends
<1> QED BY <1>2, <1>3, <1>4

\* What a turn does keeps the types.
LEMMA TurnStepTyped ==
  ASSUME TypeOK, NEW t \in Turn, TurnStep(t)
  PROVE  TypeOK'
<1> DEFINE c == turn[t].conn
<1>1. /\ page \in PageRec /\ conn \in [Conn -> ConnRec] /\ turn \in [Turn -> TurnRec]
      /\ buffer \in Kept \cup {None} /\ odd \subseteq {"late", "two"}
      /\ spent \in [mishaps : 0 .. MaxMishaps, images : 0 .. MaxImages]
  BY TypeParts
<1>2. /\ turn[t] \in TurnRec /\ c \in Conn /\ turn[t].question \in Question
      /\ turn[t].said \in 0 .. MaxChunks /\ turn[t].rounds \in 0 .. MaxRounds
  BY <1>1 DEF TurnRec
<1>3. /\ MarkedComplete \in Kept \cup {None}
      /\ buffer # None => buffer.chunks \in Seq(Chunk) /\ buffer.images \in Seq(Image)
  BY <1>1 DEF MarkedComplete, Kept
<1>4. spent.mishaps \in 0 .. MaxMishaps /\ spent.images \in 0 .. MaxImages
  BY <1>1
<1>5. ASSUME spent.mishaps < MaxMishaps
      PROVE  [spent EXCEPT !.mishaps = @ + 1] \in [mishaps : 0 .. MaxMishaps, images : 0 .. MaxImages]
  BY <1>1, <1>4, <1>5, Bounds
<1>6. ASSUME page' = page, odd' = odd, conn' \in [Conn -> ConnRec], turn' \in [Turn -> TurnRec],
             buffer' \in Kept \cup {None},
             spent' \in [mishaps : 0 .. MaxMishaps, images : 0 .. MaxImages]
      PROVE  TypeOK'
  BY <1>1, <1>6 DEF TypeOK, PageRec, ConnRec, TurnRec, Place
<1> HIDE DEF c
<1>7. CASE RequestFails(t)
  <2>1. spent' \in [mishaps : 0 .. MaxMishaps, images : 0 .. MaxImages] /\ page' = page /\ odd' = odd
    BY <1>5, <1>7 DEF RequestFails
  <2>2. ASSUME TurnTo(t, IF turn[t].rounds = 0 THEN "error" ELSE "fallback"),
               UNCHANGED <<conn, buffer>>
        PROVE  TypeOK'
    <3>1. (IF turn[t].rounds = 0 THEN "error" ELSE "fallback") \in Place
      BY DEF Place
    <3>2. turn' \in [Turn -> TurnRec]
      BY <2>2, <3>1, TurnsTyped
    <3> QED BY <1>1, <1>6, <2>1, <2>2, <3>2
  <2>3. ASSUME Sends(t, <<[kind |-> "error"]>>, "request", buffer) PROVE TypeOK'
    <3>1. <<[kind |-> "error"]>> \in Seq(Answer) /\ "request" \in Place
      BY AnswersTyped DEF Place
    <3>2. /\ turn' \in [Turn -> TurnRec] /\ conn' \in [Conn -> ConnRec]
          /\ buffer' \in Kept \cup {None}
      BY <1>1, <2>3, <3>1, SendsTyped
    <3> QED BY <1>6, <2>1, <3>2
  <2> QED BY <1>7, <2>2, <2>3 DEF RequestFails
<1>8. CASE StreamBegins(t)
  <2>1. turn' \in [Turn -> TurnRec]
    BY <1>8, TurnsTyped DEF StreamBegins, Place
  <2>2. buffer' \in Kept \cup {None}
    BY <1>1, <1>8, EmptyTyped DEF StreamBegins
  <2> QED BY <1>1, <1>6, <1>8, <2>1, <2>2 DEF StreamBegins
<1>9. CASE Line(t)
  <2> DEFINE chunk == <<turn[t].question, turn[t].said + 1>>
  <2>1. page' = page /\ odd' = odd /\ spent' = spent
    BY <1>9 DEF Line
  <2>2. ASSUME TurnOver(t), buffer' = None, conn' = [conn EXCEPT ![c].stop = FALSE] PROVE TypeOK'
    <3>1. [conn[c] EXCEPT !.stop = FALSE] \in ConnRec
      BY <1>1, <1>2 DEF ConnRec
    <3>2. conn' = [conn EXCEPT ![c] = [conn[c] EXCEPT !.stop = FALSE]]
      BY <2>2
    <3>3. conn' \in [Conn -> ConnRec]
      BY <1>1, <1>2, <3>1, <3>2
    <3> QED BY <1>1, <1>6, <2>1, <2>2, <3>3, TurnsTyped
  <2>3. ASSUME turn[t].said < MaxChunks, turn' = [turn EXCEPT ![t].said = @ + 1],
               buffer' = IF buffer = None \/ Len(buffer.chunks) >= MaxKept THEN buffer
                         ELSE [buffer EXCEPT !.chunks = Append(@, chunk)],
               conn' = Told(c, <<[kind |-> "chunk", chunk |-> chunk]>>)
        PROVE  TypeOK'
    <3>1. turn[t].said + 1 \in 0 .. MaxChunks
      <4>1. turn[t].said < MaxChunks
        BY <2>3
      <4> HIDE DEF chunk
      <4> QED BY <1>2, <4>1, Bounds
    <3>2. chunk \in Chunk
      BY <1>2, <3>1 DEF Chunk
    <3> HIDE DEF chunk
    <3>3. turn' \in [Turn -> TurnRec]
      BY <1>1, <2>3, <3>1 DEF TurnRec
    <3>4. buffer' \in Kept \cup {None}
      <4>1. CASE buffer = None \/ Len(buffer.chunks) >= MaxKept
        BY <1>1, <2>3, <4>1
      <4>2. CASE ~(buffer = None \/ Len(buffer.chunks) >= MaxKept)
        <5>1. Append(buffer.chunks, chunk) \in Seq(Chunk)
          BY <1>3, <3>2, <4>2
        <5> QED BY <1>1, <2>3, <4>2, <5>1 DEF Kept
      <4> QED BY <4>1, <4>2
    <3>5. <<[kind |-> "chunk", chunk |-> chunk]>> \in Seq(Answer)
      BY <3>2, AnswersTyped
    <3>6. conn' \in [Conn -> ConnRec]
      BY <1>2, <2>3, <3>5, ToldTyped
    <3> QED BY <1>1, <1>6, <2>1, <3>3, <3>4, <3>6
  <2> QED BY <1>9, <2>2, <2>3 DEF Line, c
<1>10. CASE StreamEnds(t)
  <2>1. page' = page /\ conn' = conn /\ odd' = odd
    BY <1>10 DEF StreamEnds
  <2>2. \E pc \in Place : TurnTo(t, pc)
    BY <1>10 DEF StreamEnds, Place
  <2>3. turn' \in [Turn -> TurnRec]
    BY <2>2, TurnsTyped
  <2>4. buffer' \in Kept \cup {None}
    BY <1>1, <1>3, <1>10 DEF StreamEnds
  <2>5. \/ spent' = spent
        \/ spent' = [spent EXCEPT !.mishaps = spent.mishaps]
        \/ spent.mishaps < MaxMishaps /\ spent' = [spent EXCEPT !.mishaps = @ + 1]
    BY <1>10 DEF StreamEnds
  <2>6. spent' \in [mishaps : 0 .. MaxMishaps, images : 0 .. MaxImages]
    BY <1>1, <1>5, <2>5
  <2> QED BY <1>1, <1>6, <2>1, <2>3, <2>4, <2>6
<1>11. CASE ToolResult(t)
  <2> DEFINE i == spent.images + 1
  <2>1. page' = page /\ odd' = odd /\ turn' \in [Turn -> TurnRec]
    BY <1>11, TurnsTyped DEF ToolResult, Place
  <2>2. CASE UNCHANGED <<conn, buffer, spent>>
    BY <1>1, <1>6, <2>1, <2>2
  <2>3. ASSUME spent.images < MaxImages, spent' = [spent EXCEPT !.images = i],
               IF conn[c].state = "open"
               THEN conn' = Told(c, <<[kind |-> "image", image |-> i]>>) /\ UNCHANGED buffer
               ELSE /\ buffer' = IF buffer = None \/ Len(buffer.images) >= MaxKept THEN buffer
                                 ELSE [buffer EXCEPT !.images = Append(@, i)]
                    /\ UNCHANGED conn
        PROVE  TypeOK'
    <3>1. i \in Image
      BY <1>4, <2>3, Bounds DEF Image
    <3> HIDE DEF i
    <3>2. spent' \in [mishaps : 0 .. MaxMishaps, images : 0 .. MaxImages]
      <4>1. i \in 0 .. MaxImages
        BY <3>1, Bounds DEF Image
      <4> QED BY <1>1, <2>3, <4>1
    <3>3. buffer' \in Kept \cup {None}
      <4>1. CASE buffer' = buffer
        BY <1>1, <4>1
      <4>2. CASE buffer # None /\ buffer' = [buffer EXCEPT !.images = Append(@, i)]
        <5>1. Append(buffer.images, i) \in Seq(Image)
          BY <1>3, <3>1, <4>2
        <5> QED BY <1>1, <4>2, <5>1 DEF Kept
      <4> QED BY <2>3, <4>1, <4>2
    <3>4. <<[kind |-> "image", image |-> i]>> \in Seq(Answer)
      BY <3>1, AnswersTyped
    <3>5. conn' \in [Conn -> ConnRec]
      <4>1. Told(c, <<[kind |-> "image", image |-> i]>>) \in [Conn -> ConnRec]
        BY <1>2, <3>4, ToldTyped
      <4>2. \/ conn' = Told(c, <<[kind |-> "image", image |-> i]>>)
            \/ conn' = conn
        BY <2>3
      <4> QED BY <1>1, <4>1, <4>2
    <3> QED BY <1>6, <2>1, <3>2, <3>3, <3>5
  <2> QED BY <1>11, <2>2, <2>3 DEF ToolResult, c
<1>12. CASE RoundOver(t)
  <2>1. page' = page /\ conn' = conn /\ odd' = odd /\ spent' = spent /\ buffer' = None
    BY <1>12 DEF RoundOver
  <2>2. ASSUME turn[t].rounds < MaxRounds,
               turn' = [turn EXCEPT ![t].pc = "request", ![t].said = 0, ![t].rounds = @ + 1]
        PROVE  turn' \in [Turn -> TurnRec]
    <3>1. turn[t].rounds + 1 \in 0 .. MaxRounds /\ 0 \in 0 .. MaxChunks
      BY <1>2, <2>2, Bounds
    <3> QED BY <1>1, <2>2, <3>1 DEF TurnRec, Place
  <2>3. turn' \in [Turn -> TurnRec]
    BY <1>12, <2>2, TurnsTyped DEF RoundOver, Place
  <2> QED BY <1>1, <1>6, <2>1, <2>3
<1>13. CASE Fallback(t)
  <2>1. <<turn[t].question, 0>> \in Chunk
    BY <1>2, Bounds DEF Chunk
  <2>2. <<[kind |-> "chunk", chunk |-> <<turn[t].question, 0>>]>> \in Seq(Answer) /\ "end" \in Place
    BY <2>1, AnswersTyped DEF Place
  <2>3. /\ turn' \in [Turn -> TurnRec] /\ conn' \in [Conn -> ConnRec]
        /\ buffer' \in Kept \cup {None}
    BY <1>3, <1>13, <2>2, SendsTyped DEF Fallback
  <2> QED BY <1>1, <1>6, <1>13, <2>3 DEF Fallback
<1>14. CASE TurnEnds(t)
  <2> DEFINE told == Closing(turn[t].pc)
             msgs == [i \in 1 .. Len(told) |-> [kind |-> told[i]]]
             pc == IF turn[t].pc # "cut" THEN "none"
                   ELSE IF turn[t].rounds = 0 THEN "error" ELSE "fallback"
  <2>1. told \in Seq({"missed", "error", "end"})
    BY <1>14 DEF TurnEnds, Closing
  <2>2. pc \in Place
    BY DEF Place
  <2>3. Sends(t, msgs, pc, buffer) /\ page' = page /\ odd' = odd /\ spent' = spent
    BY <1>14 DEF TurnEnds
  <2> HIDE DEF told, pc
  <2>4. msgs \in Seq(Answer)
    <3>1. Len(told) \in Nat /\ \A i \in 1 .. Len(told) : told[i] \in {"missed", "error", "end"}
      BY <2>1
    <3>2. \A i \in 1 .. Len(told) : [kind |-> told[i]] \in Answer
      BY <3>1, AnswersTyped
    <3> QED BY <3>1, <3>2, IsASeq
  <2> HIDE DEF msgs
  <2>5. /\ turn' \in [Turn -> TurnRec] /\ conn' \in [Conn -> ConnRec]
        /\ buffer' \in Kept \cup {None}
    BY <1>1, <2>2, <2>3, <2>4, SendsTyped
  <2> QED BY <1>1, <1>6, <2>3, <2>5
<1> QED
  BY <1>7, <1>8, <1>9, <1>10, <1>11, <1>12, <1>13, <1>14 DEF TurnStep

\* What a resume brings: first the images of the buffer, and no other image.
LEMMA ReplayMessages ==
  ASSUME NEW data \in Kept
  PROVE  LET images == [i \in 1 .. Len(data.images) |->
                          [kind |-> "image", image |-> data.images[i]]]
             text == IF data.chunks = <<>> THEN <<>>
                     ELSE <<[kind |-> "resume", chunks |-> data.chunks, complete |-> data.complete]>>
             over == IF data.complete THEN <<[kind |-> "end"]>> ELSE <<>>
             msgs == images \o text \o over
         IN  /\ msgs \in Seq(Answer)
             /\ Len(msgs) >= Len(data.images)
             /\ \A i \in 1 .. Len(data.images) :
                  msgs[i] = [kind |-> "image", image |-> data.images[i]]
             /\ \A i \in 1 .. Len(msgs) : msgs[i].kind = "image" => i <= Len(data.images)
<1> DEFINE images == [i \in 1 .. Len(data.images) |->
                        [kind |-> "image", image |-> data.images[i]]]
           text == IF data.chunks = <<>> THEN <<>>
                   ELSE <<[kind |-> "resume", chunks |-> data.chunks, complete |-> data.complete]>>
           over == IF data.complete THEN <<[kind |-> "end"]>> ELSE <<>>
           rest == text \o over
<1>1. data.chunks \in Seq(Chunk) /\ data.images \in Seq(Image) /\ data.complete \in BOOLEAN
  BY DEF Kept
<1>2. Len(data.images) \in Nat /\ \A i \in 1 .. Len(data.images) : data.images[i] \in Image
  BY <1>1
<1>3. images \in Seq(Answer) /\ Len(images) = Len(data.images)
  <2>1. \A i \in 1 .. Len(data.images) : [kind |-> "image", image |-> data.images[i]] \in Answer
    BY <1>2, AnswersTyped
  <2>2. images \in Seq(Answer)
    BY <1>2, <2>1
  <2>3. DOMAIN images = 1 .. Len(data.images)
    OBVIOUS
  <2> HIDE DEF images
  <2> QED BY <1>2, <2>2, <2>3, LenProperties
<1>4. text \in Seq(Answer) /\ \A i \in 1 .. Len(text) : text[i].kind = "resume"
  <2>1. [kind |-> "resume", chunks |-> data.chunks, complete |-> data.complete] \in Answer
    BY <1>1, AnswersTyped
  <2> QED BY <2>1
<1>5. over \in Seq(Answer) /\ \A i \in 1 .. Len(over) : over[i].kind = "end"
  <2>1. [kind |-> "end"] \in Answer
    BY AnswersTyped
  <2> QED BY <2>1
<1>6. \A i \in 1 .. Len(data.images) : images[i] = [kind |-> "image", image |-> data.images[i]]
  OBVIOUS
<1> HIDE DEF images, text, over
<1>7. rest \in Seq(Answer) /\ \A i \in 1 .. Len(rest) : rest[i].kind # "image"
  <2>1. rest \in Seq(Answer) /\ Len(rest) = Len(text) + Len(over)
    BY <1>4, <1>5, ConcatProperties
  <2>2. ASSUME NEW i \in 1 .. Len(rest) PROVE rest[i].kind # "image"
    <3>1. CASE i <= Len(text)
      <4>1. rest[i] = text[i] /\ i \in 1 .. Len(text)
        BY <1>4, <1>5, <2>1, <3>1, ConcatProperties
      <4> QED BY <1>4, <4>1
    <3>2. CASE i > Len(text)
      <4>1. rest[i] = over[i - Len(text)] /\ i - Len(text) \in 1 .. Len(over)
        BY <1>4, <1>5, <2>1, <3>2, ConcatProperties
      <4> QED BY <1>5, <4>1
    <3>3. i \in Nat /\ Len(text) \in Nat
      BY <1>4, <2>1
    <3> QED BY <3>1, <3>2, <3>3
  <2> QED BY <2>1, <2>2
<1> HIDE DEF rest
<1> DEFINE msgs == images \o rest
<1>8. images \o text \o over = msgs
  BY <1>3, <1>4, <1>5, ConcatAssociative DEF rest
<1>9. msgs \in Seq(Answer) /\ Len(msgs) = Len(images) + Len(rest)
  BY <1>3, <1>7, ConcatProperties
<1>10. Len(images) \in Nat /\ Len(rest) \in Nat
  BY <1>3, <1>7
<1>11. \A i \in 1 .. Len(images) : msgs[i] = images[i]
  BY <1>3, <1>7, <1>9, ConcatProperties
<1>12. ASSUME NEW i \in 1 .. Len(msgs), i > Len(images) PROVE msgs[i].kind # "image"
  <2>1. msgs[i] = rest[i - Len(images)] /\ i - Len(images) \in 1 .. Len(rest)
    BY <1>3, <1>7, <1>9, <1>12, ConcatProperties
  <2> QED BY <1>7, <2>1
<1>13. \A i \in 1 .. Len(msgs) : msgs[i].kind = "image" => i <= Len(images)
  BY <1>9, <1>10, <1>12
<1>14. Len(msgs) >= Len(images)
  BY <1>9, <1>10
<1> HIDE DEF msgs
<1> QED BY <1>3, <1>6, <1>8, <1>9, <1>11, <1>13, <1>14 DEF images, text, over

\* What a connection does keeps the types.
LEMMA ConnStepTyped ==
  ASSUME TypeOK, NEW c \in Conn, ConnStep(c) \/ Break \/ Expire
  PROVE  TypeOK'
<1>1. /\ page \in PageRec /\ conn \in [Conn -> ConnRec] /\ turn \in [Turn -> TurnRec]
      /\ buffer \in Kept \cup {None} /\ odd \subseteq {"late", "two"}
      /\ spent \in [mishaps : 0 .. MaxMishaps, images : 0 .. MaxImages]
  BY TypeParts
<1>2. /\ conn[c] \in ConnRec /\ conn[c].inbox \in Seq(Request) /\ conn[c].out \in Seq(Answer)
      /\ conn[c].resume \in Kept \cup {None}
  BY <1>1 DEF ConnRec
<1>3. conn[c].inbox # <<>> => /\ Tail(conn[c].inbox) \in Seq(Request)
                              /\ Head(conn[c].inbox) \in Request
  BY <1>2
<1>4. ASSUME page' = page, spent' = spent, odd' \subseteq {"late", "two"},
             conn' \in [Conn -> ConnRec], turn' \in [Turn -> TurnRec],
             buffer' \in Kept \cup {None}
      PROVE  TypeOK'
  BY <1>1, <1>4 DEF TypeOK, PageRec, ConnRec, TurnRec, Place
<1>5. ASSUME conn[c].inbox # <<>>
      PROVE  [conn EXCEPT ![c].inbox = Tail(@)] \in [Conn -> ConnRec]
  BY <1>1, <1>3, <1>5 DEF ConnRec
<1>6. CASE HandleChat(c)
  <2> DEFINE t == CHOOSE u \in Turn : ~Live(u)
  <2>1. t \in Turn
    BY <1>6 DEF HandleChat
  <2>2. Head(conn[c].inbox).question \in Question
    BY <1>3, <1>6 DEF HandleChat, Request
  <2>3. [NoTurn EXCEPT !.pc = "request", !.conn = c,
                       !.question = Head(conn[c].inbox).question] \in TurnRec
    BY <2>2, EmptyTyped DEF TurnRec, Place
  <2>4. turn' = [turn EXCEPT ![t] = [NoTurn EXCEPT !.pc = "request", !.conn = c,
                                       !.question = Head(conn[c].inbox).question]]
    BY <1>6 DEF HandleChat
  <2> HIDE DEF t
  <2>5. turn' \in [Turn -> TurnRec]
    BY <1>1, <2>1, <2>3, <2>4
  <2>6. conn' \in [Conn -> ConnRec]
    BY <1>5, <1>6 DEF HandleChat
  <2> QED BY <1>1, <1>4, <1>6, <2>5, <2>6 DEF HandleChat
<1>7. CASE HandleStop(c)
  <2>1. [conn[c] EXCEPT !.inbox = Tail(@), !.stop = TRUE] \in ConnRec
    BY <1>2, <1>3, <1>7 DEF HandleStop, ConnRec
  <2>2. conn' = [conn EXCEPT ![c] = [conn[c] EXCEPT !.inbox = Tail(@), !.stop = TRUE]]
    BY <1>1, <1>7 DEF HandleStop
  <2>3. conn' \in [Conn -> ConnRec]
    BY <1>1, <2>1, <2>2
  <2> QED BY <1>1, <1>4, <1>7, <2>3 DEF HandleStop
<1>8. CASE HandleResume(c)
  <2> DEFINE rest == [conn EXCEPT ![c].inbox = Tail(@)]
  <2>1. rest \in [Conn -> ConnRec]
    BY <1>5, <1>8 DEF HandleResume
  <2>2. rest[c].out \in Seq(Answer)
    BY <2>1 DEF ConnRec
  <2>3. \/ buffer # None /\ conn' = [rest EXCEPT ![c].resume = buffer]
        \/ conn' = [rest EXCEPT ![c].out = Append(@, [kind |-> "missed"])]
    BY <1>8 DEF HandleResume
  <2> HIDE DEF rest
  <2>4. Append(rest[c].out, [kind |-> "missed"]) \in Seq(Answer)
    BY <2>2, AnswersTyped
  <2>5. [rest EXCEPT ![c].resume = buffer] \in [Conn -> ConnRec]
    <3>1. [rest[c] EXCEPT !.resume = buffer] \in ConnRec
      BY <1>1, <2>1 DEF ConnRec
    <3>2. [rest EXCEPT ![c] = [rest[c] EXCEPT !.resume = buffer]] \in [Conn -> ConnRec]
      BY <2>1, <3>1
    <3> QED BY <3>2
  <2>6. [rest EXCEPT ![c].out = Append(@, [kind |-> "missed"])] \in [Conn -> ConnRec]
    BY <2>1, <2>4 DEF ConnRec
  <2>7. conn' \in [Conn -> ConnRec]
    BY <2>3, <2>5, <2>6
  <2> QED BY <1>1, <1>4, <1>8, <2>7 DEF HandleResume
<1>9. CASE Replay(c)
  <2>1. buffer' \in Kept \cup {None}
    <3>1. <<>> \in Seq(Image)
      OBVIOUS
    <3>2. buffer # None => [buffer EXCEPT !.images = <<>>] \in Kept
      BY <1>1, <3>1 DEF Kept
    <3> QED BY <1>9, <3>2 DEF Replay
  <2>2. odd' \subseteq {"late", "two"}
    BY <1>1, <1>9 DEF Replay
  <2>3. PICK msgs \in Seq(Answer) : conn' = [Told(c, msgs) EXCEPT ![c].resume = None]
    BY <1>2, <1>9, ReplayMessages DEF Replay
  <2>4. Told(c, msgs) \in [Conn -> ConnRec]
    BY <2>3, ToldTyped
  <2>5. conn' \in [Conn -> ConnRec]
    BY <2>3, <2>4 DEF ConnRec
  <2> QED BY <1>1, <1>4, <1>9, <2>1, <2>2, <2>5 DEF Replay
<1>10. CASE Removed(c)
  <2>1. [conn[c] EXCEPT !.state = "removed", !.stop = FALSE] \in ConnRec
    BY <1>2 DEF ConnRec
  <2>2. conn' = [conn EXCEPT ![c] = [conn[c] EXCEPT !.state = "removed", !.stop = FALSE]]
    BY <1>1, <1>10 DEF Removed
  <2>3. conn' \in [Conn -> ConnRec]
    BY <1>1, <2>1, <2>2
  <2> QED BY <1>1, <1>4, <1>10, <2>3 DEF Removed
<1>11. CASE Break
  <2> DEFINE d == page.conn
             broken == [conn[d] EXCEPT !.alive = FALSE, !.inbox = <<>>, !.out = <<>>]
  <2>1. d \in Conn /\ conn[d] \in ConnRec
    BY <1>1, <1>11 DEF Break, PageRec
  <2>2. conn' = [conn EXCEPT ![d] = broken]
    BY <1>1, <1>11 DEF Break
  <2> HIDE DEF d
  <2>3. broken \in ConnRec
    <3>1. <<>> \in Seq(Request) /\ <<>> \in Seq(Answer)
      OBVIOUS
    <3> QED BY <2>1, <3>1 DEF ConnRec
  <2> HIDE DEF broken
  <2>4. conn' \in [Conn -> ConnRec]
    BY <1>1, <2>1, <2>2, <2>3
  <2>5. spent' \in [mishaps : 0 .. MaxMishaps, images : 0 .. MaxImages]
    BY <1>1, <1>11, Bounds DEF Break
  <2>6. page' = page /\ turn' = turn /\ buffer' = buffer /\ odd' = odd
    BY <1>11 DEF Break
  <2> QED BY <1>1, <2>4, <2>5, <2>6 DEF TypeOK, PageRec, ConnRec, TurnRec, Place
<1>12. CASE Expire
  BY <1>1, <1>4, <1>12 DEF Expire
<1> QED BY <1>6, <1>7, <1>8, <1>9, <1>10, <1>11, <1>12 DEF ConnStep

\* What the page does keeps the types.
LEMMA FailedTyped ==
  ASSUME NEW p \in PageRec, p.asked # 0
  PROVE  /\ Failed(p) \in PageRec /\ Failed(p).asked = p.asked
         /\ Untracked(p) \in PageRec /\ Untracked(p).asked = p.asked
<1>1. Untracked(p) \in PageRec /\ Untracked(p).asked = p.asked
  BY DEF Untracked, PageRec
<1>2. p.asked \in Question
  BY Bounds DEF PageRec, Question
<1>3. p.retries \in Seq(Question) /\ p.tries \in 0 .. MaxRetries
  BY DEF PageRec
<1> DEFINE again == ~p.stopped /\ p.tries < MaxRetries
           tries == IF again THEN p.tries + 1 ELSE p.tries
           retries == IF again THEN Append(p.retries, p.asked) ELSE p.retries
<1>4. tries \in 0 .. MaxRetries
  BY <1>3, Bounds
<1>5. retries \in Seq(Question)
  BY <1>2, <1>3
<1>6. Failed(p) = [p EXCEPT !.message = None, !.loading = FALSE, !.tries = tries,
                            !.retries = retries]
  BY DEF Failed
<1> HIDE DEF tries, retries
<1>7. Failed(p) \in PageRec /\ Failed(p).asked = p.asked
  BY <1>4, <1>5, <1>6 DEF PageRec
<1> QED BY <1>1, <1>7

\* A question that is sent, or queued, keeps the types.
LEMMA SentTyped ==
  ASSUME TypeOK, NEW p \in PageRec, NEW q \in Question, p.conn = page.conn, Sent(p, q)
  PROVE  /\ page' \in PageRec /\ conn' \in [Conn -> ConnRec] /\ page'.asked = p.asked
<1> DEFINE msg == [kind |-> "chat", question |-> q]
           s == [p EXCEPT !.message = <<>>, !.tracked = TRUE, !.known = TRUE]
<1>1. msg \in Request
  BY DEF Request
<1> HIDE DEF msg
<1>2. <<msg>> \in Seq(Request)
  BY <1>1
<1>3. <<>> \in Seq(Chunk)
  OBVIOUS
<1>4. s \in PageRec /\ s.asked = p.asked /\ s.pending \in Seq(Request)
  BY <1>3 DEF PageRec
<1> HIDE DEF s
<1>5. Append(s.pending, msg) \in Seq(Request)
  BY <1>1, <1>4
<1>6. \/ page.conn # 0 /\ page' = s /\ conn' = Asked(page.conn, <<msg>>)
      \/ page' = [s EXCEPT !.pending = Append(@, msg)] /\ conn' = conn
  BY DEF Sent, msg, s
<1>7. conn \in [Conn -> ConnRec] /\ page.conn \in Conn \cup {0}
  BY TypeParts DEF PageRec
<1>8. CASE page.conn # 0 /\ page' = s /\ conn' = Asked(page.conn, <<msg>>)
  BY <1>2, <1>4, <1>7, <1>8, ToldTyped
<1>9. CASE page' = [s EXCEPT !.pending = Append(@, msg)] /\ conn' = conn
  BY <1>4, <1>5, <1>7, <1>9 DEF PageRec
<1> QED BY <1>6, <1>8, <1>9

\* A message that is heard leaves the page well typed.
LEMMA HeardTyped ==
  ASSUME TypeOK, page.asked # 0, NEW msg \in Answer
  PROVE  Heard(msg) \in PageRec /\ Heard(msg).asked = page.asked
<1>1. page \in PageRec /\ page.message \in Seq(Chunk) \cup {None} /\ page.images \in Seq(Image)
  BY TypeParts DEF PageRec
<1>2. Untracked(page) \in PageRec /\ Untracked(page).asked = page.asked
  BY <1>1, FailedTyped
<1>3. CASE msg.kind = "chunk"
  <2> DEFINE m == IF page.message = None THEN None ELSE Append(page.message, msg.chunk)
  <2>1. m \in Seq(Chunk) \cup {None}
    BY <1>1, <1>3, AnswerParts
  <2>2. Heard(msg) = [page EXCEPT !.message = m]
    BY <1>3 DEF Heard
  <2> HIDE DEF m
  <2> QED BY <1>1, <2>1, <2>2 DEF PageRec
<1>4. CASE msg.kind = "image"
  <2> DEFINE m == Append(page.images, msg.image)
  <2>1. m \in Seq(Image)
    BY <1>1, <1>4, AnswerParts
  <2>2. Heard(msg) = [page EXCEPT !.images = m]
    BY <1>4 DEF Heard
  <2> HIDE DEF m
  <2> QED BY <1>1, <2>1, <2>2 DEF PageRec
<1>5. CASE msg.kind = "resume"
  <2> DEFINE p == IF msg.complete THEN Untracked(page) ELSE [page EXCEPT !.timer = FALSE]
             m == page.message \o msg.chunks
  <2>1. p \in PageRec /\ p.asked = page.asked /\ p.message = page.message
    <3>1. Untracked(page).message = page.message
      BY <1>1 DEF Untracked, PageRec
    <3>2. /\ [page EXCEPT !.timer = FALSE] \in PageRec
          /\ [page EXCEPT !.timer = FALSE].asked = page.asked
          /\ [page EXCEPT !.timer = FALSE].message = page.message
      BY <1>1 DEF PageRec
    <3> QED BY <1>2, <3>1, <3>2
  <2>2. page.message # None => m \in Seq(Chunk)
    BY <1>1, <1>5, AnswerParts, ConcatProperties
  <2>3. \/ Heard(msg) = p
        \/ Heard(msg) = [p EXCEPT !.message = None, !.loading = FALSE]
        \/ page.message # None /\ Heard(msg) = [p EXCEPT !.message = p.message \o msg.chunks]
    BY <1>5 DEF Heard
  <2> HIDE DEF p
  <2>4. [p EXCEPT !.message = None, !.loading = FALSE] \in PageRec
    BY <2>1 DEF PageRec
  <2>5. [p EXCEPT !.message = None, !.loading = FALSE].asked = p.asked
    BY <2>1 DEF PageRec
  <2>6. page.message # None => [p EXCEPT !.message = m] \in PageRec
    BY <2>1, <2>2 DEF PageRec
  <2>7. [p EXCEPT !.message = m].asked = p.asked
    BY <2>1 DEF PageRec
  <2> QED BY <2>1, <2>3, <2>4, <2>5, <2>6, <2>7
<1>6. CASE msg.kind = "missed"
  <2>1. Heard(msg) = Failed(Untracked(page))
    BY <1>6 DEF Heard
  <2> QED BY <1>2, <2>1, FailedTyped
<1>7. CASE msg.kind = "error"
  <2>1. Heard(msg) = Failed(page)
    BY <1>7 DEF Heard
  <2> QED BY <1>1, <2>1, FailedTyped
<1>8. CASE msg.kind = "end"
  <2>1. Heard(msg) = [Untracked(page) EXCEPT !.tries = 0, !.stopped = FALSE, !.loading = FALSE,
                                             !.message = None]
    BY <1>8 DEF Heard
  <2>2. 0 \in 0 .. MaxRetries
    BY Bounds
  <2> QED BY <1>2, <2>1, <2>2 DEF PageRec
<1> QED BY <1>3, <1>4, <1>5, <1>6, <1>7, <1>8, AnswerParts

\* What the user does keeps the types, and so does the page.
LEMMA PageStepTyped ==
  ASSUME Typed, PageStep \/ Ask \/ Stop
  PROVE  TypeOK'
<1>1. /\ page \in PageRec /\ conn \in [Conn -> ConnRec] /\ turn \in [Turn -> TurnRec]
      /\ buffer \in Kept \cup {None} /\ odd \subseteq {"late", "two"}
      /\ spent \in [mishaps : 0 .. MaxMishaps, images : 0 .. MaxImages]
  BY TypeParts DEF Typed
<1>2. TypeOK /\ Quiet
  BY DEF Typed
<1>3. ASSUME page' \in PageRec, conn' \in [Conn -> ConnRec], turn' = turn, buffer' = buffer,
             odd' = odd, spent' \in [mishaps : 0 .. MaxMishaps, images : 0 .. MaxImages]
      PROVE  TypeOK'
  BY <1>1, <1>3 DEF TypeOK, PageRec, ConnRec, TurnRec, Place
<1>4. /\ page.conn \in Conn \cup {0} /\ page.asked \in 0 .. MaxAsked
      /\ page.sending \in 0 .. MaxAsked /\ page.retries \in Seq(Question)
      /\ page.pending \in Seq(Request) /\ page.ghosts \in Nat /\ page.last \in Conn
  BY <1>1 DEF PageRec
<1>5. \A c \in Conn : conn[c] \in ConnRec /\ conn[c].out \in Seq(Answer)
  BY <1>1 DEF ConnRec
<1>6. CASE Ask
  <2>1. page.asked + 1 \in 0 .. MaxAsked /\ 0 \in 0 .. MaxRetries
    BY <1>4, <1>6, Bounds DEF Ask
  <2>2. page' \in PageRec
    BY <1>1, <1>6, <2>1 DEF Ask, PageRec
  <2> QED BY <1>1, <1>3, <1>6, <2>2 DEF Ask
<1>7. CASE Stop
  <2>1. page' \in PageRec
    <3>1. 0 \in 0 .. MaxRetries
      BY Bounds
    <3>2. page' = [page EXCEPT !.stopped = TRUE, !.tries = 0, !.loading = FALSE, !.message = None]
      BY <1>7 DEF Stop
    <3> QED BY <1>1, <3>1, <3>2 DEF PageRec
  <2>2. <<[kind |-> "stop"]>> \in Seq(Request)
    BY DEF Request
  <2>3. conn' \in [Conn -> ConnRec]
    BY <1>1, <1>2, <1>4, <1>7, <2>2, ToldTyped DEF Stop
  <2>4. spent' \in [mishaps : 0 .. MaxMishaps, images : 0 .. MaxImages]
    BY <1>1, <1>7, Bounds DEF Stop
  <2> QED BY <1>3, <1>7, <2>1, <2>3, <2>4 DEF Stop
<1>8. CASE SendOff
  <2> DEFINE p == [page EXCEPT !.sending = 0]
  <2>1. p \in PageRec /\ p.conn = page.conn
    <3>1. 0 \in 0 .. MaxAsked
      BY Bounds
    <3> QED BY <1>1, <3>1 DEF PageRec
  <2>2. page.sending \in Question /\ Sent(p, page.sending)
    BY <1>4, <1>8, Bounds DEF SendOff, Question
  <2> HIDE DEF p
  <2>3. page' \in PageRec /\ conn' \in [Conn -> ConnRec]
    BY <1>2, <2>1, <2>2, SentTyped
  <2> QED BY <1>1, <1>3, <1>8, <2>3 DEF SendOff
<1>9. CASE Hear
  <2>1. page.conn \in Conn /\ conn[page.conn].out # <<>>
    BY <1>4, <1>9 DEF Hear
  <2>2. page.asked # 0
    BY <1>2, <2>1 DEF Quiet
  <2>3. /\ Head(conn[page.conn].out) \in Answer /\ Tail(conn[page.conn].out) \in Seq(Answer)
    BY <1>5, <2>1
  <2>4. page' \in PageRec
    BY <1>2, <1>9, <2>2, <2>3, HeardTyped DEF Hear
  <2>5. [conn[page.conn] EXCEPT !.out = Tail(@)] \in ConnRec
    BY <1>5, <2>1, <2>3 DEF ConnRec
  <2>6. conn' = [conn EXCEPT ![page.conn] = [conn[page.conn] EXCEPT !.out = Tail(@)]]
    BY <1>1, <1>9 DEF Hear
  <2>7. conn' \in [Conn -> ConnRec]
    BY <1>1, <2>1, <2>5, <2>6
  <2> QED BY <1>1, <1>3, <1>9, <2>4, <2>7 DEF Hear
<1>10. CASE Closed
  <2>1. page' \in PageRec
    BY <1>1, <1>10 DEF Closed, PageRec
  <2> QED BY <1>1, <1>3, <1>10, <2>1 DEF Closed
<1>11. CASE Connect
  <2> DEFINE c == page.last + 1
             resume == IF page.tracked THEN <<[kind |-> "resume"]>> ELSE <<>>
             ghosts == IF page.timer /\ page.tracked THEN page.ghosts + 1 ELSE page.ghosts
             inbox == page.pending \o resume
             timer == page.timer \/ page.tracked
  <2>1. c \in Conn
    <3>1. page.last < 2 * MaxMishaps + 1
      BY <1>11 DEF Connect
    <3>2. page.last \in Nat /\ MaxMishaps \in Nat
      BY <1>4, Bounds
    <3> DEFINE n == 2 * MaxMishaps + 1
    <3>3. n \in Nat
      BY <3>2
    <3>4. Conn = 1 .. n /\ page.last < n
      BY <3>1 DEF Conn
    <3> HIDE DEF n
    <3> QED BY <3>2, <3>3, <3>4
  <2>2. inbox \in Seq(Request)
    <3>1. resume \in Seq(Request)
      <4>1. [kind |-> "resume"] \in [kind : {"stop", "resume"}]
        OBVIOUS
      <4>2. [kind |-> "resume"] \in Request
        BY <4>1 DEF Request
      <4>3. <<>> \in Seq(Request) /\ <<[kind |-> "resume"]>> \in Seq(Request)
        BY <4>2
      <4> QED BY <4>3
    <3> HIDE DEF resume
    <3> QED BY <1>4, <3>1, ConcatProperties
  <2>3. ghosts \in Nat /\ timer \in BOOLEAN
    BY <1>1, <1>4 DEF PageRec
  <2>4. /\ page' = [page EXCEPT !.conn = c, !.last = c, !.pending = <<>>, !.timer = timer,
                                !.ghosts = ghosts]
        /\ conn' = [conn EXCEPT ![c] = [conn[c] EXCEPT !.state = "open", !.alive = TRUE,
                                                       !.inbox = inbox]]
    BY <1>1, <1>11 DEF Connect
  <2> HIDE DEF c, ghosts, inbox, timer
  <2>5. page' \in PageRec
    <3>1. <<>> \in Seq(Request)
      OBVIOUS
    <3> QED BY <1>1, <2>1, <2>3, <2>4, <3>1 DEF PageRec
  <2>6. [conn[c] EXCEPT !.state = "open", !.alive = TRUE, !.inbox = inbox] \in ConnRec
    BY <1>5, <2>1, <2>2 DEF ConnRec
  <2>7. conn' \in [Conn -> ConnRec]
    BY <1>1, <2>1, <2>4, <2>6
  <2> QED BY <1>1, <1>3, <1>11, <2>5, <2>7 DEF Connect
<1>12. CASE Retry
  <2> DEFINE loading == IF page.stopped THEN page.loading ELSE page.conn # 0
             p == [page EXCEPT !.retries = Tail(@), !.loading = loading]
  <2>1. Tail(page.retries) \in Seq(Question) /\ Head(page.retries) \in Question
    BY <1>4, <1>12 DEF Retry
  <2>2. loading \in BOOLEAN
    BY <1>1 DEF PageRec
  <2>3. \/ page' = p /\ conn' = conn
        \/ Sent(p, Head(page.retries))
    BY <1>12 DEF Retry
  <2> HIDE DEF loading
  <2>4. p \in PageRec /\ p.conn = page.conn
    BY <1>1, <2>1, <2>2 DEF PageRec
  <2> HIDE DEF p
  <2>5. page' \in PageRec /\ conn' \in [Conn -> ConnRec]
    BY <1>1, <1>2, <2>1, <2>3, <2>4, SentTyped
  <2> QED BY <1>1, <1>3, <1>12, <2>5 DEF Retry
<1>13. CASE ResumeTimesOut
  <2> DEFINE p == [page EXCEPT !.ghosts = @ - 1]
  <2>1. page.asked # 0
    BY <1>2, <1>4, <1>13 DEF ResumeTimesOut, Quiet
  <2>2. page.ghosts > 0 => p \in PageRec /\ p.asked = page.asked
    <3>1. page.ghosts > 0 => page.ghosts - 1 \in Nat
      BY <1>4
    <3> QED BY <1>1, <3>1 DEF PageRec
  <2>3. \/ page' = Failed(Untracked(page))
        \/ page.ghosts > 0 /\ page' = Failed(Untracked(p))
    BY <1>13 DEF ResumeTimesOut
  <2> HIDE DEF p
  <2>4. Untracked(page) \in PageRec /\ Untracked(page).asked # 0
    BY <1>1, <2>1, FailedTyped
  <2>5. page.ghosts > 0 => Untracked(p) \in PageRec /\ Untracked(p).asked # 0
    BY <2>1, <2>2, FailedTyped
  <2>6. page' \in PageRec
    BY <2>3, <2>4, <2>5, FailedTyped
  <2> QED BY <1>1, <1>3, <1>13, <2>6 DEF ResumeTimesOut
<1> QED BY <1>6, <1>7, <1>8, <1>9, <1>10, <1>11, <1>12, <1>13 DEF PageStep

\* Every step keeps the types.
LEMMA NextTyped == Typed /\ [Next]_vars => TypeOK'
<1> SUFFICES ASSUME Typed, [Next]_vars PROVE TypeOK'
  OBVIOUS
<1>1. TypeOK
  BY DEF Typed
<1>2. CASE UNCHANGED vars
  BY <1>1, <1>2 DEF vars, TypeOK
<1>3. ASSUME NEW t \in Turn, TurnStep(t) PROVE TypeOK'
  BY <1>1, <1>3, TurnStepTyped
<1>4. ASSUME NEW c \in Conn, ConnStep(c) PROVE TypeOK'
  BY <1>1, <1>4, ConnStepTyped
<1>5. CASE Break \/ Expire
  BY <1>1, <1>5, Bounds, ConnStepTyped
<1>6. CASE PageStep \/ Ask \/ Stop
  BY <1>6, PageStepTyped
<1> QED BY <1>2, <1>3, <1>4, <1>5, <1>6 DEF Next

\* While the page was asked nothing, connections break and are made anew, and that is all.
LEMMA QuietSteps ==
  ASSUME Typed, Next, page.asked = 0
  PROVE  Break \/ Closed \/ Connect \/ Ask \/ \E c \in Conn : Removed(c)
<1>1. /\ page.sending = 0 /\ page.retries = <<>> /\ page.message = None
      /\ ~page.loading /\ ~page.timer /\ page.ghosts = 0 /\ buffer = None
      /\ \A t \in Turn : turn[t].pc = "none"
      /\ \A c \in Conn : conn[c].inbox = <<>> /\ conn[c].out = <<>> /\ conn[c].resume = None
  BY DEF Typed, Quiet
<1>2. page.conn \in Conn \cup {0}
  BY TypeParts DEF Typed, PageRec
<1>3. ASSUME NEW t \in Turn PROVE ~TurnStep(t)
  BY <1>1 DEF TurnStep, RequestFails, StreamBegins, Line, StreamEnds, ToolResult, RoundOver,
              Fallback, TurnEnds
<1>4. ASSUME NEW c \in Conn PROVE ~HandleChat(c) /\ ~HandleStop(c) /\ ~HandleResume(c) /\ ~Replay(c)
  BY <1>1 DEF HandleChat, HandleStop, HandleResume, Replay
<1>5. ~SendOff /\ ~Retry /\ ~ResumeTimesOut /\ ~Stop /\ ~Expire
  BY <1>1 DEF SendOff, Retry, ResumeTimesOut, Stop, Expire
<1>6. ~Hear
  BY <1>1, <1>2 DEF Hear
<1> QED BY <1>3, <1>4, <1>5, <1>6 DEF Next, ConnStep, PageStep

\* The user has asked once he has: nothing unasks.
LEMMA AskedStays ==
  ASSUME Typed, Next, page.asked # 0
  PROVE  page'.asked # 0
<1>1. page \in PageRec /\ page.asked \in 0 .. MaxAsked /\ TypeOK /\ Quiet
  BY TypeParts DEF Typed, PageRec
<1>2. CASE page' = page
  BY <1>2
<1>3. CASE Ask
  BY <1>1, <1>3, Bounds DEF Ask, PageRec
<1>4. CASE Stop \/ Closed \/ Connect
  BY <1>1, <1>4 DEF Stop, Closed, Connect, PageRec
<1>5. CASE SendOff
  <2> DEFINE p == [page EXCEPT !.sending = 0]
  <2>1. p \in PageRec /\ p.conn = page.conn /\ p.asked = page.asked
    <3>1. 0 \in 0 .. MaxAsked
      BY Bounds
    <3> QED BY <1>1, <3>1 DEF PageRec
  <2>2. page.sending \in Question /\ Sent(p, page.sending)
    BY <1>1, <1>5, Bounds DEF SendOff, Question, PageRec
  <2> HIDE DEF p
  <2> QED BY <1>1, <2>1, <2>2, SentTyped
<1>6. CASE Hear
  <2>1. page.conn \in Conn /\ conn[page.conn].out \in Seq(Answer) /\ conn[page.conn].out # <<>>
    BY <1>1, <1>6, TypeParts DEF Hear, PageRec, ConnRec
  <2>2. Head(conn[page.conn].out) \in Answer
    BY <2>1
  <2> QED BY <1>1, <1>6, <2>2, HeardTyped DEF Hear
<1>7. CASE Retry
  <2> DEFINE loading == IF page.stopped THEN page.loading ELSE page.conn # 0
             p == [page EXCEPT !.retries = Tail(@), !.loading = loading]
  <2>1. page.retries \in Seq(Question) /\ page.retries # <<>>
    BY <1>1, <1>7 DEF Retry, PageRec
  <2>2. Tail(page.retries) \in Seq(Question) /\ Head(page.retries) \in Question
    BY <2>1
  <2>3. loading \in BOOLEAN
    BY <1>1 DEF PageRec
  <2>4. page' = p \/ Sent(p, Head(page.retries))
    BY <1>7 DEF Retry
  <2> HIDE DEF loading
  <2>5. p \in PageRec /\ p.conn = page.conn /\ p.asked = page.asked
    BY <1>1, <2>2, <2>3 DEF PageRec
  <2> HIDE DEF p
  <2> QED BY <1>1, <2>2, <2>4, <2>5, SentTyped
<1>8. CASE ResumeTimesOut
  <2> DEFINE p == [page EXCEPT !.ghosts = @ - 1]
  <2>1. page.ghosts \in Nat
    BY <1>1 DEF PageRec
  <2>2. page.ghosts > 0 => p \in PageRec /\ p.asked = page.asked
    <3>1. page.ghosts > 0 => page.ghosts - 1 \in Nat
      BY <2>1
    <3> QED BY <1>1, <3>1 DEF PageRec
  <2>3. \/ page' = Failed(Untracked(page))
        \/ page.ghosts > 0 /\ page' = Failed(Untracked(p))
    BY <1>8 DEF ResumeTimesOut
  <2> HIDE DEF p
  <2>4. Untracked(page) \in PageRec /\ Untracked(page).asked = page.asked
    BY <1>1, FailedTyped
  <2>5. page.ghosts > 0 => Untracked(p) \in PageRec /\ Untracked(p).asked = page.asked
    BY <2>2, FailedTyped
  <2> QED BY <2>3, <2>4, <2>5, FailedTyped
<1>9. ASSUME NEW t \in Turn, TurnStep(t) PROVE page' = page
  BY <1>9 DEF TurnStep, RequestFails, StreamBegins, Line, StreamEnds, ToolResult, RoundOver,
              Fallback, TurnEnds
<1>10. ASSUME NEW c \in Conn, ConnStep(c) PROVE page' = page
  BY <1>10 DEF ConnStep, HandleChat, HandleStop, HandleResume, Replay, Removed
<1>11. CASE Break \/ Expire
  BY <1>2, <1>11 DEF Break, Expire
<1> QED
  BY <1>2, <1>3, <1>4, <1>5, <1>6, <1>7, <1>8, <1>9, <1>10, <1>11 DEF Next, PageStep

\* Every step leaves a page at rest that was asked nothing.
LEMMA NextQuiet == Typed /\ [Next]_vars => Quiet'
<1> SUFFICES ASSUME Typed, [Next]_vars, page'.asked = 0 PROVE Quiet'
  BY DEF Quiet
<1>1. /\ page \in PageRec /\ conn \in [Conn -> ConnRec] /\ TypeOK /\ Quiet
  BY TypeParts DEF Typed
<1>2. CASE UNCHANGED vars
  BY <1>1, <1>2 DEF vars, Quiet
<1>3. CASE Next
  <2>1. page.asked = 0
    BY <1>3, AskedStays
  <2>2. /\ page.sending = 0 /\ page.retries = <<>> /\ page.pending = <<>>
        /\ page.message = None /\ ~page.loading /\ ~page.timer /\ page.ghosts = 0
        /\ ~page.tracked /\ buffer = None
        /\ \A t \in Turn : turn[t].pc = "none"
        /\ \A c \in Conn : conn[c].inbox = <<>> /\ conn[c].out = <<>> /\ conn[c].resume = None
    BY <1>1, <2>1 DEF Quiet
  <2>3. ~Ask
    <3>1. Ask => page'.asked = page.asked + 1
      BY <1>1 DEF Ask, PageRec
    <3> QED BY <2>1, <3>1
  <2>4. CASE Break
    <3>1. UNCHANGED <<page, turn, buffer>>
      BY <2>4 DEF Break
    <3>2. \A c \in Conn : conn'[c].inbox = <<>> /\ conn'[c].out = <<>> /\ conn'[c].resume = None
      BY <1>1, <2>2, <2>4 DEF Break, ConnRec
    <3> QED BY <2>2, <3>1, <3>2 DEF Quiet
  <2>5. CASE \E c \in Conn : Removed(c)
    <3>1. UNCHANGED <<page, turn, buffer>>
      BY <2>5 DEF Removed
    <3>2. \A c \in Conn : conn'[c].inbox = <<>> /\ conn'[c].out = <<>> /\ conn'[c].resume = None
      BY <1>1, <2>2, <2>5 DEF Removed, ConnRec
    <3> QED BY <2>2, <3>1, <3>2 DEF Quiet
  <2>6. CASE Closed
    <3>1. UNCHANGED <<conn, turn, buffer>> /\ page' = [page EXCEPT !.conn = 0, !.known = FALSE]
      BY <2>6 DEF Closed
    <3>2. /\ page'.sending = page.sending /\ page'.retries = page.retries
          /\ page'.pending = page.pending /\ page'.message = page.message
          /\ page'.loading = page.loading /\ page'.timer = page.timer
          /\ page'.ghosts = page.ghosts /\ page'.tracked = page.tracked
      BY <1>1, <3>1 DEF PageRec
    <3> QED BY <2>2, <3>1, <3>2 DEF Quiet
  <2>7. CASE Connect
    <3> DEFINE c == page.last + 1
               resume == IF page.tracked THEN <<[kind |-> "resume"]>> ELSE <<>>
               ghosts == IF page.timer /\ page.tracked THEN page.ghosts + 1 ELSE page.ghosts
    <3>1. /\ UNCHANGED <<turn, buffer>>
          /\ page' = [page EXCEPT !.conn = c, !.last = c, !.pending = <<>>,
                                  !.timer = @ \/ page.tracked, !.ghosts = ghosts]
          /\ conn' = [conn EXCEPT ![c].state = "open", ![c].alive = TRUE,
                                  ![c].inbox = page.pending \o resume]
      BY <2>7 DEF Connect
    <3>2. page.pending \o resume = <<>> /\ ghosts = 0
      BY <2>2
    <3> HIDE DEF c, ghosts, resume
    <3>3. /\ page'.sending = page.sending /\ page'.retries = page.retries
          /\ page'.pending = <<>> /\ page'.message = page.message
          /\ page'.loading = page.loading
          /\ page'.ghosts = ghosts /\ page'.tracked = page.tracked
      BY <1>1, <3>1 DEF PageRec
    <3>4. ~page'.timer
      BY <1>1, <2>2, <3>1 DEF PageRec
    <3>5. \A d \in Conn : conn'[d].inbox = <<>> /\ conn'[d].out = <<>> /\ conn'[d].resume = None
      BY <1>1, <2>2, <3>1, <3>2 DEF ConnRec
    <3> QED BY <2>2, <3>1, <3>2, <3>3, <3>4, <3>5 DEF Quiet
  <2> QED BY <1>3, <2>1, <2>3, <2>4, <2>5, <2>6, <2>7, QuietSteps
<1> QED BY <1>2, <1>3

\* The types hold in every state, with a page at rest until it is asked something.
LEMMA TypedHolds == Spec => []Typed
<1>1. Typed /\ [Next]_vars => Typed'
  BY NextTyped, NextQuiet DEF Typed
<1> QED BY <1>1, InitTyped, PTL DEF Spec

\* The page, its connections, the turns and the buffer keep their types: a retry asks a
\* question the user has asked, within its budget, and an answer carries what it should.
THEOREM ChatTypeCorrect == Spec => []TypeOK
<1>1. Typed => TypeOK
  BY DEF Typed
<1> QED BY <1>1, TypedHolds, PTL

------------------------------------------------------------------------------
(* Where each image is.                                                    *)

Contains(q, n) == \E i \in 1 .. Len(q) : q[i] = n
Once(q) == \A i, j \in 1 .. Len(q) : i # j => q[i] # q[j]

\* The same of the images among the messages of a connection.
Carries(q, n) == \E i \in 1 .. Len(q) : q[i].kind = "image" /\ q[i].image = n
CarriesOnce(q) ==
  \A i, j \in 1 .. Len(q) : i # j /\ q[i].kind = "image" /\ q[j].kind = "image"
                              => q[i].image # q[j].image
Plain(q) == \A i \in 1 .. Len(q) : q[i].kind # "image"

ResumeHas(c, n) == conn[c].resume # None /\ Contains(conn[c].resume.images, n)
BufferHas(n)    == buffer # None /\ Contains(buffer.images, n)

\* Only the connection of the page works: on the others nothing is on its way.
Channel ==
  \A c \in Conn : /\ conn[c].inbox # <<>> \/ conn[c].out # <<>> => conn[c].alive
                  /\ conn[c].alive => c = page.conn

\* One resume is replayed at a time.
OneResume ==
  \A c, d \in Conn : conn[c].resume # None /\ conn[d].resume # None => c = d

\* No place has an image twice.
OnceEach ==
  /\ Once(page.images)
  /\ \A c \in Conn : /\ CarriesOnce(conn[c].out)
                     /\ conn[c].resume # None => Once(conn[c].resume.images)
  /\ buffer # None => Once(buffer.images)

\* Every image was made by a tool.
Made ==
  \A n \in Image : n > spent.images =>
    /\ ~Contains(page.images, n) /\ ~BufferHas(n)
    /\ \A c \in Conn : ~Carries(conn[c].out, n) /\ ~ResumeHas(c, n)

\* An image is in one place; but a resume that is not replayed yet is a copy of the buffer.
Apart ==
  \A n \in Image : \A c \in Conn :
    /\ Contains(page.images, n) => ~Carries(conn[c].out, n) /\ ~ResumeHas(c, n) /\ ~BufferHas(n)
    /\ Carries(conn[c].out, n) => ~BufferHas(n) /\ \A d \in Conn : ~ResumeHas(d, n)

ImageInv == Channel /\ OneResume /\ OnceEach /\ Made /\ Apart

\* A sequence with one more element has that too.
LEMMA ContainsAppend ==
  ASSUME NEW S, NEW q \in Seq(S), NEW x \in S
  PROVE  /\ \A n : Contains(Append(q, x), n) <=> Contains(q, n) \/ n = x
         /\ Once(q) /\ ~Contains(q, x) => Once(Append(q, x))
<1> DEFINE r == Append(q, x)
<1>1. /\ Len(q) \in Nat /\ Len(r) = Len(q) + 1 /\ r[Len(q) + 1] = x
      /\ \A i \in 1 .. Len(q) : r[i] = q[i]
  BY AppendProperties
<1> HIDE DEF r
<1>2. \A i \in 1 .. Len(r) : i \in 1 .. Len(q) \/ i = Len(q) + 1
  BY <1>1
<1>3. \A i \in 1 .. Len(q) : i \in 1 .. Len(r)
  BY <1>1
<1>4. Len(q) + 1 \in 1 .. Len(r)
  BY <1>1
<1>5. ASSUME NEW n PROVE Contains(r, n) <=> Contains(q, n) \/ n = x
  BY <1>1, <1>2, <1>3, <1>4 DEF Contains
<1>6. Once(q) /\ ~Contains(q, x) => Once(r)
  BY <1>1, <1>2 DEF Contains, Once
<1> QED BY <1>5, <1>6 DEF r

\* A connection with more messages carries the images of these too.
LEMMA CarriesConcat ==
  ASSUME NEW q \in Seq(Answer), NEW m \in Seq(Answer)
  PROVE  /\ \A n : Carries(q \o m, n) <=> Carries(q, n) \/ Carries(m, n)
         /\ CarriesOnce(q) /\ CarriesOnce(m) /\ (\A n \in Image : ~(Carries(q, n) /\ Carries(m, n)))
              => CarriesOnce(q \o m)
<1> DEFINE r == q \o m
<1>1. /\ Len(q) \in Nat /\ Len(m) \in Nat /\ Len(r) = Len(q) + Len(m)
      /\ \A i \in 1 .. Len(r) : r[i] = IF i <= Len(q) THEN q[i] ELSE m[i - Len(q)]
      /\ \A i \in 1 .. Len(q) : q[i] \in Answer
      /\ \A i \in 1 .. Len(m) : m[i] \in Answer
  BY ConcatProperties
<1> HIDE DEF r
<1>2. ASSUME NEW i \in 1 .. Len(r)
      PROVE  \/ i \in 1 .. Len(q) /\ r[i] = q[i]
             \/ i - Len(q) \in 1 .. Len(m) /\ r[i] = m[i - Len(q)]
  BY <1>1
<1>3. \A i \in 1 .. Len(q) : i \in 1 .. Len(r) /\ r[i] = q[i]
  BY <1>1
<1>4. ASSUME NEW i \in 1 .. Len(m) PROVE i + Len(q) \in 1 .. Len(r) /\ r[i + Len(q)] = m[i]
  <2>1. i + Len(q) \in 1 .. Len(r) /\ ~(i + Len(q) <= Len(q)) /\ (i + Len(q)) - Len(q) = i
    BY <1>1
  <2> QED BY <1>1, <2>1
<1>5. ASSUME NEW n PROVE Carries(r, n) <=> Carries(q, n) \/ Carries(m, n)
  <2>1. Carries(r, n) => Carries(q, n) \/ Carries(m, n)
    BY <1>2 DEF Carries
  <2>2. Carries(q, n) => Carries(r, n)
    BY <1>3 DEF Carries
  <2>3. Carries(m, n) => Carries(r, n)
    BY <1>4 DEF Carries
  <2> QED BY <2>1, <2>2, <2>3
<1>6. ASSUME CarriesOnce(q), CarriesOnce(m), \A n \in Image : ~(Carries(q, n) /\ Carries(m, n)),
             NEW i \in 1 .. Len(r), NEW j \in 1 .. Len(r), i # j,
             r[i].kind = "image", r[j].kind = "image"
      PROVE  r[i].image # r[j].image
  <2>1. CASE i \in 1 .. Len(q) /\ r[i] = q[i] /\ j \in 1 .. Len(q) /\ r[j] = q[j]
    BY <1>6, <2>1 DEF CarriesOnce
  <2>2. CASE /\ i - Len(q) \in 1 .. Len(m) /\ r[i] = m[i - Len(q)]
             /\ j - Len(q) \in 1 .. Len(m) /\ r[j] = m[j - Len(q)]
    <3>1. i - Len(q) # j - Len(q)
      BY <1>1, <1>6
    <3> QED BY <1>6, <2>2, <3>1 DEF CarriesOnce
  <2>3. CASE i \in 1 .. Len(q) /\ r[i] = q[i] /\ j - Len(q) \in 1 .. Len(m) /\ r[j] = m[j - Len(q)]
    <3>1. Carries(q, r[i].image) /\ Carries(m, r[j].image)
      BY <1>6, <2>3 DEF Carries
    <3>2. r[i].image \in Image
      BY <1>1, <1>6, <2>3, AnswerParts
    <3> QED BY <1>6, <3>1, <3>2
  <2>4. CASE j \in 1 .. Len(q) /\ r[j] = q[j] /\ i - Len(q) \in 1 .. Len(m) /\ r[i] = m[i - Len(q)]
    <3>1. Carries(q, r[j].image) /\ Carries(m, r[i].image)
      BY <1>6, <2>4 DEF Carries
    <3>2. r[j].image \in Image
      BY <1>1, <1>6, <2>4, AnswerParts
    <3> QED BY <1>6, <3>1, <3>2
  <2> QED BY <1>2, <2>1, <2>2, <2>3, <2>4
<1>7. CarriesOnce(q) /\ CarriesOnce(m) /\ (\A n \in Image : ~(Carries(q, n) /\ Carries(m, n)))
        => CarriesOnce(r)
  BY <1>6 DEF CarriesOnce
<1> QED BY <1>5, <1>7 DEF r

\* A message that is taken takes its image with it, and leaves the others.
LEMMA CarriesTail ==
  ASSUME NEW q \in Seq(Answer), q # <<>>
  PROVE  /\ \A n : Carries(Tail(q), n) => Carries(q, n)
         /\ CarriesOnce(q) => CarriesOnce(Tail(q))
         /\ Head(q).kind = "image" =>
              /\ Carries(q, Head(q).image)
              /\ CarriesOnce(q) => ~Carries(Tail(q), Head(q).image)
<1> DEFINE r == Tail(q)
<1>1. /\ Len(q) \in Nat \ {0} /\ Len(r) = Len(q) - 1 /\ Head(q) = q[1]
      /\ \A i \in 1 .. Len(r) : r[i] = q[i + 1]
  BY HeadTailProperties, EmptySeq
<1> HIDE DEF r
<1>2. \A i \in 1 .. Len(r) : i + 1 \in 1 .. Len(q) /\ i + 1 # 1 /\ r[i] = q[i + 1]
  BY <1>1
<1>3. 1 \in 1 .. Len(q)
  BY <1>1
<1>4. \A n : Carries(r, n) => Carries(q, n)
  BY <1>2 DEF Carries
<1>5. ASSUME CarriesOnce(q), NEW i \in 1 .. Len(r), NEW j \in 1 .. Len(r), i # j,
             r[i].kind = "image", r[j].kind = "image"
      PROVE  r[i].image # r[j].image
  <2>1. i + 1 # j + 1
    BY <1>5
  <2> QED BY <1>2, <1>5, <2>1 DEF CarriesOnce
<1>6. CarriesOnce(q) => CarriesOnce(r)
  BY <1>5 DEF CarriesOnce
<1>7. Head(q).kind = "image" => Carries(q, Head(q).image)
  BY <1>1, <1>3 DEF Carries
<1>8. ASSUME Head(q).kind = "image", CarriesOnce(q) PROVE ~Carries(r, Head(q).image)
  BY <1>1, <1>2, <1>3, <1>8 DEF Carries, CarriesOnce
<1> QED BY <1>4, <1>6, <1>7, <1>8 DEF r

\* Messages without an image carry none.
LEMMA PlainCarries ==
  ASSUME NEW q, Plain(q)
  PROVE  CarriesOnce(q) /\ \A n : ~Carries(q, n)
  BY DEF Plain, Carries, CarriesOnce

\* What a resume brings carries the images of the buffer.
LEMMA ReplayCarries ==
  ASSUME NEW data \in Kept, NEW msgs \in Seq(Answer),
         Len(msgs) >= Len(data.images),
         \A i \in 1 .. Len(data.images) :
           msgs[i] = [kind |-> "image", image |-> data.images[i]],
         \A i \in 1 .. Len(msgs) : msgs[i].kind = "image" => i <= Len(data.images)
  PROVE  /\ \A n : Carries(msgs, n) <=> Contains(data.images, n)
         /\ Once(data.images) => CarriesOnce(msgs)
<1> DEFINE q == data.images
<1>1. Len(q) \in Nat /\ Len(msgs) \in Nat
  BY DEF Kept
<1>2. /\ \A i \in 1 .. Len(q) : i \in 1 .. Len(msgs)
      /\ \A i \in 1 .. Len(q) : msgs[i].kind = "image" /\ msgs[i].image = q[i]
  <2>1. ASSUME NEW i \in 1 .. Len(q) PROVE msgs[i].kind = "image" /\ msgs[i].image = q[i]
    <3>1. msgs[i] = [kind |-> "image", image |-> q[i]]
      OBVIOUS
    <3> QED BY <3>1
  <2>2. \A i \in 1 .. Len(q) : i \in 1 .. Len(msgs)
    BY <1>1
  <2> QED BY <2>1, <2>2
<1>3. \A i \in 1 .. Len(msgs) : msgs[i].kind = "image" => i \in 1 .. Len(q)
  BY <1>1
<1> HIDE DEF q
<1>4. \A n : Carries(msgs, n) <=> Contains(q, n)
  BY <1>2, <1>3 DEF Carries, Contains
<1>5. Once(q) => CarriesOnce(msgs)
  BY <1>2, <1>3 DEF Once, CarriesOnce
<1> QED BY <1>4, <1>5 DEF q

\* What a step may do to the connections: write to one that is not broken, or break all.
Writes(msgs) ==
  \A c \in Conn : /\ conn'[c].alive = conn[c].alive /\ conn'[c].inbox = conn[c].inbox
                  /\ conn'[c].resume = conn[c].resume
                  /\ \/ conn'[c].out = conn[c].out
                     \/ conn[c].alive /\ conn'[c].out = conn[c].out \o msgs
Wiped ==
  \A c \in Conn : /\ ~conn'[c].alive /\ conn'[c].inbox = <<>> /\ conn'[c].out = <<>>
                  /\ conn'[c].resume = None

\* The buffer gets no image.
NoneBuffered ==
  \/ buffer' = None
  \/ buffer'.images = <<>>
  \/ buffer # None /\ buffer'.images = buffer.images

\* What Told and a restart of the server do to each connection.
LEMMA ToldDoes ==
  ASSUME TypeOK, NEW c \in Conn, NEW msgs
  PROVE  /\ conn' = Told(c, msgs) => Writes(msgs)
         /\ Crash => Wiped /\ buffer' = None
         /\ conn' = conn => Writes(msgs)
<1>1. \A d \in Conn : conn[d] \in ConnRec
  BY TypeParts
<1>2. conn \in [Conn -> ConnRec]
  BY TypeParts
<1>3. ASSUME conn' = Told(c, msgs) PROVE Writes(msgs)
  BY <1>1, <1>2, <1>3 DEF Told, Writes, ConnRec
<1>4. Crash => Wiped /\ buffer' = None
  BY DEF Crash, Wiped, NoConn
<1>5. conn' = conn => Writes(msgs)
  BY DEF Writes
<1> QED BY <1>3, <1>4, <1>5

\* What sending does.
LEMMA SendsDoes ==
  ASSUME TypeOK, NEW t \in Turn, NEW msgs, NEW pc, NEW b, Sends(t, msgs, pc, b)
  PROVE  \/ Wiped /\ buffer' = None
         \/ Writes(msgs) /\ (buffer' = b \/ buffer' = buffer)
<1>1. turn[t].conn \in Conn
  BY TypeParts DEF TurnRec
<1>2. CASE conn[turn[t].conn].state = "open"
  BY <1>1, <1>2, ToldDoes DEF Sends
<1>3. CASE conn[turn[t].conn].state # "open" /\ turn[t].rounds > 0
  BY <1>1, <1>3, ToldDoes DEF Sends
<1>4. CASE conn[turn[t].conn].state # "open" /\ ~(turn[t].rounds > 0)
  BY <1>1, <1>4, ToldDoes DEF Sends
<1> QED BY <1>2, <1>3, <1>4

\* A turn writes messages without an image, or makes one and either sends or buffers it.
LEMMA TurnStepDoes ==
  ASSUME TypeOK, NEW t \in Turn, TurnStep(t)
  PROVE  /\ page' = page
         /\ \/ /\ spent'.images = spent.images
               /\ NoneBuffered
               /\ Wiped \/ \E msgs \in Seq(Answer) : Plain(msgs) /\ Writes(msgs)
            \/ /\ spent'.images = spent.images + 1 /\ spent.images < MaxImages
               /\ buffer' = buffer
               /\ Writes(<<[kind |-> "image", image |-> spent.images + 1]>>)
            \/ /\ spent'.images = spent.images + 1 /\ spent.images < MaxImages
               /\ conn' = conn
               /\ \/ buffer' = buffer
                  \/ buffer # None /\ buffer'.images = Append(buffer.images, spent.images + 1)
<1>1. /\ conn \in [Conn -> ConnRec] /\ turn[t].conn \in Conn
      /\ buffer \in Kept \cup {None}
      /\ spent \in [mishaps : 0 .. MaxMishaps, images : 0 .. MaxImages]
      /\ turn[t].question \in Question /\ turn[t].said \in 0 .. MaxChunks
  BY TypeParts DEF TurnRec
<1>2. buffer # None => [buffer EXCEPT !.complete = TRUE].images = buffer.images
  BY <1>1 DEF Kept
<1>3. [spent EXCEPT !.mishaps = @ + 1].images = spent.images
  BY <1>1
<1>4. \A k \in {"missed", "error", "end", "chunk"} : k # "image"
  OBVIOUS
<1>5. <<>> \in Seq(Answer) /\ Plain(<<>>)
  BY DEF Plain
<1>6. conn' = conn => Writes(<<>>)
  BY <1>1, ToldDoes
<1>7. CASE RequestFails(t)
  <2>1. page' = page /\ spent'.images = spent.images
    BY <1>3, <1>7 DEF RequestFails
  <2>2. CASE UNCHANGED <<conn, buffer>>
    BY <1>5, <1>6, <2>1, <2>2 DEF NoneBuffered
  <2>3. CASE Sends(t, <<[kind |-> "error"]>>, "request", buffer)
    <3>1. [kind |-> "error"] \in Answer
      BY AnswersTyped
    <3>2. <<[kind |-> "error"]>> \in Seq(Answer) /\ Plain(<<[kind |-> "error"]>>)
      BY <3>1 DEF Plain
    <3> QED BY <2>1, <2>3, <3>2, SendsDoes DEF NoneBuffered
  <2> QED BY <1>7, <2>2, <2>3 DEF RequestFails
<1>8. CASE StreamBegins(t)
  BY <1>5, <1>6, <1>8 DEF StreamBegins, NoneBuffered, NoBuffer
<1>9. CASE Line(t)
  <2> DEFINE chunk == <<turn[t].question, turn[t].said + 1>>
  <2>1. page' = page /\ spent' = spent
    BY <1>9 DEF Line
  <2>2. ASSUME buffer' = None, conn' = [conn EXCEPT ![turn[t].conn].stop = FALSE]
        PROVE  NoneBuffered /\ Writes(<<>>)
    BY <1>1, <2>2 DEF NoneBuffered, Writes, ConnRec
  <2>3. ASSUME turn[t].said < MaxChunks,
               buffer' = IF buffer = None \/ Len(buffer.chunks) >= MaxKept THEN buffer
                         ELSE [buffer EXCEPT !.chunks = Append(@, chunk)],
               conn' = Told(turn[t].conn, <<[kind |-> "chunk", chunk |-> chunk]>>)
        PROVE  NoneBuffered /\ \E msgs \in Seq(Answer) : Plain(msgs) /\ Writes(msgs)
    <3>1. turn[t].said + 1 \in 0 .. MaxChunks
      <4>1. turn[t].said < MaxChunks
        BY <2>3
      <4> HIDE DEF chunk
      <4> QED BY <1>1, <4>1, Bounds
    <3>2. chunk \in Chunk
      BY <1>1, <3>1 DEF Chunk
    <3>3. NoneBuffered
      BY <1>1, <2>3 DEF NoneBuffered, Kept
    <3> HIDE DEF chunk
    <3>4. [kind |-> "chunk", chunk |-> chunk] \in Answer
      BY <3>2, AnswersTyped
    <3>5. /\ <<[kind |-> "chunk", chunk |-> chunk]>> \in Seq(Answer)
          /\ Plain(<<[kind |-> "chunk", chunk |-> chunk]>>)
      BY <3>4 DEF Plain
    <3> QED BY <1>1, <2>3, <3>3, <3>5, ToldDoes
  <2> QED BY <1>5, <1>9, <2>1, <2>2, <2>3 DEF Line
<1>10. CASE StreamEnds(t)
  <2>1. page' = page /\ conn' = conn
    BY <1>10 DEF StreamEnds
  <2>2. buffer' = buffer \/ buffer' = MarkedComplete
    BY <1>10 DEF StreamEnds
  <2>3. NoneBuffered
    <3>1. CASE buffer' = buffer
      BY <3>1 DEF NoneBuffered
    <3>2. CASE buffer' = MarkedComplete
      BY <1>2, <3>2 DEF NoneBuffered, MarkedComplete
    <3> QED BY <2>2, <3>1, <3>2
  <2>4. \/ spent' = spent
        \/ spent' = [spent EXCEPT !.mishaps = spent.mishaps]
        \/ spent' = [spent EXCEPT !.mishaps = @ + 1]
    BY <1>10 DEF StreamEnds
  <2>5. spent'.images = spent.images
    BY <1>1, <2>4
  <2> QED BY <1>5, <1>6, <2>1, <2>3, <2>5
<1>11. CASE ToolResult(t)
  <2> DEFINE i == spent.images + 1
  <2>1. page' = page
    BY <1>11 DEF ToolResult
  <2>2. CASE UNCHANGED <<conn, buffer, spent>>
    BY <1>5, <1>6, <2>1, <2>2 DEF NoneBuffered
  <2>3. ASSUME spent.images < MaxImages, spent' = [spent EXCEPT !.images = i],
               IF conn[turn[t].conn].state = "open"
               THEN /\ conn' = Told(turn[t].conn, <<[kind |-> "image", image |-> i]>>)
                    /\ UNCHANGED buffer
               ELSE /\ buffer' = IF buffer = None \/ Len(buffer.images) >= MaxKept THEN buffer
                                 ELSE [buffer EXCEPT !.images = Append(@, i)]
                    /\ UNCHANGED conn
        PROVE  /\ spent'.images = i
               /\ \/ buffer' = buffer /\ Writes(<<[kind |-> "image", image |-> i]>>)
                  \/ /\ conn' = conn
                     /\ \/ buffer' = buffer
                        \/ buffer # None /\ buffer'.images = Append(buffer.images, i)
    <3>1. spent'.images = i
      BY <1>1, <2>3
    <3> HIDE DEF i
    <3>2. CASE conn[turn[t].conn].state = "open"
      BY <1>1, <2>3, <3>1, <3>2, ToldDoes
    <3>3. CASE conn[turn[t].conn].state # "open"
      <4>1. buffer # None =>
              [buffer EXCEPT !.images = Append(@, i)].images = Append(buffer.images, i)
        BY <1>1 DEF Kept
      <4> QED BY <2>3, <3>1, <3>3, <4>1
    <3> QED BY <3>2, <3>3
  <2> QED BY <1>11, <2>1, <2>2, <2>3 DEF ToolResult
<1>12. CASE RoundOver(t)
  BY <1>5, <1>6, <1>12 DEF RoundOver, NoneBuffered
<1>13. CASE Fallback(t)
  <2> DEFINE msg == [kind |-> "chunk", chunk |-> <<turn[t].question, 0>>]
  <2>1. <<turn[t].question, 0>> \in Chunk
    BY <1>1, Bounds DEF Chunk
  <2>2. msg \in Answer /\ msg.kind = "chunk"
    BY <2>1, AnswersTyped
  <2>3. Sends(t, <<msg>>, "end", MarkedComplete) /\ page' = page /\ spent' = spent
    BY <1>13 DEF Fallback
  <2> HIDE DEF msg
  <2>4. <<msg>> \in Seq(Answer) /\ Plain(<<msg>>)
    BY <2>2 DEF Plain
  <2>5. (buffer' = MarkedComplete \/ buffer' = buffer \/ buffer' = None) => NoneBuffered
    BY <1>2 DEF NoneBuffered, MarkedComplete
  <2> QED BY <2>3, <2>4, <2>5, SendsDoes
<1>14. CASE TurnEnds(t)
  <2> DEFINE told == Closing(turn[t].pc)
             msgs == [i \in 1 .. Len(told) |-> [kind |-> told[i]]]
             pc == IF turn[t].pc # "cut" THEN "none"
                   ELSE IF turn[t].rounds = 0 THEN "error" ELSE "fallback"
  <2>1. told \in Seq({"missed", "error", "end"})
    BY <1>14 DEF TurnEnds, Closing
  <2>2. Sends(t, msgs, pc, buffer) /\ page' = page /\ spent' = spent
    BY <1>14 DEF TurnEnds
  <2> HIDE DEF told, pc
  <2>3. Len(told) \in Nat /\ \A i \in 1 .. Len(told) : told[i] \in {"missed", "error", "end"}
    BY <2>1
  <2>4. \A i \in 1 .. Len(told) : [kind |-> told[i]] \in Answer
    BY <2>3, AnswersTyped
  <2>5. msgs \in Seq(Answer) /\ DOMAIN msgs = 1 .. Len(told)
    BY <2>3, <2>4
  <2>6. \A i \in 1 .. Len(told) : msgs[i].kind # "image"
    BY <2>3
  <2> HIDE DEF msgs
  <2>7. Plain(msgs)
    BY <2>5, <2>6, LenProperties DEF Plain
  <2> QED BY <2>2, <2>5, <2>7, SendsDoes DEF NoneBuffered
<1> QED
  BY <1>7, <1>8, <1>9, <1>10, <1>11, <1>12, <1>13, <1>14 DEF TurnStep

\* What the page has of images and which connection it uses, when an answer fails or is closed.
LEMMA FailedKeeps ==
  ASSUME NEW p \in PageRec
  PROVE  /\ Failed(p).images = p.images /\ Failed(p).conn = p.conn
         /\ Untracked(p).images = p.images /\ Untracked(p).conn = p.conn
  BY DEF Failed, Untracked, PageRec

\* Only an image adds to the images of the page.
LEMMA HeardKeeps ==
  ASSUME Typed, page.asked # 0, NEW msg \in Answer
  PROVE  /\ Heard(msg).conn = page.conn
         /\ msg.kind = "image" => Heard(msg).images = Append(page.images, msg.image)
         /\ msg.kind # "image" => Heard(msg).images = page.images
<1>1. page \in PageRec
  BY TypeParts DEF Typed
<1>2. Untracked(page) \in PageRec
  BY <1>1, FailedTyped
<1>3. CASE msg.kind = "chunk" \/ msg.kind = "image" \/ msg.kind = "error"
  <2>1. \/ /\ msg.kind = "chunk"
           /\ Heard(msg) = [page EXCEPT !.message = IF @ = None THEN None ELSE Append(@, msg.chunk)]
        \/ msg.kind = "image" /\ Heard(msg) = [page EXCEPT !.images = Append(@, msg.image)]
        \/ msg.kind = "error" /\ Heard(msg) = Failed(page)
    BY <1>3 DEF Heard
  <2> QED BY <1>1, <2>1, FailedKeeps DEF PageRec
<1>4. CASE msg.kind = "resume"
  <2> DEFINE p == IF msg.complete THEN Untracked(page) ELSE [page EXCEPT !.timer = FALSE]
  <2>1. p \in PageRec /\ p.images = page.images /\ p.conn = page.conn
    <3>1. /\ [page EXCEPT !.timer = FALSE] \in PageRec
          /\ [page EXCEPT !.timer = FALSE].images = page.images
          /\ [page EXCEPT !.timer = FALSE].conn = page.conn
      BY <1>1 DEF PageRec
    <3> QED BY <1>1, <1>2, <3>1, FailedKeeps
  <2>2. \/ Heard(msg) = p
        \/ Heard(msg) = [p EXCEPT !.message = None, !.loading = FALSE]
        \/ Heard(msg) = [p EXCEPT !.message = @ \o msg.chunks]
    BY <1>4 DEF Heard
  <2> HIDE DEF p
  <2> QED BY <1>4, <2>1, <2>2 DEF PageRec
<1>5. CASE msg.kind = "missed"
  <2>1. Heard(msg) = Failed(Untracked(page))
    BY <1>5 DEF Heard
  <2> QED BY <1>1, <1>2, <1>5, <2>1, FailedKeeps
<1>6. CASE msg.kind = "end"
  <2>1. Heard(msg) = [Untracked(page) EXCEPT !.tries = 0, !.stopped = FALSE, !.loading = FALSE,
                                             !.message = None]
    BY <1>6 DEF Heard
  <2>2. /\ Heard(msg).images = Untracked(page).images
        /\ Heard(msg).conn = Untracked(page).conn
    BY <1>2, <2>1 DEF PageRec
  <2> QED BY <1>1, <1>6, <2>2, FailedKeeps
<1> QED BY <1>3, <1>4, <1>5, <1>6, AnswerParts

\* A question is sent over the connection of the page, if that is not broken.
LEMMA SentKeeps ==
  ASSUME TypeOK, NEW p \in PageRec, NEW q, p.conn = page.conn, p.images = page.images, Sent(p, q)
  PROVE  /\ page'.images = page.images /\ page'.conn = page.conn
         /\ \A c \in Conn : /\ conn'[c].alive = conn[c].alive /\ conn'[c].out = conn[c].out
                            /\ conn'[c].resume = conn[c].resume
                            /\ conn'[c].inbox = conn[c].inbox \/ conn[c].alive
<1> DEFINE msg == [kind |-> "chat", question |-> q]
           s == [p EXCEPT !.message = <<>>, !.tracked = TRUE, !.known = TRUE]
<1>1. s.conn = p.conn /\ s.images = p.images
  BY DEF PageRec
<1>2. [s EXCEPT !.pending = Append(@, msg)].conn = p.conn
  BY DEF PageRec
<1>3. [s EXCEPT !.pending = Append(@, msg)].images = p.images
  BY DEF PageRec
<1>4. \/ page.conn # 0 /\ page' = s /\ conn' = Asked(page.conn, <<msg>>)
      \/ page' = [s EXCEPT !.pending = Append(@, msg)] /\ conn' = conn
  BY DEF Sent
<1> HIDE DEF s, msg
<1>5. conn \in [Conn -> ConnRec] /\ \A c \in Conn : conn[c] \in ConnRec
  BY TypeParts
<1>6. CASE page.conn # 0 /\ page' = s /\ conn' = Asked(page.conn, <<msg>>)
  BY <1>1, <1>5, <1>6 DEF Asked, ConnRec
<1>7. CASE page' = [s EXCEPT !.pending = Append(@, msg)] /\ conn' = conn
  BY <1>2, <1>3, <1>7
<1> QED BY <1>4, <1>6, <1>7

\* The page moves no image, except that it hears one; it makes and breaks off its connection.
LEMMA PageStepDoes ==
  ASSUME Typed, PageStep \/ Ask \/ Stop
  PROVE  \/ Hear
         \/ /\ page'.images = page.images /\ UNCHANGED <<buffer, spent.images>>
            /\ \A c \in Conn : conn'[c].out = conn[c].out /\ conn'[c].resume = conn[c].resume
            /\ \/ /\ page'.conn = page.conn
                  /\ \A c \in Conn : /\ conn'[c].alive = conn[c].alive
                                     /\ conn'[c].inbox = conn[c].inbox \/ conn[c].alive
               \/ page'.conn = 0 /\ conn' = conn /\ page.conn # 0 /\ ~conn[page.conn].alive
               \/ /\ page.conn = 0 /\ page'.conn \in Conn /\ conn'[page'.conn].alive
                  /\ \A c \in Conn : c # page'.conn => conn'[c] = conn[c]
<1>1. /\ page \in PageRec /\ conn \in [Conn -> ConnRec] /\ TypeOK
      /\ spent \in [mishaps : 0 .. MaxMishaps, images : 0 .. MaxImages]
      /\ \A c \in Conn : conn[c] \in ConnRec
  BY TypeParts DEF Typed
<1>2. /\ page.conn \in Conn \cup {0} /\ page.last \in Conn
  BY <1>1 DEF PageRec
<1>3. CASE Ask
  <2>1. page'.images = page.images /\ page'.conn = page.conn
    BY <1>1, <1>3 DEF Ask, PageRec
  <2> QED BY <1>3, <2>1 DEF Ask
<1>4. CASE Stop
  <2>1. page'.images = page.images /\ page'.conn = page.conn /\ spent'.images = spent.images
    BY <1>1, <1>4 DEF Stop, PageRec
  <2>2. \A c \in Conn : /\ conn'[c].alive = conn[c].alive /\ conn'[c].out = conn[c].out
                        /\ conn'[c].resume = conn[c].resume
                        /\ conn'[c].inbox = conn[c].inbox \/ conn[c].alive
    <3>1. conn' = conn \/ conn' = Asked(page.conn, <<[kind |-> "stop"]>>)
      BY <1>4 DEF Stop
    <3> QED BY <1>1, <3>1 DEF Asked, ConnRec
  <2> QED BY <1>4, <2>1, <2>2 DEF Stop
<1>5. CASE SendOff
  <2> DEFINE p == [page EXCEPT !.sending = 0]
  <2>1. p \in PageRec /\ p.conn = page.conn /\ p.images = page.images
    <3>1. 0 \in 0 .. MaxAsked
      BY Bounds
    <3> QED BY <1>1, <3>1 DEF PageRec
  <2>2. Sent(p, page.sending) /\ UNCHANGED <<buffer, spent>>
    BY <1>5 DEF SendOff
  <2> HIDE DEF p
  <2> QED BY <1>1, <2>1, <2>2, SentKeeps
<1>6. CASE Closed
  <2>1. page'.images = page.images /\ page'.conn = 0
    BY <1>1, <1>6 DEF Closed, PageRec
  <2> QED BY <1>6, <2>1 DEF Closed
<1>7. CASE Connect
  <2> DEFINE c == page.last + 1
             resume == IF page.tracked THEN <<[kind |-> "resume"]>> ELSE <<>>
             ghosts == IF page.timer /\ page.tracked THEN page.ghosts + 1 ELSE page.ghosts
             timer == page.timer \/ page.tracked
             inbox == page.pending \o resume
  <2>1. c \in Conn
    <3>1. page.last < 2 * MaxMishaps + 1
      BY <1>7 DEF Connect
    <3>2. page.last \in Nat /\ MaxMishaps \in Nat
      BY <1>2, Bounds
    <3> DEFINE n == 2 * MaxMishaps + 1
    <3>3. n \in Nat
      BY <3>2
    <3>4. Conn = 1 .. n /\ page.last < n
      BY <3>1 DEF Conn
    <3> HIDE DEF n
    <3> QED BY <3>2, <3>3, <3>4
  <2>2. /\ page' = [page EXCEPT !.conn = c, !.last = c, !.pending = <<>>, !.timer = timer,
                                !.ghosts = ghosts]
        /\ conn' = [conn EXCEPT ![c].state = "open", ![c].alive = TRUE, ![c].inbox = inbox]
        /\ page.conn = 0 /\ UNCHANGED <<buffer, spent>>
    BY <1>1, <1>7 DEF Connect
  <2> HIDE DEF c, resume, ghosts, timer, inbox
  <2>3. page'.images = page.images /\ page'.conn = c
    BY <1>1, <2>2 DEF PageRec
  <2>4. /\ conn'[c].alive /\ conn'[c].out = conn[c].out /\ conn'[c].resume = conn[c].resume
        /\ \A d \in Conn : d # c => conn'[d] = conn[d]
    BY <1>1, <2>1, <2>2 DEF ConnRec
  <2> QED BY <2>1, <2>2, <2>3, <2>4
<1>8. CASE Retry
  <2> DEFINE loading == IF page.stopped THEN page.loading ELSE page.conn # 0
             p == [page EXCEPT !.retries = Tail(@), !.loading = loading]
  <2>1. loading \in BOOLEAN
    BY <1>1 DEF PageRec
  <2> HIDE DEF loading
  <2>2. Tail(page.retries) \in Seq(Question)
    <3>1. page.retries \in Seq(Question) /\ page.retries # <<>>
      BY <1>1, <1>8 DEF PageRec, Retry
    <3> QED BY <3>1
  <2>3. /\ (page' = p /\ conn' = conn) \/ Sent(p, Head(page.retries))
        /\ UNCHANGED <<buffer, spent>>
    BY <1>8 DEF Retry, loading
  <2>4. p \in PageRec /\ p.conn = page.conn /\ p.images = page.images
    BY <1>1, <2>1, <2>2 DEF PageRec
  <2> HIDE DEF p
  <2> QED BY <1>1, <2>3, <2>4, SentKeeps
<1>9. CASE ResumeTimesOut
  <2> DEFINE p == [page EXCEPT !.ghosts = @ - 1]
  <2>1. page.asked # 0
    BY <1>1, <1>9 DEF ResumeTimesOut, Quiet, Typed, PageRec
  <2>2. page.ghosts > 0 => p \in PageRec /\ p.conn = page.conn /\ p.images = page.images
                             /\ p.asked = page.asked
    <3>1. page.ghosts > 0 => page.ghosts - 1 \in Nat
      BY <1>1 DEF PageRec
    <3> QED BY <1>1, <3>1 DEF PageRec
  <2>3. /\ \/ page' = Failed(Untracked(page))
           \/ page.ghosts > 0 /\ page' = Failed(Untracked(p))
        /\ UNCHANGED <<conn, buffer, spent>>
    BY <1>9 DEF ResumeTimesOut
  <2> HIDE DEF p
  <2>4. Untracked(page) \in PageRec
    BY <1>1, <2>1, FailedTyped
  <2>5. page.ghosts > 0 => Untracked(p) \in PageRec
    BY <2>1, <2>2, FailedTyped
  <2>6. page'.images = page.images /\ page'.conn = page.conn
    BY <1>1, <2>2, <2>3, <2>4, <2>5, FailedKeeps
  <2> QED BY <2>3, <2>6
<1> QED BY <1>3, <1>4, <1>5, <1>6, <1>7, <1>8, <1>9 DEF PageStep

\* A connection takes what was asked, reads the buffer for a resume, replays it, or breaks.
LEMMA ConnStepDoes ==
  ASSUME TypeOK, NEW c \in Conn, ConnStep(c) \/ Break \/ Expire
  PROVE  /\ page' = page /\ spent'.images = spent.images
         /\ \/ /\ buffer' = buffer \/ buffer' = None
               /\ \A d \in Conn :
                    /\ conn'[d].resume = conn[d].resume
                    /\ conn'[d].out \in {conn[d].out, <<>>}
                    /\ \/ conn'[d].alive = conn[d].alive /\ conn'[d].inbox = conn[d].inbox
                       \/ conn[d].inbox # <<>> /\ conn'[d].alive = conn[d].alive
                       \/ ~conn'[d].alive /\ conn'[d].inbox = <<>> /\ conn'[d].out = <<>>
            \/ /\ conn[c].inbox # <<>> /\ buffer' = buffer
               /\ conn'[c].alive = conn[c].alive
               /\ \/ /\ conn'[c].resume = conn[c].resume
                     /\ conn'[c].out = conn[c].out \o <<[kind |-> "missed"]>>
                  \/ /\ buffer # None /\ conn'[c].resume = buffer
                     /\ \A d \in Conn : conn[d].resume = None
                     /\ conn'[c].out = conn[c].out
               /\ \A d \in Conn : d # c => conn'[d] = conn[d]
            \/ /\ conn[c].resume # None /\ conn'[c].resume = None
               /\ buffer' = None \/ buffer'.images = <<>>
               /\ conn'[c].alive = conn[c].alive /\ conn'[c].inbox = conn[c].inbox
               /\ \A d \in Conn : d # c => conn'[d] = conn[d]
               /\ \/ conn'[c].out = conn[c].out
                  \/ /\ conn[c].alive
                     /\ \E msgs \in Seq(Answer) :
                          /\ conn'[c].out = conn[c].out \o msgs
                          /\ \A n : Carries(msgs, n) <=> Contains(conn[c].resume.images, n)
                          /\ Once(conn[c].resume.images) => CarriesOnce(msgs)
<1>1. /\ page \in PageRec /\ conn \in [Conn -> ConnRec]
      /\ spent \in [mishaps : 0 .. MaxMishaps, images : 0 .. MaxImages]
      /\ \A d \in Conn : conn[d] \in ConnRec
      /\ buffer \in Kept \cup {None}
  BY TypeParts
<1>2. CASE HandleChat(c)
  <2>1. UNCHANGED <<page, buffer, spent>> /\ conn[c].inbox # <<>>
    BY <1>2 DEF HandleChat
  <2>2. conn' = [conn EXCEPT ![c].inbox = Tail(@)]
    BY <1>2 DEF HandleChat
  <2>3. \A d \in Conn :
          /\ conn'[d].resume = conn[d].resume /\ conn'[d].out = conn[d].out
          /\ conn'[d].alive = conn[d].alive
          /\ conn'[d].inbox = conn[d].inbox \/ conn[d].inbox # <<>>
    BY <1>1, <2>1, <2>2 DEF ConnRec
  <2> QED BY <2>1, <2>3
<1>3. CASE HandleStop(c)
  <2>1. UNCHANGED <<page, buffer, spent>> /\ conn[c].inbox # <<>>
    BY <1>3 DEF HandleStop
  <2>2. conn' = [conn EXCEPT ![c].inbox = Tail(@), ![c].stop = TRUE]
    BY <1>3 DEF HandleStop
  <2>3. \A d \in Conn :
          /\ conn'[d].resume = conn[d].resume /\ conn'[d].out = conn[d].out
          /\ conn'[d].alive = conn[d].alive
          /\ conn'[d].inbox = conn[d].inbox \/ conn[d].inbox # <<>>
    BY <1>1, <2>1, <2>2 DEF ConnRec
  <2> QED BY <2>1, <2>3
<1>4. CASE HandleResume(c)
  <2> DEFINE rest == [conn EXCEPT ![c].inbox = Tail(@)]
  <2>1. UNCHANGED <<page, buffer, spent>> /\ conn[c].inbox # <<>>
    BY <1>4 DEF HandleResume
  <2>2. \/ /\ buffer # None /\ \A d \in Conn : conn[d].resume = None
           /\ conn' = [rest EXCEPT ![c].resume = buffer]
        \/ conn' = [rest EXCEPT ![c].out = Append(@, [kind |-> "missed"])]
    BY <1>4 DEF HandleResume
  <2>3. /\ rest \in [Conn -> ConnRec]
        /\ rest[c].out = conn[c].out /\ rest[c].resume = conn[c].resume
        /\ rest[c].alive = conn[c].alive
        /\ \A d \in Conn : d # c => rest[d] = conn[d]
    <3>1. Tail(conn[c].inbox) \in Seq(Request)
      <4>1. conn[c].inbox \in Seq(Request)
        BY <1>1 DEF ConnRec
      <4> QED BY <2>1, <4>1
    <3> QED BY <1>1, <3>1 DEF ConnRec
  <2> HIDE DEF rest
  <2>4. Append(conn[c].out, [kind |-> "missed"]) = conn[c].out \o <<[kind |-> "missed"]>>
    <3>1. conn[c].out \in Seq(Answer)
      BY <1>1 DEF ConnRec
    <3>2. [kind |-> "missed"] \in Answer
      BY AnswersTyped
    <3> QED BY <3>1, <3>2, AppendIsConcat
  <2>5. CASE /\ buffer # None /\ \A d \in Conn : conn[d].resume = None
             /\ conn' = [rest EXCEPT ![c].resume = buffer]
    BY <2>1, <2>3, <2>5 DEF ConnRec
  <2>6. CASE conn' = [rest EXCEPT ![c].out = Append(@, [kind |-> "missed"])]
    BY <2>1, <2>3, <2>4, <2>6 DEF ConnRec
  <2> QED BY <2>2, <2>5, <2>6
<1>5. CASE Replay(c)
  <2>1. page' = page /\ spent' = spent /\ conn[c].resume # None /\ conn[c].resume \in Kept
    BY <1>1, <1>5 DEF Replay, ConnRec
  <2>2. buffer' = None \/ buffer'.images = <<>>
    <3>1. buffer # None => [buffer EXCEPT !.images = <<>>].images = <<>>
      BY <1>1 DEF Kept
    <3> QED BY <1>5, <3>1 DEF Replay
  <2>3. PICK msgs \in Seq(Answer) :
          /\ conn' = [Told(c, msgs) EXCEPT ![c].resume = None]
          /\ Len(msgs) >= Len(conn[c].resume.images)
          /\ \A i \in 1 .. Len(conn[c].resume.images) :
               msgs[i] = [kind |-> "image", image |-> conn[c].resume.images[i]]
          /\ \A i \in 1 .. Len(msgs) : msgs[i].kind = "image" => i <= Len(conn[c].resume.images)
    BY <1>5, <2>1, ReplayMessages DEF Replay
  <2>4. /\ \A n : Carries(msgs, n) <=> Contains(conn[c].resume.images, n)
        /\ Once(conn[c].resume.images) => CarriesOnce(msgs)
    BY <2>1, <2>3, ReplayCarries
  <2>5. /\ conn'[c].resume = None
        /\ conn'[c].alive = conn[c].alive /\ conn'[c].inbox = conn[c].inbox
        /\ \A d \in Conn : d # c => conn'[d] = conn[d]
        /\ \/ conn'[c].out = conn[c].out
           \/ conn[c].alive /\ conn'[c].out = conn[c].out \o msgs
    BY <1>1, <2>3 DEF Told, ConnRec
  <2> QED BY <2>1, <2>2, <2>4, <2>5
<1>6. CASE Removed(c)
  <2>1. UNCHANGED <<page, buffer, spent>>
    BY <1>6 DEF Removed
  <2>2. conn' = [conn EXCEPT ![c].state = "removed", ![c].stop = FALSE]
    BY <1>6 DEF Removed
  <2>3. \A d \in Conn :
          /\ conn'[d].resume = conn[d].resume /\ conn'[d].out = conn[d].out
          /\ conn'[d].alive = conn[d].alive /\ conn'[d].inbox = conn[d].inbox
    BY <1>1, <2>2 DEF ConnRec
  <2> QED BY <2>1, <2>3
<1>7. CASE Break
  <2>1. UNCHANGED <<page, buffer>> /\ spent'.images = spent.images
    BY <1>1, <1>7 DEF Break
  <2>2. conn' = [conn EXCEPT ![page.conn].alive = FALSE, ![page.conn].inbox = <<>>,
                             ![page.conn].out = <<>>]
    BY <1>7 DEF Break
  <2>3. \A d \in Conn :
          /\ conn'[d].resume = conn[d].resume
          /\ \/ conn'[d] = conn[d]
             \/ ~conn'[d].alive /\ conn'[d].inbox = <<>> /\ conn'[d].out = <<>>
    BY <1>1, <2>2 DEF ConnRec
  <2> QED BY <2>1, <2>3
<1>8. CASE Expire
  BY <1>8 DEF Expire
<1> QED BY <1>2, <1>3, <1>4, <1>5, <1>6, <1>7, <1>8 DEF ConnStep

\* Hearing takes the first message of the page's connection.
LEMMA HearDoes ==
  ASSUME TypeOK, Hear
  PROVE  /\ page.conn \in Conn /\ conn[page.conn].out \in Seq(Answer) /\ conn[page.conn].out # <<>>
         /\ Head(conn[page.conn].out) \in Answer
         /\ page' = Heard(Head(conn[page.conn].out))
         /\ conn'[page.conn].out = Tail(conn[page.conn].out)
         /\ \A c \in Conn : /\ conn'[c].alive = conn[c].alive /\ conn'[c].inbox = conn[c].inbox
                            /\ conn'[c].resume = conn[c].resume
                            /\ c # page.conn => conn'[c].out = conn[c].out
         /\ UNCHANGED <<buffer, spent>>
<1>1. /\ page \in PageRec /\ conn \in [Conn -> ConnRec]
      /\ \A d \in Conn : conn[d] \in ConnRec
  BY TypeParts
<1>2. page.conn \in Conn
  BY <1>1 DEF Hear, PageRec
<1>3. conn[page.conn].out \in Seq(Answer) /\ conn[page.conn].out # <<>>
  BY <1>1, <1>2 DEF Hear, ConnRec
<1>4. Head(conn[page.conn].out) \in Answer
  BY <1>3
<1>5. conn' = [conn EXCEPT ![page.conn].out = Tail(@)]
  BY DEF Hear
<1>6. /\ conn'[page.conn].out = Tail(conn[page.conn].out)
      /\ \A c \in Conn : /\ conn'[c].alive = conn[c].alive /\ conn'[c].inbox = conn[c].inbox
                         /\ conn'[c].resume = conn[c].resume
                         /\ c # page.conn => conn'[c].out = conn[c].out
  BY <1>1, <1>2, <1>5 DEF ConnRec
<1> QED BY <1>2, <1>3, <1>4, <1>6 DEF Hear

\* Whoever is heard was asked something.
LEMMA HearAsked ==
  ASSUME Typed, Hear
  PROVE  page.asked # 0
<1>1. TypeOK /\ Quiet
  BY DEF Typed
<1> QED BY <1>1, HearDoes DEF Quiet

\* Nothing but the connection of the page ever works.
LEMMA NextChannel ==
  ASSUME Typed, Channel, Next
  PROVE  Channel'
<1>1. TypeOK
  BY DEF Typed
<1>2. \A c \in Conn : conn[c].out \in Seq(Answer)
  BY <1>1, TypeParts DEF ConnRec
<1>3. ASSUME NEW t \in Turn, TurnStep(t) PROVE Channel'
  <2>1. page' = page /\ (Wiped \/ conn' = conn \/ \E msgs : Writes(msgs))
    BY <1>1, <1>3, TurnStepDoes
  <2>2. CASE Wiped
    BY <2>2 DEF Wiped, Channel
  <2>3. CASE conn' = conn
    BY <2>1, <2>3 DEF Channel
  <2>4. ASSUME NEW msgs, Writes(msgs) PROVE Channel'
    <3>1. \A c \in Conn : /\ conn'[c].alive = conn[c].alive /\ conn'[c].inbox = conn[c].inbox
                          /\ conn'[c].out = conn[c].out \/ conn[c].alive
      BY <2>4 DEF Writes
    <3> QED BY <2>1, <3>1 DEF Channel
  <2> QED BY <2>1, <2>2, <2>3, <2>4
<1>4. ASSUME NEW c \in Conn, ConnStep(c) \/ Break \/ Expire PROVE Channel'
  <2>1. page' = page
    BY <1>1, <1>4, ConnStepDoes
  <2>2. \A d \in Conn :
          \/ /\ conn'[d].alive = conn[d].alive
             /\ \/ conn[d].inbox # <<>>
                \/ conn'[d].inbox = conn[d].inbox /\ conn'[d].out \in {conn[d].out, <<>>}
                \/ conn'[d].inbox = conn[d].inbox /\ conn[d].alive
          \/ ~conn'[d].alive /\ conn'[d].inbox = <<>> /\ conn'[d].out = <<>>
    BY <1>1, <1>4, ConnStepDoes
  <2> QED BY <2>1, <2>2 DEF Channel
<1>5. ASSUME PageStep \/ Ask \/ Stop PROVE Channel'
  <2>1. CASE Hear
    <3>1. page'.conn = page.conn
      BY <1>1, <2>1, HearDoes, HearAsked, HeardKeeps
    <3>2. \A c \in Conn : /\ conn'[c].alive = conn[c].alive /\ conn'[c].inbox = conn[c].inbox
                          /\ conn'[c].out = conn[c].out \/ conn[c].out # <<>>
      BY <1>1, <2>1, HearDoes
    <3> QED BY <3>1, <3>2 DEF Channel
  <2>2. CASE ~Hear
    <3>1. /\ \A c \in Conn : conn'[c].out = conn[c].out
          /\ \/ /\ page'.conn = page.conn
                /\ \A c \in Conn : /\ conn'[c].alive = conn[c].alive
                                   /\ conn'[c].inbox = conn[c].inbox \/ conn[c].alive
             \/ page'.conn = 0 /\ conn' = conn /\ page.conn # 0 /\ ~conn[page.conn].alive
             \/ /\ page.conn = 0 /\ page'.conn \in Conn /\ conn'[page'.conn].alive
                /\ \A c \in Conn : c # page'.conn => conn'[c] = conn[c]
      BY <1>5, <2>2, PageStepDoes
    <3>2. CASE /\ page'.conn = page.conn
               /\ \A c \in Conn : /\ conn'[c].alive = conn[c].alive
                                  /\ conn'[c].inbox = conn[c].inbox \/ conn[c].alive
      BY <3>1, <3>2 DEF Channel
    <3>3. CASE page'.conn = 0 /\ conn' = conn /\ page.conn # 0 /\ ~conn[page.conn].alive
      <4>1. \A c \in Conn : ~conn[c].alive
        BY <3>3 DEF Channel
      <4> QED BY <3>3, <4>1 DEF Channel
    <3>4. CASE /\ page.conn = 0 /\ page'.conn \in Conn /\ conn'[page'.conn].alive
               /\ \A c \in Conn : c # page'.conn => conn'[c] = conn[c]
      <4>1. \A c \in Conn : ~conn[c].alive
        BY <3>4, Bounds DEF Channel
      <4> QED BY <3>4, <4>1 DEF Channel
    <3> QED BY <3>1, <3>2, <3>3, <3>4
  <2> QED BY <2>1, <2>2
<1>6. Break \/ Expire => Channel'
  BY <1>4, Bounds
<1> QED BY <1>3, <1>4, <1>5, <1>6 DEF Next

\* The part of ImageInv that is about images.
Images == OneResume /\ OnceEach /\ Made /\ Apart

\* A step that brings no place an image which that place did not have keeps the invariant.
LEMMA CalmImages ==
  ASSUME Images, page'.images = page.images, spent'.images = spent.images, NoneBuffered,
         \A c \in Conn :
           /\ conn'[c].resume \in {conn[c].resume, None}
           /\ \A n : Carries(conn'[c].out, n) => Carries(conn[c].out, n)
           /\ CarriesOnce(conn[c].out) => CarriesOnce(conn'[c].out)
  PROVE  Images'
<1>1. ~Contains(<<>>, 0) /\ (\A n : ~Contains(<<>>, n)) /\ Once(<<>>)
  BY DEF Contains, Once
<1>2. \A n : BufferHas(n)' => BufferHas(n)
  BY <1>1 DEF NoneBuffered, BufferHas
<1>3. \A n : \A c \in Conn : ResumeHas(c, n)' => ResumeHas(c, n)
  BY DEF ResumeHas
<1>4. OneResume'
  BY DEF Images, OneResume
<1>5. buffer' # None => Once(buffer'.images)
  BY <1>1 DEF Images, OnceEach, NoneBuffered
<1>6. OnceEach'
  BY <1>5 DEF Images, OnceEach
<1>7. Made'
  BY <1>2, <1>3 DEF Images, Made
<1>8. Apart'
  BY <1>2, <1>3 DEF Images, Apart
<1> QED BY <1>4, <1>6, <1>7, <1>8 DEF Images

\* An image that a tool has just made is nowhere yet.
LEMMA NewImage ==
  ASSUME TypeOK, Images, spent.images < MaxImages
  PROVE  LET i == spent.images + 1
         IN  /\ i \in Image
             /\ ~Contains(page.images, i) /\ ~BufferHas(i)
             /\ \A c \in Conn : ~Carries(conn[c].out, i) /\ ~ResumeHas(c, i)
             /\ \A n \in Image : n > i => n > spent.images
<1>1. spent.images \in Nat /\ MaxImages \in Nat
  BY TypeParts, Bounds
<1>2. /\ spent.images + 1 \in Image /\ spent.images + 1 > spent.images
      /\ \A n \in Image : n > spent.images + 1 => n > spent.images
  BY <1>1 DEF Image
<1> QED BY <1>2 DEF Images, Made

\* A tool makes an image, and it is sent: only its connection has it.
LEMMA SentImages ==
  ASSUME TypeOK, Images, spent.images < MaxImages, spent'.images = spent.images + 1,
         page' = page, buffer' = buffer,
         Writes(<<[kind |-> "image", image |-> spent.images + 1]>>), Channel
  PROVE  Images'
<1> DEFINE i == spent.images + 1
           m == <<[kind |-> "image", image |-> i]>>
<1>1. /\ i \in Image
      /\ ~Contains(page.images, i) /\ ~BufferHas(i)
      /\ \A c \in Conn : ~Carries(conn[c].out, i) /\ ~ResumeHas(c, i)
      /\ \A n \in Image : n > i => n > spent.images
      /\ ~(i > i)
  <2>1. ~(i > i)
    BY TypeParts
  <2> QED BY <2>1, NewImage
<1> HIDE DEF i
<1>2. m \in Seq(Answer) /\ CarriesOnce(m) /\ \A n : Carries(m, n) <=> n = i
  <2>1. [kind |-> "image", image |-> i] \in Answer
    BY <1>1, AnswersTyped
  <2> QED BY <2>1 DEF CarriesOnce, Carries
<1>3. \A c \in Conn : conn[c].out \in Seq(Answer)
  BY TypeParts DEF ConnRec
<1>4. /\ spent'.images = i
      /\ \A c \in Conn : /\ conn'[c].resume = conn[c].resume
                         /\ \/ conn'[c].out = conn[c].out
                            \/ conn[c].alive /\ conn'[c].out = conn[c].out \o m
  BY DEF Writes, i
<1> HIDE DEF m
<1>5. \A c \in Conn : \A n : Carries(conn'[c].out, n) => Carries(conn[c].out, n) \/ n = i
  <2> SUFFICES ASSUME NEW c \in Conn, NEW n, Carries(conn'[c].out, n),
                      conn'[c].out = conn[c].out \o m
               PROVE  Carries(conn[c].out, n) \/ n = i
    BY <1>4
  <2>1. Carries(conn[c].out \o m, n) <=> Carries(conn[c].out, n) \/ Carries(m, n)
    BY <1>2, <1>3, CarriesConcat
  <2> QED BY <1>2, <2>1
<1>6. \A c \in Conn : CarriesOnce(conn[c].out) => CarriesOnce(conn'[c].out)
  <2> SUFFICES ASSUME NEW c \in Conn, CarriesOnce(conn[c].out), conn'[c].out = conn[c].out \o m
               PROVE  CarriesOnce(conn'[c].out)
    BY <1>4
  <2> QED BY <1>1, <1>2, <1>3, CarriesConcat
<1>7. \A n : (BufferHas(n)' <=> BufferHas(n)) /\ \A c \in Conn : ResumeHas(c, n)' <=> ResumeHas(c, n)
  BY <1>4 DEF BufferHas, ResumeHas
<1>8. OneResume'
  BY <1>4 DEF Images, OneResume
<1>9. OnceEach'
  BY <1>4, <1>6 DEF Images, OnceEach
<1>10. Made'
  BY <1>1, <1>4, <1>5, <1>7 DEF Images, Made
<1>11. Apart'
  BY <1>1, <1>5, <1>7 DEF Images, Apart
<1> QED BY <1>8, <1>9, <1>10, <1>11 DEF Images

\* A tool makes an image that cannot be sent: only the buffer has it.
LEMMA BufferedImages ==
  ASSUME TypeOK, Images, spent.images < MaxImages, spent'.images = spent.images + 1,
         page' = page, conn' = conn,
         \/ buffer' = buffer
         \/ buffer # None /\ buffer'.images = Append(buffer.images, spent.images + 1)
  PROVE  Images'
<1> DEFINE i == spent.images + 1
<1>1. /\ i \in Image
      /\ ~Contains(page.images, i) /\ ~BufferHas(i)
      /\ \A c \in Conn : ~Carries(conn[c].out, i) /\ ~ResumeHas(c, i)
      /\ \A n \in Image : n > i => n > spent.images
      /\ ~(i > i)
  <2>1. ~(i > i)
    BY TypeParts
  <2> QED BY <2>1, NewImage
<1>2. spent'.images = i
  OBVIOUS
<1>3. \/ buffer' = buffer
      \/ buffer # None /\ buffer'.images = Append(buffer.images, i)
  OBVIOUS
<1> HIDE DEF i
<1>4. buffer # None => buffer.images \in Seq(Image)
  BY TypeParts DEF Kept
<1>5. (\A n : BufferHas(n)' => BufferHas(n) \/ n = i) /\ (buffer' # None => Once(buffer'.images))
  <2>1. CASE buffer' = buffer
    BY <2>1 DEF BufferHas, Images, OnceEach
  <2>2. CASE buffer # None /\ buffer'.images = Append(buffer.images, i)
    <3>1. ~Contains(buffer.images, i) /\ Once(buffer.images)
      BY <1>1, <2>2 DEF BufferHas, Images, OnceEach
    <3>2. (\A n : Contains(buffer'.images, n) <=> Contains(buffer.images, n) \/ n = i)
          /\ Once(buffer'.images)
      BY <1>1, <1>4, <2>2, <3>1, ContainsAppend
    <3> QED BY <2>2, <3>2 DEF BufferHas
  <2> QED BY <1>3, <2>1, <2>2
<1>7. \A n : \A c \in Conn : ResumeHas(c, n)' <=> ResumeHas(c, n)
  BY DEF ResumeHas
<1>8. OneResume'
  BY DEF Images, OneResume
<1>9. OnceEach'
  BY <1>5 DEF Images, OnceEach
<1>10. Made'
  BY <1>1, <1>2, <1>5, <1>7 DEF Images, Made
<1>11. Apart'
  BY <1>1, <1>5, <1>7 DEF Images, Apart
<1> QED BY <1>8, <1>9, <1>10, <1>11 DEF Images

\* A resume takes a copy of the buffer: the only one.
LEMMA CopiedImages ==
  ASSUME Images, NEW c \in Conn, page' = page, spent'.images = spent.images, buffer' = buffer,
         buffer # None, conn'[c].resume = buffer, conn'[c].out = conn[c].out,
         \A d \in Conn : conn[d].resume = None,
         \A d \in Conn : d # c => conn'[d] = conn[d]
  PROVE  Images'
<1>1. \A d \in Conn : /\ conn'[d].out = conn[d].out
                      /\ conn'[d].resume # None => d = c
  OBVIOUS
<1>2. \A n : BufferHas(n)' <=> BufferHas(n)
  BY DEF BufferHas
<1>3. \A n : \A d \in Conn : ResumeHas(d, n)' => BufferHas(n)
  BY DEF BufferHas, ResumeHas
<1>4. OneResume'
  BY <1>1 DEF OneResume
<1>5. OnceEach'
  BY <1>1 DEF Images, OnceEach
<1>6. Made'
  BY <1>1, <1>2, <1>3 DEF Images, Made
<1>7. Apart'
  BY <1>1, <1>2, <1>3 DEF Images, Apart
<1> QED BY <1>4, <1>5, <1>6, <1>7 DEF Images

\* A replay moves the images of the copy to the connection, and the buffer forgets them.
LEMMA ReplayedImages ==
  ASSUME TypeOK, Images, NEW c \in Conn, page' = page, spent'.images = spent.images,
         buffer' = None \/ buffer'.images = <<>>,
         conn[c].resume # None, conn'[c].resume = None,
         \A d \in Conn : d # c => conn'[d] = conn[d],
         NEW msgs \in Seq(Answer), conn'[c].out = conn[c].out \o msgs,
         \A n : Carries(msgs, n) <=> Contains(conn[c].resume.images, n),
         Once(conn[c].resume.images) => CarriesOnce(msgs)
  PROVE  Images'
<1>1. conn[c].out \in Seq(Answer)
  BY TypeParts DEF ConnRec
<1>2. \A n : ~BufferHas(n)'
  BY DEF BufferHas, Contains
<1>3. \A n : \A d \in Conn : ~ResumeHas(d, n)'
  BY DEF Images, OneResume, ResumeHas
<1>4. \A n : Carries(msgs, n) <=> ResumeHas(c, n)
  BY DEF ResumeHas
<1>5. \A d \in Conn : \A n :
        Carries(conn'[d].out, n) => Carries(conn[d].out, n) \/ ResumeHas(c, n)
  <2>1. \A n : Carries(conn[c].out \o msgs, n) <=> Carries(conn[c].out, n) \/ Carries(msgs, n)
    BY <1>1, CarriesConcat
  <2> QED BY <1>4, <2>1
<1>6. CarriesOnce(conn'[c].out)
  <2>1. CarriesOnce(conn[c].out) /\ CarriesOnce(msgs)
    BY DEF Images, OnceEach
  <2>2. \A n \in Image : ~(Carries(conn[c].out, n) /\ Carries(msgs, n))
    BY <1>4 DEF Images, Apart
  <2> QED BY <1>1, <2>1, <2>2, CarriesConcat
<1>7. \A d \in Conn : conn'[d].resume = None
  BY DEF Images, OneResume
<1>8. OneResume'
  BY <1>7 DEF OneResume
<1>9. OnceEach'
  <2>1. buffer' # None => Once(buffer'.images)
    BY DEF Once
  <2>2. \A d \in Conn : CarriesOnce(conn'[d].out)
    BY <1>6 DEF Images, OnceEach
  <2> QED BY <1>7, <2>1, <2>2 DEF Images, OnceEach
<1>10. Made'
  BY <1>2, <1>3, <1>5 DEF Images, Made
<1>11. Apart'
  BY <1>2, <1>3, <1>5 DEF Images, Apart
<1> QED BY <1>8, <1>9, <1>10, <1>11 DEF Images

\* An image that is heard moves from the connection to the page.
LEMMA HeardImages ==
  ASSUME TypeOK, Images, Channel, NEW c \in Conn, NEW msg \in Answer, msg.kind = "image",
         conn[c].out # <<>>, msg = Head(conn[c].out), c = page.conn,
         page'.images = Append(page.images, msg.image),
         conn'[c].out = Tail(conn[c].out), UNCHANGED <<buffer, spent>>,
         \A d \in Conn : /\ conn'[d].resume = conn[d].resume
                         /\ d # c => conn'[d].out = conn[d].out
  PROVE  Images'
<1> DEFINE i == msg.image
<1>1. i \in Image
  BY AnswerParts
<1>2. conn[c].out \in Seq(Answer) /\ page.images \in Seq(Image)
  BY TypeParts DEF ConnRec, PageRec
<1>3. /\ Carries(conn[c].out, i) /\ CarriesOnce(conn[c].out)
      /\ ~Carries(conn'[c].out, i) /\ CarriesOnce(conn'[c].out)
      /\ \A n : Carries(conn'[c].out, n) => Carries(conn[c].out, n)
  <2>1. CarriesOnce(conn[c].out)
    BY DEF Images, OnceEach
  <2> QED BY <1>2, <2>1, CarriesTail
<1>4. \A d \in Conn : d # c => conn[d].out = <<>>
  BY DEF Channel
<1>5. /\ ~Contains(page.images, i) /\ ~BufferHas(i)
      /\ \A d \in Conn : ~ResumeHas(d, i) /\ ~Carries(conn'[d].out, i)
  <2>1. \A n : ~Carries(<<>>, n)
    BY DEF Carries
  <2>2. ~Contains(page.images, i) /\ ~BufferHas(i) /\ \A d \in Conn : ~ResumeHas(d, i)
    BY <1>1, <1>3 DEF Images, Apart
  <2> QED BY <1>3, <1>4, <2>1, <2>2
<1>6. \A n : (Contains(page'.images, n) <=> Contains(page.images, n) \/ n = i)
  BY <1>1, <1>2, ContainsAppend
<1>7. Once(page'.images)
  BY <1>1, <1>2, <1>5, ContainsAppend DEF Images, OnceEach
<1>8. \A n : (BufferHas(n)' <=> BufferHas(n)) /\ \A d \in Conn : ResumeHas(d, n)' <=> ResumeHas(d, n)
  BY DEF BufferHas, ResumeHas
<1>9. \A d \in Conn : \A n : Carries(conn'[d].out, n) => Carries(conn[d].out, n)
  BY <1>3
<1> HIDE DEF i
<1>10. OneResume'
  BY DEF Images, OneResume
<1>11. OnceEach'
  BY <1>3, <1>7 DEF Images, OnceEach
<1>12. Made'
  <2>1. ~(i > spent.images)
    BY <1>1, <1>3 DEF Images, Made
  <2> QED BY <1>6, <1>8, <1>9, <2>1 DEF Images, Made
<1>13. Apart'
  BY <1>5, <1>6, <1>8, <1>9 DEF Images, Apart
<1> QED BY <1>10, <1>11, <1>12, <1>13 DEF Images

\* A turn keeps the images apart.
LEMMA TurnStepImages ==
  ASSUME Typed, Channel, Images, NEW t \in Turn, TurnStep(t)
  PROVE  Images'
<1>1. TypeOK /\ \A c \in Conn : conn[c].out \in Seq(Answer)
  BY TypeParts DEF Typed, ConnRec
<1>2. page' = page
  BY <1>1, TurnStepDoes
<1>3. ASSUME spent'.images = spent.images, NoneBuffered, Wiped PROVE Images'
  <2>1. CarriesOnce(<<>>) /\ \A n : ~Carries(<<>>, n)
    BY DEF CarriesOnce, Carries
  <2> QED BY <1>2, <1>3, <2>1, CalmImages DEF Wiped
<1>4. ASSUME spent'.images = spent.images, NoneBuffered, NEW msgs \in Seq(Answer),
             Plain(msgs), Writes(msgs)
      PROVE  Images'
  <2>1. \A c \in Conn : conn'[c].resume \in {conn[c].resume, None}
    BY <1>4 DEF Writes
  <2>2. ASSUME NEW c \in Conn
        PROVE  /\ \A n : Carries(conn'[c].out, n) => Carries(conn[c].out, n)
               /\ CarriesOnce(conn[c].out) => CarriesOnce(conn'[c].out)
    <3>1. conn'[c].out = conn[c].out \/ conn'[c].out = conn[c].out \o msgs
      BY <1>4 DEF Writes
    <3>2. CASE conn'[c].out = conn[c].out
      BY <3>2
    <3>3. CASE conn'[c].out = conn[c].out \o msgs
      <4>1. CarriesOnce(msgs) /\ \A n : ~Carries(msgs, n)
        BY <1>4, PlainCarries
      <4> QED BY <1>1, <3>3, <4>1, CarriesConcat
    <3> QED BY <3>1, <3>2, <3>3
  <2> QED BY <1>2, <1>4, <2>1, <2>2, CalmImages
<1>5. ASSUME spent'.images = spent.images + 1, spent.images < MaxImages, buffer' = buffer,
             Writes(<<[kind |-> "image", image |-> spent.images + 1]>>)
      PROVE  Images'
  BY <1>1, <1>2, <1>5, SentImages
<1>6. ASSUME spent'.images = spent.images + 1, spent.images < MaxImages, conn' = conn,
             \/ buffer' = buffer
             \/ buffer # None /\ buffer'.images = Append(buffer.images, spent.images + 1)
      PROVE  Images'
  BY <1>1, <1>2, <1>6, BufferedImages
<1> QED BY <1>1, <1>3, <1>4, <1>5, <1>6, TurnStepDoes

\* A connection keeps the images apart.
LEMMA ConnStepImages ==
  ASSUME Typed, Channel, Images, NEW c \in Conn, ConnStep(c) \/ Break \/ Expire
  PROVE  Images'
<1>1. TypeOK /\ \A d \in Conn : conn[d].out \in Seq(Answer)
  BY TypeParts DEF Typed, ConnRec
<1>2. page' = page /\ spent'.images = spent.images
  BY <1>1, ConnStepDoes
<1>3. ASSUME buffer' = buffer \/ buffer' = None,
             \A d \in Conn : conn'[d].resume = conn[d].resume /\ conn'[d].out \in {conn[d].out, <<>>}
      PROVE  Images'
  <2>1. CarriesOnce(<<>>) /\ \A n : ~Carries(<<>>, n)
    BY DEF CarriesOnce, Carries
  <2>2. NoneBuffered
    BY <1>3 DEF NoneBuffered
  <2>3. \A d \in Conn :
          /\ conn'[d].resume \in {conn[d].resume, None}
          /\ \A n : Carries(conn'[d].out, n) => Carries(conn[d].out, n)
          /\ CarriesOnce(conn[d].out) => CarriesOnce(conn'[d].out)
    BY <1>3, <2>1
  <2> QED BY <1>2, <2>2, <2>3, CalmImages
<1>4. ASSUME buffer' = buffer, conn'[c].resume = conn[c].resume,
             conn'[c].out = conn[c].out \o <<[kind |-> "missed"]>>,
             \A d \in Conn : d # c => conn'[d] = conn[d]
      PROVE  Images'
  <2> DEFINE msgs == <<[kind |-> "missed"]>>
  <2>1. msgs \in Seq(Answer) /\ Plain(msgs)
    <3>1. [kind |-> "missed"] \in Answer
      BY AnswersTyped
    <3> QED BY <3>1 DEF Plain
  <2>2. conn'[c].out = conn[c].out \o msgs
    BY <1>4
  <2> HIDE DEF msgs
  <2>3. CarriesOnce(msgs) /\ \A n : ~Carries(msgs, n)
    BY <2>1, PlainCarries
  <2>4. /\ \A n : Carries(conn'[c].out, n) => Carries(conn[c].out, n)
        /\ CarriesOnce(conn[c].out) => CarriesOnce(conn'[c].out)
    BY <1>1, <2>1, <2>2, <2>3, CarriesConcat
  <2>5. NoneBuffered
    BY <1>4 DEF NoneBuffered
  <2>6. \A d \in Conn :
          /\ conn'[d].resume \in {conn[d].resume, None}
          /\ \A n : Carries(conn'[d].out, n) => Carries(conn[d].out, n)
          /\ CarriesOnce(conn[d].out) => CarriesOnce(conn'[d].out)
    BY <1>4, <2>4
  <2> QED BY <1>2, <2>5, <2>6, CalmImages
<1>5. ASSUME buffer' = buffer, buffer # None, conn'[c].resume = buffer, conn'[c].out = conn[c].out,
             \A d \in Conn : conn[d].resume = None,
             \A d \in Conn : d # c => conn'[d] = conn[d]
      PROVE  Images'
  BY <1>2, <1>5, CopiedImages
<1>6. ASSUME conn[c].resume # None, conn'[c].resume = None,
             buffer' = None \/ buffer'.images = <<>>,
             \A d \in Conn : d # c => conn'[d] = conn[d],
             conn'[c].out = conn[c].out
      PROVE  Images'
  <2>1. NoneBuffered
    BY <1>6 DEF NoneBuffered
  <2>2. \A d \in Conn :
          /\ conn'[d].resume \in {conn[d].resume, None}
          /\ conn'[d].out = conn[d].out
    BY <1>6
  <2> QED BY <1>2, <2>1, <2>2, CalmImages
<1>7. ASSUME conn[c].resume # None, conn'[c].resume = None,
             buffer' = None \/ buffer'.images = <<>>,
             \A d \in Conn : d # c => conn'[d] = conn[d],
             NEW msgs \in Seq(Answer), conn'[c].out = conn[c].out \o msgs,
             \A n : Carries(msgs, n) <=> Contains(conn[c].resume.images, n),
             Once(conn[c].resume.images) => CarriesOnce(msgs)
      PROVE  Images'
  BY <1>1, <1>2, <1>7, ReplayedImages
<1> QED BY <1>1, <1>3, <1>4, <1>5, <1>6, <1>7, ConnStepDoes

\* The page keeps the images apart.
LEMMA PageStepImages ==
  ASSUME Typed, Channel, Images, PageStep \/ Ask \/ Stop
  PROVE  Images'
<1>1. TypeOK
  BY DEF Typed
<1>2. CASE Hear
  <2> DEFINE c == page.conn
             msg == Head(conn[c].out)
  <2>1. /\ c \in Conn /\ conn[c].out \in Seq(Answer) /\ conn[c].out # <<>> /\ msg \in Answer
        /\ conn'[c].out = Tail(conn[c].out) /\ UNCHANGED <<buffer, spent>>
        /\ page' = Heard(msg)
        /\ \A d \in Conn : /\ conn'[d].resume = conn[d].resume
                           /\ d # c => conn'[d].out = conn[d].out
    BY <1>1, <1>2, HearDoes
  <2>2. /\ msg.kind = "image" => page'.images = Append(page.images, msg.image)
        /\ msg.kind # "image" => page'.images = page.images
    BY <1>2, <2>1, HearAsked, HeardKeeps
  <2>3. CASE msg.kind = "image"
    BY <1>1, <2>1, <2>2, <2>3, HeardImages
  <2>4. CASE msg.kind # "image"
    <3>1. NoneBuffered
      BY <2>1 DEF NoneBuffered
    <3>2. /\ \A n : Carries(conn'[c].out, n) => Carries(conn[c].out, n)
          /\ CarriesOnce(conn[c].out) => CarriesOnce(conn'[c].out)
      BY <2>1, CarriesTail
    <3>3. \A d \in Conn :
            /\ conn'[d].resume \in {conn[d].resume, None}
            /\ \A n : Carries(conn'[d].out, n) => Carries(conn[d].out, n)
            /\ CarriesOnce(conn[d].out) => CarriesOnce(conn'[d].out)
      BY <2>1, <3>2
    <3>4. page'.images = page.images /\ spent'.images = spent.images
      BY <2>1, <2>2, <2>4
    <3> QED BY <3>1, <3>3, <3>4, CalmImages
  <2> QED BY <2>3, <2>4
<1>3. CASE ~Hear
  <2>1. /\ page'.images = page.images /\ UNCHANGED <<buffer, spent.images>>
        /\ \A c \in Conn : conn'[c].out = conn[c].out /\ conn'[c].resume = conn[c].resume
    BY <1>3, PageStepDoes
  <2>2. NoneBuffered
    BY <2>1 DEF NoneBuffered
  <2>3. \A c \in Conn :
          /\ conn'[c].resume \in {conn[c].resume, None}
          /\ \A n : Carries(conn'[c].out, n) => Carries(conn[c].out, n)
          /\ CarriesOnce(conn[c].out) => CarriesOnce(conn'[c].out)
    BY <2>1
  <2> QED BY <2>1, <2>2, <2>3, CalmImages
<1> QED BY <1>2, <1>3

\* The invariant about images holds in every state.
LEMMA ImageInvHolds == Spec => [](Typed /\ ImageInv)
<1>1. Init => ImageInv
  <2> SUFFICES ASSUME Init PROVE ImageInv
    OBVIOUS
  <2>1. \A c \in Conn : conn[c].inbox = <<>> /\ conn[c].out = <<>> /\ conn[c].resume = None
    BY DEF Init, NoConn
  <2>2. \A c \in Conn : conn[c].alive => c = 1
    BY DEF Init, NoConn
  <2>3. page.conn = 1 /\ page.images = <<>> /\ buffer = None
    BY DEF Init
  <2>4. \A n : ~Contains(<<>>, n) /\ ~Carries(<<>>, n)
    BY DEF Contains, Carries
  <2>5. Once(<<>>) /\ CarriesOnce(<<>>)
    BY DEF Once, CarriesOnce
  <2>6. Channel /\ OneResume
    BY <2>1, <2>2, <2>3 DEF Channel, OneResume
  <2>7. OnceEach /\ Made /\ Apart
    BY <2>1, <2>3, <2>4, <2>5 DEF OnceEach, Made, Apart, BufferHas, ResumeHas
  <2> QED BY <2>6, <2>7 DEF ImageInv
<1>2. Typed /\ ImageInv /\ [Next]_vars => ImageInv'
  <2> SUFFICES ASSUME Typed, ImageInv, [Next]_vars PROVE ImageInv'
    OBVIOUS
  <2>1. Channel /\ Images
    BY DEF ImageInv, Images
  <2>2. CASE UNCHANGED vars
    BY <2>2 DEF vars, ImageInv, Channel, OneResume, OnceEach, Made, Apart, BufferHas, ResumeHas
  <2>3. CASE Next
    <3>1. Channel'
      BY <2>1, <2>3, NextChannel
    <3>2. Images'
      <4>1. ASSUME NEW t \in Turn, TurnStep(t) PROVE Images'
        BY <2>1, <4>1, TurnStepImages
      <4>2. ASSUME NEW c \in Conn, ConnStep(c) PROVE Images'
        BY <2>1, <4>2, ConnStepImages
      <4>3. CASE Break \/ Expire
        BY <2>1, <4>3, Bounds, ConnStepImages
      <4>4. CASE PageStep \/ Ask \/ Stop
        BY <2>1, <4>4, PageStepImages
      <4> QED BY <2>3, <4>1, <4>2, <4>3, <4>4 DEF Next
    <3> QED BY <3>1, <3>2 DEF ImageInv, Images
  <2> QED BY <2>2, <2>3
<1>3. Typed /\ [Next]_vars => Typed'
  BY NextTyped, NextQuiet DEF Typed
<1> QED BY <1>1, <1>2, <1>3, InitTyped, PTL DEF Spec

\* However a stream is cut off, resumed and replayed, an image that a tool made comes to the
\* page once: it is sent or buffered, and what a resume has taken the buffer forgets.
THEOREM ImageComesOnceHolds == Spec => []ImageComesOnce
<1>1. ImageInv => ImageComesOnce
  BY DEF ImageInv, OnceEach, Once, ImageComesOnce
<1> QED BY <1>1, ImageInvHolds, PTL

------------------------------------------------------------------------------
(* What the buffer has of the turn that streams.                           *)

\* A turn that asks the provider has said nothing in this round; and unless it happened that
\* a question came while a turn was there, there is one turn at a time.
TextInv ==
  /\ \A t \in Turn : turn[t].pc \in {"none", "request"} => turn[t].said = 0
  /\ "two" \notin odd => \A t, u \in Turn : Live(t) /\ Live(u) => t = u
  /\ NothingSaidIsMissed


\* The buffer holds, at its end and in order, what was said to question q, or as much of it as
\* there was room for.
Caught(chunks, q, said) ==
  \E k \in 0 .. said :
    /\ k < said => Len(chunks) >= MaxKept
    /\ k <= Len(chunks)
    /\ \A i \in 1 .. k : chunks[Len(chunks) - k + i] = <<q, i>>

\* NothingSaidIsMissed, turn by turn.
LEMMA MissedParts ==
  NothingSaidIsMissed <=>
    (buffer # None /\ "two" \notin odd =>
       \A t \in Turn : Caught(buffer.chunks, turn[t].question, turn[t].said))
  BY DEF NothingSaidIsMissed, Caught

\* What has not been said is not missed.
LEMMA CaughtNothing ==
  ASSUME NEW chunks \in Seq(Chunk), NEW q
  PROVE  Caught(chunks, q, 0)
<1>1. Len(chunks) \in Nat /\ 0 \in 0 .. 0
  OBVIOUS
<1>2. \A i \in 1 .. 0 : FALSE
  OBVIOUS
<1>3. ~(0 < 0) /\ 0 <= Len(chunks)
  BY <1>1
<1> QED BY <1>1, <1>2, <1>3 DEF Caught

\* A chunk that finds room goes behind those that were said before it.
LEMMA CaughtAppend ==
  ASSUME NEW chunks \in Seq(Chunk), NEW q, NEW said \in Nat, Caught(chunks, q, said),
         <<q, said + 1>> \in Chunk, ~(Len(chunks) >= MaxKept)
  PROVE  Caught(Append(chunks, <<q, said + 1>>), q, said + 1)
<1> DEFINE x == <<q, said + 1>>
           r == Append(chunks, x)
<1>1. Len(chunks) \in Nat /\ MaxKept \in Nat
  BY Bounds
<1>2. said <= Len(chunks) /\ \A i \in 1 .. said : chunks[Len(chunks) - said + i] = <<q, i>>
  <2>1. PICK k \in 0 .. said :
          /\ k < said => Len(chunks) >= MaxKept
          /\ k <= Len(chunks)
          /\ \A i \in 1 .. k : chunks[Len(chunks) - k + i] = <<q, i>>
    BY DEF Caught
  <2>2. k = said
    BY <2>1
  <2> QED BY <2>1, <2>2
<1>3. /\ Len(r) = Len(chunks) + 1 /\ r[Len(chunks) + 1] = x
      /\ \A i \in 1 .. Len(chunks) : r[i] = chunks[i]
  BY AppendProperties
<1> HIDE DEF r
<1>4. ASSUME NEW i \in 1 .. said + 1 PROVE r[Len(r) - (said + 1) + i] = <<q, i>>
  <2>1. Len(r) - (said + 1) + i = Len(chunks) - said + i
    BY <1>1, <1>3
  <2>2. CASE i = said + 1
    <3>1. Len(chunks) - said + i = Len(chunks) + 1
      BY <1>1, <2>2
    <3> QED BY <1>3, <2>1, <2>2, <3>1
  <2>3. CASE i # said + 1
    <3>1. i \in 1 .. said /\ Len(chunks) - said + i \in 1 .. Len(chunks)
      BY <1>1, <1>2, <2>3
    <3> QED BY <1>2, <1>3, <2>1, <3>1
  <2> QED BY <2>2, <2>3
<1>5. said + 1 \in 0 .. said + 1 /\ said + 1 <= Len(r) /\ ~(said + 1 < said + 1)
  BY <1>1, <1>2, <1>3
<1>6. Caught(r, q, said + 1)
  BY <1>4, <1>5 DEF Caught
<1> QED BY <1>6 DEF r

\* A chunk that finds no room may be missed.
LEMMA CaughtFull ==
  ASSUME NEW chunks, NEW q, NEW said \in Nat, Caught(chunks, q, said), Len(chunks) >= MaxKept
  PROVE  Caught(chunks, q, said + 1)
<1>1. PICK k \in 0 .. said :
        /\ k <= Len(chunks)
        /\ \A i \in 1 .. k : chunks[Len(chunks) - k + i] = <<q, i>>
  BY DEF Caught
<1>2. k \in 0 .. said + 1
  OBVIOUS
<1> QED BY <1>1, <1>2 DEF Caught

\* The ways of a turn t, and of all turns.
Went(t, said) ==
  /\ Live(t)
  /\ \A u \in Turn : u # t => turn'[u] = turn[u]
  /\ turn'[t].question = turn[t].question
  /\ turn'[t].said = said
  /\ turn'[t].pc # "none"
  /\ turn'[t].pc = "request" => said = 0
Stayed == \A u \in Turn : turn'[u] \in {turn[u], NoTurn}
CalmBuffer == buffer' # None => buffer # None /\ buffer'.chunks = buffer.chunks

\* What a turn does to the turns and to the text of the buffer.
TextStep(t) ==
  \/ CalmBuffer /\ (Stayed \/ Went(t, turn[t].said) \/ Went(t, 0))
  \/ /\ turn[t].pc = "request" /\ Went(t, turn[t].said)
     /\ buffer' = NoBuffer
  \/ /\ Went(t, turn[t].said + 1)
     /\ buffer # None /\ ~(Len(buffer.chunks) >= MaxKept)
     /\ buffer'.chunks = Append(buffer.chunks, <<turn[t].question, turn[t].said + 1>>)
  \/ /\ Went(t, turn[t].said + 1)
     /\ buffer' = buffer
     /\ buffer = None \/ Len(buffer.chunks) >= MaxKept

\* A turn that goes on somewhere else, or is over.
LEMMA TurnToGoes ==
  ASSUME TypeOK, NEW t \in Turn, Live(t)
  PROVE  /\ \A pc \in Place : 
           /\ TurnTo(t, pc)
           /\ pc # "none"
           /\ pc = "request" => turn[t].said = 0
           => Went(t, turn[t].said)
         /\ TurnOver(t) => Stayed
<1>1. turn \in [Turn -> TurnRec] /\ turn[t] \in TurnRec
  BY TypeParts
<1>2. ASSUME NEW pc \in Place, TurnTo(t, pc), pc # "none",
             pc = "request" => turn[t].said = 0
      PROVE  Went(t, turn[t].said)
  <2>1. turn' = [turn EXCEPT ![t].pc = pc]
    BY <1>2 DEF TurnTo
  <2>2. \A u \in Turn : u # t => turn'[u] = turn[u]
    BY <1>1, <2>1
  <2>3. /\ turn'[t].question = turn[t].question /\ turn'[t].said = turn[t].said
        /\ turn'[t].pc = pc
    BY <1>1, <2>1 DEF TurnRec
  <2> QED BY <1>2, <2>2, <2>3 DEF Went
<1>3. TurnOver(t) => Stayed
  BY <1>1 DEF TurnOver, Stayed
<1> QED BY <1>2, <1>3

\* MarkedComplete changes no chunk.
LEMMA MarkedKeeps ==
  ASSUME TypeOK
  PROVE  MarkedComplete # None => buffer # None /\ MarkedComplete.chunks = buffer.chunks
<1>1. buffer # None => buffer \in Kept
  BY TypeParts
<1> QED BY <1>1 DEF MarkedComplete, Kept

\* Sending, too, lets the turn go on or ends turns.
LEMMA SendsGoes ==
  ASSUME TypeOK, NEW t \in Turn, Live(t), NEW msgs, NEW pc \in Place, NEW b,
         Sends(t, msgs, pc, b), pc = "request" => turn[t].said = 0,
         b # None => buffer # None /\ b.chunks = buffer.chunks
  PROVE  CalmBuffer /\ (Stayed \/ Went(t, turn[t].said))
<1>1. CASE Crash
  BY <1>1 DEF Crash, CalmBuffer, Stayed
<1>2. CASE TurnOver(t) /\ UNCHANGED <<conn, buffer>>
  BY <1>2, TurnToGoes DEF CalmBuffer
<1>3. CASE buffer' = b /\ IF pc = "none" THEN TurnOver(t) ELSE TurnTo(t, pc)
  BY <1>3, TurnToGoes DEF CalmBuffer
<1> QED BY <1>1, <1>2, <1>3 DEF Sends

\* Each action of a turn is a TextStep.
LEMMA TurnStepText ==
  ASSUME TypeOK, TextInv, NEW t \in Turn, TurnStep(t)
  PROVE  TextStep(t) /\ odd' = odd
<1>1. /\ turn \in [Turn -> TurnRec] /\ turn[t] \in TurnRec
      /\ buffer # None => buffer \in Kept
  BY TypeParts
<1>2. MarkedComplete # None => buffer # None /\ MarkedComplete.chunks = buffer.chunks
  BY MarkedKeeps
<1>3. CASE RequestFails(t)
  <2>1. Live(t) /\ turn[t].said = 0 /\ odd' = odd
    BY <1>3 DEF RequestFails, Live, TextInv
  <2>2. \/ Sends(t, <<[kind |-> "error"]>>, "request", buffer)
        \/ /\ TurnTo(t, "error") \/ TurnTo(t, "fallback")
           /\ buffer' = buffer
    BY <1>3 DEF RequestFails
  <2>3. CASE Sends(t, <<[kind |-> "error"]>>, "request", buffer)
    BY <2>1, <2>3, SendsGoes DEF TextStep, Place
  <2>4. CASE (TurnTo(t, "error") \/ TurnTo(t, "fallback")) /\ buffer' = buffer
    BY <2>1, <2>4, TurnToGoes DEF TextStep, CalmBuffer, Place
  <2> QED BY <2>1, <2>2, <2>3, <2>4
<1>4. CASE StreamBegins(t)
  <2>1. Live(t) /\ turn[t].pc = "request" /\ odd' = odd
    BY <1>4 DEF StreamBegins, Live
  <2>2. Went(t, turn[t].said)
    BY <1>4, <2>1, TurnToGoes DEF StreamBegins, Place
  <2>3. buffer' = NoBuffer \/ CalmBuffer
    BY <1>4 DEF StreamBegins, CalmBuffer
  <2> QED BY <2>1, <2>2, <2>3 DEF TextStep
<1>5. CASE Line(t)
  <2>1. Live(t) /\ odd' = odd
    BY <1>5 DEF Line, Live
  <2>2. CASE TurnOver(t) /\ buffer' = None
    BY <2>1, <2>2, TurnToGoes DEF TextStep, CalmBuffer
  <2>3. CASE /\ turn' = [turn EXCEPT ![t].said = @ + 1]
             /\ buffer' = IF buffer = None \/ Len(buffer.chunks) >= MaxKept THEN buffer
                          ELSE [buffer EXCEPT !.chunks =
                                  Append(@, <<turn[t].question, turn[t].said + 1>>)]
    <3>1. turn[t].pc = "stream"
      BY <1>5 DEF Line
    <3>2. \A u \in Turn : u # t => turn'[u] = turn[u]
      BY <1>1, <2>3
    <3>3. /\ turn'[t].question = turn[t].question /\ turn'[t].said = turn[t].said + 1
          /\ turn'[t].pc = turn[t].pc
      BY <1>1, <2>3 DEF TurnRec
    <3>4. Went(t, turn[t].said + 1)
      BY <2>1, <3>1, <3>2, <3>3 DEF Went
    <3>5. \/ buffer' = buffer /\ (buffer = None \/ Len(buffer.chunks) >= MaxKept)
          \/ /\ buffer # None /\ ~(Len(buffer.chunks) >= MaxKept)
             /\ buffer' = [buffer EXCEPT !.chunks =
                              Append(@, <<turn[t].question, turn[t].said + 1>>)]
      BY <2>3
    <3>6. ASSUME buffer # None, buffer' = [buffer EXCEPT !.chunks =
                                  Append(@, <<turn[t].question, turn[t].said + 1>>)]
          PROVE  buffer'.chunks =
                   Append(buffer.chunks, <<turn[t].question, turn[t].said + 1>>)
      BY <1>1, <3>6 DEF Kept
    <3> QED BY <2>1, <3>4, <3>5, <3>6 DEF TextStep
  <2> QED BY <1>5, <2>1, <2>2, <2>3 DEF Line
<1>6. CASE StreamEnds(t)
  <2>1. Live(t) /\ odd' = odd
    BY <1>6 DEF StreamEnds, Live
  <2>2. /\ \E pc \in {"tools", "fallback", "end", "cut"} : TurnTo(t, pc)
        /\ buffer' = buffer \/ buffer' = MarkedComplete
    BY <1>6 DEF StreamEnds
  <2>3. Went(t, turn[t].said)
    BY <2>1, <2>2, TurnToGoes DEF Place
  <2>4. CalmBuffer
    BY <1>2, <2>2 DEF CalmBuffer
  <2> QED BY <2>1, <2>3, <2>4 DEF TextStep
<1>7. CASE ToolResult(t)
  <2>1. Live(t) /\ odd' = odd /\ TurnTo(t, "results")
    BY <1>7 DEF ToolResult, Live
  <2>2. \/ buffer' = buffer
        \/ buffer # None /\ buffer' = [buffer EXCEPT !.images = Append(@, spent.images + 1)]
    BY <1>7 DEF ToolResult
  <2>3. CalmBuffer
    BY <1>1, <2>2 DEF CalmBuffer, Kept
  <2>4. Went(t, turn[t].said)
    BY <2>1, TurnToGoes DEF Place
  <2> QED BY <2>1, <2>3, <2>4 DEF TextStep
<1>8. CASE RoundOver(t)
  <2>1. Live(t) /\ odd' = odd /\ CalmBuffer
    BY <1>8 DEF RoundOver, Live, CalmBuffer
  <2>2. CASE turn' = [turn EXCEPT ![t].pc = "request", ![t].said = 0, ![t].rounds = @ + 1]
    <3>1. \A u \in Turn : u # t => turn'[u] = turn[u]
      BY <1>1, <2>2
    <3>2. /\ turn'[t].question = turn[t].question /\ turn'[t].said = 0
          /\ turn'[t].pc = "request"
      BY <1>1, <2>2 DEF TurnRec
    <3>3. Went(t, 0)
      BY <2>1, <3>1, <3>2 DEF Went
    <3> QED BY <2>1, <3>3 DEF TextStep
  <2>3. CASE TurnTo(t, "aborted")
    BY <2>1, <2>3, TurnToGoes DEF TextStep, Place
  <2> QED BY <1>8, <2>2, <2>3 DEF RoundOver
<1>9. CASE Fallback(t)
  <2>1. Live(t) /\ odd' = odd
    BY <1>9 DEF Fallback, Live
  <2>2. CalmBuffer /\ (Stayed \/ Went(t, turn[t].said))
    <3>1. "end" \in Place /\ "end" # "request"
      BY DEF Place
    <3> QED BY <1>2, <1>9, <2>1, <3>1, SendsGoes DEF Fallback
  <2> QED BY <2>1, <2>2 DEF TextStep
<1>10. CASE TurnEnds(t)
  <2>1. Live(t) /\ odd' = odd
    BY <1>10 DEF TurnEnds, Live
  <2>2. PICK pc \in {"none", "error", "fallback"} : \E msgs : Sends(t, msgs, pc, buffer)
    BY <1>10 DEF TurnEnds
  <2>3. CalmBuffer /\ (Stayed \/ Went(t, turn[t].said))
    <3>1. pc \in Place /\ pc # "request"
      BY DEF Place
    <3>2. PICK msgs : Sends(t, msgs, pc, buffer)
      BY <2>2
    <3> QED BY <2>1, <3>1, <3>2, SendsGoes
  <2> QED BY <2>1, <2>3 DEF TextStep
<1> QED BY <1>3, <1>4, <1>5, <1>6, <1>7, <1>8, <1>9, <1>10 DEF TurnStep

\* A TextStep keeps the invariant.
LEMMA TextStepKeeps ==
  ASSUME TypeOK, TypeOK', TextInv, NEW t \in Turn, TextStep(t), odd' = odd
  PROVE  TextInv'
<1>1. turn \in [Turn -> TurnRec] /\ turn[t] \in TurnRec /\ (buffer # None => buffer \in Kept)
  BY TypeParts
<1>2. /\ turn[t].question \in Question /\ turn[t].said \in 0 .. MaxChunks
      /\ turn[t].said \in Nat /\ (buffer # None => buffer.chunks \in Seq(Chunk))
  BY <1>1, Bounds DEF TurnRec, Kept
<1>3. NoTurn.pc = "none" /\ NoTurn.said = 0
  BY DEF NoTurn
<1>4. \/ Stayed
      \/ Went(t, turn'[t].said)
  BY DEF TextStep, Went
<1>5. \A u \in Turn : turn'[u].pc \in {"none", "request"} => turn'[u].said = 0
  BY <1>3, <1>4 DEF Stayed, Went, TextInv
<1>6. \A u \in Turn : Live(u)' => Live(u)
  BY <1>3, <1>4 DEF Stayed, Went, Live
<1>7. "two" \notin odd' => \A u, v \in Turn : Live(u)' /\ Live(v)' => u = v
  BY <1>6 DEF TextInv
<1>8. buffer' # None => buffer'.chunks \in Seq(Chunk)
  <2>1. buffer' # None => buffer' \in Kept
    BY TypeParts DEF TypeOK
  <2> QED BY <2>1 DEF Kept
<1>9. turn'[t].said \in 0 .. MaxChunks
  BY DEF TypeOK
<1>10. ASSUME buffer' # None, "two" \notin odd', NEW u \in Turn
      PROVE  Caught(buffer'.chunks, turn'[u].question, turn'[u].said)
  <2>1. buffer # None => Caught(buffer.chunks, turn[u].question, turn[u].said)
    BY <1>10, MissedParts DEF TextInv
  <2>2. CASE CalmBuffer /\ (Stayed \/ Went(t, turn[t].said) \/ Went(t, 0))
    <3>1. buffer # None /\ buffer'.chunks = buffer.chunks
      BY <1>10, <2>2 DEF CalmBuffer
    <3>2. \/ turn'[u].said = 0
          \/ turn'[u].said = turn[u].said /\ turn'[u].question = turn[u].question
      BY <1>3, <2>2 DEF Stayed, Went
    <3>3. CASE turn'[u].said = 0
      BY <1>2, <3>1, <3>3, CaughtNothing
    <3>4. CASE turn'[u].said = turn[u].said /\ turn'[u].question = turn[u].question
      BY <2>1, <3>1, <3>4
    <3> QED BY <3>2, <3>3, <3>4
  <2>3. CASE turn[t].pc = "request" /\ Went(t, turn[t].said) /\ buffer' = NoBuffer
    <3>1. turn'[u].said = 0
      <4>1. turn[t].said = 0
        BY <2>3 DEF TextInv
      <4>2. CASE u = t
        BY <2>3, <4>1, <4>2 DEF Went
      <4>3. CASE u # t
        <5>1. turn'[u] = turn[u] /\ Live(t)
          BY <2>3, <4>3 DEF Went
        <5>2. ~Live(u)
          BY <1>10, <4>3, <5>1 DEF TextInv
        <5> QED BY <5>1, <5>2 DEF Live, TextInv
      <4> QED BY <4>2, <4>3
    <3>2. buffer'.chunks \in Seq(Chunk)
      BY <2>3, EmptyTyped DEF Kept
    <3> QED BY <3>1, <3>2, CaughtNothing
  <2>4. ASSUME u # t, Went(t, turn[t].said + 1)
        PROVE  Caught(buffer'.chunks, turn'[u].question, turn'[u].said)
    <3>1. turn'[u] = turn[u] /\ Live(t)
      BY <2>4 DEF Went
    <3>2. ~Live(u)
      BY <1>10, <2>4, <3>1 DEF TextInv
    <3>3. turn'[u].said = 0
      BY <3>1, <3>2 DEF Live, TextInv
    <3> QED BY <1>8, <1>10, <3>3, CaughtNothing
  <2>5. ASSUME u = t, Went(t, turn[t].said + 1), buffer # None,
               ~(Len(buffer.chunks) >= MaxKept),
               buffer'.chunks = Append(buffer.chunks, <<turn[t].question, turn[t].said + 1>>)
        PROVE  Caught(buffer'.chunks, turn'[u].question, turn'[u].said)
    <3>1. turn'[t].question = turn[t].question /\ turn'[t].said = turn[t].said + 1
      BY <2>5 DEF Went
    <3>2. <<turn[t].question, turn[t].said + 1>> \in Chunk
      BY <1>2, <1>9, <3>1 DEF Chunk
    <3>3. Caught(Append(buffer.chunks, <<turn[t].question, turn[t].said + 1>>),
                 turn[t].question, turn[t].said + 1)
      BY <1>2, <2>1, <2>5, <3>2, CaughtAppend
    <3> QED BY <2>5, <3>1, <3>3
  <2>6. ASSUME u = t, Went(t, turn[t].said + 1), buffer' = buffer,
               buffer = None \/ Len(buffer.chunks) >= MaxKept
        PROVE  Caught(buffer'.chunks, turn'[u].question, turn'[u].said)
    <3>1. turn'[t].question = turn[t].question /\ turn'[t].said = turn[t].said + 1
      BY <2>6 DEF Went
    <3>2. Caught(buffer.chunks, turn[t].question, turn[t].said + 1)
      BY <1>2, <1>10, <2>1, <2>6, CaughtFull
    <3> QED BY <2>6, <3>1, <3>2
  <2> QED BY <2>2, <2>3, <2>4, <2>5, <2>6 DEF TextStep
<1>11. NothingSaidIsMissed'
  BY <1>10 DEF NothingSaidIsMissed, Caught
<1> QED BY <1>5, <1>7, <1>11 DEF TextInv

\* What a connection does keeps it: a question starts a turn that has said nothing.
LEMMA ConnStepText ==
  ASSUME TypeOK, TypeOK', TextInv, NEW c \in Conn, ConnStep(c) \/ Expire
  PROVE  TextInv'
<1>1. /\ turn \in [Turn -> TurnRec] /\ (buffer # None => buffer \in Kept)
      /\ (buffer' # None => buffer'.chunks \in Seq(Chunk))
  <2>1. buffer' # None => buffer' \in Kept
    BY DEF TypeOK, Kept
  <2> QED BY <2>1, TypeParts DEF Kept
<1>2. CASE HandleChat(c)
  <2> DEFINE t == CHOOSE u \in Turn : ~Live(u)
             new == [NoTurn EXCEPT !.pc = "request", !.conn = c,
                                   !.question = Head(conn[c].inbox).question]
  <2>1. t \in Turn /\ ~Live(t)
    BY <1>2 DEF HandleChat
  <2>2. turn' = [turn EXCEPT ![t] = new]
    BY <1>2 DEF HandleChat
  <2>3. new.pc = "request" /\ new.said = 0
    BY DEF NoTurn
  <2>4. /\ buffer' = buffer
        /\ odd' = IF \E u \in Turn : Live(u) THEN odd \cup {"two"} ELSE odd
    BY <1>2 DEF HandleChat
  <2> HIDE DEF t, new
  <2>5. turn'[t] = new /\ \A u \in Turn : u # t => turn'[u] = turn[u]
    BY <1>1, <2>1, <2>2
  <2>6. \A u \in Turn : turn'[u].pc \in {"none", "request"} => turn'[u].said = 0
    BY <2>3, <2>5 DEF TextInv
  <2>7. "two" \notin odd' => "two" \notin odd /\ \A u \in Turn : ~Live(u)
    BY <2>4
  <2>8. "two" \notin odd' => \A u, v \in Turn : Live(u)' /\ Live(v)' => u = v
    BY <2>5, <2>7 DEF Live
  <2>9. ASSUME buffer' # None, "two" \notin odd', NEW u \in Turn
        PROVE  Caught(buffer'.chunks, turn'[u].question, turn'[u].said)
    <3>1. turn'[u].said = 0
      BY <2>3, <2>5, <2>7, <2>9 DEF Live, TextInv
    <3> QED BY <1>1, <2>9, <3>1, CaughtNothing
  <2>10. NothingSaidIsMissed'
    BY <2>9 DEF NothingSaidIsMissed, Caught
  <2> QED BY <2>6, <2>8, <2>10 DEF TextInv
<1>3. ASSUME turn' = turn, odd \subseteq odd', CalmBuffer
      PROVE  TextInv'
  <2>1. NothingSaidIsMissed'
    BY <1>3 DEF NothingSaidIsMissed, CalmBuffer, TextInv
  <2> QED BY <1>3, <2>1 DEF TextInv, Live
<1>4. CASE Replay(c)
  <2>1. turn' = turn /\ odd \subseteq odd'
    BY <1>4 DEF Replay
  <2>2. \/ buffer' = None
        \/ buffer # None /\ buffer' = [buffer EXCEPT !.images = <<>>]
    BY <1>4 DEF Replay
  <2>3. CalmBuffer
    BY <1>1, <2>2 DEF CalmBuffer, Kept
  <2> QED BY <1>3, <2>1, <2>3
<1>5. CASE Expire
  BY <1>3, <1>5 DEF Expire, CalmBuffer
<1>6. CASE HandleStop(c) \/ HandleResume(c) \/ Removed(c)
  <2>1. turn' = turn /\ odd' = odd /\ buffer' = buffer
    BY <1>6 DEF HandleStop, HandleResume, Removed
  <2> QED BY <1>3, <2>1 DEF CalmBuffer
<1> QED BY <1>2, <1>4, <1>5, <1>6 DEF ConnStep

\* TextInv holds in every state.
LEMMA TextInvHolds == Spec => []TextInv
<1>1. Init => TextInv
  BY DEF Init, TextInv, NoTurn, Live, NothingSaidIsMissed
<1>2. Typed /\ TextInv /\ [Next]_vars => TextInv'
  <2> SUFFICES ASSUME Typed, TextInv, [Next]_vars PROVE TextInv'
    OBVIOUS
  <2>1. TypeOK /\ TypeOK'
    BY NextTyped DEF Typed
  <2>2. ASSUME UNCHANGED <<turn, buffer, odd>> PROVE TextInv'
    BY <2>2 DEF TextInv, Live, NothingSaidIsMissed
  <2>3. ASSUME NEW t \in Turn, TurnStep(t) PROVE TextInv'
    BY <2>1, <2>3, TurnStepText, TextStepKeeps
  <2>4. ASSUME NEW c \in Conn, ConnStep(c) PROVE TextInv'
    BY <2>1, <2>4, ConnStepText
  <2>5. CASE Expire
    BY <2>1, <2>5, Bounds, ConnStepText
  <2>6. CASE Break \/ PageStep \/ Ask \/ Stop \/ UNCHANGED vars
    <3>1. UNCHANGED <<turn, buffer, odd>>
      BY <2>6 DEF Break, PageStep, SendOff, Hear, Closed, Connect, Retry, ResumeTimesOut, Ask,
                  Stop, vars
    <3> QED BY <2>2, <3>1
  <2> QED BY <2>3, <2>4, <2>5, <2>6 DEF Next
<1> QED BY <1>1, <1>2, TypedHolds, PTL DEF Spec

\* What the turn that streams has said, and what it goes on to say while there is room, is what
\* the buffer ends in: a page that resumes misses nothing.
THEOREM NothingSaidIsMissedHolds == Spec => []NothingSaidIsMissed
<1>1. TextInv => NothingSaidIsMissed
  BY DEF TextInv
<1> QED BY <1>1, TextInvHolds, PTL
==============================================================================
