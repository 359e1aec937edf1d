----------------------------- MODULE HttpProofs -----------------------------
(***************************************************************************)
(* For any clients, endpoints, buffers and limits: no connection state of  *)
(* http_rest.c leaks or is confused, an upload that was accepted is ended, *)
(* and a client receives the response to its own request.                  *)
(***************************************************************************)
EXTENDS HttpServer, SequenceTheorems, TLAPS

LEMMA StateIsSome == \A h \in States : h # NoState
BY DEF States, NoState

(* Fields of a state are set to values of their types. *)
LEMMA StateWith ==
  \A h \in States :
    /\ \A v \in Endpoints \cup {None} : [h EXCEPT !.handle = v] \in States
    /\ \A v \in Nat : /\ [h EXCEPT !.file = v] \in States /\ [h EXCEPT !.left = v] \in States
                      /\ [h EXCEPT !.post_left = v] \in States
    /\ \A v \in 0..(MaxPieces + 1) : [h EXCEPT !.req = v] \in States
    /\ \A v \in 0..(MaxRetries - 1) : [h EXCEPT !.retries = v] \in States
BY DEF States

(* A state that is sending: chunks file .. Length are left of its response *)
Sends(h) ==
  /\ h \in States /\ h.handle \in Endpoints /\ h.post_left = 0 /\ h.left > 0
  /\ h.file + h.left = Length[h.handle] + 1

(* What an action of c may change of the others: nothing *)
Local(c) ==
  \A d \in Connections \ {c} :
    /\ tcp'[d] = tcp[d] /\ hs'[d] = hs[d] /\ segments'[d] = segments[d]
    /\ received'[d] = received[d] /\ post'[d] = post[d] /\ served'[d] = served[d]

(* UploadsEnd, for one connection *)
Told(c) == post[c] = "begun" <=> (hs[c] # NoState /\ hs[c].post_left > 0)

(* The step keeps types, its connection's state and what the application   *)
(* knows of its upload, and the other connections.                         *)
Sound(c) == TypesOK' /\ StateOK(c)' /\ Told(c)' /\ Local(c)

LEMMA InitFileSends ==
  ASSUME NEW e \in Endpoints, NEW is_09 \in BOOLEAN
  PROVE  Sends(InitFile(e, is_09)) /\ InitFile(e, is_09).file \in {1, 2}
         /\ InitFile(e, is_09).handle = e
<1> USE HttpAssumption DEF HttpAssumption
<1> DEFINE skip == IF is_09 /\ Length[e] > 1 THEN 1 ELSE 0
<1>1. skip \in {0, 1} /\ Length[e] \in Nat /\ Length[e] - skip > 0
  OBVIOUS
<1>2. New \in States /\ 1 + skip \in Nat /\ Length[e] - skip \in Nat
  BY <1>1 DEF New, States
<1>3. InitFile(e, is_09) = [[[New EXCEPT !.handle = e] EXCEPT !.file = 1 + skip]
                                EXCEPT !.left = Length[e] - skip]
  BY DEF InitFile
<1> HIDE DEF skip
<1>4. [New EXCEPT !.handle = e] \in States
  BY <1>2, StateWith, Zenon
<1>5. [[New EXCEPT !.handle = e] EXCEPT !.file = 1 + skip] \in States
  BY <1>2, <1>4, StateWith, Zenon
<1>6. InitFile(e, is_09) \in States
  BY <1>2, <1>3, <1>5, StateWith, Zenon
<1>7. /\ InitFile(e, is_09).handle = e /\ InitFile(e, is_09).file = 1 + skip
      /\ InitFile(e, is_09).left = Length[e] - skip /\ InitFile(e, is_09).post_left = 0
  BY <1>3 DEF New
<1>8. QED
  BY <1>1, <1>6, <1>7 DEF Sends

LEMMA FindFileFinds == \A uri : FindFile(uri) \in Endpoints
BY HttpAssumption DEF HttpAssumption, FindFile, Handler, None

LEMMA ChunksAre ==
  ASSUME NEW h, Sends(h), NEW k \in 0..h.left
  PROVE  /\ Chunks(h, k) \in Seq(Endpoints \X Nat) /\ Len(Chunks(h, k)) = k
         /\ \A i \in 1..k : Chunks(h, k)[i] = <<h.handle, h.file + i - 1>>
<1>1. \A i \in 1..k : <<h.handle, h.file + i - 1>> \in Endpoints \X Nat
  BY DEF Sends, States
<1>2. QED
  BY <1>1 DEF Chunks, Sends, States

(* What is queued at TCP, and the state that stays, after http_send *)
SentSome(c, h, waiting, told) ==
  \E k \in 0..h.left, queue \in Seq(Endpoints \X Nat) :
    /\ queue = waiting \o Chunks(h, k) /\ Len(queue) = Len(waiting) + k
    /\ Len(waiting) + k <= SendBuffer
    /\ segments' = [segments EXCEPT ![c] = queue] /\ post' = told
    /\ \/ /\ k = h.left /\ hs' = [hs EXCEPT ![c] = NoState]
          /\ \E how \in {"closing", "pending"} : tcp' = [tcp EXCEPT ![c] = how]
          /\ served' = [served EXCEPT ![c] = h.handle]
       \/ /\ k < h.left /\ hs' = [hs EXCEPT ![c] = Sent(h, k)] /\ Sends(Sent(h, k))
          /\ Sent(h, k).handle = h.handle /\ Sent(h, k).file = h.file + k
          /\ UNCHANGED <<tcp, served>>

LEMMA SendSteps ==
  ASSUME TypesOK, NEW c \in Connections, NEW h, Sends(h),
         NEW waiting \in Seq(Endpoints \X Nat), Len(waiting) <= SendBuffer,
         NEW told, Send(c, h, waiting, told)
  PROVE  SentSome(c, h, waiting, told)
<1> USE DEF SentSome
<1>1. PICK k \in Writable(h, waiting) :
        /\ segments' = [segments EXCEPT ![c] = waiting \o Chunks(h, k)] /\ post' = told
        /\ IF k = h.left THEN Eof(c, h) ELSE Set(c, Sent(h, k)) /\ UNCHANGED <<tcp, served>>
  BY DEF Send
<1>2. k \in 0..h.left /\ Len(waiting) + k <= SendBuffer
  BY DEF Writable
<1> DEFINE queue == waiting \o Chunks(h, k)
<1>3. queue \in Seq(Endpoints \X Nat) /\ Len(queue) = Len(waiting) + k
  <2>1. Chunks(h, k) \in Seq(Endpoints \X Nat) /\ Len(Chunks(h, k)) = k
    BY <1>2, ChunksAre, Zenon
  <2>2. QED
    BY <2>1, ConcatProperties
<1>4. h.left \in Nat
  BY DEF Sends, States
<1>5. CASE k = h.left
  <2>1. Eof(c, h)
    BY <1>1, <1>5
  <2>2. /\ hs' = [hs EXCEPT ![c] = NoState]
        /\ \E how \in {"closing", "pending"} : tcp' = [tcp EXCEPT ![c] = how]
        /\ served' = [served EXCEPT ![c] = h.handle]
    BY <2>1, Zenon DEF Eof, CloseState, Free, Set
  <2>3. QED
    BY <2>2, <1>1, <1>2, <1>3, <1>5, Zenon
<1>6. CASE k < h.left
  <2>1. Set(c, Sent(h, k)) /\ UNCHANGED <<tcp, served>>
    BY <1>1, <1>2, <1>4, <1>6
  <2>2. /\ Sent(h, k).post_left = h.post_left /\ Sent(h, k).handle = h.handle
        /\ Sent(h, k).file = h.file + k /\ Sent(h, k).left = h.left - k
    BY DEF Sent, Sends, States
  <2>3. h.file + k \in Nat /\ h.left - k \in Nat /\ h.left - k > 0
    BY <1>2, <1>6 DEF Sends, States
  <2>4. Sent(h, k) \in States
    <3>1. [h EXCEPT !.file = h.file + k] \in States
      BY <2>3 DEF Sends, States
    <3>2. [[h EXCEPT !.file = h.file + k] EXCEPT !.left = h.left - k] \in States
      BY <3>1, <2>3 DEF States
    <3>3. QED
      BY <3>2 DEF Sent, Sends, States
  <2>5. /\ Sends(Sent(h, k)) /\ Sent(h, k).handle = h.handle
        /\ Sent(h, k).file = h.file + k
    BY <2>2, <2>3, <2>4, <1>2 DEF Sends, States
  <2>6. /\ queue = waiting \o Chunks(h, k) /\ segments' = [segments EXCEPT ![c] = queue]
        /\ hs' = [hs EXCEPT ![c] = Sent(h, k)] /\ post' = told /\ UNCHANGED <<tcp, served>>
    BY <2>1, <1>1 DEF Set
  <2>7. QED
    BY <2>5, <2>6, <1>2, <1>3, <1>6, Zenon
<1>7. k = h.left \/ k < h.left
  BY <1>2, <1>4
<1>8. QED
  BY <1>5, <1>6, <1>7, Zenon

(* A connection that is closed is closed, and the application told. *)
LEMMA CloseSound ==
  ASSUME TypesOK, NEW c \in Connections, StateOK(c), Told(c), hs[c] # NoState,
         NEW h, h.post_left = hs[c].post_left,
         Close(c, h), UNCHANGED <<segments, buffer, received, served, careful>>
  PROVE  Sound(c)
<1>1. PICK how \in {"closing", "pending"} : tcp' = [tcp EXCEPT ![c] = how]
  BY DEF Close, CloseState
<1>2. hs' = [hs EXCEPT ![c] = NoState]
  BY DEF Close, CloseState, Free, Set
<1>3. post' = IF h.post_left = 0 THEN post ELSE [post EXCEPT ![c] = "finished"]
  BY DEF Close
<1>4. hs[c] \in States /\ h.post_left \in Nat
  BY DEF TypesOK, States
<1>5. post' \in [Connections -> {"none", "begun", "finished", "lost"}] /\ post'[c] # "begun"
      /\ \A d \in Connections \ {c} : post'[d] = post[d]
  BY <1>3, <1>4 DEF TypesOK, Told
<1>6. TypesOK'
  BY <1>1, <1>2, <1>5 DEF TypesOK
<1>7. StateOK(c)' /\ Told(c)'
  BY <1>1, <1>2, <1>5 DEF TypesOK, StateOK, Told
<1>8. Local(c)
  BY <1>1, <1>2, <1>5 DEF TypesOK, Local
<1>9. QED
  BY <1>6, <1>7, <1>8 DEF Sound

(* A response that is sent goes on, or its connection is closed. *)
LEMMA SendSound ==
  ASSUME TypesOK, NEW c \in Connections, tcp[c] = "open",
         NEW h, Sends(h), NEW waiting \in Seq(Endpoints \X Nat), Len(waiting) <= SendBuffer,
         NEW told \in [Connections -> {"none", "begun", "finished", "lost"}],
         told[c] # "begun", \A d \in Connections \ {c} : told[d] = post[d],
         Send(c, h, waiting, told), UNCHANGED careful,
         buffer' \in [Endpoints -> Connections \cup {None}],
         received' \in [Connections -> Seq((Connections \cup {None}) \X Nat)],
         \A d \in Connections \ {c} : received'[d] = received[d]
  PROVE  Sound(c)
<1>0. SentSome(c, h, waiting, told)
  BY SendSteps
<1>1. PICK k \in 0..h.left, queue \in Seq(Endpoints \X Nat) :
        /\ queue = waiting \o Chunks(h, k) /\ Len(queue) = Len(waiting) + k
        /\ Len(waiting) + k <= SendBuffer
        /\ segments' = [segments EXCEPT ![c] = queue] /\ post' = told
        /\ \/ /\ k = h.left /\ hs' = [hs EXCEPT ![c] = NoState]
              /\ \E how \in {"closing", "pending"} : tcp' = [tcp EXCEPT ![c] = how]
              /\ served' = [served EXCEPT ![c] = h.handle]
           \/ /\ k < h.left /\ hs' = [hs EXCEPT ![c] = Sent(h, k)] /\ Sends(Sent(h, k))
              /\ Sent(h, k).handle = h.handle /\ Sent(h, k).file = h.file + k
              /\ UNCHANGED <<tcp, served>>
  BY <1>0, Zenon DEF SentSome
<1>2. /\ segments' \in [Connections -> Seq(Endpoints \X Nat)] /\ Len(segments'[c]) <= SendBuffer
      /\ post' \in [Connections -> {"none", "begun", "finished", "lost"}] /\ post'[c] # "begun"
      /\ \A d \in Connections \ {c} : segments'[d] = segments[d] /\ post'[d] = post[d]
  BY <1>1 DEF TypesOK
<1>3. CASE /\ k = h.left /\ hs' = [hs EXCEPT ![c] = NoState]
           /\ \E how \in {"closing", "pending"} : tcp' = [tcp EXCEPT ![c] = how]
           /\ served' = [served EXCEPT ![c] = h.handle]
  <2>1. PICK how \in {"closing", "pending"} : tcp' = [tcp EXCEPT ![c] = how]
    BY <1>3
  <2>2. TypesOK'
    <3>1. tcp' \in [Connections -> {"closed", "open", "closing", "pending"}]
      BY <2>1 DEF TypesOK
    <3>2. hs' \in [Connections -> States \cup {NoState}]
      BY <1>3 DEF TypesOK
    <3>3. served' \in [Connections -> Endpoints \cup {None}]
      BY <1>3 DEF TypesOK, Sends
    <3>4. careful' \in BOOLEAN
      BY DEF TypesOK
    <3>5. QED
      BY <3>1, <3>2, <3>3, <3>4, <1>2, Zenon DEF TypesOK
  <2>3. StateOK(c)' /\ Told(c)'
    BY <2>1, <1>2, <1>3 DEF TypesOK, StateOK, Told
  <2>4. Local(c)
    BY <2>1, <1>2, <1>3 DEF TypesOK, Local
  <2>5. QED
    BY <2>2, <2>3, <2>4 DEF Sound
<1>4. CASE /\ k < h.left /\ hs' = [hs EXCEPT ![c] = Sent(h, k)] /\ Sends(Sent(h, k))
           /\ UNCHANGED <<tcp, served>>
  <2> DEFINE s == Sent(h, k)
  <2>1. hs' = [hs EXCEPT ![c] = s] /\ Sends(s)
    BY <1>4
  <2> HIDE DEF s
  <2>2. s \in States /\ s # NoState /\ s.post_left = 0 /\ s.left > 0 /\ s.handle # None
        /\ s.file + s.left = Length[s.handle] + 1
    BY <2>1, StateIsSome, HttpAssumption DEF HttpAssumption, Sends, None
  <2>3. TypesOK'
    <3>1. hs' \in [Connections -> States \cup {NoState}]
      BY <2>1, <2>2 DEF TypesOK
    <3>2. QED
      BY <3>1, <1>2, <1>4, Zenon DEF TypesOK
  <2>4. hs'[c] = s /\ tcp'[c] = "open"
    BY <2>1, <1>4 DEF TypesOK
  <2>5. StateOK(c)' /\ Told(c)'
    BY <2>2, <2>4, <1>2 DEF StateOK, Told
  <2>6. Local(c)
    BY <2>1, <1>2, <1>4 DEF TypesOK, Local
  <2>7. QED
    BY <2>3, <2>5, <2>6 DEF Sound
<1>5. QED
  BY <1>1, <1>3, <1>4

LEMMA RespondSound ==
  ASSUME TypesOK, NEW c \in Connections, StateOK(c), hs[c] # NoState, hs[c].handle = None,
         NEW uri, NEW is_09 \in BOOLEAN,
         NEW told \in [Connections -> {"none", "begun", "finished", "lost"}],
         told[c] # "begun", \A d \in Connections \ {c} : told[d] = post[d],
         Respond(c, uri, is_09, told), UNCHANGED <<received, careful>>
  PROVE  Sound(c)
<1> DEFINE e == FindFile(uri)
           h == InitFile(e, is_09)
<1>1. e \in Endpoints
  BY FindFileFinds
<1> HIDE DEF e
<1>2. Sends(h)
  BY <1>1, InitFileSends
<1>3. buffer' = [buffer EXCEPT ![e] = c] /\ Send(c, h, segments[c], told)
  BY DEF Respond, e
<1> HIDE DEF h
<1>4. segments[c] \in Seq(Endpoints \X Nat) /\ Len(segments[c]) <= SendBuffer /\ tcp[c] = "open"
  BY DEF TypesOK, StateOK
<1>5. buffer' \in [Endpoints -> Connections \cup {None}]
  BY <1>1, <1>3 DEF TypesOK
<1>6. received' \in [Connections -> Seq((Connections \cup {None}) \X Nat)]
      /\ \A d \in Connections \ {c} : received'[d] = received[d]
  BY DEF TypesOK
<1>7. QED
  BY <1>2, <1>3, <1>4, <1>5, <1>6, SendSound

(* Content of an upload is counted, or ends it with a response. *)
LEMMA ContentSound ==
  ASSUME TypesOK, NEW c \in Connections, StateOK(c), hs[c] # NoState, hs[c].handle = None,
         NEW h \in States, h.handle = None, h.left = 0, NEW k \in Nat \ {0},
         PostContent(c, h, k), UNCHANGED <<received, careful>>
  PROVE  Sound(c)
<1>1. CASE /\ k < h.post_left
           /\ Set(c, [h EXCEPT !.post_left = @ - k]) /\ UNCHANGED tcp
           /\ post' = [post EXCEPT ![c] = "begun"]
           /\ UNCHANGED <<segments, buffer, served>>
  <2> DEFINE s == [h EXCEPT !.post_left = @ - k]
  <2>1. /\ s \in States /\ s # NoState /\ s.post_left > 0 /\ s.handle = None /\ s.left = 0
    <3>1. h.post_left - k \in Nat /\ h.post_left - k > 0
      BY <1>1 DEF States
    <3>2. s.post_left = h.post_left - k /\ s.handle = None /\ s.left = 0
      BY DEF States
    <3>3. [h EXCEPT !.post_left = h.post_left - k] \in States
      BY <3>1, StateWith, Zenon
    <3>4. QED
      BY <3>1, <3>2, <3>3, StateIsSome
  <2>2. hs' = [hs EXCEPT ![c] = s]
    BY <1>1 DEF Set
  <2> HIDE DEF s
  <2>3. hs' \in [Connections -> States \cup {NoState}] /\ hs'[c] = s
    BY <2>1, <2>2 DEF TypesOK
  <2>4. post' \in [Connections -> {"none", "begun", "finished", "lost"}] /\ post'[c] = "begun"
    BY <1>1 DEF TypesOK
  <2>5. TypesOK'
    BY <2>3, <2>4, <1>1, Zenon DEF TypesOK
  <2>6. StateOK(c)' /\ Told(c)'
    BY <2>1, <2>3, <2>4, <1>1 DEF StateOK, Told
  <2>7. Local(c)
    BY <2>2, <1>1 DEF TypesOK, Local
  <2>8. QED
    BY <2>5, <2>6, <2>7 DEF Sound
<1>2. CASE PostFinished(c)
  <2> DEFINE told == [post EXCEPT ![c] = "finished"]
  <2>1. /\ told \in [Connections -> {"none", "begun", "finished", "lost"}] /\ told[c] # "begun"
        /\ \A d \in Connections \ {c} : told[d] = post[d]
    BY DEF TypesOK
  <2>2. Respond(c, OtaStatus, FALSE, told)
    BY <1>2 DEF PostFinished
  <2> HIDE DEF told
  <2>3. QED
    BY <2>1, <2>2, RespondSound
<1>3. QED
  BY <1>1, <1>2 DEF PostContent

LEMMA AcceptSound ==
  ASSUME TypesOK, NEW c \in Connections, StateOK(c), Accept(c)
  PROVE  Sound(c)
<1>1. New \in States /\ New # NoState /\ New.handle = None /\ New.left = 0 /\ New.post_left = 0
  <2>1. New \in States
    BY HttpAssumption DEF HttpAssumption, New, States
  <2>2. QED
    BY <2>1, StateIsSome DEF New
<1>2. /\ tcp[c] = "closed" /\ segments[c] = <<>>
      /\ tcp' = [tcp EXCEPT ![c] = "open"] /\ hs' = [hs EXCEPT ![c] = New]
      /\ received' = [received EXCEPT ![c] = <<>>] /\ post' = [post EXCEPT ![c] = "none"]
      /\ served' = [served EXCEPT ![c] = None]
      /\ UNCHANGED <<segments, buffer, careful>>
  BY DEF Accept, Alloc, Set, StateOK
<1>3. hs' \in [Connections -> States \cup {NoState}] /\ hs'[c] = New
  BY <1>1, <1>2 DEF TypesOK
<1>4. TypesOK'
  <2>1. /\ tcp' \in [Connections -> {"closed", "open", "closing", "pending"}]
        /\ post' \in [Connections -> {"none", "begun", "finished", "lost"}]
        /\ served' \in [Connections -> Endpoints \cup {None}]
    BY <1>2 DEF TypesOK
  <2>2. received' \in [Connections -> Seq((Connections \cup {None}) \X Nat)]
    BY <1>2 DEF TypesOK
  <2>3. QED
    BY <2>1, <2>2, <1>2, <1>3, Zenon DEF TypesOK
<1>5. StateOK(c)' /\ Told(c)'
  BY <1>1, <1>2, <1>3 DEF TypesOK, StateOK, Told
<1>6. Local(c)
  BY <1>2 DEF TypesOK, Local
<1>7. QED
  BY <1>4, <1>5, <1>6 DEF Sound

(* A state of which only the pieces and the retries have changed *)
Renews(h, g) ==
  /\ g \in States /\ g.handle = h.handle /\ g.file = h.file /\ g.left = h.left
  /\ g.post_left = h.post_left

LEMMA Renewed ==
  ASSUME NEW h \in States
  PROVE  /\ Renews(h, [h EXCEPT !.retries = 0])
         /\ h.req < MaxPieces => Renews(h, [h EXCEPT !.req = @ + 1])
         /\ Renews(h, [h EXCEPT !.req = IF @ <= MaxPieces THEN @ + 1 ELSE @])
         /\ h.retries + 1 < MaxRetries => Renews(h, [h EXCEPT !.retries = @ + 1])
<1>1. 0 \in 0..(MaxRetries - 1)
  BY HttpAssumption DEF HttpAssumption
<1>2. Renews(h, [h EXCEPT !.retries = 0])
  BY <1>1, StateWith DEF Renews, States
<1>3. /\ h.req < MaxPieces => h.req + 1 \in 0..(MaxPieces + 1)
      /\ (IF h.req <= MaxPieces THEN h.req + 1 ELSE h.req) \in 0..(MaxPieces + 1)
  BY HttpAssumption DEF HttpAssumption, States
<1>4. /\ h.req < MaxPieces => Renews(h, [h EXCEPT !.req = @ + 1])
      /\ Renews(h, [h EXCEPT !.req = IF @ <= MaxPieces THEN @ + 1 ELSE @])
  BY <1>3, StateWith DEF Renews, States
<1>5. h.retries + 1 < MaxRetries => h.retries + 1 \in 0..(MaxRetries - 1)
  BY HttpAssumption DEF HttpAssumption, States
<1>6. h.retries + 1 < MaxRetries => Renews(h, [h EXCEPT !.retries = @ + 1])
  BY <1>5, StateWith DEF Renews, States
<1>7. QED
  BY <1>2, <1>4, <1>6

LEMMA KeepSound ==
  ASSUME TypesOK, NEW c \in Connections, StateOK(c), Told(c), hs[c] # NoState,
         NEW g, Renews(hs[c], g), Keep(c, g),
         UNCHANGED <<segments, buffer, received, served, careful>>
  PROVE  Sound(c)
<1>1. hs' = [hs EXCEPT ![c] = g] /\ UNCHANGED <<tcp, post>> /\ g \in States /\ g # NoState
  BY StateIsSome DEF Keep, Set, Renews
<1>2. hs' \in [Connections -> States \cup {NoState}] /\ hs'[c] = g
  BY <1>1 DEF TypesOK
<1>3. TypesOK'
  BY <1>1, <1>2, Zenon DEF TypesOK
<1>4. StateOK(c)' /\ Told(c)'
  BY <1>1, <1>2 DEF StateOK, Told, Renews
<1>5. Local(c)
  BY <1>1 DEF TypesOK, Local
<1>6. QED
  BY <1>3, <1>4, <1>5 DEF Sound

(* http_recv *)
LEMMA RecvSound ==
  ASSUME TypesOK, NEW c \in Connections, StateOK(c), Told(c), Recv(c)
  PROVE  Sound(c)
<1>1. hs[c] # NoState => hs[c] \in States
  BY DEF TypesOK
<1>2. Parsing(c) => /\ post[c] # "begun" /\ hs[c].left = 0
                    /\ post \in [Connections -> {"none", "begun", "finished", "lost"}]
  BY <1>1 DEF Parsing, Told, TypesOK, StateOK
<1>3. CASE RecvClosed(c)
  BY <1>3, CloseSound DEF RecvClosed
<1>4. CASE Piece(c)
  <2>1. CASE hs[c].req < MaxPieces
    <3>1. Renews(hs[c], [hs[c] EXCEPT !.req = @ + 1])
      BY <2>1, <1>1, <1>4, Renewed DEF Piece, Parsing
    <3>2. QED
      BY <2>1, <3>1, <1>4, KeepSound DEF Piece, Parsing
  <2>2. CASE ~(hs[c].req < MaxPieces)
    BY <2>2, <1>4, CloseSound DEF Piece, Parsing
  <2>3. QED
    BY <2>1, <2>2
<1>4a. CASE PostIncomplete(c)
  <2>1. Renews(hs[c], [hs[c] EXCEPT !.req = IF @ <= MaxPieces THEN @ + 1 ELSE @])
    BY <1>1, <1>4a, Renewed DEF PostIncomplete, Parsing
  <2>2. QED
    BY <2>1, <1>4a, KeepSound DEF PostIncomplete, Parsing
<1>5. CASE BadRequest(c)
  BY <1>5, CloseSound DEF BadRequest, Parsing
<1>6. ASSUME NEW uri, NEW is_09 \in BOOLEAN, Get(c, uri, is_09)
      PROVE  Sound(c)
  BY <1>2, <1>6, RespondSound DEF Get, Parsing
<1>7. CASE PostRefused(c)
  BY <1>2, <1>7, RespondSound DEF PostRefused, Parsing
<1>8. ASSUME NEW n \in 1..MaxContent, NEW k \in 0..MaxContent, PostBegin(c, n, k)
      PROVE  Sound(c)
  <2> DEFINE h == [hs[c] EXCEPT !.req = 0, !.post_left = n]
  <2>1. Parsing(c) /\ UNCHANGED <<received, careful>>
    BY <1>8 DEF PostBegin
  <2>2. h \in States /\ h.handle = None /\ h.left = 0 /\ h.post_left = n
    <3>1. n \in Nat /\ 0 \in 0..(MaxPieces + 1)
      BY HttpAssumption DEF HttpAssumption
    <3>2. [[hs[c] EXCEPT !.req = 0] EXCEPT !.post_left = n] \in States
      BY <3>1, <2>1, <1>1, StateWith DEF Parsing
    <3>3. h.handle = hs[c].handle /\ h.left = hs[c].left /\ h.post_left = n
      BY <2>1, <1>1 DEF Parsing, States
    <3>4. QED
      BY <3>2, <3>3, <2>1, <1>2 DEF Parsing
  <2>3. CASE k > 0
    <3>1. PostContent(c, h, k)
      BY <2>3, <1>8 DEF PostBegin
    <3> HIDE DEF h
    <3>2. k \in Nat \ {0}
      BY <2>3
    <3>3. QED
      BY <3>1, <3>2, <2>1, <2>2, ContentSound DEF Parsing
  <2>4. CASE k = 0
    <3>1. /\ hs' = [hs EXCEPT ![c] = h] /\ post' = [post EXCEPT ![c] = "begun"]
          /\ UNCHANGED <<tcp, segments, buffer, served>>
      BY <2>4, <1>8 DEF PostBegin, Set
    <3> HIDE DEF h
    <3>2. hs' \in [Connections -> States \cup {NoState}] /\ hs'[c] = h /\ h # NoState
      BY <3>1, <2>2, StateIsSome DEF TypesOK
    <3>3. post' \in [Connections -> {"none", "begun", "finished", "lost"}] /\ post'[c] = "begun"
      BY <3>1 DEF TypesOK
    <3>4. TypesOK'
      BY <3>1, <3>2, <3>3, <2>1, Zenon DEF TypesOK
    <3>5. StateOK(c)' /\ Told(c)'
      BY <3>1, <3>2, <3>3, <2>1, <2>2 DEF StateOK, Told, Parsing
    <3>6. Local(c)
      BY <3>1, <2>1 DEF TypesOK, Local
    <3>7. QED
      BY <3>4, <3>5, <3>6 DEF Sound
  <2>5. QED
    BY <2>3, <2>4
<1>9. ASSUME NEW k \in 1..MaxContent, PostData(c, k)
      PROVE  Sound(c)
  <2> DEFINE h == [hs[c] EXCEPT !.retries = 0]
  <2>1. /\ hs[c] # NoState /\ hs[c].post_left > 0 /\ PostContent(c, h, k)
        /\ UNCHANGED <<received, careful>>
    BY <1>9 DEF PostData
  <2>2. hs[c].handle = None /\ hs[c].left = 0
    BY <2>1, <1>1 DEF StateOK, States
  <2>3. Renews(hs[c], h)
    BY <2>1, <1>1, Renewed
  <2> HIDE DEF h
  <2>4. k \in Nat \ {0}
    OBVIOUS
  <2>5. QED
    BY <2>1, <2>2, <2>3, <2>4, ContentSound DEF Renews
<1>10. QED
  BY <1>3, <1>4, <1>4a, <1>5, <1>6, <1>7, <1>8, <1>9 DEF Recv, ParseRequest, PostRequest

LEMMA AcknowledgeSound ==
  ASSUME TypesOK, NEW c \in Connections, StateOK(c), Told(c), Acknowledge(c)
  PROVE  Sound(c)
<1>1. /\ segments[c] \in Seq(Endpoints \X Nat) /\ segments[c] # <<>>
      /\ Len(segments[c]) <= SendBuffer
      /\ received[c] \in Seq((Connections \cup {None}) \X Nat)
  BY DEF Acknowledge, TypesOK, StateOK
<1>2. /\ Head(segments[c]) \in Endpoints \X Nat /\ Tail(segments[c]) \in Seq(Endpoints \X Nat)
      /\ Len(Tail(segments[c])) = Len(segments[c]) - 1 /\ Len(Tail(segments[c])) <= SendBuffer
  <2>1. Len(segments[c]) \in Nat /\ SendBuffer \in Nat
    BY <1>1, HttpAssumption DEF HttpAssumption
  <2>2. /\ Head(segments[c]) \in Endpoints \X Nat /\ Tail(segments[c]) \in Seq(Endpoints \X Nat)
        /\ Len(Tail(segments[c])) = Len(segments[c]) - 1
    BY <1>1, HeadTailProperties
  <2>3. QED
    BY <2>1, <2>2, <1>1
<1>3. Arrived(c, Head(segments[c])) \in (Connections \cup {None}) \X Nat
  BY <1>2 DEF Arrived, TypesOK
<1>4. received' = [received EXCEPT ![c] = Append(@, Arrived(c, Head(segments[c])))]
      /\ UNCHANGED <<buffer, careful>>
  BY DEF Acknowledge
<1>5. received' \in [Connections -> Seq((Connections \cup {None}) \X Nat)]
      /\ \A d \in Connections \ {c} : received'[d] = received[d]
  <2>1. Append(received[c], Arrived(c, Head(segments[c]))) \in Seq((Connections \cup {None}) \X Nat)
    BY <1>1, <1>3, AppendProperties
  <2>2. QED
    BY <2>1, <1>4 DEF TypesOK
<1>6. CASE hs[c] # NoState
  <2> DEFINE h == [hs[c] EXCEPT !.retries = 0]
  <2>1. hs[c] \in States /\ hs[c].handle # None /\ tcp[c] = "open"
    BY <1>1, <1>6 DEF TypesOK, StateOK
  <2>2. Sends(hs[c])
    BY <2>1, <1>6 DEF Sends, StateOK, States
  <2>3. Sends(h)
    BY <2>1, <2>2, Renewed DEF Renews, Sends
  <2>4. Send(c, h, Tail(segments[c]), post)
    BY <1>6 DEF Acknowledge
  <2> HIDE DEF h
  <2>5. /\ post \in [Connections -> {"none", "begun", "finished", "lost"}] /\ post[c] # "begun"
        /\ buffer' \in [Endpoints -> Connections \cup {None}]
    BY <1>4, <1>6, <2>2 DEF TypesOK, Told, Sends
  <2>6. QED
    BY <2>1, <2>3, <2>4, <2>5, <1>2, <1>4, <1>5, SendSound
<1>7. CASE hs[c] = NoState
  <2>1. segments' = [segments EXCEPT ![c] = Tail(@)] /\ UNCHANGED <<tcp, hs, post, served>>
    BY <1>7 DEF Acknowledge
  <2>2. segments' \in [Connections -> Seq(Endpoints \X Nat)] /\ Len(segments'[c]) <= SendBuffer
    BY <2>1, <1>2 DEF TypesOK
  <2>3. TypesOK'
    BY <2>1, <2>2, <1>4, <1>5, Zenon DEF TypesOK
  <2>4. StateOK(c)' /\ Told(c)'
    BY <2>1, <2>2, <1>1, <1>7 DEF StateOK, Told
  <2>5. Local(c)
    BY <2>1, <1>5 DEF TypesOK, Local
  <2>6. QED
    BY <2>3, <2>4, <2>5 DEF Sound
<1>8. QED
  BY <1>6, <1>7

(* http_poll: the limit is reached exactly, by a state that does not send. *)
LEMMA PollSound ==
  ASSUME TypesOK, NEW c \in Connections, StateOK(c), Told(c), Poll(c)
  PROVE  Sound(c)
<1> DEFINE h == [hs[c] EXCEPT !.retries = @ + 1]
<1>1. hs[c] # NoState /\ hs[c] \in States /\ UNCHANGED <<buffer, received, careful>>
  BY DEF Poll, TypesOK
<1>2. h.retries = hs[c].retries + 1 /\ h.handle = hs[c].handle /\ h.post_left = hs[c].post_left
  BY <1>1 DEF States
<1>3. h.retries # MaxRetries => Renews(hs[c], h)
  <2>1. h.retries # MaxRetries => hs[c].retries + 1 < MaxRetries
    BY <1>1, <1>2, HttpAssumption DEF HttpAssumption, States
  <2>2. QED
    BY <2>1, <1>1, Renewed
<1>4. IF h.retries = MaxRetries THEN Close(c, h) /\ UNCHANGED <<segments, served>>
      ELSE IF h.handle = None THEN Keep(c, h) /\ UNCHANGED <<segments, served>>
      ELSE Send(c, h, segments[c], post)
  BY DEF Poll
<1> HIDE DEF h
<1>5. CASE h.retries = MaxRetries
  BY <1>1, <1>2, <1>4, <1>5, CloseSound
<1>6. CASE h.retries # MaxRetries /\ h.handle = None
  BY <1>1, <1>3, <1>4, <1>6, KeepSound
<1>7. CASE h.retries # MaxRetries /\ h.handle # None
  <2>1. Sends(hs[c])
    BY <1>1, <1>2, <1>7 DEF Sends, StateOK, States
  <2>2. Sends(h) /\ Send(c, h, segments[c], post)
    BY <2>1, <1>3, <1>4, <1>7 DEF Renews, Sends
  <2>3. /\ post \in [Connections -> {"none", "begun", "finished", "lost"}] /\ post[c] # "begun"
        /\ buffer' \in [Endpoints -> Connections \cup {None}]
        /\ received' \in [Connections -> Seq((Connections \cup {None}) \X Nat)]
        /\ segments[c] \in Seq(Endpoints \X Nat) /\ Len(segments[c]) <= SendBuffer
        /\ tcp[c] = "open"
    BY <2>1, <1>1 DEF TypesOK, Told, Sends, StateOK
  <2>4. QED
    BY <2>2, <2>3, <1>1, SendSound
<1>8. QED
  BY <1>5, <1>6, <1>7

LEMMA EndSound ==
  ASSUME TypesOK, NEW c \in Connections, StateOK(c), Told(c),
         PollClose(c) \/ Closed(c) \/ Error(c)
  PROVE  Sound(c)
<1>1. CASE PollClose(c)
  <2>1. tcp[c] = "pending" /\ tcp' = [tcp EXCEPT ![c] = "closing"]
        /\ UNCHANGED <<hs, segments, buffer, received, post, served, careful>>
    BY <1>1 DEF PollClose
  <2>2. tcp' \in [Connections -> {"closed", "open", "closing", "pending"}] /\ tcp'[c] = "closing"
    BY <2>1 DEF TypesOK
  <2>3. TypesOK'
    BY <2>1, <2>2, Zenon DEF TypesOK
  <2>4. QED
    BY <2>1, <2>2, <2>3 DEF Sound, StateOK, Told, Local, TypesOK
<1>2. CASE Closed(c)
  <2>1. tcp[c] = "closing" /\ segments[c] = <<>> /\ tcp' = [tcp EXCEPT ![c] = "closed"]
        /\ UNCHANGED <<hs, segments, buffer, received, post, served, careful>>
    BY <1>2 DEF Closed
  <2>2. tcp' \in [Connections -> {"closed", "open", "closing", "pending"}] /\ tcp'[c] = "closed"
    BY <2>1 DEF TypesOK
  <2>3. TypesOK'
    BY <2>1, <2>2, Zenon DEF TypesOK
  <2>4. QED
    BY <2>1, <2>2, <2>3 DEF Sound, StateOK, Told, Local, TypesOK
<1>3. CASE Error(c)
  <2>1. /\ tcp' = [tcp EXCEPT ![c] = "closed"] /\ segments' = [segments EXCEPT ![c] = <<>>]
        /\ hs' = [hs EXCEPT ![c] = NoState]
        /\ post' = [post EXCEPT ![c] = IF @ = "begun" THEN "lost" ELSE @]
        /\ served' = [served EXCEPT ![c] = None]
        /\ UNCHANGED <<buffer, received, careful>>
    BY <1>3 DEF Error, Free, Set
  <2>2. /\ tcp' \in [Connections -> {"closed", "open", "closing", "pending"}] /\ tcp'[c] = "closed"
        /\ segments' \in [Connections -> Seq(Endpoints \X Nat)] /\ segments'[c] = <<>>
        /\ hs' \in [Connections -> States \cup {NoState}] /\ hs'[c] = NoState
    BY <2>1 DEF TypesOK
  <2>3. /\ post' \in [Connections -> {"none", "begun", "finished", "lost"}] /\ post'[c] # "begun"
        /\ served' \in [Connections -> Endpoints \cup {None}]
    BY <2>1 DEF TypesOK
  <2>4. TypesOK'
    BY <2>1, <2>2, <2>3, Zenon DEF TypesOK
  <2>5. StateOK(c)' /\ Told(c)'
    BY <2>2, <2>3, HttpAssumption DEF HttpAssumption, StateOK, Told
  <2>6. Local(c)
    BY <2>1 DEF TypesOK, Local
  <2>7. QED
    BY <2>4, <2>5, <2>6 DEF Sound
<1>4. QED
  BY <1>1, <1>2, <1>3

(* Every action of a connection is sound. *)
LEMMA ActionSound ==
  ASSUME TypesOK, NEW c \in Connections, StateOK(c), Told(c),
         \/ Accept(c) \/ Recv(c) \/ Acknowledge(c)
         \/ Poll(c) \/ PollClose(c) \/ Closed(c) \/ Error(c)
  PROVE  Sound(c)
BY AcceptSound, RecvSound, AcknowledgeSound, PollSound, EndSound

-----------------------------------------------------------------------------
(* Streams, where clients are careful *)

(* After the step: whose buffer it is, and what the client has received    *)
(* with what waits for it at TCP                                           *)
WillOwn(c, e) == e \in Rom \/ buffer'[e] = c

WillJoin(c, first, waiting) ==
  /\ \A i \in 1..Len(received'[c]) : received'[c][i] = <<c, first + i - 1>>
  /\ \A i \in 1..Len(waiting) : /\ waiting[i][2] = first + Len(received'[c]) + i - 1
                                /\ WillOwn(c, waiting[i][1])

LEMMA SendStreams ==
  ASSUME TypesOK, NEW c \in Connections, NEW first \in {1, 2}, NEW h, Sends(h),
         NEW waiting \in Seq(Endpoints \X Nat), Len(waiting) <= SendBuffer,
         NEW told, Send(c, h, waiting, told),
         received'[c] \in Seq((Connections \cup {None}) \X Nat),
         WillJoin(c, first, waiting),
         h.file = first + Len(received'[c]) + Len(waiting),
         WillOwn(c, h.handle),
         served[c] = None
  PROVE  StreamFrom(c, first)'
<1>0. SentSome(c, h, waiting, told)
  BY SendSteps
<1>1. PICK k \in 0..h.left, queue \in Seq(Endpoints \X Nat) :
        /\ queue = waiting \o Chunks(h, k) /\ Len(queue) = Len(waiting) + k
        /\ Len(waiting) + k <= SendBuffer
        /\ segments' = [segments EXCEPT ![c] = queue] /\ post' = told
        /\ \/ /\ k = h.left /\ hs' = [hs EXCEPT ![c] = NoState]
              /\ \E how \in {"closing", "pending"} : tcp' = [tcp EXCEPT ![c] = how]
              /\ served' = [served EXCEPT ![c] = h.handle]
           \/ /\ k < h.left /\ hs' = [hs EXCEPT ![c] = Sent(h, k)] /\ Sends(Sent(h, k))
              /\ Sent(h, k).handle = h.handle /\ Sent(h, k).file = h.file + k
              /\ UNCHANGED <<tcp, served>>
  BY <1>0, Zenon DEF SentSome
<1> DEFINE n == Len(received'[c])
<1>2. /\ n \in Nat /\ Len(waiting) \in Nat /\ first \in Nat
      /\ h.file \in Nat /\ h.left \in Nat /\ h.left > 0
      /\ h.file = first + n + Len(waiting) /\ h.file + h.left = Length[h.handle] + 1
      /\ Length[h.handle] \in Nat /\ h.handle \in Endpoints /\ h.handle # None
  <2>1. n \in Nat /\ Len(waiting) \in Nat /\ first \in Nat
    OBVIOUS
  <2>2. h.file \in Nat /\ h.left \in Nat /\ h.left > 0 /\ h.handle \in Endpoints
        /\ h.file + h.left = Length[h.handle] + 1
    BY DEF Sends, States
  <2>3. Length[h.handle] \in Nat /\ h.handle # None
    BY <2>2, HttpAssumption DEF HttpAssumption, None
  <2>4. QED
    BY <2>1, <2>2, <2>3
<1>3. segments'[c] = queue
  BY <1>1 DEF TypesOK
<1> HIDE DEF n
<1>4. ASSUME NEW i \in 1..Len(queue)
      PROVE  /\ queue[i][2] = first + n + i - 1
             /\ WillOwn(c, queue[i][1])
  <2>1. CASE i <= Len(waiting)
    <3>1. queue[i] = waiting[i] /\ i \in 1..Len(waiting)
      <4>1. Chunks(h, k) \in Seq(Endpoints \X Nat)
        BY ChunksAre
      <4>2. QED
        BY <2>1, <4>1, <1>1, <1>2, ConcatProperties
    <3>2. QED
      BY <3>1 DEF n, WillJoin
  <2>2. CASE i > Len(waiting)
    <3>1. queue[i] = Chunks(h, k)[i - Len(waiting)] /\ i - Len(waiting) \in 1..k
      <4>1. Chunks(h, k) \in Seq(Endpoints \X Nat) /\ Len(Chunks(h, k)) = k
        BY ChunksAre
      <4>2. QED
        BY <2>2, <4>1, <1>1, <1>2, ConcatProperties, SMTT(30)
    <3>2. queue[i] = <<h.handle, h.file + (i - Len(waiting)) - 1>>
      BY <3>1, ChunksAre
    <3>3. h.file + (i - Len(waiting)) - 1 = first + n + i - 1
      BY <1>2 DEF n
    <3>4. QED
      BY <3>2, <3>3
  <2>3. QED
    BY <2>1, <2>2, <1>2
<1>2a. n \in Nat /\ Len(waiting) \in Nat /\ first \in Nat
  BY <1>2, Zenon
<1>5. CASE k = h.left /\ hs' = [hs EXCEPT ![c] = NoState]
           /\ served' = [served EXCEPT ![c] = h.handle]
  <2>1. hs'[c] = NoState /\ served'[c] = h.handle
    BY <1>5 DEF TypesOK
  <2>2. /\ n + Len(queue) > 0 /\ first + n + Len(queue) - 1 = Length[h.handle]
    <3>1. Len(queue) = Len(waiting) + h.left
      BY <1>1, <1>5
    <3>2. h.left \in Nat /\ h.left > 0 /\ Length[h.handle] \in Nat
          /\ (first + n + Len(waiting)) + h.left = Length[h.handle] + 1
      BY <1>2, Zenon
    <3>3. /\ n + (Len(waiting) + h.left) > 0
          /\ first + n + (Len(waiting) + h.left) - 1 = Length[h.handle]
      <4>1. PICK w \in Nat, l \in Nat, m \in Nat :
              w = Len(waiting) /\ l = h.left /\ m = Length[h.handle]
        BY <1>2a, <3>2, Zenon
      <4>2. l > 0 /\ (first + n + w) + l = m + 1
        BY <4>1, <3>2, Zenon
      <4>3. n + (w + l) > 0 /\ first + n + (w + l) - 1 = m
        BY <1>2a, <4>2
      <4>4. QED
        BY <4>1, <4>3, Zenon
    <3>4. QED
      BY <3>1, <3>3, Zenon
  <2>3. QED
    BY <2>1, <2>2, <1>2, <1>3, <1>4 DEF n, StreamFrom, Owns, WillOwn, WillJoin
<1>6. CASE /\ k < h.left /\ hs' = [hs EXCEPT ![c] = Sent(h, k)] /\ Sends(Sent(h, k))
           /\ Sent(h, k).handle = h.handle /\ Sent(h, k).file = h.file + k
           /\ UNCHANGED served
  <2> DEFINE s == Sent(h, k)
  <2>1. hs'[c] = s /\ served'[c] = None /\ s.handle = h.handle /\ s.file = h.file + k
    BY <1>6 DEF TypesOK
  <2> HIDE DEF s
  <2>2. s.file = first + n + Len(queue)
    <3>1. s.file = (first + n + Len(waiting)) + k
      BY <2>1, <1>2, Zenon
    <3>2. (first + n + Len(waiting)) + k = first + n + (Len(waiting) + k)
      BY <1>2a, <1>2
    <3>3. QED
      BY <3>1, <3>2, <1>1, Zenon
  <2>3. QED
    BY <2>1, <2>2, <1>2, <1>3, <1>4 DEF n, StreamFrom, Owns, WillOwn, WillJoin
<1>7. QED
  BY <1>1, <1>5, <1>6

(* A step leaves the buffers alone that others' responses come from. *)
BuffersKept(c) ==
  \A d \in Connections \ {c} : \A e \in Endpoints \ Rom : UnderWay(e, d) => buffer'[e] = buffer[e]

LEMMA RespondStreams ==
  ASSUME TypesOK, NEW c \in Connections, StateOK(c), NEW first \in {1, 2}, StreamFrom(c, first),
         careful, hs[c] # NoState, hs[c].handle = None, NEW uri, NEW is_09 \in BOOLEAN,
         NEW told, Respond(c, uri, is_09, told), UNCHANGED received
  PROVE  StreamOK(c)' /\ BuffersKept(c)
<1> DEFINE e == FindFile(uri)
           h == InitFile(e, is_09)
<1>1. e \in Endpoints
  BY FindFileFinds
<1>2. /\ buffer' = [buffer EXCEPT ![e] = c] /\ Send(c, h, segments[c], told)
      /\ e \notin Rom => \A d \in Connections \ {c} : ~UnderWay(e, d)
  BY DEF Respond
<1> HIDE DEF e
<1>3. Sends(h) /\ h.file \in {1, 2} /\ h.handle = e
  BY <1>1, InitFileSends
<1> HIDE DEF h
<1>4. segments[c] = <<>> /\ received[c] = <<>> /\ served[c] = None
  BY DEF StateOK, StreamFrom
<1>5. StreamFrom(c, h.file)'
  <2>1. WillOwn(c, h.handle)
    BY <1>1, <1>2, <1>3 DEF TypesOK, WillOwn
  <2>2. received'[c] = <<>> /\ received'[c] \in Seq((Connections \cup {None}) \X Nat)
        /\ Len(received'[c]) = 0
    BY <1>4 DEF TypesOK
  <2>3. segments[c] \in Seq(Endpoints \X Nat) /\ Len(segments[c]) = 0
        /\ Len(segments[c]) <= SendBuffer
    BY <1>4 DEF TypesOK, StateOK
  <2>4. h.file = h.file + Len(received'[c]) + Len(segments[c])
    BY <1>3, <2>2, <2>3
  <2>5. WillJoin(c, h.file, segments[c])
    BY <2>2, <2>3 DEF WillJoin
  <2>6. QED
    BY <2>1, <2>2, <2>3, <2>4, <2>5, <1>2, <1>3, <1>4, SendStreams
<1>6. BuffersKept(c)
  BY <1>1, <1>2 DEF BuffersKept, TypesOK
<1>7. QED
  BY <1>3, <1>5, <1>6 DEF StreamOK

(* What stays of a stream when its state or its connection changes *)
LEMMA StreamKept ==
  ASSUME NEW c \in Connections, NEW first \in {1, 2}, StreamFrom(c, first),
         received'[c] = received[c], buffer' = buffer,
         \/ segments'[c] = segments[c]
         \/ segments'[c] = <<>> /\ served'[c] = None /\ hs'[c] = NoState,
         served'[c] = served[c] \/ served'[c] = None,
         \/ hs'[c] = NoState
         \/ hs[c] # NoState /\ Renews(hs[c], hs'[c])
         \/ hs[c] # NoState /\ hs[c].handle = None /\ hs'[c].handle = None
  PROVE  StreamOK(c)'
<1>1. Len(<<>>) = 0
  OBVIOUS
<1>2. StreamFrom(c, first)'
  <2>1. CASE segments'[c] = segments[c] /\ hs'[c] = NoState
    BY <2>1 DEF StreamFrom, Owns
  <2>2. CASE segments'[c] = segments[c] /\ hs'[c] # NoState
    BY <2>2 DEF StreamFrom, Owns, Renews
  <2>3. CASE segments'[c] = <<>> /\ served'[c] = None /\ hs'[c] = NoState
    BY <2>3, <1>1 DEF StreamFrom, Owns
  <2>4. QED
    BY <2>1, <2>2, <2>3
<1>3. QED
  BY <1>2 DEF StreamOK

LEMMA CloseStreams ==
  ASSUME TypesOK, NEW c \in Connections, NEW first \in {1, 2}, StreamFrom(c, first), hs[c] # NoState,
         NEW h, Close(c, h), UNCHANGED <<segments, buffer, received, served>>
  PROVE  StreamOK(c)' /\ BuffersKept(c)
<1>1. hs'[c] = NoState
  BY DEF Close, CloseState, Free, Set, TypesOK
<1>2. QED
  BY <1>1, StreamKept DEF BuffersKept

LEMMA ContentStreams ==
  ASSUME TypesOK, NEW c \in Connections, StateOK(c), NEW first \in {1, 2}, StreamFrom(c, first),
         careful, hs[c] # NoState, hs[c].handle = None,
         NEW h \in States, h.handle = None, NEW k \in Nat \ {0}, PostContent(c, h, k),
         UNCHANGED received
  PROVE  StreamOK(c)' /\ BuffersKept(c)
<1>1. CASE Set(c, [h EXCEPT !.post_left = @ - k]) /\ UNCHANGED <<segments, buffer, served>>
  <2>1. hs'[c] = [h EXCEPT !.post_left = @ - k]
    BY <1>1 DEF Set, TypesOK
  <2>2. hs'[c].handle = None
    BY <2>1 DEF States
  <2>3. QED
    BY <2>2, <1>1, StreamKept DEF BuffersKept
<1>2. CASE PostFinished(c)
  BY <1>2, RespondStreams DEF PostFinished
<1>3. QED
  BY <1>1, <1>2 DEF PostContent

LEMMA RecvStreams ==
  ASSUME TypesOK, NEW c \in Connections, StateOK(c), Told(c), NEW first \in {1, 2},
         StreamFrom(c, first), careful, Recv(c)
  PROVE  StreamOK(c)' /\ BuffersKept(c)
<1>1. hs[c] # NoState => hs[c] \in States
  BY DEF TypesOK
<1>2. CASE RecvClosed(c) \/ BadRequest(c)
  BY <1>2, CloseStreams DEF RecvClosed, BadRequest, Parsing
<1>3. CASE Piece(c)
  <2>1. CASE hs[c].req < MaxPieces
    <3>1. Renews(hs[c], [hs[c] EXCEPT !.req = @ + 1])
      BY <2>1, <1>1, <1>3, Renewed DEF Piece, Parsing
    <3>2. hs'[c] = [hs[c] EXCEPT !.req = @ + 1] /\ UNCHANGED <<segments, buffer, received, served>>
      BY <2>1, <1>3 DEF Piece, Keep, Set, TypesOK
    <3>3. QED
      BY <3>1, <3>2, <1>3, StreamKept DEF Piece, Parsing, BuffersKept
  <2>2. CASE ~(hs[c].req < MaxPieces)
    BY <2>2, <1>3, CloseStreams DEF Piece, Parsing
  <2>3. QED
    BY <2>1, <2>2
<1>3a. CASE PostIncomplete(c)
  <2> DEFINE g == [hs[c] EXCEPT !.req = IF @ <= MaxPieces THEN @ + 1 ELSE @]
  <2>1. Renews(hs[c], g)
    BY <1>1, <1>3a, Renewed DEF PostIncomplete, Parsing
  <2>2. hs'[c] = g /\ UNCHANGED <<segments, buffer, received, served>>
    BY <1>3a DEF PostIncomplete, Keep, Set, TypesOK
  <2> HIDE DEF g
  <2>3. QED
    BY <2>1, <2>2, <1>3a, StreamKept DEF PostIncomplete, Parsing, BuffersKept, Renews
<1>4. ASSUME NEW uri, NEW is_09 \in BOOLEAN, Get(c, uri, is_09)
      PROVE  StreamOK(c)' /\ BuffersKept(c)
  BY <1>4, RespondStreams DEF Get, Parsing
<1>5. CASE PostRefused(c)
  BY <1>5, RespondStreams DEF PostRefused, Parsing
<1>6. ASSUME NEW n \in 1..MaxContent, NEW k \in 0..MaxContent, PostBegin(c, n, k)
      PROVE  StreamOK(c)' /\ BuffersKept(c)
  <2> DEFINE h == [hs[c] EXCEPT !.req = 0, !.post_left = n]
  <2>1. Parsing(c) /\ UNCHANGED <<received, careful>>
    BY <1>6 DEF PostBegin
  <2>2. h \in States /\ h.handle = None
    <3>1. n \in Nat /\ 0 \in 0..(MaxPieces + 1)
      BY HttpAssumption DEF HttpAssumption
    <3>2. [[hs[c] EXCEPT !.req = 0] EXCEPT !.post_left = n] \in States
      BY <3>1, <2>1, <1>1, StateWith DEF Parsing
    <3>3. h.handle = hs[c].handle
      BY <2>1, <1>1 DEF Parsing, States
    <3>4. QED
      BY <3>2, <3>3, <2>1 DEF Parsing
  <2>3. CASE k > 0
    <3>1. PostContent(c, h, k)
      BY <2>3, <1>6 DEF PostBegin
    <3> HIDE DEF h
    <3>2. k \in Nat \ {0}
      BY <2>3
    <3>3. QED
      BY <3>1, <3>2, <2>1, <2>2, ContentStreams DEF Parsing
  <2>4. CASE k = 0
    <3>1. hs' = [hs EXCEPT ![c] = h] /\ UNCHANGED <<segments, buffer, served>>
      BY <2>4, <1>6 DEF PostBegin, Set
    <3> HIDE DEF h
    <3>2. hs'[c] = h
      BY <3>1 DEF TypesOK
    <3>3. QED
      BY <3>1, <3>2, <2>1, <2>2, StreamKept DEF Parsing, BuffersKept
  <2>5. QED
    BY <2>3, <2>4
<1>7. ASSUME NEW k \in 1..MaxContent, PostData(c, k)
      PROVE  StreamOK(c)' /\ BuffersKept(c)
  <2> DEFINE h == [hs[c] EXCEPT !.retries = 0]
  <2>1. /\ hs[c] # NoState /\ hs[c].post_left > 0 /\ PostContent(c, h, k)
        /\ UNCHANGED <<received, careful>>
    BY <1>7 DEF PostData
  <2>2. hs[c].handle = None
    BY <2>1, <1>1 DEF StateOK, States
  <2>3. Renews(hs[c], h)
    BY <2>1, <1>1, Renewed
  <2> HIDE DEF h
  <2>4. k \in Nat \ {0}
    OBVIOUS
  <2>5. QED
    BY <2>1, <2>2, <2>3, <2>4, ContentStreams DEF Renews
<1>8. QED
  BY <1>2, <1>3, <1>3a, <1>4, <1>5, <1>6, <1>7 DEF Recv, ParseRequest, PostRequest

(* The oldest chunk arrives: it is c's own, and next. *)
LEMMA AcknowledgeStreams ==
  ASSUME TypesOK, NEW c \in Connections, StateOK(c), NEW first \in {1, 2},
         StreamFrom(c, first), careful, Acknowledge(c)
  PROVE  StreamOK(c)' /\ BuffersKept(c)
<1> DEFINE q == segments[c]
           r == received[c]
           chunk == Arrived(c, Head(q))
<1>1. /\ q \in Seq(Endpoints \X Nat) /\ q # <<>> /\ Len(q) <= SendBuffer
      /\ r \in Seq((Connections \cup {None}) \X Nat)
  BY DEF Acknowledge, TypesOK, StateOK
<1>2. /\ Head(q) = q[1] /\ Head(q) \in Endpoints \X Nat /\ Tail(q) \in Seq(Endpoints \X Nat)
      /\ Len(q) \in Nat /\ Len(q) > 0 /\ Len(Tail(q)) = Len(q) - 1
      /\ \A i \in 1..Len(Tail(q)) : Tail(q)[i] = q[i + 1]
  BY <1>1, HeadTailProperties
<1>3. /\ \A i \in 1..Len(r) : r[i] = <<c, first + i - 1>>
      /\ \A i \in 1..Len(q) : q[i][2] = first + Len(r) + i - 1 /\ Owns(c, q[i][1])
      /\ served[c] # None => hs[c] = NoState /\ first + Len(r) + Len(q) - 1 = Length[served[c]]
      /\ hs[c] # NoState /\ hs[c].handle # None =>
           hs[c].file = first + Len(r) + Len(q) /\ Owns(c, hs[c].handle)
  BY DEF StreamFrom
<1>4. UNCHANGED <<buffer, careful>> /\ received'[c] = Append(r, chunk) /\ BuffersKept(c)
  BY DEF Acknowledge, TypesOK, BuffersKept
<1>5. Len(r) \in Nat /\ first \in Nat /\ chunk = <<c, first + Len(r)>>
  <2>1. Len(r) \in Nat /\ first \in Nat
    BY <1>1
  <2>2. q[1][2] = first + Len(r) + 1 - 1 /\ Owns(c, q[1][1])
    BY <1>2, <1>3
  <2>3. first + Len(r) + 1 - 1 = first + Len(r)
    BY <2>1
  <2>4. QED
    BY <2>1, <2>2, <2>3, <1>2 DEF Arrived, Owns
<1> DEFINE t == Tail(q)
<1>6. chunk \in (Connections \cup {None}) \X Nat
  BY <1>5
<1> HIDE DEF chunk
<1>7. /\ received'[c] \in Seq((Connections \cup {None}) \X Nat)
      /\ Len(received'[c]) = Len(r) + 1
      /\ \A i \in 1..Len(received'[c]) : received'[c][i] = <<c, first + i - 1>>
  <2>1. /\ Append(r, chunk) \in Seq((Connections \cup {None}) \X Nat)
        /\ Len(Append(r, chunk)) = Len(r) + 1 /\ Append(r, chunk)[Len(r) + 1] = chunk
        /\ \A i \in 1..Len(r) : Append(r, chunk)[i] = r[i]
    BY <1>1, <1>6, AppendProperties
  <2>2. ASSUME NEW i \in 1..(Len(r) + 1) PROVE Append(r, chunk)[i] = <<c, first + i - 1>>
    <3>1. CASE i \in 1..Len(r)
      BY <3>1, <2>1, <1>3
    <3>2. CASE i = Len(r) + 1
      <4>1. first + (Len(r) + 1) - 1 = first + Len(r)
        BY <1>5
      <4>2. QED
        BY <4>1, <3>2, <2>1, <1>5
    <3>3. QED
      BY <3>1, <3>2, <1>5
  <2>3. QED
    BY <2>1, <2>2, <1>4
<1>8. ASSUME NEW i \in 1..Len(t)
      PROVE  t[i][2] = first + Len(received'[c]) + i - 1 /\ WillOwn(c, t[i][1])
  <2>1. t[i] = q[i + 1] /\ i + 1 \in 1..Len(q)
    BY <1>2
  <2>2. first + Len(r) + (i + 1) - 1 = first + (Len(r) + 1) + i - 1
    BY <1>5
  <2>3. QED
    BY <2>1, <2>2, <1>3, <1>4, <1>7 DEF Owns, WillOwn
<1>9. t \in Seq(Endpoints \X Nat) /\ Len(t) \in Nat /\ Len(t) = Len(q) - 1 /\ Len(t) <= SendBuffer
  BY <1>1, <1>2, HttpAssumption DEF HttpAssumption
<1>10. Len(received'[c]) + Len(t) = Len(r) + Len(q)
       /\ first + Len(received'[c]) + Len(t) = first + Len(r) + Len(q)
       /\ Len(received'[c]) + Len(t) > 0
  <2>1. PICK m \in Nat, n \in Nat \ {0} : m = Len(r) /\ n = Len(q)
    BY <1>2, <1>5
  <2>2. /\ (m + 1) + (n - 1) = m + n /\ first + (m + 1) + (n - 1) = first + m + n
        /\ (m + 1) + (n - 1) > 0
    BY <1>5
  <2>3. Len(received'[c]) = m + 1 /\ Len(t) = n - 1
    BY <2>1, <1>7, <1>9, Zenon
  <2>4. QED
    BY <2>1, <2>2, <2>3, Zenon
<1>11. CASE hs[c] # NoState
  <2> DEFINE h == [hs[c] EXCEPT !.retries = 0]
  <2>1. hs[c] \in States /\ hs[c].handle # None
    BY <1>1, <1>11 DEF TypesOK, StateOK
  <2>2. Sends(hs[c]) /\ Renews(hs[c], h)
    BY <2>1, <1>11, Renewed DEF Sends, StateOK, States
  <2>3. Sends(h) /\ h.file = hs[c].file /\ h.handle = hs[c].handle
    BY <2>2 DEF Renews, Sends
  <2>4. Send(c, h, t, post)
    BY <1>11 DEF Acknowledge
  <2> HIDE DEF h, t, q, r
  <2>5. h.file = first + Len(received'[c]) + Len(t) /\ WillOwn(c, h.handle) /\ served[c] = None
    BY <2>1, <2>3, <1>3, <1>4, <1>10, <1>11 DEF Owns, WillOwn
  <2>6. WillJoin(c, first, t)
    BY <1>7, <1>8 DEF WillJoin
  <2>7. StreamFrom(c, first)'
    BY <2>3, <2>4, <2>5, <2>6, <1>7, <1>9, SendStreams
  <2>8. QED
    BY <2>7, <1>4 DEF StreamOK
<1>12. CASE hs[c] = NoState
  <2>1. segments'[c] = t /\ hs'[c] = NoState /\ served'[c] = served[c]
    BY <1>12 DEF Acknowledge, TypesOK
  <2> HIDE DEF t, q, r
  <2>2. StreamFrom(c, first)'
    <3>1. \A i \in 1..Len(t) : t[i][2] = first + Len(received'[c]) + i - 1 /\ WillOwn(c, t[i][1])
      BY <1>8
    <3>2. served[c] # None => first + Len(received'[c]) + Len(t) - 1 = Length[served[c]]
      BY <1>3, <1>10
    <3>3. QED
      BY <3>1, <3>2, <2>1, <1>7, <1>10 DEF StreamFrom, Owns, WillOwn
  <2>3. QED
    BY <2>2, <1>4 DEF StreamOK
<1>13. QED
  BY <1>11, <1>12

LEMMA PollStreams ==
  ASSUME TypesOK, NEW c \in Connections, StateOK(c), NEW first \in {1, 2},
         StreamFrom(c, first), careful, Poll(c)
  PROVE  StreamOK(c)' /\ BuffersKept(c)
<1> DEFINE h == [hs[c] EXCEPT !.retries = @ + 1]
<1>1. hs[c] # NoState /\ hs[c] \in States /\ UNCHANGED <<buffer, received, careful>>
  BY DEF Poll, TypesOK
<1>2. h.retries = hs[c].retries + 1 /\ h.handle = hs[c].handle
  BY <1>1 DEF States
<1>3. h.retries # MaxRetries => Renews(hs[c], h)
  <2>1. h.retries # MaxRetries => hs[c].retries + 1 < MaxRetries
    BY <1>1, <1>2, HttpAssumption DEF HttpAssumption, States
  <2>2. QED
    BY <2>1, <1>1, Renewed
<1>4. IF h.retries = MaxRetries THEN Close(c, h) /\ UNCHANGED <<segments, served>>
      ELSE IF h.handle = None THEN Keep(c, h) /\ UNCHANGED <<segments, served>>
      ELSE Send(c, h, segments[c], post)
  BY DEF Poll
<1> HIDE DEF h
<1>5. BuffersKept(c)
  BY <1>1 DEF BuffersKept
<1>6. CASE h.retries = MaxRetries
  BY <1>1, <1>4, <1>6, CloseStreams
<1>7. CASE h.retries # MaxRetries /\ h.handle = None
  <2>1. hs'[c] = h /\ UNCHANGED <<segments, served>>
    BY <1>4, <1>7 DEF Keep, Set, TypesOK
  <2>2. QED
    BY <2>1, <1>1, <1>3, <1>5, <1>7, StreamKept
<1>8. CASE h.retries # MaxRetries /\ h.handle # None
  <2>1. Sends(hs[c])
    BY <1>1, <1>2, <1>8 DEF Sends, StateOK, States
  <2>2. Sends(h) /\ Send(c, h, segments[c], post) /\ h.file = hs[c].file
    BY <2>1, <1>3, <1>4, <1>8 DEF Renews, Sends
  <2>3. /\ received'[c] \in Seq((Connections \cup {None}) \X Nat)
        /\ segments[c] \in Seq(Endpoints \X Nat) /\ Len(segments[c]) <= SendBuffer
    BY <1>1 DEF TypesOK, StateOK
  <2>4. /\ h.file = first + Len(received'[c]) + Len(segments[c])
        /\ WillOwn(c, h.handle) /\ served[c] = None
    BY <2>2, <1>1, <1>2, <1>8 DEF StreamFrom, Owns, WillOwn
  <2>5. WillJoin(c, first, segments[c])
    BY <1>1 DEF StreamFrom, Owns, WillOwn, WillJoin
  <2>6. StreamFrom(c, first)'
    BY <2>2, <2>3, <2>4, <2>5, SendStreams
  <2>7. QED
    BY <2>6, <1>5 DEF StreamOK
<1>9. QED
  BY <1>6, <1>7, <1>8

LEMMA ActionStreams ==
  ASSUME TypesOK, NEW c \in Connections, StateOK(c), Told(c), careful, StreamOK(c),
         \/ Accept(c) \/ Recv(c) \/ Acknowledge(c)
         \/ Poll(c) \/ PollClose(c) \/ Closed(c) \/ Error(c)
  PROVE  StreamOK(c)' /\ BuffersKept(c)
<1>1. PICK first \in {1, 2} : StreamFrom(c, first)
  BY DEF StreamOK
<1>2. CASE Accept(c)
  <2>1. /\ hs'[c] = New /\ received'[c] = <<>> /\ served'[c] = None /\ segments'[c] = <<>>
        /\ UNCHANGED buffer
    BY <1>2 DEF Accept, Alloc, Set, StateOK, TypesOK
  <2>2. New.handle = None /\ Len(<<>>) = 0
    BY DEF New
  <2>3. StreamFrom(c, 1)'
    BY <2>1, <2>2 DEF StreamFrom
  <2>4. QED
    BY <2>1, <2>3 DEF StreamOK, BuffersKept
<1>3. CASE Recv(c)
  BY <1>1, <1>3, RecvStreams
<1>4. CASE Acknowledge(c)
  BY <1>1, <1>4, AcknowledgeStreams
<1>5. CASE Poll(c)
  BY <1>1, <1>5, PollStreams
<1>6. CASE PollClose(c) \/ Closed(c)
  <2>1. UNCHANGED <<hs, segments, buffer, received, post, served>> /\ hs[c] = NoState
    BY <1>6 DEF PollClose, Closed, StateOK
  <2>2. QED
    BY <2>1, <1>1, StreamKept DEF BuffersKept
<1>7. CASE Error(c)
  <2>1. /\ hs'[c] = NoState /\ segments'[c] = <<>> /\ served'[c] = None
        /\ UNCHANGED <<received, buffer>>
    BY <1>7 DEF Error, Free, Set, TypesOK
  <2>2. QED
    BY <2>1, <1>1, StreamKept DEF BuffersKept
<1>8. QED
  BY <1>2, <1>3, <1>4, <1>5, <1>6, <1>7

(* The stream of a connection survives what the others do. *)
LEMMA OthersStreams ==
  ASSUME TypesOK, NEW c \in Connections, NEW d \in Connections \ {c},
         StreamOK(d), Local(c), BuffersKept(c)
  PROVE  StreamOK(d)'
<1>1. PICK first \in {1, 2} : StreamFrom(d, first)
  BY DEF StreamOK
<1>2. /\ hs'[d] = hs[d] /\ segments'[d] = segments[d] /\ received'[d] = received[d]
      /\ served'[d] = served[d]
  BY DEF Local
<1>3. ASSUME NEW i \in 1..Len(segments[d]) PROVE Owns(d, segments[d][i][1])'
  <2>1. segments[d] \in Seq(Endpoints \X Nat) /\ i \in DOMAIN segments[d]
    BY DEF TypesOK
  <2>2. segments[d][i][1] \in Endpoints /\ UnderWay(segments[d][i][1], d)
    BY <2>1 DEF UnderWay
  <2>3. Owns(d, segments[d][i][1])
    BY <1>1 DEF StreamFrom
  <2>4. QED
    BY <2>2, <2>3, <1>2 DEF Owns, BuffersKept
<1>4. ASSUME hs[d] # NoState, hs[d].handle # None PROVE Owns(d, hs[d].handle)'
  <2>1. hs[d].handle \in Endpoints /\ UnderWay(hs[d].handle, d)
    BY <1>4 DEF UnderWay, TypesOK, States
  <2>2. Owns(d, hs[d].handle)
    BY <1>1, <1>4 DEF StreamFrom
  <2>3. QED
    BY <2>1, <2>2, <1>2 DEF Owns, BuffersKept
<1>5. StreamFrom(d, first)'
  BY <1>1, <1>2, <1>3, <1>4 DEF StreamFrom
<1>6. QED
  BY <1>5 DEF StreamOK

LEMMA CarefulFixed ==
  ASSUME NEW c \in Connections,
         \/ Accept(c) \/ Recv(c) \/ Acknowledge(c)
         \/ Poll(c) \/ PollClose(c) \/ Closed(c) \/ Error(c)
  PROVE  careful' = careful
<1>1. CASE Recv(c)
  BY <1>1, Zenon DEF Recv, RecvClosed, ParseRequest, Piece, BadRequest, PostRequest,
                     PostIncomplete, PostRefused, PostBegin, Get, PostData
<1>2. CASE Accept(c) \/ Acknowledge(c) \/ Poll(c) \/ PollClose(c) \/ Closed(c) \/ Error(c)
  BY <1>2, Zenon DEF Accept, Acknowledge, Poll, PollClose, Closed, Error
<1>3. QED
  BY <1>1, <1>2

-----------------------------------------------------------------------------
LEMMA InitOK == Init => HttpInv /\ UploadsEnd
<1> SUFFICES ASSUME Init PROVE HttpInv /\ UploadsEnd
  OBVIOUS
<1> USE DEF Init
<1>1. TypesOK
  <2>1. /\ tcp \in [Connections -> {"closed", "open", "closing", "pending"}]
        /\ hs \in [Connections -> States \cup {NoState}]
        /\ segments \in [Connections -> Seq(Endpoints \X Nat)]
        /\ buffer \in [Endpoints -> Connections \cup {None}]
        /\ received \in [Connections -> Seq((Connections \cup {None}) \X Nat)]
        /\ post \in [Connections -> {"none", "begun", "finished", "lost"}]
        /\ served \in [Connections -> Endpoints \cup {None}]
    OBVIOUS
  <2>2. QED
    BY <2>1, Zenon DEF TypesOK
<1>2. ASSUME NEW c \in Connections PROVE StateOK(c) /\ StreamFrom(c, 1) /\ Told(c)
  BY HttpAssumption DEF HttpAssumption, StateOK, StreamFrom, Told
<1>3. QED
  BY <1>1, <1>2 DEF HttpInv, StreamOK, UploadsEnd, Told

LEMMA StepOK == HttpInv /\ UploadsEnd /\ [Next]_vars => HttpInv' /\ UploadsEnd'
<1> SUFFICES ASSUME HttpInv, UploadsEnd, [Next]_vars PROVE HttpInv' /\ UploadsEnd'
  OBVIOUS
<1>1. TypesOK /\ \A d \in Connections : StateOK(d) /\ Told(d) /\ (careful => StreamOK(d))
  BY DEF HttpInv, UploadsEnd, Told
<1>2. CASE UNCHANGED vars
  <2>1. TypesOK'
    BY <1>1, <1>2, Zenon DEF vars, TypesOK
  <2>2. ASSUME NEW d \in Connections PROVE StateOK(d)' /\ Told(d)' /\ (careful' => StreamOK(d)')
    BY <1>1, <1>2 DEF vars, StateOK, Told, StreamOK, StreamFrom, Owns
  <2>3. QED
    BY <2>1, <2>2 DEF HttpInv, UploadsEnd, Told
<1>3. CASE Next
  <2>1. PICK c \in Connections : \/ Accept(c) \/ Recv(c) \/ Acknowledge(c)
                                 \/ Poll(c) \/ PollClose(c) \/ Closed(c) \/ Error(c)
    BY <1>3 DEF Next
  <2>2. Sound(c)
    BY <1>1, <2>1, ActionSound
  <2>3. careful' = careful
    BY <2>1, CarefulFixed
  <2>4. careful => StreamOK(c)' /\ BuffersKept(c)
    BY <1>1, <2>1, ActionStreams
  <2>5. ASSUME NEW d \in Connections \ {c}
        PROVE  StateOK(d)' /\ Told(d)' /\ (careful' => StreamOK(d)')
    <3>1. StateOK(d)' /\ Told(d)'
      BY <1>1, <2>2 DEF Sound, Local, StateOK, Told
    <3>2. careful' => StreamOK(d)'
      BY <1>1, <2>2, <2>3, <2>4, OthersStreams DEF Sound
    <3>3. QED
      BY <3>1, <3>2
  <2>6. \A d \in Connections : StateOK(d)' /\ Told(d)' /\ (careful' => StreamOK(d)')
    BY <2>2, <2>3, <2>4, <2>5 DEF Sound
  <2>7. QED
    BY <2>2, <2>6 DEF Sound, HttpInv, UploadsEnd, Told
<1>4. QED
  BY <1>2, <1>3

LEMMA Invariant == Spec => [](HttpInv /\ UploadsEnd)
BY InitOK, StepOK, PTL DEF Spec

(* No state of a connection leaks or is confused, no limit is overtaken,   *)
(* and the stream to a client is of one piece (http_rest.c).               *)
THEOREM StatesAreSound == Spec => []HttpInv
BY Invariant, PTL

(* An upload that was accepted is finished in every way a connection can   *)
(* end but http_err, which the model shows as lost (http_close_or_abort).  *)
THEOREM UploadsAreEnded == Spec => []UploadsEnd
BY Invariant, PTL

(* A client receives the response to its own request, without a gap, and   *)
(* whole if its connection ended well (http_send, http_sent).              *)
THEOREM ResponsesAreOwn == Spec => []OwnResponse
<1>1. HttpInv => OwnResponse
  <2> SUFFICES ASSUME HttpInv, careful, NEW c \in Connections
               PROVE  /\ \A i \in DOMAIN received[c] :
                           /\ received[c][i] = <<c, received[c][1][2] + i - 1>>
                           /\ received[c][1][2] \in {1, 2}
                      /\ tcp[c] = "closed" /\ served[c] # None =>
                           received[c] # <<>> /\ Last(received[c])[2] = Length[served[c]]
    BY DEF OwnResponse
  <2>1. PICK first \in {1, 2} : StreamFrom(c, first)
    BY DEF HttpInv, StreamOK
  <2>2. received[c] \in Seq((Connections \cup {None}) \X Nat) /\ StateOK(c)
    BY DEF HttpInv, TypesOK
  <2>3. \A i \in 1..Len(received[c]) : received[c][i] = <<c, first + i - 1>>
    BY <2>1 DEF StreamFrom
  <2>4. ASSUME NEW i \in DOMAIN received[c]
        PROVE  /\ received[c][i] = <<c, received[c][1][2] + i - 1>>
               /\ received[c][1][2] \in {1, 2}
    <3>1. i \in 1..Len(received[c]) /\ 1 \in 1..Len(received[c])
      BY <2>2
    <3>2. received[c][1][2] = first
      BY <3>1, <2>3
    <3>3. QED
      BY <3>1, <3>2, <2>3
  <2>5. ASSUME tcp[c] = "closed", served[c] # None
        PROVE  received[c] # <<>> /\ Last(received[c])[2] = Length[served[c]]
    <3>1. segments[c] = <<>> /\ Len(segments[c]) = 0
      BY <2>2, <2>5 DEF StateOK
    <3>2. Len(received[c]) > 0 /\ first + Len(received[c]) - 1 = Length[served[c]]
      BY <3>1, <2>1, <2>2, <2>5 DEF StreamFrom
    <3>3. Len(received[c]) \in 1..Len(received[c])
      BY <3>2, <2>2
    <3>4. received[c][Len(received[c])] = <<c, first + Len(received[c]) - 1>>
      BY <3>3, <2>3
    <3>5. QED
      BY <3>2, <3>4, <2>2 DEF Last
  <2>6. QED
    BY <2>4, <2>5
<1>2. QED
  BY <1>1, Invariant, PTL
=============================================================================
