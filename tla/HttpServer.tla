----------------------------- MODULE HttpServer -----------------------------
(***************************************************************************)
(* src/http_rest.c, lwIP's httpd with REST handlers in place of files, and *)
(* src/rest_endpoints.c: connections with a state from the heap, requests  *)
(* that arrive in pieces, uploads handed to the application, responses     *)
(* that TCP sends from where the handler put them, without copying.        *)
(*                                                                         *)
(* All callbacks run in lwIP's thread, one at a time.  A response is       *)
(* counted in chunks, of which the first is its header; an upload in units *)
(* that a pbuf can end at.  The endpoint names stand for their URIs.       *)
(***************************************************************************)
EXTENDS Integers, Sequences, SequencesExt

CONSTANTS
  Connections,    \* TCP connections a client may open
  Endpoints,      \* URIs with a handler (rest_endpoints_init)
  NotFound,       \* "/404"
  OtaStatus,      \* the endpoint that answers an upload
  Rom,            \* endpoints whose response is constant data
  Length,         \* Length[e]: chunks of the response of e
  SendBuffer,     \* chunks that TCP holds unacknowledged
  MaxRetries,     \* HTTPD_MAX_RETRIES
  MaxPieces,      \* LWIP_HTTPD_REQ_QUEUELEN; req counts to one beyond it
  MaxContent      \* bound on the Content-Length of an upload

ASSUME HttpAssumption ==
  /\ {NotFound, OtaStatus} \subseteq Endpoints /\ Rom \subseteq Endpoints
  /\ "none" \notin Endpoints
  /\ Length \in [Endpoints -> Nat \ {0}]
  /\ {SendBuffer, MaxRetries, MaxPieces, MaxContent} \subseteq Nat \ {0}

VARIABLES
  tcp,        \* tcp[c]: "closed", "open", "closing" by the server, or
              \* "pending": altcp_close has failed and is to be tried again
  hs,         \* hs[c]: the http_state, or NoState
  segments,   \* segments[c]: chunks handed to TCP, not yet acknowledged
  buffer,     \* buffer[e]: the connection whose request e answered last
  \* history
  received,   \* received[c]: what the client got, as <<for whom, chunk>>
  post,       \* post[c]: what the application knows of an upload
  served,     \* served[c]: the endpoint whose response was handed to TCP whole
  careful     \* no endpoint is asked while its last response is under way

vars == <<tcp, hs, segments, buffer, received, post, served, careful>>

None == "none"
NoState == <<>>
New == [req |-> 0, post_left |-> 0, handle |-> None, file |-> 0, left |-> 0, retries |-> 0]

Init ==
  /\ tcp = [c \in Connections |-> "closed"]
  /\ hs = [c \in Connections |-> NoState]
  /\ segments = [c \in Connections |-> <<>>]
  /\ buffer = [e \in Endpoints |-> None]
  /\ received = [c \in Connections |-> <<>>]
  /\ post = [c \in Connections |-> "none"]
  /\ served = [c \in Connections |-> None]
  /\ careful \in BOOLEAN

Set(c, h) == hs' = [hs EXCEPT ![c] = h]

-----------------------------------------------------------------------------
(* Ends of a connection *)

(* http_state_free, with http_state_eof: file and request pieces go too. *)
Free(c) == Set(c, NoState)

(* http_close_or_abort_conn: the state is freed, the callbacks are taken   *)
(* back, and if TCP cannot close now, poll will try again.                 *)
CloseState(c) ==
  /\ Free(c)
  /\ \E how \in {"closing", "pending"} : tcp' = [tcp EXCEPT ![c] = how]

(* The application is told if content of an upload is still to come. *)
CloseUntold(c, h) == CloseState(c) /\ UNCHANGED post     \* Seeded fault: it is not told
Close(c, h) ==
  /\ CloseState(c)
  /\ post' = IF h.post_left = 0 THEN post ELSE [post EXCEPT ![c] = "finished"]

Keep(c, h) == Set(c, h) /\ UNCHANGED <<tcp, post>>

-----------------------------------------------------------------------------
(* Sending *)

SentStuck(h, k) == [h EXCEPT !.left = @ - k]     \* Seeded fault: the pointer stays
Sent(h, k) == [h EXCEPT !.file = @ + k, !.left = @ - k]

(* http_write: TCP takes what fits beside the chunks `waiting` in it, less *)
(* when memory is short, or nothing.                                       *)
Writable(h, waiting) == {k \in 0..h.left : Len(waiting) + k <= SendBuffer}
Chunks(h, k) == [i \in 1..k |-> <<h.handle, h.file + i - 1>>]

(* http_eof: no connection is kept alive for a second request. *)
Eof(c, h) == CloseState(c) /\ served' = [served EXCEPT ![c] = h.handle]

(* http_send; `told` is what becomes of post.  The last chunk ends it. *)
Send(c, h, waiting, told) ==
  \E k \in Writable(h, waiting) :
    /\ segments' = [segments EXCEPT ![c] = waiting \o Chunks(h, k)]
    /\ post' = told
    /\ IF k = h.left THEN Eof(c, h) ELSE Set(c, Sent(h, k)) /\ UNCHANGED <<tcp, served>>

-----------------------------------------------------------------------------
(* Responses *)

(* rest_get_handler, and http_find_file, which falls back on /404. *)
Handler(uri) == IF uri \in Endpoints THEN uri ELSE None
FindFile(uri) == IF Handler(uri) = None THEN NotFound ELSE Handler(uri)

(* http_init_file: from the first chunk on, or for an HTTP/0.9 client from *)
(* the end of the header, if there is one.                                 *)
InitFile(e, is_09) ==
  LET skip == IF is_09 /\ Length[e] > 1 THEN 1 ELSE 0
  IN  [New EXCEPT !.handle = e, !.file = 1 + skip, !.left = Length[e] - skip]

UnderWay(e, d) == \/ hs[d] # NoState /\ hs[d].handle = e
                  \/ \E i \in DOMAIN segments[d] : segments[d][i][1] = e

(* The handler writes the response to c into its buffer; it is sent. *)
Respond(c, uri, is_09, told) ==
  LET e == FindFile(uri)
  IN  /\ careful /\ e \notin Rom => \A d \in Connections \ {c} : ~UnderWay(e, d)
      /\ buffer' = [buffer EXCEPT ![e] = c]
      /\ Send(c, InitFile(e, is_09), segments[c], told)

-----------------------------------------------------------------------------
(* Callbacks: a connection comes, data, acknowledgements, time, errors *)

(* http_state_alloc may find no memory: http_accept resets the connection. *)
Alloc(c) == Set(c, New)
Accept(c) ==
  /\ tcp[c] = "closed"
  /\ tcp' = [tcp EXCEPT ![c] = "open"]
  /\ Alloc(c)
  /\ received' = [received EXCEPT ![c] = <<>>]
  /\ post' = [post EXCEPT ![c] = "none"]
  /\ served' = [served EXCEPT ![c] = None]
  /\ UNCHANGED <<segments, buffer, careful>>

(* http_recv with no upload going on and no response: http_parse_request.  *)
Parsing(c) == hs[c] # NoState /\ hs[c].post_left = 0 /\ hs[c].handle = None

(* The request is not complete yet: the pieces are kept, up to a limit. *)
Piece(c) ==
  /\ Parsing(c)
  /\ IF hs[c].req < MaxPieces THEN Keep(c, [hs[c] EXCEPT !.req = @ + 1]) ELSE Close(c, hs[c])
  /\ UNCHANGED <<segments, buffer, received, served, careful>>

(* No such method, a URI that does not end, an upload without a length. *)
BadRequest(c) ==
  /\ Parsing(c)
  /\ Close(c, hs[c])
  /\ UNCHANGED <<segments, buffer, received, served, careful>>

Get(c, uri, is_09) ==
  /\ Parsing(c)
  /\ Respond(c, uri, is_09, post)
  /\ UNCHANGED <<received, careful>>

(* The end of the header is not behind the URI: more is waited for, before *)
(* the limit is looked at.  Such a request can grow until poll ends it.    *)
PostIncomplete(c) ==
  /\ Parsing(c)
  /\ Keep(c, [hs[c] EXCEPT !.req = IF @ <= MaxPieces THEN @ + 1 ELSE @])
  /\ UNCHANGED <<segments, buffer, received, served, careful>>

(* httpd_post_begin refuses: another upload is active, the URI is wrong,   *)
(* the length is zero or too large, or debug mode is off.                  *)
PostRefused(c) ==
  /\ Parsing(c)
  /\ Respond(c, OtaStatus, FALSE, post)
  /\ UNCHANGED <<received, careful>>

(* http_handle_post_finished: the application says where the answer is. *)
PostFinished(c) == Respond(c, OtaStatus, FALSE, [post EXCEPT ![c] = "finished"])

(* http_post_rxpbuf: k units of content, that the application may refuse.  *)
(* With the last one, or an error, the upload is finished and answered.    *)
PostContent(c, h, k) ==
  \/ /\ k < h.post_left
     /\ Set(c, [h EXCEPT !.post_left = @ - k]) /\ UNCHANGED tcp
     /\ post' = [post EXCEPT ![c] = "begun"]
     /\ UNCHANGED <<segments, buffer, served>>
  \/ PostFinished(c)

(* httpd_post_begin accepts an upload of n units; k of them came with the  *)
(* header.                                                                 *)
PostBegin(c, n, k) ==
  /\ Parsing(c)
  /\ LET h == [hs[c] EXCEPT !.req = 0, !.post_left = n]
     IN  IF k > 0 THEN PostContent(c, h, k)
         ELSE /\ Set(c, h) /\ post' = [post EXCEPT ![c] = "begun"]
              /\ UNCHANGED <<tcp, segments, buffer, served>>
  /\ UNCHANGED <<received, careful>>

PostData(c, k) ==
  /\ hs[c] # NoState /\ hs[c].post_left > 0
  /\ PostContent(c, [hs[c] EXCEPT !.retries = 0], k)
  /\ UNCHANGED <<received, careful>>

(* The client has closed its side. *)
RecvClosed(c) ==
  /\ hs[c] # NoState
  /\ Close(c, hs[c])
  /\ UNCHANGED <<segments, buffer, received, served, careful>>

(* http_sent.  What is received is what the endpoint's buffer holds when   *)
(* TCP sends it, for the first time or again.                              *)
Arrived(c, chunk) == <<IF chunk[1] \in Rom THEN c ELSE buffer[chunk[1]], chunk[2]>>

Acknowledge(c) ==
  /\ segments[c] # <<>>
  /\ received' = [received EXCEPT ![c] = Append(@, Arrived(c, Head(segments[c])))]
  /\ IF hs[c] # NoState THEN Send(c, [hs[c] EXCEPT !.retries = 0], Tail(segments[c]), post)
     ELSE segments' = [segments EXCEPT ![c] = Tail(@)] /\ UNCHANGED <<tcp, hs, post, served>>
  /\ UNCHANGED <<buffer, careful>>

(* http_poll, every two seconds, with a state: give up, or send some more. *)
PollOnlySending(c) ==     \* Seeded fault: only responses are polled
  /\ hs[c] # NoState /\ hs[c].handle # None
  /\ LET h == [hs[c] EXCEPT !.retries = @ + 1]
     IN  IF h.retries = MaxRetries THEN Close(c, h) /\ UNCHANGED <<segments, served>>
         ELSE Send(c, h, segments[c], post)
  /\ UNCHANGED <<buffer, received, careful>>
Poll(c) ==
  /\ hs[c] # NoState
  /\ LET h == [hs[c] EXCEPT !.retries = @ + 1]
     IN  IF h.retries = MaxRetries THEN Close(c, h) /\ UNCHANGED <<segments, served>>
         ELSE IF h.handle = None THEN Keep(c, h) /\ UNCHANGED <<segments, served>>
         ELSE Send(c, h, segments[c], post)
  /\ UNCHANGED <<buffer, received, careful>>

(* http_poll without a state: altcp_close is tried again. *)
PollClose(c) ==
  /\ tcp[c] = "pending"
  /\ tcp' = [tcp EXCEPT ![c] = "closing"]
  /\ UNCHANGED <<hs, segments, buffer, received, post, served, careful>>

(* TCP has sent everything and the FIN. *)
Closed(c) ==
  /\ tcp[c] = "closing" /\ segments[c] = <<>>
  /\ tcp' = [tcp EXCEPT ![c] = "closed"]
  /\ UNCHANGED <<hs, segments, buffer, received, post, served, careful>>

(* A reset by the client, or TCP gives up: http_err frees the state, and   *)
(* does not tell the application.                                          *)
ErrorLeaks(c) ==     \* Seeded fault: the state is not freed
  /\ tcp[c] # "closed"
  /\ tcp' = [tcp EXCEPT ![c] = "closed"]
  /\ segments' = [segments EXCEPT ![c] = <<>>]
  /\ post' = [post EXCEPT ![c] = IF @ = "begun" THEN "lost" ELSE @]
  /\ served' = [served EXCEPT ![c] = None]
  /\ UNCHANGED <<hs, buffer, received, careful>>
Error(c) ==
  /\ tcp[c] # "closed"
  /\ tcp' = [tcp EXCEPT ![c] = "closed"]
  /\ segments' = [segments EXCEPT ![c] = <<>>]
  /\ Free(c)
  /\ post' = [post EXCEPT ![c] = IF @ = "begun" THEN "lost" ELSE @]
  /\ served' = [served EXCEPT ![c] = None]
  /\ UNCHANGED <<buffer, received, careful>>

PostRequest(c) ==
  \/ PostIncomplete(c) \/ PostRefused(c)
  \/ \E n \in 1..MaxContent, k \in 0..MaxContent : PostBegin(c, n, k)

ParseRequest(c) ==
  \/ Piece(c) \/ BadRequest(c) \/ PostRequest(c)
  \/ \E uri \in Endpoints \cup {None}, is_09 \in BOOLEAN : Get(c, uri, is_09)

Recv(c) == RecvClosed(c) \/ ParseRequest(c) \/ \E k \in 1..MaxContent : PostData(c, k)

Next ==
  \E c \in Connections : \/ Accept(c) \/ Recv(c) \/ Acknowledge(c)
                         \/ Poll(c) \/ PollClose(c) \/ Closed(c) \/ Error(c)

(* lwIP's slow timer polls every connection; clients may stop at any point. *)
Spec == Init /\ [][Next]_vars /\ \A c \in Connections : WF_vars(Poll(c))

-----------------------------------------------------------------------------
(* Properties *)

States == [req : 0..(MaxPieces + 1), post_left : Nat, handle : Endpoints \cup {None},
           file : Nat, left : Nat, retries : 0..(MaxRetries - 1)]

TypesOK ==
  /\ tcp \in [Connections -> {"closed", "open", "closing", "pending"}]
  /\ hs \in [Connections -> States \cup {NoState}]
  /\ segments \in [Connections -> Seq(Endpoints \X Nat)]
  /\ buffer \in [Endpoints -> Connections \cup {None}]
  /\ received \in [Connections -> Seq((Connections \cup {None}) \X Nat)]
  /\ post \in [Connections -> {"none", "begun", "finished", "lost"}]
  /\ served \in [Connections -> Endpoints \cup {None}]
  /\ careful \in BOOLEAN

(* A state belongs to an open connection; it waits for a request, or for   *)
(* content, or it sends; what is sent and what is left are the rest of one *)
(* response.                                                               *)
StateOK(c) ==
  /\ Len(segments[c]) <= SendBuffer
  /\ tcp[c] = "closed" => segments[c] = <<>>
  /\ hs[c] # NoState <=> tcp[c] = "open"
  /\ hs[c] # NoState =>
       /\ hs[c].handle = None => hs[c].left = 0 /\ segments[c] = <<>>
       /\ hs[c].handle # None =>
            /\ hs[c].post_left = 0 /\ hs[c].left > 0
            /\ hs[c].file + hs[c].left = Length[hs[c].handle] + 1

(* The buffer of e still holds the answer to c, if it can change at all. *)
Owns(c, e) == e \in Rom \/ buffer[e] = c

(* What the client of c has received, what TCP holds for it and what is    *)
(* left to hand over are one response after another chunk of its own, from *)
(* its header or, in HTTP/0.9, its body on.                                *)
StreamFrom(c, first) ==
  /\ \A i \in 1..Len(received[c]) : received[c][i] = <<c, first + i - 1>>
  /\ \A i \in 1..Len(segments[c]) :
       /\ segments[c][i][2] = first + Len(received[c]) + i - 1
       /\ Owns(c, segments[c][i][1])
  /\ hs[c] # NoState =>
       /\ hs[c].handle = None => received[c] = <<>>
       /\ hs[c].handle # None =>
            /\ hs[c].file = first + Len(received[c]) + Len(segments[c])
            /\ Owns(c, hs[c].handle)
  /\ served[c] # None =>
       /\ hs[c] = NoState
       /\ Len(received[c]) + Len(segments[c]) > 0
       /\ first + Len(received[c]) + Len(segments[c]) - 1 = Length[served[c]]

StreamOK(c) == \E first \in {1, 2} : StreamFrom(c, first)

(* Types, with the limit of the retries, which poll compares with ==; no   *)
(* state leaks or is confused; and where clients are careful, what they    *)
(* receive is of one piece.  There is no limit to the pieces of a request: *)
(* see PostIncomplete.                                                     *)
HttpInv ==
  /\ TypesOK
  /\ \A c \in Connections : StateOK(c) /\ (careful => StreamOK(c))

(* An upload the application has accepted is finished, once, in every way  *)
(* a connection ends, except the one http_err handles.                     *)
UploadsEnd ==
  \A c \in Connections : post[c] = "begun" <=> (hs[c] # NoState /\ hs[c].post_left > 0)

(* What a client receives is the response to its own request, from the     *)
(* header or, in HTTP/0.9, the body on, without a gap; and all of it if    *)
(* the connection ended well after the response was handed over.           *)
OwnResponse ==
  careful => \A c \in Connections :
    /\ \A i \in DOMAIN received[c] :
         received[c][i] = <<c, received[c][1][2] + i - 1>> /\ received[c][1][2] \in {1, 2}
    /\ tcp[c] = "closed" /\ served[c] # None =>
         received[c] # <<>> /\ Last(received[c])[2] = Length[served[c]]

(* No client, however it behaves, keeps a state of the small heap forever: *)
(* a silent one does not, nor one whose request never ends.                *)
StatesAreFreed == \A c \in Connections : hs[c] # NoState ~> hs[c] = NoState
=============================================================================
