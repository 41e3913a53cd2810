----------------------------- MODULE BodyLimit -----------------------------
(***************************************************************************)
(* RequestBodyLimitMiddleware (app.py): a write request's body is buffered *)
(* chunk by chunk up to a limit before the application is called, which    *)
(* then receives it in one piece.                                          *)
(***************************************************************************)
EXTENDS Integers, Sequences

CONSTANTS
  MaxBytes,     \* AGENTIOT_MAX_REQUEST_BODY_BYTES
  ChunkMax,     \* bound: bytes of a chunk
  ChunkCount    \* bound: messages of a client

BodyAssumption == MaxBytes \in Nat \ {0} /\ ChunkMax \in Nat /\ ChunkCount \in Nat

Invalid == -1    \* a Content-Length that is no number
Absent == -2

VARIABLES
  scope,      \* [write, length]: method class and Content-Length header
  sent,       \* per chunk the client has sent: the bytes sent up to its end
  ended,      \* "open", "done" or "disconnected", on the client's side
  taken,      \* chunks the middleware has received
  stage,      \* of the middleware: "check", "buffer", "app", "answered"
  body,       \* bytes buffered
  received,   \* messages the application has received
  response    \* 0 or the status of the answer

vars == <<scope, sent, ended, taken, stage, body, received, response>>

Upto(i) == IF i = 0 THEN 0 ELSE sent[i]
Total == Upto(Len(sent))
Chunk(i) == Upto(i) - Upto(i - 1)

(* The client sends chunks, ends its body or goes away. *)
SendChunk(n) ==
  /\ ended = "open" /\ Len(sent) < ChunkCount
  /\ sent' = Append(sent, Total + n)
  /\ UNCHANGED <<scope, ended, taken, stage, body, received, response>>
EndBody(how) ==
  /\ ended = "open" /\ (how = "done" => sent # <<>>)
  /\ ended' = how
  /\ UNCHANGED <<scope, sent, taken, stage, body, received, response>>

Answer(status) == stage' = "answered" /\ response' = status

(* Other methods and scopes pass; then the announced length is checked.    *)
CheckLength ==
  /\ stage = "check"
  /\ IF ~scope.write THEN stage' = "app" /\ UNCHANGED response
     ELSE IF scope.length = Invalid THEN Answer(400)
     ELSE IF scope.length > MaxBytes THEN Answer(413)
     ELSE stage' = "buffer" /\ UNCHANGED response
  /\ UNCHANGED <<scope, sent, ended, taken, body, received>>

TooLarge_last(n) == body > MaxBytes
TooLarge(n) == n > MaxBytes
Last(i) == i = Len(sent) /\ ended = "done"

(* A chunk is the last one once the client has ended its body; a client    *)
(* that ends it later sends an empty last chunk.                           *)
Buffer ==
  /\ stage = "buffer" /\ taken < Len(sent)
  /\ taken' = taken + 1
  /\ body' = body + Chunk(taken + 1)
  /\ IF TooLarge(body') THEN Answer(413)
     ELSE stage' = (IF Last(taken + 1) THEN "app" ELSE stage) /\ UNCHANGED response
  /\ UNCHANGED <<scope, sent, ended, received>>
BufferEnd ==
  /\ stage = "buffer" /\ taken = Len(sent) /\ ended = "done"
  /\ stage' = "app"
  /\ UNCHANGED <<scope, sent, ended, taken, body, received, response>>

(* The application is called with a receive that only tells of the         *)
(* disconnection.                                                          *)
BufferDisconnect ==
  /\ stage = "buffer" /\ taken = Len(sent) /\ ended = "disconnected"
  /\ stage' = "app" /\ received' = <<[type |-> "disconnect", bytes |-> 0]>>
  /\ UNCHANGED <<scope, sent, ended, taken, body, response>>

(* replay_receive: the body once, then whatever the server reports.        *)
AppReceive ==
  /\ stage = "app" /\ scope.write /\ received = <<>>
  /\ received' = <<[type |-> "request", bytes |-> body]>>
  /\ UNCHANGED <<scope, sent, ended, taken, stage, body, response>>
AppReceiveNext ==
  /\ stage = "app" /\ scope.write /\ Len(received) = 1
  /\ received' = Append(received, [type |-> "disconnect", bytes |-> 0])
  /\ UNCHANGED <<scope, sent, ended, taken, stage, body, response>>
AppAnswer ==
  /\ stage = "app" /\ Answer(200)
  /\ UNCHANGED <<scope, sent, ended, taken, body, received>>

Init ==
  /\ scope \in [write : BOOLEAN, length : {Absent, Invalid} \cup 0..(MaxBytes + 1)]
  /\ sent = <<>> /\ ended = "open" /\ taken = 0
  /\ stage = "check" /\ body = 0 /\ received = <<>> /\ response = 0

Next ==
  \/ \E n \in 0..ChunkMax : SendChunk(n)
  \/ \E how \in {"done", "disconnected"} : EndBody(how)
  \/ CheckLength \/ Buffer \/ BufferEnd \/ BufferDisconnect
  \/ AppReceive \/ AppReceiveNext \/ AppAnswer

Spec == Init /\ [][Next]_vars

-----------------------------------------------------------------------------
(* Properties *)

TypeOK ==
  /\ scope \in [write : BOOLEAN, length : {Absent, Invalid} \cup 0..(MaxBytes + 1)]
  /\ sent \in Seq(Nat)
  /\ stage \in {"check", "buffer", "app", "answered"}
  /\ ended \in {"open", "done", "disconnected"}
  /\ taken \in 0..Len(sent) /\ body \in 0..(MaxBytes + ChunkMax)
  /\ response \in {0, 200, 400, 413}

(* "Limit actual write request body bytes without trusting                 *)
(* Content-Length": the application of a write gets the whole body in one  *)
(* message or none of it, at most once and never more than the limit,      *)
(* whatever was announced and however it is chunked; it is not called for  *)
(* a body that is refused.                                                 *)
BodyWholeAndBounded ==
  /\ \A i \in 1..Len(received) : received[i].type = "request" =>
       /\ i = 1 /\ received[i].bytes <= MaxBytes
       /\ ended = "done" => received[i].bytes = Total
  /\ response = 413 => received = <<>> /\ (scope.length > MaxBytes \/ Total > MaxBytes)
=============================================================================
