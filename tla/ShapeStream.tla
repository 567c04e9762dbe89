---------------------------- MODULE ShapeStream ----------------------------
(***************************************************************************)
(* ShapeStream of @electric-sql/client 1.5.27, as the programs under demos *)
(* use it: it asks for the shape from its handle and offset, moves on to   *)
(* where an answer ends, hands the answer's messages to the subscriber and *)
(* asks again when the subscriber is done, holding the request open once   *)
(* it has been told that it is up to date.  On a 409 it starts over with a *)
(* new handle; a failed request is sent again.                             *)
(***************************************************************************)
EXTENDS ShapeLog

CONSTANT Clients

VARIABLES
    stream, \* stream[c]: handle, lastOffset, isUpToDate and the request of client c, or None
    batch   \* batch[c]: the messages its subscriber is working on, or None

streamVars == <<stream, batch>>

Open(h, offset) == [handle |-> h, offset |-> offset, upToDate |-> FALSE, request |-> None]

Pending(c) == stream[c] # None /\ stream[c].request # None

Ask(c) ==
    /\ stream[c] # None /\ batch[c] = None /\ ~Pending(c)
    /\ LET free == {r \in Requests : At(r, "idle")}
           r == CHOOSE x \in free : TRUE
       IN /\ free # {}
          /\ Submit(r, stream[c].handle, stream[c].offset, stream[c].upToDate)
          /\ stream' = [stream EXCEPT ![c].request = r]
    /\ UNCHANGED <<origin, stream_, shapes, given, faults, ghosts, batch>>

\* What a subscriber is given, and where a stream stands.
Batches == [control : SUBSET {"must-refetch", "up-to-date"}, changes : Seq(Message)]

Streams == [handle : Handles \cup {None}, offset : Int, upToDate : BOOLEAN, request : Requests \cup {None}]

\* None is none of them: it stands for the undefined and null of the programs.
ASSUME StreamAssumption == None \notin Batches /\ None \notin Streams /\ None \notin Requests

\* What subscribers get: the changes and the control messages of one answer.
Batch(a) ==
    CASE a.status = "must-refetch" -> [control |-> {"must-refetch"}, changes |-> <<>>]
      [] a.status = "ok" /\ a.upToDate -> [control |-> {"up-to-date"}, changes |-> a.messages]
      [] a.status = "ok" /\ ~a.upToDate /\ a.messages # <<>> -> [control |-> {}, changes |-> a.messages]
      [] OTHER -> None

\* after a 409 only the handle is new
FaultyMoved(s, a) ==
    CASE a.status = "error" -> [s EXCEPT !.request = None]
      [] a.status = "must-refetch" -> [s EXCEPT !.request = None, !.handle = a.handle]
      [] OTHER -> [handle |-> a.handle, offset |-> a.offset, upToDate |-> a.upToDate, request |-> None]

Moved(s, a) ==
    IF a.status = "error" THEN [s EXCEPT !.request = None]
    ELSE [handle |-> a.handle, offset |-> a.offset, upToDate |-> a.upToDate, request |-> None]

Take(c) ==
    /\ Pending(c) /\ At(stream[c].request, "answered")
    /\ LET r == stream[c].request
           a == req[r].answer
       IN /\ req' = [req EXCEPT ![r] = Idle]
          /\ stream' = [stream EXCEPT ![c] = Moved(@, a)]
          /\ batch' = [batch EXCEPT ![c] = Batch(a)]
    /\ UNCHANGED <<origin, stream_, shapes, given, faults, ghosts>>

\* The connection of a request ends.  The node notices when it sends the
\* answer: a request that is still being worked on goes on.
Dropped(c) ==
    IF Pending(c) /\ req[stream[c].request].pc \in {"waiting", "answered"}
    THEN [req EXCEPT ![stream[c].request] = Idle] ELSE req

\* The client ends, and its connection with it.
Hangup(c) ==
    /\ stream' = [stream EXCEPT ![c] = None]
    /\ batch' = [batch EXCEPT ![c] = None]
    /\ req' = Dropped(c)

\* The connection alone is lost, with the answer if there was one: the
\* library sends the request again.
Disconnect(c) ==
    /\ Pending(c) /\ Fault("disconnect")
    /\ stream' = [stream EXCEPT ![c].request = None]
    /\ req' = Dropped(c)
    /\ UNCHANGED <<origin, stream_, shapes, given, ghosts, batch>>

Abandoned(r) ==
    /\ req[r].pc \in {"await", "waiting", "answered"}
    /\ \A c \in Clients : Pending(c) => stream[c].request # r
    /\ req' = [req EXCEPT ![r] = Idle]
    /\ UNCHANGED <<origin, stream_, shapes, given, faults, ghosts, streamVars>>

StreamInit == stream = [c \in Clients |-> None] /\ batch = [c \in Clients |-> None]

\* The messages applied to a copy of the table, in order.
Replay(copy, messages) ==
    [r \in Rows |->
        LET about == {i \in DOMAIN messages : messages[i].row = r} IN
        IF about = {} THEN copy[r]
        ELSE LET m == messages[CHOOSE i \in about : \A j \in about : j <= i]
             IN IF m.op = "delete" THEN None ELSE m.value]

\* What a client of the shape should see of the table.
View == [r \in Rows |-> IF Matches(shape, r, table[r]) THEN Project(shape, table[r]) ELSE None]
=============================================================================
