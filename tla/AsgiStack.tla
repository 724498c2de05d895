------------------------------ MODULE AsgiStack ------------------------------
(***************************************************************************)
(* A request's way through the middlewares of app/main.py:107-124, from    *)
(* the outermost in: RequestId, SecurityHeaders, BodyLimit, ApiKeyAuth,    *)
(* RateLimit (the module this one extends) and Utf8Body, to the routes and *)
(* back.                                                                   *)
(*                                                                         *)
(* Everything up to the first await is one step.  A JSON body is read      *)
(* chunk by chunk before the routes see any of it; a response leaves as a  *)
(* start and a body message.  The routes themselves are left open: they    *)
(* answer, refuse, or raise.                                               *)
(***************************************************************************)
EXTENDS RateLimiter

CONSTANTS
    Requests,
    Intruders,      \* clients whose API key is missing or wrong
    MaxBody         \* max_body_bytes, in chunks of the unit size

ASSUME StackAssumption ==
    /\ Intruders \subseteq Clients
    /\ MaxBody \in Nat

VARIABLES
    scope,      \* the ASGI scope of each request
    task,       \* where its coroutine is, and the locals of the middlewares
    out,        \* messages it is sending, each at an await
    wire,       \* what the server has sent to the client
    recorded    \* the status counted by http_requests_total

stackVars == <<limiterVars, scope, task, out, wire, recorded>>

Lengths == {"absent", "fits", "too long", "malformed"}

\* Only the write methods are asked for a content type.
Scopes ==
    [client : Clients, path : {"/v1/chat"}, method : {"POST"}, type : {"json", "other"}, length : Lengths]
    \cup [client : Clients, path : {"/v1/conversations", "/health"}, method : {"GET"},
          type : {"none"}, length : {"absent"}]

NoScope == [client |-> "none", path |-> "none", method |-> "none", type |-> "none", length |-> "none"]
NotRecorded == 0

\* received, exceeded, started: BodyLimit; kept: Utf8Body; status, replied, error: RequestId;
\* gone, entered, handled: history.
NewTask ==
    [pc |-> "idle", received |-> 0, exceeded |-> FALSE, started |-> FALSE, kept |-> 0,
     status |-> 500, replied |-> FALSE, error |-> FALSE,
     gone |-> FALSE, entered |-> FALSE, handled |-> FALSE]

Init ==
    /\ LimiterInit
    /\ scope = [r \in Requests |-> NoScope]
    /\ task = [r \in Requests |-> NewTask]
    /\ out = [r \in Requests |-> <<>>]
    /\ wire = [r \in Requests |-> <<>>]
    /\ recorded = [r \in Requests |-> NotRecorded]

-----------------------------------------------------------------------------
(* Messages *)

\* Mutant of Headers: the security headers are left to the innermost responses.
HeadersOfRoutes(layer) ==
    {"x-request-id"} \cup (IF layer = "routes" THEN {"security"} ELSE {})

\* What the middlewares outside of a layer add to the responses that start there.
Headers(layer) ==
    {"x-request-id"} \cup (IF layer = "RequestId" THEN {} ELSE {"security"})

Start(status, layer) == [type |-> "start", status |-> status, headers |-> Headers(layer)]
Body(status) == [type |-> "body", status |-> status, headers |-> {}]
Whole(status, layer) == <<Start(status, layer), Body(status)>>

\* Mutant of Send: the status is noted only for the routes' own responses.
SendUnnoted(r) ==
    LET message == Head(out[r]) IN
    /\ out[r] # <<>>
    /\ out' = [out EXCEPT ![r] = Tail(@)]
    /\ task' = IF message.type = "start" /\ task[r].entered
                 THEN [task EXCEPT ![r].status = message.status, ![r].replied = TRUE]
                 ELSE task
    /\ wire' = IF task[r].gone THEN wire ELSE [wire EXCEPT ![r] = Append(@, message)]
    /\ UNCHANGED <<limiterVars, scope, recorded>>

\* RequestId.send_wrapper notes the status and passes the message on to the server,
\* which drops it when the client has gone.
Send(r) ==
    LET message == Head(out[r]) IN
    /\ out[r] # <<>>
    /\ out' = [out EXCEPT ![r] = Tail(@)]
    /\ task' = IF message.type = "start"
                 THEN [task EXCEPT ![r].status = message.status, ![r].replied = TRUE]
                 ELSE task
    /\ wire' = IF task[r].gone THEN wire ELSE [wire EXCEPT ![r] = Append(@, message)]
    /\ UNCHANGED <<limiterVars, scope, recorded>>

\* The coroutine of r runs: it is at pc, and has no message left to send.
At(r, pc) == task[r].pc = pc /\ out[r] = <<>>

-----------------------------------------------------------------------------
(* The way in *)

Public(s) == s.path = "/health"

\* Mutant of LimitStatus: the length that is declared is not compared with the limit.
LimitStatusUndeclared(s) ==
    IF s.type = "other" THEN 415
    ELSE IF s.length = "malformed" THEN 400
    ELSE 0

\* What BodyLimit answers at once, 0 for nothing.
LimitStatus(s) ==
    IF s.type = "other" THEN 415
    ELSE IF s.length = "too long" THEN 413
    ELSE IF s.length = "malformed" THEN 400
    ELSE 0

\* A middleware answers in place of what it wraps.
Reply(r, status, layer) ==
    /\ out' = [out EXCEPT ![r] = Whole(status, layer)]
    /\ task' = [task EXCEPT ![r].pc = "returning"]

\* An exception reaches RequestId, which answers 500 if nothing has been sent.
Fails(r) ==
    /\ out' = IF task[r].replied THEN out ELSE [out EXCEPT ![r] = Whole(500, "RequestId")]
    /\ task' = [task EXCEPT ![r].error = TRUE, ![r].status = 500, ![r].pc = "returning"]

\* Utf8Body reads the whole body of a write; anything else goes straight to the routes.
Enter(r, s) ==
    /\ task' = [task EXCEPT ![r].entered = TRUE,
                            ![r].pc = IF s.method = "POST" THEN "reading" ELSE "routes"]
    /\ UNCHANGED out

\* Mutant of Arrive: the rate limiter is outside of the authentication.
ArriveLimitedFirst(r, s) ==
    /\ At(r, "idle")
    /\ scope' = [scope EXCEPT ![r] = s]
    /\ UNCHANGED <<wire, recorded>>
    /\ \/ LimitStatus(s) # 0 /\ Reply(r, LimitStatus(s), "BodyLimit") /\ UNCHANGED limiterVars
       \/ LimitStatus(s) = 0 /\ Public(s) /\ Enter(r, s) /\ UNCHANGED limiterVars
       \/ /\ LimitStatus(s) = 0 /\ ~Public(s) /\ Check(s.client)
          /\ \/ verdict'[s.client] = "rejected" /\ Reply(r, 429, "RateLimit")
             \/ verdict'[s.client] = "raised" /\ Fails(r)
             \/ /\ verdict'[s.client] = "admitted"
                /\ IF s.client \in Intruders THEN Reply(r, 401, "ApiKeyAuth") ELSE Enter(r, s)

Arrive(r, s) ==
    /\ At(r, "idle")
    /\ scope' = [scope EXCEPT ![r] = s]
    /\ UNCHANGED <<wire, recorded>>
    /\ \/ LimitStatus(s) # 0 /\ Reply(r, LimitStatus(s), "BodyLimit") /\ UNCHANGED limiterVars
       \/ LimitStatus(s) = 0 /\ Public(s) /\ Enter(r, s) /\ UNCHANGED limiterVars
       \/ /\ LimitStatus(s) = 0 /\ ~Public(s) /\ s.client \in Intruders
          /\ Reply(r, 401, "ApiKeyAuth")
          /\ UNCHANGED limiterVars
       \/ /\ LimitStatus(s) = 0 /\ ~Public(s) /\ s.client \notin Intruders
          /\ Check(s.client)
          /\ \/ verdict'[s.client] = "admitted" /\ Enter(r, s)
             \/ verdict'[s.client] = "rejected" /\ Reply(r, 429, "RateLimit")
             \/ verdict'[s.client] = "raised" /\ Fails(r)

\* Mutant of Receive: the body is not ended at the limit, and the client sends no more.
ReceiveOn(r, n, more) ==
    /\ At(r, "reading")
    /\ ~task[r].exceeded
    /\ scope[r].length = "fits" => task[r].received + n <= MaxBody
    /\ LET all == task[r].received + n
       IN  task' = [task EXCEPT ![r].received = all,
                                ![r].exceeded = all > MaxBody,
                                ![r].kept = IF all > MaxBody THEN @ ELSE all,
                                ![r].pc = IF more THEN "reading" ELSE "routes"]
    /\ UNCHANGED <<limiterVars, scope, out, wire, recorded>>

\* A chunk comes in through BodyLimit, which ends the body when it has grown too long.
\* A declared length is kept to by the server.
Receive(r, n, more) ==
    /\ At(r, "reading")
    /\ scope[r].length = "fits" => task[r].received + n <= MaxBody
    /\ LET all == task[r].received + n
       IN  task' = [task EXCEPT ![r].received = all,
                                ![r].exceeded = all > MaxBody,
                                ![r].kept = IF all > MaxBody THEN @ ELSE all,
                                ![r].pc = IF more /\ all <= MaxBody THEN "reading" ELSE "routes"]
    /\ UNCHANGED <<limiterVars, scope, out, wire, recorded>>

\* The client goes away in the middle of its body; the routes are told so.
Disconnect(r) ==
    /\ At(r, "reading")
    /\ task' = [task EXCEPT ![r].gone = TRUE, ![r].pc = "routes"]
    /\ UNCHANGED <<limiterVars, scope, out, wire, recorded>>

-----------------------------------------------------------------------------
(* The routes, and the way out *)

\* The body parses and is valid, or none is needed: the request is carried out.
Handle(r) ==
    /\ At(r, "routes")
    /\ scope[r].method = "POST" => task[r].kept > 0 /\ ~task[r].gone
    /\ task' = [task EXCEPT ![r].handled = TRUE, ![r].pc = "handling"]
    /\ UNCHANGED <<limiterVars, scope, out, wire, recorded>>

\* Mutant of RouteSends: started is not set when the 413 goes out.
RouteSendsAgain(r, message, pc) ==
    LET refuses == task[r].exceeded /\ ~task[r].started IN
    /\ out' = [out EXCEPT ![r] = IF refuses THEN Whole(413, "BodyLimit")
                                 ELSE IF task[r].exceeded THEN <<>> ELSE <<message>>]
    /\ task' = [task EXCEPT ![r].started = @ \/ (message.type = "start" /\ ~refuses), ![r].pc = pc]

\* Mutant of RouteSends: the flag of receive_wrapper is not looked at.
RouteSendsAll(r, message, pc) ==
    /\ out' = [out EXCEPT ![r] = <<message>>]
    /\ task' = [task EXCEPT ![r].started = TRUE, ![r].pc = pc]

\* BodyLimit.send_wrapper: once a body has grown too long, a whole 413 goes out in
\* place of the first message and nothing in place of the others.
RouteSends(r, message, pc) ==
    LET refuses == task[r].exceeded /\ ~task[r].started IN
    /\ out' = [out EXCEPT ![r] = IF refuses THEN Whole(413, "BodyLimit")
                                 ELSE IF task[r].exceeded THEN <<>> ELSE <<message>>]
    /\ task' = [task EXCEPT ![r].started = @ \/ refuses \/ message.type = "start", ![r].pc = pc]

Respond(r) ==
    /\ \/ At(r, "handling") /\ RouteSends(r, Start(200, "routes"), "started")
       \/ /\ At(r, "routes") /\ scope[r].method = "POST"
          /\ RouteSends(r, Start(422, "routes"), "started")
    /\ UNCHANGED <<limiterVars, scope, wire, recorded>>

Finish(r) ==
    /\ At(r, "started")
    /\ RouteSends(r, Body(task[r].status), "returning")
    /\ UNCHANGED <<limiterVars, scope, wire, recorded>>

\* The routes raise what no exception handler takes, before or after they answer.
Raise500(r) ==
    /\ At(r, "routes") \/ At(r, "handling") \/ At(r, "started")
    /\ Fails(r)
    /\ UNCHANGED <<limiterVars, scope, wire, recorded>>

\* The finally clause of RequestId.
Return(r) ==
    /\ At(r, "returning")
    /\ recorded' = [recorded EXCEPT ![r] = task[r].status]
    /\ task' = [task EXCEPT ![r].pc = "done"]
    /\ UNCHANGED <<limiterVars, scope, out, wire>>

TickStack == Tick /\ UNCHANGED <<scope, task, out, wire, recorded>>

Proceed(r) == Handle(r) \/ Respond(r) \/ Finish(r) \/ Raise500(r) \/ Send(r) \/ Return(r)

Next ==
    \/ TickStack
    \/ \E r \in Requests :
          \/ \E s \in Scopes : Arrive(r, s)
          \/ \E n \in 0..MaxBody, more \in BOOLEAN : Receive(r, n, more)
          \/ Disconnect(r)
          \/ Proceed(r)

\* The loop runs a task that can run, and the routes answer; a client need not go on.
Fairness == \A r \in Requests : WF_stackVars(Proceed(r))

Spec == Init /\ [][Next]_stackVars /\ Fairness

-----------------------------------------------------------------------------
(* Properties *)

Statuses == {200, 400, 401, 413, 415, 422, 429, 500}
Messages == [type : {"start", "body"}, status : Statuses, headers : SUBSET {"x-request-id", "security"}]

Tasks ==
    [pc : {"idle", "reading", "routes", "handling", "started", "returning", "done"},
     received : Nat, exceeded : BOOLEAN, started : BOOLEAN, kept : Nat,
     status : Statuses, replied : BOOLEAN, error : BOOLEAN,
     gone : BOOLEAN, entered : BOOLEAN, handled : BOOLEAN]

TypeOK ==
    /\ scope \in [Requests -> Scopes \cup {NoScope}]
    /\ task \in [Requests -> Tasks]
    /\ out \in [Requests -> Seq(Messages)]
    /\ wire \in [Requests -> Seq(Messages)]
    /\ recorded \in [Requests -> Statuses \cup {NotRecorded}]

Done(r) == task[r].pc = "done"
StatusSent(r) == wire[r][1].status
Answered(r) == Done(r) /\ ~task[r].gone

\* Whatever stands between, the client gets one response and the whole of it: never a
\* second start, never the body of another, and never a response that stops after its
\* start, unless the routes raised in between.
OneWholeResponse ==
    \A r \in Requests :
        /\ wire[r] # <<>> => wire[r][1].type = "start"
        /\ Len(wire[r]) > 1 => Len(wire[r]) = 2 /\ wire[r][2] = Body(StatusSent(r))
        /\ Answered(r) => Len(wire[r]) = 2 \/ (task[r].error /\ Len(wire[r]) = 1)

\* The metrics and the access log say what the client was told (middleware.py:116-139):
\* the status recorded is the one sent, or 500 when the routes raised.
RecordedIsSent ==
    \A r \in Requests :
        Answered(r) => recorded[r] = IF task[r].error THEN 500 ELSE StatusSent(r)

\* The budget of a client is spent on the requests that reach the routes and on no
\* others: not on a request refused for its size, type or key, nor on a public path,
\* and a client without a key has none to spend (main.py:107-110).  The table is
\* large enough here never to be cleared.
BudgetIsForRoutes ==
    \A c \in Clients :
        /\ c \in Tracked => c \notin Intruders
        /\ Len(log[c]) = Cardinality({r \in Requests :
              /\ task[r].entered
              /\ scope[r].client = c
              /\ ~Public(scope[r])})

\* Bodies over max_body_bytes are refused (security_headers.py:6-7, 93-139).  One that
\* is declared too long never gets past BodyLimit, whatever the client, its key and its
\* budget: it is answered 413, or 415 if its type is refused first.  One found too long
\* while it was read is answered 413, which only a failure of the routes hides; and
\* nothing else is answered 413.
TooLongIsRefused ==
    \A r \in Requests :
        /\ scope[r].length = "too long" => ~task[r].entered
        /\ Answered(r) =>
              /\ scope[r].length = "too long" =>
                    StatusSent(r) = IF scope[r].type = "json" THEN 413 ELSE 415
              /\ task[r].exceeded => StatusSent(r) = 413 \/ (task[r].error /\ StatusSent(r) = 500)
              /\ StatusSent(r) = 413 => task[r].received > MaxBody \/ scope[r].length = "too long"

\* "Even when the app raises" (middleware.py:3-7): every response carries the request
\* id, and the security headers too unless an exception went all the way out.
ResponsesAreLabelled ==
    \A r \in Requests : wire[r] # <<>> =>
        /\ "x-request-id" \in wire[r][1].headers
        /\ "security" \in wire[r][1].headers \/ task[r].error

\* A request whose body has come in, or has been cut off as too long, is answered and
\* accounted for, however it ends: no middleware waits for more.
AnsweredOnceRead ==
    \A r \in Requests :
        task[r].pc \notin {"idle", "reading"} \/ task[r].exceeded ~> Done(r)

-----------------------------------------------------------------------------
(* What the documentation says and the code does not do *)

\* "Rejects bodies over MAX_BODY_BYTES with 413" (security_headers.py:6): what is
\* answered with 413 has not been carried out.
RejectedIsNotHandled ==
    \A r \in Requests :
        wire[r] # <<>> /\ StatusSent(r) = 413 => ~task[r].handled

=============================================================================
