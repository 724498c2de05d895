-------------------------- MODULE AsgiStack_proofs --------------------------
(***************************************************************************)
(* Proofs about AsgiStack, for any requests, clients, intruders, limits    *)
(* and body size.                                                          *)
(***************************************************************************)
EXTENDS AsgiStack, RateLimiter_proofs

-----------------------------------------------------------------------------
(* The stack uses the limiter as a limiter *)

\* No middleware but RateLimit (main.py:111) touches the table of the limiter.
LEMMA StepOfLimiter == [Next]_stackVars => [LimiterNext]_limiterVars
<1> SUFFICES ASSUME [Next]_stackVars PROVE [LimiterNext]_limiterVars
  OBVIOUS
<1>1. CASE TickStack
  BY <1>1 DEF TickStack, LimiterNext
<1>2. ASSUME NEW r \in Requests, NEW s \in Scopes, Arrive(r, s)
      PROVE  [LimiterNext]_limiterVars
  <2>1. s.client \in Clients
    BY DEF Scopes
  <2> QED BY <1>2, <2>1 DEF Arrive, LimiterNext
<1>3. ASSUME NEW r \in Requests, NEW n \in 0..MaxBody, NEW more \in BOOLEAN, Receive(r, n, more)
      PROVE  UNCHANGED limiterVars
  BY <1>3 DEF Receive, limiterVars
<1>4. ASSUME NEW r \in Requests, Disconnect(r) \/ Proceed(r)
      PROVE  UNCHANGED limiterVars
  BY <1>4 DEF Disconnect, Proceed, Handle, Respond, Finish, Raise500, Send, Return, limiterVars
<1>5. CASE UNCHANGED stackVars
  BY <1>5 DEF stackVars
<1> QED BY <1>1, <1>2, <1>3, <1>4, <1>5 DEF Next

\* Behind the stack of main.py:107-124 the limiter still is the one RateLimiter
\* describes: all that is proved of it holds there.
THEOREM StackKeepsLimiter == Spec => LimiterSpec
<1>1. Init => LimiterInit
  BY DEF Init
<1> QED BY <1>1, StepOfLimiter, PTL DEF Spec, LimiterSpec

-----------------------------------------------------------------------------
(* The inductive invariant, of one request at a time *)

\* Nothing has been sent yet of a request that the routes have not answered.
Before == {"idle", "reading", "routes", "handling"}
Fresh(t, o, w) ==
    /\ o = <<>> /\ w = <<>>
    /\ ~t.replied /\ ~t.error /\ ~t.started
    /\ t.pc \in {"idle", "reading"} => ~t.exceeded

\* What is on the wire and what is still to be sent make up the start h of a response,
\* or all of it.
Half(o, w, h) ==
    \/ o = <<h>> /\ w = <<>>
    \/ o = <<>> /\ w = <<h>>
Full(o, w, h) ==
    \/ o = <<h, Body(h.status)>> /\ w = <<>>
    \/ o = <<Body(h.status)>> /\ w = <<h>>
    \/ o = <<>> /\ w = <<h, Body(h.status)>>

\* The start of a response that suits the request.
Suits(t, s, h) ==
    /\ h.type = "start"
    /\ "x-request-id" \in h.headers
    /\ "security" \in h.headers \/ t.error
    /\ h.status = 413 => t.exceeded \/ s.length = "too long"
    /\ t.exceeded => h.status = 413 \/ (t.error /\ h.status = 500)

\* RequestId knows what has been sent, and no part of a response is lost but when the
\* routes have raised in the middle of it.
Answering(t, s, o, w, h) ==
    /\ Suits(t, s, h)
    /\ t.replied <=> w # <<>>
    /\ t.error => t.status = 500 /\ (t.replied \/ h.status = 500)
    /\ t.replied /\ ~t.error => t.status = h.status
    /\ t.pc = "started" =>
          /\ ~t.error
          /\ (t.exceeded /\ Full(o, w, h)) \/ (~t.exceeded /\ Half(o, w, h))
    /\ t.pc \in {"returning", "done"} => Full(o, w, h) \/ (t.error /\ Half(o, w, h))

ResponseOK(t, s, o, w, rec) ==
    /\ t.pc \in Before => Fresh(t, o, w)
    /\ t.pc \notin Before /\ ~t.gone => \E h \in Messages : Answering(t, s, o, w, h)
    /\ t.pc = "done" => o = <<>> /\ rec = t.status
    /\ t.gone => w = <<>>
    /\ t.pc = "started" => t.started
    /\ t.exceeded => t.received > MaxBody

IInvOfStack ==
    /\ TypeOK
    /\ \A r \in Requests : ResponseOK(task[r], scope[r], out[r], wire[r], recorded[r])

-----------------------------------------------------------------------------
(* Messages *)

LEMMA RepliesAreTyped ==
    ASSUME NEW status \in Statuses, NEW layer
    PROVE  /\ Start(status, layer) \in Messages
           /\ Body(status) \in Messages
           /\ Whole(status, layer) \in Seq(Messages)
BY DEF Start, Body, Whole, Headers, Messages

\* The lists of messages there are.
LEMMA SomeMessages ==
    ASSUME NEW a, NEW b
    PROVE  /\ <<a>> # <<>> /\ <<a, b>> # <<>> /\ <<a, b>> # <<a>>
           /\ Head(<<a>>) = a /\ Tail(<<a>>) = <<>>
           /\ Head(<<a, b>>) = a /\ Tail(<<a, b>>) = <<b>>
           /\ Append(<<>>, a) = <<a>> /\ Append(<<a>>, b) = <<a, b>>
<1>1. Len(<<>>) = 0 /\ Len(<<a>>) = 1 /\ Len(<<a, b>>) = 2
  OBVIOUS
<1>2. <<a>> # <<>> /\ <<a, b>> # <<>> /\ <<a, b>> # <<a>>
  BY <1>1
<1>3. Head(<<a>>) = a /\ Head(<<a, b>>) = a
  OBVIOUS
<1>4. Tail(<<a>>) = <<>>
  OBVIOUS
<1>5. Tail(<<a, b>>) = <<b>>
  OBVIOUS
<1>6. Append(<<>>, a) = <<a>>
  OBVIOUS
<1>7. Append(<<a>>, b) = <<a, b>>
  <2> DEFINE m == Append(<<a>>, b)
  <2>1. <<a>> \in Seq({a, b}) /\ b \in {a, b}
    OBVIOUS
  <2>2. m \in Seq({a, b}) /\ Len(m) = 2 /\ m[1] = a /\ m[2] = b
    BY <2>1
  <2> HIDE DEF m
  <2>3. m = <<a, b>>
    BY <2>2
  <2> QED BY <2>3 DEF m
<1> QED BY <1>2, <1>3, <1>4, <1>5, <1>6, <1>7

\* A task that has sent nothing and whose application has not answered.
Quiet(t) ==
    /\ t.pc \in Before
    /\ ~t.replied /\ ~t.error /\ ~t.started
    /\ t.pc \in {"idle", "reading"} => ~t.exceeded
    /\ t.exceeded => t.received > MaxBody

LEMMA NothingYet ==
    ASSUME NEW t \in Tasks, NEW s, NEW rec, Quiet(t)
    PROVE  ResponseOK(t, s, <<>>, <<>>, rec)
BY DEF ResponseOK, Fresh, Before, Quiet

\* A whole response is on its way.
LEMMA WholeAnswers ==
    ASSUME NEW t \in Tasks, NEW s, NEW status \in Statuses, NEW layer, NEW rec,
           t.pc = "returning" \/ (t.pc = "started" /\ ~t.error /\ t.started /\ t.exceeded),
           ~t.replied,
           t.error => t.status = 500 /\ status = 500,
           layer # "RequestId" \/ t.error,
           status = 413 => t.exceeded \/ s.length = "too long",
           t.exceeded => status = 413 \/ (t.error /\ status = 500),
           t.exceeded => t.received > MaxBody
    PROVE  ResponseOK(t, s, Whole(status, layer), <<>>, rec)
<1> DEFINE h == Start(status, layer)
           o == Whole(status, layer)
<1>1. /\ h.type = "start" /\ h.status = status /\ "x-request-id" \in h.headers
      /\ layer # "RequestId" => "security" \in h.headers
      /\ o = <<h, Body(h.status)>>
  BY DEF Start, Headers, Whole
<1>2. h \in Messages
  BY RepliesAreTyped, ZenonT(60)
<1> HIDE DEF h, o
<1>3. Suits(t, s, h)
  BY <1>1, ZenonT(60) DEF Suits
<1>4. Full(o, <<>>, h)
  BY <1>1 DEF Full
<1>5. t.replied <=> <<>> # <<>>
  OBVIOUS
<1>6. Answering(t, s, o, <<>>, h)
  BY <1>1, <1>3, <1>4, <1>5 DEF Answering
<1>7. t.pc \notin Before /\ t.pc # "done"
  BY DEF Before
<1>8. ResponseOK(t, s, o, <<>>, rec)
  BY <1>2, <1>6, <1>7 DEF ResponseOK
<1> QED BY <1>8 DEF o

\* The 413 of BodyLimit is on its way.
LEMMA RefusalAnswers ==
    ASSUME NEW t \in Tasks, NEW s, NEW rec,
           t.pc = "started", t.started, ~t.error, ~t.replied, t.exceeded, t.received > MaxBody
    PROVE  ResponseOK(t, s, Whole(413, "BodyLimit"), <<>>, rec)
<1>1. PICK status \in Statuses, layer \in {"BodyLimit"} : status = 413
  BY DEF Statuses
<1>2. layer # "RequestId"
  BY <1>1
<1>3. ResponseOK(t, s, Whole(status, layer), <<>>, rec)
  BY <1>1, <1>2, WholeAnswers, ZenonT(60)
<1> QED BY <1>1, <1>3

\* The start of the routes' own response is on its way.
LEMMA StartAnswers ==
    ASSUME NEW t \in Tasks, NEW s, NEW status \in Statuses, NEW rec,
           t.pc = "started", t.started, ~t.error, ~t.exceeded, ~t.replied, status # 413
    PROVE  ResponseOK(t, s, <<Start(status, "routes")>>, <<>>, rec)
<1> DEFINE h == Start(status, "routes")
<1>1. /\ h.type = "start" /\ h.status = status
      /\ "x-request-id" \in h.headers /\ "security" \in h.headers
  BY DEF Start, Headers
<1>2. h \in Messages
  BY RepliesAreTyped
<1> HIDE DEF h
<1>3. Suits(t, s, h)
  BY <1>1 DEF Suits
<1>4. Half(<<h>>, <<>>, h)
  BY DEF Half
<1>5. t.replied <=> <<>> # <<>>
  OBVIOUS
<1>6. Answering(t, s, <<h>>, <<>>, h)
  BY <1>1, <1>3, <1>4, <1>5 DEF Answering
<1>7. t.pc \notin Before /\ t.pc # "done"
  BY DEF Before
<1>8. ResponseOK(t, s, <<h>>, <<>>, rec)
  BY <1>2, <1>6, <1>7 DEF ResponseOK
<1> QED BY <1>8 DEF h

-----------------------------------------------------------------------------
(* Steps *)

\* A step of r, and what it makes of the state of r.
Becomes(r, t, s, o, w, rec) ==
    /\ task' = [task EXCEPT ![r] = t]
    /\ scope' = [scope EXCEPT ![r] = s]
    /\ out' = [out EXCEPT ![r] = o]
    /\ wire' = [wire EXCEPT ![r] = w]
    /\ recorded' = [recorded EXCEPT ![r] = rec]

Sound(t, s, o, w, rec) ==
    /\ t \in Tasks /\ s \in Scopes \cup {NoScope}
    /\ o \in Seq(Messages) /\ w \in Seq(Messages)
    /\ rec \in Statuses \cup {NotRecorded}
    /\ ResponseOK(t, s, o, w, rec)

LEMMA StepOfOne ==
    ASSUME IInvOfStack, NEW r \in Requests, NEW t, NEW s, NEW o, NEW w, NEW rec,
           Becomes(r, t, s, o, w, rec), Sound(t, s, o, w, rec)
    PROVE  IInvOfStack'
<1>1. TypeOK'
  BY DEF IInvOfStack, TypeOK, Becomes, Sound
<1>2. ASSUME NEW q \in Requests
      PROVE  ResponseOK(task'[q], scope'[q], out'[q], wire'[q], recorded'[q])
  <2>1. CASE q = r
    <3>1. /\ task'[q] = t /\ scope'[q] = s /\ out'[q] = o
          /\ wire'[q] = w /\ recorded'[q] = rec
      BY <2>1 DEF IInvOfStack, TypeOK, Becomes
    <3> QED BY <3>1 DEF Sound
  <2>2. CASE q # r
    <3>1. /\ task'[q] = task[q] /\ scope'[q] = scope[q] /\ out'[q] = out[q]
          /\ wire'[q] = wire[q] /\ recorded'[q] = recorded[q]
      BY <2>2 DEF IInvOfStack, TypeOK, Becomes
    <3> QED BY <3>1 DEF IInvOfStack
  <2> QED BY <2>1, <2>2
<1> QED BY <1>1, <1>2 DEF IInvOfStack

\* What a step leaves alone.
LEMMA Same ==
    ASSUME TypeOK, NEW r \in Requests
    PROVE  /\ task[r] \in Tasks /\ scope[r] \in Scopes \cup {NoScope}
           /\ out[r] \in Seq(Messages) /\ wire[r] \in Seq(Messages)
           /\ recorded[r] \in Statuses \cup {NotRecorded}
           /\ task = [task EXCEPT ![r] = task[r]]
           /\ scope = [scope EXCEPT ![r] = scope[r]]
           /\ out = [out EXCEPT ![r] = out[r]]
           /\ wire = [wire EXCEPT ![r] = wire[r]]
           /\ recorded = [recorded EXCEPT ![r] = recorded[r]]
BY DEF TypeOK

\* What r has before a step of its own, as constants.
LEMMA LocalState ==
    ASSUME IInvOfStack, NEW r \in Requests
    PROVE  \E t \in Tasks, s \in Scopes \cup {NoScope}, o \in Seq(Messages),
              w \in Seq(Messages), rec \in Statuses \cup {NotRecorded} :
                /\ task[r] = t /\ scope[r] = s /\ out[r] = o /\ wire[r] = w /\ recorded[r] = rec
                /\ scope = [scope EXCEPT ![r] = s] /\ out = [out EXCEPT ![r] = o]
                /\ wire = [wire EXCEPT ![r] = w] /\ recorded = [recorded EXCEPT ![r] = rec]
                /\ ResponseOK(t, s, o, w, rec)
<1>1. ResponseOK(task[r], scope[r], out[r], wire[r], recorded[r])
  BY DEF IInvOfStack
<1>2. PICK t \in Tasks, s \in Scopes \cup {NoScope}, o \in Seq(Messages),
           w \in Seq(Messages), rec \in Statuses \cup {NotRecorded} :
         task[r] = t /\ scope[r] = s /\ out[r] = o /\ wire[r] = w /\ recorded[r] = rec
  BY Same DEF IInvOfStack
<1>3. ResponseOK(t, s, o, w, rec)
  BY <1>1, <1>2, Zenon
<1>4. /\ scope = [scope EXCEPT ![r] = s] /\ out = [out EXCEPT ![r] = o]
      /\ wire = [wire EXCEPT ![r] = w] /\ recorded = [recorded EXCEPT ![r] = rec]
  BY <1>2, Same DEF IInvOfStack
<1> QED BY <1>2, <1>3, <1>4

\* Nobody listens.
LEMMA NobodyListens ==
    ASSUME NEW t, NEW s, NEW o, NEW rec,
           t.pc \notin Before \cup {"done"}, t.gone,
           t.pc = "started" => t.started, t.exceeded => t.received > MaxBody
    PROVE  ResponseOK(t, s, o, <<>>, rec)
BY DEF ResponseOK

\* What the invariant says of a request that has sent nothing.
LEMMA NotYetSent ==
    ASSUME IInvOfStack, NEW r \in Requests, task[r].pc \in Before
    PROVE  Quiet(task[r]) /\ out[r] = <<>> /\ wire[r] = <<>>
BY DEF IInvOfStack, ResponseOK, Fresh, Quiet

LEMMA ReplyKeeps ==
    ASSUME IInvOfStack, NEW r \in Requests, NEW s \in Scopes, NEW status \in Statuses,
           NEW layer \in {"BodyLimit", "ApiKeyAuth", "RateLimit"},
           At(r, "idle"), Reply(r, status, layer),
           scope' = [scope EXCEPT ![r] = s], UNCHANGED <<wire, recorded>>,
           status = 413 => s.length = "too long"
    PROVE  IInvOfStack'
<1>1. PICK t0 \in Tasks, s0 \in Scopes \cup {NoScope}, o0 \in Seq(Messages),
           w0 \in Seq(Messages), rec0 \in Statuses \cup {NotRecorded} :
         /\ task[r] = t0 /\ scope[r] = s0 /\ out[r] = o0 /\ wire[r] = w0 /\ recorded[r] = rec0
         /\ scope = [scope EXCEPT ![r] = s0] /\ out = [out EXCEPT ![r] = o0]
         /\ wire = [wire EXCEPT ![r] = w0] /\ recorded = [recorded EXCEPT ![r] = rec0]
         /\ ResponseOK(t0, s0, o0, w0, rec0)
  BY LocalState
<1> DEFINE t == [t0 EXCEPT !.pc = "returning"]
           o == Whole(status, layer)
<1>2. t0.pc = "idle" /\ Quiet(t0) /\ w0 = <<>>
  BY <1>1, NotYetSent DEF At, Before
<1>3. /\ t \in Tasks /\ t.pc = "returning"
      /\ ~t.replied /\ ~t.error /\ ~t.exceeded
  BY <1>2 DEF Tasks, Quiet
<1>4. task' = [task EXCEPT ![r] = t] /\ out' = [out EXCEPT ![r] = o]
  BY <1>1 DEF Reply
<1> HIDE DEF t
<1>5. ResponseOK(t, s, o, <<>>, rec0)
  BY <1>3, WholeAnswers
<1>6. o \in Seq(Messages)
  BY RepliesAreTyped
<1> HIDE DEF o
<1>7. Becomes(r, t, s, o, <<>>, rec0)
  BY <1>1, <1>2, <1>4 DEF Becomes
<1>8. s \in Scopes \cup {NoScope} /\ <<>> \in Seq(Messages)
  BY <1>1, <1>2
<1>9. Sound(t, s, o, <<>>, rec0)
  BY <1>3, <1>5, <1>6, <1>8 DEF Sound
<1> QED BY <1>7, <1>9, StepOfOne

\* A step of r that changes its task and scope only, before anything has been sent.
LEMMA EarlyStep ==
    ASSUME IInvOfStack, NEW r \in Requests, task[r].pc \in Before,
           NEW t \in Tasks, Quiet(t), NEW s \in Scopes \cup {NoScope},
           task' = [task EXCEPT ![r] = t], scope' = [scope EXCEPT ![r] = s],
           UNCHANGED <<out, wire, recorded>>
    PROVE  IInvOfStack'
<1>1. out[r] = <<>> /\ wire[r] = <<>>
  BY NotYetSent
<1>2. PICK t0 \in Tasks, s0 \in Scopes \cup {NoScope}, o0 \in Seq(Messages),
           w0 \in Seq(Messages), rec0 \in Statuses \cup {NotRecorded} :
         /\ task[r] = t0 /\ scope[r] = s0 /\ out[r] = o0 /\ wire[r] = w0 /\ recorded[r] = rec0
         /\ scope = [scope EXCEPT ![r] = s0] /\ out = [out EXCEPT ![r] = o0]
         /\ wire = [wire EXCEPT ![r] = w0] /\ recorded = [recorded EXCEPT ![r] = rec0]
         /\ ResponseOK(t0, s0, o0, w0, rec0)
  BY LocalState
<1>3. o0 = <<>> /\ w0 = <<>>
  BY <1>1, <1>2
<1>4. Becomes(r, t, s, o0, w0, rec0)
  BY <1>2 DEF Becomes
<1>5. ResponseOK(t, s, <<>>, <<>>, rec0)
  BY NothingYet
<1>6. Sound(t, s, o0, w0, rec0)
  BY <1>3, <1>5 DEF Sound
<1> QED BY <1>4, <1>6, StepOfOne

LEMMA EnterKeeps ==
    ASSUME IInvOfStack, NEW r \in Requests, NEW s \in Scopes,
           At(r, "idle"), Enter(r, s),
           scope' = [scope EXCEPT ![r] = s], UNCHANGED <<wire, recorded>>
    PROVE  IInvOfStack'
<1>1. PICK t0 \in Tasks, s0 \in Scopes \cup {NoScope}, o0 \in Seq(Messages),
           w0 \in Seq(Messages), rec0 \in Statuses \cup {NotRecorded} :
         /\ task[r] = t0 /\ scope[r] = s0 /\ out[r] = o0 /\ wire[r] = w0 /\ recorded[r] = rec0
         /\ scope = [scope EXCEPT ![r] = s0] /\ out = [out EXCEPT ![r] = o0]
         /\ wire = [wire EXCEPT ![r] = w0] /\ recorded = [recorded EXCEPT ![r] = rec0]
         /\ ResponseOK(t0, s0, o0, w0, rec0)
  BY LocalState
<1> DEFINE t == [t0 EXCEPT !.entered = TRUE,
                           !.pc = IF s.method = "POST" THEN "reading" ELSE "routes"]
<1>2. t0.pc = "idle" /\ Quiet(t0)
  BY <1>1, NotYetSent DEF At, Before
<1>3. t \in Tasks /\ Quiet(t)
  BY <1>2 DEF Tasks, Quiet, Before
<1>4. task' = [task EXCEPT ![r] = t] /\ UNCHANGED <<out, wire, recorded>>
  BY <1>1 DEF Enter
<1> HIDE DEF t
<1>5. task[r].pc \in Before
  BY <1>1, <1>2 DEF Before
<1> QED BY <1>3, <1>4, <1>5, EarlyStep

LEMMA ReceiveKeeps ==
    ASSUME StackAssumption, IInvOfStack, NEW r \in Requests, NEW n \in 0..MaxBody,
           NEW more \in BOOLEAN, Receive(r, n, more)
    PROVE  IInvOfStack'
<1>1. PICK t0 \in Tasks, s0 \in Scopes \cup {NoScope}, o0 \in Seq(Messages),
           w0 \in Seq(Messages), rec0 \in Statuses \cup {NotRecorded} :
         /\ task[r] = t0 /\ scope[r] = s0 /\ out[r] = o0 /\ wire[r] = w0 /\ recorded[r] = rec0
         /\ scope = [scope EXCEPT ![r] = s0] /\ out = [out EXCEPT ![r] = o0]
         /\ wire = [wire EXCEPT ![r] = w0] /\ recorded = [recorded EXCEPT ![r] = rec0]
         /\ ResponseOK(t0, s0, o0, w0, rec0)
  BY LocalState
<1> DEFINE all == t0.received + n
           over == all > MaxBody
           keep == IF over THEN t0.kept ELSE all
           next == IF more /\ all <= MaxBody THEN "reading" ELSE "routes"
           t == [t0 EXCEPT !.received = all, !.exceeded = over, !.kept = keep, !.pc = next]
<1>2. t0.pc = "reading" /\ Quiet(t0)
  BY <1>1, NotYetSent DEF Receive, At, Before
<1>3. task' = [task EXCEPT ![r] = t]
  BY <1>1 DEF Receive
<1>4. all \in Nat /\ MaxBody \in Nat
  BY DEF Tasks, StackAssumption
<1>5. /\ over \in BOOLEAN /\ keep \in Nat /\ next \in {"reading", "routes"}
      /\ over <=> all > MaxBody
      /\ next = "reading" => ~over
  BY <1>4 DEF Tasks
<1> HIDE DEF all, over, keep, next
<1>6. t \in Tasks
  BY <1>4, <1>5 DEF Tasks
<1>7. /\ t.pc = next /\ t.received = all /\ t.exceeded = over
      /\ ~t.replied /\ ~t.error /\ ~t.started
  BY <1>2 DEF Tasks, Quiet
<1> HIDE DEF t
<1>8. Quiet(t)
  BY <1>5, <1>7 DEF Quiet, Before
<1>9. /\ task[r].pc \in Before /\ scope' = [scope EXCEPT ![r] = s0]
      /\ UNCHANGED <<out, wire, recorded>>
  BY <1>1, <1>2 DEF Before, Receive
<1> QED BY <1>3, <1>6, <1>8, <1>9, EarlyStep

LEMMA DisconnectKeeps ==
    ASSUME IInvOfStack, NEW r \in Requests, Disconnect(r)
    PROVE  IInvOfStack'
<1>1. PICK t0 \in Tasks, s0 \in Scopes \cup {NoScope}, o0 \in Seq(Messages),
           w0 \in Seq(Messages), rec0 \in Statuses \cup {NotRecorded} :
         /\ task[r] = t0 /\ scope[r] = s0 /\ out[r] = o0 /\ wire[r] = w0 /\ recorded[r] = rec0
         /\ scope = [scope EXCEPT ![r] = s0] /\ out = [out EXCEPT ![r] = o0]
         /\ wire = [wire EXCEPT ![r] = w0] /\ recorded = [recorded EXCEPT ![r] = rec0]
         /\ ResponseOK(t0, s0, o0, w0, rec0)
  BY LocalState
<1> DEFINE t == [t0 EXCEPT !.gone = TRUE, !.pc = "routes"]
<1>2. t0.pc = "reading" /\ Quiet(t0)
  BY <1>1, NotYetSent DEF Disconnect, At, Before
<1>3. t \in Tasks /\ Quiet(t)
  BY <1>2 DEF Tasks, Quiet, Before
<1>4. task' = [task EXCEPT ![r] = t]
  BY <1>1, Zenon DEF Disconnect
<1> HIDE DEF t
<1>5. /\ task[r].pc \in Before /\ scope' = [scope EXCEPT ![r] = s0]
      /\ UNCHANGED <<out, wire, recorded>>
  BY <1>1, <1>2 DEF Before, Disconnect
<1> QED BY <1>3, <1>4, <1>5, EarlyStep

LEMMA HandleKeeps ==
    ASSUME IInvOfStack, NEW r \in Requests, Handle(r)
    PROVE  IInvOfStack'
<1>1. PICK t0 \in Tasks, s0 \in Scopes \cup {NoScope}, o0 \in Seq(Messages),
           w0 \in Seq(Messages), rec0 \in Statuses \cup {NotRecorded} :
         /\ task[r] = t0 /\ scope[r] = s0 /\ out[r] = o0 /\ wire[r] = w0 /\ recorded[r] = rec0
         /\ scope = [scope EXCEPT ![r] = s0] /\ out = [out EXCEPT ![r] = o0]
         /\ wire = [wire EXCEPT ![r] = w0] /\ recorded = [recorded EXCEPT ![r] = rec0]
         /\ ResponseOK(t0, s0, o0, w0, rec0)
  BY LocalState
<1> DEFINE t == [t0 EXCEPT !.handled = TRUE, !.pc = "handling"]
<1>2. t0.pc = "routes" /\ Quiet(t0)
  BY <1>1, NotYetSent DEF Handle, At, Before
<1>3. t \in Tasks /\ Quiet(t)
  BY <1>2 DEF Tasks, Quiet, Before
<1>4. task' = [task EXCEPT ![r] = t]
  BY <1>1, Zenon DEF Handle
<1> HIDE DEF t
<1>5. /\ task[r].pc \in Before /\ scope' = [scope EXCEPT ![r] = s0]
      /\ UNCHANGED <<out, wire, recorded>>
  BY <1>1, <1>2 DEF Before, Handle
<1> QED BY <1>3, <1>4, <1>5, EarlyStep

LEMMA RouteStarts ==
    ASSUME NEW r, NEW status, RouteSends(r, Start(status, "routes"), "started")
    PROVE  task' = [task EXCEPT ![r] = [task[r] EXCEPT !.started = TRUE, !.pc = "started"]]
<1>1. task' = [task EXCEPT ![r] = [task[r] EXCEPT
                  !.started = @ \/ (task[r].exceeded /\ ~task[r].started)
                                \/ Start(status, "routes").type = "start",
                  !.pc = "started"]]
  BY Zenon DEF RouteSends
<1>2. (\/ task[r].started
       \/ task[r].exceeded /\ ~task[r].started
       \/ Start(status, "routes").type = "start") = TRUE
  BY DEF Start
<1> QED BY <1>1, <1>2

LEMMA RespondKeeps ==
    ASSUME IInvOfStack, NEW r \in Requests, NEW status \in {200, 422},
           task[r].pc \in {"routes", "handling"},
           RouteSends(r, Start(status, "routes"), "started"),
           UNCHANGED <<scope, wire, recorded>>
    PROVE  IInvOfStack'
<1>1. PICK t0 \in Tasks, s0 \in Scopes \cup {NoScope}, o0 \in Seq(Messages),
           w0 \in Seq(Messages), rec0 \in Statuses \cup {NotRecorded} :
         /\ task[r] = t0 /\ scope[r] = s0 /\ out[r] = o0 /\ wire[r] = w0 /\ recorded[r] = rec0
         /\ scope = [scope EXCEPT ![r] = s0] /\ out = [out EXCEPT ![r] = o0]
         /\ wire = [wire EXCEPT ![r] = w0] /\ recorded = [recorded EXCEPT ![r] = rec0]
         /\ ResponseOK(t0, s0, o0, w0, rec0)
  BY LocalState
<1> DEFINE refuses == task[r].exceeded /\ ~task[r].started
           t == [t0 EXCEPT !.started = TRUE, !.pc = "started"]
           o == IF t0.exceeded THEN Whole(413, "BodyLimit") ELSE <<Start(status, "routes")>>
<1>2. /\ ~t0.replied /\ ~t0.error /\ ~t0.started
      /\ t0.exceeded => t0.received > MaxBody
      /\ w0 = <<>>
  BY <1>1, NotYetSent DEF Before, Quiet
<1>3. refuses <=> t0.exceeded
  BY <1>1, <1>2 DEF Tasks
<1>4. out' = [out EXCEPT ![r] = o]
  <2>1. out' = [out EXCEPT ![r] = IF refuses THEN Whole(413, "BodyLimit")
                                  ELSE IF task[r].exceeded THEN <<>>
                                  ELSE <<Start(status, "routes")>>]
    BY DEF RouteSends
  <2> QED BY <1>1, <1>3, <2>1
<1>5. task' = [task EXCEPT ![r] = t]
  <2>1. task' = [task EXCEPT ![r] = [task[r] EXCEPT !.started = TRUE, !.pc = "started"]]
    BY RouteStarts
  <2> QED BY <1>1, <2>1
<1>6. status \in Statuses /\ 413 \in Statuses /\ status # 413
  BY DEF Statuses
<1>7. o \in Seq(Messages)
  BY <1>6, RepliesAreTyped
<1>8. /\ t \in Tasks /\ t.pc = "started" /\ t.started /\ ~t.error /\ ~t.replied
      /\ t.exceeded = t0.exceeded /\ t.received = t0.received
  BY <1>2 DEF Tasks
<1> HIDE DEF t
<1>9. ResponseOK(t, s0, o, <<>>, rec0)
  <2>1. CASE t0.exceeded
    <3>1. ResponseOK(t, s0, Whole(413, "BodyLimit"), <<>>, rec0)
      BY <1>2, <1>8, <2>1, RefusalAnswers, ZenonT(60)
    <3> QED BY <2>1, <3>1
  <2>2. CASE ~t0.exceeded
    <3>1. ResponseOK(t, s0, <<Start(status, "routes")>>, <<>>, rec0)
      BY <1>6, <1>8, <2>2, StartAnswers
    <3> QED BY <2>2, <3>1
  <2> QED BY <2>1, <2>2
<1>10. /\ scope' = [scope EXCEPT ![r] = s0] /\ wire' = [wire EXCEPT ![r] = <<>>]
       /\ recorded' = [recorded EXCEPT ![r] = rec0] /\ <<>> \in Seq(Messages)
  BY <1>1, <1>2
<1> HIDE DEF o
<1>11. Becomes(r, t, s0, o, <<>>, rec0)
  BY <1>4, <1>5, <1>10 DEF Becomes
<1>12. Sound(t, s0, o, <<>>, rec0)
  BY <1>7, <1>8, <1>9, <1>10 DEF Sound
<1> QED BY <1>11, <1>12, StepOfOne

\* The end of a response follows its start.
LEMMA EndAnswers ==
    ASSUME NEW t0 \in Tasks, NEW t \in Tasks, NEW s, NEW w \in Seq(Messages), NEW rec, NEW rec0,
           ResponseOK(t0, s, <<>>, w, rec0), t0.pc = "started",
           t = [t0 EXCEPT !.started = TRUE, !.pc = "returning"]
    PROVE  ResponseOK(t, s, IF t0.exceeded THEN <<>> ELSE <<Body(t0.status)>>, w, rec)
<1> DEFINE o == IF t0.exceeded THEN <<>> ELSE <<Body(t0.status)>>
<1>1. /\ t.pc = "returning" /\ t.replied = t0.replied /\ t.error = t0.error
      /\ t.status = t0.status /\ t.gone = t0.gone /\ t.exceeded = t0.exceeded
      /\ t.received = t0.received
  BY DEF Tasks
<1>2. /\ t0.gone => w = <<>>
      /\ t0.exceeded => t0.received > MaxBody
      /\ t0.pc \notin Before /\ t.pc \notin Before \cup {"done"}
  BY <1>1 DEF ResponseOK, Before
<1>3. CASE t0.gone
  <2>1. ResponseOK(t, s, o, <<>>, rec)
    BY <1>1, <1>2, <1>3, NobodyListens
  <2> QED BY <1>2, <1>3, <2>1
<1>4. CASE ~t0.gone
  <2>1. PICK h \in Messages : Answering(t0, s, <<>>, w, h)
    BY <1>2, <1>4 DEF ResponseOK
  <2>2. /\ Suits(t0, s, h) /\ (t0.replied <=> w # <<>>) /\ ~t0.error
        /\ t0.replied => t0.status = h.status
        /\ (t0.exceeded /\ Full(<<>>, w, h)) \/ (~t0.exceeded /\ Half(<<>>, w, h))
    BY <2>1 DEF Answering
  <2>3. w # <<>> /\ t0.status = h.status
    BY <2>2, SomeMessages DEF Full, Half
  <2>4. Full(o, w, h)
    BY <2>2, <2>3 DEF Full, Half
  <2>5. Suits(t, s, h)
    BY <1>1, <2>2 DEF Suits
  <2> HIDE DEF o
  <2>6. Answering(t, s, o, w, h)
    BY <1>1, <2>2, <2>3, <2>4, <2>5 DEF Answering
  <2>7. ResponseOK(t, s, o, w, rec)
    BY <1>1, <1>2, <1>4, <2>6 DEF ResponseOK
  <2> QED BY <2>7 DEF o
<1> QED BY <1>3, <1>4

LEMMA RouteEnds ==
    ASSUME NEW r, task[r] \in Tasks, task[r].started,
           RouteSends(r, Body(task[r].status), "returning")
    PROVE  /\ task' = [task EXCEPT ![r] = [task[r] EXCEPT !.started = TRUE, !.pc = "returning"]]
           /\ out' = [out EXCEPT ![r] = IF task[r].exceeded THEN <<>>
                                        ELSE <<Body(task[r].status)>>]
<1>1. task' = [task EXCEPT ![r] = [task[r] EXCEPT
                  !.started = @ \/ (task[r].exceeded /\ ~task[r].started)
                                \/ Body(task[r].status).type = "start",
                  !.pc = "returning"]]
  BY Zenon DEF RouteSends
<1>2. (\/ task[r].started
       \/ task[r].exceeded /\ ~task[r].started
       \/ Body(task[r].status).type = "start") = TRUE
  OBVIOUS
<1>3. out' = [out EXCEPT ![r] = IF task[r].exceeded /\ ~task[r].started
                                 THEN Whole(413, "BodyLimit")
                                 ELSE IF task[r].exceeded THEN <<>> ELSE <<Body(task[r].status)>>]
  BY DEF RouteSends
<1> QED BY <1>1, <1>2, <1>3

LEMMA FinishKeeps ==
    ASSUME IInvOfStack, NEW r \in Requests, Finish(r)
    PROVE  IInvOfStack'
<1>1. PICK t0 \in Tasks, s0 \in Scopes \cup {NoScope}, o0 \in Seq(Messages),
           w0 \in Seq(Messages), rec0 \in Statuses \cup {NotRecorded} :
         /\ task[r] = t0 /\ scope[r] = s0 /\ out[r] = o0 /\ wire[r] = w0 /\ recorded[r] = rec0
         /\ scope = [scope EXCEPT ![r] = s0] /\ out = [out EXCEPT ![r] = o0]
         /\ wire = [wire EXCEPT ![r] = w0] /\ recorded = [recorded EXCEPT ![r] = rec0]
         /\ ResponseOK(t0, s0, o0, w0, rec0)
  BY LocalState
<1> DEFINE t == [t0 EXCEPT !.started = TRUE, !.pc = "returning"]
           o == IF t0.exceeded THEN <<>> ELSE <<Body(t0.status)>>
<1>2. /\ t0.pc = "started" /\ t0.started /\ o0 = <<>>
      /\ ResponseOK(t0, s0, <<>>, w0, rec0)
  BY <1>1 DEF Finish, At, ResponseOK
<1>3. task' = [task EXCEPT ![r] = t] /\ out' = [out EXCEPT ![r] = o]
  BY <1>1, <1>2, RouteEnds DEF Finish
<1>4. t \in Tasks
  BY DEF Tasks
<1>5. o \in Seq(Messages)
  <2>1. t0.status \in Statuses
    BY DEF Tasks
  <2> QED BY <2>1, RepliesAreTyped
<1>6. ResponseOK(t, s0, o, w0, rec0)
  BY <1>2, <1>4, EndAnswers
<1>7. /\ scope' = [scope EXCEPT ![r] = s0] /\ wire' = [wire EXCEPT ![r] = w0]
      /\ recorded' = [recorded EXCEPT ![r] = rec0]
  BY <1>1 DEF Finish
<1> HIDE DEF t, o
<1>8. Becomes(r, t, s0, o, w0, rec0)
  BY <1>3, <1>7 DEF Becomes
<1>9. Sound(t, s0, o, w0, rec0)
  BY <1>4, <1>5, <1>6 DEF Sound
<1> QED BY <1>8, <1>9, StepOfOne

\* The task of a request that fails with status n.
HasFailed(r, n) ==
    task' = [task EXCEPT ![r] = [task[r] EXCEPT !.error = TRUE, !.status = n, !.pc = "returning"]]

LEMMA FailsWith ==
    ASSUME NEW r, Fails(r)
    PROVE  \E n : n = 500 /\ HasFailed(r, n)
<1>1. PICK n : n = 500
  OBVIOUS
<1>2. task' = [task EXCEPT ![r].error = TRUE, ![r].status = n, ![r].pc = "returning"]
  BY <1>1 DEF Fails
<1>3. HasFailed(r, n)
  BY <1>2, Zenon DEF HasFailed
<1> QED BY <1>1, <1>3, Zenon

LEMMA FailsTask ==
    ASSUME NEW r, Fails(r)
    PROVE  task' = [task EXCEPT ![r] = [task[r] EXCEPT !.error = TRUE, !.status = 500,
                                                       !.pc = "returning"]]
<1>1. PICK n : n = 500 /\ HasFailed(r, n)
  BY FailsWith
<1> QED BY <1>1 DEF HasFailed

\* The task of a request that has failed.
LEMMA Failed ==
    ASSUME NEW t0 \in Tasks, NEW n \in Statuses
    PROVE  \E t \in Tasks :
              /\ t = [t0 EXCEPT !.error = TRUE, !.status = n, !.pc = "returning"]
              /\ t.pc = "returning" /\ t.error = TRUE /\ t.status = n
              /\ t.replied = t0.replied /\ t.exceeded = t0.exceeded
              /\ t.received = t0.received /\ t.gone = t0.gone
<1> DEFINE t == [t0 EXCEPT !.error = TRUE, !.status = n, !.pc = "returning"]
<1>1. t \in Tasks
  BY DEF Tasks
<1>2. t.error = TRUE
  BY DEF Tasks
<1>3. /\ t.pc = "returning" /\ t.status = n /\ t.replied = t0.replied
      /\ t.exceeded = t0.exceeded /\ t.received = t0.received /\ t.gone = t0.gone
  BY DEF Tasks
<1>4. t = [t0 EXCEPT !.error = TRUE, !.status = n, !.pc = "returning"]
  OBVIOUS
<1> HIDE DEF t
<1> QED BY <1>1, <1>2, <1>3, <1>4

\* The 500 of RequestId is on its way.
LEMMA FailureAnswers ==
    ASSUME NEW t \in Tasks, NEW s, NEW rec, NEW n \in Statuses, n = 500,
           t.pc = "returning", t.error, t.status = n, ~t.replied,
           t.exceeded => t.received > MaxBody
    PROVE  ResponseOK(t, s, Whole(n, "RequestId"), <<>>, rec)
<1> DEFINE h == Start(n, "RequestId")
           o == Whole(n, "RequestId")
<1>1. /\ h.type = "start" /\ h.status = n /\ "x-request-id" \in h.headers
      /\ o = <<h, Body(h.status)>>
  BY DEF Start, Headers, Whole
<1>2. h \in Messages
  BY RepliesAreTyped
<1> HIDE DEF h, o
<1>3. Suits(t, s, h)
  BY <1>1 DEF Suits
<1>4. Full(o, <<>>, h)
  BY <1>1 DEF Full
<1>5. t.replied <=> <<>> # <<>>
  OBVIOUS
<1>6. Answering(t, s, o, <<>>, h)
  BY <1>1, <1>3, <1>4, <1>5 DEF Answering
<1>7. t.pc \notin Before /\ t.pc # "done" /\ t.pc # "started"
  BY DEF Before
<1>8. ResponseOK(t, s, o, <<>>, rec)
  BY <1>2, <1>6, <1>7 DEF ResponseOK
<1> QED BY <1>8 DEF o

LEMMA FailsEarlyKeeps ==
    ASSUME IInvOfStack, NEW r \in Requests, NEW s \in Scopes \cup {NoScope},
           task[r].pc \in Before, Fails(r),
           scope' = [scope EXCEPT ![r] = s], UNCHANGED <<wire, recorded>>
    PROVE  IInvOfStack'
<1>1. PICK t0 \in Tasks, s0 \in Scopes \cup {NoScope}, o0 \in Seq(Messages),
           w0 \in Seq(Messages), rec0 \in Statuses \cup {NotRecorded} :
         /\ task[r] = t0 /\ scope[r] = s0 /\ out[r] = o0 /\ wire[r] = w0 /\ recorded[r] = rec0
         /\ scope = [scope EXCEPT ![r] = s0] /\ out = [out EXCEPT ![r] = o0]
         /\ wire = [wire EXCEPT ![r] = w0] /\ recorded = [recorded EXCEPT ![r] = rec0]
         /\ ResponseOK(t0, s0, o0, w0, rec0)
  BY LocalState
<1>2. PICK n \in Statuses : n = 500
  BY DEF Statuses
<1>10. PICK t \in Tasks :
              /\ t = [t0 EXCEPT !.error = TRUE, !.status = n, !.pc = "returning"]
              /\ t.pc = "returning" /\ t.error = TRUE /\ t.status = n
              /\ t.replied = t0.replied /\ t.exceeded = t0.exceeded
              /\ t.received = t0.received /\ t.gone = t0.gone
  BY Failed
<1> DEFINE o == Whole(n, "RequestId")
<1>3. ~t0.replied /\ (t0.exceeded => t0.received > MaxBody) /\ wire[r] = <<>>
  BY <1>1, NotYetSent DEF Quiet
<1>4. task' = [task EXCEPT ![r] = t]
  <2>1. t = [task[r] EXCEPT !.error = TRUE, !.status = 500, !.pc = "returning"]
    BY <1>1, <1>2, <1>10
  <2> QED BY <2>1, FailsTask, ZenonT(60)
<1>5. out' = [out EXCEPT ![r] = o]
  BY <1>1, <1>2, <1>3 DEF Fails
<1>6. /\ t.error /\ ~t.replied /\ (t.exceeded => t.received > MaxBody)
      /\ t.pc = "returning" /\ t.status = n
  BY <1>3, <1>10
<1>7. ResponseOK(t, s, o, <<>>, rec0)
  BY <1>2, <1>6, FailureAnswers, ZenonT(60)
<1>8. o \in Seq(Messages)
  BY RepliesAreTyped
<1>9. /\ wire' = [wire EXCEPT ![r] = <<>>] /\ recorded' = [recorded EXCEPT ![r] = rec0]
      /\ <<>> \in Seq(Messages)
  BY <1>1, <1>3, Same DEF IInvOfStack
<1> HIDE DEF o
<1>11. Becomes(r, t, s, o, <<>>, rec0)
  BY <1>4, <1>5, <1>9 DEF Becomes
<1>12. Sound(t, s, o, <<>>, rec0)
  BY <1>7, <1>8, <1>9 DEF Sound
<1> QED BY <1>11, <1>12, StepOfOne

\* The routes raise in the middle of their response.
LEMMA FailureEnds ==
    ASSUME NEW t0 \in Tasks, NEW t \in Tasks, NEW s, NEW w \in Seq(Messages), NEW rec, NEW rec0,
           ResponseOK(t0, s, <<>>, w, rec0), t0.pc = "started", NEW n \in Statuses, n = 500,
           t.pc = "returning", t.error = TRUE, t.status = n, t.replied = t0.replied,
           t.exceeded = t0.exceeded, t.received = t0.received, t.gone = t0.gone,
           NEW o, t0.replied => o = <<>>
    PROVE  ResponseOK(t, s, o, w, rec)
<1>1. /\ t.error /\ t.status = 500
      /\ t.replied <=> t0.replied
      /\ t.exceeded <=> t0.exceeded
      /\ t.gone <=> t0.gone
  OBVIOUS
<1>2. /\ t0.gone => w = <<>>
      /\ t0.exceeded => t0.received > MaxBody
      /\ t0.pc \notin Before /\ t.pc \notin Before \cup {"done"}
  BY <1>1 DEF ResponseOK, Before
<1>3. CASE t0.gone
  <2>1. ResponseOK(t, s, o, <<>>, rec)
    BY <1>1, <1>2, <1>3, NobodyListens, ZenonT(60)
  <2> QED BY <1>2, <1>3, <2>1
<1>4. CASE ~t0.gone
  <2>1. PICK h \in Messages : Answering(t0, s, <<>>, w, h)
    BY <1>2, <1>4 DEF ResponseOK
  <2>2. /\ Suits(t0, s, h) /\ (t0.replied <=> w # <<>>) /\ ~t0.error
        /\ Full(<<>>, w, h) \/ Half(<<>>, w, h)
    BY <2>1 DEF Answering
  <2>8. <<h>> # <<>> /\ <<h, Body(h.status)>> # <<>> /\ <<Body(h.status)>> # <<>>
    BY SomeMessages
  <2>10. w = <<h>> \/ w = <<h, Body(h.status)>>
    BY <2>2, <2>8 DEF Full, Half
  <2>9. w # <<>>
    BY <2>8, <2>10, Zenon
  <2>3. w # <<>> /\ t0.replied
    BY <2>2, <2>9, Zenon
  <2>4. o = <<>>
    BY <2>3
  <2>5. Suits(t, s, h)
    BY <1>1, <2>2, ZenonT(60) DEF Suits
  <2>6. Answering(t, s, <<>>, w, h)
    BY <1>1, <2>2, <2>3, <2>5 DEF Answering
  <2>7. ResponseOK(t, s, <<>>, w, rec)
    BY <1>1, <1>2, <1>4, <2>6 DEF ResponseOK
  <2> QED BY <2>4, <2>7
<1> QED BY <1>3, <1>4

LEMMA FailsLateKeeps ==
    ASSUME IInvOfStack, NEW r \in Requests, At(r, "started"), Fails(r),
           UNCHANGED <<scope, wire, recorded>>
    PROVE  IInvOfStack'
<1>1. PICK t0 \in Tasks, s0 \in Scopes \cup {NoScope}, o0 \in Seq(Messages),
           w0 \in Seq(Messages), rec0 \in Statuses \cup {NotRecorded} :
         /\ task[r] = t0 /\ scope[r] = s0 /\ out[r] = o0 /\ wire[r] = w0 /\ recorded[r] = rec0
         /\ scope = [scope EXCEPT ![r] = s0] /\ out = [out EXCEPT ![r] = o0]
         /\ wire = [wire EXCEPT ![r] = w0] /\ recorded = [recorded EXCEPT ![r] = rec0]
         /\ ResponseOK(t0, s0, o0, w0, rec0)
  BY LocalState
<1>9. PICK n \in Statuses : n = 500
  BY DEF Statuses
<1>10. PICK t \in Tasks :
              /\ t = [t0 EXCEPT !.error = TRUE, !.status = n, !.pc = "returning"]
              /\ t.pc = "returning" /\ t.error = TRUE /\ t.status = n
              /\ t.replied = t0.replied /\ t.exceeded = t0.exceeded
              /\ t.received = t0.received /\ t.gone = t0.gone
  BY Failed
<1> DEFINE o == IF t0.replied THEN <<>> ELSE Whole(n, "RequestId")
<1>2. t0.pc = "started" /\ o0 = <<>> /\ ResponseOK(t0, s0, <<>>, w0, rec0)
  BY <1>1 DEF At
<1>3. task' = [task EXCEPT ![r] = t]
  <2>1. t = [task[r] EXCEPT !.error = TRUE, !.status = 500, !.pc = "returning"]
    BY <1>1, <1>9, <1>10
  <2> QED BY <2>1, FailsTask, ZenonT(60)
<1>4. out' = [out EXCEPT ![r] = o]
  BY <1>1, <1>2, <1>9 DEF Fails
<1>6. ResponseOK(t, s0, o, w0, rec0)
  <2>1. t0.replied => o = <<>>
    OBVIOUS
  <2> HIDE DEF o
  <2> QED BY <1>2, <1>9, <1>10, <2>1, FailureEnds, ZenonT(60)
<1>7. o \in Seq(Messages)
  BY RepliesAreTyped
<1>8. /\ scope' = [scope EXCEPT ![r] = s0] /\ wire' = [wire EXCEPT ![r] = w0]
      /\ recorded' = [recorded EXCEPT ![r] = rec0]
  BY <1>1
<1> HIDE DEF o
<1>11. Becomes(r, t, s0, o, w0, rec0)
  BY <1>3, <1>4, <1>8 DEF Becomes
<1>12. Sound(t, s0, o, w0, rec0)
  BY <1>6, <1>7 DEF Sound
<1> QED BY <1>11, <1>12, StepOfOne

\* The first message goes out: the start of the response, or its end.
LEMMA HeadGoesOut ==
    ASSUME NEW o, NEW w, NEW h, o # <<>>, Half(o, w, h) \/ Full(o, w, h)
    PROVE  \/ /\ w = <<>> /\ Head(o) = h /\ Append(w, Head(o)) = <<h>>
              /\ Half(o, w, h) => Half(Tail(o), <<h>>, h)
              /\ Full(o, w, h) => Full(Tail(o), <<h>>, h)
           \/ /\ w = <<h>> /\ Head(o) = Body(h.status) /\ ~Half(o, w, h)
              /\ Append(w, Head(o)) = <<h, Body(h.status)>>
              /\ Full(Tail(o), <<h, Body(h.status)>>, h)
<1> DEFINE b == Body(h.status)
<1>1. /\ <<h>> # <<>> /\ <<h, b>> # <<>> /\ <<h, b>> # <<h>> /\ <<b>> # <<>>
      /\ Head(<<h>>) = h /\ Tail(<<h>>) = <<>> /\ Head(<<b>>) = b /\ Tail(<<b>>) = <<>>
      /\ Head(<<h, b>>) = h /\ Tail(<<h, b>>) = <<b>>
      /\ Append(<<>>, h) = <<h>> /\ Append(<<h>>, b) = <<h, b>>
  BY SomeMessages
<1> HIDE DEF b
<1>2. CASE o = <<h>> /\ w = <<>>
  BY <1>1, <1>2, Zenon DEF Half, Full, b
<1>3. CASE o = <<h, b>> /\ w = <<>>
  BY <1>1, <1>3, Zenon DEF Half, Full, b
<1>4. CASE o = <<b>> /\ w = <<h>>
  BY <1>1, <1>4, Zenon DEF Half, Full, b
<1> QED BY <1>2, <1>3, <1>4, Zenon DEF Half, Full, b

LEMMA SendAnswers ==
    ASSUME NEW t0 \in Tasks, NEW t \in Tasks, NEW s, NEW o, NEW w, NEW rec, NEW rec0,
           o # <<>>, ResponseOK(t0, s, o, w, rec0), ~t0.gone,
           t.pc = t0.pc, t.exceeded = t0.exceeded, t.received = t0.received,
           t.error = t0.error, t.gone = t0.gone, t.started = t0.started,
           Head(o).type = "start" => t.status = Head(o).status /\ t.replied = TRUE,
           Head(o).type # "start" => t.status = t0.status /\ t.replied = t0.replied
    PROVE  ResponseOK(t, s, Tail(o), Append(w, Head(o)), rec)
<1>1. /\ t0.pc \notin Before /\ t0.pc # "done"
      /\ t0.pc = "started" => t0.started
      /\ t0.exceeded => t0.received > MaxBody
  BY DEF ResponseOK, Fresh
<1>2. PICK h \in Messages : Answering(t0, s, o, w, h)
  BY <1>1 DEF ResponseOK
<1>3. t0.pc \in {"started", "returning"}
  BY <1>1 DEF Tasks, Before
<1>4. /\ Suits(t0, s, h) /\ (t0.replied <=> w # <<>>)
      /\ t0.error => t0.status = 500 /\ (t0.replied \/ h.status = 500)
      /\ t0.replied /\ ~t0.error => t0.status = h.status
      /\ t0.pc = "started" =>
           ~t0.error /\ ((t0.exceeded /\ Full(o, w, h)) \/ (~t0.exceeded /\ Half(o, w, h)))
      /\ t0.pc = "returning" => Full(o, w, h) \/ (t0.error /\ Half(o, w, h))
  BY <1>2 DEF Answering
<1>5. /\ t.error <=> t0.error
      /\ t.exceeded <=> t0.exceeded
      /\ t.gone <=> t0.gone
      /\ t.started <=> t0.started
  OBVIOUS
<1>6. Suits(t, s, h) /\ h.type = "start"
  BY <1>4, <1>5, ZenonT(60) DEF Suits
<1>7. Half(o, w, h) \/ Full(o, w, h)
  BY <1>3, <1>4
<1>8. Body(h.status).type = "body"
  BY DEF Body
<1> DEFINE v == Append(w, Head(o))
<1>11. \/ /\ w = <<>> /\ Head(o) = h /\ v = <<h>>
          /\ Half(o, w, h) => Half(Tail(o), <<h>>, h)
          /\ Full(o, w, h) => Full(Tail(o), <<h>>, h)
       \/ /\ w = <<h>> /\ Head(o) = Body(h.status) /\ ~Half(o, w, h)
          /\ v = <<h, Body(h.status)>>
          /\ Full(Tail(o), <<h, Body(h.status)>>, h)
  BY <1>7, HeadGoesOut
<1>12. <<h>> # <<>> /\ <<h, Body(h.status)>> # <<>>
  BY SomeMessages
<1> HIDE DEF v
<1>9. CASE w = <<>>
  <2>1. Head(o) = h /\ v = <<h>> /\ v # <<>>
    BY <1>9, <1>11, <1>12, Zenon
  <2>2. t.status = h.status /\ t.replied = TRUE
    BY <1>6, <2>1
  <2>3. /\ Half(o, w, h) => Half(Tail(o), v, h)
        /\ Full(o, w, h) => Full(Tail(o), v, h)
    BY <1>9, <1>11, <1>12, Zenon
  <2>4. t.error => t.status = 500
    BY <1>4, <1>5, <1>9, <2>2
  <2>5. Answering(t, s, Tail(o), v, h)
    BY <1>3, <1>4, <1>5, <1>6, <2>1, <2>2, <2>3, <2>4 DEF Answering
  <2>6. ResponseOK(t, s, Tail(o), v, rec)
    BY <1>1, <1>3, <1>5, <2>5 DEF ResponseOK
  <2> QED BY <2>6 DEF v
<1>10. CASE w # <<>>
  <2>1. /\ w = <<h>> /\ Head(o) = Body(h.status) /\ ~Half(o, w, h)
        /\ v = <<h, Body(h.status)>> /\ v # <<>> /\ Full(Tail(o), v, h)
    BY <1>10, <1>11, <1>12, Zenon
  <2>2. t.status = t0.status /\ t.replied = t0.replied
    BY <1>8, <2>1
  <2>3. Answering(t, s, Tail(o), v, h)
    BY <1>3, <1>4, <1>5, <1>6, <1>10, <2>1, <2>2 DEF Answering
  <2>4. ResponseOK(t, s, Tail(o), v, rec)
    BY <1>1, <1>3, <1>5, <2>3 DEF ResponseOK
  <2> QED BY <2>4 DEF v
<1> QED BY <1>9, <1>10

\* RequestId notes the status of a start.
LEMMA Noted ==
    ASSUME NEW t0 \in Tasks, NEW m \in Messages
    PROVE  \E t \in Tasks :
              /\ m.type = "start" => t = [t0 EXCEPT !.status = m.status, !.replied = TRUE]
              /\ m.type # "start" => t = t0
              /\ t.pc = t0.pc /\ t.exceeded = t0.exceeded /\ t.received = t0.received
              /\ t.error = t0.error /\ t.gone = t0.gone /\ t.started = t0.started
              /\ m.type = "start" => t.status = m.status /\ t.replied = TRUE
              /\ m.type # "start" => t.status = t0.status /\ t.replied = t0.replied
<1>1. CASE m.type = "start"
  <2> DEFINE t == [t0 EXCEPT !.status = m.status, !.replied = TRUE]
  <2>1. m.status \in Statuses
    BY DEF Messages
  <2>2. t \in Tasks
    BY <2>1 DEF Tasks
  <2>3. /\ t.pc = t0.pc /\ t.exceeded = t0.exceeded /\ t.received = t0.received
        /\ t.error = t0.error /\ t.gone = t0.gone /\ t.started = t0.started
        /\ t.status = m.status
    BY DEF Tasks
  <2>4. t.replied = TRUE
    BY DEF Tasks
  <2>5. t = [t0 EXCEPT !.status = m.status, !.replied = TRUE]
    OBVIOUS
  <2> HIDE DEF t
  <2> QED BY <1>1, <2>2, <2>3, <2>4, <2>5
<1>2. CASE m.type # "start"
  BY <1>2
<1> QED BY <1>1, <1>2

LEMMA SendTask ==
    ASSUME NEW r, Send(r)
    PROVE  /\ Head(out[r]).type = "start" =>
                task' = [task EXCEPT ![r] = [task[r] EXCEPT !.status = Head(out[r]).status,
                                                            !.replied = TRUE]]
           /\ Head(out[r]).type # "start" => task' = task
<1>1. CASE Head(out[r]).type = "start"
  <2>1. task' = [task EXCEPT ![r].status = Head(out[r]).status, ![r].replied = TRUE]
    BY <1>1 DEF Send
  <2> QED BY <1>1, <2>1, Zenon
<1>2. CASE Head(out[r]).type # "start"
  BY <1>2 DEF Send
<1> QED BY <1>1, <1>2

LEMMA SendKeeps ==
    ASSUME IInvOfStack, NEW r \in Requests, Send(r)
    PROVE  IInvOfStack'
<1>1. PICK t0 \in Tasks, s0 \in Scopes \cup {NoScope}, o0 \in Seq(Messages),
           w0 \in Seq(Messages), rec0 \in Statuses \cup {NotRecorded} :
         /\ task[r] = t0 /\ scope[r] = s0 /\ out[r] = o0 /\ wire[r] = w0 /\ recorded[r] = rec0
         /\ scope = [scope EXCEPT ![r] = s0] /\ out = [out EXCEPT ![r] = o0]
         /\ wire = [wire EXCEPT ![r] = w0] /\ recorded = [recorded EXCEPT ![r] = rec0]
         /\ ResponseOK(t0, s0, o0, w0, rec0)
  BY LocalState
<1>2. /\ o0 # <<>> /\ Head(o0) \in Messages /\ Tail(o0) \in Seq(Messages)
      /\ Append(w0, Head(o0)) \in Seq(Messages)
  BY <1>1 DEF Send
<1>3. PICK t \in Tasks :
         /\ Head(o0).type = "start" => t = [t0 EXCEPT !.status = Head(o0).status, !.replied = TRUE]
         /\ Head(o0).type # "start" => t = t0
         /\ t.pc = t0.pc /\ t.exceeded = t0.exceeded /\ t.received = t0.received
         /\ t.error = t0.error /\ t.gone = t0.gone /\ t.started = t0.started
         /\ Head(o0).type = "start" => t.status = Head(o0).status /\ t.replied = TRUE
         /\ Head(o0).type # "start" => t.status = t0.status /\ t.replied = t0.replied
  BY <1>2, Noted
<1>4. task = [task EXCEPT ![r] = t0]
  BY <1>1, Same DEF IInvOfStack
<1>5. task' = [task EXCEPT ![r] = t]
  <2>1. CASE Head(o0).type = "start"
    <3>1. task' = [task EXCEPT ![r] = [task[r] EXCEPT !.status = Head(out[r]).status,
                                                      !.replied = TRUE]]
      BY <1>1, <2>1, SendTask
    <3>2. t = [task[r] EXCEPT !.status = Head(out[r]).status, !.replied = TRUE]
      BY <1>1, <1>3, <2>1
    <3> QED BY <3>1, <3>2
  <2>2. CASE Head(o0).type # "start"
    <3>1. task' = task
      BY <1>1, <2>2, SendTask
    <3> QED BY <1>3, <1>4, <2>2, <3>1
  <2> QED BY <2>1, <2>2
<1>6. /\ out' = [out EXCEPT ![r] = Tail(o0)]
      /\ scope' = [scope EXCEPT ![r] = s0] /\ recorded' = [recorded EXCEPT ![r] = rec0]
      /\ wire' = [wire EXCEPT ![r] = IF t0.gone THEN w0 ELSE Append(w0, Head(o0))]
  BY <1>1 DEF Send
<1>7. CASE t0.gone
  <2>1. /\ w0 = <<>> /\ t.gone
        /\ t.pc = "started" => t.started
        /\ t.exceeded => t.received > MaxBody
        /\ t.pc \notin Before \cup {"done"}
    BY <1>1, <1>2, <1>3, <1>7 DEF ResponseOK, Fresh
  <2>2. ResponseOK(t, s0, Tail(o0), <<>>, rec0)
    BY <2>1, NobodyListens
  <2>3. ResponseOK(t, s0, Tail(o0), w0, rec0)
    BY <2>1, <2>2
  <2>4. wire' = [wire EXCEPT ![r] = w0]
    BY <1>6, <1>7
  <2>5. PICK o \in Seq(Messages) : o = Tail(o0)
    BY <1>2
  <2>6. Becomes(r, t, s0, o, w0, rec0)
    BY <1>5, <1>6, <2>4, <2>5 DEF Becomes
  <2>7. Sound(t, s0, o, w0, rec0)
    BY <2>3, <2>5 DEF Sound
  <2> QED BY <2>6, <2>7, StepOfOne
<1>8. CASE ~t0.gone
  <2>1. PICK o \in Seq(Messages), w \in Seq(Messages) : o = Tail(o0) /\ w = Append(w0, Head(o0))
    BY <1>2
  <2>2. ResponseOK(t, s0, Tail(o0), Append(w0, Head(o0)), rec0)
    BY <1>1, <1>2, <1>3, <1>8, SendAnswers
  <2>3. ResponseOK(t, s0, o, w, rec0)
    BY <2>1, <2>2, Zenon
  <2>4. out' = [out EXCEPT ![r] = o] /\ wire' = [wire EXCEPT ![r] = w]
    BY <1>6, <1>8, <2>1
  <2>5. Becomes(r, t, s0, o, w, rec0)
    BY <1>5, <1>6, <2>4 DEF Becomes
  <2>6. Sound(t, s0, o, w, rec0)
    BY <2>3 DEF Sound
  <2> QED BY <2>5, <2>6, StepOfOne
<1> QED BY <1>7, <1>8

LEMMA ReturnKeeps ==
    ASSUME IInvOfStack, NEW r \in Requests, Return(r)
    PROVE  IInvOfStack'
<1>1. PICK t0 \in Tasks, s0 \in Scopes \cup {NoScope}, o0 \in Seq(Messages),
           w0 \in Seq(Messages), rec0 \in Statuses \cup {NotRecorded} :
         /\ task[r] = t0 /\ scope[r] = s0 /\ out[r] = o0 /\ wire[r] = w0 /\ recorded[r] = rec0
         /\ scope = [scope EXCEPT ![r] = s0] /\ out = [out EXCEPT ![r] = o0]
         /\ wire = [wire EXCEPT ![r] = w0] /\ recorded = [recorded EXCEPT ![r] = rec0]
         /\ ResponseOK(t0, s0, o0, w0, rec0)
  BY LocalState
<1> DEFINE t == [t0 EXCEPT !.pc = "done"]
<1>2. o0 = <<>> /\ t0.pc = "returning" /\ t0.status \in Statuses \cup {NotRecorded}
  BY <1>1 DEF Return, At, Tasks
<1>3. task' = [task EXCEPT ![r] = t]
  BY <1>1 DEF Return
<1>4. /\ t \in Tasks /\ t.pc = "done"
      /\ t.replied = t0.replied /\ t.exceeded = t0.exceeded /\ t.received = t0.received
      /\ t.error = t0.error /\ t.gone = t0.gone /\ t.status = t0.status
  BY DEF Tasks
<1> HIDE DEF t
<1>5. /\ t.error <=> t0.error
      /\ t.exceeded <=> t0.exceeded
      /\ t.gone <=> t0.gone
      /\ t.replied <=> t0.replied
  BY <1>4
<1>6. ASSUME NEW h \in Messages, Answering(t0, s0, o0, w0, h)
      PROVE  Answering(t, s0, o0, w0, h)
  <2>1. /\ Suits(t0, s0, h) /\ (t0.replied <=> w0 # <<>>)
        /\ t0.error => t0.status = 500 /\ (t0.replied \/ h.status = 500)
        /\ t0.replied /\ ~t0.error => t0.status = h.status
        /\ Full(o0, w0, h) \/ (t0.error /\ Half(o0, w0, h))
    BY <1>2, <1>6 DEF Answering
  <2>2. Suits(t, s0, h)
    <3>1. Suits(t0, s0, h)
      BY <2>1
    <3> QED BY <1>5, <3>1, ZenonT(60) DEF Suits
  <2> QED BY <1>4, <1>5, <2>1, <2>2 DEF Answering
<1>7. ResponseOK(t, s0, o0, w0, t0.status)
  BY <1>1, <1>2, <1>4, <1>5, <1>6 DEF ResponseOK, Before
<1>8. /\ recorded' = [recorded EXCEPT ![r] = t0.status]
      /\ scope' = [scope EXCEPT ![r] = s0] /\ out' = [out EXCEPT ![r] = o0]
      /\ wire' = [wire EXCEPT ![r] = w0]
  BY <1>1 DEF Return
<1>9. PICK rec \in Statuses \cup {NotRecorded} : rec = t0.status
  BY <1>2
<1>10. Becomes(r, t, s0, o0, w0, rec)
  BY <1>3, <1>8, <1>9 DEF Becomes
<1>11. Sound(t, s0, o0, w0, rec)
  BY <1>4, <1>7, <1>9 DEF Sound
<1> QED BY <1>10, <1>11, StepOfOne

LEMMA ArriveKeeps ==
    ASSUME IInvOfStack, NEW r \in Requests, NEW s \in Scopes, Arrive(r, s)
    PROVE  IInvOfStack'
<1>1. /\ At(r, "idle") /\ scope' = [scope EXCEPT ![r] = s] /\ UNCHANGED <<wire, recorded>>
      /\ s \in Scopes \cup {NoScope}
  BY DEF Arrive
<1>2. CASE LimitStatus(s) # 0 /\ Reply(r, LimitStatus(s), "BodyLimit")
  <2>1. CASE s.type = "other"
    <3>1. PICK status \in Statuses : status = 415 /\ status # 413
      BY DEF Statuses
    <3>2. LimitStatus(s) = status
      BY <2>1, <3>1 DEF LimitStatus
    <3>3. Reply(r, status, "BodyLimit")
      BY <1>2, <3>2
    <3>4. status = 413 => s.length = "too long"
      BY <2>1, <3>1
    <3> QED BY <1>1, <3>3, <3>4, ReplyKeeps
  <2>2. CASE s.type # "other" /\ s.length = "too long"
    <3>1. PICK status \in Statuses : status = 413
      BY DEF Statuses
    <3>2. LimitStatus(s) = status
      BY <2>2, <3>1 DEF LimitStatus
    <3>3. Reply(r, status, "BodyLimit")
      BY <1>2, <3>2
    <3>4. status = 413 => s.length = "too long"
      BY <2>2, <3>1
    <3> QED BY <1>1, <3>3, <3>4, ReplyKeeps
  <2>3. CASE s.type # "other" /\ s.length # "too long" /\ s.length = "malformed"
    <3>1. PICK status \in Statuses : status = 400 /\ status # 413
      BY DEF Statuses
    <3>2. LimitStatus(s) = status
      BY <2>3, <3>1 DEF LimitStatus
    <3>3. Reply(r, status, "BodyLimit")
      BY <1>2, <3>2
    <3>4. status = 413 => s.length = "too long"
      BY <2>3, <3>1
    <3> QED BY <1>1, <3>3, <3>4, ReplyKeeps
  <2>4. CASE s.type # "other" /\ s.length # "too long" /\ s.length # "malformed"
    BY <1>2, <2>4 DEF LimitStatus
  <2> QED BY <2>1, <2>2, <2>3, <2>4
<1>3. CASE Enter(r, s)
  BY <1>1, <1>3, EnterKeeps
<1>4. CASE Reply(r, 401, "ApiKeyAuth")
  <2>1. PICK status \in Statuses : status = 401 /\ status # 413
    BY DEF Statuses
  <2>3. PICK layer \in {"BodyLimit", "ApiKeyAuth", "RateLimit"} : layer = "ApiKeyAuth"
    OBVIOUS
  <2>2. Reply(r, status, layer)
    BY <1>4, <2>1, <2>3
  <2>4. status = 413 => s.length = "too long"
    BY <2>1
  <2> QED BY <1>1, <2>2, <2>4, ReplyKeeps
<1>5. CASE Reply(r, 429, "RateLimit")
  <2>1. PICK status \in Statuses : status = 429 /\ status # 413
    BY DEF Statuses
  <2>3. PICK layer \in {"BodyLimit", "ApiKeyAuth", "RateLimit"} : layer = "RateLimit"
    OBVIOUS
  <2>2. Reply(r, status, layer)
    BY <1>5, <2>1, <2>3
  <2>4. status = 413 => s.length = "too long"
    BY <2>1
  <2> QED BY <1>1, <2>2, <2>4, ReplyKeeps
<1>6. CASE Fails(r)
  <2>1. task[r].pc \in Before
    BY <1>1 DEF At, Before
  <2> QED BY <1>1, <1>6, <2>1, FailsEarlyKeeps
<1> QED BY <1>2, <1>3, <1>4, <1>5, <1>6 DEF Arrive

LEMMA StackStepKeeps ==
    ASSUME StackAssumption, IInvOfStack, [Next]_stackVars
    PROVE  IInvOfStack'
<1>1. CASE TickStack
  BY <1>1 DEF TickStack, IInvOfStack, TypeOK
<1>2. ASSUME NEW r \in Requests, NEW s \in Scopes, Arrive(r, s)
      PROVE  IInvOfStack'
  BY <1>2, ArriveKeeps
<1>3. ASSUME NEW r \in Requests, NEW n \in 0..MaxBody, NEW more \in BOOLEAN, Receive(r, n, more)
      PROVE  IInvOfStack'
  BY <1>3, ReceiveKeeps
<1>4. ASSUME NEW r \in Requests, Disconnect(r)
      PROVE  IInvOfStack'
  BY <1>4, DisconnectKeeps
<1>5. ASSUME NEW r \in Requests, Handle(r)
      PROVE  IInvOfStack'
  BY <1>5, HandleKeeps
<1>6. ASSUME NEW r \in Requests, Respond(r)
      PROVE  IInvOfStack'
  <2>1. task[r].pc \in {"routes", "handling"} /\ UNCHANGED <<scope, wire, recorded>>
    BY <1>6 DEF Respond, At
  <2>2. PICK status \in {200, 422} : RouteSends(r, Start(status, "routes"), "started")
    BY <1>6 DEF Respond
  <2> QED BY <2>1, <2>2, RespondKeeps
<1>7. ASSUME NEW r \in Requests, Finish(r)
      PROVE  IInvOfStack'
  BY <1>7, FinishKeeps
<1>8. ASSUME NEW r \in Requests, Raise500(r)
      PROVE  IInvOfStack'
  <2>1. Fails(r) /\ UNCHANGED <<scope, wire, recorded>>
    BY <1>8 DEF Raise500
  <2>2. CASE At(r, "started")
    BY <2>1, <2>2, FailsLateKeeps
  <2>3. CASE At(r, "routes") \/ At(r, "handling")
    <3>1. task[r].pc \in Before
      BY <2>3 DEF At, Before
    <3>2. PICK s \in Scopes \cup {NoScope} : scope' = [scope EXCEPT ![r] = s]
      BY <2>1, Same DEF IInvOfStack
    <3> QED BY <2>1, <3>1, <3>2, FailsEarlyKeeps
  <2> QED BY <1>8, <2>2, <2>3 DEF Raise500
<1>9. ASSUME NEW r \in Requests, Send(r)
      PROVE  IInvOfStack'
  BY <1>9, SendKeeps
<1>10. ASSUME NEW r \in Requests, Return(r)
       PROVE  IInvOfStack'
  BY <1>10, ReturnKeeps
<1>11. CASE UNCHANGED stackVars
  BY <1>11 DEF stackVars, IInvOfStack, TypeOK
<1> QED
  BY <1>1, <1>2, <1>3, <1>4, <1>5, <1>6, <1>7, <1>8, <1>9, <1>10, <1>11 DEF Next, Proceed

LEMMA StackInitHolds ==
    ASSUME Init
    PROVE  IInvOfStack
<1>1. NewTask \in Tasks
  <2>1. PICK status \in Statuses : status = 500
    BY DEF Statuses
  <2> QED BY <2>1 DEF NewTask, Tasks
<1>2. TypeOK
  BY <1>1 DEF Init, TypeOK
<1>3. /\ NewTask.pc = "idle" /\ ~NewTask.replied /\ ~NewTask.error /\ ~NewTask.started
      /\ ~NewTask.exceeded
  BY DEF NewTask
<1>4. ASSUME NEW r \in Requests
      PROVE  ResponseOK(task[r], scope[r], out[r], wire[r], recorded[r])
  <2>1. PICK t, s, rec : t \in Tasks /\ t = NewTask /\ s = NoScope /\ rec = NotRecorded
    BY <1>1
  <2>2. ResponseOK(t, s, <<>>, <<>>, rec)
    BY <1>3, <2>1, NothingYet DEF Before, Quiet
  <2>3. /\ task[r] = t /\ scope[r] = s /\ out[r] = <<>> /\ wire[r] = <<>>
        /\ recorded[r] = rec
    BY <2>1 DEF Init
  <2> QED BY <2>2, <2>3, Zenon
<1> QED BY <1>2, <1>4 DEF IInvOfStack

\* The inductive invariant holds in every reachable state.
THEOREM StackInvariance == Spec => []IInvOfStack
<1>1. Init => IInvOfStack
  BY StackInitHolds
<1>2. IInvOfStack /\ [Next]_stackVars => IInvOfStack'
  BY StackStepKeeps, StackAssumption
<1> QED BY <1>1, <1>2, PTL DEF Spec

-----------------------------------------------------------------------------
(* What follows from it *)

\* What the client of r has got.
LEMMA WhatIsSent ==
    ASSUME IInvOfStack, NEW r \in Requests
    PROVE  \/ wire[r] = <<>> /\ ~Answered(r)
           \/ \E h \in Messages :
                 /\ Suits(task[r], scope[r], h)
                 /\ wire[r] = <<h>> \/ wire[r] = <<h, Body(h.status)>>
                 /\ task[r].pc = "done" =>
                      /\ wire[r] = <<h, Body(h.status)>> \/ (task[r].error /\ wire[r] = <<h>>)
                      /\ recorded[r] = IF task[r].error THEN 500 ELSE h.status
                 /\ task[r].exceeded => task[r].received > MaxBody
<1>1. PICK t \in Tasks, s \in Scopes \cup {NoScope}, o \in Seq(Messages),
           w \in Seq(Messages), rec \in Statuses \cup {NotRecorded} :
         /\ task[r] = t /\ scope[r] = s /\ out[r] = o /\ wire[r] = w /\ recorded[r] = rec
         /\ scope = [scope EXCEPT ![r] = s] /\ out = [out EXCEPT ![r] = o]
         /\ wire = [wire EXCEPT ![r] = w] /\ recorded = [recorded EXCEPT ![r] = rec]
         /\ ResponseOK(t, s, o, w, rec)
  BY LocalState
<1>2. CASE t.pc \in Before \/ t.gone
  BY <1>1, <1>2 DEF ResponseOK, Fresh, Answered, Done, Before
<1>3. CASE t.pc \notin Before /\ ~t.gone
  <2>1. PICK h \in Messages : Answering(t, s, o, w, h)
    BY <1>1, <1>3 DEF ResponseOK
  <2>2. <<h>> # <<>> /\ <<h, Body(h.status)>> # <<>> /\ <<Body(h.status)>> # <<>>
    BY SomeMessages
  <2>3. t.pc \in {"started", "returning", "done"}
    BY <1>3 DEF Tasks, Before
  <2>4. /\ Suits(t, s, h) /\ (t.replied <=> w # <<>>)
        /\ t.error => t.status = 500
        /\ t.replied /\ ~t.error => t.status = h.status
        /\ Full(o, w, h) \/ Half(o, w, h)
        /\ t.pc = "done" => Full(o, w, h) \/ (t.error /\ Half(o, w, h))
    BY <2>1, <2>3 DEF Answering
  <2>5. w = <<>> \/ w = <<h>> \/ w = <<h, Body(h.status)>>
    BY <2>4 DEF Full, Half
  <2>6. /\ t.pc = "done" => o = <<>> /\ rec = t.status
        /\ t.exceeded => t.received > MaxBody
    BY <1>1 DEF ResponseOK
  <2>7. t.pc = "done" => w = <<h, Body(h.status)>> \/ (t.error /\ w = <<h>>)
    BY <2>2, <2>4, <2>6, Zenon DEF Full, Half
  <2>8. t.pc = "done" => w # <<>>
    BY <2>2, <2>7, Zenon
  <2>9. t.pc = "done" => rec = IF t.error THEN 500 ELSE h.status
    BY <2>4, <2>6, <2>8
  <2>10. CASE w = <<>>
    BY <1>1, <2>8, <2>10 DEF Answered, Done
  <2>11. CASE w # <<>>
    <3>1. /\ Suits(t, s, h)
          /\ w = <<h>> \/ w = <<h, Body(h.status)>>
          /\ t.pc = "done" =>
               /\ w = <<h, Body(h.status)>> \/ (t.error /\ w = <<h>>)
               /\ rec = IF t.error THEN 500 ELSE h.status
          /\ t.exceeded => t.received > MaxBody
      BY <2>4, <2>5, <2>6, <2>7, <2>9, <2>11
    <3> QED BY <1>1, <3>1, ZenonT(60)
  <2> QED BY <2>10, <2>11
<1> QED BY <1>2, <1>3

\* The same, of what the properties look at.
LEMMA WhatIsSeen ==
    ASSUME IInvOfStack, NEW r \in Requests, wire[r] # <<>>
    PROVE  \E h \in Messages :
              /\ Suits(task[r], scope[r], h)
              /\ wire[r][1] = h
              /\ Len(wire[r]) \in {1, 2}
              /\ Len(wire[r]) = 2 => wire[r][2] = Body(h.status)
              /\ Done(r) =>
                   /\ Len(wire[r]) = 2 \/ (task[r].error /\ Len(wire[r]) = 1)
                   /\ recorded[r] = IF task[r].error THEN 500 ELSE h.status
              /\ task[r].exceeded => task[r].received > MaxBody
<1>1. PICK h \in Messages :
         /\ Suits(task[r], scope[r], h)
         /\ wire[r] = <<h>> \/ wire[r] = <<h, Body(h.status)>>
         /\ task[r].pc = "done" =>
              /\ wire[r] = <<h, Body(h.status)>> \/ (task[r].error /\ wire[r] = <<h>>)
              /\ recorded[r] = IF task[r].error THEN 500 ELSE h.status
         /\ task[r].exceeded => task[r].received > MaxBody
  BY WhatIsSent
<1>2. /\ Len(<<h>>) = 1 /\ <<h>>[1] = h
      /\ Len(<<h, Body(h.status)>>) = 2
      /\ <<h, Body(h.status)>>[1] = h /\ <<h, Body(h.status)>>[2] = Body(h.status)
  OBVIOUS
<1>3. CASE wire[r] = <<h>>
  <2>1. wire[r][1] = h /\ Len(wire[r]) = 1
    BY <1>2, <1>3, Zenon
  <2>2. <<h>> # <<h, Body(h.status)>>
    BY SomeMessages
  <2>3. Done(r) => task[r].error /\ recorded[r] = IF task[r].error THEN 500 ELSE h.status
    BY <1>1, <1>3, <2>2, Zenon DEF Done
  <2>4. Len(wire[r]) \in {1, 2} /\ Len(wire[r]) # 2
    BY <2>1
  <2> QED BY <1>1, <2>1, <2>3, <2>4, Zenon
<1>4. CASE wire[r] = <<h, Body(h.status)>>
  BY <1>1, <1>2, <1>4, Zenon DEF Done
<1> QED BY <1>1, <1>3, <1>4

\* An answered request has got something.
LEMMA AnsweredGot ==
    ASSUME IInvOfStack, NEW r \in Requests, Answered(r)
    PROVE  wire[r] # <<>>
<1>1. ASSUME NEW h \in Messages
      PROVE  <<h>> # <<>> /\ <<h, Body(h.status)>> # <<>>
  BY SomeMessages
<1> QED BY <1>1, WhatIsSent, ZenonT(60)

\* The state of every request, its messages and its recorded status are well formed.
THEOREM StackTypeCorrect == Spec => []TypeOK
<1>1. IInvOfStack => TypeOK
  BY DEF IInvOfStack
<1> QED BY <1>1, StackInvariance, PTL

\* A client gets one response and all of it, however many middlewares stand between
\* and whatever they replace (security_headers.py:120-141), unless the routes raise.
THEOREM OneResponse == Spec => []OneWholeResponse
<1>1. IInvOfStack => OneWholeResponse
  <2> SUFFICES ASSUME IInvOfStack, NEW r \in Requests
               PROVE  /\ wire[r] # <<>> => wire[r][1].type = "start"
                      /\ Len(wire[r]) > 1 => Len(wire[r]) = 2 /\ wire[r][2] = Body(StatusSent(r))
                      /\ Answered(r) => Len(wire[r]) = 2 \/ (task[r].error /\ Len(wire[r]) = 1)
    BY DEF OneWholeResponse
  <2>1. CASE wire[r] = <<>>
    <3>1. Len(wire[r]) = 0
      BY <2>1
    <3>2. ~Answered(r)
      BY <2>1, AnsweredGot
    <3> QED BY <2>1, <3>1, <3>2
  <2>2. CASE wire[r] # <<>>
    <3>1. PICK h \in Messages :
             /\ Suits(task[r], scope[r], h)
             /\ wire[r][1] = h
             /\ Len(wire[r]) \in {1, 2}
             /\ Len(wire[r]) = 2 => wire[r][2] = Body(h.status)
             /\ Done(r) => Len(wire[r]) = 2 \/ (task[r].error /\ Len(wire[r]) = 1)
      BY <2>2, WhatIsSeen
    <3>2. h.type = "start"
      BY <3>1 DEF Suits
    <3>3. StatusSent(r) = h.status
      BY <3>1 DEF StatusSent
    <3>4. Answered(r) => Done(r)
      BY DEF Answered
    <3>5. Len(wire[r]) > 1 => Len(wire[r]) = 2
      <4>1. PICK n \in {1, 2} : Len(wire[r]) = n
        BY <3>1
      <4>2. n > 1 => n = 2
        OBVIOUS
      <4> QED BY <4>1, <4>2, Zenon
    <3>6. wire[r][1].type = "start"
      BY <3>1, <3>2, Zenon
    <3> QED BY <3>1, <3>3, <3>4, <3>5, <3>6, Zenon
  <2> QED BY <2>1, <2>2
<1> QED BY <1>1, StackInvariance, PTL

\* The counter and the access log tell the status the client was sent, 500 if the
\* routes raised (middleware.py:116-139).
THEOREM RecordedStatus == Spec => []RecordedIsSent
<1>1. IInvOfStack => RecordedIsSent
  <2> SUFFICES ASSUME IInvOfStack, NEW r \in Requests, Answered(r)
               PROVE  recorded[r] = IF task[r].error THEN 500 ELSE StatusSent(r)
    BY DEF RecordedIsSent
  <2>1. Done(r) /\ wire[r] # <<>>
    BY AnsweredGot DEF Answered
  <2>2. PICK h \in Messages :
           /\ wire[r][1] = h
           /\ recorded[r] = IF task[r].error THEN 500 ELSE h.status
    BY <2>1, WhatIsSeen
  <2> QED BY <2>2 DEF StatusSent
<1> QED BY <1>1, StackInvariance, PTL

\* Every response carries the request id, and the security headers unless an exception
\* has gone all the way out (middleware.py:127-139).
THEOREM LabelledResponses == Spec => []ResponsesAreLabelled
<1>1. IInvOfStack => ResponsesAreLabelled
  <2> SUFFICES ASSUME IInvOfStack, NEW r \in Requests, wire[r] # <<>>
               PROVE  /\ "x-request-id" \in wire[r][1].headers
                      /\ "security" \in wire[r][1].headers \/ task[r].error
    BY DEF ResponsesAreLabelled
  <2>1. PICK h \in Messages : Suits(task[r], scope[r], h) /\ wire[r][1] = h
    BY WhatIsSeen
  <2> QED BY <2>1 DEF Suits
<1> QED BY <1>1, StackInvariance, PTL

\* Behind the stack too, no client is let through more often in a window than its
\* limit allows (ratelimit.py:49-60): what is proved of the limiter carries over.
THEOREM NoBurstBehindStack == Spec => []NoBurstBeyondLimit
BY StackKeepsLimiter, NoBurst, PTL

-----------------------------------------------------------------------------
(* The budget *)

\* The requests of c that have reached the routes behind the rate limiter.
EnteredBy(c) == {r \in Requests : task[r].entered /\ scope[r].client = c /\ ~Public(scope[r])}

\* The table has room for every client that has a key, and is never cleared.
Roomy == IsFiniteSet(Clients \ Intruders) /\ Cardinality(Clients \ Intruders) <= MaxTracked

\* The stamps of c are the requests that got through, but for those a clear has forgotten.
Counted(c) ==
    /\ IsFiniteSet(EnteredBy(c))
    /\ Len(log[c]) <= Cardinality(EnteredBy(c))
    /\ Roomy => Len(log[c]) = Cardinality(EnteredBy(c))

BudgetInv ==
    /\ \A r \in Requests : task[r].pc = "idle" => ~task[r].entered
    /\ Tracked \cap Intruders = {}
    /\ \A c \in Clients : Counted(c)

\* No request reaches the routes, or starts anew.
NobodyEnters ==
    \A q \in Requests :
        /\ task'[q].entered = task[q].entered
        /\ task'[q].pc = "idle" => task[q].pc = "idle"

LEMMA NobodyEntersBy ==
    ASSUME TypeOK, NEW r \in Requests, NEW t, task' = [task EXCEPT ![r] = t],
           t.entered = task[r].entered, t.pc # "idle" \/ t.pc = task[r].pc
    PROVE  NobodyEnters
<1>1. task'[r] = t /\ \A q \in Requests : q # r => task'[q] = task[q]
  BY DEF TypeOK
<1> QED BY <1>1, ZenonT(60) DEF NobodyEnters

\* The budget does not change with a step that lets nobody in and no client be checked.
LEMMA BudgetStays ==
    ASSUME BudgetInv, NobodyEnters, UNCHANGED <<scope, hits, log>>
    PROVE  BudgetInv'
<1>1. ASSUME NEW c \in Clients
      PROVE  EnteredBy(c)' = EnteredBy(c)
  BY DEF EnteredBy, NobodyEnters, Public
<1>2. \A c \in Clients : Counted(c)'
  BY <1>1 DEF BudgetInv, Counted, Roomy
<1>3. \A q \in Requests : task'[q].pc = "idle" => ~task'[q].entered
  BY Zenon DEF BudgetInv, NobodyEnters
<1>4. Tracked' = Tracked
  BY DEF Tracked
<1> QED BY <1>2, <1>3, <1>4 DEF BudgetInv

\* Who has come in after the arrival of r.
LEMMA WhoEntered ==
    ASSUME TypeOK, BudgetInv, NEW r \in Requests, task[r].pc = "idle",
           NEW s \in Scopes, scope' = [scope EXCEPT ![r] = s],
           NEW t, task' = [task EXCEPT ![r] = t], t.pc # "idle"
    PROVE  /\ \A q \in Requests : task'[q].pc = "idle" => ~task'[q].entered
           /\ \A c \in Clients :
                /\ r \notin EnteredBy(c)
                /\ t.entered /\ s.client = c /\ ~Public(s) => EnteredBy(c)' = EnteredBy(c) \cup {r}
                /\ ~(t.entered /\ s.client = c /\ ~Public(s)) => EnteredBy(c)' = EnteredBy(c)
<1>1. /\ task'[r] = t /\ scope'[r] = s
      /\ \A q \in Requests : q # r => task'[q] = task[q] /\ scope'[q] = scope[q]
  BY DEF TypeOK
<1>2. ~task[r].entered
  BY DEF BudgetInv
<1>3. \A q \in Requests : task'[q].pc = "idle" => ~task'[q].entered
  BY <1>1, ZenonT(60) DEF BudgetInv
<1>4. ASSUME NEW c \in Clients
      PROVE  /\ r \notin EnteredBy(c)
             /\ t.entered /\ s.client = c /\ ~Public(s) => EnteredBy(c)' = EnteredBy(c) \cup {r}
             /\ ~(t.entered /\ s.client = c /\ ~Public(s)) => EnteredBy(c)' = EnteredBy(c)
  <2>1. r \notin EnteredBy(c)
    BY <1>2 DEF EnteredBy
  <2>2. EnteredBy(c)' = {q \in Requests : task'[q].entered /\ scope'[q].client = c
                                           /\ ~Public(scope'[q])}
    BY DEF EnteredBy, Public
  <2>3. \A q \in Requests : q # r => (q \in EnteredBy(c)' <=> q \in EnteredBy(c))
    BY <1>1, <2>2, ZenonT(60) DEF EnteredBy
  <2>4. r \in EnteredBy(c)' <=> t.entered /\ s.client = c /\ ~Public(s)
    BY <1>1, <2>2, ZenonT(60)
  <2>5. EnteredBy(c)' \subseteq Requests /\ EnteredBy(c) \subseteq Requests
    BY <2>2 DEF EnteredBy
  <2> QED BY <2>1, <2>3, <2>4, <2>5
<1> QED BY <1>3, <1>4

\* A request that is answered at once, or asks for a public path, costs nothing.
LEMMA CostsNothing ==
    ASSUME TypeOK, BudgetInv, NEW r \in Requests, task[r].pc = "idle",
           NEW s \in Scopes, scope' = [scope EXCEPT ![r] = s],
           NEW t, task' = [task EXCEPT ![r] = t], t.pc # "idle",
           ~t.entered \/ Public(s), UNCHANGED <<hits, log>>
    PROVE  BudgetInv'
<1>1. /\ \A q \in Requests : task'[q].pc = "idle" => ~task'[q].entered
      /\ \A c \in Clients : EnteredBy(c)' = EnteredBy(c)
  BY WhoEntered
<1>2. \A c \in Clients : Counted(c)'
  BY <1>1 DEF BudgetInv, Counted, Roomy
<1>3. Tracked' = Tracked
  BY DEF Tracked
<1> QED BY <1>1, <1>2, <1>3 DEF BudgetInv

\* A table with room for all who have a key is never cleared.
LEMMA RoomyNeverClears ==
    ASSUME IInv, BudgetInv, NEW c \in Clients, c \notin Intruders, Roomy, MaxTracked \in Nat
    PROVE  ~Clears(c)
<1> SUFFICES ASSUME c \notin Tracked PROVE Cardinality(Tracked) < MaxTracked
  BY FS_CardinalityType DEF Clears, IInv, TableOK
<1>1. PICK S : S = Clients \ Intruders
  OBVIOUS
<1>2. IsFiniteSet(S) /\ Cardinality(S) <= MaxTracked /\ Cardinality(S) \in Nat
  BY <1>1, FS_CardinalityType DEF Roomy
<1>3. Tracked \in SUBSET S /\ Tracked # S
  BY <1>1 DEF BudgetInv, IInv, LimiterTypeOK
<1>4. /\ IsFiniteSet(Tracked) /\ Cardinality(Tracked) <= Cardinality(S)
      /\ Cardinality(Tracked) # Cardinality(S)
  BY <1>2, <1>3, FS_Subset
<1>5. Cardinality(Tracked) \in Nat
  BY <1>4, FS_CardinalityType
<1> QED BY <1>2, <1>4, <1>5

\* What a check of c leaves in the histories.
LEMMA WhatIsLogged ==
    ASSUME LimiterAssumption, IInv, NEW c \in Clients, Check(c)
    PROVE  /\ Tracked' \subseteq Tracked \cup {c}
           /\ verdict'[c] = "admitted" =>
                Len(log'[c]) = Len(log[c]) + 1
           /\ verdict'[c] # "admitted" => log'[c] = log[c]
           /\ \A k \in Clients : k # c => log'[k] = IF Clears(c) THEN <<>> ELSE log[k]
<1>1. PICK b : LiveDeque(c, b) /\ (Allow(c, b) \/ Reject(c, b) \/ Raise(c, b))
  BY CheckDecides
<1>2. /\ now \in Nat /\ log[c] \in Seq(Nat) /\ b \in Seq(Nat)
      /\ verdict \in [Clients -> {"none", "admitted", "rejected", "raised"}]
  BY <1>1 DEF IInv, LimiterTypeOK, LiveDeque, EndOf
<1>3. Append(b, now) \in Seq(Nat)
  BY <1>2
<1>4. Tracked' \subseteq Tracked \cup {c}
  <2>1. PICK d \in Seq(Nat) : Store(c, d)
    BY <1>1, <1>2, <1>3 DEF Allow, Reject, Raise
  <2>2. Tracked' = IF Clears(c) THEN {c} ELSE Tracked \cup {c}
    BY <2>1, Stored
  <2> QED BY <2>2
<1>5. CASE Allow(c, b)
  <2>1. verdict'[c] = "admitted"
    BY <1>2, <1>5 DEF Allow, Answer
  <2>2. log' = [Kept(c, log, <<>>) EXCEPT ![c] = Append(@, now)]
    BY <1>5 DEF Allow
  <2>3. log'[c] = Append(log[c], now) /\ \A k \in Clients : k # c => log'[k] = Kept(c, log, <<>>)[k]
    BY <2>2, Looked
  <2>4. Len(log'[c]) = Len(log[c]) + 1
    BY <1>2, <2>3, AppendProperties
  <2>5. \A k \in Clients : k # c => log'[k] = IF Clears(c) THEN <<>> ELSE log[k]
    BY <2>3, Looked
  <2> QED BY <1>4, <2>1, <2>4, <2>5
<1>6. CASE Reject(c, b) \/ Raise(c, b)
  <2>1. verdict'[c] # "admitted"
    BY <1>2, <1>6 DEF Reject, Raise, Answer
  <2>2. log' = Kept(c, log, <<>>)
    BY <1>6 DEF Reject, Raise
  <2>3. log'[c] = log[c] /\ \A k \in Clients : log'[k] = IF Clears(c) THEN <<>> ELSE log[k]
    BY <2>2, Looked
  <2> QED BY <1>4, <2>1, <2>3
<1> QED BY <1>1, <1>5, <1>6

\* A request that is checked costs its client one stamp if it gets in, and none if not.
LEMMA CheckedIsCounted ==
    ASSUME LimiterAssumption, IInv, TypeOK, BudgetInv, NEW r \in Requests, task[r].pc = "idle",
           NEW s \in Scopes, scope' = [scope EXCEPT ![r] = s],
           NEW t, task' = [task EXCEPT ![r] = t], t.pc # "idle",
           ~Public(s), s.client \notin Intruders, Check(s.client),
           t.entered <=> verdict'[s.client] = "admitted"
    PROVE  BudgetInv'
<1>1. PICK c \in Clients : c = s.client
  BY DEF Scopes
<1>2. /\ \A q \in Requests : task'[q].pc = "idle" => ~task'[q].entered
      /\ r \notin EnteredBy(c)
      /\ t.entered => EnteredBy(c)' = EnteredBy(c) \cup {r}
      /\ ~t.entered => EnteredBy(c)' = EnteredBy(c)
      /\ \A k \in Clients : k # c => EnteredBy(k)' = EnteredBy(k)
  <2>1. /\ \A q \in Requests : task'[q].pc = "idle" => ~task'[q].entered
        /\ \A k \in Clients :
             /\ r \notin EnteredBy(k)
             /\ t.entered /\ s.client = k /\ ~Public(s) => EnteredBy(k)' = EnteredBy(k) \cup {r}
             /\ ~(t.entered /\ s.client = k /\ ~Public(s)) => EnteredBy(k)' = EnteredBy(k)
    BY WhoEntered
  <2> QED BY <1>1, <2>1, ZenonT(60)
<1>3. /\ Tracked' \subseteq Tracked \cup {c}
      /\ t.entered => Len(log'[c]) = Len(log[c]) + 1
      /\ ~t.entered => log'[c] = log[c]
      /\ \A k \in Clients : k # c => log'[k] = IF Clears(c) THEN <<>> ELSE log[k]
  BY <1>1, WhatIsLogged, ZenonT(60)
<1>4. Tracked' \cap Intruders = {}
  BY <1>1, <1>3 DEF BudgetInv
<1>5. \A k \in Clients : Len(log[k]) \in Nat
  BY DEF IInv, LimiterTypeOK
<1>6. Counted(c)'
  <2>1. IsFiniteSet(EnteredBy(c)) /\ Cardinality(EnteredBy(c)) \in Nat
    BY FS_CardinalityType DEF BudgetInv, Counted
  <2>2. /\ IsFiniteSet(EnteredBy(c) \cup {r})
        /\ Cardinality(EnteredBy(c) \cup {r}) = Cardinality(EnteredBy(c)) + 1
    BY <1>2, <2>1, FS_AddElement
  <2>3. CASE t.entered
    <3>1. EnteredBy(c)' = EnteredBy(c) \cup {r} /\ Len(log'[c]) = Len(log[c]) + 1
      BY <1>2, <1>3, <2>3
    <3>2. /\ IsFiniteSet(EnteredBy(c)')
          /\ Cardinality(EnteredBy(c)') = Cardinality(EnteredBy(c)) + 1
      BY <2>2, <3>1, Zenon
    <3>3. Counted(c)
      BY DEF BudgetInv
    <3>4. /\ Len(log'[c]) <= Cardinality(EnteredBy(c)')
          /\ Roomy => Len(log'[c]) = Cardinality(EnteredBy(c)')
      BY <1>5, <2>1, <3>1, <3>2, <3>3 DEF Counted
    <3> QED BY <3>2, <3>4 DEF Counted, Roomy
  <2>4. CASE ~t.entered
    <3>1. EnteredBy(c)' = EnteredBy(c) /\ log'[c] = log[c]
      BY <1>2, <1>3, <2>4
    <3> QED BY <3>1 DEF BudgetInv, Counted, Roomy
  <2> QED BY <2>3, <2>4
<1>7. ASSUME NEW k \in Clients, k # c
      PROVE  Counted(k)'
  <2>1. EnteredBy(k)' = EnteredBy(k) /\ log'[k] = IF Clears(c) THEN <<>> ELSE log[k]
    BY <1>2, <1>3, <1>7
  <2>2. Roomy => ~Clears(c)
    BY <1>1, RoomyNeverClears DEF LimiterAssumption
  <2>3. Counted(k) /\ Cardinality(EnteredBy(k)) \in Nat
    BY FS_CardinalityType DEF BudgetInv, Counted
  <2>4. Len(<<>>) = 0
    OBVIOUS
  <2> QED BY <1>5, <2>1, <2>2, <2>3, <2>4 DEF Counted, Roomy
<1> QED BY <1>2, <1>4, <1>6, <1>7 DEF BudgetInv

LEMMA ArrivalIsCounted ==
    ASSUME LimiterAssumption, IInv, IInvOfStack, BudgetInv,
           NEW r \in Requests, NEW s \in Scopes, Arrive(r, s)
    PROVE  BudgetInv'
<1>1. TypeOK /\ task[r].pc = "idle" /\ scope' = [scope EXCEPT ![r] = s] /\ task[r] \in Tasks
  BY DEF IInvOfStack, TypeOK, Arrive, At
<1>2. task[r].entered = FALSE
  BY <1>1 DEF BudgetInv, Tasks
<1>3. ASSUME NEW status, NEW layer, Reply(r, status, layer)
      PROVE  \E t : task' = [task EXCEPT ![r] = t] /\ t.pc # "idle" /\ t.entered = FALSE
  <2> DEFINE t == [task[r] EXCEPT !.pc = "returning"]
  <2>1. task' = [task EXCEPT ![r] = t]
    BY <1>3, Zenon DEF Reply
  <2>2. t.pc # "idle" /\ t.entered = FALSE
    BY <1>1, <1>2 DEF Tasks
  <2> HIDE DEF t
  <2> QED BY <2>1, <2>2
<1>4. ASSUME Fails(r)
      PROVE  \E t : task' = [task EXCEPT ![r] = t] /\ t.pc # "idle" /\ t.entered = FALSE
  <2>1. PICK n : HasFailed(r, n)
    BY <1>4, FailsWith
  <2> DEFINE t == [task[r] EXCEPT !.error = TRUE, !.status = n, !.pc = "returning"]
  <2>2. task' = [task EXCEPT ![r] = t]
    BY <2>1, Zenon DEF HasFailed
  <2>3. t.pc # "idle" /\ t.entered = FALSE
    BY <1>1, <1>2 DEF Tasks
  <2> HIDE DEF t
  <2> QED BY <2>2, <2>3
<1>5. ASSUME Enter(r, s)
      PROVE  \E t : task' = [task EXCEPT ![r] = t] /\ t.pc # "idle" /\ t.entered = TRUE
  <2>1. PICK pc : pc = IF s.method = "POST" THEN "reading" ELSE "routes"
    OBVIOUS
  <2> DEFINE t == [task[r] EXCEPT !.entered = TRUE, !.pc = pc]
  <2>2. task' = [task EXCEPT ![r] = t]
    BY <1>5, <2>1 DEF Enter
  <2>3. t.pc # "idle" /\ t.entered = TRUE
    BY <1>1, <2>1 DEF Tasks
  <2> HIDE DEF t
  <2> QED BY <2>2, <2>3
<1>6. UNCHANGED limiterVars => UNCHANGED <<hits, log>>
  BY DEF limiterVars
<1>7. CASE UNCHANGED limiterVars /\ \E status, layer : Reply(r, status, layer)
  <2>1. PICK t : task' = [task EXCEPT ![r] = t] /\ t.pc # "idle" /\ t.entered = FALSE
    BY <1>3, <1>7
  <2> QED BY <1>1, <1>6, <1>7, <2>1, CostsNothing
<1>8. CASE UNCHANGED limiterVars /\ Public(s) /\ Enter(r, s)
  <2>1. PICK t : task' = [task EXCEPT ![r] = t] /\ t.pc # "idle"
    BY <1>5, <1>8
  <2> QED BY <1>1, <1>6, <1>8, <2>1, CostsNothing
<1>9. CASE ~Public(s) /\ s.client \notin Intruders /\ Check(s.client)
  <2>1. CASE verdict'[s.client] = "admitted" /\ Enter(r, s)
    <3>1. PICK t : task' = [task EXCEPT ![r] = t] /\ t.pc # "idle" /\ t.entered = TRUE
      BY <1>5, <2>1
    <3> QED BY <1>1, <1>9, <2>1, <3>1, CheckedIsCounted
  <2>2. CASE /\ verdict'[s.client] # "admitted"
             /\ Fails(r) \/ \E status, layer : Reply(r, status, layer)
    <3>1. PICK t : task' = [task EXCEPT ![r] = t] /\ t.pc # "idle" /\ t.entered = FALSE
      BY <1>3, <1>4, <2>2
    <3> QED BY <1>1, <1>9, <2>2, <3>1, CheckedIsCounted
  <2>3. \/ verdict'[s.client] = "admitted" /\ Enter(r, s)
        \/ verdict'[s.client] = "rejected" /\ Reply(r, 429, "RateLimit")
        \/ verdict'[s.client] = "raised" /\ Fails(r)
        \/ UNCHANGED limiterVars /\ \E status, layer : Reply(r, status, layer)
    BY <1>9 DEF Arrive
  <2> QED BY <1>7, <2>1, <2>2, <2>3
<1> QED BY <1>7, <1>8, <1>9 DEF Arrive

\* No other step of a request, nor the clock, is seen in the budget.
LEMMA OthersAreNotCounted ==
    ASSUME StackAssumption, IInvOfStack, BudgetInv, NEW r \in Requests,
           \/ \E n \in 0..MaxBody, more \in BOOLEAN : Receive(r, n, more)
           \/ Disconnect(r) \/ Proceed(r)
    PROVE  BudgetInv'
<1>1. TypeOK /\ task[r] \in Tasks
  BY DEF IInvOfStack, TypeOK
<1>2. UNCHANGED <<scope, hits, log>>
  BY DEF Receive, Disconnect, Proceed, Handle, Respond, Finish, Raise500, Send, Return, limiterVars
<1>3. ASSUME NEW t, task' = [task EXCEPT ![r] = t], t.entered = task[r].entered, t.pc # "idle"
      PROVE  BudgetInv'
  BY <1>1, <1>2, <1>3, NobodyEntersBy, BudgetStays
<1>4. ASSUME NEW n \in 0..MaxBody, NEW more \in BOOLEAN, Receive(r, n, more)
      PROVE  BudgetInv'
  <2>1. PICK all, over, keep, pc :
           /\ all = task[r].received + n /\ over = (all > MaxBody)
           /\ keep = IF all > MaxBody THEN task[r].kept ELSE all
           /\ pc = IF more /\ all <= MaxBody THEN "reading" ELSE "routes"
    OBVIOUS
  <2> DEFINE t == [task[r] EXCEPT !.received = all, !.exceeded = over, !.kept = keep, !.pc = pc]
  <2>2. task' = [task EXCEPT ![r] = t]
    BY <1>4, <2>1 DEF Receive
  <2>3. pc # "idle"
    BY <2>1
  <2>4. t.entered = task[r].entered /\ t.pc # "idle"
    BY <1>1, <2>3 DEF Tasks
  <2> HIDE DEF t
  <2> QED BY <1>3, <2>2, <2>4
<1>5. CASE Disconnect(r)
  <2> DEFINE t == [task[r] EXCEPT !.gone = TRUE, !.pc = "routes"]
  <2>1. task' = [task EXCEPT ![r] = t]
    BY <1>5, Zenon DEF Disconnect
  <2>2. t.entered = task[r].entered /\ t.pc # "idle"
    BY <1>1 DEF Tasks
  <2> HIDE DEF t
  <2> QED BY <1>3, <2>1, <2>2
<1>6. CASE Handle(r)
  <2> DEFINE t == [task[r] EXCEPT !.handled = TRUE, !.pc = "handling"]
  <2>1. task' = [task EXCEPT ![r] = t]
    BY <1>6, Zenon DEF Handle
  <2>2. t.entered = task[r].entered /\ t.pc # "idle"
    BY <1>1 DEF Tasks
  <2> HIDE DEF t
  <2> QED BY <1>3, <2>1, <2>2
<1>7. CASE Respond(r)
  <2> DEFINE t == [task[r] EXCEPT !.started = TRUE, !.pc = "started"]
  <2>1. PICK status : RouteSends(r, Start(status, "routes"), "started")
    BY <1>7 DEF Respond
  <2>2. task' = [task EXCEPT ![r] = t]
    BY <2>1, RouteStarts
  <2>3. t.entered = task[r].entered /\ t.pc # "idle"
    BY <1>1 DEF Tasks
  <2> HIDE DEF t
  <2> QED BY <1>3, <2>2, <2>3
<1>8. CASE Finish(r)
  <2> DEFINE t == [task[r] EXCEPT !.started = TRUE, !.pc = "returning"]
  <2>1. task[r].started
    BY <1>8 DEF Finish, At, IInvOfStack, ResponseOK
  <2>2. RouteSends(r, Body(task[r].status), "returning")
    BY <1>8 DEF Finish
  <2>3. task' = [task EXCEPT ![r] = t]
    BY <1>1, <2>1, <2>2, RouteEnds
  <2>4. t.entered = task[r].entered /\ t.pc # "idle"
    BY <1>1 DEF Tasks
  <2> HIDE DEF t
  <2> QED BY <1>3, <2>3, <2>4
<1>9. CASE Raise500(r)
  <2>1. PICK n : HasFailed(r, n)
    BY <1>9, FailsWith DEF Raise500
  <2> DEFINE t == [task[r] EXCEPT !.error = TRUE, !.status = n, !.pc = "returning"]
  <2>2. task' = [task EXCEPT ![r] = t]
    BY <2>1, Zenon DEF HasFailed
  <2>3. t.entered = task[r].entered /\ t.pc # "idle"
    BY <1>1 DEF Tasks
  <2> HIDE DEF t
  <2> QED BY <1>3, <2>2, <2>3
<1>10. CASE Send(r)
  <2>1. CASE Head(out[r]).type = "start"
    <3> DEFINE t == [task[r] EXCEPT !.status = Head(out[r]).status, !.replied = TRUE]
    <3>1. task' = [task EXCEPT ![r] = t]
      BY <1>10, <2>1, SendTask
    <3>2. t.entered = task[r].entered /\ t.pc = task[r].pc
      BY <1>1 DEF Tasks
    <3> HIDE DEF t
    <3> QED BY <1>1, <1>2, <3>1, <3>2, NobodyEntersBy, BudgetStays
  <2>2. CASE Head(out[r]).type # "start"
    <3>1. task' = task
      BY <1>10, <2>2, SendTask
    <3>2. NobodyEnters
      BY <3>1 DEF NobodyEnters
    <3> QED BY <1>2, <3>2, BudgetStays
  <2> QED BY <2>1, <2>2
<1>11. CASE Return(r)
  <2> DEFINE t == [task[r] EXCEPT !.pc = "done"]
  <2>1. task' = [task EXCEPT ![r] = t]
    BY <1>11, Zenon DEF Return
  <2>2. t.entered = task[r].entered /\ t.pc # "idle"
    BY <1>1 DEF Tasks
  <2> HIDE DEF t
  <2> QED BY <1>3, <2>1, <2>2
<1> QED BY <1>4, <1>5, <1>6, <1>7, <1>8, <1>9, <1>10, <1>11 DEF Proceed

LEMMA BudgetStepKeeps ==
    ASSUME LimiterAssumption, StackAssumption, IInv, IInvOfStack, BudgetInv, [Next]_stackVars
    PROVE  BudgetInv'
<1>1. ASSUME UNCHANGED <<task, scope, hits, log>>
      PROVE  BudgetInv'
  <2>1. NobodyEnters
    BY <1>1 DEF NobodyEnters
  <2> QED BY <1>1, <2>1, BudgetStays
<1>2. CASE TickStack \/ UNCHANGED stackVars
  BY <1>1, <1>2 DEF TickStack, Tick, stackVars, limiterVars
<1>3. ASSUME NEW r \in Requests, NEW s \in Scopes, Arrive(r, s)
      PROVE  BudgetInv'
  BY <1>3, ArrivalIsCounted
<1>4. ASSUME NEW r \in Requests,
             \/ \E n \in 0..MaxBody, more \in BOOLEAN : Receive(r, n, more)
             \/ Disconnect(r) \/ Proceed(r)
      PROVE  BudgetInv'
  BY <1>4, OthersAreNotCounted
<1> QED BY <1>2, <1>3, <1>4 DEF Next

LEMMA BudgetInitHolds ==
    ASSUME Init
    PROVE  BudgetInv
<1>1. \A r \in Requests : ~task[r].entered
  BY DEF Init, NewTask
<1>2. Tracked = {}
  BY DEF Init, LimiterInit, NoHits, Tracked
<1>3. ASSUME NEW c \in Clients
      PROVE  Counted(c)
  <2>1. EnteredBy(c) = {}
    BY <1>1 DEF EnteredBy
  <2>2. log[c] = <<>> /\ Len(<<>>) = 0
    BY DEF Init, LimiterInit
  <2> QED BY <2>1, <2>2, FS_EmptySet DEF Counted
<1> QED BY <1>1, <1>2, <1>3 DEF BudgetInv

\* No client is charged more stamps than it has had requests let in to the routes, and
\* none without a key is tracked at all (main.py:107-111), whatever the size of the table.
THEOREM BudgetCounts == Spec => []BudgetInv
<1>1. Init => BudgetInv
  BY BudgetInitHolds
<1>2. IInv /\ IInvOfStack /\ BudgetInv /\ [Next]_stackVars => BudgetInv'
  BY BudgetStepKeeps, LimiterAssumption, StackAssumption
<1> QED BY <1>1, <1>2, StackKeepsLimiter, Invariance, StackInvariance, PTL DEF Spec

\* As long as the table has room for every client with a key, and so is never cleared
\* (ratelimit.py:49-51), the budget of a client is spent on its requests that reach the
\* routes and on no others: not on one refused for its size, type or key, nor on a
\* public path.
THEOREM BudgetForRoutes ==
    ASSUME Roomy
    PROVE  Spec => []BudgetIsForRoutes
<1>1. BudgetInv => BudgetIsForRoutes
  BY DEF BudgetInv, Counted, EnteredBy, BudgetIsForRoutes
<1> QED BY <1>1, BudgetCounts, PTL

-----------------------------------------------------------------------------
(* A body that is declared too long *)

RefusalOf(s) == IF s.type = "json" THEN 413 ELSE 415
Says(o, n) == \A i \in 1..Len(o) : o[i].status = n

\* Its request never gets past BodyLimit, and all it is sent is the refusal.
RefusedAtOnce(t, s, o, w) ==
    s.length = "too long" =>
        /\ t.pc \in {"returning", "done"} /\ ~t.entered
        /\ Says(o, RefusalOf(s)) /\ Says(w, RefusalOf(s))

DeclaredInv == \A r \in Requests : RefusedAtOnce(task[r], scope[r], out[r], wire[r])

\* A step of r changes nothing of the other requests.
OnlyOf(r) ==
    /\ \E t : task' = [task EXCEPT ![r] = t]
    /\ \E s : scope' = [scope EXCEPT ![r] = s]
    /\ \E o : out' = [out EXCEPT ![r] = o]
    /\ \E w : wire' = [wire EXCEPT ![r] = w]

LEMMA RefusedSteps ==
    ASSUME TypeOK, DeclaredInv, NEW r \in Requests, OnlyOf(r),
           RefusedAtOnce(task'[r], scope'[r], out'[r], wire'[r])
    PROVE  DeclaredInv'
<1>1. ASSUME NEW q \in Requests, q # r
      PROVE  RefusedAtOnce(task'[q], scope'[q], out'[q], wire'[q])
  <2>1. task'[q] = task[q] /\ scope'[q] = scope[q] /\ out'[q] = out[q] /\ wire'[q] = wire[q]
    BY <1>1 DEF OnlyOf, TypeOK
  <2> QED BY <2>1 DEF DeclaredInv
<1> QED BY <1>1 DEF DeclaredInv

\* A step that a refused request does not take.
LEMMA NotOfRefused ==
    ASSUME TypeOK, DeclaredInv, NEW r \in Requests, OnlyOf(r), scope' = scope,
           task[r].pc \notin {"returning", "done"}
    PROVE  DeclaredInv'
<1>1. scope'[r].length # "too long"
  BY DEF DeclaredInv, RefusedAtOnce
<1>2. RefusedAtOnce(task'[r], scope'[r], out'[r], wire'[r])
  BY <1>1 DEF RefusedAtOnce
<1> QED BY <1>2, RefusedSteps

LEMMA WholeSays ==
    ASSUME NEW n, NEW layer
    PROVE  Says(Whole(n, layer), n) /\ Says(<<>>, n)
<1>1. PICK a, b : a = Start(n, layer) /\ b = Body(n)
  OBVIOUS
<1>2. a.status = n /\ b.status = n /\ Whole(n, layer) = <<a, b>>
  BY <1>1 DEF Start, Body, Whole
<1> QED BY <1>2 DEF Says

\* A failure of r is a step of r.
LEMMA FailsAlone ==
    ASSUME TypeOK, NEW r \in Requests, Fails(r)
    PROVE  /\ \E t : task' = [task EXCEPT ![r] = t]
           /\ \E o : out' = [out EXCEPT ![r] = o]
<1>1. PICK n : n = 500 /\ HasFailed(r, n)
  BY FailsWith
<1>2. \E t : task' = [task EXCEPT ![r] = t]
  BY <1>1 DEF HasFailed
<1>3. out = [out EXCEPT ![r] = out[r]]
  BY Same
<1>4. out' = out \/ out' = [out EXCEPT ![r] = Whole(n, "RequestId")]
  BY <1>1 DEF Fails
<1> QED BY <1>2, <1>3, <1>4

LEMMA RefusedOnArrival ==
    ASSUME IInvOfStack, BudgetInv, DeclaredInv, NEW r \in Requests, NEW s \in Scopes, Arrive(r, s)
    PROVE  DeclaredInv'
<1>1. /\ At(r, "idle") /\ scope' = [scope EXCEPT ![r] = s] /\ wire' = wire
      /\ task[r] \in Tasks /\ wire = [wire EXCEPT ![r] = wire[r]]
      /\ out = [out EXCEPT ![r] = out[r]]
      /\ TypeOK
  BY Same DEF Arrive, IInvOfStack
<1>2. scope'[r] = s
  BY <1>1 DEF TypeOK
<1>3. CASE s.length # "too long"
  <2>1. RefusedAtOnce(task'[r], scope'[r], out'[r], wire'[r])
    BY <1>2, <1>3 DEF RefusedAtOnce
  <2>2. /\ \E t : task' = [task EXCEPT ![r] = t]
        /\ \E o : out' = [out EXCEPT ![r] = o]
    <3>1. ASSUME NEW status, NEW layer, Reply(r, status, layer)
          PROVE  /\ \E t : task' = [task EXCEPT ![r] = t]
                 /\ \E o : out' = [out EXCEPT ![r] = o]
      <4>1. task' = [task EXCEPT ![r] = [task[r] EXCEPT !.pc = "returning"]]
        BY <3>1, Zenon DEF Reply
      <4>2. out' = [out EXCEPT ![r] = Whole(status, layer)]
        BY <3>1 DEF Reply
      <4> QED BY <4>1, <4>2
    <3>2. ASSUME Enter(r, s)
          PROVE  /\ \E t : task' = [task EXCEPT ![r] = t]
                 /\ \E o : out' = [out EXCEPT ![r] = o]
      <4>1. PICK pc : pc = IF s.method = "POST" THEN "reading" ELSE "routes"
        OBVIOUS
      <4>2. task' = [task EXCEPT ![r] = [task[r] EXCEPT !.entered = TRUE, !.pc = pc]]
        BY <3>2, <4>1 DEF Enter
      <4>3. out' = out
        BY <3>2 DEF Enter
      <4> QED BY <1>1, <4>2, <4>3
    <3>3. Fails(r) \/ Enter(r, s) \/ \E status, layer : Reply(r, status, layer)
      BY DEF Arrive
    <3>4. CASE Fails(r)
      BY <1>1, <3>4, FailsAlone
    <3>5. CASE Enter(r, s)
      BY <3>2, <3>5
    <3>6. CASE \E status, layer : Reply(r, status, layer)
      BY <3>1, <3>6
    <3> QED BY <3>3, <3>4, <3>5, <3>6
  <2>3. OnlyOf(r)
    BY <1>1, <2>2 DEF OnlyOf
  <2> QED BY <1>1, <2>1, <2>3, RefusedSteps
<1>4. CASE s.length = "too long"
  <2>1. s.type \in {"json", "other"}
    BY <1>4 DEF Scopes
  <2>2. LimitStatus(s) = RefusalOf(s) /\ LimitStatus(s) # 0
    <3>1. CASE s.type = "json"
      <4>1. LimitStatus(s) = 413 /\ RefusalOf(s) = 413
        BY <1>4, <3>1 DEF LimitStatus, RefusalOf
      <4> QED BY <4>1
    <3>2. CASE s.type = "other"
      <4>1. LimitStatus(s) = 415 /\ RefusalOf(s) = 415
        BY <3>2 DEF LimitStatus, RefusalOf
      <4> QED BY <4>1
    <3> QED BY <2>1, <3>1, <3>2
  <2>3. PICK n : n = RefusalOf(s)
    OBVIOUS
  <2>4. Reply(r, n, "BodyLimit")
    BY <2>2, <2>3 DEF Arrive
  <2>5. /\ out' = [out EXCEPT ![r] = Whole(n, "BodyLimit")]
        /\ task' = [task EXCEPT ![r] = [task[r] EXCEPT !.pc = "returning"]]
    BY <2>4, Zenon DEF Reply
  <2>6. OnlyOf(r)
    BY <1>1, <2>5 DEF OnlyOf
  <2>7. ~task[r].entered /\ wire[r] = <<>>
    BY <1>1, NotYetSent DEF At, Before, BudgetInv
  <2>8. PICK t : t = [task[r] EXCEPT !.pc = "returning"]
    OBVIOUS
  <2>9. t.pc = "returning" /\ ~t.entered
    BY <1>1, <2>7, <2>8 DEF Tasks
  <2>10. /\ task'[r] = t /\ out'[r] = Whole(n, "BodyLimit") /\ wire'[r] = <<>>
    BY <1>1, <2>5, <2>7, <2>8 DEF TypeOK
  <2>11. RefusedAtOnce(t, s, Whole(n, "BodyLimit"), <<>>)
    BY <2>3, <2>9, WholeSays DEF RefusedAtOnce
  <2>12. RefusedAtOnce(task'[r], scope'[r], out'[r], wire'[r])
    BY <1>2, <2>10, <2>11, Zenon
  <2> QED BY <1>1, <2>6, <2>12, RefusedSteps
<1> QED BY <1>3, <1>4

\* What a refused request sends, one message after the other.
LEMMA RefusedSends ==
    ASSUME TypeOK, DeclaredInv, NEW r \in Requests, Send(r)
    PROVE  DeclaredInv'
<1>1. PICK o \in Seq(Messages), w \in Seq(Messages), t0 \in Tasks :
         o = out[r] /\ w = wire[r] /\ t0 = task[r] /\ task = [task EXCEPT ![r] = t0]
  BY Same
<1>2. /\ o # <<>> /\ out' = [out EXCEPT ![r] = Tail(o)] /\ scope' = scope
      /\ wire' = wire \/ wire' = [wire EXCEPT ![r] = Append(w, Head(o))]
      /\ scope = [scope EXCEPT ![r] = scope[r]] /\ wire = [wire EXCEPT ![r] = w]
  BY <1>1, Same DEF Send
<1>3. PICK t : /\ task' = [task EXCEPT ![r] = t]
               /\ t.pc = t0.pc /\ t.entered = t0.entered
  <2>1. CASE Head(out[r]).type = "start"
    <3>1. PICK n, b : n = Head(out[r]).status /\ b = TRUE
      OBVIOUS
    <3>2. task' = [task EXCEPT ![r] = [task[r] EXCEPT !.status = n, !.replied = b]]
      BY <2>1, <3>1, SendTask
    <3>3. PICK t : t = [task[r] EXCEPT !.status = n, !.replied = b]
      OBVIOUS
    <3>4. t.pc = t0.pc /\ t.entered = t0.entered
      BY <1>1, <3>3 DEF Tasks
    <3> QED BY <3>2, <3>3, <3>4
  <2>2. CASE Head(out[r]).type # "start"
    BY <1>1, <2>2, SendTask
  <2> QED BY <2>1, <2>2
<1>4. OnlyOf(r)
  BY <1>2, <1>3 DEF OnlyOf
<1>5. /\ task'[r] = t /\ out'[r] = Tail(o) /\ scope'[r] = scope[r]
      /\ wire'[r] = w \/ wire'[r] = Append(w, Head(o))
  BY <1>1, <1>2, <1>3 DEF TypeOK
<1>6. PICK s, n : s = scope[r] /\ n = RefusalOf(s)
  OBVIOUS
<1>7. CASE s.length # "too long"
  <2>1. RefusedAtOnce(task'[r], scope'[r], out'[r], wire'[r])
    BY <1>5, <1>6, <1>7 DEF RefusedAtOnce
  <2> QED BY <1>4, <2>1, RefusedSteps
<1>8. CASE s.length = "too long"
  <2>1. t0.pc \in {"returning", "done"} /\ ~t0.entered /\ Says(o, n) /\ Says(w, n)
    BY <1>1, <1>6, <1>8 DEF DeclaredInv, RefusedAtOnce
  <2>2. Says(Tail(o), n)
    BY <1>2, <2>1 DEF Says
  <2>3. Says(Append(w, Head(o)), n)
    <3>1. Head(o) = o[1] /\ 1 \in 1..Len(o)
      BY <1>2
    <3>2. o[1].status = n
      BY <2>1, <3>1 DEF Says
    <3>3. ASSUME NEW i \in 1..Len(Append(w, Head(o)))
          PROVE  Append(w, Head(o))[i] = IF i = Len(w) + 1 THEN o[1] ELSE w[i]
      BY <1>2, <3>1
    <3>4. Len(Append(w, Head(o))) = Len(w) + 1 /\ Len(w) \in Nat
      BY <1>2
    <3> QED BY <2>1, <3>2, <3>3, <3>4 DEF Says
  <2>4. t.pc \in {"returning", "done"} /\ ~t.entered
    BY <1>3, <2>1
  <2>5. PICK x, y : x = out'[r] /\ y = wire'[r]
    OBVIOUS
  <2>6. Says(x, n) /\ Says(y, n)
    BY <1>5, <2>1, <2>2, <2>3, <2>5, Zenon
  <2>7. RefusedAtOnce(t, s, x, y)
    BY <1>6, <2>4, <2>6 DEF RefusedAtOnce
  <2>8. RefusedAtOnce(task'[r], scope'[r], out'[r], wire'[r])
    BY <1>5, <1>6, <2>5, <2>7, Zenon
  <2> QED BY <1>4, <2>8, RefusedSteps
<1> QED BY <1>7, <1>8

LEMMA RefusedReturns ==
    ASSUME TypeOK, DeclaredInv, NEW r \in Requests, Return(r)
    PROVE  DeclaredInv'
<1>1. PICK t : t = [task[r] EXCEPT !.pc = "done"]
  OBVIOUS
<1>2. task' = [task EXCEPT ![r] = t]
  BY <1>1, Zenon DEF Return
<1>3. /\ scope' = scope /\ out' = out /\ wire' = wire /\ task[r] \in Tasks
      /\ scope = [scope EXCEPT ![r] = scope[r]] /\ out = [out EXCEPT ![r] = out[r]]
      /\ wire = [wire EXCEPT ![r] = wire[r]]
  BY Same DEF Return
<1>4. OnlyOf(r)
  BY <1>2, <1>3 DEF OnlyOf
<1>5. task'[r] = t /\ t.pc = "done" /\ t.entered = task[r].entered
  BY <1>1, <1>2, <1>3 DEF TypeOK, Tasks
<1>6. RefusedAtOnce(task[r], scope[r], out[r], wire[r])
  BY DEF DeclaredInv
<1>7. RefusedAtOnce(task'[r], scope'[r], out'[r], wire'[r])
  BY <1>3, <1>5, <1>6 DEF RefusedAtOnce
<1> QED BY <1>4, <1>7, RefusedSteps

\* The other steps are of requests that BodyLimit has let in.
LEMMA RefusedElsewhere ==
    ASSUME IInvOfStack, DeclaredInv, NEW r \in Requests,
           \/ \E n \in 0..MaxBody, more \in BOOLEAN : Receive(r, n, more)
           \/ Disconnect(r) \/ Handle(r) \/ Respond(r) \/ Finish(r) \/ Raise500(r)
    PROVE  DeclaredInv'
<1>1. /\ TypeOK /\ scope' = scope /\ wire' = wire
      /\ task[r].pc \notin {"returning", "done"}
  BY DEF Receive, Disconnect, Handle, Respond, Finish, Raise500, At, IInvOfStack
<1>2. /\ task[r] \in Tasks /\ out = [out EXCEPT ![r] = out[r]]
      /\ scope = [scope EXCEPT ![r] = scope[r]] /\ wire = [wire EXCEPT ![r] = wire[r]]
  BY <1>1, Same
<1>3. ASSUME NEW t, task' = [task EXCEPT ![r] = t], NEW o, out' = [out EXCEPT ![r] = o]
      PROVE  DeclaredInv'
  <2>1. OnlyOf(r)
    BY <1>1, <1>2, <1>3 DEF OnlyOf
  <2> QED BY <1>1, <2>1, NotOfRefused
<1>4. ASSUME NEW n \in 0..MaxBody, NEW more \in BOOLEAN, Receive(r, n, more)
      PROVE  DeclaredInv'
  <2>1. PICK all, over, keep, pc :
           /\ all = task[r].received + n /\ over = (all > MaxBody)
           /\ keep = IF all > MaxBody THEN task[r].kept ELSE all
           /\ pc = IF more /\ all <= MaxBody THEN "reading" ELSE "routes"
    OBVIOUS
  <2>2. task' = [task EXCEPT ![r] = [task[r] EXCEPT !.received = all, !.exceeded = over,
                                                    !.kept = keep, !.pc = pc]]
    BY <1>4, <2>1 DEF Receive
  <2>3. out' = out
    BY <1>4 DEF Receive
  <2> QED BY <1>2, <1>3, <2>2, <2>3
<1>5. CASE Disconnect(r)
  <2>1. task' = [task EXCEPT ![r] = [task[r] EXCEPT !.gone = TRUE, !.pc = "routes"]]
    BY <1>5, Zenon DEF Disconnect
  <2> QED BY <1>2, <1>3, <1>5, <2>1 DEF Disconnect
<1>6. CASE Handle(r)
  <2>1. task' = [task EXCEPT ![r] = [task[r] EXCEPT !.handled = TRUE, !.pc = "handling"]]
    BY <1>6, Zenon DEF Handle
  <2> QED BY <1>2, <1>3, <1>6, <2>1 DEF Handle
<1>7. CASE Respond(r)
  <2>1. PICK status : RouteSends(r, Start(status, "routes"), "started")
    BY <1>7 DEF Respond
  <2>2. \E t : task' = [task EXCEPT ![r] = t]
    BY <2>1, RouteStarts
  <2>3. \E o : out' = [out EXCEPT ![r] = o]
    BY <2>1 DEF RouteSends
  <2> QED BY <1>3, <2>2, <2>3
<1>8. CASE Finish(r)
  <2>1. task[r].started /\ RouteSends(r, Body(task[r].status), "returning")
    BY <1>8 DEF Finish, At, IInvOfStack, ResponseOK
  <2>2. task[r] \in Tasks
    BY <1>2
  <2>3. \E t : task' = [task EXCEPT ![r] = t]
    <3>1. task' = [task EXCEPT ![r] = [task[r] EXCEPT !.started = TRUE, !.pc = "returning"]]
      BY <2>1, <2>2, RouteEnds, ZenonT(60)
    <3> QED BY <3>1
  <2>4. \E o : out' = [out EXCEPT ![r] = o]
    BY <2>1 DEF RouteSends
  <2> QED BY <1>3, <2>3, <2>4
<1>9. CASE Raise500(r)
  <2>1. /\ \E t : task' = [task EXCEPT ![r] = t]
        /\ \E o : out' = [out EXCEPT ![r] = o]
    BY <1>1, <1>9, FailsAlone DEF Raise500
  <2> QED BY <1>3, <2>1
<1> QED BY <1>4, <1>5, <1>6, <1>7, <1>8, <1>9

\* A request whose body is declared too long is never let in, and sent nothing but its
\* refusal (security_headers.py:93-111).
THEOREM DeclaredRefused == Spec => []DeclaredInv
<1>1. Init => DeclaredInv
  <2>1. NoScope.length # "too long"
    BY DEF NoScope
  <2>2. Init => \A r \in Requests : scope[r] = NoScope
    BY DEF Init
  <2> QED BY <2>1, <2>2 DEF DeclaredInv, RefusedAtOnce
<1>2. IInvOfStack /\ BudgetInv /\ DeclaredInv /\ [Next]_stackVars => DeclaredInv'
  <2> SUFFICES ASSUME IInvOfStack, BudgetInv, DeclaredInv, [Next]_stackVars PROVE DeclaredInv'
    OBVIOUS
  <2>1. TypeOK
    BY DEF IInvOfStack
  <2>2. CASE TickStack \/ UNCHANGED stackVars
    BY <2>2 DEF TickStack, stackVars, DeclaredInv
  <2>3. ASSUME NEW r \in Requests, NEW s \in Scopes, Arrive(r, s)
        PROVE  DeclaredInv'
    BY <2>3, RefusedOnArrival
  <2>4. ASSUME NEW r \in Requests, Send(r) \/ Return(r)
        PROVE  DeclaredInv'
    BY <2>1, <2>4, RefusedSends, RefusedReturns
  <2>5. ASSUME NEW r \in Requests,
               \/ \E n \in 0..MaxBody, more \in BOOLEAN : Receive(r, n, more)
               \/ Disconnect(r) \/ Handle(r) \/ Respond(r) \/ Finish(r) \/ Raise500(r)
        PROVE  DeclaredInv'
    BY <2>5, RefusedElsewhere
  <2> QED BY <2>2, <2>3, <2>4, <2>5 DEF Next, Proceed
<1> QED BY <1>1, <1>2, BudgetCounts, StackInvariance, PTL DEF Spec

\* Bodies over max_body_bytes are refused (security_headers.py:6-7, 93-139): one that is
\* declared too long is answered 413, or 415 for its type, and never reaches the routes
\* or the budget; one found too long while it is read is answered 413 unless the routes
\* raise; and nothing else is answered 413.
THEOREM TooLongRefused == Spec => []TooLongIsRefused
<1>1. IInvOfStack /\ DeclaredInv => TooLongIsRefused
  <2> SUFFICES ASSUME IInvOfStack, DeclaredInv, NEW r \in Requests
               PROVE  /\ scope[r].length = "too long" => ~task[r].entered
                      /\ Answered(r) =>
                           /\ scope[r].length = "too long" =>
                                StatusSent(r) = IF scope[r].type = "json" THEN 413 ELSE 415
                           /\ task[r].exceeded =>
                                StatusSent(r) = 413 \/ (task[r].error /\ StatusSent(r) = 500)
                           /\ StatusSent(r) = 413 =>
                                task[r].received > MaxBody \/ scope[r].length = "too long"
    BY DEF TooLongIsRefused
  <2>1. scope[r].length = "too long" => ~task[r].entered /\ Says(wire[r], RefusalOf(scope[r]))
    BY DEF DeclaredInv, RefusedAtOnce
  <2> SUFFICES ASSUME Answered(r)
               PROVE  /\ scope[r].length = "too long" =>
                           StatusSent(r) = IF scope[r].type = "json" THEN 413 ELSE 415
                      /\ task[r].exceeded =>
                           StatusSent(r) = 413 \/ (task[r].error /\ StatusSent(r) = 500)
                      /\ StatusSent(r) = 413 =>
                           task[r].received > MaxBody \/ scope[r].length = "too long"
    BY <2>1
  <2>2. wire[r] # <<>> /\ wire[r] \in Seq(Messages)
    BY AnsweredGot DEF IInvOfStack, TypeOK
  <2>3. scope[r].length = "too long" =>
           StatusSent(r) = IF scope[r].type = "json" THEN 413 ELSE 415
    <3>1. 1 \in 1..Len(wire[r])
      BY <2>2
    <3> QED BY <2>1, <3>1 DEF Says, RefusalOf, StatusSent
  <2>4. PICK h \in Messages :
           /\ Suits(task[r], scope[r], h)
           /\ wire[r][1] = h
           /\ task[r].exceeded => task[r].received > MaxBody
    BY <2>2, WhatIsSeen
  <2>5. StatusSent(r) = h.status
    BY <2>4 DEF StatusSent
  <2>6. /\ h.status = 413 => task[r].exceeded \/ scope[r].length = "too long"
        /\ task[r].exceeded => h.status = 413 \/ (task[r].error /\ h.status = 500)
    BY <2>4, Zenon DEF Suits
  <2>7. task[r].exceeded => StatusSent(r) = 413 \/ (task[r].error /\ StatusSent(r) = 500)
    BY <2>5, <2>6, ZenonT(60)
  <2>8. StatusSent(r) = 413 => task[r].received > MaxBody \/ scope[r].length = "too long"
    BY <2>4, <2>5, <2>6, Zenon
  <2> QED BY <2>3, <2>7, <2>8
<1> QED BY <1>1, StackInvariance, DeclaredRefused, PTL

=============================================================================
