---------------------------- MODULE ProviderCalls ----------------------------
(***************************************************************************)
(* generate of the two providers (app/services/providers.py) on top of the *)
(* model selection: which model a call goes to, the cap on the tokens of   *)
(* its answer and the second post without a cap, and what each outcome     *)
(* tells the selector about the model.                                     *)
(*                                                                         *)
(* A post is one await, and the step that receives its answer also starts  *)
(* the next post or ends the call.  What the upstream answers is open, but *)
(* for the Thinking models, which are sound: they spend any cap on their   *)
(* reasoning, and do well without one.  A 4xx that says nothing of the     *)
(* model (of the account, say) is not among their answers: the code        *)
(* denylists for it as for any other.  A sound model that was cut off may  *)
(* answer with an empty or a null content, or, if it is Bare, with no      *)
(* content at all: the body is looked at before the reason it ended for.   *)
(* Such answers are OpenRouter's; of Gemini a message without content is   *)
(* an empty one (providers.py:349-350).                                    *)
(***************************************************************************)
EXTENDS ModelSelector

CONSTANTS
    DefaultModel,   \* default_model
    CappedModes,    \* the modes with direct_max_tokens or detailed_max_tokens above 0
    Thinking,       \* models that only answer without a cap
    Bare            \* those of them whose message has no content key when they are cut off

ASSUME CallAssumption ==
    /\ DefaultModel # NoModel
    /\ CappedModes \subseteq Modes
    /\ Thinking \subseteq Models
    /\ Bare \subseteq Thinking

VARIABLES
    call,       \* the post each caller waits for
    uncapped    \* self._uncapped_models of each provider

callVars == <<vars, call, uncapped>>

NoCall == [provider |-> "none", model |-> NoModel, auto |-> FALSE, capped |-> FALSE]

CallInit ==
    /\ Init
    /\ call = [c \in Callers |-> NoCall]
    /\ uncapped = {}

-----------------------------------------------------------------------------
(* _resolve_model and the first post *)

\* Mutant of Capped: what has been learnt of the model is not looked at.
CappedAlways(p, id, m) == m \in CappedModes

Capped(p, id, m) == m \in CappedModes /\ <<p, id>> \notin uncapped

Start(c, p, m, id, auto) ==
    call' = [call EXCEPT ![c] = [provider |-> p, model |-> id, auto |-> auto,
                                 capped |-> Capped(p, id, m)]]

\* The model is the client's, or the one configured for the mode.
GenerateGiven(c, p, m, id) ==
    /\ Idle(c) /\ call[c] = NoCall
    /\ Start(c, p, m, id, FALSE)
    /\ UNCHANGED <<vars, uncapped>>

\* get_model has returned: its model if there is one, else the default.
StartSelected(c) ==
    LET id == model'[c] IN
    IF pc'[c] # "using" THEN UNCHANGED call
    ELSE IF id # NoModel THEN Start(c, asks'[c][1], asks'[c][2], id, TRUE)
    ELSE Start(c, asks'[c][1], asks'[c][2], DefaultModel, FALSE)

GenerateAsks(c) ==
    /\ call[c] = NoCall
    /\ Ask(c)
    /\ StartSelected(c)
    /\ UNCHANGED uncapped

GenerateWakes(c) ==
    /\ Wake(c)
    /\ StartSelected(c)
    /\ UNCHANGED uncapped

GenerateFetched(c) ==
    /\ FetchEnds(c)
    /\ StartSelected(c)
    /\ UNCHANGED uncapped

-----------------------------------------------------------------------------
(* The answer to a post *)

Posting(c) == call[c] # NoCall
Key(c) == <<call[c].provider, call[c].model>>
Sound(c) == call[c].model \in Thinking
CutBare(c) == call[c].capped /\ call[c].model \in Bare

Over(c) == call' = [call EXCEPT ![c] = NoCall]

\* The call ends and tells the selector nothing.
Ends(c) ==
    /\ Over(c)
    /\ IF pc[c] = "using" THEN Works(c) ELSE UNCHANGED vars

\* Mutant of Condemns: the model is denylisted wherever it came from.
CondemnsAny(c) ==
    /\ Over(c)
    /\ IF pc[c] = "using" /\ model[c] # NoModel
         THEN MarkBad(c)
         ELSE /\ denylist' = denylist \cup {Key(c)}
              /\ UNCHANGED <<now, booting, selection, fetchedAt, lock, pc, asks, model, owed, endedAt>>

\* _mark_bad_if_auto, and a permanent error.
Condemns(c) == IF call[c].auto THEN Over(c) /\ MarkBad(c) ELSE Ends(c)

\* Text, cut short or not when there was no cap.
Answers(c) ==
    /\ Posting(c)
    /\ Sound(c) => ~call[c].capped
    /\ Ends(c)
    /\ UNCHANGED uncapped

\* A timeout, a transport error, 429 or 5xx.
FailsForNow(c) ==
    /\ Posting(c)
    /\ Ends(c)
    /\ UNCHANGED uncapped

\* Any other status than 200, a malformed body (cut off or not: that is looked at
\* afterwards), or an answer without text.
FailsForGood(c) ==
    /\ Posting(c)
    /\ Sound(c) => CutBare(c)
    /\ Condemns(c)
    /\ UNCHANGED uncapped

\* The answer was cut off by our cap: the model is noted, and asked again without.
Truncated(c) ==
    /\ Posting(c)
    /\ call[c].capped
    /\ uncapped' = uncapped \cup {Key(c)}
    /\ call' = [call EXCEPT ![c].capped = FALSE]
    /\ UNCHANGED vars

\* Mutant of ThinksInVain: no text means a useless model.
ThinksInVainCondemned(c) == Condemns(c)

ThinksInVain(c) == Ends(c)

\* No text, and the limit that was reached is the model's own.
EmptyTruncated(c) ==
    /\ Posting(c)
    /\ ~call[c].capped
    /\ ThinksInVain(c)
    /\ UNCHANGED uncapped

\* A part, a content or a usage that is not an object: AttributeError, which no except
\* clause of generate names.
Escapes(c) ==
    /\ Posting(c)
    /\ Sound(c) => CutBare(c)
    /\ Ends(c)
    /\ UNCHANGED uncapped

CallTick == Tick /\ UNCHANGED <<call, uncapped>>
CallBoot(p) == Boot(p) /\ UNCHANGED <<call, uncapped>>

PostEnds(c) ==
    Answers(c) \/ FailsForNow(c) \/ FailsForGood(c) \/ Truncated(c) \/ EmptyTruncated(c) \/ Escapes(c)

CallNext ==
    \/ CallTick
    \/ \E p \in Providers : CallBoot(p)
    \/ \E c \in Callers :
          \/ \E p \in Providers, m \in Modes, id \in Models : GenerateGiven(c, p, m, id)
          \/ GenerateAsks(c) \/ GenerateWakes(c) \/ GenerateFetched(c)
          \/ PostEnds(c)

\* A post has a timeout, as a fetch has, and the loop runs a woken task.
CallFairness ==
    \A c \in Callers :
        WF_callVars(GenerateWakes(c)) /\ WF_callVars(GenerateFetched(c)) /\ WF_callVars(PostEnds(c))

CallSpec == CallInit /\ [][CallNext]_callVars /\ CallFairness

-----------------------------------------------------------------------------
(* Properties *)

CallTypeOK ==
    /\ call \in [Callers -> [provider : Providers, model : Models \cup {DefaultModel},
                             auto : BOOLEAN, capped : BOOLEAN] \cup {NoCall}]
    /\ uncapped \in SUBSET (Providers \X (Models \cup {DefaultModel}))

\* The providers use the selector as it is meant to be used: every step of theirs is
\* one of its own, so all that is proved of it holds, and only a model it has given
\* out is ever reported to it.
UsesSelector == Spec

\* "A culpa e do nosso limite, nao do modelo" (providers.py:184-186): a model that does
\* well without a cap, and whose answers have a content even when they are cut off (an
\* empty or a null one will do), is never denylisted, whoever asks it first and however
\* many capped and uncapped posts to it are under way.
SoundIsNotDenied ==
    \A p \in Providers, id \in Thinking \ Bare : <<p, id>> \notin denylist

\* "Economiza uma ida ao provider por request" (providers.py:163-164): once a model is
\* known to be cut off by the cap, no further capped post to it starts; those of the
\* calls that began before are all that is wasted.
WasteOnlyShrinks ==
    [][\A key \in uncapped :
         {c \in Callers : call'[c].capped /\ <<call'[c].provider, call'[c].model>> = key}
           \subseteq {c \in Callers : call[c].capped /\ Key(c) = key}]_callVars

-----------------------------------------------------------------------------
(* What the documentation says and the code does not do *)

\* "A culpa e do nosso limite, nao do modelo" (providers.py:186), of every model that
\* only answers without a cap: what the cap did to it is never held against it.  But the
\* content of the message is looked for (221-227) before the reason the answer ended for
\* (228), and a cut answer without that key denylists the model.
CutOffIsNotBlamed ==
    \A p \in Providers, id \in Thinking : <<p, id>> \notin denylist

=============================================================================
