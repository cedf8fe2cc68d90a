---------------------------- MODULE ModelClients ----------------------------
(***************************************************************************)
(* One language model provider and its callers (extractor/providers/llm):  *)
(* Anthropic, Gemini and DeepSeek send a request up to three times; those  *)
(* on the OpenAI library and Ollama send it once.                          *)
(*                                                                         *)
(* The service is external: it answers, or fails in one of the ways the    *)
(* clients tell apart.  They decide by the text of the error, which shows  *)
(* the status only if the body of the reply is not one they understand.    *)
(***************************************************************************)
EXTENDS Naturals, Sequences, FiniteSets

CONSTANTS
  Speaker,     \* the goroutines that call it
  Mixed,       \* a name read while it was written
  MaxAttempts, \* maxRetries of sendRequest
  TalkPlans    \* what they may do: [kind, model, calls, ends]

ASSUME ModelClientsAssumption == MaxAttempts \in Nat \ {0}

VARIABLES
  llm,         \* the object: [kind, model]
  talk,        \* the call each speaker is in
  said,        \* what is left of the plan: [calls, ends]
  held         \* history: the names the object had during each call
talkVars == <<llm, talk, said, held>>

\* A failure with a status: what the reply says (its body names one of the
\* patterns of retry.go, or does not) in a form the client reads or not.  The
\* statuses of a server are those whose text has a pattern (500, 502, 503, 504);
\* the others, 429 among them, have none.
Refusal == [status : {"server", "client"}, names : BOOLEAN, readable : BOOLEAN]
Unanswered(why) == [status |-> why, names |-> FALSE, readable |-> FALSE]
Failure == Refusal \cup {Unanswered(why) : why \in {"reset", "unreachable", "empty"}}

\* model: that of the request.  to: the model each attempt was sent to.  last:
\* how the last one failed.  over: the caller's context has ended; late: the
\* requests sent since.
Quiet == [op |-> "none", at |-> "idle", model |-> "none", to |-> <<>>, last |-> Unanswered("none"),
          over |-> FALSE, late |-> 0, out |-> "none"]

TalksAt(c, label) == talk[c].at = label
Talking(c, state) == talk' = [talk EXCEPT ![c] = state]
Hears(c, out) == Talking(c, [talk[c] EXCEPT !.at = "return", !.out = out])

-----------------------------------------------------------------------------
\* IsRetryableError: the error has the words of a rate limit, a timeout, a
\* server error or a broken connection.  DeepSeek's errors always have the
\* status, the others' only if the body cannot be read.
ShowsStatus(kind, failure) == kind = "deepseek" \/ ~failure.readable
IsRetryableByStatus(kind, failure) ==
  failure.status \in {"server", "reset"}
IsRetryable(kind, failure) ==
  \/ failure.names \/ failure.status = "reset"
  \/ failure.status = "server" /\ ShowsStatus(kind, failure)

Retrying == {"anthropic", "gemini", "deepseek"}
Attempts(c) == IF llm.kind \in Retrying /\ talk[c].op # "health" THEN MaxAttempts ELSE 1

\* The operations a client has: those it lacks fail at once.
Extracting == {"entities", "relationships", "custom"}
Lacks(kind, op) ==
  \/ kind \notin {"anthropic", "gemini"} /\ op \in Extracting \cup {"stream"}
  \/ kind \in {"deepseek", "ollama"} /\ op = "context"
\* Those whose answer has to parse.
Structured == Extracting \cup {"structured"}

\* The request names the model there is; Gemini's is in the address, which is
\* made for every attempt.
Requests(c) ==
  /\ TalksAt(c, "request")
  /\ IF Lacks(llm.kind, talk[c].op) THEN Hears(c, "failed")
     ELSE Talking(c, [talk[c] EXCEPT !.model = llm.model, !.at = "send"])
  /\ UNCHANGED llm

Addressee(c) == IF llm.kind = "gemini" THEN llm.model ELSE talk[c].model

\* Nobody answers for a mixed name.
Sends(c) ==
  /\ TalksAt(c, "send")
  /\ LET state == [talk[c] EXCEPT !.to = Append(@, Addressee(c)),
                                  !.late = IF talk[c].over THEN @ + 1 ELSE @]
     IN  \/ /\ ~talk[c].over /\ Addressee(c) # Mixed
            /\ \E parses \in {TRUE, talk[c].op \notin Structured} :
                 Talking(c, [state EXCEPT !.at = "return", !.out = IF parses THEN "answer" ELSE "unparsed"])
         \/ \E failure \in IF talk[c].over THEN {Unanswered("cancelled")} ELSE Failure :
              Talking(c, [state EXCEPT !.last = failure, !.at = "failed"])
  /\ UNCHANGED llm

Retries(c) ==
  /\ TalksAt(c, "failed")
  /\ IF IsRetryable(llm.kind, talk[c].last) /\ Len(talk[c].to) < Attempts(c)
     THEN Talking(c, [talk[c] EXCEPT !.at = "backoff"])
     ELSE Hears(c, "failed")
  /\ UNCHANGED llm

\* The timer, or the end of the context.
WaitsOut(c) ==
  /\ TalksAt(c, "backoff")
  /\ \/ Talking(c, [talk[c] EXCEPT !.at = "send", !.last = Unanswered("none")])
     \/ talk[c].over /\ Hears(c, "cancelled")
  /\ UNCHANGED llm

-----------------------------------------------------------------------------
\* SetModel and the model of Configure: a string is written in two words,
\* which the requests read without a lock.
RenamesHalf(c) ==
  /\ TalksAt(c, "setmodel")
  /\ llm' = [llm EXCEPT !.model = Mixed]
  /\ Talking(c, [talk[c] EXCEPT !.at = "renamed"])

Renames(c) ==
  /\ TalksAt(c, "renamed")
  /\ llm' = [llm EXCEPT !.model = talk[c].model]
  /\ Hears(c, "answer")

TalkBegins(c) ==
  /\ TalksAt(c, "idle") /\ said.calls[c] # <<>>
  /\ LET next == Head(said.calls[c])
     IN  Talking(c, [Quiet EXCEPT !.op = next.op, !.model = next.model,
                       !.at = IF next.op = "setmodel" THEN "setmodel" ELSE "request"])
  /\ said' = [said EXCEPT !.calls[c] = Tail(@)]
  /\ held' = [held EXCEPT ![c] = {llm.model}] /\ UNCHANGED llm

TalkReturns(c) ==
  /\ TalksAt(c, "return") /\ Talking(c, Quiet)
  /\ UNCHANGED <<llm, said, held>>

\* The caller's context ends.
ContextEnds(c) ==
  /\ said.ends > 0 /\ talk[c].at \notin {"idle", "return"} /\ ~talk[c].over
  /\ said' = [said EXCEPT !.ends = @ - 1]
  /\ Talking(c, [talk[c] EXCEPT !.over = TRUE])
  /\ UNCHANGED <<llm, held>>

TalkStep(c) ==
  \/ TalkBegins(c) \/ TalkReturns(c)
  \/ /\ Requests(c) \/ Sends(c) \/ Retries(c) \/ WaitsOut(c) \/ RenamesHalf(c) \/ Renames(c)
     /\ held' = [s \in Speaker |-> held[s] \cup {llm'.model}]
     /\ UNCHANGED said

TalkInit(plan) ==
  /\ llm = [kind |-> plan.kind, model |-> plan.model]
  /\ talk = [c \in Speaker |-> Quiet] /\ held = [c \in Speaker |-> {}]
  /\ said = [calls |-> plan.calls, ends |-> plan.ends]

TalkNext == \E c \in Speaker : TalkStep(c) \/ ContextEnds(c)
TalkSpec == (\E plan \in TalkPlans : TalkInit(plan)) /\ [][TalkNext]_talkVars

-----------------------------------------------------------------------------
\* An answer comes from a model the object was set to during the call; except
\* with Gemini, whose address is made again, all attempts go to one.
AnswersAreOwn ==
  \A c \in Speaker :
    /\ talk[c].out \in {"answer", "unparsed"} /\ talk[c].op # "setmodel" =>
         talk[c].to[Len(talk[c].to)] \in held[c] \ {Mixed}
    /\ llm.kind # "gemini" => \A k \in DOMAIN talk[c].to : talk[c].to[k] = talk[c].model

\* retry.go:15: "Retry on rate limits, timeouts, and server errors": a call
\* gives up early only on an error that does not show as one of them, and
\* DeepSeek's client never on a server error.
GivesUpForCause ==
  \A c \in Speaker :
    /\ Len(talk[c].to) <= MaxAttempts
    /\ talk[c].out = "failed" /\ talk[c].to # <<>> /\ Len(talk[c].to) < Attempts(c) =>
         /\ talk[c].last.status # "reset" /\ ~talk[c].last.names
         /\ llm.kind = "deepseek" => talk[c].last.status # "server"

\* When the caller's context has ended at most one more request is sent, and
\* nothing is asked or answered after it.
StopsWhenOver == \A c \in Speaker : talk[c].late <= 1 /\ (talk[c].late = 1 => talk[c].out # "answer")
=============================================================================
