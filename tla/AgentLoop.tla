------------------------------ MODULE AgentLoop ------------------------------
(***************************************************************************)
(* One run of the ReAct loop (agent/loop.py) with its streaming tool       *)
(* executor, permissions, recovery ladder and context compression.         *)
(*                                                                         *)
(* Read tools run in threads while the model still streams; write tools    *)
(* are queued and run one after the other when the response is complete.   *)
(* A call is known by its key, the tool's name and primary argument; the   *)
(* text of messages is left out, and user messages with it.                *)
(***************************************************************************)
EXTENDS Naturals, Sequences, FiniteSets

CONSTANTS
  Reads, Writes,   \* keys of calls to read-only tools, to other registered tools
  Unknown,         \* keys of calls to tools the registry does not have
  KeepLast,        \* results of read tools that micro_compact keeps, 3 in the code
  MaxIterations,   \* AgentConfig.max_iterations
  MaxCalls         \* bound on the calls the model makes in the run

Keys == Reads \union Writes \union Unknown

ASSUME AgentAssumption ==
  /\ Reads \intersect Writes = {} /\ Unknown \intersect (Reads \union Writes) = {}
  /\ {KeepLast, MaxIterations, MaxCalls} \subseteq Nat

VARIABLES
  plan,       \* the permission mode is PLAN; the other modes differ in ALLOW and ASK only
  pc,         \* "iterate", "stream", "decide", "collect", "done"
  iteration,
  messages,   \* the conversation: system and assistant messages, tool results
  called,     \* memory.called_keys
  turn,       \* the calls of this response, in stream order, with the executor's view of them
  response,   \* how the stream ended
  pending,    \* indices of the calls whose results the loop waits for
  recovery,   \* how often each recovery action was taken
  answer,     \* the terminal reason of the answer
  ran         \* ran[k]: how often a call of key k was handed to the registry

vars == <<plan, pc, iteration, messages, called, turn, response, pending, recovery, answer, ran>>
-----------------------------------------------------------------------------
Errors == {"prompt_too_long", "max_output_tokens", "rate_limit", "model_error"}

(* How often evaluate_termination grants each recovery action in one run.   *)
Limit == [collapse_drain |-> 1, reactive_compact |-> 1, escalate_max_tokens |-> 1,
          inject_recovery_message |-> 3, continue_prompt |-> 2, retry_with_backoff |-> 3]

(* The recovery actions for an error, the cheapest first.                   *)
Ladder == [prompt_too_long |-> <<"collapse_drain", "reactive_compact">>,
           max_output_tokens |-> <<"escalate_max_tokens", "inject_recovery_message">>,
           empty_response |-> <<"continue_prompt">>,
           rate_limit |-> <<"retry_with_backoff">>,
           model_error |-> <<>>,
           none |-> <<>>]

CallId == (1 .. MaxIterations) \X (1 .. MaxCalls) \X Keys
Message == [role : {"system", "assistant"}, calls : SUBSET CallId]
Result == [role : {"tool"}, id : CallId, cleared : BOOLEAN]
Status == {"executing", "finished", "completed", "queued_write"}

NoResponse == [content |-> FALSE, error |-> "none"]

TypeOK ==
  /\ plan \in BOOLEAN
  /\ pc \in {"iterate", "stream", "decide", "collect", "done"}
  /\ iteration \in 0 .. MaxIterations
  /\ messages \in Seq(Message \union Result)
  /\ called \subseteq Keys
  /\ turn \in Seq([key : Keys, status : Status])
  /\ response \in [content : BOOLEAN, error : Errors \union {"none"}]
  /\ pending \subseteq DOMAIN turn
  /\ recovery \in [DOMAIN Limit -> 0 .. 3]
  /\ answer \in {"none", "completed", "prompt_too_long", "model_error", "bound"}
  /\ ran \in [Keys -> Nat]

Init ==
  /\ plan \in BOOLEAN
  /\ pc = "iterate"
  /\ iteration = 0
  /\ messages = <<[role |-> "system", calls |-> {}]>>
  /\ called = {} /\ turn = <<>> /\ pending = {}
  /\ response = NoResponse
  /\ recovery = [a \in DOMAIN Limit |-> 0]
  /\ answer = "none"
  /\ ran = [k \in Keys |-> 0]
-----------------------------------------------------------------------------
(* Compression of the conversation.                                         *)

IsResult(m) == m.role = "tool"

CallIds(ms) == UNION {ms[i].calls : i \in {j \in DOMAIN ms : ~IsResult(ms[j])}}

(* A loop that appends the members of a sequence at certain positions.      *)
Kept(s, keep) ==
  LET upTo[n \in 0 .. Len(s)] ==
        IF n = 0 THEN <<>>
        ELSE IF n \in keep THEN Append(upTo[n - 1], s[n]) ELSE upTo[n - 1]
  IN upTo[Len(s)]

(* Mutant: the pairs are not repaired. *)
KeepAllPairs(ms) == ms

(* _fix_tool_pairs: results whose call is not in the list are dropped.      *)
FixToolPairs(ms) == Kept(ms, {i \in DOMAIN ms : IsResult(ms[i]) => ms[i].id \in CallIds(ms)})

(* llm_compress: the head becomes one summary, a user message; the tail     *)
(* starts at an index that the token budget decides.  The summary may fail. *)
Compressed(ms) ==
  {ms} \union {FixToolPairs(SubSeq(ms, i, Len(ms))) : i \in 2 .. Len(ms)}

(* micro_compact: results of read tools are cleared but for the last ones.  *)
MicroCompact(ms) ==
  [i \in DOMAIN ms |->
     IF /\ IsResult(ms[i]) /\ ms[i].id[3] \in Reads
        /\ Cardinality({j \in DOMAIN ms : j > i /\ IsResult(ms[j]) /\ ms[j].id[3] \in Reads}) >= KeepLast
       THEN [ms[i] EXCEPT !.cleared = TRUE] ELSE ms[i]]

(* _preprocess_messages; truncation of long texts is left out, and whether  *)
(* the threshold of the summary is passed is a free choice.                 *)
Preprocessed(ms) == LET compact == MicroCompact(ms) IN {compact} \union Compressed(compact)

-----------------------------------------------------------------------------
(* The head of an iteration: the two bounds, then compression.              *)
OutOfBounds ==
  /\ pc = "iterate"
  /\ \/ iteration >= MaxIterations
     \/ iteration > 0      \* timeout_seconds have passed
  /\ pc' = "done" /\ answer' = "bound"
  /\ UNCHANGED <<plan, iteration, messages, called, turn, response, pending, recovery, ran>>

(* Mutant: an iteration is not counted. *)
IterateUncounted ==
  /\ pc = "iterate" /\ iteration < MaxIterations
  /\ messages' \in Preprocessed(messages)
  /\ turn' = <<>> /\ pending' = {} /\ response' = NoResponse /\ pc' = "stream"
  /\ UNCHANGED <<plan, iteration, called, recovery, answer, ran>>

Iterate ==
  /\ pc = "iterate" /\ iteration < MaxIterations
  /\ iteration' = iteration + 1
  /\ messages' \in Preprocessed(messages)
  /\ turn' = <<>> /\ pending' = {} /\ response' = NoResponse /\ pc' = "stream"
  /\ UNCHANGED <<plan, called, recovery, answer, ran>>
-----------------------------------------------------------------------------
(* The stream of one model response.                                        *)
CallsMade == Cardinality(CallIds(messages)) + Len(turn)

(* The registry runs a call; an unknown tool, refused parameters, a         *)
(* cooldown and an exception of the tool are results like any other.        *)
Execute(k) == ran' = [ran EXCEPT ![k] = @ + 1]

(* get_completed_results after each event: finished futures are collected.  *)
Polled ==
  [i \in DOMAIN turn |->
     IF turn[i].status = "finished" THEN [turn[i] EXCEPT !.status = "completed"] ELSE turn[i]]

(* submit, when the arguments of a call parse: a read tool starts in the    *)
(* pool, any other waits for get_remaining_results.                         *)
Submit(k) ==
  /\ pc = "stream" /\ CallsMade < MaxCalls
  /\ turn' = Append(Polled, [key |-> k, status |-> IF k \in Reads THEN "executing"
                                                                   ELSE "queued_write"])
  /\ IF k \in Reads THEN Execute(k) ELSE UNCHANGED ran
  /\ UNCHANGED <<plan, pc, iteration, messages, called, response, pending, recovery, answer>>

(* The thread of a read tool ends, with a result or an error.               *)
Finish(i) ==
  /\ i \in DOMAIN turn /\ turn[i].status = "executing" /\ pc \in {"stream", "collect"}
  /\ turn' = [turn EXCEPT ![i].status = "finished"]
  /\ UNCHANGED <<plan, pc, iteration, messages, called, response, pending, recovery, answer, ran>>

(* The stream is complete, or it (or the call itself) raises: the content   *)
(* and the calls of a broken stream are lost, whatever was started.         *)
StreamEnds(content, error) ==
  /\ pc = "stream"
  /\ error # "none" => ~content
  /\ response' = [content |-> content, error |-> error]
  /\ turn' = Polled
  /\ pc' = "decide"
  /\ UNCHANGED <<plan, iteration, messages, called, pending, recovery, answer, ran>>
-----------------------------------------------------------------------------
(* What the loop makes of the response.                                     *)
Calls == IF response.error = "none" THEN DOMAIN turn ELSE {}

(* classify_error *)
ErrorType ==
  IF response.error # "none" THEN response.error
  ELSE IF response.content THEN "none" ELSE "empty_response"

(* evaluate_termination without tool calls: the first action of the ladder  *)
(* that is still granted, if any.                                           *)
Granted == {i \in DOMAIN Ladder[ErrorType] :
              recovery[Ladder[ErrorType][i]] < Limit[Ladder[ErrorType][i]]}
RecoveryAction == Ladder[ErrorType][CHOOSE i \in Granted : \A j \in Granted : i <= j]

(* execute_recovery; the executor is aborted and shut down.  A failure of   *)
(* reactive_compact falls through to the next iteration all the same.       *)
Recover ==
  /\ pc = "decide" /\ Calls = {} /\ Granted # {}
  /\ recovery' = [recovery EXCEPT ![RecoveryAction] = @ + 1]
  /\ messages' \in IF RecoveryAction = "reactive_compact" THEN Compressed(messages) ELSE {messages}
  /\ pc' = "iterate"
  /\ UNCHANGED <<plan, iteration, called, turn, response, pending, answer, ran>>

Answer(reason) ==
  /\ messages' = IF response.content THEN Append(messages, [role |-> "assistant", calls |-> {}])
                                     ELSE messages
  /\ answer' = reason
  /\ pc' = "done"

Stop ==
  /\ pc = "decide" /\ Calls = {} /\ Granted = {}
  /\ Answer(CASE ErrorType = "none" -> "completed"
              [] ErrorType = "prompt_too_long" -> "prompt_too_long"
              [] OTHER -> "model_error")
  /\ UNCHANGED <<plan, iteration, called, turn, response, pending, recovery, ran>>

(* The calls whose key is new, in this response and in the run.             *)
Fresh == {i \in Calls : /\ turn[i].key \notin called
                        /\ \A j \in Calls : j < i => turn[j].key # turn[i].key}

(* Only repeated calls: their content is the answer, or the loop goes on    *)
(* after a message that tells the model to use what it has.                 *)
OnlyRepeated ==
  /\ pc = "decide" /\ Calls # {} /\ Fresh = {}
  /\ IF response.content THEN Answer("completed")
       ELSE pc' = "iterate" /\ UNCHANGED <<messages, answer>>
  /\ UNCHANGED <<plan, iteration, called, turn, response, pending, recovery, ran>>

(* The tools that discovery registers: those that are available and allowed.*)
Registered == Reads \union Writes

(* PermissionManager.check: ALLOW and ASK are both executed.                *)
Denied(k) == k \notin Registered \/ (plan /\ k \in Writes)

(* A call: its response, its place in the stream, its key.                  *)
Id(i) == <<iteration, i, turn[i].key>>

(* The assistant message holds the denied calls too; without an allowed     *)
(* call the next iteration begins.                                          *)
Dispatch ==
  /\ pc = "decide" /\ Fresh # {}
  /\ called' = called \union {turn[i].key : i \in Fresh}
  /\ messages' = Append(messages, [role |-> "assistant", calls |-> {Id(i) : i \in Fresh}])
  /\ pending' = {i \in Fresh : ~Denied(turn[i].key)}
  /\ pc' = IF pending' = {} THEN "iterate" ELSE "collect"
  /\ UNCHANGED <<plan, iteration, turn, response, recovery, answer, ran>>
-----------------------------------------------------------------------------
(* get_remaining_results                                                    *)
Queued == {i \in DOMAIN turn : turn[i].status = "queued_write"}

(* Mutant: the reads are not waited for. *)
RunWriteAtOnce ==
  /\ pc = "collect" /\ Queued # {}
  /\ LET i == CHOOSE j \in Queued : \A l \in Queued : j <= l
     IN /\ turn' = [turn EXCEPT ![i].status = "completed"]
        /\ Execute(turn[i].key)
  /\ UNCHANGED <<plan, pc, iteration, messages, called, response, pending, recovery, answer>>

(* The reads have ended: the next queued call runs, whether it was denied,  *)
(* repeated or allowed.  An unknown tool is an error result.                *)
RunWrite ==
  /\ pc = "collect" /\ Queued # {}
  /\ \A i \in DOMAIN turn : turn[i].status # "executing"
  /\ LET i == CHOOSE j \in Queued : \A l \in Queued : j <= l
     IN /\ turn' = [turn EXCEPT ![i].status = "completed"]
        /\ Execute(turn[i].key)
  /\ UNCHANGED <<plan, pc, iteration, messages, called, response, pending, recovery, answer>>

Results(is) ==
  Kept([i \in DOMAIN turn |-> [role |-> "tool", id |-> Id(i), cleared |-> FALSE]], is)

(* Every call of the response has its result: those of the allowed ones     *)
(* are appended, each found by its index in the stream.                     *)
Collect ==
  /\ pc = "collect"
  /\ \A i \in DOMAIN turn : turn[i].status \in {"finished", "completed"}
  /\ messages' = messages \o Results(pending)
  /\ pc' = "iterate"
  /\ UNCHANGED <<plan, iteration, called, turn, response, pending, recovery, answer, ran>>
-----------------------------------------------------------------------------
Next ==
  \/ OutOfBounds \/ Iterate
  \/ \E k \in Keys : Submit(k)
  \/ \E i \in 1 .. MaxCalls : Finish(i)
  \/ \E content \in BOOLEAN, error \in Errors \union {"none"} : StreamEnds(content, error)
  \/ Recover \/ Stop \/ OnlyRepeated \/ Dispatch
  \/ RunWrite \/ Collect

Spec == Init /\ [][Next]_vars

(* The loop's own thread goes on, a stream ends and a tool returns.         *)
Loop == OutOfBounds \/ Iterate \/ Recover \/ Stop \/ OnlyRepeated \/ Dispatch \/ RunWrite \/ Collect
FairSpec ==
  /\ Spec
  /\ WF_vars(Loop)
  /\ WF_vars(\E content \in BOOLEAN, error \in Errors \union {"none"} : StreamEnds(content, error))
  /\ \A i \in 1 .. MaxCalls : WF_vars(Finish(i))
-----------------------------------------------------------------------------
(* A model refuses a conversation with a result that has no call or an      *)
(* allowed call that has no result.  Whatever compression cuts off, each    *)
(* result follows its call, and once the loop has collected a response each *)
(* call that it allowed is followed by its result (loop.py, compression.py).*)
EveryCallAnswered ==
  /\ \A i \in DOMAIN messages : IsResult(messages[i]) =>
       \E j \in 1 .. i - 1 : ~IsResult(messages[j]) /\ messages[i].id \in messages[j].calls
  /\ pc # "collect" => \A id \in CallIds(messages) :
       Denied(id[3]) \/ \E i \in DOMAIN messages : IsResult(messages[i]) /\ messages[i].id = id

(* A tool that writes runs only when the response that asks for it arrived  *)
(* complete, some call of it passed the permission check, and every read    *)
(* tool it started has ended.                                               *)
WritesRunLast ==
  [][\A k \in Writes : ran'[k] # ran[k] =>
       /\ response.error = "none" /\ pending # {}
       /\ \A i \in DOMAIN turn : turn[i].key \in Reads => turn[i].status \in {"finished", "completed"}]_vars

(* However the model fails, and whatever it calls, the run ends.            *)
RunEnds == <>(pc = "done")
=============================================================================
