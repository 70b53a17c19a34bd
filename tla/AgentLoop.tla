----------------------------- MODULE AgentLoop -----------------------------
(***************************************************************************)
(* The AI agent loop (crates/dbx-core/src/agent_loop.rs): run_agent_loop,  *)
(* its context compaction and its text-only fallback, racing against Stop. *)
(*                                                                         *)
(* A run sends the conversation and the tools to the model, runs the tool  *)
(* calls of the answer, appends their results and asks again, for at most  *)
(* MaxTurns turns.  Stop is tokio's Notify: one permit that stays until    *)
(* some await or poll of `cancelled` takes it.  The run is one task:       *)
(*   support -> turn -> plan -> [summarize -> summary ->] request -> stream *)
(*     -> toolCheck -> parallel -> sequential -> turn ...                  *)
(*   schema -> textCheck -> text           (the text-only fallback)        *)
(* Token estimates only decide whether and where the conversation is cut,  *)
(* and are left to choice.  The runs of the command-line agents (CodexCli, *)
(* ClaudeCodeCli, PiAgentCli) are other programs and are not modelled.     *)
(***************************************************************************)
EXTENDS Naturals, Sequences, FiniteSets

CONSTANTS
  CallIds,    \* tool call ids the model uses (it may use one again later)
  MaxTurns,   \* max_agent_turns
  MaxRepairs  \* MAX_CONTRACT_REPAIR_ATTEMPTS

ASSUME AgentLoopAssumption ==
  /\ CallIds \subseteq Nat \ {0} /\ IsFiniteSet(CallIds)
  /\ MaxTurns \in Nat \ {0}
  /\ MaxRepairs \in Nat

VARIABLES
  stage,    \* where the run is
  turn,     \* the turn, from 0
  attempt,  \* 0, or 1 after a context-length error
  messages, \* conversation_messages
  repairs,  \* contract_repair_attempts, attempt in the text-only fallback
  running,  \* tool calls of the turn that have not been executed
  permit,   \* the permit of `cancelled`
  stopped,  \* has the user asked to stop?  (no counterpart in the code)
  late,     \* what the run has begun after that (no counterpart in the code)
  outcome   \* how the run ended

runVars == <<stage, turn, attempt, messages, repairs, running, permit, stopped, late, outcome>>

User == [role |-> "user", calls |-> {}, of |-> 0]
Assistant(cs) == [role |-> "assistant", calls |-> cs, of |-> 0]
Tool(c) == [role |-> "tool", calls |-> {}, of |-> c]
Messages == {User} \cup {Assistant(cs) : cs \in SUBSET CallIds} \cup {Tool(c) : c \in CallIds}

Stages == {"support", "turn", "plan", "summarize", "summary", "request", "stream",
        "toolCheck", "parallel", "sequential", "schema", "textCheck", "text", "done"}
Outcomes == {"none", "completed", "cancelled", "interrupted", "exhausted", "failed"}

(***************************************************************************)
(* Type correctness of the run and its conversation.                       *)
(***************************************************************************)
RunTypeOK ==
  /\ stage \in Stages
  /\ turn \in 0..MaxTurns
  /\ attempt \in 0..1
  /\ messages \in Seq(Messages)
  /\ repairs \in 0..MaxRepairs
  /\ running \subseteq CallIds
  /\ permit \in BOOLEAN
  /\ stopped \in BOOLEAN
  /\ late \subseteq {"summary", "stream", "tool", "text"}
  /\ outcome \in Outcomes

\* A run starts with the user's question, alone or after an earlier exchange.
RunInit ==
  /\ stage = "support"
  /\ turn = 0
  /\ attempt = 0
  /\ messages \in {<<User>>, <<User, Assistant({}), User>>}
  /\ repairs = 0
  /\ running = {}
  /\ permit = FALSE
  /\ stopped = FALSE
  /\ late = {}
  /\ outcome = "none"

-----------------------------------------------------------------------------
Finish(o) == stage' = "done" /\ outcome' = o

\* The run begins something the user would want to stop.
Begin(what) == late' = IF stopped THEN late \cup {what} ELSE late

\* cancelled.notified().now_or_never() is Some, or an await of it wins.
TakePermit == permit /\ permit' = FALSE

\* The user stops the run: cancel_stream, notify_one.
Stop ==
  /\ stage # "done"
  /\ permit' = TRUE
  /\ stopped' = TRUE
  /\ UNCHANGED <<stage, turn, attempt, messages, repairs, running, late, outcome>>

\* A place of the run where a stop ends it: a poll before a step, or the select
\* around an await.
StopHonoured ==
  /\ stage \in {"support", "turn", "summarize", "summary", "request", "stream",
             "toolCheck", "textCheck", "text"}
  /\ stage = "turn" => turn < MaxTurns
  /\ TakePermit
  /\ Finish("cancelled")
  /\ UNCHANGED <<turn, attempt, messages, repairs, running, stopped, late>>

-----------------------------------------------------------------------------
\* provider_function_calling_support: tools, or none (the text-only fallback).
SupportKnown ==
  /\ stage = "support"
  /\ stage' \in {"turn", "schema"}
  /\ UNCHANGED <<turn, attempt, messages, repairs, running, permit, stopped, late, outcome>>

\* The head of a turn: the limit, then the poll of `cancelled` (StopHonoured).
Turn ==
  /\ stage = "turn"
  /\ turn < MaxTurns
  /\ ~permit
  /\ attempt' = 0
  /\ stage' = "plan"
  /\ UNCHANGED <<turn, messages, repairs, running, permit, stopped, late, outcome>>

Exhausted ==
  /\ stage = "turn"
  /\ turn = MaxTurns
  /\ Finish("exhausted")
  /\ UNCHANGED <<turn, attempt, messages, repairs, running, permit, stopped, late>>

-----------------------------------------------------------------------------
(* maybe_compact.  Indices are those of the code, from 0.                  *)

\* find_originating_assistant: the last assistant message before the tool message
\* that made its call.
Origins(i) == {j \in 0..(i - 1) : /\ messages[j + 1].role = "assistant"
                                  /\ messages[i + 1].of \in messages[j + 1].calls}

\* A mistaken cut between a tool call and its result.
PlainCut(c) == c

\* adjust_cut_for_tool_pair_integrity: a cut at a tool result moves back to the
\* message that called for it.
AdjustedCut(c) ==
  IF messages[c + 1].role = "tool" /\ Origins(c) # {}
    THEN CHOOSE j \in Origins(c) : \A k \in Origins(c) : k <= j
    ELSE c

\* Cuts the token estimates may lead to; messages[0] stays, and at most two
\* messages are not cut.
Cuts == IF Len(messages) <= 2 THEN {}
        ELSE {c \in {AdjustedCut(i) : i \in 0..(Len(messages) - 1)} : c > 1}

\* The prompt fits, or there is nothing to cut: Skipped.  After a context-length
\* error (attempt 1) that ends the run.
NoCompaction ==
  /\ stage = "plan"
  /\ IF attempt = 0 THEN stage' = "request" /\ UNCHANGED outcome
                    ELSE Finish("interrupted")
  /\ UNCHANGED <<turn, attempt, messages, repairs, running, permit, stopped, late>>

Compaction ==
  /\ stage = "plan"
  /\ Cuts # {}
  /\ stage' = "summarize"
  /\ UNCHANGED <<turn, attempt, messages, repairs, running, permit, stopped, late, outcome>>

\* A mistaken summary request that is sent without a poll of `cancelled`.
SummarizeUnchecked ==
  /\ stage = "summarize"
  /\ Begin("summary")
  /\ stage' = "summary"
  /\ UNCHANGED <<turn, attempt, messages, repairs, running, permit, stopped, outcome>>

\* The summary is requested after a poll of `cancelled`.
Summarize ==
  /\ stage = "summarize"
  /\ ~permit
  /\ Begin("summary")
  /\ stage' = "summary"
  /\ UNCHANGED <<turn, attempt, messages, repairs, running, permit, stopped, outcome>>

\* The summary, or the fallback for one that failed, replaces messages[1..cut].
Compacted ==
  /\ stage = "summary"
  /\ \E c \in Cuts : messages' = <<messages[1], User>> \o SubSeq(messages, c + 1, Len(messages))
  /\ stage' = "request"
  /\ UNCHANGED <<turn, attempt, repairs, running, permit, stopped, late, outcome>>

-----------------------------------------------------------------------------
\* stream_with_tools polls `cancelled`, then sends the request.
Request ==
  /\ stage = "request"
  /\ ~permit
  /\ Begin("stream")
  /\ stage' = "stream"
  /\ UNCHANGED <<turn, attempt, messages, repairs, running, permit, stopped, outcome>>

\* The answer calls tools.
AnswerCalls(cs) ==
  /\ stage = "stream"
  /\ messages' = Append(messages, Assistant(cs))
  /\ running' = cs
  /\ stage' = "toolCheck"
  /\ UNCHANGED <<turn, attempt, repairs, permit, stopped, late, outcome>>

\* The answer is final and satisfies the task contract, or was repaired as often
\* as it may be.
AnswerFinal ==
  /\ stage = "stream"
  /\ messages' = Append(messages, Assistant({}))
  /\ Finish("completed")
  /\ UNCHANGED <<turn, attempt, repairs, running, permit, stopped, late>>

\* A mistaken repair that does not count as a turn or as a repair.
RepairForFree ==
  /\ stage = "stream"
  /\ repairs < MaxRepairs
  /\ stage' = "turn"
  /\ UNCHANGED <<turn, attempt, messages, repairs, running, permit, stopped, late, outcome>>

\* The answer needs a repair: ask for it in the next turn.
AnswerNeedsRepair ==
  /\ stage = "stream"
  /\ repairs < MaxRepairs
  /\ repairs' = repairs + 1
  /\ messages' = messages \o <<Assistant({}), User>>
  /\ turn' = turn + 1
  /\ stage' = "turn"
  /\ UNCHANGED <<attempt, running, permit, stopped, late, outcome>>

\* A context-length error before any output: compact by force and try once more.
TooLong ==
  /\ stage = "stream"
  /\ attempt = 0
  /\ attempt' = 1
  /\ stage' = "plan"
  /\ UNCHANGED <<turn, messages, repairs, running, permit, stopped, late, outcome>>

\* Ollama rejects the tools in the first turn: the text-only fallback.
ToolsRejected ==
  /\ stage = "stream"
  /\ turn = 0
  /\ stage' = "schema"
  /\ repairs' = 0
  /\ UNCHANGED <<turn, attempt, messages, running, permit, stopped, late, outcome>>

\* Any other error, and a context-length error after output or after the retry.
StreamFails ==
  /\ stage = "stream"
  /\ Finish("interrupted")
  /\ UNCHANGED <<turn, attempt, messages, repairs, running, permit, stopped, late>>

-----------------------------------------------------------------------------
\* A stop that came before the tools is honoured; from here on the tools of the
\* turn run to the end.
ToolCheck ==
  /\ stage = "toolCheck"
  /\ ~permit
  /\ stage' = "parallel"
  /\ UNCHANGED <<turn, attempt, messages, repairs, running, permit, stopped, late, outcome>>

\* join_all over the calls of the tools that may run in parallel.
RunParallel(cs) ==
  /\ stage = "parallel"
  /\ IF cs = {} THEN UNCHANGED late ELSE Begin("tool")
  /\ running' = running \ cs
  /\ stage' = "sequential"
  /\ UNCHANGED <<turn, attempt, messages, repairs, permit, stopped, outcome>>

\* The other calls, one by one, in their order.
RunSequential ==
  /\ stage = "sequential"
  /\ running # {}
  /\ Begin("tool")
  /\ running' = {c \in running : \E d \in running : d < c}
  /\ UNCHANGED <<stage, turn, attempt, messages, repairs, permit, stopped, outcome>>

\* The results of the turn's calls, in the order of the calls.
Results(cs) == [i \in 1..Cardinality(cs) |->
                 Tool(CHOOSE c \in cs : Cardinality({d \in cs : d < c}) = i - 1)]

\* The results are merged into the original order and appended.
PushResults ==
  /\ stage = "sequential"
  /\ running = {}
  /\ messages' = messages \o Results(messages[Len(messages)].calls)
  /\ turn' = turn + 1
  /\ stage' = "turn"
  /\ UNCHANGED <<attempt, repairs, running, permit, stopped, late, outcome>>

-----------------------------------------------------------------------------
(* run_agent_loop_text_only                                                *)

\* build_schema_prompt.
SchemaLoaded ==
  /\ stage = "schema"
  /\ stage' = "textCheck"
  /\ UNCHANGED <<turn, attempt, messages, repairs, running, permit, stopped, late, outcome>>

\* The poll of `cancelled`, then the first request.
TextRequest ==
  /\ stage = "textCheck"
  /\ ~permit
  /\ Begin("text")
  /\ stage' = "text"
  /\ UNCHANGED <<turn, attempt, messages, repairs, running, permit, stopped, outcome>>

TextFinal ==
  /\ stage = "text"
  /\ Finish("completed")
  /\ UNCHANGED <<turn, attempt, messages, repairs, running, permit, stopped, late>>

\* The next request goes out without a poll of `cancelled`; the select around it
\* ends the run right away when the permit is there.
TextNeedsRepair ==
  /\ stage = "text"
  /\ repairs < MaxRepairs
  /\ repairs' = repairs + 1
  /\ Begin("text")
  /\ UNCHANGED <<stage, turn, attempt, messages, running, permit, stopped, outcome>>

\* ai::complete fails: the error is returned, AgentEnd is not sent.
TextFails ==
  /\ stage = "text"
  /\ Finish("failed")
  /\ UNCHANGED <<turn, attempt, messages, repairs, running, permit, stopped, late>>

\* The run is over (a stuttering step, so that deadlock checking finds every other
\* state in which it cannot go on).
Over == stage = "done" /\ UNCHANGED runVars

-----------------------------------------------------------------------------
Step ==
  \/ StopHonoured
  \/ SupportKnown
  \/ Turn
  \/ Exhausted
  \/ NoCompaction
  \/ Compaction
  \/ Summarize
  \/ Compacted
  \/ Request
  \/ \E cs \in (SUBSET CallIds) \ {{}} : AnswerCalls(cs)
  \/ AnswerFinal
  \/ AnswerNeedsRepair
  \/ TooLong
  \/ ToolsRejected
  \/ StreamFails
  \/ ToolCheck
  \/ \E cs \in SUBSET running : RunParallel(cs)
  \/ RunSequential
  \/ PushResults
  \/ SchemaLoaded
  \/ TextRequest
  \/ TextFinal
  \/ TextNeedsRepair
  \/ TextFails

RunNext == Stop \/ Step \/ Over

(***************************************************************************)
(* Fairness: the model and the tools answer (or fail), so the run's own    *)
(* step is taken.  Nobody is obliged to stop the run.                      *)
(***************************************************************************)
RunSpec == RunInit /\ [][RunNext]_runVars
FairRunSpec == RunSpec /\ WF_runVars(Step)

-----------------------------------------------------------------------------
\* The first n messages of ms are a conversation the providers take: the results
\* follow the message that called for them, all of them and nothing but them.
Paired(ms, n) ==
  /\ \A i \in 1..n :
       LET cs == ms[i].calls IN
         cs # {} => /\ i + Cardinality(cs) <= n
                    /\ {ms[k].of : k \in (i + 1)..(i + Cardinality(cs))} = cs
  /\ \A i \in 1..n :
       ms[i].role = "tool"
         => \E j \in 1..(i - 1) : /\ ms[i].of \in ms[j].calls
                                  /\ \A k \in (j + 1)..i : ms[k].role = "tool"

\* In every request to the model calls and results are paired, whatever the
\* compactions before it cut and although call ids come back in later turns; a
\* conversation that breaks this is refused by the providers
\* (agent_loop.rs 1017-1123, 1240-1277).
ToolPairsIntact == stage \in {"request", "stream"} => Paired(messages, Len(messages))

\* Once the user has asked to stop, the run begins no summary and no streamed
\* request any more, and a run that goes on with tools had begun the tools of
\* this very turn before; only the text-only fallback may send a repair
\* (agent_loop.rs 222-239, 419-425, 759-762, 822-844, 1083-1087).
StopPreventsRequests ==
  /\ late \subseteq {"tool", "text"}
  /\ "tool" \in late => stage \in {"sequential", "turn", "done"}
  /\ "text" \in late => repairs > 0

\* Every run ends, within its turns, whatever the model answers; so does one that
\* the user stops (agent_loop.rs 222-555).
RunEnds == <>(stage = "done")

=============================================================================
