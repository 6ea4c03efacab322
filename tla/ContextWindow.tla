---------------------------- MODULE ContextWindow ----------------------------
(***************************************************************************)
(* The transcript of one session on its way to a provider: pruning,        *)
(* summarisation and compaction before a turn (internal/agent/compaction.go*)
(* and session_history.go), the rounds of tool calls, and the conversion   *)
(* of the transcript to the request of the provider (internal/provider).   *)
(*                                                                         *)
(* A message is its role, the turn it was created in, the tool calls it    *)
(* asks for or the one it answers, and whether these carry the provider's  *)
(* identifiers: Gemini's have none.  A request is a sequence of contents,  *)
(* each a role with its parts.                                             *)
(***************************************************************************)
EXTENDS Integers, Sequences, FiniteSets, SequencesExt

CONSTANTS
  Executors,    \* providers that may be configured for turns
  Managers,     \* ... and, with cost routing, for simple messages
  MemoryWindow, \* maxN: messages above which the history is compacted
  KeepContext,  \* DefaultKeepContextMessages
  KeepLastAssistants,
  MaxTurns,     \* bound on the turns of one behaviour
  MaxCalls,     \* bound on the tool calls of one message
  MaxRounds     \* bound on the rounds of one turn

ASSUME WindowAssumption ==
  /\ {MemoryWindow, KeepContext} \subseteq Nat \ {0}
  /\ {KeepLastAssistants, MaxTurns, MaxCalls, MaxRounds} \subseteq Nat

VARIABLES
  executor, manager,
  pruning,      \* a time to live is configured
  summarizing,  \* summarisation is enabled
  transcript,   \* the transcript in the checkpoint
  messages,     \* the transcript of the running turn
  input,        \* what CompactMessages was given
  request,      \* what the provider was last sent
  phase,        \* of the turn
  turns, rounds, calls

configVars == <<executor, manager, pruning, summarizing>>
windowVars == <<configVars, transcript, messages, input, request, phase, turns, rounds, calls>>

WindowInit ==
  /\ executor \in Executors /\ manager \in Managers
  /\ pruning \in BOOLEAN /\ summarizing \in BOOLEAN
  /\ transcript = <<>> /\ messages = <<>> /\ input = <<>> /\ request = <<>>
  /\ phase = "idle"
  /\ turns = 0 /\ rounds = 0 /\ calls = 0

Message(role, asks, answers, ids) ==
  [role |-> role, at |-> turns, asks |-> asks, answers |-> answers, ids |-> ids]
User == Message("user", {}, 0, FALSE)
Summary == Message("system", {}, 0, FALSE)
Reply == Message("assistant", {}, 0, FALSE)

IsAssistant(m) == m.role \in {"assistant", "model"}
Pick(msgs, keep) ==
  LET idx == SelectSeq([i \in 1 .. Len(msgs) |-> i], LAMBDA i : i \in keep)
  IN [i \in 1 .. Len(idx) |-> msgs[idx[i]]]
-----------------------------------------------------------------------------
(***************************************************************************)
(* internal/agent/compaction.go, on the set of indexes to keep.            *)
(***************************************************************************)
applyKeepLastAssistants(msgs) ==
  LET assistants == {i \in DOMAIN msgs : IsAssistant(msgs[i])}
      last == {i \in assistants :
                 Cardinality({j \in assistants : j > i}) < KeepLastAssistants}
  IN last \union {i \in DOMAIN msgs : i + 1 \in last /\ msgs[i].role = "user"}

\* The message that asks for a call; an identifier is needed to tell.
buildToolCallMap(msgs, call) ==
  {i \in DOMAIN msgs : IsAssistant(msgs[i]) /\ msgs[i].ids /\ call \in msgs[i].asks}

Answers(msgs, i) == msgs[i].role = "tool" /\ msgs[i].ids

completeChainsBackward(msgs, keep) ==
  keep \union UNION {buildToolCallMap(msgs, msgs[i].answers) : i \in {j \in keep : Answers(msgs, j)}}

keepResponsesForCall(msgs, i) ==
  {j \in DOMAIN msgs : msgs[i].ids /\ Answers(msgs, j) /\ msgs[j].answers \in msgs[i].asks}

MutCompleteChainsForward(msgs, keep) == keep
completeChainsForward(msgs, keep) ==
  keep \union UNION {keepResponsesForCall(msgs, i) : i \in {j \in keep : IsAssistant(msgs[j])}}

applyToolChainConsistency(msgs, keep) ==
  completeChainsForward(msgs, completeChainsBackward(msgs, keep))

hasKeptToolCalls(msgs) ==
  \E j \in 2 .. Len(msgs) : j \in keepResponsesForCall(msgs, 1)

stripLeadingAssistantTurns(msgs) ==
  IF msgs # <<>> /\ IsAssistant(msgs[1]) /\ ~hasKeptToolCalls(msgs) THEN Tail(msgs) ELSE msgs

CompactMessages(msgs) ==
  IF Len(msgs) <= MemoryWindow THEN msgs
  ELSE LET keepN == IF KeepContext < MemoryWindow THEN KeepContext
                    ELSE IF MemoryWindow > 1 THEN MemoryWindow - 1 ELSE 1
           keep == (Len(msgs) - keepN + 1 .. Len(msgs)) \union applyKeepLastAssistants(msgs)
       IN stripLeadingAssistantTurns(Pick(msgs, applyToolChainConsistency(msgs, keep)))

markLeadingAssistantsDropped(msgs, keep) ==
  {i \in keep : \E j \in keep : j <= i /\ ~IsAssistant(msgs[j])}

\* Messages younger than the time to live, and the last assistants.
applyTTLPruning(msgs, cutoff) == {i \in DOMAIN msgs : msgs[i].at > cutoff}

PruneMessages(msgs, cutoff) ==
  IF ~pruning THEN msgs
  ELSE Pick(msgs, markLeadingAssistantsDropped(msgs,
         applyKeepLastAssistants(msgs) \union applyTTLPruning(msgs, cutoff)))
-----------------------------------------------------------------------------
(***************************************************************************)
(* session_history.go.                                                     *)
(***************************************************************************)
getSummarizationKeepN ==
  IF MemoryWindow >= 2 * KeepContext THEN KeepContext
  ELSE IF MemoryWindow \div 2 >= 1 THEN MemoryWindow \div 2 ELSE 1

\* Above seven tenths of the window; a summary that fails changes nothing.
summarizeHistoryIfNeeded(msgs) ==
  LET n == getSummarizationKeepN
  IN IF ~summarizing \/ Len(msgs) <= (7 * MemoryWindow) \div 10 \/ Len(msgs) <= n THEN {msgs}
     ELSE {msgs, <<Summary>> \o SubSeq(msgs, Len(msgs) - n + 1, Len(msgs))}

prepareHistory ==
  /\ phase = "idle" /\ turns < MaxTurns
  /\ \E cutoff \in 0 .. turns :
       \E msgs \in summarizeHistoryIfNeeded(PruneMessages(transcript, cutoff)) :
         /\ input' = msgs
         /\ messages' = Append(CompactMessages(msgs), [User EXCEPT !.at = turns + 1])
  /\ turns' = turns + 1
  /\ rounds' = 0
  /\ phase' = "ask"
  /\ request' = <<>>
  /\ UNCHANGED <<configVars, transcript, calls>>
-----------------------------------------------------------------------------
(***************************************************************************)
(* The requests of the providers.                                          *)
(***************************************************************************)
Part(kind, call) == [kind |-> kind, call |-> call]
Asked(m) == SelectSeq([c \in 1 .. calls |-> Part("call", c)], LAMBDA p : p.call \in m.asks)
TextParts(m) == IF m.asks = {} THEN <<Part("text", 0)>> ELSE <<>>

ResultParts(m) == IF Answers(<<m>>, 1) THEN <<Part("result", m.answers)>> ELSE <<>>
Content(role, parts) == [role |-> role, parts |-> parts]

\* Function calls and responses are matched by name and order.
GeminiContent(m) ==
  Content(CASE m.role = "assistant" -> "model" [] m.role = "tool" -> "user" [] OTHER -> m.role,
          TextParts(m) \o Asked(m)
            \o (IF m.role = "tool" THEN <<Part("result", m.answers)>> ELSE <<>>))

messagesToContents(msgs) == [i \in DOMAIN msgs |-> GeminiContent(msgs[i])]

mapContentBlocks(m) == TextParts(m) \o Asked(m) \o ResultParts(m)

\* Neighbours of the same role become one message.
mapMessages(msgs) ==
  FoldLeft(LAMBDA acc, m :
             LET role == IF m.role = "tool" THEN "user" ELSE m.role
             IN IF acc # <<>> /\ acc[Len(acc)].role = role
                THEN [acc EXCEPT ![Len(acc)].parts = @ \o mapContentBlocks(m)]
                ELSE Append(acc, Content(role, mapContentBlocks(m))),
           <<>>, msgs)

mapSingleMessage(m) == Content(m.role, TextParts(m) \o Asked(m) \o ResultParts(m))

openAIMessages(msgs) == <<Content("system", <<Part("text", 0)>>)>>
                          \o [i \in DOMAIN msgs |-> mapSingleMessage(msgs[i])]

RequestOf(provider, msgs) ==
  CASE provider = "gemini" -> messagesToContents(msgs)
    [] provider = "anthropic" -> mapMessages(msgs)
    [] OTHER -> openAIMessages(msgs)
-----------------------------------------------------------------------------
(***************************************************************************)
(* One call of the provider.  With routing the manager classifies the last *)
(* message and answers a simple one itself, without tools.                 *)
(***************************************************************************)
Asks(provider) == request' = RequestOf(provider, messages)

\* Gemini's answers are read without the identifiers of their calls.
mapResponse(provider) == [ids |-> provider # "gemini"]

ReplyEnds ==
  /\ messages' = Append(messages, Reply)
  /\ transcript' = Append(messages, Reply)
  /\ phase' = "idle"
  /\ UNCHANGED <<rounds, calls>>

\* The calls run in order and each gets its result.
processToolCalls ==
  /\ rounds < MaxRounds
  /\ \E n \in 1 .. MaxCalls :
       LET asked == calls + 1 .. calls + n
           ids == mapResponse(executor).ids
       IN /\ messages' = messages \o <<Message("assistant", asked, 0, ids)>>
                           \o [i \in 1 .. n |-> Message("tool", {}, calls + i, ids)]
          /\ calls' = calls + n
  /\ rounds' = rounds + 1
  /\ UNCHANGED <<transcript, phase>>

\* An error ends the turn, and nothing of it is saved.
TurnFails ==
  /\ phase' = "idle"
  /\ UNCHANGED <<transcript, messages, rounds, calls>>

ExecutorChat ==
  /\ phase = "ask"
  /\ Asks(executor)
  /\ ReplyEnds \/ processToolCalls \/ TurnFails
  /\ UNCHANGED <<configVars, input, turns>>

ManagerChat ==
  /\ phase = "ask" /\ manager # "none"
  /\ Asks(manager)
  /\ ReplyEnds \/ TurnFails
  /\ UNCHANGED <<configVars, input, turns>>

WindowNext == prepareHistory \/ ExecutorChat \/ ManagerChat

WindowSpec == WindowInit /\ [][WindowNext]_windowVars
-----------------------------------------------------------------------------
(***************************************************************************)
(* Properties.                                                             *)
(***************************************************************************)
WindowTypeOK ==
  /\ phase \in {"idle", "ask"}
  /\ turns \in 0 .. MaxTurns /\ rounds \in 0 .. MaxRounds

CallsIn(msgs) == UNION {msgs[i].asks : i \in DOMAIN msgs}
ResultsIn(msgs) == {msgs[i].answers : i \in DOMAIN msgs} \ {0}
SentParts(kind) ==
  {c \in 1 .. calls : \E i \in DOMAIN request : \E j \in DOMAIN request[i].parts :
                        request[i].parts[j] = Part(kind, c)}

\* A tool call and its result are not split: of the pairs that compaction is
\* given, and those of the turn itself, the provider is sent both or neither
\* (CompactMessages, applyToolChainConsistency, mapMessages, mapSingleMessage,
\* messagesToContents).
CompactedPaired ==
  request # <<>> =>
    \A call \in 1 .. calls :
      (call \in CallsIn(input) <=> call \in ResultsIn(input)) =>
        (call \in SentParts("call") <=> call \in SentParts("result"))
=============================================================================
