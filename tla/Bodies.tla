------------------------------- MODULE Bodies -------------------------------
(***************************************************************************)
(* What the gateway makes of the body of a chat request before an account  *)
(* sends it (src/internal/prompt, src/internal/upstream/payload.go,        *)
(* tool_pairing.go, thinking.go, sanitize.go, effort_catalog.go,           *)
(* cache_key.go), and the keys it reads from it (src/internal/session).    *)
(*                                                                         *)
(* DATA.  A text is one of a few: Marked has a fingerprint that upstream   *)
(* refuses, Masked is that text without it.  A field of a message or body  *)
(* may be Absent or Null instead of a string.  A hash is what is hashed.   *)
(***************************************************************************)
EXTENDS Integers, Sequences, FiniteSets, SequencesExt

CONSTANTS
  Texts,         \* what a field of a message may have
  DeepSeek,      \* models whose name begins with deepseek
  GlobalEfforts  \* globalEffortFallback: model -> [efforts, default]

Absent == "absent"
Null == "null"
Blank == ""
Space == " "
IsString(v) == v \notin {Absent, Null}
HasText(v) == IsString(v) /\ v # Blank

Marked == "marked"
Masked == "masked"

\* The last ones are the texts and forms the passes below put in.
ASSUME BodiesAssumption ==
  {Absent, Null, Blank, Marked, Masked, "plain", Space, "object", "gateway", "degraded", "assist"} \subseteq Texts

\* calls: tool_calls, of: tool_call_id, image: the form of the image_url part of an array content.
Message(role, text) ==
  [role |-> role, content |-> text, image |-> Absent, calls |-> <<>>, of |-> Absent,
   reasoning_content |-> Absent, reasoning |-> Absent]
Roles == {"system", "developer", "user", "assistant", "tool"}
ToolCalls == [id : Texts, args : Texts]
Messages ==
  [role : Roles, content : Texts, image : Texts, calls : Seq(ToolCalls), of : Texts,
   reasoning_content : Texts, reasoning : Texts]
HasCalls(m) == m.role = "assistant" /\ m.calls # <<>>
IdsOf(m) == {c.id : c \in ToSet(m.calls)} \ {Absent, Blank}

Each(F(_), s) == [i \in DOMAIN s |-> F(s[i])]

\* The elements of s that are in T, in their order, from those of its prefixes: SelectSeq with a set,
\* which a proof can name, for its test.
AmongFirst(s, T) ==
  LET kept[n \in 0..Len(s)] ==
        IF n = 0 THEN <<>> ELSE IF s[n] \in T THEN Append(kept[n - 1], s[n]) ELSE kept[n - 1]
  IN kept
Among(s, T) == AmongFirst(s, T)[Len(s)]

-----------------------------------------------------------------------------
(* The system prompt *)

Instructs(m) == m.role \in {"system", "developer"}

\* Append: the prompt goes behind the instructions the request begins with.
AppendPrompt(msgs, prompt) ==
  LET n == CHOOSE n \in 0..Len(msgs) :
             /\ \A i \in 1..n : Instructs(msgs[i])
             /\ n < Len(msgs) => ~Instructs(msgs[n + 1])
  IN InsertAt(msgs, n + 1, Message("system", prompt))

\* Rewrite: it takes the place of all instructions.
RewritePrompt(msgs, prompt) ==
  <<Message("system", prompt)>> \o Among(msgs, {m \in ToSet(msgs) : ~Instructs(m)})

\* ensureConsoleSystem: the international upstream wants a system message first.
EnsureConsoleSystem(msgs) ==
  IF msgs # <<>> /\ msgs[1].role # "system" THEN <<Message("system", "assist")>> \o msgs ELSE msgs

-----------------------------------------------------------------------------
(* Tool calls and their results *)

\* repackToolResultBlocks: what stands between the results of one message's calls goes behind them.
\* Mutant: at the end of a group what stood between its results is forgotten.
CloseGroupForgetful(g) ==
  [out |-> g.out \o g.results, open |-> FALSE, want |-> {}, results |-> <<>>, between |-> <<>>]
CloseGroup(g) ==
  [out |-> g.out \o g.results \o g.between, open |-> FALSE, want |-> {},
   results |-> <<>>, between |-> <<>>]
OutsideGroup(g, m) ==
  [g EXCEPT !.out = Append(@, m), !.open = HasCalls(m), !.want = IF HasCalls(m) THEN IdsOf(m) ELSE {}]
RepackStep(g, m) ==
  IF g.open /\ m.role = "tool" /\ m.of \in g.want
    THEN [g EXCEPT !.results = Append(@, m)]
  ELSE IF g.open /\ m.role # "tool" /\ g.results # <<>> /\ ~HasCalls(m)
    THEN [g EXCEPT !.between = Append(@, m)]
  ELSE OutsideGroup(CloseGroup(g), m)
NoGroup == [out |-> <<>>, open |-> FALSE, want |-> {}, results |-> <<>>, between |-> <<>>]
\* The group behind each message.
Groups(msgs) ==
  LET group[n \in 0..Len(msgs)] == IF n = 0 THEN NoGroup ELSE RepackStep(group[n - 1], msgs[n])
  IN group
Repack(msgs) == CloseGroup(Groups(msgs)[Len(msgs)]).out

\* cleanupOrphanToolCalls keeps the calls with a result and the results with a call.
Called(msgs) == UNION {IdsOf(m) : m \in {n \in ToSet(msgs) : n.role = "assistant"}}
Answered(msgs) == {m.of : m \in {n \in ToSet(msgs) : n.role = "tool"}} \ {Absent, Blank}
\* Mutant: a batch of calls is kept as a whole or not at all, results one by one.
CleanupBatches(msgs) ==
  LET keep == Called(msgs) \cap Answered(msgs)
      Kept(m) == IF m.role = "assistant" /\ ~(IdsOf(m) \subseteq keep) THEN [m EXCEPT !.calls = <<>>] ELSE m
  IN Each(Kept, Among(msgs, {m \in ToSet(msgs) : m.role = "tool" => m.of \in keep}))
Cleanup(msgs) ==
  LET keep == Called(msgs) \cap Answered(msgs)
      Kept(m) == IF m.role = "assistant"
                 THEN [m EXCEPT !.calls = Among(@, {c \in ToSet(@) : c.id \in keep})] ELSE m
  IN IF Called(msgs) \cup Answered(msgs) = {} THEN msgs
     ELSE Each(Kept, Among(msgs, {m \in ToSet(msgs) : m.role = "tool" => m.of \in keep}))

\* normalizeToolChoice: upstream takes a string; "of_" stands for an object of that type.
NormalizeToolChoice(b) ==
  CASE b.tool_choice \in {"none", "of_none"} -> [b EXCEPT !.tool_choice = Absent, !.tools = FALSE]
    [] b.tool_choice \in {"of_auto", "of_function"} -> [b EXCEPT !.tool_choice = "auto"]
    [] b.tool_choice \in {"of_required"} -> [b EXCEPT !.tool_choice = "required"]
    [] b.tool_choice \in {"of_function_x"} -> [b EXCEPT !.tool_choice = "x"]
    [] b.tool_choice \in {"of_nothing", Null} -> [b EXCEPT !.tool_choice = Absent]
    [] OTHER -> b

\* normalizeRoles and normalizeImageURL: names and forms upstream knows.
NormalizeRoles(msgs) ==
  Each(LAMBDA m : [m EXCEPT !.role = IF @ = "developer" THEN "system" ELSE @], msgs)
NormalizeImageURL(msgs) ==
  Each(LAMBDA m : [m EXCEPT !.image = IF @ = "string" THEN "object" ELSE @], msgs)

\* translateMaxCompletionTokens: the alias is dropped, and used when the name upstream knows is missing.
TranslateMaxCompletionTokens(b) ==
  [b EXCEPT !.max_tokens = IF @ < 0 /\ b.max_completion_tokens > 0 THEN b.max_completion_tokens ELSE @,
            !.max_completion_tokens = -1]

-----------------------------------------------------------------------------
(* Thinking *)

\* effortRank
Rank == [off |-> 0, minimal |-> 1, low |-> 2, medium |-> 3, high |-> 4, xhigh |-> 5, max |-> 6]
Efforts == DOMAIN Rank
NoEfforts == [efforts |-> {}, default |-> Blank]

\* Highest of the efforts a model has that is not above the one asked for, else its lowest.
Nearest(asked, efforts) ==
  LET below == {e \in efforts : Rank[e] <= Rank[asked]}
  IN IF below # {} THEN CHOOSE e \in below : \A f \in below : Rank[f] <= Rank[e]
     ELSE CHOOSE e \in efforts : \A f \in efforts : Rank[e] <= Rank[f]

\* globalEffortMap: what upstream says of a model goes before what is built in; elsewhere only that.
Known(realm, remote, model) ==
  LET far == remote[realm][model]
      near == IF realm = "global" /\ model \in DOMAIN GlobalEfforts THEN GlobalEfforts[model] ELSE NoEfforts
  IN [efforts |-> IF far.efforts # {} THEN far.efforts ELSE near.efforts,
      default |-> IF far.default # Blank THEN far.default ELSE near.default]

\* EffortListing: of one source, and no default which that source does not have.
EffortListing(far, near) ==
  LET source == IF far.efforts # {} THEN far ELSE near
  IN IF source.default \in source.efforts THEN source ELSE [source EXCEPT !.default = Blank]

NormalizeReasoningEffort(b, known) ==
  LET key == IF b.reasoning_effort # Absent THEN "reasoning_effort" ELSE "reasoningEffort"
  IN IF b[key] \in Efforts /\ known.efforts # {}
     THEN [b EXCEPT ![key] = Nearest(@, known.efforts)] ELSE b

\* ensureDeepSeekEffort
EnsureEffort(b, default) ==
  IF b.reasoning_effort # Absent \/ b.reasoningEffort # Absent THEN b
  ELSE [b EXCEPT !.reasoning_effort = IF default = Blank THEN "high" ELSE default]

\* injectThinking: on unless the request says otherwise; a request that turns it off loses its effort.
InjectThinking(b, default) ==
  IF b.model \notin DeepSeek THEN b
  ELSE IF b.thinking = "disabled" THEN [b EXCEPT !.reasoning_effort = Absent, !.reasoningEffort = Absent]
  ELSE EnsureEffort([b EXCEPT !.thinking = IF HasText(@) THEN @ ELSE "enabled"], default)

\* backfillReasoningContent: an assistant's message has both fields, the second one never empty.
Traced(msgs) == \E m \in ToSet(msgs) : HasText(m.reasoning) \/ m.reasoning_content # Absent
Backfilled(m) ==
  LET content == IF IsString(m.reasoning_content) THEN m.reasoning_content
                 ELSE IF IsString(m.reasoning) THEN m.reasoning ELSE Blank
  IN [m EXCEPT !.reasoning_content = content,
               !.reasoning = IF HasText(@) THEN @ ELSE IF content # Blank THEN content ELSE Space]
BackfillReasoning(b) ==
  IF b.model \in DeepSeek /\ (b.thinking = "enabled" \/ Traced(b.messages))
  THEN [b EXCEPT !.messages = Each(LAMBDA m : IF m.role = "assistant" THEN Backfilled(m) ELSE m, @)]
  ELSE b

-----------------------------------------------------------------------------
(* Fingerprints *)

\* sanitizeText
Clean(text) == IF text = Marked THEN Masked ELSE text

\* sanitizeMessages: content, reasoning_content and the arguments of calls.
Sanitized(m) ==
  [m EXCEPT !.content = Clean(@), !.reasoning_content = Clean(@),
            !.calls = Each(LAMBDA c : [c EXCEPT !.args = Clean(@)], @)]

-----------------------------------------------------------------------------
(* PrepareBody *)

\* stream_options are filled in unless the client sends some.
Streamed(b) == [b EXCEPT !.stream = TRUE, !.usage = IF @ = Absent THEN "included" ELSE @]
Paired(msgs) == Cleanup(Repack(NormalizeImageURL(NormalizeRoles(msgs))))

\* Mutant: the reasoning is filled in after sanitizing.
PrepareBodyFilledLast(b, sanitize, known) ==
  LET thinking == InjectThinking([Streamed(b) EXCEPT !.messages = Paired(@)], known.default)
      served == NormalizeReasoningEffort(thinking, known)
  IN BackfillReasoning(IF sanitize THEN [served EXCEPT !.messages = Each(Sanitized, @)] ELSE served)

PrepareBody(b, sanitize, known) ==
  LET paired == NormalizeToolChoice(TranslateMaxCompletionTokens(Streamed(b)))
      thinking == InjectThinking([paired EXCEPT !.messages = Paired(@)], known.default)
      filled == BackfillReasoning(NormalizeReasoningEffort(thinking, known))
  IN IF sanitize THEN [filled EXCEPT !.messages = Each(Sanitized, @)] ELSE filled

CacheKey(b, uid, conversation) ==
  IF b.prompt_cache_key # Blank THEN <<"client", b.prompt_cache_key>>
  ELSE <<uid, IF b.conversation_id # Blank THEN b.conversation_id ELSE conversation>>

-----------------------------------------------------------------------------
(* Keys *)

FirstOf(a, b) == IF a # Blank THEN a ELSE b

\* ResolveConversationID and ExtractKey: the conversation's own name, the second one in the cache key too.
ResolveConversationID(b) == FirstOf(b.metadata_id, b.conversation_id)
ExtractKey(b) == FirstOf(ResolveConversationID(b), b.prompt_cache_key)

\* contentSignature: nothing for a blank text without image.
Signature(m) == IF m.content \in {Blank, Null} /\ m.image = Absent THEN <<>> ELSE <<m.content, m.image>>

UserAt(msgs) == {i \in DOMAIN msgs : msgs[i].role = "user"}

\* StickyFallbackKey: the first thing the user says, unless the body names the user.
StickyFallbackKey(b) ==
  LET users == UserAt(b.messages)
  IN IF b.user_id # Blank \/ users = {} THEN <<>>
     ELSE Signature(b.messages[CHOOSE i \in users : \A j \in users : i <= j])

\* TurnKey: the last thing the user says and where it stands.
\* Mutant: only what the user says last.
TurnKeyOfText(b) ==
  LET users == UserAt(b.messages)
      last == CHOOSE i \in users : \A j \in users : j <= i
  IN IF users = {} THEN <<>> ELSE Signature(b.messages[last])
TurnKey(b) ==
  LET users == UserAt(b.messages)
      last == CHOOSE i \in users : \A j \in users : j <= i
  IN IF users = {} \/ Signature(b.messages[last]) = <<>> THEN <<>>
     ELSE <<last>> \o Signature(b.messages[last])

\* hasImagePart: one content that is a string spoils the decoding of all.
HasImagePart(b) ==
  /\ \E m \in ToSet(b.messages) : m.image # Absent
  /\ \A m \in ToSet(b.messages) : m.image # Absent \/ m.content = Null
=============================================================================
