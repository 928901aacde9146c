---------------------------- MODULE MCConversation ---------------------------
(* Clients that differ in what they send beside the conversation: a long   *)
(* history with tools and one account, two short ones with two accounts,   *)
(* a gateway with its own prompt, a model that does not think.             *)
EXTENDS Conversation

MCDeepSeek == {"deepseek"}
MCGlobalEfforts == [deepseek |-> [efforts |-> {"high"}, default |-> ""]]
Realms == {"cn", "global"}
Table(efforts, default) == [r \in Realms |-> [m \in {"deepseek", "glm"} |-> [efforts |-> efforts, default |-> default]]]
MCTables == {Table({}, ""), Table({"low", "medium"}, "")}

Plain == [model |-> "deepseek", realm |-> "cn", mode |-> "passthrough", sanitize |-> TRUE, named |-> "no",
          header |-> "", user |-> "", tool_choice |-> Absent, thinking |-> Absent, effort |-> Absent, usage |-> Absent,
          keeps |-> "reasoning", opening |-> <<Message("developer", Marked)>>,
          accounts |-> {1}, talks |-> 1, messages |-> 7]
MCClients ==
  {Plain,
   [Plain EXCEPT !.realm = "global", !.named = "metadata", !.mode = "append", !.effort = "max",
                 !.keeps = "reasoning_content", !.accounts = {1, 2}, !.talks = 2, !.messages = 3],
   [Plain EXCEPT !.mode = "custom", !.messages = 5, !.named = "body", !.thinking = "disabled", !.effort = "low",
                 !.keeps = "nothing", !.opening = <<>>],
   [Plain EXCEPT !.model = "glm", !.realm = "global", !.named = "cache_key", !.opening = <<>>,
                 !.tool_choice = "of_none", !.usage = "no", !.sanitize = FALSE, !.accounts = {1, 2}, !.messages = 3]}

MCSaid == {Message("user", "plain"), [Message("user", Null) EXCEPT !.image = "string"]}
Call1(args) == [id |-> Absent, args |-> args]
MCReplies ==
  {[Message("assistant", "plain") EXCEPT !.reasoning = Marked],
   [Message("assistant", Null) EXCEPT !.calls = <<Call1("plain"), Call1(Marked)>>]}
MCTexts ==
  {Absent, Null, Blank, Space, Marked, Masked, "plain", "gateway", "degraded", "assist",
   "string", "object", "c1", "c2", "c3"}
MCCallIDs == <<"c1", "c2", "c3">>
MCRefusals ==
  {Answer(400, 11128, {"policy"}), Answer(404, 11115, {}), Answer(413, 0, {"prompt"}),
   [Answer(400, 11135, {}) EXCEPT !.spaced = TRUE], Answer(429, 14018, {"credit"}), Answer(500, 0, {})}

-----------------------------------------------------------------------------
(* What the pure readers of an answer and a body do, for all small inputs *)

Wordings == UNION {{w, v} : w, v \in {{}, {"no_service"}, {"credit"}, {"rate"}, {"session"}, {"prompt"}, {"params"}}}
Failures ==
  {Answer(status, code, words) : status \in {200, 400, 404, 429, 500}, code \in {0, 6004, 11102, 11115, 14018}, words \in Wordings}

\* client.go, doJSON: an envelope that is an error is never taken for a success.
ASSUME EnvelopesAreErrors == \A a \in Failures : ClassifyEnvelope(a) # "None"

\* sse.go: an error frame ends like an answer of status 400 with its text, but that a model
\* without service, which only JSON says, is the client's fault there.
ASSUME FramesEndAlike ==
  \A a \in Failures :
    a.status = 400 /\ a.code = 0 /\ a.words # {} /\ "no_service" \notin a.words => FrameKind(a) = Classify(a)

\* client.go, ParseRetryAfter: a header out of range hides no later one that is in it.
ASSUME WaitsAreSane ==
  \A w \in [1..3 -> {0, 1, Sanity, Sanity + 1}] :
    LET n == ParseRetryAfter([Answer(429, 0, {}) EXCEPT !.wait = w])
    IN n \in 0..Sanity /\ (n = 0 <=> \A i \in 1..3 : w[i] \in {0, Sanity + 1})

\* effort_catalog.go: what is listed as default is one of the efforts listed beside it.
ASSUME DefaultsAreListed ==
  \A far, near \in [efforts : SUBSET {"low", "high"}, default : {"", "low", "high"}] :
    LET l == EffortListing(far, near) IN l.default \in l.efforts \cup {""}

\* session.go: a conversation keeps its fallback key as it grows.
ASSUME FallbackStays ==
  \A said \in {Message("user", "plain"), Message("user", ""), Message("user", Marked)}, next \in MCSaid \cup MCReplies :
    LET body(msgs) == [messages |-> <<Message("system", "plain")>> \o msgs, user_id |-> ""]
    IN StickyFallbackKey(body(<<said>>)) = StickyFallbackKey(body(<<said, next>>))
=============================================================================
