---------------------------- MODULE Conversation ----------------------------
(***************************************************************************)
(* The chats of one client over several turns: what the client adds to its *)
(* history (what the user says, what upstream answers, what its tools      *)
(* return or fail to return), and what chatCompletions and                 *)
(* ChatStreamContext (src/internal/server/handler.go,                      *)
(* src/internal/upstream/client.go) send of it, by one account after the   *)
(* other.  ChatRotation has the accounts' leases, bindings and cooling;    *)
(* here is what is sent and under which names.                             *)
(***************************************************************************)
EXTENDS Bodies, Answers

CONSTANTS
  Clients,     \* kinds of clients, with the mode the gateway is in, its accounts and the bounds of the run
  Said,        \* messages of a user
  Replies,     \* messages of an assistant, their calls numbered from 1
  Refusals,    \* answers of upstream that are no success
  Tables,      \* what upstream may have said of efforts: realm -> model -> [efforts, default]
  CallIDs,     \* of the calls of a history, in their order
  MaxRotate

TalkNames == <<"talk1", "talk2">>

\* A history begins with instructions; a user says something, be it an image; a conversation has its
\* name in one place at most; upstream gives each call an id of its own.
ASSUME ConversationAssumption ==
  /\ \A c \in Clients :
       /\ c.opening \in Seq(Messages) /\ \A i \in DOMAIN c.opening : Instructs(c.opening[i])
       /\ c.talks \in DOMAIN TalkNames /\ c.named \in {"no", "metadata", "body", "cache_key"}
  /\ Said \subseteq {m \in Messages : m.role = "user" /\ Signature(m) # <<>>}
  /\ Replies \subseteq {m \in Messages : m.role = "assistant"}
  /\ CallIDs \in Seq(Texts \ {Absent, Blank}) /\ IsInjective(CallIDs) /\ MaxRotate \in Nat

VARIABLES
  client,   \* the client and the mode, never changed
  talk,     \* the conversation
  history,  \* the client's messages
  waiting,  \* calls whose tool is at work
  request,  \* the request the gateway is at
  gate,     \* degradeGate: the degraded prompt is in use
  well,     \* accounts that may be chosen for the model
  log       \* of every call: conversation, turn and X-Conversation-Request-ID

talkVars == <<client, talk, history, waiting, request, gate, well, log>>

Turn == Cardinality(UserAt(history))
NoBody == [messages |-> <<>>]
NoAnswer == Answer(0, 0, {})
NoRequest ==
  [at |-> "none", uid |-> Absent, key |-> Blank, body |-> NoBody, id |-> <<>>, conversation |-> Blank,
   degraded |-> FALSE, tried |-> {}, rotation |-> 0, last |-> NoAnswer, sent |-> NoBody, known |-> NoEfforts]

Name(place) == IF client.named = place THEN TalkNames[talk] ELSE Blank
Body ==
  [model |-> client.model, messages |-> history, stream |-> FALSE, usage |-> client.usage, tools |-> TRUE,
   tool_choice |-> client.tool_choice, max_tokens |-> -1, max_completion_tokens |-> 1,
   thinking |-> client.thinking, reasoning_effort |-> client.effort, reasoningEffort |-> Absent,
   metadata_id |-> Name("metadata"), conversation_id |-> Name("body"),
   prompt_cache_key |-> Name("cache_key"), user_id |-> client.user]

Places == {"none", "picking", "calling"}

\* Messages and requests have their fields, and what the gateway counts is within its bounds.  What
\* is sent is left out: it has properties of its own.
TalkTypeOK ==
  /\ client \in Clients /\ talk \in 1..client.talks
  /\ history \in Seq(Messages) /\ waiting \subseteq Texts
  /\ DOMAIN request = DOMAIN NoRequest /\ request.at \in Places
  /\ request.rotation \in 0..MaxRotate /\ request.tried \subseteq client.accounts
  /\ gate \in BOOLEAN /\ well \subseteq client.accounts
  /\ \A e \in log : e.talk \in 1..talk /\ e.turn \in Nat

TalkInit ==
  /\ client \in Clients
  /\ talk = 1 /\ history = client.opening /\ waiting = {}
  /\ request = NoRequest /\ gate = FALSE
  /\ well = client.accounts /\ log = {}

-----------------------------------------------------------------------------
(* The client *)

Idle == request.at = "none" /\ Len(history) < client.messages
Speaks(m) == history' = Append(history, m)

\* The user says something, whatever tools are still at work.
Say ==
  /\ Idle
  /\ \E m \in Said : Speaks(m)
  /\ waiting' = {}
  /\ UNCHANGED <<client, talk, request, gate, well, log>>

\* A tool returns, or fails without a result.
Return ==
  /\ Idle
  /\ \E i \in waiting :
       /\ Speaks([Message("tool", "plain") EXCEPT !.of = i])
       /\ waiting' = waiting \ {i}
  /\ UNCHANGED <<client, talk, request, gate, well, log>>
Fail ==
  /\ Idle
  /\ \E i \in waiting : waiting' = waiting \ {i}
  /\ UNCHANGED <<client, talk, history, request, gate, well, log>>

\* The client puts a notice behind a result (image_resize_notice).
Notice ==
  /\ Idle /\ history # <<>> /\ Last(history).role = "tool"
  /\ Speaks(Message("developer", "plain"))
  /\ UNCHANGED <<client, talk, waiting, request, gate, well, log>>

NewTalk ==
  /\ request.at = "none" /\ talk < client.talks
  /\ talk' = talk + 1 /\ history' = client.opening /\ waiting' = {}
  /\ UNCHANGED <<client, request, gate, well, log>>

-----------------------------------------------------------------------------
(* The gateway *)

\* X-Conversation-Request-ID: the client's, else of the turn, else of the conversation, else a new one.
RequestID(b) ==
  IF client.header # Blank THEN <<"client", client.header>>
  ELSE IF TurnKey(b) # <<>> THEN <<"derived", ExtractKey(b), TurnKey(b)>>
  ELSE IF ExtractKey(b) # Blank THEN <<"derived", ExtractKey(b)>>
  ELSE <<"new", Cardinality(log)>>

\* The system prompt by mode; while the gate is closed the degraded one takes the place of all others.
Prompted(msgs) ==
  CASE client.mode = "custom" -> RewritePrompt(msgs, "gateway")
    [] client.mode # "custom" /\ gate -> RewritePrompt(msgs, "degraded")
    [] client.mode = "append" /\ ~gate -> AppendPrompt(msgs, "gateway")
    [] OTHER -> msgs

\* The keys are read before the prompt is rewritten.
Send ==
  /\ request.at = "none" /\ waiting = {} /\ Turn > 0 /\ Last(history).role # "assistant"
  /\ request' = [NoRequest EXCEPT !.at = "picking", !.body = [Body EXCEPT !.messages = Prompted(@)],
                                  !.id = RequestID(Body), !.conversation = ResolveConversationID(Body),
                                  !.degraded = gate /\ client.mode # "custom"]
  /\ UNCHANGED <<client, talk, history, waiting, gate, well, log>>

Pickable == well \ request.tried

\* ChatStreamContext sends the body as this account and this moment's efforts want it.
Prepared(known) ==
  LET b == PrepareBody(request.body, client.sanitize, known)
  IN IF client.realm = "global" THEN [b EXCEPT !.messages = EnsureConsoleSystem(@)] ELSE b
Call ==
  /\ request.at = "picking" /\ request.rotation < MaxRotate
  /\ \E u \in Pickable, remote \in Tables :
       LET known == Known(client.realm, remote, client.model)
       IN /\ request' = [request EXCEPT !.at = "calling", !.uid = u, !.tried = @ \cup {u}, !.rotation = @ + 1,
                                        !.sent = Prepared(known), !.known = known,
                                        !.key = CacheKey(request.body, u, request.conversation)]
          /\ log' = log \cup {[talk |-> talk, turn |-> Turn, id |-> request.id]}
  /\ UNCHANGED <<client, talk, history, waiting, gate, well>>

\* The client keeps upstream's message, with as much of the reasoning as it keeps.
Used == Cardinality(Called(history))
Kept(m) ==
  [m EXCEPT !.reasoning_content = IF client.keeps = "reasoning_content" THEN m.reasoning ELSE Absent,
            !.reasoning = IF client.keeps = "reasoning" THEN @ ELSE Absent,
            !.calls = [i \in DOMAIN @ |-> [@[i] EXCEPT !.id = CallIDs[Used + i]]]]
Succeed ==
  /\ request.at = "calling"
  /\ \E m \in Replies :
       /\ Used + Len(m.calls) <= Len(CallIDs)
       /\ Speaks(Kept(m))
       /\ waiting' = IdsOf(Kept(m))
  /\ request' = NoRequest
  /\ UNCHANGED <<client, talk, gate, well, log>>

\* An upstream that takes no blame for what it is asked punishes the account (applyErrorPolicy).
Judge(a) == well' = IF Penalty(a) \in {"nothing", "counted"} THEN well ELSE well \ {request.uid}
Ended(a) == [NoRequest EXCEPT !.last = a]

\* A blocked content is blamed on the system prompt once: the degraded one is tried, the same account may do it.
MayDegrade(a) == Classify(a) = "ContentBlocked" /\ client.mode # "custom" /\ ~request.degraded
Degrade(a) ==
  /\ MayDegrade(a)
  /\ gate' = TRUE
  /\ request' = [request EXCEPT !.at = "picking", !.body.messages = RewritePrompt(@, "degraded"),
                                !.degraded = TRUE, !.tried = @ \ {request.uid}]
  /\ UNCHANGED well
Finish(a) == ~MayDegrade(a) /\ IsFinal(a) /\ Judge(a) /\ request' = Ended(a) /\ UNCHANGED gate
Rotate(a) ==
  /\ ~MayDegrade(a) /\ ~IsFinal(a)
  /\ Judge(a)
  /\ request' = [request EXCEPT !.at = "picking", !.last = a]
  /\ UNCHANGED gate
Refuse ==
  /\ request.at = "calling"
  /\ \E a \in Refusals : Degrade(a) \/ Finish(a) \/ Rotate(a)
  /\ UNCHANGED <<client, talk, history, waiting, log>>

\* No answer, or half of one: nothing to tell of it.
Unreachable ==
  /\ request.at = "calling"
  /\ request' = [request EXCEPT !.at = "picking", !.last = NoAnswer]
  /\ UNCHANGED <<client, talk, history, waiting, gate, well, log>>

GiveUp ==
  /\ request.at = "picking" /\ (Pickable = {} \/ request.rotation = MaxRotate)
  /\ request' = Ended(request.last)
  /\ UNCHANGED <<client, talk, history, waiting, gate, well, log>>

\* Midnight, and accounts that have rested.
Midnight ==
  /\ gate /\ request.at = "none" /\ gate' = FALSE
  /\ UNCHANGED <<client, talk, history, waiting, request, well, log>>
Recover ==
  /\ well # client.accounts /\ request.at = "none" /\ well' = client.accounts
  /\ UNCHANGED <<client, talk, history, waiting, request, gate, log>>

TalkNext ==
  \/ Say \/ Return \/ Fail \/ Notice \/ NewTalk
  \/ Send \/ Call \/ Succeed \/ Refuse \/ Unreachable \/ GiveUp \/ Midnight \/ Recover
TalkSpec == TalkInit /\ [][TalkNext]_talkVars

-----------------------------------------------------------------------------
(* Properties *)

Sending == request.at = "calling"

\* Upstream refuses a history whose calls and results do not stand together, and with it every
\* message that follows.  Whatever a tool did and whatever the client put in between, behind a
\* message with calls stand their results, one for each, and no result stands anywhere else
\* (tool_pairing.go).
Follow(msgs, i) ==
  LET n == Cardinality(IdsOf(msgs[i]))
      block == SubSeq(msgs, i + 1, IF i + n <= Len(msgs) THEN i + n ELSE Len(msgs))
  IN /\ {m.of : m \in {r \in ToSet(block) : r.role = "tool"}} = IdsOf(msgs[i])
     /\ Len(block) = n
CallsMeetResults ==
  Sending =>
    LET msgs == request.sent.messages
        headed == {i \in DOMAIN msgs : HasCalls(msgs[i])}
    IN /\ \A i \in headed : Follow(msgs, i)
       /\ \A k \in DOMAIN msgs : msgs[k].role = "tool" =>
            \E i \in headed : i < k /\ k <= i + Cardinality(IdsOf(msgs[i]))

\* What the user and the assistant said arrives: every text, in its order, masked at most; and the
\* results of tools whose calls arrive are those of the history.  Prompts, pairing, filling in and
\* sanitizing take away nothing else.
Heard(msgs, roles) == Each(LAMBDA m : <<m.role, Clean(m.content), m.image # Absent>>,
                           Among(msgs, {m \in ToSet(msgs) : m.role \in roles}))
NothingSaidIsLost ==
  Sending =>
    LET msgs == request.sent.messages
    IN /\ Heard(msgs, {"user", "assistant"}) = Heard(history, {"user", "assistant"})
       /\ Answered(msgs) = Called(history) \cap Answered(history)

\* No fingerprint leaves the gateway in a text, in reasoning_content or in arguments when sanitizing
\* is on, not even one that filling in the reasoning has put there (payload.go).
NoFingerprintLeaves ==
  Sending /\ client.sanitize =>
    \A m \in ToSet(request.sent.messages) :
      /\ Marked \notin {m.content, m.reasoning_content}
      /\ \A c \in ToSet(m.calls) : c.args # Marked

\* Upstream counts by X-Conversation-Request-ID.  All calls of one turn have the same, with other
\* accounts, after failures, results of tools and a degraded prompt; two turns of a conversation do
\* not, even if the user says the same again; nor do two conversations with names (session/ids.go).
OneTurnOneRequest ==
  client.header = Blank =>
    \A e, f \in log :
      e.talk = f.talk \/ client.named # "no" =>
        ((e.id = f.id) <=> (e.talk = f.talk /\ e.turn = f.turn))

\* What upstream says of the request alone (it is too long, its image or its text is refused) harms
\* no account and is tried with no other: the client is told at once, with a hint, unless the
\* degraded prompt is still to be tried.
OfTheRequest(a) ==
  /\ a.words \subseteq {"prompt", "image", "policy"}
  /\ a.code \notin {11102, 12153} /\ 12153 \notin a.digits     \* of a model, of a session
  /\ \/ a.status = 400 /\ (a.words # {} \/ a.code = 11135)
     \/ a.status \in {404, 413} /\ ("prompt" \in a.words \/ (a.code = 11115 /\ ~a.spaced))
RequestFaultsStayHere ==
  [][request'.last # request.last /\ OfTheRequest(request'.last) =>
       /\ well' = well
       /\ request'.at = "none" /\ Told(request'.last)[1] = 400
       /\ Hint(request'.last, HasImagePart(request.body), "images") # NoHint]_talkVars
=============================================================================
