------------------------------ MODULE Answers -------------------------------
(***************************************************************************)
(* What the gateway reads from an answer of upstream that is no success    *)
(* (src/internal/upstream/client.go, hint.go), what that does to the       *)
(* account (src/internal/server/handler.go: applyErrorPolicy) and what the *)
(* client is told.                                                         *)
(*                                                                         *)
(* DATA.  An answer is its status, its business code (0 without one), the  *)
(* groups of words its text has, and the codes whose digits stand anywhere *)
(* else in the body, such as in a request id.  spaced: there is a blank    *)
(* behind the colon of "code".  reset: the text names the time of a reset. *)
(* wait: the numbers in the headers Retry-After, Retry-After-Ms and        *)
(* X-Ratelimit-Reset (as time from now), 0 for one that is not a number.   *)
(***************************************************************************)
EXTENDS Integers, Sequences, FiniteSets

\* retryAfterSanity, in the unit of wait
CONSTANT Sanity

Answer(status, code, words) ==
  [status |-> status, code |-> code, words |-> words, json |-> code # 0 \/ words # {},
   spaced |-> FALSE, digits |-> {}, reset |-> FALSE, wait |-> <<0, 0, 0>>]

-----------------------------------------------------------------------------
(* Classify *)

\* errorRule.hit: any of the words, wherever they stand.
Says(a, words) == a.words \cap words # {}
Mentions(a, code) == a.code = code \/ code \in a.digits
CodeMarker(a, code) == a.code = code
Compact(a, code) == a.code = code /\ ~a.spaced
HasBusinessCode(a, code) == a.json /\ a.code = code

IsCreditLimit(a) == a.status = 429 /\ HasBusinessCode(a, 14018)
IsModelBlocked(a) == a.status \in {400, 404} /\ a.json /\ (a.code = 11102 \/ Says(a, {"no_service"}))
IsModelRateLimit(a) == CodeMarker(a, 6004)
IsWafBlocked(a) == a.status = 403 /\ ~a.json
IsSessionDead(a) == Says(a, {"session"}) \/ Mentions(a, 12153)
IsPromptTooLong(a) == a.status \in {400, 404, 413} /\ (Says(a, {"prompt"}) \/ Compact(a, 11115))
IsImageInvalid(a) == a.status = 400 /\ (Says(a, {"image"}) \/ CodeMarker(a, 11135))
IsBadParams(a) == Says(a, {"params"}) \/ Compact(a, 11101)

\* The order of the rules: what is most particular, what ends an account, the status, the words, the rest.
Rules(a) ==
  << <<"ModelBlocked", IsModelBlocked(a)>>,
     <<"HardCredit", a.status = 402>>,
     <<"SessionDead", IsSessionDead(a)>>,
     <<"AccountFault", Says(a, {"illegal", "trial"})>>,
     <<"HardCredit", IsCreditLimit(a)>>,
     <<"SoftRate", a.status = 429>>,
     <<"HardCredit", Says(a, {"credit"})>>,
     <<"SoftRate", Says(a, {"rate"})>>,
     <<"PromptTooLong", IsPromptTooLong(a)>>,
     <<"NotFound", a.status = 404>>,
     <<"Server", a.status >= 500>>,
     <<"WafBlock", IsWafBlocked(a)>>,
     <<"ImageInvalid", IsImageInvalid(a)>>,
     <<"ContentBlocked", a.status >= 400 /\ Says(a, {"policy"})>>,
     <<"BadParams", a.status >= 400 /\ IsBadParams(a)>>,
     <<"Client", a.status >= 400>>,
     <<"None", TRUE>> >>
FirstRule(rules) ==
  rules[CHOOSE i \in DOMAIN rules : rules[i][2] /\ \A j \in 1..(i - 1) : ~rules[j][2]][1]

\* Mutant: a status of 404 is looked at before the text says that the prompt is too long.
ClassifyStatusFirst(a) ==
  LET r == Rules(a) IN FirstRule(SubSeq(r, 1, 8) \o <<r[10], r[9]>> \o SubSeq(r, 11, Len(r)))
Classify(a) == FirstRule(Rules(a))

\* doJSON: in an envelope that is no error by its status only the text is looked at.
ClassifyEnvelope(a) ==
  LET kind == Classify([a EXCEPT !.code = 0, !.digits = {}]) IN IF kind = "None" THEN "Client" ELSE kind

\* ParseRetryAfter: the first header with a sane number.
ParseRetryAfter(a) ==
  LET sane == {i \in DOMAIN a.wait : a.wait[i] > 0 /\ a.wait[i] <= Sanity}
  IN IF sane = {} THEN 0 ELSE a.wait[CHOOSE i \in sane : \A j \in sane : i <= j]

-----------------------------------------------------------------------------
(* What becomes of the account, the request and the client *)

\* applyErrorPolicy: what an account may no longer do.
Penalty(a) ==
  CASE Classify(a) \in {"HardCredit", "SoftRate", "WafBlock", "NotFound"} ->
         IF Classify(a) = "SoftRate" /\ a.reset /\ IsModelRateLimit(a) THEN "no_model" ELSE "rests"
    [] Classify(a) = "SessionDead" -> "disabled"
    [] Classify(a) = "AccountFault" -> IF Says(a, {"illegal"}) THEN "disabled" ELSE "rests"
    [] Classify(a) = "ModelBlocked" -> "no_model"
    [] Classify(a) \in {"Server", "Client"} -> "counted"
    [] OTHER -> "nothing"

\* Faults of the request: no account could do better.
IsFinal(a) == Classify(a) \in {"ContentBlocked", "PromptTooLong", "ImageInvalid"}

\* The status and code the client gets for the last answer.
Told(a) ==
  CASE Classify(a) = "ContentBlocked" -> <<400, "content_blocked">>
    [] Classify(a) = "PromptTooLong" -> <<400, "prompt_too_long">>
    [] Classify(a) = "ImageInvalid" -> <<400, "image_invalid">>
    [] Classify(a) = "SoftRate" -> <<429, "rate_limit_exceeded">>
    [] OTHER -> <<503, "no_healthy_account">>

NoHint == "none"
\* GatewayHint: the codes of rejected parameters and images before the kind.
Hint(a, hasImage, catalog) ==
  IF CodeMarker(a, 11133) \/ Says(a, {"requirements"})
  THEN IF hasImage /\ catalog = "no_images" THEN "other_model" ELSE "check_parameters"
  ELSE IF CodeMarker(a, 11135) \/ Says(a, {"image"}) THEN "real_image"
  ELSE IF Classify(a) \in {"None", "NotFound", "Server", "BadParams", "Client"} THEN NoHint
  ELSE Classify(a)

\* FrameKind: an error inside a stream is judged by its text as if it had come with status 400.
FrameKind(a) ==
  IF IsModelRateLimit(a) THEN "SoftRate"
  ELSE IF a.words = {} THEN "None"
  ELSE Classify([a EXCEPT !.status = 400, !.code = 0, !.digits = {}, !.json = FALSE])
=============================================================================
