----------------------------- MODULE S2SClient -----------------------------
(***************************************************************************)
(* iiqapi: the clients of the S2S and of the reporting API, and how their  *)
(* errors are labelled.  A call is made by a goroutine under a context     *)
(* whose deadline may pass at any time.  A body is what its JSON is and    *)
(* its cttl; identifiers are left out.                                     *)
(***************************************************************************)
EXTENDS Durations

CONSTANTS
  Goroutines,
  Statuses,    \* status codes of responses
  Cttls,       \* values of cttl, in milliseconds
  NoCttl       \* a body without one

\* A response has one of the status codes of HTTP; an error without one has 0.
ASSUME ClientAssumption == Statuses \subseteq 100..999 /\ Cttls \subseteq Int

\* What a body is: blank, with identifiers, without, with data that is no
\* object, with data whose eids do not decode, with a field of a wrong type, or
\* no JSON at all.
BodyKinds == {"blank", "ids", "noIDs", "textData", "badEIDs", "badField", "noJSON"}

\* Of each goroutine, where its call stands and what it ended with: the kind
\* and status of its error, or its answer.  As history, whether the context had
\* expired, a response had come, and its body was read to the end.
VARIABLE call

NoCall == [at |-> "idle", api |-> "s2s", expired |-> FALSE, responded |-> FALSE,
           whole |-> FALSE, kind |-> "", status |-> 0, answer |-> "", cttl |-> NoCttl]

Is2xx(status) == 200 <= status /\ status < 300

-----------------------------------------------------------------------------
Goes(g, from, to) == call[g].at = from /\ call' = [call EXCEPT ![g].at = to]

\* &iiqapi.Error{Kind, Status}.
Fails(g, from, kind, status) ==
  /\ call[g].at = from
  /\ call' = [call EXCEPT ![g] = [@ EXCEPT !.at = "failed", !.kind = kind, !.status = status]]

StartCall(g, api) ==
  /\ call[g].at = "idle"
  /\ call' = [call EXCEPT ![g] = [NoCall EXCEPT !.at = "request", !.api = api]]

NewRequest(g) == Goes(g, "request", "do")
NewRequestFails(g) == Fails(g, "request", "request", 0)

\* The deadline of the context, or of the http.Client itself, whose error is a
\* DeadlineExceeded too, passes; after Do it shows in a failed read only.
DeadlinePasses(g) ==
  /\ call[g].at \in {"request", "do", "classify"} /\ ~call[g].expired
  /\ call' = [call EXCEPT ![g].expired = TRUE]

\* httpClient.Do fails, for whatever reason; the context is looked at after.
DoFails(g) == Goes(g, "do", "classify")
ClassifyError(g) == Fails(g, "classify", IF call[g].expired THEN "timeout" ELSE "transport", 0)

\* Do returns a response: a status that is not 2xx ends the call; the reporting
\* client reads no more than that.
DoResponds(g) == \E status \in Statuses :
  /\ call[g].at = "do"
  /\ call' = [call EXCEPT ![g] =
       IF ~Is2xx(status)
       THEN [@ EXCEPT !.at = "failed", !.kind = "status", !.status = status, !.responded = TRUE]
       ELSE [@ EXCEPT !.at = IF call[g].api = "report" THEN "answered" ELSE "read",
                      !.status = status, !.responded = TRUE, !.expired = FALSE]]

\* Mutant: the error is ignored and what was read, nothing, is a blank body.
MutReadFails(g) ==
  /\ call[g].at = "read"
  /\ call' = [call EXCEPT ![g] = [@ EXCEPT !.at = "answered", !.answer = "unresolved"]]

\* io.ReadAll fails: the deadline, a lost connection.
ReadFails(g) == Fails(g, "read", "body_read", call[g].status)

\* decodeResponse: first strictly, then with data of any kind, of which EIDs
\* makes no identifiers.
Decodes(kind) == kind \notin {"badField", "noJSON"}
AnswerIn(kind) ==
  IF kind = "blank" THEN "unresolved" ELSE IF kind = "ids" THEN "hit" ELSE "negative"

\* The whole body was read.
ReadBody(g) == \E kind \in BodyKinds, cttl \in Cttls \cup {NoCttl} :
  /\ call[g].at = "read"
  /\ call' = [call EXCEPT ![g] =
       IF Decodes(kind)
       THEN [@ EXCEPT !.at = "answered", !.whole = TRUE, !.answer = AnswerIn(kind),
                      !.cttl = IF kind = "blank" THEN NoCttl ELSE cttl]
       ELSE [@ EXCEPT !.at = "failed", !.kind = "parse"]]

\* Response.TTL.
TTL(cttl) == IF cttl = NoCttl THEN 0 ELSE OfMillis(cttl)

ClientStep(g) ==
  \/ NewRequest(g) \/ NewRequestFails(g) \/ DeadlinePasses(g)
  \/ DoFails(g) \/ ClassifyError(g) \/ DoResponds(g) \/ ReadFails(g) \/ ReadBody(g)
=============================================================================
