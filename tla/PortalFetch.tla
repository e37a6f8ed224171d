---------------------------- MODULE PortalFetch ----------------------------
(***************************************************************************)
(* One call of the provider's HTTP helper, budgetedFetch                   *)
(* (providers/schoolsoft/net.ts): redirects are handed back by the sender, *)
(* and followed here, hop by hop, each hop a request of its own through    *)
(* the budget.  Who asks for what is transport.ts.                         *)
(***************************************************************************)
EXTENDS Naturals, Sequences

CONSTANTS
    Portal,        \* the portal's origin
    Elsewhere,     \* another one
    MaxRedirects   \* MAX_REDIRECTS

VARIABLES
    asked,     \* what the caller asked for
    requests,  \* the requests sent, in order
    answer     \* the status the caller got, or Pending

vars == <<asked, requests, answer>>

Pending == 0
Redirects == {301, 302, 303, 307, 308}
Statuses == Redirects \cup {200, 401, 500}

\* get, postJson and put follow; postWrite and the cookie exchange do not.
Calls == [method: {"GET", "PUT", "POST"}, write: {FALSE}, follow: {TRUE}]
         \cup [method: {"POST"}, write: {TRUE}, follow: BOOLEAN]
         \cup [method: {"GET"}, write: {FALSE}, follow: {FALSE}]

Request(method) ==
    [origin |-> Portal, method |-> method, body |-> method = "POST"]

TypeOK ==
    /\ asked \in Calls
    /\ requests \in Seq([origin: {Portal, Elsewhere}, method: {"GET", "PUT", "POST"},
                         body: BOOLEAN])
    /\ Len(requests) \in 1 .. MaxRedirects + 1
    /\ answer \in Statuses \cup {Pending}

Init ==
    /\ asked \in Calls
    /\ requests = <<Request(asked.method)>>
    /\ answer = Pending

\* nextHop(): 303 turns into a GET, a POST answered 301 or 302 as well, and a
\* GET has no body; the others repeat the request.
NextHop(request, status, origin) ==
    IF status = 303 \/ (request.method = "POST" /\ status \in {301, 302})
      THEN [origin |-> origin, method |-> "GET", body |-> FALSE]
      ELSE [request EXCEPT !.origin = origin]

\* Is an answer with this location followed?
Follows(status, origin) ==
    /\ asked.follow /\ ~asked.write
    /\ Len(requests) <= MaxRedirects
    /\ status \in Redirects /\ origin = Portal

Answered ==
    /\ answer = Pending
    /\ \E status \in Statuses, origin \in {Portal, Elsewhere} :
         IF Follows(status, origin)
           THEN /\ requests' = Append(requests,
                       NextHop(requests[Len(requests)], status, origin))
                /\ UNCHANGED answer
           ELSE answer' = status /\ UNCHANGED requests
    /\ UNCHANGED asked

Next == Answered

Spec == Init /\ [][Next]_vars

-----------------------------------------------------------------------------

\* The cookies and the token of a session go to the portal only, whatever a
\* chain of redirects says.
StaysAtThePortal == \A i \in DOMAIN requests : requests[i].origin = Portal

\* A request that changes data leaves once.
WritesAreSentOnce == asked.write => Len(requests) = 1

\* What was posted is not posted again where a redirect says "see there": once
\* a chain has turned to reading, it only reads, and sends no body along.
ReadsAfterSeeOther ==
    \A i, j \in DOMAIN requests :
        (i <= j /\ requests[i].method = "GET") =>
            (requests[j].method = "GET" /\ ~requests[j].body)
=============================================================================
