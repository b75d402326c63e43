--------------------------- MODULE RequestTimeout ---------------------------
(***************************************************************************)
(* The timeout middleware around the handler of each request.              *)
(* Source: api/middleware/timeout.go.                                      *)
(*                                                                         *)
(* A request has two goroutines: the server's, which waits for the handler *)
(* or for the deadline, and the handler's, which goes on after the server  *)
(* has stopped waiting.  Both use the response writer.  A handler is the   *)
(* places it passes through; the modules of the handlers extend this one.  *)
(*                                                                         *)
(* The deadline of a route may pass at any moment, so the tables of routes *)
(* are left out; so are the routes without a timeout.                      *)
(***************************************************************************)
EXTENDS Naturals, FiniteSets

CONSTANT Requests   \* requests in progress at one time

ASSUME RequestsAssumption == IsFiniteSet(Requests)

VARIABLES
  main,     \* the server's goroutine: "waiting", or "returned" (no request)
  work,     \* the handler's goroutine
  at,       \* where the handler is; its last places are "answer" and "end"
  expired,  \* the deadline of the request has passed
  wrote,    \* tw.wroteHeader
  sent      \* what reached the writer before the server's goroutine returned

writerVars == <<main, work, expired, wrote, sent>>
timeoutVars == <<writerVars, at>>

\* "failed": it panicked and was recovered.  "wedged": it waits for ever for a
\* mutex that it holds.
WorkStates == {"on", "done", "failed", "wedged"}
Parts == {"header", "body", "503"}

TimeoutTypeOK ==
  /\ main \in [Requests -> {"waiting", "returned"}]
  /\ work \in [Requests -> WorkStates]
  /\ expired \in [Requests -> BOOLEAN]
  /\ wrote \in [Requests -> BOOLEAN]
  /\ sent \in [Requests -> SUBSET Parts]
  /\ \A r \in Requests :
       /\ (at[r] = "end") = (work[r] # "on")
       /\ wrote[r] => at[r] \in {"answer", "end"}
       /\ work[r] = "wedged" => ~wrote[r]

TimeoutInit ==
  /\ main = [r \in Requests |-> "returned"]
  /\ work = [r \in Requests |-> "done"]
  /\ at = [r \in Requests |-> "end"]
  /\ expired = [r \in Requests |-> FALSE]
  /\ wrote = [r \in Requests |-> TRUE]
  /\ sent = [r \in Requests |-> {"header", "body"}]

\* r.Context() is done: the deadline has passed, or cancel() has run.
CtxDone(r) == expired[r] \/ main[r] = "returned"

\* The mutex of the response writer is free.  Every other use of it is one step.
MuFree(r) == work[r] # "wedged"

\* What is written to w after ServeHTTP has returned reaches nobody who waits.
Sends(r, part) ==
  sent' = IF main[r] = "waiting" THEN [sent EXCEPT ![r] = @ \cup {part}] ELSE sent
-----------------------------------------------------------------------------
(* The server's goroutine.                                                  *)

\* A request that a handler takes up at its place first.  One that waits for
\* ever is left behind: the server goes on without it.
Serve(r, first) ==
  /\ work[r] # "on" /\ (main[r] = "returned" \/ work[r] = "wedged")
  /\ at' = [at EXCEPT ![r] = first]
  /\ main' = [main EXCEPT ![r] = "waiting"]
  /\ work' = [work EXCEPT ![r] = "on"]
  /\ expired' = [expired EXCEPT ![r] = FALSE]
  /\ wrote' = [wrote EXCEPT ![r] = FALSE]
  /\ sent' = [sent EXCEPT ![r] = {}]

Deadline(r) ==
  /\ main[r] = "waiting" /\ ~expired[r]
  /\ expired' = [expired EXCEPT ![r] = TRUE]
  /\ UNCHANGED <<main, work, at, wrote, sent>>

\* case <-done.
ReturnDone(r) ==
  /\ main[r] = "waiting" /\ work[r] \in {"done", "failed"}
  /\ main' = [main EXCEPT ![r] = "returned"]
  /\ UNCHANGED <<work, at, expired, wrote, sent>>

\* Mutant of Refusal: the header of the handler is not looked for.
RefusalAlways(r) == {"503"}

\* The 503, unless the handler has begun to answer.
Refusal(r) == IF wrote[r] THEN {} ELSE {"503"}

\* case <-ctx.Done(), which select may also choose when done is closed.  The
\* 503 goes to w and leaves wroteHeader as it is.
ReturnTimeout(r) ==
  /\ main[r] = "waiting" /\ expired[r] /\ MuFree(r)
  /\ main' = [main EXCEPT ![r] = "returned"]
  /\ sent' = [sent EXCEPT ![r] = @ \cup Refusal(r)]
  /\ UNCHANGED <<work, at, expired, wrote>>
-----------------------------------------------------------------------------
(* The handler's goroutine.                                                 *)

\* The handler of r goes on from one place to another.
Goes(r, from, to) ==
  /\ work[r] = "on" /\ at[r] = from
  /\ at' = [at EXCEPT ![r] = to]
  /\ UNCHANGED writerVars

WriteHeader(r) ==
  /\ work[r] = "on" /\ at[r] = "answer" /\ ~wrote[r]
  /\ wrote' = [wrote EXCEPT ![r] = TRUE]
  /\ Sends(r, "header")
  /\ UNCHANGED <<main, work, at, expired>>

\* The bytes are written after the mutex is given back; then the handler ends.
WriteBody(r) ==
  /\ work[r] = "on" /\ at[r] = "answer" /\ wrote[r]
  /\ work' = [work EXCEPT ![r] = "done"]
  /\ at' = [at EXCEPT ![r] = "end"]
  /\ Sends(r, "body")
  /\ UNCHANGED <<main, expired, wrote>>

\* Mutant of Recovered: nobody is told that the handler has ended.
RecoveredOpen(r) == "on"

\* Mutant of Recovered: the mutex is kept after the header, too.
RecoveredHolding(r) == "wedged"

\* The recovery locks tw.mu and, before any header, calls WriteHeader, which
\* locks it again.
Recovered(r) == IF wrote[r] THEN "failed" ELSE "wedged"

Panic(r) ==
  /\ work[r] = "on"
  /\ work' = [work EXCEPT ![r] = Recovered(r)]
  /\ at' = [at EXCEPT ![r] = "end"]
  /\ UNCHANGED <<main, expired, wrote, sent>>

Middleware(r) ==
  \/ Deadline(r) \/ ReturnDone(r) \/ ReturnTimeout(r)
  \/ WriteHeader(r) \/ WriteBody(r)

\* The middleware around a handler with places P, of which nothing is known but
\* that it does not touch the writer before it answers.  The modules of the
\* handlers are of this form.
TimeoutNext(P) ==
  \E r \in Requests :
    \/ \E first \in P \ {"answer", "end"} : Serve(r, first)
    \/ \E from \in P \ {"answer", "end"}, to \in P \ {"end"} : Goes(r, from, to)
    \/ Panic(r)
    \/ Middleware(r)

TimeoutSpec(P) == TimeoutInit /\ [][TimeoutNext(P)]_timeoutVars
-----------------------------------------------------------------------------
\* A client that is answered is answered once: by the handler, whole; or by the
\* 503, after the deadline; or with a header alone, which only the deadline or a
\* panic can have cut off -- in every order of the two goroutines, with a select
\* that may take either case, and a handler that goes on after the 503.
AnsweredOnce ==
  \A r \in Requests : main[r] = "returned" =>
    \/ sent[r] = {"header", "body"}
    \/ sent[r] = {"503"} /\ expired[r]
    \/ sent[r] = {"header"} /\ (expired[r] \/ work[r] = "failed")

\* The handler has panicked before its header, and the recovery waits for the
\* mutex it holds.
PanickedSilently(r) == work[r] = "wedged" /\ sent[r] = {}

\* A request ends, by its deadline if the handler does not end it, unless the
\* handler panicked before it wrote a header: then nobody ever answers.
EndsOrPanicked ==
  \A r \in Requests :
    main[r] = "waiting" ~> (main[r] = "returned" \/ PanickedSilently(r))
=============================================================================
