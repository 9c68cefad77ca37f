------------------------------- MODULE LSPClient -------------------------------
(***************************************************************************)
(* The language-server tool that the workers of one `shirakami analyze`    *)
(* share: Execute calls, the start of the server under t.mu, and the Close *)
(* deferred to the end of the session.  t.mu is a Go mutex: a goroutine    *)
(* that locks it while it holds it waits like any other.  The first        *)
(* request a server gets is the initialize request of ensureStarted; what  *)
(* Execute does after it is modelled up to the request that follows.       *)
(***************************************************************************)
EXTENDS Naturals

CONSTANTS
    Caller,    \* the goroutines of the session
    None,      \* nobody, not one of Caller
    MaxCalls   \* bound: calls of the tool

VARIABLES
    mu,        \* the goroutine that holds t.mu
    started,   \* t.started
    pc,        \* where each call is
    calls,     \* calls made, up to MaxCalls
    session    \* "open", "closing", or "closed"

vars == <<mu, started, pc, calls, session>>

At(c, place) == pc' = [pc EXCEPT ![c] = place]
Unlock == mu' = None

Init ==
    /\ mu = None /\ started = FALSE
    /\ pc = [c \in Caller |-> "idle"] /\ calls = 0
    /\ session = "open"

\* Execute with valid input; with any other it returns an error at once.
Execute(c) ==
    /\ pc[c] = "idle" /\ session = "open" /\ calls < MaxCalls
    /\ At(c, "lock") /\ calls' = calls + 1
    /\ UNCHANGED <<mu, started, session>>

Lock(c) ==
    /\ pc[c] = "lock" /\ mu = None
    /\ mu' = c /\ At(c, "ensure")
    /\ UNCHANGED <<started, calls, session>>

\* The server runs: Execute goes on to its own request.
Running(c) ==
    /\ pc[c] = "ensure" /\ started
    /\ Unlock /\ At(c, "request")
    /\ UNCHANGED <<started, calls, session>>

\* The server, if there was one, has died, and another is not on the PATH or
\* does not start.
StartFails(c) ==
    /\ pc[c] = "ensure"
    /\ started' = FALSE /\ Unlock /\ At(c, "idle")
    /\ UNCHANGED <<calls, session>>

\* ensureStarted starts the server and, still holding t.mu, calls sendRequest.
Start(c) ==
    /\ pc[c] = "ensure"
    /\ started' = TRUE /\ At(c, "request")
    /\ UNCHANGED <<mu, calls, session>>

\* sendRequest locks t.mu, writes, unlocks and reads to its reply, or fails.
SendRequest(c) ==
    /\ pc[c] = "request" /\ mu = None
    /\ At(c, "idle")
    /\ UNCHANGED <<mu, started, calls, session>>

\* lspManager.Close, when the command returns: the process is killed under t.mu.
Closing ==
    /\ session = "open" /\ \A c \in Caller : pc[c] = "idle"
    /\ session' = "closing"
    /\ UNCHANGED <<mu, started, pc, calls>>

Close ==
    /\ session = "closing" /\ mu = None
    /\ session' = "closed" /\ started' = FALSE
    /\ UNCHANGED <<mu, pc, calls>>

Step(c) == Lock(c) \/ Running(c) \/ StartFails(c) \/ Start(c) \/ SendRequest(c)

Next == Closing \/ Close \/ \E c \in Caller : Execute(c) \/ Step(c)

\* Goroutines are scheduled; nobody has to call.
Spec == Init /\ [][Next]_vars /\ \A c \in Caller : WF_vars(Step(c))

\* The server is there for several tool calls of one session: every call of the
\* shared tool returns, with an answer or an error.
CallsReturn == \A c \in Caller : pc[c] # "idle" ~> pc[c] = "idle"
===============================================================================
