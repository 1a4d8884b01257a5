------------------------- MODULE ConnectionAttempts -------------------------
(***************************************************************************)
(* The two nested retry loops of the tungstenite client                    *)
(* (src/rpc/tungstenite_client/client.rs):                                 *)
(*                                                                         *)
(*   - attempt_connection_until dials the node until a connection opens or *)
(*     max_attempts + 1 dials have failed;                                 *)
(*   - the thread of start_rpc_client_thread runs subscribe_to_server      *)
(*     again and again while its error is one do_reconnect accepts and     *)
(*     its own counter has not passed max_attempts.                        *)
(*                                                                         *)
(* Both counters are a Rust u8, which wraps in a release build.  (With     *)
(* overflow checks the addition panics instead, and the thread ends.)      *)
(* What happens inside a connected session is left to                      *)
(* TungsteniteSubscription; here a session just ends with one of the       *)
(* errors it can end with, or goes on for ever.                            *)
(***************************************************************************)
EXTENDS Integers

CONSTANTS
  MaxAttempts,     \* max_attempts of TungsteniteRpcClient
  U8Max            \* u8::MAX

ASSUME AttemptsAssumption ==
  /\ U8Max \in Nat
  /\ MaxAttempts \in 0..U8Max

VARIABLES
  phase,           \* where the thread is
  thread_attempt,  \* current_attempt of start_rpc_client_thread
  connect_attempt, \* current_attempt of attempt_connection_until
  dials            \* history: how often connect_with_config was called

threadVars == <<phase, thread_attempt, connect_attempt, dials>>

Phase == {"connecting", "connected", "failed", "stopped"}

RpcClientError ==
  {"Serde", "ConnectionClosed", "Client", "Send", "ConnectionAttemptsExceeded"}

\* The errors subscribe_to_server returns once the connection is open.
SessionError == RpcClientError \ {"ConnectionAttemptsExceeded"}

\* As many dials as max_attempts + 1 sessions of max_attempts + 1 dials make.
DialLimit == (MaxAttempts + 1) * (MaxAttempts + 1)

-----------------------------------------------------------------------------
\* Variant of do_reconnect that treats an exhausted connection attempt like
\* a lost connection.
ReconnectOnAnyError(error) == error # "Send"

\* Variant of do_reconnect that does not come back from a closed connection.
ClosedIsFatal(error) == error \in {"Serde", "Client"}

\* fn do_reconnect
do_reconnect(error) == error \in {"Serde", "ConnectionClosed", "Client"}

\* Variant of the loop conditions that runs one round too many.
OneRoundMore(attempt) == attempt <= MaxAttempts + 1

\* The condition of both while loops: current_attempt <= max_attempts.
WithinAttempts(attempt) == attempt <= MaxAttempts

\* current_attempt += 1 on a u8
Increment(attempt) == (attempt + 1) % (U8Max + 1)

\* The history saturates one above the limit, which bounds the model.
CountDial == dials' = IF dials <= DialLimit THEN dials + 1 ELSE dials

\* subscribe_to_server returned Err(error): the thread's loop goes on or breaks.
ReturnError(error) ==
  phase' = IF do_reconnect(error) THEN "failed" ELSE "stopped"

-----------------------------------------------------------------------------
\* The thread has just been spawned.
ThreadInit ==
  /\ phase = "connecting"
  /\ thread_attempt = 0
  /\ connect_attempt = 0
  /\ dials = 0

ConnectionOpens ==
  /\ phase = "connecting"
  /\ phase' = "connected"
  /\ CountDial
  /\ UNCHANGED <<thread_attempt, connect_attempt>>

\* Variant of the dialling loop that starts its count over instead of giving up.
DialForEver ==
  /\ phase = "connecting"
  /\ CountDial
  /\ connect_attempt' = IF WithinAttempts(connect_attempt + 1) THEN connect_attempt + 1 ELSE 0
  /\ UNCHANGED <<phase, thread_attempt>>

\* A failed dial, the sleep after it and the test of the loop.
ConnectionRefused ==
  /\ phase = "connecting"
  /\ CountDial
  /\ UNCHANGED thread_attempt
  /\ connect_attempt' = Increment(connect_attempt)
  /\ IF WithinAttempts(connect_attempt')
       THEN UNCHANGED phase
       ELSE ReturnError("ConnectionAttemptsExceeded")

\* subscribe_to_server returns from its endless loop; it never returns Ok.
SessionEnds(error) ==
  /\ phase = "connected"
  /\ ReturnError(error)
  /\ UNCHANGED <<thread_attempt, connect_attempt, dials>>

\* The end of the thread's loop body and the test of the next round.
ThreadReconnects ==
  /\ phase = "failed"
  /\ thread_attempt' = Increment(thread_attempt)
  /\ connect_attempt' = 0
  /\ phase' = IF WithinAttempts(thread_attempt') THEN "connecting" ELSE "stopped"
  /\ UNCHANGED dials

ThreadNext ==
  \/ ConnectionOpens
  \/ ConnectionRefused
  \/ \E error \in SessionError : SessionEnds(error)
  \/ ThreadReconnects

\* A dial returns one way or the other, and the operating system schedules
\* the thread.  Nothing makes a session end.
ThreadFairness == WF_threadVars(ConnectionOpens \/ ConnectionRefused) /\ WF_threadVars(ThreadReconnects)

ThreadSpec == ThreadInit /\ [][ThreadNext]_threadVars /\ ThreadFairness

-----------------------------------------------------------------------------
\* No counter wraps.
NoWrap == MaxAttempts < U8Max

\* The counters stay within what the loops let them reach.
ThreadTypeOK ==
  /\ phase \in Phase
  /\ thread_attempt \in 0..(MaxAttempts + 1)
  /\ connect_attempt \in 0..(MaxAttempts + 1)
  /\ dials \in 0..(DialLimit + 1)

\* However sessions fail, the two nested loops together dial the node at most
\* (max_attempts + 1)^2 times before the thread of start_rpc_client_thread
\* ends.
DialsBounded == dials <= DialLimit

\* The thread ends, by running out of attempts or by an error do_reconnect
\* refuses, or it settles in one session that never fails: it does not
\* reconnect for ever (error.rs:34, "Exceeded maximum amount of connections").
StopsOrSettles == <>[](phase = "connected") \/ <>[](phase = "stopped")
=============================================================================
