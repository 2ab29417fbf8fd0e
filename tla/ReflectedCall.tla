--------------------------- MODULE ReflectedCall ---------------------------
(***************************************************************************)
(* What the inverted-call driver promises, with no driver in it: a client  *)
(* calls, some service thread accepts the call, the same thread answers    *)
(* it, and the client's call returns.  The queues, locks and request       *)
(* identifiers of OsrComm are one way to keep this promise.                *)
(***************************************************************************)
CONSTANTS
  Clients,   \* application threads that read or write the data device
  Workers,   \* service threads that get requests and send responses
  Nil        \* no client

VARIABLES
  call,      \* what each client sees of its own call
  serving    \* the client a service thread has accepted and not yet answered

vars == <<call, serving>>

Init ==
  /\ call = [c \in Clients |-> "idle"]
  /\ serving = [w \in Workers |-> Nil]

Call(c) ==
  /\ call[c] = "idle"
  /\ call' = [call EXCEPT ![c] = "waiting"]
  /\ UNCHANGED serving

\* Each waiting call is accepted by one thread at most.
Accept(w, c) ==
  /\ serving[w] = Nil
  /\ call[c] = "waiting"
  /\ \A v \in Workers : serving[v] # c
  /\ serving' = [serving EXCEPT ![w] = c]
  /\ UNCHANGED call

Answer(w) ==
  /\ serving[w] # Nil
  /\ call' = [call EXCEPT ![serving[w]] = "answered"]
  /\ serving' = [serving EXCEPT ![w] = Nil]

Return(c) ==
  /\ call[c] = "answered"
  /\ call' = [call EXCEPT ![c] = "idle"]
  /\ UNCHANGED serving

Next ==
  \/ \E c \in Clients : Call(c) \/ Return(c)
  \/ \E w \in Workers : Answer(w) \/ \E c \in Clients : Accept(w, c)

Spec == Init /\ [][Next]_vars
=============================================================================
