------------------------------- MODULE Atomic -------------------------------
(***************************************************************************)
(* What the sharded server promises its clients: it behaves as ONE store  *)
(* in which every request takes effect atomically, at one instant between *)
(* the moment the client sends it and the moment the client reads the     *)
(* reply.  A client has at most one request outstanding, because a       *)
(* connection awaits each reply before it parses its next frame.          *)
(*                                                                         *)
(* Handle(kv, r) is the single-store semantics of request r: the store    *)
(* after it and its reply, as [store, out].                               *)
(***************************************************************************)
CONSTANTS
    Clients,     \* the connections
    Keys,
    Requests,    \* the requests clients send
    NoValue,
    Handle(_, _)

VARIABLES
    kv,       \* the one store: key -> entry or NoValue
    pending,  \* pending[c]: the request c sent and has not read the reply of
    answer,   \* answer[c]: that request's reply, once it has taken effect
    reply     \* reply[c]: the last reply c read

avars == <<kv, pending, answer, reply>>

AInit ==
    /\ kv = [k \in Keys |-> NoValue]
    /\ pending = [c \in Clients |-> NoValue]
    /\ answer = [c \in Clients |-> NoValue]
    /\ reply = [c \in Clients |-> NoValue]

Submit(c, r) ==
    /\ pending[c] = NoValue
    /\ pending' = [pending EXCEPT ![c] = r]
    /\ UNCHANGED <<kv, answer, reply>>

\* The instant request c takes effect.
Apply(c) ==
    /\ pending[c] # NoValue /\ answer[c] = NoValue
    /\ LET x == Handle(kv, pending[c])
       IN  /\ kv' = x.store
           /\ answer' = [answer EXCEPT ![c] = x.out]
    /\ UNCHANGED <<pending, reply>>

Receive(c) ==
    /\ answer[c] # NoValue
    /\ reply' = [reply EXCEPT ![c] = answer[c]]
    /\ pending' = [pending EXCEPT ![c] = NoValue]
    /\ answer' = [answer EXCEPT ![c] = NoValue]
    /\ UNCHANGED kv

\* Time reaches the expiration instant of a key.
Elapse(k) ==
    /\ kv[k] # NoValue /\ kv[k].expire_at = "live"
    /\ kv' = [kv EXCEPT ![k].expire_at = "past"]
    /\ UNCHANGED <<pending, answer, reply>>

ANext ==
    \/ \E c \in Clients : \/ \E r \in Requests : Submit(c, r)
                          \/ Apply(c)
                          \/ Receive(c)
    \/ \E k \in Keys : Elapse(k)

ASpec == AInit /\ [][ANext]_avars
=============================================================================
