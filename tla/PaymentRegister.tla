--------------------------- MODULE PaymentRegister ---------------------------
(***************************************************************************)
(* What the idempotency ledger promises to the callers of send_payment and *)
(* shield_transparent_funds, whatever happens between them: a key is bound *)
(* once, only to a payment every transaction of which was acknowledged by  *)
(* the network, and every call that succeeds under a key answers with the  *)
(* payment the key is bound to.  Spending refines this module.             *)
(***************************************************************************)
CONSTANTS
  Callers,   \* the calls, each the owner of at most one payment
  Keys,      \* IdempotencyKey
  Nobody     \* no payment

VARIABLES
  bound,     \* bound[k]: the payment of key k
  complete,  \* payments all of whose transactions were acknowledged
  answer     \* answer[c]: what call c returned, <<key, payment>>

regVars == <<bound, complete, answer>>

RegInit ==
  /\ bound = [k \in Keys |-> Nobody]
  /\ complete = {}
  /\ answer = [c \in Callers |-> Nobody]

\* The last transaction of a payment is acknowledged.
Complete(p) ==
  /\ complete' = complete \cup {p}
  /\ UNCHANGED <<bound, answer>>

\* The key is bound by a call whose caller never hears of it.
Bind(k, p) ==
  /\ bound[k] = Nobody
  /\ p \in complete
  /\ bound' = [bound EXCEPT ![k] = p]
  /\ UNCHANGED <<complete, answer>>

\* A call succeeds: it binds the key, or finds it bound.
Answer(c, k, p) ==
  /\ answer[c] = Nobody
  /\ p \in complete
  /\ bound[k] \in {Nobody, p}
  /\ bound' = [bound EXCEPT ![k] = p]
  /\ answer' = [answer EXCEPT ![c] = <<k, p>>]
  /\ UNCHANGED complete

RegNext ==
  \/ \E p \in Callers : Complete(p)
  \/ \E k \in Keys, p \in Callers : Bind(k, p)
  \/ \E c \in Callers, k \in Keys, p \in Callers : Answer(c, k, p)

RegSpec == RegInit /\ [][RegNext]_regVars
=============================================================================
