----------------------------- MODULE ResultStream -----------------------------
(***************************************************************************)
(* What a query promises the program: pages arrive in the order of the     *)
(* server, none twice, no page the program needs is left out, and the      *)
(* stream reports its end only after the last of them.  Other pages may be *)
(* passed over.  The program may close the stream, or an error cut it off, *)
(* at any time.                                                            *)
(***************************************************************************)
EXTENDS Naturals, Sequences

CONSTANT Query

VARIABLES
  pages,  \* pages[q]: how many pages the server has for q
  needed, \* needed[q]: the numbers of the pages the program must get
  out,    \* out[q]: the pages it has received
  state   \* state[q]: "running", "complete" or "closed"

vars == <<pages, needed, out, state>>

Init ==
  /\ pages \in [Query -> Nat] /\ needed \in [Query -> SUBSET Nat]
  /\ out = [q \in Query |-> <<>>]
  /\ state = [q \in Query |-> "running"]

Received(q) == {out[q][i] : i \in DOMAIN out[q]}

Deliver(q) ==
  /\ state[q] = "running"
  /\ \E n \in 1 .. pages[q] :
       /\ \A m \in Received(q) : m < n
       /\ \A m \in needed[q] : m < n => m \in Received(q)
       /\ out' = [out EXCEPT ![q] = Append(@, n)]
  /\ UNCHANGED <<pages, needed, state>>

Complete(q) ==
  /\ state[q] = "running" /\ needed[q] \subseteq Received(q)
  /\ state' = [state EXCEPT ![q] = "complete"]
  /\ UNCHANGED <<pages, needed, out>>

Close(q) ==
  /\ state[q] # "closed"
  /\ state' = [state EXCEPT ![q] = "closed"]
  /\ UNCHANGED <<pages, needed, out>>

Next == \E q \in Query : Deliver(q) \/ Complete(q) \/ Close(q)

Spec == Init /\ [][Next]_vars

=============================================================================
