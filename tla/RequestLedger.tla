---------------------------- MODULE RequestLedger ----------------------------
(***************************************************************************)
(* What a match promises the accounts that send it requests, threads,      *)
(* views, NPCs and failures left out: a ledger in which a request is done  *)
(* at most once under its account and key, every change of the match is a  *)
(* done request that was accepted, and an answer that was given is in the  *)
(* ledger for good, to be given again.                                     *)
(***************************************************************************)
EXTENDS Integers

VARIABLES
  done,      \* requests done, with the key and the response of each
  answers,   \* the responses on their way to the clients
  changes    \* how often the match changed

Init == done = {} /\ answers = {} /\ changes = 0

\* A request is done under a fresh key; only an accepted one changes the match,
\* and its response names the change.
Do ==
  \E e \in done' \ done :
    /\ done' = done \cup {e}
    /\ \A d \in done : d.account # e.account \/ d.key # e.key
    /\ e.account = e.request.account /\ e.key = e.request.key
    /\ changes' = changes + (IF e.response.code = "ok" THEN 1 ELSE 0)
    /\ e.response.revision = changes'

\* Only what the ledger holds is answered, as often as the clients ask; an
\* answer may be lost.
Answer == answers' \subseteq {[request |-> e.request, response |-> e.response] : e \in done'}

vars == <<done, answers, changes>>

Next == (Do \/ UNCHANGED <<done, changes>>) /\ Answer
Spec == Init /\ [][Next]_vars
=============================================================================
