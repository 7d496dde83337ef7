-------------------------- MODULE ApprovalRegister --------------------------
(***************************************************************************)
(* What the approval gate promises to the tool call that is blocked on it, *)
(* independently of votes, timers, the sweep, the queue and its table: an  *)
(* approval is opened once, comes to one verdict, keeps it, and the caller *)
(* is told that verdict and nothing else.  ApprovalGate implements this.   *)
(***************************************************************************)
CONSTANT Approvals

VARIABLES
  verdict,   \* approval -> "NONE" | "PENDING" | a final status
  answer     \* approval -> "NONE" | "WAITING" | what the caller was told | "LOST"

Final == {"APPROVED", "REJECTED", "TIMEOUT"}

TypeOK ==
  /\ verdict \in [Approvals -> {"NONE", "PENDING"} \cup Final]
  /\ answer \in [Approvals -> {"NONE", "WAITING", "LOST"} \cup Final]

Init ==
  /\ verdict = [a \in Approvals |-> "NONE"]
  /\ answer = [a \in Approvals |-> "NONE"]

\* A dangerous tool call opens an approval and blocks.
Open(a) ==
  /\ verdict[a] = "NONE"
  /\ verdict' = [verdict EXCEPT ![a] = "PENDING"]
  /\ answer' = [answer EXCEPT ![a] = "WAITING"]

\* Full permission for the session: settled and answered at once.
OpenApproved(a) ==
  /\ verdict[a] = "NONE"
  /\ verdict' = [verdict EXCEPT ![a] = "APPROVED"]
  /\ answer' = [answer EXCEPT ![a] = "APPROVED"]

\* Any number of pending approvals settle together, each caller told its own.
Settle(S) ==
  /\ \A a \in S : verdict[a] = "PENDING"
  /\ \E v \in [S -> Final] :
       verdict' = [a \in Approvals |-> IF a \in S THEN v[a] ELSE verdict[a]]
  /\ answer' = [a \in Approvals |->
                  IF a \in S /\ answer[a] = "WAITING" THEN verdict'[a] ELSE answer[a]]

\* The process dies: callers vanish and what was pending is rejected by default.
Die ==
  /\ verdict' = [a \in Approvals |->
                   IF verdict[a] = "PENDING" THEN "TIMEOUT" ELSE verdict[a]]
  /\ answer' = [a \in Approvals |->
                  IF answer[a] = "WAITING" THEN "LOST" ELSE answer[a]]

Next ==
  \/ \E a \in Approvals : Open(a) \/ OpenApproved(a)
  \/ \E S \in SUBSET Approvals : Settle(S)
  \/ Die

Spec == Init /\ [][Next]_<<verdict, answer>>

-----------------------------------------------------------------------------
\* A caller that was told something was told the verdict of its approval, and
\* the verdict it was told is still the verdict (approvalGate.ts:366, 410).
ToldTheVerdict ==
  \A a \in Approvals : answer[a] \in Final => verdict[a] = answer[a]
=============================================================================
