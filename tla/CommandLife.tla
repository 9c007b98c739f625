------------------------------ MODULE CommandLife ------------------------------
(***************************************************************************)
(* The contract between whoever sends a command to the window's mailbox    *)
(* and the window that runs it.  The two share a CommandCancellation token *)
(* (bootty-control/src/command/cancellation.rs) and a response channel.    *)
(* A command starts at most once, while it is unanswered and not           *)
(* cancelled; a command that was answered as stopped never starts.         *)
(***************************************************************************)
CONSTANT Ids

VARIABLES token,     \* pending, started or cancelled
          response   \* none before the submission, empty, then the answer

\* Answers that say the command did not run, and the others.
Stops == {"cancelled", "exceeded", "shutdown"}
Answers == Stops \cup {"ended", "closed"}

Init == /\ token = [i \in Ids |-> "pending"]
        /\ response = [i \in Ids |-> "none"]

Submit(i) == /\ response[i] = "none"
             /\ response' = [response EXCEPT ![i] = "empty"]
             /\ UNCHANGED token

\* cancel(): wins only over a pending token.
Cancel(i) == /\ token[i] = "pending"
             /\ token' = [token EXCEPT ![i] = "cancelled"]
             /\ UNCHANGED response

\* try_start(): wins only over a pending token.
Start(i) == /\ token[i] = "pending" /\ response[i] = "empty"
            /\ token' = [token EXCEPT ![i] = "started"]
            /\ UNCHANGED response

\* The window answers, and may cancel what it answers as stopped.
Answer(i) == /\ response[i] = "empty"
             /\ \E a \in Answers : /\ response' = [response EXCEPT ![i] = a]
                                   /\ a \in Stops => token[i] # "started"
             /\ \/ UNCHANGED token
                \/ token[i] = "pending" /\ token' = [token EXCEPT ![i] = "cancelled"]

\* Several commands may be cancelled at once.
CancelSome == /\ token' \in [Ids -> {"pending", "started", "cancelled"}]
              /\ \A i \in Ids : token'[i] # token[i]
                                => token[i] = "pending" /\ token'[i] = "cancelled"
              /\ UNCHANGED response

Next == CancelSome \/ \E i \in Ids : Submit(i) \/ Cancel(i) \/ Start(i) \/ Answer(i)

Spec == Init /\ [][Next]_<<token, response>>
================================================================================
