------------------------------- MODULE StreamTask -------------------------------
(***************************************************************************)
(* The life of a stream task of grpc/client.ts as the client around it sees *)
(* it, for the raw subscriptions of subscribeTransactions and, abstracted,  *)
(* for the DEX subscription that DexSubscription models in detail.  A task  *)
(* is a record:                                                             *)
(*   phase      opening (client.subscribe), writing (the request), reading, *)
(*              waiting (draining or backing off), done                     *)
(*   cancelled  isCancelled                                                 *)
(*   holder     streamHolder.current is a stream                            *)
(*   deaf       the cancelled stream said goodbye before anyone listened    *)
(* Each step relates a task t to the task u it becomes.                     *)
(***************************************************************************)

TaskPhases == {"opening", "writing", "reading", "waiting", "done"}

Tasks == [phase : TaskPhases, cancelled : BOOLEAN, holder : BOOLEAN, deaf : BOOLEAN]

Fresh == [phase |-> "opening", cancelled |-> FALSE, holder |-> FALSE, deaf |-> FALSE]

\* client.subscribe() resolves with a stream; a cancelled task does not keep it.
Opened(t, u) ==
  /\ t.phase = "opening"
  /\ u = IF t.cancelled THEN [t EXCEPT !.phase = "waiting"]
                        ELSE [t EXCEPT !.phase = "writing", !.holder = TRUE]

\* The request is written: listeners are installed, and nothing else is looked at.
Written(t, u) == t.phase = "writing" /\ u = [t EXCEPT !.phase = "reading"]

\* A cancelled stream says goodbye while its request is still being written.
Deafened(t, u) == t.phase = "writing" /\ t.cancelled /\ u = [t EXCEPT !.deaf = TRUE]

\* subscribe(), the write or the stream fails, or the stream ends.
Lost(t, u) ==
  \/ /\ t.phase \in {"opening", "writing"}
     /\ u = [t EXCEPT !.phase = "waiting", !.deaf = FALSE]
  \/ /\ t.phase = "reading" /\ ~t.deaf
     /\ u = [t EXCEPT !.phase = "waiting", !.holder = FALSE]

\* The catch branch lets go of a stream whose setup failed.
LetGo(t, u) == t.phase = "waiting" /\ u = [t EXCEPT !.holder = FALSE]

Retry(t, u) ==
  /\ t.phase = "waiting" /\ ~t.cancelled /\ ~t.holder
  /\ u = [t EXCEPT !.phase = "opening"]

\* The loop is left, because of a cancel or without autoReconnect, and finally runs.
Ended(t, u) == t.phase = "waiting" /\ ~t.holder /\ u = [t EXCEPT !.phase = "done"]

Cancelled(t, u) ==
  /\ ~t.cancelled /\ t.phase # "done"
  /\ u = [t EXCEPT !.cancelled = TRUE, !.holder = FALSE]

TaskStep(t, u) ==
  Opened(t, u) \/ Written(t, u) \/ Deafened(t, u) \/ Lost(t, u) \/ LetGo(t, u)
    \/ Retry(t, u) \/ Ended(t, u)
=================================================================================
