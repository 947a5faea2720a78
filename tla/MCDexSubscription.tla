--------------------------- MODULE MCDexSubscription ---------------------------
(* DexSubscription on a short chain: three updates share a slot, so a replay   *)
(* can be caught between two of them that came before the first one the user   *)
(* got; the last slot pushes the first out of a dedupe window of one slot.     *)
EXTENDS DexSubscription

ShortChain == <<1, 1, 1, 3>>

\* Replay wanted and granted.
Replaying == {c \in AllConfigs : c.autoReconnect /\ c.replayOnReconnect /\ c.providerReplays}

\* A provider that refuses to replay.
Refusing == {[autoReconnect |-> TRUE, replayOnReconnect |-> TRUE,
              dropOldest |-> FALSE, providerReplays |-> FALSE]}
===============================================================================
