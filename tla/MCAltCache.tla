------------------------------- MODULE MCAltCache -------------------------------
EXTENDS AltCache, TLC

CONSTANTS a, b, c

\* One table that grows and two that do not.  Nothing makes the chain publish them, so in
\* some behaviours a miss stays unavailable for ever.
MCMaxAddresses == (a :> 2 @@ b :> 1 @@ c :> 1)

Lookup(t, w, r) == [table |-> t, writable |-> w, readonly |-> r]

\* A transaction of two tables, one that needs the extension, one of a third.
MCTransactions ==
  {<<Lookup(a, <<>>, <<0>>), Lookup(b, <<0>>, <<>>)>>, <<Lookup(a, <<1, 0>>, <<>>)>>,
   <<Lookup(c, <<>>, <<0>>)>>}

MCPreloads == {<<a, b, a, c>>}
===============================================================================
