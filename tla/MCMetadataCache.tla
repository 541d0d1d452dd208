-------------------------- MODULE MCMetadataCache --------------------------
(* Instances of MetadataCache for TLC. One run covers three small worlds: an alias  *)
(* that is attached again, a catalog under two aliases, and two threads.             *)
EXTENDS MetadataCache, TLC

CONSTANTS c1, t1, t2, a1, a2, r1, r2

TwoThreads == t1 :> c1 @@ t2 :> c1

Changed(r, n) == \A k \in Key : definition[r][k].version <= n

Unused(r) == \A k \in Key : definition[r][k] = [version |-> 0, exists |-> FALSE]

First(alias, remote) == 1 \in Known => attachment[1] = [alias |-> alias, remote |-> remote]

\* a1 is attached to r1 and then again, to r1 or r2; one thread looks up.
Reattached ==
  /\ First(a1, r1)
  /\ \A o \in Known : attachment[o].alias = a1
  /\ Changed(r1, 1) /\ Changed(r2, IF 2 \in Known THEN 1 ELSE 0)
  /\ call[t2] = Idle

\* r1 is attached as a1 and then as a2; one thread looks up.
TwoAliases ==
  /\ First(a1, r1)
  /\ \A o \in Known : attachment[o].remote = r1
  /\ Changed(r1, 1) /\ Unused(r2)
  /\ call[t2] = Idle

\* r1 is attached as a1 and stays so; two threads of the connection look up.
Concurrent ==
  /\ First(a1, r1)
  /\ Known # {} => Known = {1} /\ attached[a1] = 1
  /\ Unused(r2)

\* Bound: what happens stays in one of the three.
Small == Reattached \/ TwoAliases \/ Concurrent

SmallInit == Init /\ Small
SmallNext == Next /\ Small'
SmallSpec == SmallInit /\ [][SmallNext]_vars
=============================================================================
