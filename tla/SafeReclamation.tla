-------------------------- MODULE SafeReclamation --------------------------
(***************************************************************************)
(* What an owner of shared objects promises its readers, whatever means it *)
(* has to keep track of them: an object is reclaimed at most once, while   *)
(* no reader holds it, and is never handed out after that.                 *)
(***************************************************************************)
CONSTANTS Reader, Obj

VARIABLES built, reclaimed, pinned

vars == <<built, reclaimed, pinned>>

Init ==
  /\ built = {}
  /\ reclaimed = {}
  /\ pinned = [r \in Reader |-> {}]

\* Objects are built, and a reader is given some that exist.
Give(r, new, given) ==
  /\ new \cap built = {}
  /\ given \subseteq (built \cup new) \ reclaimed
  /\ built' = built \cup new
  /\ pinned' = [pinned EXCEPT ![r] = @ \cup given]
  /\ UNCHANGED reclaimed

\* A reader lets go of all it holds, and what nobody else holds may go.
Release(r, gone) ==
  /\ gone \subseteq built \ reclaimed
  /\ \A q \in Reader \ {r} : pinned[q] \cap gone = {}
  /\ reclaimed' = reclaimed \cup gone
  /\ pinned' = [pinned EXCEPT ![r] = {}]
  /\ UNCHANGED built

Next ==
  \E r \in Reader, objs \in SUBSET Obj :
    \/ \E given \in SUBSET Obj : Give(r, objs, given)
    \/ Release(r, objs)

Spec == Init /\ [][Next]_vars
=============================================================================
