--------------------------- MODULE CountingFilter --------------------------
(***************************************************************************)
(* What a persistent filter with deletion promises its caller: a multiset  *)
(* of signatures, some of them safe from a power failure, that each call   *)
(* changes as its result says.  Nothing is said of buckets, tags or moves. *)
(* Module PMWormholeFilterCalls implements it.                             *)
(***************************************************************************)
EXTENDS Naturals

CONSTANT Sig

VARIABLES
  stored,   \* how many times each signature is stored
  safe,     \* the signatures a power failure cannot take
  call      \* the last call that returned, or the power failure since

vars == <<stored, safe, call>>

Returned(kind, s, ret) == [kind |-> kind, sig |-> s, ret |-> ret]
Event(kind) == [kind |-> kind]

Present == {s \in Sig : stored[s] > 0}

Init ==
  /\ stored = [s \in Sig |-> 0]
  /\ safe = {}
  /\ call = Event("clear")

\* A new filter, or the old one destroyed.
Clear ==
  /\ call' = Event("clear")
  /\ stored' = [s \in Sig |-> 0]
  /\ safe' = {}

\* A successful insertion adds to its own signature only.
Insert(s) ==
  /\ call' = Returned("insert", s, TRUE)
  /\ stored' = [stored EXCEPT ![s] = @ + 1]
  /\ safe \subseteq safe' /\ safe' \subseteq safe \cup {s}

\* A failed insertion takes nothing away; it may leave a second copy of some
\* other signature present.
FailedInsert(s) ==
  /\ call' = Returned("insert", s, FALSE)
  /\ \/ stored' = stored /\ safe' = safe
     \/ \E r \in Present \ {s} :
          /\ stored' = [stored EXCEPT ![r] = @ + 1]
          /\ safe \subseteq safe' /\ safe' \subseteq safe \cup {r}

\* A deletion takes one copy of its own signature.
Delete(s) ==
  /\ call' = Returned("delete", s, TRUE)
  /\ s \in Present
  /\ stored' = [stored EXCEPT ![s] = @ - 1]
  /\ safe \ {s} \subseteq safe' /\ safe' \subseteq safe

\* Data reaches the medium.
Harden ==
  /\ UNCHANGED <<call, stored>>
  /\ safe \subseteq safe' /\ safe' \subseteq Present

\* A power failure keeps what is safe.  What else it leaves (an unpersisted
\* insertion or deletion may or may not have reached the medium) is safe now.
PowerFailure ==
  /\ call' = Event("power failure")
  /\ stored' \in [Sig -> Nat]
  /\ safe \subseteq safe'
  /\ safe' = Present'

Next ==
  \/ Clear
  \/ \E s \in Sig : Insert(s) \/ FailedInsert(s) \/ Delete(s)
  \/ Harden
  \/ PowerFailure

Spec == Init /\ [][Next]_vars

=============================================================================
