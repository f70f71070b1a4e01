------------------------ MODULE PMWormholeFilterCalls ----------------------
(***************************************************************************)
(* The persistent-memory filter with a history variable that records the   *)
(* last call that returned, shown to implement CountingFilter.             *)
(***************************************************************************)
EXTENDS PMWormholeFilter

VARIABLE call

Abstract ==
  INSTANCE CountingFilter WITH
    stored <- [s \in Sig |-> Cardinality(SlotsOf(cache, s) \ Scratch)],
    safe   <- {s \in Sig : Durable(s)}

CInit == Init /\ call = Abstract!Event("clear")

CNext ==
  \/ /\ pmwormholefilter_init \/ pmwormholefilter_destroy
     /\ call' = Abstract!Event("clear")
  \/ /\ \/ \E key \in Keys : pmwormholefilter_insert(key)
        \/ insert_displace
        \/ \E b \in Bucket : Evict(b)
     /\ UNCHANGED call
  \/ insert_fail  /\ call' = Abstract!Returned("insert", op.sig, FALSE)
  \/ insert_place /\ call' = Abstract!Returned("insert", op.sig, TRUE)
  \/ \E key \in Keys :
       /\ pmwormholefilter_delete(key)
       /\ call' = Abstract!Returned("delete", SigOf(key), TRUE)
  \/ Crash /\ call' = Abstract!Event("power failure")

CSpec == CInit /\ [][CNext]_<<vars, call>>

\* An insertion runs on to its return, as in FairSpec of PMWormholeFilter.
CFairSpec == CSpec /\ WF_vars(InsertStep)

\* The filter is a multiset of signatures: an insertion that returns true adds
\* one copy of its signature and touches no other, one that returns false at
\* most duplicates another key's tag, a deletion that returns true takes one
\* copy of its own; displacements and evictions are invisible, and a power
\* failure keeps every signature with a persisted copy.
ImplementsCountingFilter == Abstract!Spec

=============================================================================
