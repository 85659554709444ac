------------------------- MODULE FailsafeStoreProofs -------------------------
(***************************************************************************)
(* FailsafeStore keeps its promise for every set of images and every SVN:  *)
(* Safe, together with the type of the floor, is inductive.                *)
(***************************************************************************)
EXTENDS FailsafeStore, TLAPS

IInv == Safe /\ floor \in Nat

\* A flash starts with two complete copies above the floor.
LEMMA StoreInit == StoreAssumption /\ Init => IInv
  BY DEF StoreAssumption, Init, IInv, Safe

\* No operation on a flash breaks the promise.
LEMMA StoreStep == StoreAssumption /\ IInv /\ [Next]_store => IInv'
<1> SUFFICES ASSUME StoreAssumption, IInv, [Next]_store PROVE IInv'
  OBVIOUS
<1> USE DEF StoreAssumption, IInv, Safe
<1>1. CASE TakeApart
  BY <1>1 DEF TakeApart
<1>2. CASE Install
  BY <1>2 DEF Install, Allowed
<1>3. CASE Discard
  BY <1>3 DEF Discard
<1>4. CASE Promote
  BY <1>4 DEF Promote
<1>5. CASE Raise
  <2>1. Svn[active] \in Nat /\ Svn[recovery] \in Nat
    BY <1>5 DEF Raise
  <2>2. floor' \in Nat /\ floor' <= Svn[active]
    BY <1>5, <2>1 DEF Raise
  <2> QED
    BY <1>5, <2>1, <2>2 DEF Raise
<1>6. CASE UNCHANGED store
  BY <1>6 DEF store
<1> QED
  BY <1>1, <1>2, <1>3, <1>4, <1>5, <1>6 DEF Next

\* One of the two copies of a flash is complete at any time, and no complete
\* copy is below the anti-rollback floor.
THEOREM StoreSafe ==
  ASSUME StoreAssumption PROVE Spec => []Safe
<1>1. IInv => Safe
  BY DEF IInv
<1> QED
  BY StoreInit, StoreStep, <1>1, PTL DEF Spec
=============================================================================
