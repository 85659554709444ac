---------------------------- MODULE PfrFlowProofs ----------------------------
(***************************************************************************)
(* What PfrFlow guarantees, for every set of firmware, every SVN, and      *)
(* however often the power fails, timers expire, intents are posted and    *)
(* resets come.  Of a flash that nothing damages from outside              *)
(* (no bound in Limits allows "fault"):                                    *)
(*   RegionsKept          no region is ever given up                       *)
(*   FloorCovered         the SVN policy never outruns what is kept        *)
(*   OnlyAuthenticBoots   only authentic firmware is booted                *)
(*   FlashesAreFailsafe   each flash implements FailsafeStore.             *)
(* These follow from the inductive invariant FlashInv: a region is only    *)
(* incomplete while T-1 writes it, or after a power loss in that write     *)
(* until T-1 comes to its authentication again; meanwhile nobody runs who  *)
(* could change what it is restored from.  Of every flash, damaged or not: *)
(*   PchAfterBmc          the PCH is only released next to a running BMC   *)
(*   LockdownIsJustified  nothing is left when the platform is locked down *)
(* These follow from the inductive invariant HostInv: a flash is given up  *)
(* only when it is lost, and the BMC runs in T0 unless its flash is.       *)
(***************************************************************************)
EXTENDS PfrFlow, TLAPS

(***************************************************************************)
(* Types.  The one conjunct of TypeOK that is not inductive as it stands is *)
(* the range of the recovery level: LevelInv says that a watchdog recovery is *)
(* only ever started on level 3 or below.                                  *)
(***************************************************************************)
\* A watchdog recovery only starts below the last recovery level.
LevelInv ==
  \A f \in Flashes : Has(f, "wdt") \/ At("wdtWrite", f) => level[f] <= 3

TypeInv == TypeOK /\ LevelInv

(***************************************************************************)
(* Types.                                                                  *)
(***************************************************************************)

\* The types are right at power-up.
LEMMA TypeInit == Init => TypeInv
<1> SUFFICES ASSUME Init PROVE TypeInv
  OBVIOUS
<1> USE ImagesAssumption, BoundsAssumption DEF Init, Flashes
<1>1. \A f \in Flashes : active[f] \in Images[f] /\ recovery[f] \in Images[f]
  OBVIOUS
<1>2. TypeOK
  BY <1>1 DEF TypeOK, StoreTypes, AskTypes, BootTypes, FlowTypes, AllImages, Capsules,
              Content, Ops, Events
<1>3. LevelInv
  BY DEF LevelInv, Has
<1> QED
  BY <1>2, <1>3 DEF TypeInv

\* What the helpers of PfrFlow return, whatever they are given.
LEMMA HelperTypes ==
  ASSUME NEW f \in Flashes
  PROVE  /\ Images[f] \subseteq AllImages
         /\ \A c : SvnsIn(f, c) \subseteq Nat
         /\ \A c : Firmware(f, c) \in Content(f)
         /\ Content(f) \subseteq Capsules(f)
  BY ImagesAssumption DEF SvnsIn, Firmware, Content, Capsules, AllImages

\* The anti-rollback number only rises, and only to a number it is given.
LEMMA RaisedTypes ==
  ASSUME svn \in [Flashes -> Nat], NEW f \in Flashes, NEW n \in Nat
  PROVE  /\ Raised(f, n) \in [Flashes -> Nat]
         /\ \A g \in Flashes : g # f => Raised(f, n)[g] = svn[g]
         /\ Raised(f, n)[f] \in {svn[f], n} /\ Raised(f, n)[f] >= svn[f]
  BY DEF Raised

\* Flash and UFM keep their types: only T-1, the hosts that stage capsules and
\* damage from outside change them.
LEMMA StoreTypesStep == TypeInv /\ [Next]_vars => StoreTypes'
<1> SUFFICES ASSUME TypeInv, [Next]_vars PROVE StoreTypes'
  OBVIOUS
<1> USE DEF TypeInv, TypeOK, StoreTypes, Flashes, Content, Capsules, flashVars
<1>1. ASSUME Oob PROVE StoreTypes'
  BY <1>1, HelperTypes, RaisedTypes, ImagesAssumption DEF Oob,
     OobBits, CountFailure
<1>2. ASSUME OobWrite PROVE StoreTypes'
  BY <1>2, HelperTypes, RaisedTypes, ImagesAssumption DEF
     OobWrite, OobBits
<1>3. ASSUME NEW f \in Flashes, Pend(f) PROVE StoreTypes'
  BY <1>3, HelperTypes, RaisedTypes, ImagesAssumption DEF Pend,
     Promotable, NextFlash
<1>4. ASSUME NEW f \in Flashes, Promote(f) PROVE StoreTypes'
  BY <1>4, HelperTypes, RaisedTypes, ImagesAssumption DEF Promote
<1>5. ASSUME NEW f \in Flashes, PendSvn(f) PROVE StoreTypes'
  BY <1>5, HelperTypes, RaisedTypes, ImagesAssumption DEF PendSvn,
     NextFlash
<1>6. ASSUME NEW f \in Flashes, Wdt(f) PROVE StoreTypes'
  BY <1>6, HelperTypes, RaisedTypes, ImagesAssumption DEF Wdt,
     WdtRecovered
<1>7. ASSUME NEW f \in Flashes, WdtWrite(f) PROVE StoreTypes'
  BY <1>7, HelperTypes, RaisedTypes, ImagesAssumption DEF
     WdtWrite, WdtRecovered
<1>8. ASSUME NEW f \in Flashes, Intent(f) PROVE StoreTypes'
  BY <1>8, HelperTypes, RaisedTypes, ImagesAssumption DEF Intent,
     CountFailure, AfterIntent
<1>9. ASSUME NEW f \in Flashes, IntentWrite(f) PROVE StoreTypes'
  BY <1>9, HelperTypes, RaisedTypes, ImagesAssumption DEF
     IntentWrite, AfterIntent
<1>10. ASSUME NEW f \in Flashes, Auth(f) PROVE StoreTypes'
  BY <1>10, HelperTypes, RaisedTypes, ImagesAssumption DEF Auth,
     Promotable, EndAuth, AfterAuth
<1>11. ASSUME NEW f \in Flashes, AuthSvn(f) PROVE StoreTypes'
  BY <1>11, HelperTypes, RaisedTypes, ImagesAssumption DEF AuthSvn
<1>12. ASSUME NEW f \in Flashes, AuthAct(f) PROVE StoreTypes'
  <2>1. active' = active \/ active' = [active EXCEPT ![f] = Bad]
    BY <1>12 DEF AuthAct
  <2> QED
    BY <1>12, <2>1 DEF AuthAct
<1>13. ASSUME NEW f \in Flashes, AuthWrite(f) PROVE StoreTypes'
  BY <1>13, HelperTypes, RaisedTypes, ImagesAssumption DEF
     AuthWrite, EndAuth, AfterAuth
<1>14. ASSUME NEW f \in Flashes, Stages(f) PROVE StoreTypes'
  <2>1. Staged[f] \subseteq Capsules(f) /\ OobCapsules \subseteq Capsules("pch")
    BY BoundsAssumption
  <2> QED
    BY <1>14, <2>1, ImagesAssumption DEF Stages
<1>15. ASSUME NEW f \in Flashes, FlashFault(f) PROVE StoreTypes'
  BY <1>15, HelperTypes, RaisedTypes, ImagesAssumption, SMTT(30) DEF
     FlashFault
<1>16. CASE UNCHANGED flashVars
  BY <1>16
<1> QED BY <1>1, <1>2, <1>3, <1>4, <1>5, <1>6, <1>7, <1>8, <1>9, <1>10, <1>11,
   <1>12, <1>13, <1>14, <1>15, <1>16 DEF Next, Tmin1Step, T0Step, HostStep, EnvStep,
   vars, CpldIntent, EntryPlatform, EntryBmcOnly, EntryPchOnly, UpdateIntent,
   BmcReset, PostUpdate, PlatformReset, BootDone, Timeout, PostsIntent, PowerLoss

\* Requests, flash states and counters keep their types.
LEMMA AskTypesStep == TypeInv /\ [Next]_vars => AskTypes'
<1> SUFFICES ASSUME TypeInv, [Next]_vars PROVE AskTypes'
  OBVIOUS
<1> USE DEF TypeInv, TypeOK, AskTypes, Flashes, States, Bits, ramVars, bootVars
<1>1. ASSUME Oob PROVE AskTypes'
  BY <1>1, HelperTypes, BoundsAssumption DEF Oob, OobBits, CountFailure
<1>2. ASSUME OobWrite PROVE AskTypes'
  BY <1>2, HelperTypes, BoundsAssumption DEF OobWrite, OobBits
<1>3. ASSUME CpldIntent PROVE AskTypes'
  <2>1. intent' \in [Flashes -> SUBSET Bits] /\ cpld' \subseteq {"CA", "CR"}
    BY <1>3 DEF CpldIntent, Restart
  <2>2. failed' \in [Flashes -> Nat]
    BY <1>3 DEF CpldIntent, Restart
  <2>3. mbSvn' \in [Flashes -> Nat] /\ flags' \in [Flashes -> SUBSET States]
    BY <1>3 DEF CpldIntent, Restart
  <2> QED
    BY <2>1, <2>2, <2>3
<1>4. ASSUME NEW f \in Flashes, Pend(f) PROVE AskTypes'
  BY <1>4, HelperTypes, BoundsAssumption DEF Pend, Promotable, NextFlash
<1>5. ASSUME NEW f \in Flashes, PendSvn(f) PROVE AskTypes'
  BY <1>5, HelperTypes, BoundsAssumption DEF PendSvn, NextFlash
<1>6. ASSUME NEW f \in Flashes, Wdt(f) PROVE AskTypes'
  BY <1>6, HelperTypes, BoundsAssumption DEF Wdt, WdtRecovered
<1>7. ASSUME NEW f \in Flashes, WdtWrite(f) PROVE AskTypes'
  BY <1>7, HelperTypes, BoundsAssumption DEF WdtWrite, WdtRecovered
<1>8. ASSUME NEW f \in Flashes, Intent(f) PROVE AskTypes'
  <2>1. intent' \in [Flashes -> SUBSET Bits] /\ cpld' \subseteq {"CA", "CR"}
    BY <1>8 DEF Intent
  <2>2. flags' \in [Flashes -> SUBSET States] /\ failed' \in [Flashes -> Nat]
    BY <1>8 DEF Intent, CountFailure
  <2> QED
    BY <1>8, <2>1, <2>2 DEF Intent
<1>9. ASSUME NEW f \in Flashes, Auth(f) PROVE AskTypes'
  BY <1>9, HelperTypes, BoundsAssumption DEF Auth, Promotable, EndAuth, AfterAuth
<1>10. ASSUME NEW f \in Flashes, AuthAct(f) PROVE AskTypes'
  BY <1>10, HelperTypes, BoundsAssumption DEF AuthAct, EndAuth, AfterAuth
<1>11. ASSUME NEW f \in Flashes, AuthWrite(f) PROVE AskTypes'
  BY <1>11, HelperTypes, BoundsAssumption DEF AuthWrite, EndAuth, AfterAuth
<1>12. ASSUME NEW f \in Flashes, UpdateIntent(f) PROVE AskTypes'
  BY <1>12, HelperTypes, BoundsAssumption DEF UpdateIntent, StartReset, ResetFor
<1>13. ASSUME PlatformReset PROVE AskTypes'
  BY <1>13, HelperTypes, BoundsAssumption DEF PlatformReset
<1>14. ASSUME NEW p \in Parts, Timeout(p) PROVE AskTypes'
  BY <1>14, HelperTypes, BoundsAssumption DEF Timeout, Owner, StartReset
<1>15. ASSUME NEW f \in Flashes, PostsIntent(f) PROVE AskTypes'
  BY <1>15, HelperTypes, BoundsAssumption DEF PostsIntent
<1>16. ASSUME PowerLoss PROVE AskTypes'
  BY <1>16, HelperTypes, BoundsAssumption DEF PowerLoss, Restart, StartReset
<1>17. CASE UNCHANGED <<intent, mbSvn, flags, failed, cpld>>
  BY <1>17
<1> QED BY <1>1, <1>2, <1>3, <1>4, <1>5, <1>6, <1>7, <1>8, <1>9, <1>10, <1>11,
   <1>12, <1>13, <1>14, <1>15, <1>16, <1>17 DEF Next, Tmin1Step, T0Step, HostStep,
   EnvStep, vars, Promote, IntentWrite, AuthSvn, EntryPlatform, EntryBmcOnly,
   EntryPchOnly, BmcReset, PostUpdate, BootDone, Stages, FlashFault

\* The timers and what is out of reset keep their types; a watchdog recovery
\* raises a level of 3 at most.
LEMMA BootTypesStep == TypeInv /\ [Next]_vars => BootTypes'
<1> SUFFICES ASSUME TypeInv, [Next]_vars PROVE BootTypes'
  OBVIOUS
<1> USE DEF TypeInv, TypeOK, BootTypes, LevelInv, Has, At, Flashes, Parts, ramVars,
   bootVars
<1>1. ASSUME CpldIntent PROVE BootTypes'
  BY <1>1 DEF CpldIntent, Restart, StartReset
<1>2. ASSUME NEW f \in Flashes, Wdt(f) PROVE BootTypes'
  <2>1. level' \in [Flashes -> 1..4]
    BY <1>2 DEF Wdt, WdtRecovered
  <2>2. boot' \subseteq Parts /\ armed' \subseteq Parts
    BY <1>2 DEF Wdt
  <2> QED
    BY <1>2, <2>1, <2>2 DEF Wdt
<1>3. ASSUME NEW f \in Flashes, WdtWrite(f) PROVE BootTypes'
  BY <1>3 DEF WdtWrite, WdtRecovered
<1>4. ASSUME NEW f \in Flashes, IntentWrite(f) PROVE BootTypes'
  BY <1>4 DEF IntentWrite, AfterIntent
<1>5. ASSUME EntryPlatform PROVE BootTypes'
  BY <1>5 DEF EntryPlatform, EnterT0
<1>6. ASSUME EntryBmcOnly PROVE BootTypes'
  BY <1>6 DEF EntryBmcOnly, EnterT0
<1>7. ASSUME EntryPchOnly PROVE BootTypes'
  BY <1>7 DEF EntryPchOnly, EnterT0
<1>8. ASSUME NEW f \in Flashes, UpdateIntent(f) PROVE BootTypes'
  BY <1>8 DEF UpdateIntent, StartReset, ResetFor
<1>9. ASSUME BmcReset PROVE BootTypes'
  BY <1>9 DEF BmcReset, StartReset
<1>10. ASSUME PostUpdate PROVE BootTypes'
  BY <1>10 DEF PostUpdate, StartReset
<1>11. ASSUME PlatformReset PROVE BootTypes'
  BY <1>11 DEF PlatformReset
<1>12. ASSUME NEW p \in Parts, BootDone(p) PROVE BootTypes'
  BY <1>12 DEF BootDone, Owner
<1>13. ASSUME NEW p \in Parts, Timeout(p) PROVE BootTypes'
  BY <1>13 DEF Timeout, Owner, StartReset
<1>14. ASSUME PowerLoss PROVE BootTypes'
  BY <1>14 DEF PowerLoss, Restart, StartReset
<1>15. CASE UNCHANGED <<level, boot, armed, enabled, up, mode>>
  BY <1>15
<1> QED BY <1>1, <1>2, <1>3, <1>4, <1>5, <1>6, <1>7, <1>8, <1>9, <1>10, <1>11,
   <1>12, <1>13, <1>14, <1>15 DEF Next, Tmin1Step, T0Step, HostStep, EnvStep, vars,
   Oob, OobWrite, Pend, Promote, PendSvn, Intent, Auth, AuthSvn, AuthAct, AuthWrite,
   Stages, PostsIntent, FlashFault

\* A watchdog recovery that is still to be carried out has a level of 3 at most.
LEMMA LevelStep == TypeInv /\ [Next]_vars => LevelInv'
<1> SUFFICES ASSUME TypeInv, [Next]_vars PROVE LevelInv'
  OBVIOUS
<1> USE DEF TypeInv, TypeOK, LevelInv, BootTypes, AskTypes, Has, At, Goto, Flashes,
   ramVars, bootVars
<1>1. ASSUME Oob PROVE LevelInv'
  BY <1>1 DEF Oob, OobBits, CountFailure
<1>2. ASSUME OobWrite PROVE LevelInv'
  BY <1>2 DEF OobWrite, OobBits
<1>3. ASSUME CpldIntent PROVE LevelInv'
  BY <1>3 DEF CpldIntent, Restart, StartReset
<1>4. ASSUME NEW f \in Flashes, Pend(f) PROVE LevelInv'
  BY <1>4 DEF Pend, Promotable, NextFlash
<1>5. ASSUME NEW f \in Flashes, Promote(f) PROVE LevelInv'
  BY <1>5 DEF Promote
<1>6. ASSUME NEW f \in Flashes, PendSvn(f) PROVE LevelInv'
  BY <1>6 DEF PendSvn, NextFlash
<1>7. ASSUME NEW f \in Flashes, Wdt(f) PROVE LevelInv'
  BY <1>7 DEF Wdt, WdtRecovered
<1>8. ASSUME NEW f \in Flashes, WdtWrite(f) PROVE LevelInv'
  BY <1>8 DEF WdtWrite, WdtRecovered
<1>9. ASSUME NEW f \in Flashes, Intent(f) PROVE LevelInv'
  BY <1>9 DEF Intent, CountFailure, AfterIntent
<1>10. ASSUME NEW f \in Flashes, IntentWrite(f) PROVE LevelInv'
  BY <1>10 DEF IntentWrite, AfterIntent
<1>11. ASSUME NEW f \in Flashes, Auth(f) PROVE LevelInv'
  BY <1>11 DEF Auth, Promotable, EndAuth, AfterAuth
<1>12. ASSUME NEW f \in Flashes, AuthSvn(f) PROVE LevelInv'
  BY <1>12 DEF AuthSvn
<1>13. ASSUME NEW f \in Flashes, AuthAct(f) PROVE LevelInv'
  BY <1>13 DEF AuthAct, EndAuth, AfterAuth
<1>14. ASSUME NEW f \in Flashes, AuthWrite(f) PROVE LevelInv'
  BY <1>14 DEF AuthWrite, EndAuth, AfterAuth
<1>15. ASSUME EntryPlatform PROVE LevelInv'
  BY <1>15 DEF EntryPlatform, EnterT0
<1>16. ASSUME EntryBmcOnly PROVE LevelInv'
  BY <1>16 DEF EntryBmcOnly, EnterT0
<1>17. ASSUME EntryPchOnly PROVE LevelInv'
  BY <1>17 DEF EntryPchOnly, EnterT0
<1>18. ASSUME NEW f \in Flashes, UpdateIntent(f) PROVE LevelInv'
  BY <1>18 DEF UpdateIntent, StartReset, ResetFor
<1>19. ASSUME BmcReset PROVE LevelInv'
  BY <1>19 DEF BmcReset, StartReset
<1>20. ASSUME PostUpdate PROVE LevelInv'
  BY <1>20 DEF PostUpdate, StartReset
<1>21. ASSUME PlatformReset PROVE LevelInv'
  BY <1>21 DEF PlatformReset
<1>22. ASSUME NEW p \in Parts, BootDone(p) PROVE LevelInv'
  BY <1>22 DEF BootDone, Owner
<1>23. ASSUME NEW p \in Parts, Timeout(p) PROVE LevelInv'
  BY <1>23 DEF Timeout, Owner, StartReset
<1>24. ASSUME NEW f \in Flashes, Stages(f) PROVE LevelInv'
  BY <1>24 DEF Stages
<1>25. ASSUME NEW f \in Flashes, PostsIntent(f) PROVE LevelInv'
  BY <1>25 DEF PostsIntent
<1>26. ASSUME NEW f \in Flashes, FlashFault(f) PROVE LevelInv'
  BY <1>26 DEF FlashFault
<1>27. ASSUME PowerLoss PROVE LevelInv'
  BY <1>27 DEF PowerLoss, Restart, StartReset
<1> QED BY <1>1, <1>2, <1>3, <1>4, <1>5, <1>6, <1>7, <1>8, <1>9, <1>10, <1>11,
   <1>12, <1>13, <1>14, <1>15, <1>16, <1>17, <1>18, <1>19, <1>20, <1>21, <1>22,
   <1>23, <1>24, <1>25, <1>26, <1>27 DEF Next, Tmin1Step, T0Step, HostStep, EnvStep,
   vars

\* The program counter and the bounds keep their types.
LEMMA FlowTypesStep == TypeInv /\ [Next]_vars => FlowTypes'
<1> SUFFICES ASSUME TypeInv, [Next]_vars PROVE FlowTypes'
  OBVIOUS
<1> USE DEF TypeInv, TypeOK, FlowTypes, BootTypes, Goto, Use, Ops, Events, Flashes,
   ramVars, bootVars
<1>1. ASSUME Oob PROVE FlowTypes'
  BY <1>1 DEF Oob, OobBits, CountFailure
<1>2. ASSUME OobWrite PROVE FlowTypes'
  BY <1>2 DEF OobWrite, OobBits
<1>3. ASSUME CpldIntent PROVE FlowTypes'
  BY <1>3 DEF CpldIntent, Restart, StartReset
<1>4. ASSUME NEW f \in Flashes, Pend(f) PROVE FlowTypes'
  BY <1>4 DEF Pend, Promotable, NextFlash
<1>5. ASSUME NEW f \in Flashes, Promote(f) PROVE FlowTypes'
  BY <1>5 DEF Promote
<1>6. ASSUME NEW f \in Flashes, PendSvn(f) PROVE FlowTypes'
  BY <1>6 DEF PendSvn, NextFlash
<1>7. ASSUME NEW f \in Flashes, Wdt(f) PROVE FlowTypes'
  BY <1>7 DEF Wdt, WdtRecovered
<1>8. ASSUME NEW f \in Flashes, WdtWrite(f) PROVE FlowTypes'
  BY <1>8 DEF WdtWrite, WdtRecovered
<1>9. ASSUME NEW f \in Flashes, Intent(f) PROVE FlowTypes'
  BY <1>9 DEF Intent, CountFailure, AfterIntent
<1>10. ASSUME NEW f \in Flashes, IntentWrite(f) PROVE FlowTypes'
  BY <1>10 DEF IntentWrite, AfterIntent
<1>11. ASSUME NEW f \in Flashes, Auth(f) PROVE FlowTypes'
  BY <1>11 DEF Auth, Promotable, EndAuth, AfterAuth
<1>12. ASSUME NEW f \in Flashes, AuthSvn(f) PROVE FlowTypes'
  BY <1>12 DEF AuthSvn
<1>13. ASSUME NEW f \in Flashes, AuthAct(f) PROVE FlowTypes'
  BY <1>13 DEF AuthAct, EndAuth, AfterAuth
<1>14. ASSUME NEW f \in Flashes, AuthWrite(f) PROVE FlowTypes'
  BY <1>14 DEF AuthWrite, EndAuth, AfterAuth
<1>15. ASSUME EntryPlatform PROVE FlowTypes'
  BY <1>15 DEF EntryPlatform, EnterT0
<1>16. ASSUME EntryBmcOnly PROVE FlowTypes'
  BY <1>16 DEF EntryBmcOnly, EnterT0
<1>17. ASSUME EntryPchOnly PROVE FlowTypes'
  BY <1>17 DEF EntryPchOnly, EnterT0
<1>18. ASSUME NEW f \in Flashes, UpdateIntent(f) PROVE FlowTypes'
  BY <1>18 DEF UpdateIntent, StartReset, ResetFor
<1>19. ASSUME BmcReset PROVE FlowTypes'
  BY <1>19 DEF BmcReset, StartReset
<1>20. ASSUME PostUpdate PROVE FlowTypes'
  BY <1>20 DEF PostUpdate, StartReset
<1>21. ASSUME PlatformReset PROVE FlowTypes'
  BY <1>21 DEF PlatformReset
<1>22. ASSUME NEW p \in Parts, BootDone(p) PROVE FlowTypes'
  BY <1>22 DEF BootDone, Owner
<1>23. ASSUME NEW p \in Parts, Timeout(p) PROVE FlowTypes'
  BY <1>23 DEF Timeout, Owner, StartReset
<1>24. ASSUME NEW f \in Flashes, Stages(f) PROVE FlowTypes'
  BY <1>24 DEF Stages
<1>25. ASSUME NEW f \in Flashes, PostsIntent(f) PROVE FlowTypes'
  BY <1>25 DEF PostsIntent
<1>26. ASSUME NEW f \in Flashes, FlashFault(f) PROVE FlowTypes'
  BY <1>26 DEF FlashFault
<1>27. ASSUME PowerLoss PROVE FlowTypes'
  BY <1>27 DEF PowerLoss, Restart, StartReset
<1> QED BY <1>1, <1>2, <1>3, <1>4, <1>5, <1>6, <1>7, <1>8, <1>9, <1>10, <1>11,
   <1>12, <1>13, <1>14, <1>15, <1>16, <1>17, <1>18, <1>19, <1>20, <1>21, <1>22,
   <1>23, <1>24, <1>25, <1>26, <1>27 DEF Next, Tmin1Step, T0Step, HostStep, EnvStep,
   vars

\* TypeInv is inductive.
LEMMA TypeInvStep == TypeInv /\ [Next]_vars => TypeInv'
  BY StoreTypesStep, AskTypesStep, BootTypesStep, LevelStep, FlowTypesStep
     DEF TypeInv, TypeOK

\* All variables have their types in every reachable state.
THEOREM TypeCorrect == Spec => []TypeOK
<1>1. TypeInv => TypeOK
  BY DEF TypeInv
<1> QED
  BY TypeInit, TypeInvStep, <1>1, PTL DEF Spec

(***************************************************************************)
(* Flashes that nothing damages from outside.                              *)
(***************************************************************************)
NoDamage == \A limit \in Limits : limit["fault"] = 0

\* Then no region is damaged from outside.
LEMMA NothingDamaged ==
  ASSUME TypeInv, NoDamage, NEW f \in Flashes PROVE ~FlashFault(f)
<1>1. ~Use("fault")
  <2> SUFFICES ASSUME Use("fault") PROVE FALSE
    OBVIOUS
  <2>1. PICK limit \in Limits : \A d \in Events : used'[d] <= limit[d]
    BY DEF Use
  <2>2. used'["fault"] = used["fault"] + 1 /\ used["fault"] \in Nat
    BY DEF Use, TypeInv, TypeOK, FlowTypes, Events
  <2>3. limit["fault"] = 0
    BY <2>1 DEF NoDamage
  <2> QED
    BY <2>1, <2>2, <2>3 DEF Events
<1> QED
  BY <1>1 DEF FlashFault

\* T-1 works on a flash whose owner is held in reset.
PlatformOps == {"oob", "oobWrite", "pend", "pendWrite", "pendSvn"}

ResetInv ==
  pc[1] \notin {"t0", "lockdown"} =>
    /\ mode = "platform" => up = {}
    /\ pc[1] \in PlatformOps => mode = "platform"
    /\ mode # "platform" => mode \notin up /\ pc[2] = mode
    /\ pc[1] = "entry" => pc[2] = mode

\* After a restart nothing is asked of T-1 and nobody runs who could ask.
Fresh ==
  /\ mode = "platform" /\ up = {} /\ cpld = {}
  /\ \A f \in Flashes : intent[f] = {} /\ ~Has(f, "pending") /\ ~Has(f, "wdt")

\* T-1 after a restart has not come to the authentication of flash f yet.
BeforeAuth(f) ==
  \/ pc[1] \in {"oob", "pend", "wdt", "intent", "cpld", "auth"} /\ pc[2] = "bmc"
  \/ At("pend", "pch")
  \/ /\ f = "pch"
     /\ \/ pc[1] \in {"authRec", "authSvn", "authAct", "authWrite"} /\ pc[2] = "bmc"
        \/ pc[1] \in {"wdt", "intent", "auth"} /\ pc[2] = "pch"

RecoveryWritten(f) == At("pendWrite", f) \/ At("authRec", f)
ActiveWritten(f) == At("wdtWrite", f) \/ At("intentWrite", f) \/ At("authWrite", f)
FloorRaised(f) == At("pendSvn", f) \/ At("authSvn", f)

\* The recovery capsule is only missing while it is copied, or after a power
\* loss in the copy; the capsule it is copied from is then still staged, and is
\* the firmware in service.
RecoveryInv(f) ==
  \/ recovery[f] \in Images[f] /\ ~RecoveryWritten(f)
  \/ /\ recovery[f] = Bad /\ active[f] \in Images[f] /\ staging[f] = active[f]
     /\ RecoveryWritten(f) \/ (Fresh /\ BeforeAuth(f))

\* The firmware in service is only missing while it is written, or after a
\* power loss in the write.
ActiveInv(f) ==
  \/ active[f] \in Images[f] /\ ~ActiveWritten(f)
  \/ /\ active[f] = Bad /\ recovery[f] \in Images[f]
     /\ ActiveWritten(f) \/ (Fresh /\ (BeforeAuth(f) \/ At("authAct", f)))

\* What a step relies on that was established by an earlier one.
StepInv(f) ==
  /\ FloorRaised(f) => /\ active[f] \in Images[f]
                       /\ staging[f] = active[f] /\ recovery[f] = active[f]
  /\ At("authAct", f) => recovery[f] \in Images[f]
  /\ At("intentWrite", f) => staging[f] \in Images[f] /\ Svn[staging[f]] >= svn[f]

FlashSafe(f) == RecoveryInv(f) /\ ActiveInv(f) /\ StepInv(f)
Overall == NoRegionLost /\ SvnFloorCovered

FlashInv == ResetInv /\ Overall /\ \A f \in Flashes : FlashSafe(f)

(***************************************************************************)
(* FlashInv is an invariant.                                               *)
(***************************************************************************)

\* A platform that is powered up has every region complete.
LEMMA FlashInit == Init => FlashInv
  BY ImagesAssumption
     DEF Init, Flashes, FlashInv, Overall, FlashSafe, ResetInv, NoRegionLost, SvnFloorCovered,
         RecoveryInv, ActiveInv, StepInv, RecoveryWritten, ActiveWritten, FloorRaised, At

\* The CPLD part of a BMC intent ends in a reconfiguration, or it leaves alone
\* what the invariants look at and asks for nothing that was not asked.
CpldOutcome ==
  /\ UNCHANGED flashVars /\ pc = <<"cpld", "bmc">>
  /\ \/ Restart
     \/ /\ UNCHANGED <<flags, mode, up>> /\ pc' = <<"auth", "bmc">> /\ cpld' = {}
        /\ cpld = {} => \A f \in Flashes : intent[f] = {} => intent'[f] = {}

\* ... as CpldIntent does.
LEMMA CpldCases == ASSUME TypeInv, CpldIntent PROVE CpldOutcome
<1> USE DEF CpldIntent, At, Goto, bootVars, TypeInv, TypeOK, AskTypes, Flashes
<1>1. UNCHANGED flashVars /\ pc = <<"cpld", "bmc">>
  OBVIOUS
<1>2. ~Restart => UNCHANGED <<flags, mode, up>> /\ pc' = <<"auth", "bmc">> /\ cpld' = {}
  OBVIOUS
<1>3. ~Restart /\ cpld = {} => \A f \in Flashes : intent[f] = {} => intent'[f] = {}
  OBVIOUS
<1> QED
  BY <1>1, <1>2, <1>3 DEF CpldOutcome

\* T-1 goes on with the flash its reset was for.
LEMMA ResetStep == ASSUME TypeInv, ResetInv, [Next]_vars PROVE ResetInv'
<1>1. CpldIntent => CpldOutcome
  BY CpldCases
<1> USE DEF TypeInv, TypeOK, BootTypes, Flashes, At, Goto, ResetInv, PlatformOps,
   flashVars, bootVars, ramVars
<1>2. ASSUME Oob PROVE ResetInv'
  BY <1>2 DEF Oob, OobBits, CountFailure
<1>3. ASSUME OobWrite PROVE ResetInv'
  BY <1>3 DEF OobWrite, OobBits
<1>4. ASSUME CpldIntent PROVE ResetInv'
  <2>1. CASE Restart
    BY <1>4, <2>1, <1>1 DEF CpldOutcome, Restart, StartReset
  <2>2. CASE ~Restart
    <3>1. UNCHANGED <<flashVars, flags, mode, up>>
      BY <1>4, <2>2, <1>1 DEF CpldOutcome
    <3>2. pc = <<"cpld", "bmc">> /\ pc' = <<"auth", "bmc">>
      BY <1>4, <2>2, <1>1 DEF CpldOutcome
    <3> QED
      BY <3>1, <3>2
  <2> QED
    BY <2>1, <2>2
<1>5. ASSUME NEW f \in Flashes, Pend(f) PROVE ResetInv'
  BY <1>5 DEF Pend, Promotable, NextFlash
<1>6. ASSUME NEW f \in Flashes, Promote(f) PROVE ResetInv'
  BY <1>6 DEF Promote
<1>7. ASSUME NEW f \in Flashes, PendSvn(f) PROVE ResetInv'
  BY <1>7 DEF PendSvn, NextFlash
<1>8. ASSUME NEW f \in Flashes, Wdt(f) PROVE ResetInv'
  BY <1>8 DEF Wdt, WdtRecovered
<1>9. ASSUME NEW f \in Flashes, WdtWrite(f) PROVE ResetInv'
  BY <1>9 DEF WdtWrite, WdtRecovered
<1>10. ASSUME NEW f \in Flashes, Intent(f) PROVE ResetInv'
  BY <1>10 DEF Intent, CountFailure, AfterIntent
<1>11. ASSUME NEW f \in Flashes, IntentWrite(f) PROVE ResetInv'
  BY <1>11 DEF IntentWrite, AfterIntent
<1>12. ASSUME NEW f \in Flashes, Auth(f) PROVE ResetInv'
  BY <1>12 DEF Auth, Promotable, EndAuth, AfterAuth, Authentic
<1>13. ASSUME NEW f \in Flashes, AuthSvn(f) PROVE ResetInv'
  BY <1>13 DEF AuthSvn
<1>14. ASSUME NEW f \in Flashes, AuthAct(f) PROVE ResetInv'
  BY <1>14 DEF AuthAct, EndAuth, AfterAuth
<1>15. ASSUME NEW f \in Flashes, AuthWrite(f) PROVE ResetInv'
  BY <1>15 DEF AuthWrite, EndAuth, AfterAuth
<1>16. ASSUME EntryPlatform PROVE ResetInv'
  BY <1>16 DEF EntryPlatform, EnterT0
<1>17. ASSUME EntryBmcOnly PROVE ResetInv'
  BY <1>17 DEF EntryBmcOnly, EnterT0
<1>18. ASSUME EntryPchOnly PROVE ResetInv'
  BY <1>18 DEF EntryPchOnly, EnterT0, BothBootable
<1>19. ASSUME NEW f \in Flashes, UpdateIntent(f) PROVE ResetInv'
  BY <1>19 DEF UpdateIntent, StartReset, ResetFor, InT0
<1>20. ASSUME BmcReset PROVE ResetInv'
  BY <1>20 DEF BmcReset, StartReset, InT0
<1>21. ASSUME PostUpdate PROVE ResetInv'
  BY <1>21 DEF PostUpdate, StartReset, InT0
<1>22. ASSUME PlatformReset PROVE ResetInv'
  BY <1>22 DEF PlatformReset, InT0
<1>23. ASSUME NEW p \in Parts, BootDone(p) PROVE ResetInv'
  BY <1>23 DEF BootDone, Owner, InT0
<1>24. ASSUME NEW p \in Parts, Timeout(p) PROVE ResetInv'
  BY <1>24 DEF Timeout, Owner, StartReset, InT0
<1>25. ASSUME NEW f \in Flashes, Stages(f) PROVE ResetInv'
  BY <1>25 DEF Stages
<1>26. ASSUME NEW f \in Flashes, PostsIntent(f) PROVE ResetInv'
  BY <1>26 DEF PostsIntent
<1>27. ASSUME NEW f \in Flashes, FlashFault(f) PROVE ResetInv'
  BY <1>27 DEF FlashFault, InT0
<1>28. ASSUME PowerLoss PROVE ResetInv'
  BY <1>28 DEF PowerLoss, Restart, StartReset
<1>29. CASE UNCHANGED vars
  BY <1>29 DEF vars
<1> QED BY <1>2, <1>3, <1>4, <1>5, <1>6, <1>7, <1>8, <1>9, <1>10, <1>11, <1>12,
   <1>13, <1>14, <1>15, <1>16, <1>17, <1>18, <1>19, <1>20, <1>21, <1>22, <1>23,
   <1>24, <1>25, <1>26, <1>27, <1>28, <1>29 DEF Next, Tmin1Step, T0Step, HostStep,
   EnvStep

\* No step leaves a region incomplete that could not be completed again.
LEMMA FlashSafeStep ==
  ASSUME TypeInv, FlashInv, NoDamage, [Next]_vars,
         NEW g \in Flashes
  PROVE  FlashSafe(g)'
<1>1. CpldIntent => CpldOutcome
  BY CpldCases
<1> USE DEF TypeInv, TypeOK, StoreTypes, AskTypes, BootTypes, FlowTypes, Flashes,
   flashVars, bootVars, ramVars, At, Goto, Has, FlashInv, Overall,
   FlashSafe, ResetInv, Fresh, BeforeAuth, RecoveryWritten, ActiveWritten,
   FloorRaised, RecoveryInv, ActiveInv, StepInv, PlatformOps, SvnFloorCovered
<1>2. ASSUME Oob PROVE FlashSafe(g)'
  BY <1>2, ImagesAssumption DEF Oob, OobBits, CountFailure
<1>3. ASSUME OobWrite PROVE FlashSafe(g)'
  BY <1>3, ImagesAssumption DEF OobWrite, OobBits
<1>4. ASSUME CpldIntent PROVE FlashSafe(g)'
  <2>1. CASE Restart
    BY <1>4, <2>1, <1>1, ImagesAssumption DEF CpldOutcome, Restart, StartReset
  <2>2. CASE ~Restart
    <3>1. UNCHANGED flashVars /\ UNCHANGED <<flags, mode, up>> /\ cpld' = {}
      BY <1>4, <2>2, <1>1 DEF CpldOutcome
    <3>2. pc = <<"cpld", "bmc">> /\ pc' = <<"auth", "bmc">>
      BY <1>4, <2>2, <1>1 DEF CpldOutcome
    <3>3. Fresh => \A f \in Flashes : intent'[f] = {}
      BY <1>4, <2>2, <1>1 DEF CpldOutcome
    <3> QED
      BY <3>1, <3>2, <3>3, ImagesAssumption
  <2> QED
    BY <2>1, <2>2
<1>5. ASSUME NEW f \in Flashes, Pend(f) PROVE FlashSafe(g)'
  BY <1>5, ImagesAssumption DEF Pend, Promotable, NextFlash
<1>6. ASSUME NEW f \in Flashes, Promote(f) PROVE FlashSafe(g)'
  BY <1>6, ImagesAssumption DEF Promote
<1>7. ASSUME NEW f \in Flashes, PendSvn(f) PROVE FlashSafe(g)'
  BY <1>7, ImagesAssumption DEF PendSvn, NextFlash
<1>8. ASSUME NEW f \in Flashes, Wdt(f) PROVE FlashSafe(g)'
  BY <1>8, ImagesAssumption DEF Wdt, WdtRecovered
<1>9. ASSUME NEW f \in Flashes, WdtWrite(f) PROVE FlashSafe(g)'
  BY <1>9, ImagesAssumption DEF WdtWrite, WdtRecovered, Firmware
<1>10. ASSUME NEW f \in Flashes, Intent(f) PROVE FlashSafe(g)'
  BY <1>10, ImagesAssumption DEF Intent, CountFailure, AfterIntent, Accepts
<1>11. ASSUME NEW f \in Flashes, IntentWrite(f) PROVE FlashSafe(g)'
  BY <1>11, ImagesAssumption DEF IntentWrite, AfterIntent, Firmware
<1>12. ASSUME NEW f \in Flashes, Auth(f) PROVE FlashSafe(g)'
  BY <1>12, ImagesAssumption DEF Auth, Promotable, EndAuth, AfterAuth, Authentic
<1>13. ASSUME NEW f \in Flashes, AuthSvn(f) PROVE FlashSafe(g)'
  BY <1>13, ImagesAssumption DEF AuthSvn
<1>14. ASSUME NEW f \in Flashes, AuthAct(f) PROVE FlashSafe(g)'
  BY <1>14, ImagesAssumption DEF AuthAct, EndAuth, AfterAuth, Authentic
<1>15. ASSUME NEW f \in Flashes, AuthWrite(f) PROVE FlashSafe(g)'
  BY <1>15, ImagesAssumption DEF AuthWrite, EndAuth, AfterAuth, Firmware
<1>16. ASSUME EntryPlatform PROVE FlashSafe(g)'
  BY <1>16, ImagesAssumption DEF EntryPlatform, EnterT0
<1>17. ASSUME EntryBmcOnly PROVE FlashSafe(g)'
  BY <1>17, ImagesAssumption DEF EntryBmcOnly, EnterT0
<1>18. ASSUME EntryPchOnly PROVE FlashSafe(g)'
  BY <1>18, ImagesAssumption DEF EntryPchOnly, EnterT0
<1>19. ASSUME NEW f \in Flashes, UpdateIntent(f) PROVE FlashSafe(g)'
  BY <1>19, ImagesAssumption DEF UpdateIntent, StartReset, ResetFor, InT0
<1>20. ASSUME BmcReset PROVE FlashSafe(g)'
  BY <1>20, ImagesAssumption DEF BmcReset, StartReset, InT0
<1>21. ASSUME PostUpdate PROVE FlashSafe(g)'
  BY <1>21, ImagesAssumption DEF PostUpdate, StartReset, InT0
<1>22. ASSUME PlatformReset PROVE FlashSafe(g)'
  BY <1>22, ImagesAssumption DEF PlatformReset, InT0
<1>23. ASSUME NEW p \in Parts, BootDone(p) PROVE FlashSafe(g)'
  BY <1>23, ImagesAssumption DEF BootDone, Owner, InT0
<1>24. ASSUME NEW p \in Parts, Timeout(p) PROVE FlashSafe(g)'
  BY <1>24, ImagesAssumption DEF Timeout, Owner, StartReset, InT0
<1>25. ASSUME NEW f \in Flashes, Stages(f) PROVE FlashSafe(g)'
  BY <1>25, ImagesAssumption DEF Stages, Capsules
<1>26. ASSUME NEW f \in Flashes, PostsIntent(f) PROVE FlashSafe(g)'
  BY <1>26, ImagesAssumption DEF PostsIntent
<1>27. ASSUME NEW f \in Flashes, FlashFault(f) PROVE FlashSafe(g)'
  BY <1>27, NothingDamaged
<1>28. ASSUME PowerLoss PROVE FlashSafe(g)'
  BY <1>28, ImagesAssumption DEF PowerLoss, Restart, StartReset
<1>29. CASE UNCHANGED vars
  BY <1>29 DEF vars
<1> QED BY <1>2, <1>3, <1>4, <1>5, <1>6, <1>7, <1>8, <1>9, <1>10, <1>11, <1>12,
   <1>13, <1>14, <1>15, <1>16, <1>17, <1>18, <1>19, <1>20, <1>21, <1>22, <1>23,
   <1>24, <1>25, <1>26, <1>27, <1>28, <1>29 DEF Next, Tmin1Step, T0Step, HostStep,
   EnvStep

\* No step gives up a region or raises the SVN policy above what is kept.
LEMMA OverallStep ==
  ASSUME TypeInv, FlashInv, NoDamage, [Next]_vars
  PROVE  Overall'
<1>1. CpldIntent => CpldOutcome
  BY CpldCases
<1> USE DEF TypeInv, TypeOK, StoreTypes, AskTypes, BootTypes, FlowTypes, Flashes,
   flashVars, bootVars, ramVars, At, Goto, Has, FlashInv, Overall,
   FlashSafe, ResetInv, Fresh, BeforeAuth, RecoveryWritten, ActiveWritten,
   FloorRaised, RecoveryInv, ActiveInv, StepInv, PlatformOps, NoRegionLost,
   SvnFloorCovered, SvnsIn, Raised
<1>2. ASSUME Oob PROVE Overall'
  BY <1>2, ImagesAssumption DEF Oob, OobBits, CountFailure
<1>3. ASSUME OobWrite PROVE Overall'
  BY <1>3, ImagesAssumption DEF OobWrite, OobBits
<1>4. ASSUME CpldIntent PROVE Overall'
  <2>1. CASE Restart
    BY <1>4, <2>1, <1>1, ImagesAssumption DEF CpldOutcome, Restart, StartReset
  <2>2. CASE ~Restart
    <3>1. UNCHANGED flashVars /\ UNCHANGED <<flags, mode, up>> /\ cpld' = {}
      BY <1>4, <2>2, <1>1 DEF CpldOutcome
    <3>2. pc = <<"cpld", "bmc">> /\ pc' = <<"auth", "bmc">>
      BY <1>4, <2>2, <1>1 DEF CpldOutcome
    <3>3. Fresh => \A f \in Flashes : intent'[f] = {}
      BY <1>4, <2>2, <1>1 DEF CpldOutcome
    <3> QED
      BY <3>1, <3>2, <3>3, ImagesAssumption
  <2> QED
    BY <2>1, <2>2
<1>5. ASSUME NEW f \in Flashes, Pend(f) PROVE Overall'
  BY <1>5, ImagesAssumption DEF Pend, Promotable, NextFlash
<1>6. ASSUME NEW f \in Flashes, Promote(f) PROVE Overall'
  BY <1>6, ImagesAssumption DEF Promote
<1>7. ASSUME NEW f \in Flashes, PendSvn(f) PROVE Overall'
  BY <1>7, ImagesAssumption DEF PendSvn, NextFlash
<1>8. ASSUME NEW f \in Flashes, Wdt(f) PROVE Overall'
  BY <1>8, ImagesAssumption DEF Wdt, WdtRecovered
<1>9. ASSUME NEW f \in Flashes, WdtWrite(f) PROVE Overall'
  BY <1>9, ImagesAssumption DEF WdtWrite, WdtRecovered, Firmware
<1>10. ASSUME NEW f \in Flashes, Intent(f) PROVE Overall'
  BY <1>10, ImagesAssumption DEF Intent, CountFailure, AfterIntent, Accepts
<1>11. ASSUME NEW f \in Flashes, IntentWrite(f) PROVE Overall'
  BY <1>11, ImagesAssumption DEF IntentWrite, AfterIntent, Firmware
<1>12. ASSUME NEW f \in Flashes, Auth(f) PROVE Overall'
  BY <1>12, ImagesAssumption DEF Auth, Promotable, EndAuth, AfterAuth, Authentic
<1>13. ASSUME NEW f \in Flashes, AuthSvn(f) PROVE Overall'
  BY <1>13, ImagesAssumption DEF AuthSvn
<1>14. ASSUME NEW f \in Flashes, AuthAct(f) PROVE Overall'
  BY <1>14, ImagesAssumption DEF AuthAct, EndAuth, AfterAuth, Authentic
<1>15. ASSUME NEW f \in Flashes, AuthWrite(f) PROVE Overall'
  BY <1>15, ImagesAssumption DEF AuthWrite, EndAuth, AfterAuth, Firmware
<1>16. ASSUME EntryPlatform PROVE Overall'
  BY <1>16, ImagesAssumption DEF EntryPlatform, EnterT0
<1>17. ASSUME EntryBmcOnly PROVE Overall'
  BY <1>17, ImagesAssumption DEF EntryBmcOnly, EnterT0
<1>18. ASSUME EntryPchOnly PROVE Overall'
  BY <1>18, ImagesAssumption DEF EntryPchOnly, EnterT0
<1>19. ASSUME NEW f \in Flashes, UpdateIntent(f) PROVE Overall'
  BY <1>19, ImagesAssumption DEF UpdateIntent, StartReset, ResetFor, InT0
<1>20. ASSUME BmcReset PROVE Overall'
  BY <1>20, ImagesAssumption DEF BmcReset, StartReset, InT0
<1>21. ASSUME PostUpdate PROVE Overall'
  BY <1>21, ImagesAssumption DEF PostUpdate, StartReset, InT0
<1>22. ASSUME PlatformReset PROVE Overall'
  BY <1>22, ImagesAssumption DEF PlatformReset, InT0
<1>23. ASSUME NEW p \in Parts, BootDone(p) PROVE Overall'
  BY <1>23, ImagesAssumption DEF BootDone, Owner, InT0
<1>24. ASSUME NEW p \in Parts, Timeout(p) PROVE Overall'
  BY <1>24, ImagesAssumption DEF Timeout, Owner, StartReset, InT0
<1>25. ASSUME NEW f \in Flashes, Stages(f) PROVE Overall'
  BY <1>25, ImagesAssumption DEF Stages, Capsules
<1>26. ASSUME NEW f \in Flashes, PostsIntent(f) PROVE Overall'
  BY <1>26, ImagesAssumption DEF PostsIntent
<1>27. ASSUME NEW f \in Flashes, FlashFault(f) PROVE Overall'
  BY <1>27, NothingDamaged
<1>28. ASSUME PowerLoss PROVE Overall'
  BY <1>28, ImagesAssumption DEF PowerLoss, Restart, StartReset
<1>29. CASE UNCHANGED vars
  BY <1>29 DEF vars
<1> QED BY <1>2, <1>3, <1>4, <1>5, <1>6, <1>7, <1>8, <1>9, <1>10, <1>11, <1>12,
   <1>13, <1>14, <1>15, <1>16, <1>17, <1>18, <1>19, <1>20, <1>21, <1>22, <1>23,
   <1>24, <1>25, <1>26, <1>27, <1>28, <1>29 DEF Next, Tmin1Step, T0Step, HostStep,
   EnvStep

\* FlashInv holds in every reachable state.
LEMMA FlashInvariant == ASSUME NoDamage PROVE Spec => [](TypeInv /\ FlashInv)
<1>1. Init => TypeInv /\ FlashInv
  BY TypeInit, FlashInit
<1>2. TypeInv /\ FlashInv /\ [Next]_vars => (TypeInv /\ FlashInv)'
  BY TypeInvStep, ResetStep, FlashSafeStep, OverallStep DEF FlashInv
<1> QED
  BY <1>1, <1>2, PTL DEF Spec

(***************************************************************************)
(* What follows from it.                                                   *)
(***************************************************************************)

\* No region is ever given up: authenticate_and_recover_spi_flash can always
\* complete what a power loss has left incomplete.
THEOREM RegionsKept == ASSUME NoDamage PROVE Spec => []NoRegionLost
<1>1. TypeInv /\ FlashInv => NoRegionLost
  BY DEF FlashInv, Overall
<1> QED
  BY FlashInvariant, <1>1, PTL

\* The SVN policy never rises above complete firmware in service or kept.
THEOREM FloorCovered == ASSUME NoDamage PROVE Spec => []SvnFloorCovered
<1>1. TypeInv /\ FlashInv => SvnFloorCovered
  BY DEF FlashInv, Overall
<1> QED
  BY FlashInvariant, <1>1, PTL

\* What a step does to a flash is a step of FailsafeStore, or nothing.
LEMMA FlashRefines ==
  ASSUME TypeInv, FlashInv, NoDamage, [Next]_vars,
         NEW g \in Flashes
  PROVE  [Store(g)!Next]_<<active[g], recovery[g], svn[g]>>
<1> USE DEF TypeInv, TypeOK, StoreTypes, AskTypes, BootTypes, FlowTypes, Flashes,
   flashVars, bootVars, ramVars, At, Goto, Has, FlashInv, Overall,
   FlashSafe, ResetInv, Fresh, BeforeAuth, RecoveryWritten, ActiveWritten,
   FloorRaised, RecoveryInv, ActiveInv, StepInv, PlatformOps, SvnFloorCovered,
   Store!Next, Store!TakeApart, Store!Install, Store!Allowed, Store!Discard,
   Store!Promote, Store!Raise, SvnsIn, Raised
<1>1. ASSUME Oob PROVE [Store(g)!Next]_<<active[g], recovery[g], svn[g]>>
  BY <1>1, ImagesAssumption DEF Oob, OobBits, CountFailure
<1>2. ASSUME OobWrite PROVE [Store(g)!Next]_<<active[g], recovery[g], svn[g]>>
  BY <1>2, ImagesAssumption DEF OobWrite, OobBits
<1>3. ASSUME NEW f \in Flashes, Pend(f) PROVE [Store(g)!Next]_<<active[g], recovery[g], svn[g]>>
  BY <1>3, ImagesAssumption DEF Pend, Promotable, NextFlash
<1>4. ASSUME NEW f \in Flashes, Promote(f) PROVE [Store(g)!Next]_<<active[g], recovery[g], svn[g]>>
  BY <1>4, ImagesAssumption DEF Promote
<1>5. ASSUME NEW f \in Flashes, PendSvn(f) PROVE [Store(g)!Next]_<<active[g], recovery[g], svn[g]>>
  BY <1>5, ImagesAssumption DEF PendSvn, NextFlash
<1>6. ASSUME NEW f \in Flashes, Wdt(f) PROVE [Store(g)!Next]_<<active[g], recovery[g], svn[g]>>
  BY <1>6, ImagesAssumption DEF Wdt, WdtRecovered
<1>7. ASSUME NEW f \in Flashes, WdtWrite(f) PROVE [Store(g)!Next]_<<active[g], recovery[g], svn[g]>>
  BY <1>7, ImagesAssumption DEF WdtWrite, WdtRecovered, Firmware
<1>8. ASSUME NEW f \in Flashes, Intent(f) PROVE [Store(g)!Next]_<<active[g], recovery[g], svn[g]>>
  BY <1>8, ImagesAssumption DEF Intent, CountFailure, AfterIntent, Accepts
<1>9. ASSUME NEW f \in Flashes, IntentWrite(f) PROVE [Store(g)!Next]_<<active[g], recovery[g], svn[g]>>
  BY <1>9, ImagesAssumption DEF IntentWrite, AfterIntent, Firmware
<1>10. ASSUME NEW f \in Flashes, Auth(f) PROVE [Store(g)!Next]_<<active[g], recovery[g], svn[g]>>
  BY <1>10, ImagesAssumption DEF Auth, Promotable, EndAuth, AfterAuth, Authentic
<1>11. ASSUME NEW f \in Flashes, AuthSvn(f) PROVE [Store(g)!Next]_<<active[g], recovery[g], svn[g]>>
  BY <1>11, ImagesAssumption DEF AuthSvn
<1>12. ASSUME NEW f \in Flashes, AuthAct(f) PROVE [Store(g)!Next]_<<active[g], recovery[g], svn[g]>>
  BY <1>12, ImagesAssumption DEF AuthAct, EndAuth, AfterAuth, Authentic
<1>13. ASSUME NEW f \in Flashes, AuthWrite(f) PROVE [Store(g)!Next]_<<active[g], recovery[g], svn[g]>>
  BY <1>13, ImagesAssumption DEF AuthWrite, EndAuth, AfterAuth, Firmware
<1>14. ASSUME NEW f \in Flashes, Stages(f) PROVE [Store(g)!Next]_<<active[g], recovery[g], svn[g]>>
  BY <1>14, ImagesAssumption DEF Stages, Capsules
<1>15. ASSUME NEW f \in Flashes, FlashFault(f) PROVE [Store(g)!Next]_<<active[g], recovery[g], svn[g]>>
  BY <1>15, NothingDamaged
<1>16. CASE UNCHANGED flashVars
  BY <1>16
<1> QED BY <1>1, <1>2, <1>3, <1>4, <1>5, <1>6, <1>7, <1>8, <1>9, <1>10, <1>11,
   <1>12, <1>13, <1>14, <1>15, <1>16 DEF Next, Tmin1Step, T0Step, HostStep, EnvStep,
   vars, CpldIntent, EntryPlatform, EntryBmcOnly, EntryPchOnly, UpdateIntent,
   BmcReset, PostUpdate, PlatformReset, BootDone, Timeout, PostsIntent, PowerLoss

\* A step that takes a component out of reset finds its firmware authentic.
LEMMA BootStep ==
  ASSUME TypeInv, FlashInv, NoDamage, [Next]_vars
  PROVE  \A g \in up' \ up : Authentic(g)
<1> USE DEF TypeInv, TypeOK, StoreTypes, AskTypes, BootTypes, FlowTypes, Flashes,
   flashVars, bootVars, ramVars, At, Goto, Has, FlashInv, Overall,
   FlashSafe, ResetInv, Fresh, BeforeAuth, RecoveryWritten, ActiveWritten,
   FloorRaised, RecoveryInv, ActiveInv, StepInv, PlatformOps, Authentic, Bootable,
   EnterT0
<1>1. ASSUME CpldIntent PROVE \A g \in up' \ up : Authentic(g)
  BY <1>1, ImagesAssumption DEF CpldIntent, Restart, StartReset
<1>2. ASSUME EntryPlatform PROVE \A g \in up' \ up : Authentic(g)
  BY <1>2, ImagesAssumption DEF EntryPlatform, EnterT0
<1>3. ASSUME EntryBmcOnly PROVE \A g \in up' \ up : Authentic(g)
  BY <1>3, ImagesAssumption DEF EntryBmcOnly, EnterT0
<1>4. ASSUME EntryPchOnly PROVE \A g \in up' \ up : Authentic(g)
  BY <1>4, ImagesAssumption DEF EntryPchOnly, EnterT0
<1>5. ASSUME NEW f \in Flashes, UpdateIntent(f) PROVE \A g \in up' \ up : Authentic(g)
  BY <1>5, ImagesAssumption DEF UpdateIntent, StartReset, ResetFor, InT0
<1>6. ASSUME BmcReset PROVE \A g \in up' \ up : Authentic(g)
  BY <1>6, ImagesAssumption DEF BmcReset, StartReset, InT0
<1>7. ASSUME PostUpdate PROVE \A g \in up' \ up : Authentic(g)
  BY <1>7, ImagesAssumption DEF PostUpdate, StartReset, InT0
<1>8. ASSUME NEW p \in Parts, Timeout(p) PROVE \A g \in up' \ up : Authentic(g)
  BY <1>8, ImagesAssumption DEF Timeout, Owner, StartReset, InT0
<1>9. ASSUME PowerLoss PROVE \A g \in up' \ up : Authentic(g)
  BY <1>9, ImagesAssumption DEF PowerLoss, Restart, StartReset
<1>10. CASE UNCHANGED up
  BY <1>10
<1> QED BY <1>1, <1>2, <1>3, <1>4, <1>5, <1>6, <1>7, <1>8, <1>9, <1>10 DEF Next,
   Tmin1Step, T0Step, HostStep, EnvStep, vars, Oob, OobWrite, Pend, Promote,
   PendSvn, Wdt, WdtWrite, Intent, IntentWrite, Auth, AuthSvn, AuthAct, AuthWrite,
   PlatformReset, BootDone, Stages, PostsIntent, FlashFault

\* Only authentic firmware is ever taken out of reset.
THEOREM OnlyAuthenticBoots == ASSUME NoDamage PROVE Spec => BootsAuthentic
<1>1. TypeInv /\ FlashInv /\ [Next]_vars => [\A f \in up' \ up : Authentic(f)]_vars
  BY BootStep
<1> QED
  BY FlashInvariant, <1>1, PTL DEF Spec, BootsAuthentic

\* Each flash implements FailsafeStore: power may fail between any two writes
\* and the hosts may stage what they like, a copy is only taken apart while the
\* other one is complete, and is only replaced by what FailsafeStore allows.
THEOREM FlashesAreFailsafe == ASSUME NoDamage PROVE Spec => FailsafeFlash
<1>1. Init => \A f \in Flashes : Store(f)!Init
  BY ImagesAssumption DEF Init, Store!Init, Flashes
<1>2. TypeInv /\ FlashInv /\ [Next]_vars =>
        [\A f \in Flashes : [Store(f)!Next]_<<active[f], recovery[f], svn[f]>>]_vars
  BY FlashRefines
<1> QED
  BY FlashInvariant, <1>1, <1>2, PTL DEF Spec, FailsafeFlash

(***************************************************************************)
(* What holds whatever goes bad: flash may be damaged at any time in T0    *)
(* and while the power is off.                                             *)
(***************************************************************************)

\* Nothing in flash f is left to boot or to recover from.
Lost(f) == {active[f], recovery[f], staging[f]} \intersect Images[f] = {}

Recovering(f) == pc[1] \in {"authRec", "authSvn", "authAct", "authWrite"} /\ pc[2] = f

\* A reset of the platform has authenticated flash f.
Authenticated(f) ==
  \/ At("entry", "platform")
  \/ f = "bmc" /\ pc[2] = "pch" /\ mode = "platform"
     /\ pc[1] \notin PlatformOps \union {"t0", "lockdown"}

\* A flash is given up only when it is lost, and is then left as it is: nobody
\* runs who could write to it.
GivenUpInv ==
  /\ \A f \in Flashes : Recovering(f) => Bootable(f)
  /\ \A f \in Flashes : Authenticated(f) /\ ~Bootable(f) => Lost(f)
  /\ pc[1] = "lockdown" => up = {} /\ \A f \in Flashes : Lost(f)

\* The BMC runs unless its flash was given up: in T0, and for as long as the PCH
\* alone is reset.
BmcUpInv ==
  pc[1] = "t0" \/ (pc[1] # "lockdown" /\ mode = "pch") =>
    (Bootable("bmc") => "bmc" \in up)

HostInv == ResetInv /\ GivenUpInv /\ BmcUpInv

\* A platform that is powered up has given up nothing.
LEMMA HostInit == Init => HostInv
  BY DEF Init, Flashes, HostInv, ResetInv, GivenUpInv, BmcUpInv, Recovering,
     Authenticated, PlatformOps, At, Bootable, Has

\* No step gives up a flash that could be recovered, or writes to one that was
\* given up before all flashes have been authenticated.
LEMMA GivenUpStep ==
  ASSUME TypeInv, HostInv, [Next]_vars
  PROVE  GivenUpInv'
<1>1. CpldIntent => CpldOutcome
  BY CpldCases
<1> USE DEF TypeInv, TypeOK, StoreTypes, AskTypes, BootTypes, FlowTypes, Flashes,
   flashVars, bootVars, ramVars, At, Goto, Has, HostInv, ResetInv, PlatformOps,
   GivenUpInv, Lost, Recovering, Authenticated, Bootable
<1>2. ASSUME Oob PROVE GivenUpInv'
  BY <1>2, ImagesAssumption DEF Oob, OobBits, CountFailure
<1>3. ASSUME OobWrite PROVE GivenUpInv'
  BY <1>3, ImagesAssumption DEF OobWrite, OobBits
<1>4. ASSUME CpldIntent PROVE GivenUpInv'
  <2>1. CASE Restart
    BY <1>4, <2>1, <1>1 DEF CpldOutcome, Restart, StartReset
  <2>2. CASE ~Restart
    <3>1. UNCHANGED <<flashVars, flags, mode, up>>
      BY <1>4, <2>2, <1>1 DEF CpldOutcome
    <3>2. pc = <<"cpld", "bmc">> /\ pc' = <<"auth", "bmc">>
      BY <1>4, <2>2, <1>1 DEF CpldOutcome
    <3> QED
      BY <3>1, <3>2, ImagesAssumption
  <2> QED
    BY <2>1, <2>2
<1>5. ASSUME NEW f \in Flashes, Pend(f) PROVE GivenUpInv'
  BY <1>5, ImagesAssumption DEF Pend, Promotable, NextFlash
<1>6. ASSUME NEW f \in Flashes, Promote(f) PROVE GivenUpInv'
  BY <1>6, ImagesAssumption DEF Promote
<1>7. ASSUME NEW f \in Flashes, PendSvn(f) PROVE GivenUpInv'
  BY <1>7, ImagesAssumption DEF PendSvn, NextFlash
<1>8. ASSUME NEW f \in Flashes, Wdt(f) PROVE GivenUpInv'
  BY <1>8, ImagesAssumption DEF Wdt, WdtRecovered
<1>9. ASSUME NEW f \in Flashes, WdtWrite(f) PROVE GivenUpInv'
  BY <1>9, ImagesAssumption DEF WdtWrite, WdtRecovered
<1>10. ASSUME NEW f \in Flashes, Intent(f) PROVE GivenUpInv'
  BY <1>10, ImagesAssumption DEF Intent, CountFailure, AfterIntent
<1>11. ASSUME NEW f \in Flashes, IntentWrite(f) PROVE GivenUpInv'
  BY <1>11, ImagesAssumption DEF IntentWrite, AfterIntent
<1>12. ASSUME NEW f \in Flashes, Auth(f) PROVE GivenUpInv'
  BY <1>12, ImagesAssumption DEF Auth, Promotable, EndAuth, AfterAuth, Authentic
<1>13. ASSUME NEW f \in Flashes, AuthSvn(f) PROVE GivenUpInv'
  BY <1>13, ImagesAssumption DEF AuthSvn
<1>14. ASSUME NEW f \in Flashes, AuthAct(f) PROVE GivenUpInv'
  BY <1>14, ImagesAssumption DEF AuthAct, EndAuth, AfterAuth
<1>15. ASSUME NEW f \in Flashes, AuthWrite(f) PROVE GivenUpInv'
  BY <1>15, ImagesAssumption DEF AuthWrite, EndAuth, AfterAuth
<1>16. ASSUME EntryPlatform PROVE GivenUpInv'
  <2>1. UNCHANGED <<flashVars, flags>> /\ At("entry", "platform") /\ up = {}
    BY <1>16 DEF EntryPlatform
  <2>2. CASE \E f \in Flashes : Bootable(f)
    <3>1. pc' = <<"t0", "platform">>
      BY <1>16, <2>2 DEF EntryPlatform, EnterT0
    <3> QED
      BY <3>1
  <2>3. CASE \A f \in Flashes : ~Bootable(f)
    <3>1. pc' = <<"lockdown", "platform">> /\ up' = {}
      BY <1>16, <2>1, <2>3 DEF EntryPlatform
    <3>2. \A f \in Flashes : Lost(f)
      BY <2>1, <2>3
    <3> QED
      BY <2>1, <3>1, <3>2
  <2> QED
    BY <2>2, <2>3
<1>17. ASSUME EntryBmcOnly PROVE GivenUpInv'
  BY <1>17, ImagesAssumption DEF EntryBmcOnly, EnterT0
<1>18. ASSUME EntryPchOnly PROVE GivenUpInv'
  BY <1>18, ImagesAssumption DEF EntryPchOnly, EnterT0, BothBootable
<1>19. ASSUME NEW f \in Flashes, UpdateIntent(f) PROVE GivenUpInv'
  BY <1>19, ImagesAssumption DEF UpdateIntent, StartReset, ResetFor, InT0
<1>20. ASSUME BmcReset PROVE GivenUpInv'
  BY <1>20, ImagesAssumption DEF BmcReset, StartReset, InT0
<1>21. ASSUME PostUpdate PROVE GivenUpInv'
  BY <1>21, ImagesAssumption DEF PostUpdate, StartReset, InT0
<1>22. ASSUME PlatformReset PROVE GivenUpInv'
  BY <1>22, ImagesAssumption DEF PlatformReset, InT0
<1>23. ASSUME NEW p \in Parts, BootDone(p) PROVE GivenUpInv'
  BY <1>23, ImagesAssumption DEF BootDone, Owner, InT0
<1>24. ASSUME NEW p \in Parts, Timeout(p) PROVE GivenUpInv'
  BY <1>24, ImagesAssumption DEF Timeout, Owner, StartReset, InT0
<1>25. ASSUME NEW f \in Flashes, Stages(f) PROVE GivenUpInv'
  BY <1>25, ImagesAssumption DEF Stages
<1>26. ASSUME NEW f \in Flashes, PostsIntent(f) PROVE GivenUpInv'
  BY <1>26, ImagesAssumption DEF PostsIntent
<1>27. ASSUME NEW f \in Flashes, FlashFault(f) PROVE GivenUpInv'
  BY <1>27, ImagesAssumption DEF FlashFault, InT0
<1>28. ASSUME PowerLoss PROVE GivenUpInv'
  BY <1>28, ImagesAssumption DEF PowerLoss, Restart, StartReset
<1>29. CASE UNCHANGED vars
  BY <1>29 DEF vars
<1> QED BY <1>2, <1>3, <1>4, <1>5, <1>6, <1>7, <1>8, <1>9, <1>10, <1>11, <1>12,
   <1>13, <1>14, <1>15, <1>16, <1>17, <1>18, <1>19, <1>20, <1>21, <1>22, <1>23,
   <1>24, <1>25, <1>26, <1>27, <1>28, <1>29 DEF Next, Tmin1Step, T0Step, HostStep,
   EnvStep

\* No step lets the PCH be reset alone while the BMC, which could run, does not.
LEMMA BmcUpStep ==
  ASSUME TypeInv, HostInv, [Next]_vars
  PROVE  BmcUpInv'
<1>1. CpldIntent => CpldOutcome
  BY CpldCases
<1> USE DEF TypeInv, TypeOK, AskTypes, BootTypes, FlowTypes, Flashes, flashVars,
   bootVars, ramVars, At, Goto, Has, HostInv, ResetInv, PlatformOps, BmcUpInv, Bootable
<1>2. ASSUME Oob PROVE BmcUpInv'
  BY <1>2 DEF Oob, OobBits, CountFailure
<1>3. ASSUME OobWrite PROVE BmcUpInv'
  BY <1>3 DEF OobWrite, OobBits
<1>4. ASSUME CpldIntent PROVE BmcUpInv'
  <2>1. CASE Restart
    BY <1>4, <2>1, <1>1 DEF CpldOutcome, Restart, StartReset
  <2>2. CASE ~Restart
    <3>1. UNCHANGED <<flashVars, flags, mode, up>>
      BY <1>4, <2>2, <1>1 DEF CpldOutcome
    <3>2. pc = <<"cpld", "bmc">> /\ pc' = <<"auth", "bmc">>
      BY <1>4, <2>2, <1>1 DEF CpldOutcome
    <3> QED
      BY <3>1, <3>2
  <2> QED
    BY <2>1, <2>2
<1>5. ASSUME NEW f \in Flashes, Pend(f) PROVE BmcUpInv'
  BY <1>5 DEF Pend, Promotable, NextFlash
<1>6. ASSUME NEW f \in Flashes, Promote(f) PROVE BmcUpInv'
  BY <1>6 DEF Promote
<1>7. ASSUME NEW f \in Flashes, PendSvn(f) PROVE BmcUpInv'
  BY <1>7 DEF PendSvn, NextFlash
<1>8. ASSUME NEW f \in Flashes, Wdt(f) PROVE BmcUpInv'
  BY <1>8 DEF Wdt, WdtRecovered
<1>9. ASSUME NEW f \in Flashes, WdtWrite(f) PROVE BmcUpInv'
  BY <1>9 DEF WdtWrite, WdtRecovered
<1>10. ASSUME NEW f \in Flashes, Intent(f) PROVE BmcUpInv'
  BY <1>10 DEF Intent, CountFailure, AfterIntent
<1>11. ASSUME NEW f \in Flashes, IntentWrite(f) PROVE BmcUpInv'
  BY <1>11 DEF IntentWrite, AfterIntent
<1>12. ASSUME NEW f \in Flashes, Auth(f) PROVE BmcUpInv'
  BY <1>12 DEF Auth, Promotable, EndAuth, AfterAuth, Authentic
<1>13. ASSUME NEW f \in Flashes, AuthSvn(f) PROVE BmcUpInv'
  BY <1>13 DEF AuthSvn
<1>14. ASSUME NEW f \in Flashes, AuthAct(f) PROVE BmcUpInv'
  BY <1>14 DEF AuthAct, EndAuth, AfterAuth
<1>15. ASSUME NEW f \in Flashes, AuthWrite(f) PROVE BmcUpInv'
  BY <1>15 DEF AuthWrite, EndAuth, AfterAuth
<1>16. ASSUME EntryPlatform PROVE BmcUpInv'
  BY <1>16 DEF EntryPlatform, EnterT0
<1>17. ASSUME EntryBmcOnly PROVE BmcUpInv'
  BY <1>17 DEF EntryBmcOnly, EnterT0
<1>18. ASSUME EntryPchOnly PROVE BmcUpInv'
  BY <1>18 DEF EntryPchOnly, EnterT0, BothBootable
<1>19. ASSUME NEW f \in Flashes, UpdateIntent(f) PROVE BmcUpInv'
  BY <1>19 DEF UpdateIntent, StartReset, ResetFor, InT0
<1>20. ASSUME BmcReset PROVE BmcUpInv'
  BY <1>20 DEF BmcReset, StartReset, InT0
<1>21. ASSUME PostUpdate PROVE BmcUpInv'
  BY <1>21 DEF PostUpdate, StartReset, InT0
<1>22. ASSUME PlatformReset PROVE BmcUpInv'
  BY <1>22 DEF PlatformReset, InT0
<1>23. ASSUME NEW p \in Parts, BootDone(p) PROVE BmcUpInv'
  BY <1>23 DEF BootDone, Owner, InT0
<1>24. ASSUME NEW p \in Parts, Timeout(p) PROVE BmcUpInv'
  BY <1>24 DEF Timeout, Owner, StartReset, InT0
<1>25. ASSUME NEW f \in Flashes, Stages(f) PROVE BmcUpInv'
  BY <1>25 DEF Stages
<1>26. ASSUME NEW f \in Flashes, PostsIntent(f) PROVE BmcUpInv'
  BY <1>26 DEF PostsIntent
<1>27. ASSUME NEW f \in Flashes, FlashFault(f) PROVE BmcUpInv'
  BY <1>27 DEF FlashFault, InT0
<1>28. ASSUME PowerLoss PROVE BmcUpInv'
  BY <1>28 DEF PowerLoss, Restart, StartReset
<1>29. CASE UNCHANGED vars
  BY <1>29 DEF vars
<1> QED BY <1>2, <1>3, <1>4, <1>5, <1>6, <1>7, <1>8, <1>9, <1>10, <1>11, <1>12,
   <1>13, <1>14, <1>15, <1>16, <1>17, <1>18, <1>19, <1>20, <1>21, <1>22, <1>23,
   <1>24, <1>25, <1>26, <1>27, <1>28, <1>29 DEF Next, Tmin1Step, T0Step, HostStep,
   EnvStep

\* HostInv holds in every reachable state.
LEMMA HostInvariant == Spec => [](TypeInv /\ HostInv)
<1>1. Init => TypeInv /\ HostInv
  BY TypeInit, HostInit
<1>2. TypeInv /\ HostInv /\ [Next]_vars => (TypeInv /\ HostInv)'
  BY TypeInvStep, ResetStep, GivenUpStep, BmcUpStep DEF HostInv
<1> QED
  BY <1>1, <1>2, PTL DEF Spec

\* A step that releases the PCH alone finds the BMC running.
LEMMA PchStep ==
  ASSUME TypeInv, HostInv, [Next]_vars
  PROVE  up' \ up = {"pch"} => "bmc" \in up'
<1> SUFFICES ASSUME up' \ up = {"pch"} PROVE "bmc" \in up'
  OBVIOUS
<1>1. CpldIntent => CpldOutcome
  BY CpldCases
<1> USE DEF TypeInv, TypeOK, AskTypes, BootTypes, FlowTypes, Flashes, flashVars,
   bootVars, ramVars, At, Goto, Has, HostInv, ResetInv, PlatformOps, BmcUpInv, Bootable,
   BothBootable
<1>2. ASSUME CpldIntent PROVE "bmc" \in up'
  <2>1. CASE Restart
    BY <1>2, <2>1, <1>1 DEF CpldOutcome, Restart, StartReset
  <2>2. CASE ~Restart
    <3>1. UNCHANGED <<flashVars, flags, mode, up>>
      BY <1>2, <2>2, <1>1 DEF CpldOutcome
    <3>2. pc = <<"cpld", "bmc">> /\ pc' = <<"auth", "bmc">>
      BY <1>2, <2>2, <1>1 DEF CpldOutcome
    <3> QED
      BY <3>1, <3>2
  <2> QED
    BY <2>1, <2>2
<1>3. ASSUME EntryPlatform PROVE "bmc" \in up'
  BY <1>3 DEF EntryPlatform, EnterT0
<1>4. ASSUME EntryBmcOnly PROVE "bmc" \in up'
  BY <1>4 DEF EntryBmcOnly, EnterT0
<1>5. ASSUME EntryPchOnly PROVE "bmc" \in up'
  BY <1>5 DEF EntryPchOnly, EnterT0, BothBootable
<1>6. ASSUME NEW f \in Flashes, UpdateIntent(f) PROVE "bmc" \in up'
  BY <1>6 DEF UpdateIntent, StartReset, ResetFor, InT0
<1>7. ASSUME BmcReset PROVE "bmc" \in up'
  BY <1>7 DEF BmcReset, StartReset, InT0
<1>8. ASSUME PostUpdate PROVE "bmc" \in up'
  BY <1>8 DEF PostUpdate, StartReset, InT0
<1>9. ASSUME NEW p \in Parts, Timeout(p) PROVE "bmc" \in up'
  BY <1>9 DEF Timeout, Owner, StartReset, InT0
<1>10. ASSUME PowerLoss PROVE "bmc" \in up'
  BY <1>10 DEF PowerLoss, Restart, StartReset
<1>11. CASE UNCHANGED up
  BY <1>11
<1> QED BY <1>2, <1>3, <1>4, <1>5, <1>6, <1>7, <1>8, <1>9, <1>10, <1>11 DEF Next,
   Tmin1Step, T0Step, HostStep, EnvStep, vars, Oob, OobWrite, Pend, Promote, PendSvn,
   Wdt, WdtWrite, Intent, IntentWrite, Auth, AuthSvn, AuthAct, AuthWrite,
   PlatformReset, BootDone, Stages, PostsIntent, FlashFault

\* The PCH is only released next to a BMC that runs, whatever was damaged and
\* whichever resets of one component came before.
THEOREM PchAfterBmc == Spec => PchNeedsBmc
<1>1. TypeInv /\ HostInv /\ [Next]_vars => [up' \ up = {"pch"} => "bmc" \in up']_vars
  BY PchStep
<1> QED
  BY HostInvariant, <1>1, PTL DEF Spec, PchNeedsBmc

\* The platform is only locked down when neither flash has firmware left, in
\* service, kept for recovery or staged.
THEOREM LockdownIsJustified == Spec => []LockdownIsLast
<1>1. HostInv => LockdownIsLast
  BY DEF HostInv, GivenUpInv, LockdownIsLast, Lost
<1> QED
  BY HostInvariant, <1>1, PTL

=============================================================================
